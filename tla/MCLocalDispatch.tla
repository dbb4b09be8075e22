--------------------------- MODULE MCLocalDispatch ---------------------------
(* Instances of LocalDispatch for TLC. *)
EXTENDS LocalDispatch, TLC

CONSTANTS a, b

BothReplicas == {a, b}

Interchangeable == Permutations(BothReplicas) \cup Permutations(Tasks)
=============================================================================
