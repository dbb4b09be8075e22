---------------------------- MODULE MCResultEffects ----------------------------
(* Instances of ResultEffects for TLC. *)
EXTENDS ResultEffects, TLC
=============================================================================
