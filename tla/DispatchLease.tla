---------------------------- MODULE DispatchLease ----------------------------
(***************************************************************************)
(* What the local dispatcher promises, without batches, goroutines, last   *)
(* statements and failures: a lease of a fixed length on a task, that one  *)
(* replica takes when none runs, that it alone gives back early, and that  *)
(* lapses by itself when it is not.                                        *)
(***************************************************************************)
EXTENDS Naturals

CONSTANTS Replicas, Tasks, Lease

VARIABLES
    now,     \* the clock
    until,   \* per task, when its running lease lapses; 0 when none runs
    holders  \* per task, who may give the running lease back: one, or nobody

vars == <<now, until, holders>>

TypeOK ==
    /\ now \in Nat
    /\ until \in [Tasks -> Nat]
    /\ holders \in [Tasks -> SUBSET Replicas]

Init ==
    /\ now = 1
    /\ until = [t \in Tasks |-> 0]
    /\ holders = [t \in Tasks |-> {}]

\* The replica may never learn that it was granted the leases.
Take(r) ==
    /\ \E S \in SUBSET {t \in Tasks : until[t] = 0}, H \in {{}, {r}} :
          /\ until' = [t \in Tasks |-> IF t \in S THEN now + Lease ELSE until[t]]
          /\ holders' = [t \in Tasks |-> IF t \in S THEN H ELSE holders[t]]
    /\ UNCHANGED now

HeldBy(r) == {t \in Tasks : holders[t] = {r}}

GiveBack(r) ==
    /\ \E S \in SUBSET HeldBy(r) :
          /\ until' = [t \in Tasks |-> IF t \in S THEN 0 ELSE until[t]]
          /\ holders' = [t \in Tasks |-> IF t \in S THEN {} ELSE holders[t]]
    /\ UNCHANGED now

\* A replica that dies, or whose statement is lost, leaves the lease to lapse.
Abandon(r) ==
    /\ \E S \in SUBSET HeldBy(r) :
          holders' = [t \in Tasks |-> IF t \in S THEN {} ELSE holders[t]]
    /\ UNCHANGED <<now, until>>

Tick ==
    /\ now' = now + 1
    /\ until' = [t \in Tasks |-> IF until[t] > now' THEN until[t] ELSE 0]
    /\ holders' = [t \in Tasks |-> IF until[t] > now' THEN holders[t] ELSE {}]

Next == Tick \/ \E r \in Replicas : Take(r) \/ GiveBack(r) \/ Abandon(r)

Spec == Init /\ [][Next]_vars
=============================================================================
