------------------------ MODULE LocalDispatchRefines ------------------------
(***************************************************************************)
(* LocalDispatch implements DispatchLease: every step of the dispatchers,  *)
(* their goroutines, the handlers and the clock takes leases, gives them   *)
(* back, abandons them, lets time pass, or changes no lease.               *)
(***************************************************************************)
EXTENDS LocalDispatchProofs

-----------------------------------------------------------------------------
(* The view of a lease *)

\* When the lease of a task lapses, and who may give it back.
Left(t) == IF claim[t] > now THEN claim[t] ELSE 0
Keeps(r, t) == claim[t] > now /\ Knows(r, t, claim[t])

AbstractStep == [Abstract!Next]_<<now, Until, Holders>>

\* The abstract state is read off the rows and memories task by task.
LEMMA Views ==
    /\ Until = [t \in Tasks |-> Left(t)]
    /\ Until' = [t \in Tasks |-> Left(t)']
    /\ Holders = [t \in Tasks |-> {r \in Replicas : Keeps(r, t)}]
    /\ Holders' = [t \in Tasks |-> {r \in Replicas : Keeps(r, t)'}]
<1>1. \A r \in Replicas, t \in Tasks :
        /\ claim[t] > now /\ claim[t] \in Held(r, t) <=> Keeps(r, t)
        /\ (claim[t] > now /\ claim[t] \in Held(r, t))' <=> Keeps(r, t)'
  BY DEF Held, Keeps, Knows, InBatch, Running, Saving, Inflight
<1>2. Until = [t \in Tasks |-> Left(t)] /\ Until' = [t \in Tasks |-> Left(t)']
  BY DEF Until, Left
<1>3. Holders = [t \in Tasks |-> {r \in Replicas : Keeps(r, t)}]
  BY <1>1 DEF Holders
<1>4. Holders' = [t \in Tasks |-> {r \in Replicas : Keeps(r, t)'}]
  BY <1>1 DEF Holders
<1> QED BY <1>2, <1>3, <1>4

\* What is kept is the claim in the row.
LEMMA KeptIsKnown ==
  ASSUME NEW r \in Replicas, NEW t \in Tasks, NEW c \in Nat
  PROVE  /\ c = claim[t] => (Keeps(r, t) <=> c > now /\ Knows(r, t, c))
         /\ c = claim'[t] => (Keeps(r, t)' <=> c > now' /\ Knows(r, t, c)')
BY DEF Keeps, Knows, InBatch, Running, Saving

\* A running lease is kept by one replica at most.
LEMMA KeptByOne ==
  ASSUME TypeInv, LeaseInv, NEW r \in Replicas, NEW t \in Tasks, Keeps(r, t)
  PROVE  Holders[t] = {r}
<1>1. PICK c \in Nat : c = claim[t]
  BY DEF TypeInv, TypeOK
<1>2. \A q \in Replicas : Keeps(q, t) => q = r
  BY <1>1, KeptIsKnown DEF LeaseInv, Sole
<1> QED BY <1>2, Views

\* What every replica knows of the running lease of a task stays as it is.
Stays(t) ==
    /\ claim'[t] = claim[t]
    /\ \A r \in Replicas : Keeps(r, t)' <=> Keeps(r, t)

LEMMA StaysIfKnown ==
  ASSUME TypeInv, NEW t \in Tasks, now' = now, claim'[t] = claim[t],
         \A r \in Replicas : \A c \in Nat :
           c > now /\ c = claim[t] => (Knows(r, t, c)' <=> Knows(r, t, c))
  PROVE  Stays(t)
<1>1. PICK c \in Nat : c = claim[t]
  BY DEF TypeInv, TypeOK
<1> QED BY <1>1, KeptIsKnown DEF Stays

LEMMA NothingChanges ==
  ASSUME now' = now, \A t \in Tasks : Stays(t)
  PROVE  UNCHANGED <<now, Until, Holders>>
<1>1. \A t \in Tasks : Left(t)' = Left(t)
  BY DEF Stays, Left
<1>2. \A t \in Tasks : {r \in Replicas : Keeps(r, t)'} = {r \in Replicas : Keeps(r, t)}
  BY DEF Stays
<1>3. Until' = Until
  BY <1>1, Views
<1>4. Holders' = Holders
  BY <1>2, Views
<1> QED BY <1>3, <1>4

-----------------------------------------------------------------------------
(* Ways for a lease to end *)

\* A replica clears claims that it keeps, or that have lapsed.
LEMMA ClearingGivesBack ==
  ASSUME TypeInv, LeaseInv, NEW r \in Replicas, GivesBack(r), now' = now,
         \A t \in Tasks : Stays(t) \/ claim'[t] = 0
  PROVE  AbstractStep
<1> DEFINE S == {t \in Tasks : Keeps(r, t) /\ claim'[t] = 0}
<1>0. now \in Nat /\ claim \in [Tasks -> Nat]
  BY DEF TypeInv, TypeOK
<1>1. S \subseteq Abstract!HeldBy(r)
  BY KeptByOne DEF Abstract!HeldBy
<1>2. ASSUME NEW t \in Tasks, t \notin S, ~Stays(t)
      PROVE  Left(t)' = Left(t) /\ \A q \in Replicas : ~Keeps(q, t) /\ ~Keeps(q, t)'
  <2>1. claim'[t] = 0 /\ ~Keeps(r, t)
    BY <1>2
  <2>2. ~(claim[t] > now)
    <3> SUFFICES ASSUME claim[t] > now PROVE FALSE
      OBVIOUS
    <3>1. PICK c \in Nat : c = claim[t]
      BY <1>0
    <3>2. Knows(r, t, c)
      BY <1>0, <2>1, <3>1 DEF GivesBack
    <3> QED BY <2>1, <3>1, <3>2, KeptIsKnown
  <2> QED BY <1>0, <2>1, <2>2 DEF Left, Keeps
<1>3. \A t \in Tasks : Until'[t] = IF t \in S THEN 0 ELSE Until[t]
  <2> SUFFICES ASSUME NEW t \in Tasks PROVE Left(t)' = IF t \in S THEN 0 ELSE Left(t)
    BY Views
  <2>1. CASE t \in S
    BY <1>0, <2>1 DEF Left
  <2>2. CASE t \notin S /\ Stays(t)
    BY <2>2 DEF Left, Stays
  <2>3. CASE t \notin S /\ ~Stays(t)
    BY <1>2, <2>3
  <2> QED BY <2>1, <2>2, <2>3
<1>4. \A t \in Tasks : Holders'[t] = IF t \in S THEN {} ELSE Holders[t]
  <2> SUFFICES ASSUME NEW t \in Tasks
               PROVE  {q \in Replicas : Keeps(q, t)'}
                        = IF t \in S THEN {} ELSE {q \in Replicas : Keeps(q, t)}
    BY Views
  <2>1. CASE t \in S
    <3>1. \A q \in Replicas : ~Keeps(q, t)'
      BY <1>0, <2>1 DEF Keeps
    <3> QED BY <2>1, <3>1
  <2>2. CASE t \notin S /\ Stays(t)
    BY <2>2 DEF Stays
  <2>3. CASE t \notin S /\ ~Stays(t)
    BY <1>2, <2>3
  <2> QED BY <2>1, <2>2, <2>3
<1> HIDE DEF S
<1>5. /\ Until' = [t \in Tasks |-> IF t \in S THEN 0 ELSE Until[t]]
      /\ Holders' = [t \in Tasks |-> IF t \in S THEN {} ELSE Holders[t]]
  BY <1>3, <1>4, Views
<1>6. Abstract!GiveBack(r)
  BY <1>1, <1>5 DEF Abstract!GiveBack
<1> QED BY <1>6 DEF AbstractStep, Abstract!Next

\* A replica forgets claims that stay in their rows.
LEMMA ForgettingAbandons ==
  ASSUME TypeInv, LeaseInv, NEW r \in Replicas, now' = now, claim' = claim,
         \A q \in Replicas, t \in Tasks : \A c \in Nat : c > now /\ c = claim[t] =>
           /\ Knows(q, t, c)' => Knows(q, t, c)
           /\ q # r => (Knows(q, t, c)' <=> Knows(q, t, c))
  PROVE  AbstractStep
<1> DEFINE S == {t \in Tasks : Keeps(r, t) /\ ~Keeps(r, t)'}
<1>1. S \subseteq Abstract!HeldBy(r)
  BY KeptByOne DEF Abstract!HeldBy
<1>2. \A q \in Replicas, t \in Tasks :
        (Keeps(q, t)' => Keeps(q, t)) /\ (q # r => (Keeps(q, t)' <=> Keeps(q, t)))
  <2> SUFFICES ASSUME NEW q \in Replicas, NEW t \in Tasks
               PROVE  (Keeps(q, t)' => Keeps(q, t)) /\ (q # r => (Keeps(q, t)' <=> Keeps(q, t)))
    OBVIOUS
  <2>1. PICK c \in Nat : c = claim[t]
    BY DEF TypeInv, TypeOK
  <2> QED BY <2>1, KeptIsKnown
<1>3. \A t \in Tasks : Holders'[t] = IF t \in S THEN {} ELSE Holders[t]
  <2> SUFFICES ASSUME NEW t \in Tasks
               PROVE  {q \in Replicas : Keeps(q, t)'}
                        = IF t \in S THEN {} ELSE {q \in Replicas : Keeps(q, t)}
    BY Views
  <2>1. CASE t \in S
    <3>1. \A q \in Replicas : Keeps(q, t) => q = r
      BY <2>1, KeptByOne, Views
    <3> QED BY <1>2, <2>1, <3>1
  <2>2. CASE t \notin S
    BY <1>2, <2>2
  <2> QED BY <2>1, <2>2
<1>4. Until' = Until
  <2>1. \A t \in Tasks : Left(t)' = Left(t)
    BY DEF Left
  <2> QED BY <2>1, Views
<1> HIDE DEF S
<1>5. Holders' = [t \in Tasks |-> IF t \in S THEN {} ELSE Holders[t]]
  BY <1>3, Views
<1>6. Abstract!Abandon(r)
  BY <1>1, <1>4, <1>5 DEF Abstract!Abandon
<1> QED BY <1>6 DEF AbstractStep, Abstract!Next

-----------------------------------------------------------------------------
(* The dispatcher's steps *)

\* A tick that claims takes leases, whether it hears of them or not.
LEMMA ClaimTakes ==
  ASSUME TypeInv, LeaseInv, NEW r \in Replicas, ClaimDue(r)
  PROVE  AbstractStep
<1>0. PICK c0 \in Nat : c0 = now + Lease
  BY TimeAssumption DEF TypeInv, TypeOK
<1>1. PICK S \in SUBSET {t \in Tasks : Due(t)} :
        /\ claim' = [t \in Tasks |-> IF t \in S THEN c0 ELSE claim[t]]
        /\ \/ batch' = [batch EXCEPT ![r] = [tasks |-> S, claim |-> c0]]
           \/ UNCHANGED batch
  BY <1>0 DEF ClaimDue
<1>2. /\ now' = now /\ now \in Nat /\ c0 > now /\ claim \in [Tasks -> Nat]
      /\ pass' = pass /\ saving' = saving /\ batch[r].tasks = {}
      /\ batch \in [Replicas -> [tasks : SUBSET Tasks, claim : Nat]]
  BY <1>0, TimeAssumption DEF ClaimDue, NoBatch, TypeInv, TypeOK
<1>3. \A t \in S : claim[t] <= now /\ claim'[t] = c0
  BY <1>1 DEF Due
<1>4. \A q \in Replicas, t \in S : ~Knows(q, t, c0)
  <2> SUFFICES ASSUME NEW q \in Replicas, NEW t \in S, Knows(q, t, c0) PROVE FALSE
    OBVIOUS
  <2>1. t \in Tasks /\ claim[t] <= now /\ claim[t] \in Nat
    BY <1>2, <1>3
  <2>2. claim[t] = c0
    BY <1>2, <2>1 DEF LeaseInv, Live
  <2> QED BY <1>2, <2>1, <2>2
<1>5. \A q \in Replicas, t \in Tasks : \A c \in Nat :
        Knows(q, t, c)' <=> Knows(q, t, c) \/ InBatch(q, t, c)'
  BY <1>1, <1>2 DEF Knows, InBatch, Running, Saving
<1>6. \A t \in Tasks : t \notin S => Stays(t)
  <2> SUFFICES ASSUME NEW t \in Tasks, t \notin S PROVE Stays(t)
    OBVIOUS
  <2>1. \A q \in Replicas : \A c \in Nat : InBatch(q, t, c)' => InBatch(q, t, c)
    <3>1. CASE UNCHANGED batch
      BY <3>1 DEF InBatch
    <3>2. CASE batch' = [batch EXCEPT ![r] = [tasks |-> S, claim |-> c0]]
      <4>1. batch'[r].tasks = S /\ \A q \in Replicas : q # r => batch'[q] = batch[q]
        BY <1>2, <3>2
      <4> QED BY <4>1 DEF InBatch
    <3> QED BY <1>1, <3>1, <3>2
  <2>2. claim'[t] = claim[t]
    BY <1>1
  <2> QED BY <1>2, <1>5, <2>1, <2>2, StaysIfKnown DEF Knows
<1>7. \E H \in {{}, {r}} : \A t \in S : {q \in Replicas : Keeps(q, t)'} = H
  <2>1. \A q \in Replicas, t \in S : Keeps(q, t)' <=> InBatch(q, t, c0)'
    <3> SUFFICES ASSUME NEW q \in Replicas, NEW t \in S
                 PROVE  Keeps(q, t)' <=> InBatch(q, t, c0)'
      OBVIOUS
    <3>1. t \in Tasks /\ claim'[t] = c0 /\ c0 > now'
      BY <1>2, <1>3
    <3>2. Keeps(q, t)' <=> Knows(q, t, c0)'
      BY <1>2, <3>1, KeptIsKnown
    <3> QED BY <1>2, <1>4, <1>5, <3>1, <3>2
  <2>2. CASE UNCHANGED batch
    <3>1. \A q \in Replicas, t \in S : ~InBatch(q, t, c0)'
      <4>1. \A q \in Replicas, t \in S : ~InBatch(q, t, c0)
        BY <1>4 DEF Knows
      <4> QED BY <2>2, <4>1 DEF InBatch
    <3> QED BY <2>1, <3>1
  <2>3. CASE batch' = [batch EXCEPT ![r] = [tasks |-> S, claim |-> c0]]
    <3>1. /\ batch'[r].tasks = S /\ batch'[r].claim = c0
          /\ \A q \in Replicas : q # r => batch'[q] = batch[q]
      BY <1>2, <2>3
    <3>2. \A q \in Replicas, t \in S : InBatch(q, t, c0)' <=> q = r
      <4>1. \A q \in Replicas, t \in S : ~InBatch(q, t, c0)
        BY <1>4 DEF Knows
      <4> QED BY <3>1, <4>1 DEF InBatch
    <3> QED BY <2>1, <3>2
  <2> QED BY <1>1, <2>2, <2>3
<1>8. PICK H \in {{}, {r}} : \A t \in S : {q \in Replicas : Keeps(q, t)'} = H
  BY <1>7
<1>9. S \subseteq {t \in Tasks : Until[t] = 0}
  BY <1>2, <1>3, Views DEF Left
<1>10. \A t \in Tasks : Until'[t] = IF t \in S THEN c0 ELSE Until[t]
  <2>1. \A t \in S : Left(t)' = c0
    BY <1>2, <1>3 DEF Left
  <2>2. \A t \in Tasks : t \notin S => Left(t)' = Left(t)
    BY <1>2, <1>6 DEF Left, Stays
  <2> QED BY <2>1, <2>2, Views
<1>11. \A t \in Tasks : Holders'[t] = IF t \in S THEN H ELSE Holders[t]
  <2>1. \A t \in Tasks : t \notin S =>
          {q \in Replicas : Keeps(q, t)'} = {q \in Replicas : Keeps(q, t)}
    BY <1>6 DEF Stays
  <2> QED BY <1>8, <2>1, Views
<1>12. /\ Until' = [t \in Tasks |-> IF t \in S THEN now + Lease ELSE Until[t]]
       /\ Holders' = [t \in Tasks |-> IF t \in S THEN H ELSE Holders[t]]
  BY <1>0, <1>10, <1>11, Views
<1>13. Abstract!Take(r)
  BY <1>2, <1>9, <1>12 DEF Abstract!Take
<1> QED BY <1>13 DEF AbstractStep, Abstract!Next

\* A claim that moves to the goroutine stays with its replica.
LEMMA FireKeeps ==
  ASSUME TypeInv, LeaseInv, NEW r \in Replicas, NEW t \in Tasks, Fire(r, t)
  PROVE  AbstractStep
<1>1. \A u \in Tasks : Stays(u)
  BY FireMoves, StaysIfKnown
<1> QED BY <1>1, FireMoves, NothingChanges DEF AbstractStep

\* So does one that moves on to the last statement.
LEMMA UntrackKeeps ==
  ASSUME TypeInv, NEW r \in Replicas, NEW t \in Tasks, Untrack(r, t)
  PROVE  AbstractStep
<1>1. \A u \in Tasks : Stays(u)
  BY UntrackMoves, StaysIfKnown
<1> QED BY <1>1, UntrackMoves, NothingChanges DEF AbstractStep

\* A batch that is handed back gives back what its rows still hold, or leaves
\* it to lapse when the statement fails.
LEMMA ReleaseEnds ==
  ASSUME TypeInv, LeaseInv, NEW r \in Replicas, ReleaseBatch(r)
  PROVE  AbstractStep
<1> DEFINE own == {t \in batch[r].tasks : Owns(t, batch[r].claim)}
<1>1. /\ now' = now /\ pass' = pass /\ saving' = saving /\ claim \in [Tasks -> Nat]
      /\ batch' = [batch EXCEPT ![r] = NoBatch]
      /\ batch \in [Replicas -> [tasks : SUBSET Tasks, claim : Nat]]
  BY DEF ReleaseBatch, TypeInv, TypeOK
<1>2. claim' = [t \in Tasks |-> IF t \in own THEN 0 ELSE claim[t]] \/ claim' = claim
  BY DEF ReleaseBatch
<1>3. /\ batch'[r].tasks = {}
      /\ \A q \in Replicas : q # r => batch'[q] = batch[q]
  BY <1>1 DEF NoBatch
<1>4. \A q \in Replicas, t \in Tasks : \A c \in Nat :
        /\ Knows(q, t, c)' => Knows(q, t, c)
        /\ q # r => (Knows(q, t, c)' <=> Knows(q, t, c))
  BY <1>1, <1>3 DEF Knows, InBatch, Running, Saving
<1>5. CASE claim' = claim
  BY <1>1, <1>4, <1>5, ForgettingAbandons
<1>6. CASE claim' = [t \in Tasks |-> IF t \in own THEN 0 ELSE claim[t]]
  <2>1. ASSUME NEW t \in Tasks, t \notin own PROVE Stays(t)
    <3>1. \A c \in Nat : c = claim[t] => ~InBatch(r, t, c)
      BY <2>1 DEF InBatch, Owns
    <3>2. \A q \in Replicas : \A c \in Nat :
            c = claim[t] => (InBatch(q, t, c)' <=> InBatch(q, t, c))
      BY <1>3, <3>1 DEF InBatch
    <3>3. \A q \in Replicas : \A c \in Nat :
            c = claim[t] => (Knows(q, t, c)' <=> Knows(q, t, c))
      BY <1>1, <3>2 DEF Knows, Running, Saving
    <3>4. claim'[t] = claim[t]
      BY <1>6, <2>1
    <3> QED BY <1>1, <3>3, <3>4, StaysIfKnown
  <2>2. \A t \in Tasks : t \in own => claim'[t] = 0
    BY <1>6
  <2>3. \A t \in Tasks : Stays(t) \/ claim'[t] = 0
    BY <2>1, <2>2
  <2>4. GivesBack(r)
    BY ReleaseGivesBack
  <2> QED BY <1>1, <2>3, <2>4, ClearingGivesBack
<1> QED BY <1>2, <1>5, <1>6

\* So does the last statement of a goroutine; it touches no other task.
LEMMA RecordEnds ==
  ASSUME TypeInv, LeaseInv, NEW r \in Replicas, Record(r)
  PROVE  AbstractStep
<1>1. PICK x \in saving[r] :
        /\ RecordSuccess(r, x) \/ RecordFailure(r, x)
           \/ RecordRelease(r, x) \/ RecordLost(r, x)
        /\ saving' = [saving EXCEPT ![r] = @ \ {x}]
        /\ UNCHANGED <<now, status, key, batch, pass, stopping, late>>
  BY DEF Record
<1>2. /\ now \in Nat /\ x.task \in Tasks /\ x.claim \in Nat
      /\ saving \in [Replicas -> SUBSET Savings] /\ claim \in [Tasks -> Nat]
  BY DEF TypeInv, TypeOK, Savings
<1>3. claim' = claim \/ claim' = Cleared(x.task, x.claim)
  BY <1>1 DEF RecordSuccess, RecordFailure, RecordRelease, RecordLost
<1>4. saving'[r] = saving[r] \ {x} /\ \A q \in Replicas : q # r => saving'[q] = saving[q]
  BY <1>1, <1>2
<1>5. \A q \in Replicas, t \in Tasks : \A c \in Nat :
        /\ Knows(q, t, c)' => Knows(q, t, c)
        /\ q # r \/ t # x.task \/ c # x.claim => (Knows(q, t, c)' <=> Knows(q, t, c))
  BY <1>1, <1>4 DEF Knows, InBatch, Running, Saving
<1>6. CASE claim' = claim
  BY <1>1, <1>5, <1>6, ForgettingAbandons
<1>7. CASE claim' # claim
  <2>1. claim' = [claim EXCEPT ![x.task] = 0] /\ claim[x.task] = x.claim
    BY <1>3, <1>7 DEF Cleared, Owns
  <2>2. \A t \in Tasks : Stays(t) \/ claim'[t] = 0
    <3> SUFFICES ASSUME NEW t \in Tasks, t # x.task PROVE Stays(t)
      BY <1>2, <2>1
    <3>1. claim'[t] = claim[t]
      BY <1>2, <2>1
    <3> QED BY <1>1, <1>5, <3>1, StaysIfKnown
  <2>3. GivesBack(r)
    BY RecordGivesBack
  <2> QED BY <1>1, <2>2, <2>3, ClearingGivesBack
<1> QED BY <1>6, <1>7

\* A replica that dies leaves everything it kept to lapse.
LEMMA DieAbandons ==
  ASSUME TypeInv, LeaseInv, NEW r \in Replicas, Die(r)
  PROVE  AbstractStep
<1>1. /\ now' = now /\ claim' = claim
      /\ batch' = [batch EXCEPT ![r] = NoBatch] /\ saving' = [saving EXCEPT ![r] = {}]
      /\ pass' = [pass EXCEPT ![r] = [t \in Tasks |-> IdlePass]]
      /\ batch \in [Replicas -> [tasks : SUBSET Tasks, claim : Nat]]
      /\ pass \in [Replicas -> [Tasks -> Passes]]
      /\ saving \in [Replicas -> SUBSET Savings]
  BY DEF Die, table, TypeInv, TypeOK
<1>2. /\ batch'[r].tasks = {} /\ saving'[r] = {}
      /\ \A t \in Tasks : pass'[r][t].pc = "idle"
      /\ \A q \in Replicas : q # r =>
           batch'[q] = batch[q] /\ pass'[q] = pass[q] /\ saving'[q] = saving[q]
  BY <1>1 DEF NoBatch, IdlePass
<1>3. \A q \in Replicas, t \in Tasks : \A c \in Nat :
        IF q = r THEN ~Knows(q, t, c)' ELSE Knows(q, t, c)' <=> Knows(q, t, c)
  BY <1>2 DEF Knows, InBatch, Running, Saving
<1> QED BY <1>1, <1>3, ForgettingAbandons

-----------------------------------------------------------------------------
(* The clock and the handlers *)

\* Time passes, and the leases it reaches lapse.
LEMMA TickLapses ==
  ASSUME TypeInv, Tick
  PROVE  AbstractStep
<1>1. /\ now' = now + 1 /\ now \in Nat /\ claim' = claim /\ claim \in [Tasks -> Nat]
      /\ batch' = batch /\ pass' = pass /\ saving' = saving
  BY DEF Tick, table, memory, TypeInv, TypeOK
<1>2. \A t \in Tasks : Until'[t] = IF Until[t] > now' THEN Until[t] ELSE 0
  <2>1. \A t \in Tasks : Left(t)' = IF Left(t) > now' THEN Left(t) ELSE 0
    BY <1>1 DEF Left
  <2> QED BY <2>1, Views
<1>3. \A t \in Tasks : Holders'[t] = IF Until[t] > now' THEN Holders[t] ELSE {}
  <2> SUFFICES ASSUME NEW t \in Tasks
               PROVE  {r \in Replicas : Keeps(r, t)'}
                        = IF Left(t) > now' THEN {r \in Replicas : Keeps(r, t)} ELSE {}
    BY Views
  <2>1. \A r \in Replicas : Knows(r, t, claim[t])' <=> Knows(r, t, claim[t])
    BY <1>1 DEF Knows, InBatch, Running, Saving
  <2>2. Left(t) > now' <=> claim[t] > now'
    BY <1>1 DEF Left
  <2>3. \A r \in Replicas : Keeps(r, t)' <=> claim[t] > now' /\ Keeps(r, t)
    BY <1>1, <2>1 DEF Keeps
  <2> QED BY <2>2, <2>3
<1>4. /\ Until' = [t \in Tasks |-> IF Until[t] > now' THEN Until[t] ELSE 0]
      /\ Holders' = [t \in Tasks |-> IF Until[t] > now' THEN Holders[t] ELSE {}]
  BY <1>2, <1>3, Views
<1>5. Abstract!Tick
  BY <1>1, <1>4 DEF Abstract!Tick
<1> QED BY <1>5 DEF AbstractStep, Abstract!Next

\* A pass that begins, moves on or returns keeps its lease.
LEMMA HandlerKeeps ==
  ASSUME TypeInv, UNCHANGED <<now, claim, batch, saving>>,
         \A r \in Replicas, t \in Tasks :
           /\ (pass'[r][t].pc = "idle") <=> (pass[r][t].pc = "idle")
           /\ pass'[r][t].lease = pass[r][t].lease
  PROVE  AbstractStep
<1>1. \A r \in Replicas, t \in Tasks : \A c \in Nat : Knows(r, t, c)' <=> Knows(r, t, c)
  BY DEF Knows, InBatch, Running, Saving
<1>2. \A t \in Tasks : Stays(t)
  BY <1>1, StaysIfKnown
<1> QED BY <1>2, NothingChanges DEF AbstractStep

LEMMA ReadKeyKeeps ==
  ASSUME TypeInv, NEW r \in Replicas, NEW t \in Tasks, ReadKey(r, t)
  PROVE  AbstractStep
<1> DEFINE v == Verdict(key[t])
           p == [pass[r][t] EXCEPT !.pc = v, !.claim = pass[r][t].lease, !.begun = now]
<1>1. /\ pass' = [pass EXCEPT ![r][t] = p] /\ pass[r][t].pc = "fired"
      /\ pass \in [Replicas -> [Tasks -> Passes]]
      /\ UNCHANGED <<now, claim, batch, saving>>
  BY DEF ReadKey, table, TypeInv, TypeOK
<1>2. v # "idle"
  BY DEF Verdict
<1> HIDE DEF v
<1>3. p.pc # "idle" /\ p.lease = pass[r][t].lease
  BY <1>1, <1>2 DEF Passes
<1> HIDE DEF p
<1>4. /\ pass'[r][t] = p
      /\ \A q \in Replicas, u \in Tasks : q # r \/ u # t => pass'[q][u] = pass[q][u]
  BY <1>1
<1> QED BY <1>1, <1>3, <1>4, HandlerKeeps

LEMMA WriteKeyKeeps ==
  ASSUME TypeInv, NEW r \in Replicas, NEW t \in Tasks, WriteKey(r, t) \/ EndPass(r, t)
  PROVE  AbstractStep
<1>1. PICK pc \in PassPCs \ {"idle"} : SetPass(r, t, pc)
  BY DEF WriteKey, TouchKey, TakeKey, MissKey, EndPass, PassPCs
<1>2. pass[r][t].pc # "idle" /\ UNCHANGED <<now, claim, batch, saving>>
  BY DEF WriteKey, TouchKey, TakeKey, MissKey, EndPass
<1>3. TypeOK
  BY DEF TypeInv
<1> QED BY <1>1, <1>2, <1>3, PcSet, HandlerKeeps

-----------------------------------------------------------------------------
(* The refinement *)

LEMMA StepRefines ==
  ASSUME TypeInv, LeaseInv, [Next]_vars
  PROVE  AbstractStep
<1>1. CASE UNCHANGED pass /\ UNCHANGED <<now, claim, batch, saving>>
  BY <1>1, HandlerKeeps
<1>2. CASE \E r \in Replicas : Stop(r)
  BY <1>1, <1>2 DEF Stop, table
<1>3. CASE \E r \in Replicas, t \in Tasks : Work(r, t)
  BY <1>1, <1>3 DEF Work, memory
<1>4. CASE UNCHANGED vars
  BY <1>1, <1>4 DEF vars, table, memory
<1> QED
  BY <1>2, <1>3, <1>4, TickLapses, ClaimTakes, ReleaseEnds, RecordEnds, DieAbandons,
     FireKeeps, UntrackKeeps, ReadKeyKeeps, WriteKeyKeeps DEF Next

\* The dispatcher implements the abstract lease, for any replicas, tasks and
\* durations: however claims wander through batches, goroutines and last
\* statements, and whatever is lost, a lease is taken only when none runs and is
\* ended early only by the one replica that holds it (local.go; pg_task.go,
\* ClaimDueTaskIDs, RecordDispatchAttempt and ReleaseDispatchClaims).
THEOREM ImplementsALease == Spec => ImplementsLease
<1>1. Init => Abstract!Init
  <2> SUFFICES ASSUME Init PROVE Abstract!Init
    OBVIOUS
  <2>1. now = 1 /\ \A t \in Tasks : claim[t] = 0
    BY DEF Init
  <2>2. \A t \in Tasks : Left(t) = 0 /\ {r \in Replicas : Keeps(r, t)} = {}
    BY <2>1 DEF Left, Keeps
  <2> QED BY <2>1, <2>2, Views DEF Abstract!Init
<1>2. TypeInv /\ LeaseInv /\ [Next]_vars => [Abstract!Next]_(Abstract!vars)
  BY StepRefines DEF AbstractStep, Abstract!vars
<1> QED BY <1>1, <1>2, LeaseInvariant, PTL DEF Spec, ImplementsLease, Abstract!Spec
=============================================================================
