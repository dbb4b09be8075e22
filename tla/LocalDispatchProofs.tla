------------------------- MODULE LocalDispatchProofs -------------------------
(* What holds of LocalDispatch for any replicas, tasks and durations; *)
(* only the pool needs that the tasks are finitely many.              *)
EXTENDS LocalDispatch, FiniteSetTheorems, TLAPS

USE CapAssumption, TimeAssumption

-----------------------------------------------------------------------------
(* Types *)

\* What is claimed has a lease: untrack never finds a zero.
Claimed ==
    \A r \in Replicas :
      /\ batch[r].tasks # {} => batch[r].claim # 0
      /\ \A t \in Tasks : pass[r][t].pc # "idle" => pass[r][t].lease # 0

TypeInv == TypeOK /\ Claimed

\* Moving a pass on changes its pc and nothing else.
LEMMA PcSet ==
  ASSUME TypeOK, NEW r \in Replicas, NEW t \in Tasks, NEW pc \in PassPCs, SetPass(r, t, pc)
  PROVE  /\ pass' \in [Replicas -> [Tasks -> Passes]]
         /\ \A q \in Replicas, u \in Tasks :
              q # r \/ u # t => pass'[q][u] = pass[q][u]
         /\ pass'[r][t].pc = pc
         /\ pass'[r][t].lease = pass[r][t].lease
         /\ pass'[r][t].claim = pass[r][t].claim
         /\ pass'[r][t].begun = pass[r][t].begun
<1> DEFINE p == [pass[r][t] EXCEPT !.pc = pc]
<1>1. pass \in [Replicas -> [Tasks -> Passes]]
  BY DEF TypeOK
<1>2. /\ p \in Passes /\ p.pc = pc /\ p.lease = pass[r][t].lease
      /\ p.claim = pass[r][t].claim /\ p.begun = pass[r][t].begun
  BY <1>1 DEF Passes
<1>3. pass' = [pass EXCEPT ![r][t] = p]
  BY DEF SetPass
<1> HIDE DEF p
<1>4. \A q \in Replicas, u \in Tasks : pass'[q][u] = IF q = r /\ u = t THEN p ELSE pass[q][u]
  BY <1>1, <1>3
<1>5. pass' \in [Replicas -> [Tasks -> Passes]]
  BY <1>1, <1>2, <1>3
<1> QED BY <1>2, <1>4, <1>5 DEF p

LEMMA TypeInvariant == Spec => []TypeInv
<1>1. Init => TypeInv
  BY DEF Init, TypeInv, Claimed, TypeOK, NoBatch, IdlePass, Passes, PassPCs, Statuses, KeyStatuses
<1>2. TypeInv /\ [Next]_vars => TypeInv'
  <2> SUFFICES ASSUME TypeInv, [Next]_vars PROVE TypeInv'
    OBVIOUS
  <2> USE DEF TypeInv, Claimed, TypeOK, table, memory
  <2>1. CASE Tick
    BY <2>1 DEF Tick
  <2>2. ASSUME NEW r \in Replicas, ClaimDue(r) PROVE TypeInv'
    <3>1. PICK S \in SUBSET {t \in Tasks : Due(t)} :
            /\ claim' = [t \in Tasks |-> IF t \in S THEN now + Lease ELSE claim[t]]
            /\ \/ batch' = [batch EXCEPT ![r] = [tasks |-> S, claim |-> now + Lease]]
               \/ UNCHANGED batch
            /\ forsaken' = forsaken \ S \/ forsaken' = forsaken \cup S
      BY <2>2 DEF ClaimDue
    <3>2. S \subseteq Tasks /\ now + Lease \in Nat /\ now + Lease # 0
      BY TimeAssumption
    <3>3. claim' \in [Tasks -> Nat] /\ forsaken' \subseteq Tasks
      BY <3>1, <3>2
    <3>4. batch' \in [Replicas -> [tasks : SUBSET Tasks, claim : Nat]]
      <4>1. [tasks |-> S, claim |-> now + Lease] \in [tasks : SUBSET Tasks, claim : Nat]
        BY <3>2
      <4> QED BY <3>1, <4>1
    <3>5. \A q \in Replicas : batch'[q].tasks # {} => batch'[q].claim # 0
      <4> DEFINE b == [tasks |-> S, claim |-> now + Lease]
      <4>1. b.claim # 0
        BY <3>2
      <4>2. batch' = [batch EXCEPT ![r] = b] \/ batch' = batch
        BY <3>1
      <4> HIDE DEF b
      <4> QED BY <4>1, <4>2
    <3> QED BY <2>2, <3>3, <3>4, <3>5 DEF ClaimDue
  <2>3. ASSUME NEW r \in Replicas, ReleaseBatch(r) PROVE TypeInv'
    <3>1. /\ batch' = [batch EXCEPT ![r] = NoBatch]
          /\ UNCHANGED <<now, status, retryAt, key, pass, saving, stopping, late>>
      BY <2>3 DEF ReleaseBatch
    <3>2. NoBatch \in [tasks : SUBSET Tasks, claim : Nat] /\ NoBatch.tasks = {}
      BY DEF NoBatch
    <3>3. /\ batch' \in [Replicas -> [tasks : SUBSET Tasks, claim : Nat]]
          /\ \A q \in Replicas : batch'[q].tasks # {} => batch'[q].claim # 0
      BY <3>1, <3>2
    <3>4. claim' \in [Tasks -> Nat] /\ forsaken' \subseteq Tasks
      BY <2>3 DEF ReleaseBatch
    <3> QED BY <3>1, <3>3, <3>4
  <2>4. ASSUME NEW r \in Replicas, Record(r) PROVE TypeInv'
    <3>1. PICK x \in saving[r] :
            /\ RecordSuccess(r, x) \/ RecordFailure(r, x)
               \/ RecordRelease(r, x) \/ RecordLost(r, x)
            /\ saving' = [saving EXCEPT ![r] = @ \ {x}]
            /\ UNCHANGED <<now, status, key, batch, pass, stopping, late>>
      BY <2>4 DEF Record
    <3>2. x.task \in Tasks /\ x.claim \in Nat
      BY DEF Savings
    <3>3. Cleared(x.task, x.claim) \in [Tasks -> Nat]
      BY <3>2 DEF Cleared, Owns
    <3>4. claim' \in [Tasks -> Nat] /\ retryAt' \in [Tasks -> Nat] /\ forsaken' \subseteq Tasks
      BY <3>1, <3>2, <3>3
         DEF RecordSuccess, RecordFailure, RecordRelease, RecordLost, Later
    <3> QED BY <3>1, <3>4
  <2>5. ASSUME NEW r \in Replicas, Stop(r) PROVE TypeInv'
    BY <2>5 DEF Stop
  <2>6. ASSUME NEW r \in Replicas, Die(r) PROVE TypeInv'
    BY <2>6 DEF Die, NoBatch, IdlePass, Passes, PassPCs
  <2>7. ASSUME NEW r \in Replicas, NEW t \in Tasks, Fire(r, t) PROVE TypeInv'
    <3>1. Tracked(pass[r][t], batch[r].claim) \in Passes
      <4>1. pass[r][t] \in Passes /\ batch[r].claim \in Nat
        OBVIOUS
      <4>2. [IdlePass EXCEPT !.pc = "fired", !.lease = batch[r].claim] \in Passes
        BY <4>1 DEF IdlePass, Passes, PassPCs
      <4>3. [pass[r][t] EXCEPT !.lease = batch[r].claim] \in Passes
        BY <4>1 DEF Passes, PassPCs
      <4> QED BY <4>2, <4>3 DEF Tracked
    <3>2. Rest(r, t) \in [tasks : SUBSET Tasks, claim : Nat]
      BY DEF Rest, NoBatch
    <3>3. Rest(r, t).tasks # {} => Rest(r, t).claim # 0
      BY DEF Rest, NoBatch
    <3>4. Tracked(pass[r][t], batch[r].claim).lease # 0
      BY <2>7 DEF Fire, Tracked, IdlePass, Passes
    <3> QED BY <2>7, <3>1, <3>2, <3>3, <3>4 DEF Fire
  <2>8. ASSUME NEW r \in Replicas, NEW t \in Tasks, Untrack(r, t) PROVE TypeInv'
    <3>1. [task |-> t, claim |-> pass[r][t].lease,
           ending |-> IF stopping[r] THEN "released" ELSE pass[r][t].pc] \in Savings
      BY <2>8 DEF Untrack, Savings, Endings, Passes
    <3>2. IdlePass \in Passes
      BY DEF IdlePass, Passes, PassPCs
    <3>3. IdlePass.pc = "idle"
      BY DEF IdlePass
    <3> QED BY <2>8, <3>1, <3>2, <3>3 DEF Untrack
  <2>9. ASSUME NEW r \in Replicas, NEW t \in Tasks, ReadKey(r, t) PROVE TypeInv'
    <3> DEFINE p == [pass[r][t] EXCEPT !.pc = Verdict(key[t]),
                       !.claim = pass[r][t].lease, !.begun = now]
    <3>1. Verdict(key[t]) \in {"duplicate", "restart", "insert"}
      BY DEF Verdict
    <3>2. p \in Passes /\ p.lease = pass[r][t].lease /\ p.lease # 0
      <4>1. pass[r][t] \in Passes /\ pass[r][t].pc = "fired" /\ pass[r][t].lease # 0
        BY <2>9 DEF ReadKey
      <4>2. \A v \in {"duplicate", "restart", "insert"} :
              LET q == [pass[r][t] EXCEPT !.pc = v, !.claim = pass[r][t].lease, !.begun = now]
              IN  q \in Passes /\ q.lease = pass[r][t].lease
        BY <4>1 DEF Passes, PassPCs
      <4> QED BY <3>1, <4>1, <4>2
    <3>3. pass' = [pass EXCEPT ![r][t] = p]
      BY <2>9 DEF ReadKey
    <3> HIDE DEF p
    <3> QED BY <2>9, <3>2, <3>3 DEF ReadKey
  <2>10. ASSUME NEW r \in Replicas, NEW t \in Tasks, WriteKey(r, t) PROVE TypeInv'
    <3>1. \E pc \in PassPCs : SetPass(r, t, pc)
      BY <2>10 DEF WriteKey, TouchKey, TakeKey, MissKey, PassPCs
    <3>2. pass[r][t].pc # "idle"
      BY <2>10 DEF WriteKey, TouchKey, TakeKey, MissKey
    <3>3. key' \in [Tasks -> [status : KeyStatuses, seen : Nat]]
      BY <2>10 DEF WriteKey, TouchKey, TakeKey, MissKey, KeyStatuses
    <3>4. late' \subseteq Tasks
      BY <2>10 DEF WriteKey, TouchKey, TakeKey, MissKey
    <3>5. PICK pc \in PassPCs : SetPass(r, t, pc)
      BY <3>1
    <3>6. /\ pass' \in [Replicas -> [Tasks -> Passes]]
          /\ \A q \in Replicas, u \in Tasks :
               pass'[q][u].pc # "idle" => pass'[q][u].lease # 0
      <4>1. /\ pass' \in [Replicas -> [Tasks -> Passes]]
            /\ pass'[r][t].lease = pass[r][t].lease
            /\ \A q \in Replicas, u \in Tasks :
                 q # r \/ u # t => pass'[q][u] = pass[q][u]
        <5>1. TypeOK
          OBVIOUS
        <5> HIDE DEF TypeOK
        <5> QED BY <3>5, <5>1, PcSet
      <4> QED BY <3>2, <4>1
    <3> QED BY <2>10, <3>3, <3>4, <3>6 DEF WriteKey
  <2>11. ASSUME NEW r \in Replicas, NEW t \in Tasks, Work(r, t) PROVE TypeInv'
    BY <2>11 DEF Work
  <2>12. ASSUME NEW r \in Replicas, NEW t \in Tasks, EndPass(r, t) PROVE TypeInv'
    <3>1. \E pc \in PassPCs : SetPass(r, t, pc)
      BY <2>12 DEF EndPass, PassPCs
    <3>2. pass[r][t].pc # "idle"
      BY <2>12 DEF EndPass
    <3>3. key' \in [Tasks -> [status : KeyStatuses, seen : Nat]]
      BY <2>12 DEF EndPass, KeyStatuses
    <3>5. PICK pc \in PassPCs : SetPass(r, t, pc)
      BY <3>1
    <3>6. /\ pass' \in [Replicas -> [Tasks -> Passes]]
          /\ \A q \in Replicas, u \in Tasks :
               pass'[q][u].pc # "idle" => pass'[q][u].lease # 0
      <4>1. /\ pass' \in [Replicas -> [Tasks -> Passes]]
            /\ pass'[r][t].lease = pass[r][t].lease
            /\ \A q \in Replicas, u \in Tasks :
                 q # r \/ u # t => pass'[q][u] = pass[q][u]
        <5>1. TypeOK
          OBVIOUS
        <5> HIDE DEF TypeOK
        <5> QED BY <3>5, <5>1, PcSet
      <4> QED BY <3>2, <4>1
    <3> QED BY <2>12, <3>3, <3>6 DEF EndPass
  <2>13. CASE UNCHANGED vars
    BY <2>13 DEF vars
  <2> QED
    BY <2>1, <2>2, <2>3, <2>4, <2>5, <2>6, <2>7, <2>8, <2>9, <2>10, <2>11, <2>12, <2>13 DEF Next
<1> QED BY <1>1, <1>2, PTL DEF Spec

\* The clock, the rows and the memory of every replica keep their types
\* (LocalDispatch as a whole).
THEOREM TypeCorrect == Spec => []TypeOK
<1>1. TypeInv => TypeOK
  BY DEF TypeInv
<1> QED BY TypeInvariant, <1>1, PTL

-----------------------------------------------------------------------------
(* Leases *)

\* The three places where a replica keeps a claim.
InBatch(r, t, c) == t \in batch[r].tasks /\ batch[r].claim = c
Running(r, t, c) == pass[r][t].pc # "idle" /\ pass[r][t].lease = c
Saving(r, t, c)  == \E x \in saving[r] : x.task = t /\ x.claim = c
Knows(r, t, c)   == InBatch(r, t, c) \/ Running(r, t, c) \/ Saving(r, t, c)

\* No claim reaches further than a lease from now.
Bounded == \A r \in Replicas, t \in Tasks : \A c \in Nat : Knows(r, t, c) => c <= now + Lease

\* What waits to be started was claimed after what still runs.
Ordered ==
    \A r \in Replicas, t \in Tasks :
      t \in batch[r].tasks /\ pass[r][t].pc # "idle" => pass[r][t].lease <= batch[r].claim

\* A live claim that a replica knows is the one in the row,
Live ==
    \A r \in Replicas, t \in Tasks : \A c \in Nat :
      Knows(r, t, c) /\ c > now => claim[t] = c

\* is known to no other replica,
Sole ==
    \A r1, r2 \in Replicas, t \in Tasks : \A c \in Nat :
      Knows(r1, t, c) /\ Knows(r2, t, c) /\ c > now => r1 = r2

\* and is kept in one place only.
Once ==
    \A r \in Replicas, t \in Tasks : \A c \in Nat : c > now =>
      /\ ~(InBatch(r, t, c) /\ Running(r, t, c))
      /\ ~(InBatch(r, t, c) /\ Saving(r, t, c))
      /\ ~(Running(r, t, c) /\ Saving(r, t, c))
      /\ \A x, y \in saving[r] :
           x.task = t /\ y.task = t /\ x.claim = c /\ y.claim = c => x = y

LeaseInv == Bounded /\ Ordered /\ Live /\ Sole /\ Once

LEMMA HeldIsKnown ==
  ASSUME NEW r \in Replicas, NEW t \in Tasks, NEW c
  PROVE  c \in Held(r, t) <=> Knows(r, t, c)
BY DEF Held, Knows, InBatch, Running, Saving, Inflight

\* A step that only forgets claims, and changes no row that a replica still has
\* a live claim on, keeps the invariant.
LEMMA Forgetting ==
  ASSUME TypeInv, LeaseInv, now' \in Nat, now <= now',
         \A r \in Replicas, t \in Tasks : \A c \in Nat :
           /\ InBatch(r, t, c)' => InBatch(r, t, c)
           /\ Running(r, t, c)' => Running(r, t, c),
         \A r \in Replicas : saving'[r] \subseteq saving[r],
         \A r \in Replicas, t \in Tasks : \A c \in Nat :
           Knows(r, t, c)' /\ c > now' => claim'[t] = claim[t],
         TypeOK'
  PROVE  LeaseInv'
<1>1. now \in Nat /\ Lease \in Nat
  BY TimeAssumption DEF TypeInv, TypeOK
<1>2. \A r \in Replicas, t \in Tasks : \A c \in Nat :
        /\ Saving(r, t, c)' => Saving(r, t, c)
        /\ Knows(r, t, c)' => Knows(r, t, c)
  BY DEF Saving, Knows
<1>3. Bounded'
  BY <1>1, <1>2 DEF LeaseInv, Bounded
<1>4. Ordered'
  <2> SUFFICES ASSUME NEW r \in Replicas, NEW t \in Tasks,
                      t \in batch'[r].tasks, pass'[r][t].pc # "idle"
               PROVE  pass'[r][t].lease <= batch'[r].claim
    BY DEF Ordered
  <2>1. batch'[r].claim \in Nat /\ pass'[r][t].lease \in Nat
    BY DEF TypeOK, Passes
  <2>2. InBatch(r, t, batch'[r].claim) /\ Running(r, t, pass'[r][t].lease)
    BY <2>1 DEF InBatch, Running
  <2> QED BY <2>2 DEF InBatch, Running, LeaseInv, Ordered
<1>5. Live'
  BY <1>1, <1>2 DEF LeaseInv, Live
<1>6. Sole'
  BY <1>1, <1>2 DEF LeaseInv, Sole
<1>7. Once'
  <2> SUFFICES ASSUME NEW r \in Replicas, NEW t \in Tasks, NEW c \in Nat, c > now'
               PROVE  /\ ~(InBatch(r, t, c)' /\ Running(r, t, c)')
                      /\ ~(InBatch(r, t, c)' /\ Saving(r, t, c)')
                      /\ ~(Running(r, t, c)' /\ Saving(r, t, c)')
                      /\ \A x, y \in saving'[r] :
                           x.task = t /\ y.task = t /\ x.claim = c /\ y.claim = c => x = y
    BY DEF Once
  <2>1. c > now
    BY <1>1
  <2> QED BY <1>2, <2>1 DEF LeaseInv, Once
<1> QED BY <1>3, <1>4, <1>5, <1>6, <1>7 DEF LeaseInv

\* A pass that moves on keeps the claim it holds.
LEMMA PassKeepsLease ==
  ASSUME TypeInv, TypeOK', LeaseInv, NEW r \in Replicas, NEW t \in Tasks,
         pass[r][t].pc # "idle", pass'[r][t].lease = pass[r][t].lease,
         \A q \in Replicas, u \in Tasks : q # r \/ u # t => pass'[q][u] = pass[q][u],
         UNCHANGED <<now, claim, batch, saving>>
  PROVE  LeaseInv'
<1>1. now' \in Nat /\ now <= now'
  BY DEF TypeInv, TypeOK
<1>2. \A q \in Replicas, u \in Tasks : \A c \in Nat :
        /\ InBatch(q, u, c)' => InBatch(q, u, c)
        /\ Running(q, u, c)' => Running(q, u, c)
  BY DEF InBatch, Running
<1>3. \A q \in Replicas : saving'[q] \subseteq saving[q]
  OBVIOUS
<1>4. \A q \in Replicas, u \in Tasks : \A c \in Nat :
        Knows(q, u, c)' /\ c > now' => claim'[u] = claim[u]
  OBVIOUS
<1> QED BY <1>1, <1>2, <1>3, <1>4, Forgetting

\* A statement that clears a running lease is that of the replica that knows it,
\* which then no longer does.
GivesBack(r) ==
    \A t \in Tasks : \A c \in Nat :
      c > now /\ c = claim[t] /\ claim'[t] # claim[t] => Knows(r, t, c) /\ ~Knows(r, t, c)'

LEMMA ReleaseGivesBack ==
  ASSUME TypeInv, LeaseInv, NEW r \in Replicas, ReleaseBatch(r)
  PROVE  GivesBack(r)
<1> SUFFICES ASSUME NEW t \in Tasks, NEW c \in Nat,
                    c > now, c = claim[t], claim'[t] # claim[t]
             PROVE  Knows(r, t, c) /\ ~Knows(r, t, c)'
  BY DEF GivesBack
<1>1. /\ batch' = [batch EXCEPT ![r] = NoBatch] /\ pass' = pass /\ saving' = saving
      /\ batch \in [Replicas -> [tasks : SUBSET Tasks, claim : Nat]]
  BY DEF ReleaseBatch, TypeInv, TypeOK
<1>2. t \in batch[r].tasks /\ claim[t] = batch[r].claim
  BY DEF ReleaseBatch, Owns, TypeInv, TypeOK
<1>3. InBatch(r, t, c) /\ ~InBatch(r, t, c)'
  BY <1>1, <1>2 DEF InBatch, NoBatch
<1>4. ~Running(r, t, c) /\ ~Saving(r, t, c)
  BY <1>3 DEF LeaseInv, Once
<1> QED BY <1>1, <1>3, <1>4 DEF Knows, Running, Saving

LEMMA RecordGivesBack ==
  ASSUME TypeInv, LeaseInv, NEW r \in Replicas, Record(r)
  PROVE  /\ GivesBack(r)
         /\ batch' = batch /\ pass' = pass /\ now' = now
         /\ \A q \in Replicas : saving'[q] \subseteq saving[q]
<1>1. PICK x \in saving[r] :
        /\ RecordSuccess(r, x) \/ RecordFailure(r, x)
           \/ RecordRelease(r, x) \/ RecordLost(r, x)
        /\ saving' = [saving EXCEPT ![r] = @ \ {x}]
        /\ UNCHANGED <<now, status, key, batch, pass, stopping, late>>
  BY DEF Record
<1>2. /\ now \in Nat /\ x.task \in Tasks /\ x.claim \in Nat
      /\ saving \in [Replicas -> SUBSET Savings] /\ claim \in [Tasks -> Nat]
  BY DEF TypeInv, TypeOK, Savings
<1>3. claim' = claim \/ claim' = Cleared(x.task, x.claim)
  BY <1>1 DEF RecordSuccess, RecordFailure, RecordRelease, RecordLost
<1>4. \A q \in Replicas : saving'[q] \subseteq saving[q]
  BY <1>1, <1>2
<1>5. saving'[r] = saving[r] \ {x}
  BY <1>1, <1>2
<1>6. GivesBack(r)
  <2> SUFFICES ASSUME NEW t \in Tasks, NEW c \in Nat,
                      c > now, c = claim[t], claim'[t] # claim[t]
               PROVE  Knows(r, t, c) /\ ~Knows(r, t, c)'
    BY DEF GivesBack
  <2>1. t = x.task /\ c = x.claim
    BY <1>2, <1>3 DEF Cleared, Owns
  <2>2. Saving(r, t, c)
    BY <2>1 DEF Saving
  <2>3. ~InBatch(r, t, c) /\ ~Running(r, t, c)
    BY <2>2 DEF LeaseInv, Once
  <2>4. \A y \in saving[r] : y.task = t /\ y.claim = c => y = x
    BY <2>1 DEF LeaseInv, Once
  <2>5. ~Saving(r, t, c)'
    BY <1>5, <2>4 DEF Saving
  <2> QED BY <1>1, <2>2, <2>3, <2>5 DEF Knows, InBatch, Running
<1> QED BY <1>1, <1>4, <1>6

\* Giving back is a way of forgetting.
LEMMA GivingBack ==
  ASSUME TypeInv, TypeOK', LeaseInv, NEW r \in Replicas, GivesBack(r), now' = now, pass' = pass,
         \A q \in Replicas : saving'[q] \subseteq saving[q],
         \A q \in Replicas, t \in Tasks : \A c \in Nat : InBatch(q, t, c)' => InBatch(q, t, c)
  PROVE  LeaseInv'
<1>1. now' \in Nat /\ now <= now'
  BY DEF TypeInv, TypeOK
<1>2. \A q \in Replicas, t \in Tasks : \A c \in Nat :
        /\ InBatch(q, t, c)' => InBatch(q, t, c)
        /\ Running(q, t, c)' => Running(q, t, c)
  BY DEF Running
<1>3. \A q \in Replicas, t \in Tasks : \A c \in Nat :
        Knows(q, t, c)' /\ c > now' => claim'[t] = claim[t]
  <2> SUFFICES ASSUME NEW q \in Replicas, NEW t \in Tasks, NEW c \in Nat,
                      Knows(q, t, c)', c > now, claim'[t] # claim[t]
               PROVE  FALSE
    OBVIOUS
  <2>1. Knows(q, t, c) /\ claim[t] = c
    BY <1>2 DEF Knows, Saving, LeaseInv, Live
  <2>2. Knows(r, t, c) /\ ~Knows(r, t, c)'
    BY <2>1 DEF GivesBack
  <2> QED BY <2>1, <2>2 DEF LeaseInv, Sole
<1> QED BY <1>1, <1>2, <1>3, Forgetting

LEMMA ReleaseKeepsLeases ==
  ASSUME TypeInv, TypeOK', LeaseInv, NEW r \in Replicas, ReleaseBatch(r)
  PROVE  LeaseInv'
<1>1. /\ now' = now /\ pass' = pass /\ saving' = saving
      /\ batch' = [batch EXCEPT ![r] = NoBatch]
      /\ batch \in [Replicas -> [tasks : SUBSET Tasks, claim : Nat]]
  BY DEF ReleaseBatch, TypeInv, TypeOK
<1>2. \A q \in Replicas, t \in Tasks : \A c \in Nat : InBatch(q, t, c)' => InBatch(q, t, c)
  BY <1>1 DEF InBatch, NoBatch
<1> QED BY <1>1, <1>2, ReleaseGivesBack, GivingBack

LEMMA RecordKeepsLeases ==
  ASSUME TypeInv, TypeOK', LeaseInv, NEW r \in Replicas, Record(r)
  PROVE  LeaseInv'
<1>1. \A q \in Replicas, t \in Tasks : \A c \in Nat : InBatch(q, t, c)' => InBatch(q, t, c)
  BY RecordGivesBack DEF InBatch
<1> QED BY <1>1, RecordGivesBack, GivingBack

\* A task is claimed only when every claim known of it has lapsed.
LEMMA ClaimKeepsLeases ==
  ASSUME TypeInv, TypeOK', LeaseInv, NEW r \in Replicas, ClaimDue(r)
  PROVE  LeaseInv'
<1>1. PICK S \in SUBSET {t \in Tasks : Due(t)} :
        /\ claim' = [t \in Tasks |-> IF t \in S THEN now + Lease ELSE claim[t]]
        /\ \/ batch' = [batch EXCEPT ![r] = [tasks |-> S, claim |-> now + Lease]]
           \/ UNCHANGED batch
  BY DEF ClaimDue
<1> DEFINE c0 == now + Lease
<1>2. /\ now' = now /\ now \in Nat /\ Lease \in Nat /\ c0 \in Nat /\ c0 > now
      /\ pass' = pass /\ saving' = saving /\ claim \in [Tasks -> Nat]
      /\ batch \in [Replicas -> [tasks : SUBSET Tasks, claim : Nat]]
  BY TimeAssumption DEF ClaimDue, TypeInv, TypeOK
<1>3. \A q \in Replicas, u \in S : \A c \in Nat : c > now => ~Knows(q, u, c)
  BY <1>1, <1>2 DEF LeaseInv, Live, Due
<1>4. \A q \in Replicas, u \in Tasks : \A c \in Nat :
        Knows(q, u, c) /\ c > now => claim'[u] = claim[u]
  BY <1>1, <1>2, <1>3
<1>5. \A q \in Replicas, u \in Tasks : \A c \in Nat :
        /\ Running(q, u, c)' <=> Running(q, u, c)
        /\ Saving(q, u, c)' <=> Saving(q, u, c)
  BY <1>2 DEF Running, Saving
<1>6. CASE UNCHANGED batch
  <2>1. \A q \in Replicas, u \in Tasks : \A c \in Nat : InBatch(q, u, c)' <=> InBatch(q, u, c)
    BY <1>6 DEF InBatch
  <2>2. \A q \in Replicas, u \in Tasks : \A c \in Nat :
          Knows(q, u, c)' /\ c > now' => claim'[u] = claim[u]
    BY <1>2, <1>4, <1>5, <2>1 DEF Knows
  <2>3. now' \in Nat /\ now <= now' /\ \A q \in Replicas : saving'[q] \subseteq saving[q]
    BY <1>2
  <2> QED BY <1>5, <2>1, <2>2, <2>3, Forgetting
<1>7. CASE batch' = [batch EXCEPT ![r] = [tasks |-> S, claim |-> c0]]
  <2> HIDE DEF c0
  <2>1. /\ batch'[r].tasks = S /\ batch'[r].claim = c0
        /\ \A q \in Replicas : q # r => batch'[q] = batch[q]
    BY <1>2, <1>7
  <2>2. \A q \in Replicas, u \in Tasks : \A c \in Nat :
          Knows(q, u, c)' <=> \/ q # r /\ Knows(q, u, c)
                              \/ q = r /\ u \in S /\ c = c0
                              \/ q = r /\ (Running(q, u, c) \/ Saving(q, u, c))
    BY <1>5, <2>1 DEF Knows, InBatch
  <2>3. \A q \in Replicas, u \in Tasks : \A c \in Nat : Knows(q, u, c)' =>
          Knows(q, u, c) \/ (q = r /\ u \in S /\ c = c0)
    BY <2>2 DEF Knows
  <2>4. Bounded'
    BY <1>2, <2>3 DEF Bounded, LeaseInv, c0
  <2>5. Ordered'
    <3> SUFFICES ASSUME NEW q \in Replicas, NEW u \in Tasks,
                        u \in batch'[q].tasks, pass[q][u].pc # "idle"
                 PROVE  pass[q][u].lease <= batch'[q].claim
      BY <1>2 DEF Ordered
    <3>1. CASE q # r
      BY <2>1, <3>1 DEF LeaseInv, Ordered
    <3>2. CASE q = r
      <4>1. pass[q][u].lease \in Nat
        BY DEF TypeInv, TypeOK, Passes
      <4>2. Knows(q, u, pass[q][u].lease)
        BY DEF Knows, Running
      <4> QED BY <2>1, <3>2, <4>1, <4>2 DEF LeaseInv, Bounded, c0
    <3> QED BY <3>1, <3>2
  <2>6. Live'
    <3> SUFFICES ASSUME NEW q \in Replicas, NEW u \in Tasks, NEW c \in Nat,
                        Knows(q, u, c)', c > now
                 PROVE  claim'[u] = c
      BY <1>2 DEF Live
    <3>1. CASE Knows(q, u, c)
      BY <1>4, <3>1 DEF LeaseInv, Live
    <3>2. CASE u \in S /\ c = c0
      BY <1>1, <3>2 DEF c0
    <3> QED BY <2>3, <3>1, <3>2
  <2>7. Sole'
    <3> SUFFICES ASSUME NEW r1 \in Replicas, NEW r2 \in Replicas, NEW u \in Tasks, NEW c \in Nat,
                        Knows(r1, u, c)', Knows(r2, u, c)', c > now
                 PROVE  r1 = r2
      BY <1>2 DEF Sole
    <3>1. CASE u \in S
      BY <1>3, <2>3, <3>1
    <3>2. CASE u \notin S
      BY <2>3, <3>2 DEF LeaseInv, Sole
    <3> QED BY <3>1, <3>2
  <2>8. Once'
    <3> SUFFICES ASSUME NEW q \in Replicas, NEW u \in Tasks, NEW c \in Nat, c > now
                 PROVE  /\ ~(InBatch(q, u, c)' /\ Running(q, u, c))
                        /\ ~(InBatch(q, u, c)' /\ Saving(q, u, c))
                        /\ ~(Running(q, u, c) /\ Saving(q, u, c))
                        /\ \A x, y \in saving[q] :
                             x.task = u /\ y.task = u /\ x.claim = c /\ y.claim = c => x = y
      BY <1>2, <1>5 DEF Once
    <3>1. InBatch(q, u, c)' => InBatch(q, u, c) \/ u \in S
      BY <2>1 DEF InBatch
    <3>2. u \in S => ~Running(q, u, c) /\ ~Saving(q, u, c)
      BY <1>3 DEF Knows
    <3> QED BY <3>1, <3>2 DEF LeaseInv, Once
  <2> QED BY <2>4, <2>5, <2>6, <2>7, <2>8 DEF LeaseInv
<1> QED BY <1>1, <1>6, <1>7

\* Starting a task moves its claim from the batch to the goroutine.
LEMMA FireKeepsLeases ==
  ASSUME TypeInv, TypeOK', LeaseInv, NEW r \in Replicas, NEW t \in Tasks, Fire(r, t)
  PROVE  LeaseInv'
<1> DEFINE c0 == batch[r].claim  p == Tracked(pass[r][t], c0)
<1>1. /\ now' = now /\ claim' = claim /\ saving' = saving /\ t \in batch[r].tasks
      /\ pass' = [pass EXCEPT ![r][t] = p] /\ batch' = [batch EXCEPT ![r] = Rest(r, t)]
  BY DEF Fire, table
<1>2. /\ batch \in [Replicas -> [tasks : SUBSET Tasks, claim : Nat]]
      /\ pass \in [Replicas -> [Tasks -> Passes]] /\ c0 \in Nat
  BY DEF TypeInv, TypeOK
<1>3. p.lease = c0 /\ p.pc # "idle"
  BY <1>2 DEF Tracked, IdlePass, Passes
<1> HIDE DEF p
<1>4. /\ pass'[r][t] = p
      /\ \A q \in Replicas, u \in Tasks : q # r \/ u # t => pass'[q][u] = pass[q][u]
  BY <1>1, <1>2
<1>5. /\ Rest(r, t).tasks = batch[r].tasks \ {t}
      /\ Rest(r, t).tasks # {} => Rest(r, t).claim = c0
  BY <1>2 DEF Rest, NoBatch
<1>6. \A q \in Replicas, u \in Tasks : \A c \in Nat :
        InBatch(q, u, c)' => InBatch(q, u, c) /\ ~(q = r /\ u = t)
  <2> SUFFICES ASSUME NEW q \in Replicas, NEW u \in Tasks, NEW c \in Nat,
                      u \in batch'[q].tasks, batch'[q].claim = c
               PROVE  u \in batch[q].tasks /\ batch[q].claim = c /\ ~(q = r /\ u = t)
    BY DEF InBatch
  <2>1. CASE q = r
    <3>1. batch'[q] = Rest(r, t)
      BY <1>1, <1>2, <2>1
    <3> QED BY <1>5, <2>1, <3>1
  <2>2. CASE q # r
    BY <1>1, <1>2, <2>2
  <2> QED BY <2>1, <2>2
<1>7. \A q \in Replicas, u \in Tasks : \A c \in Nat :
        Running(q, u, c)' => IF q = r /\ u = t THEN c = c0 ELSE Running(q, u, c)
  BY <1>3, <1>4 DEF Running
<1>8. \A q \in Replicas, u \in Tasks : \A c \in Nat : Saving(q, u, c)' <=> Saving(q, u, c)
  BY <1>1 DEF Saving
<1>9. InBatch(r, t, c0)
  BY <1>1 DEF InBatch
<1> HIDE DEF c0
<1>10. \A q \in Replicas, u \in Tasks : \A c \in Nat : Knows(q, u, c)' => Knows(q, u, c)
  BY <1>6, <1>7, <1>8, <1>9 DEF Knows
<1>11. Bounded'
  BY <1>1, <1>10 DEF Bounded, LeaseInv
<1>12. Ordered'
  <2> SUFFICES ASSUME NEW q \in Replicas, NEW u \in Tasks,
                      u \in batch'[q].tasks, pass'[q][u].pc # "idle"
               PROVE  pass'[q][u].lease <= batch'[q].claim
    BY DEF Ordered
  <2>1. PICK c \in Nat : c = batch'[q].claim
    BY DEF TypeOK
  <2>2. InBatch(q, u, c) /\ ~(q = r /\ u = t)
    <3>1. InBatch(q, u, c)'
      BY <2>1 DEF InBatch
    <3> QED BY <1>6, <3>1
  <2> QED BY <1>4, <2>1, <2>2 DEF InBatch, LeaseInv, Ordered
<1>13. Live'
  BY <1>1, <1>10 DEF Live, LeaseInv
<1>14. Sole'
  BY <1>1, <1>10 DEF Sole, LeaseInv
<1>15. Once'
  <2> SUFFICES ASSUME NEW q \in Replicas, NEW u \in Tasks, NEW c \in Nat, c > now
               PROVE  /\ ~(InBatch(q, u, c)' /\ Running(q, u, c)')
                      /\ ~(InBatch(q, u, c)' /\ Saving(q, u, c)')
                      /\ ~(Running(q, u, c)' /\ Saving(q, u, c)')
                      /\ \A x, y \in saving'[q] :
                           x.task = u /\ y.task = u /\ x.claim = c /\ y.claim = c => x = y
    BY <1>1 DEF Once
  <2>1. CASE q = r /\ u = t
    <3>1. ~InBatch(q, u, c)' /\ ~(c = c0 /\ Saving(q, u, c))
      BY <1>6, <1>9, <2>1 DEF LeaseInv, Once
    <3> QED BY <1>1, <1>7, <1>8, <2>1, <3>1 DEF LeaseInv, Once
  <2>2. CASE ~(q = r /\ u = t)
    BY <1>1, <1>6, <1>7, <1>8, <2>2 DEF LeaseInv, Once
  <2> QED BY <2>1, <2>2
<1> QED BY <1>11, <1>12, <1>13, <1>14, <1>15 DEF LeaseInv

\* untrack moves the claim of a goroutine to its last statement.
LEMMA UntrackKeepsLeases ==
  ASSUME TypeInv, TypeOK', LeaseInv, NEW r \in Replicas, NEW t \in Tasks, Untrack(r, t)
  PROVE  LeaseInv'
<1> DEFINE x == [task |-> t, claim |-> pass[r][t].lease,
                 ending |-> IF stopping[r] THEN "released" ELSE pass[r][t].pc]
<1>1. /\ x.task = t /\ x.claim = pass[r][t].lease
      /\ saving' = [saving EXCEPT ![r] = @ \cup {x}]
  BY DEF Untrack
<1> HIDE DEF x
<1>2. /\ now' = now /\ claim' = claim /\ batch' = batch /\ pass[r][t].pc # "idle"
      /\ pass' = [pass EXCEPT ![r][t] = IdlePass] /\ IdlePass.pc = "idle"
      /\ pass \in [Replicas -> [Tasks -> Passes]]
      /\ saving \in [Replicas -> SUBSET Savings]
  BY DEF Untrack, table, IdlePass, TypeInv, TypeOK
<1>3. \A q \in Replicas, u \in Tasks : \A c \in Nat :
        /\ InBatch(q, u, c)' <=> InBatch(q, u, c)
        /\ Running(q, u, c)' <=> Running(q, u, c) /\ ~(q = r /\ u = t)
  <2>1. /\ pass'[r][t] = IdlePass
        /\ \A q \in Replicas, u \in Tasks : q # r \/ u # t => pass'[q][u] = pass[q][u]
    BY <1>2
  <2> QED BY <1>2, <2>1 DEF InBatch, Running
<1>4. saving'[r] = saving[r] \cup {x} /\ \A q \in Replicas : q # r => saving'[q] = saving[q]
  BY <1>1, <1>2
<1>5. \A q \in Replicas, u \in Tasks : \A c \in Nat :
        Saving(q, u, c)' => Saving(q, u, c) \/ (q = r /\ u = t /\ Running(r, t, c))
  BY <1>1, <1>2, <1>4 DEF Saving, Running
<1>6. \A q \in Replicas, u \in Tasks : \A c \in Nat : Knows(q, u, c)' => Knows(q, u, c)
  BY <1>3, <1>5 DEF Knows
<1>7. Bounded'
  BY <1>2, <1>6 DEF Bounded, LeaseInv
<1>8. Ordered'
  <2>1. \A q \in Replicas, u \in Tasks : pass'[q][u].pc # "idle" => pass'[q][u] = pass[q][u]
    BY <1>2
  <2> QED BY <1>2, <2>1 DEF Ordered, LeaseInv
<1>9. Live'
  BY <1>2, <1>6 DEF Live, LeaseInv
<1>10. Sole'
  BY <1>2, <1>6 DEF Sole, LeaseInv
<1>11. Once'
  <2> SUFFICES ASSUME NEW q \in Replicas, NEW u \in Tasks, NEW c \in Nat, c > now
               PROVE  /\ ~(InBatch(q, u, c)' /\ Running(q, u, c)')
                      /\ ~(InBatch(q, u, c)' /\ Saving(q, u, c)')
                      /\ ~(Running(q, u, c)' /\ Saving(q, u, c)')
                      /\ \A y, z \in saving'[q] :
                           y.task = u /\ z.task = u /\ y.claim = c /\ z.claim = c => y = z
    BY <1>2 DEF Once
  <2>1. CASE q = r /\ u = t
    <3>1. ~(InBatch(q, u, c)' /\ Running(q, u, c)') /\ ~(Running(q, u, c)' /\ Saving(q, u, c)')
      BY <1>3, <2>1
    <3>2. ~(InBatch(q, u, c)' /\ Saving(q, u, c)')
      BY <1>3, <1>5, <2>1 DEF LeaseInv, Once
    <3>3. ASSUME NEW y \in saving'[q], NEW z \in saving'[q],
                 y.task = u, z.task = u, y.claim = c, z.claim = c
          PROVE  y = z
      <4>1. CASE Running(q, u, c)
        <5>1. ~Saving(q, u, c)
          BY <4>1 DEF LeaseInv, Once
        <5> QED BY <1>4, <2>1, <3>3, <5>1 DEF Saving
      <4>2. CASE ~Running(q, u, c)
        <5>1. x.claim # c
          BY <1>1, <1>2, <2>1, <4>2 DEF Running
        <5> QED BY <1>4, <2>1, <3>3, <5>1 DEF LeaseInv, Once
      <4> QED BY <4>1, <4>2
    <3> QED BY <3>1, <3>2, <3>3
  <2>2. CASE ~(q = r /\ u = t)
    <3>1. ~Saving(q, u, c) => ~Saving(q, u, c)'
      BY <1>5, <2>2
    <3>2. \A y \in saving'[q] : y.task = u => y \in saving[q]
      BY <1>1, <1>4, <2>2
    <3> QED BY <1>3, <3>1, <3>2 DEF LeaseInv, Once
  <2> QED BY <2>1, <2>2
<1> QED BY <1>7, <1>8, <1>9, <1>10, <1>11 DEF LeaseInv

LEMMA LeaseStep ==
  ASSUME TypeInv, TypeOK', LeaseInv, [Next]_vars
  PROVE  LeaseInv'
<1>0. now \in Nat
  BY DEF TypeInv, TypeOK
<1>1. ASSUME UNCHANGED <<claim, batch, pass, saving>>, now' \in Nat, now <= now'
      PROVE  LeaseInv'
  <2>1. \A q \in Replicas, t \in Tasks : \A c \in Nat :
          /\ InBatch(q, t, c)' => InBatch(q, t, c)
          /\ Running(q, t, c)' => Running(q, t, c)
          /\ Knows(q, t, c)' /\ c > now' => claim'[t] = claim[t]
    BY <1>1 DEF InBatch, Running
  <2>2. \A q \in Replicas : saving'[q] \subseteq saving[q]
    BY <1>1
  <2> QED BY <1>1, <2>1, <2>2, Forgetting
<1>2. CASE Tick
  BY <1>0, <1>1, <1>2 DEF Tick, table, memory
<1>3. CASE \E r \in Replicas : Stop(r)
  BY <1>0, <1>1, <1>3 DEF Stop, table
<1>4. CASE \E r \in Replicas, t \in Tasks : Work(r, t)
  BY <1>0, <1>1, <1>4 DEF Work, memory
<1>5. CASE UNCHANGED vars
  BY <1>0, <1>1, <1>5 DEF vars, table, memory
<1>6. ASSUME NEW r \in Replicas, Die(r) PROVE LeaseInv'
  <2>1. /\ batch' = [batch EXCEPT ![r] = NoBatch] /\ saving' = [saving EXCEPT ![r] = {}]
        /\ pass' = [pass EXCEPT ![r] = [t \in Tasks |-> IdlePass]]
        /\ now' = now /\ claim' = claim /\ IdlePass.pc = "idle"
    BY <1>6 DEF Die, table, IdlePass
  <2>2. /\ batch \in [Replicas -> [tasks : SUBSET Tasks, claim : Nat]]
        /\ pass \in [Replicas -> [Tasks -> Passes]]
        /\ saving \in [Replicas -> SUBSET Savings]
    BY DEF TypeInv, TypeOK
  <2>3. \A q \in Replicas : saving'[q] \subseteq saving[q]
    BY <2>1, <2>2
  <2>4. \A q \in Replicas, t \in Tasks : \A c \in Nat :
          /\ InBatch(q, t, c)' => InBatch(q, t, c)
          /\ Running(q, t, c)' => Running(q, t, c)
          /\ Knows(q, t, c)' /\ c > now' => claim'[t] = claim[t]
    BY <2>1, <2>2 DEF InBatch, Running, NoBatch
  <2> QED BY <1>0, <2>1, <2>3, <2>4, Forgetting
<1>7. ASSUME NEW r \in Replicas, NEW t \in Tasks, ReadKey(r, t) PROVE LeaseInv'
  <2> DEFINE p == [pass[r][t] EXCEPT !.pc = Verdict(key[t]),
                     !.claim = pass[r][t].lease, !.begun = now]
  <2>1. /\ pass' = [pass EXCEPT ![r][t] = p] /\ pass \in [Replicas -> [Tasks -> Passes]]
        /\ pass[r][t].pc # "idle" /\ UNCHANGED <<now, claim, batch, saving>>
    BY <1>7 DEF ReadKey, TypeInv, TypeOK, table
  <2>2. p.lease = pass[r][t].lease
    BY <2>1 DEF Passes
  <2> HIDE DEF p
  <2>3. /\ pass'[r][t] = p
        /\ \A q \in Replicas, u \in Tasks : q # r \/ u # t => pass'[q][u] = pass[q][u]
    BY <2>1
  <2> QED BY <2>1, <2>2, <2>3, PassKeepsLease
<1>8. ASSUME NEW r \in Replicas, NEW t \in Tasks, WriteKey(r, t) \/ EndPass(r, t)
      PROVE  LeaseInv'
  <2>1. PICK pc \in PassPCs : SetPass(r, t, pc)
    BY <1>8 DEF WriteKey, TouchKey, TakeKey, MissKey, EndPass, PassPCs
  <2>2. pass[r][t].pc # "idle" /\ UNCHANGED <<now, claim, batch, saving>>
    BY <1>8 DEF WriteKey, TouchKey, TakeKey, MissKey, EndPass
  <2>3. TypeOK
    BY DEF TypeInv
  <2> QED BY <2>1, <2>2, <2>3, PcSet, PassKeepsLease
<1> QED
  BY <1>2, <1>3, <1>4, <1>5, <1>6, <1>7, <1>8, ClaimKeepsLeases, ReleaseKeepsLeases,
     RecordKeepsLeases, FireKeepsLeases, UntrackKeepsLeases DEF Next

LEMMA LeaseInvariant == Spec => [](TypeInv /\ LeaseInv)
<1>1. Init => LeaseInv
  <2> SUFFICES ASSUME Init PROVE LeaseInv
    OBVIOUS
  <2>1. \A r \in Replicas, t \in Tasks : \A c \in Nat :
          ~InBatch(r, t, c) /\ ~Running(r, t, c) /\ ~Saving(r, t, c) /\ ~Knows(r, t, c)
    BY DEF Init, NoBatch, IdlePass, InBatch, Running, Saving, Knows
  <2>2. \A r \in Replicas : batch[r].tasks = {} /\ saving[r] = {}
    BY DEF Init, NoBatch
  <2> QED BY <2>1, <2>2 DEF LeaseInv, Bounded, Ordered, Live, Sole, Once
<1>2. TypeInv /\ TypeInv' /\ LeaseInv /\ [Next]_vars => LeaseInv'
  BY LeaseStep DEF TypeInv
<1> QED BY <1>1, <1>2, TypeInvariant, PTL DEF Spec

LEMMA HeldIsNat ==
  ASSUME TypeInv, NEW r \in Replicas, NEW t \in Tasks, NEW c \in Held(r, t)
  PROVE  c \in Nat
BY DEF Held, TypeInv, TypeOK, Passes, Savings

\* A running lease has one holder in one replica, for any number of replicas
\* and tasks and for leases of any length (pg_task.go, ClaimDueTaskIDs;
\* local.go, track, untrack and release).
THEOREM LeaseHeldOnce == Spec => []OneHolder
<1>1. TypeInv /\ LeaseInv => OneHolder
  <2> SUFFICES ASSUME TypeInv, LeaseInv, NEW r1 \in Replicas, NEW r2 \in Replicas, NEW t \in Tasks,
                      NEW c1 \in Held(r1, t), NEW c2 \in Held(r2, t), c1 > now, c2 > now
               PROVE  r1 = r2 /\ c1 = c2
    BY DEF OneHolder
  <2>1. c1 \in Nat /\ c2 \in Nat
    BY HeldIsNat
  <2>2. Knows(r1, t, c1) /\ Knows(r2, t, c2)
    BY HeldIsKnown
  <2>3. c1 = claim[t] /\ c2 = claim[t]
    BY <2>1, <2>2 DEF LeaseInv, Live
  <2> QED BY <2>1, <2>2, <2>3 DEF LeaseInv, Sole
<1> QED BY <1>1, LeaseInvariant, PTL

\* No replica, however late its statements, ends or replaces a running lease
\* of another (pg_task.go, RecordDispatchAttempt and ReleaseDispatchClaims).
THEOREM LeaseEndsWithHolder == Spec => LeaseEndsByHolder
<1> DEFINE P == \A t \in Tasks : claim[t] > now /\ claim'[t] # claim[t] =>
                  \E r \in Replicas : claim[t] \in Held(r, t) /\ claim[t] \notin Held(r, t)'
<1>1. TypeInv /\ TypeInv' /\ LeaseInv /\ [Next]_vars => P
  <2> SUFFICES ASSUME TypeInv, LeaseInv, [Next]_vars, NEW t \in Tasks,
                      claim[t] > now, claim'[t] # claim[t]
               PROVE  \E r \in Replicas : claim[t] \in Held(r, t) /\ claim[t] \notin Held(r, t)'
    OBVIOUS
  <2>0. claim[t] \in Nat /\ now \in Nat
    BY DEF TypeInv, TypeOK
  <2>1. \A r \in Replicas : ~ClaimDue(r)
    BY <2>0 DEF ClaimDue, Due
  <2>2. \E r \in Replicas : ReleaseBatch(r) \/ Record(r)
    BY <2>1 DEF Next, vars, table, memory, Tick, Stop, Die, Fire, Untrack, ReadKey,
       WriteKey, Work, EndPass
  <2>3. PICK r \in Replicas : GivesBack(r)
    BY <2>2, ReleaseGivesBack, RecordGivesBack
  <2>4. PICK c \in Nat : c = claim[t]
    BY <2>0
  <2>5. Knows(r, t, c) /\ ~Knows(r, t, c)'
    BY <2>3, <2>4 DEF GivesBack
  <2>6. c \in Held(r, t)
    BY <2>5, HeldIsKnown
  <2>7. c \notin Held(r, t)'
    BY <2>5 DEF Held, Knows, InBatch, Running, Saving, Inflight
  <2> QED BY <2>4, <2>6, <2>7
<1> QED BY <1>1, LeaseInvariant, PTL DEF Spec, LeaseEndsByHolder

-----------------------------------------------------------------------------
(* Execution keys *)

\* A pass whose dispatch lease runs still has the claim it began with.
Own == \A r \in Replicas, t \in Tasks :
         pass[r][t].claim > now => pass[r][t].lease = pass[r][t].claim

Begun == \A r \in Replicas, t \in Tasks : pass[r][t].begun <= now

\* The key a pass works under is in progress and younger than the pass,
KeyStands ==
    \A r \in Replicas, t \in Tasks : AtWork(r, t) /\ t \notin late =>
      key[t].status = "in_progress" /\ pass[r][t].begun <= key[t].seen

\* and another pass that is about to take it has outlived its dispatch lease.
TakersLate ==
    \A r, q \in Replicas, t \in Tasks :
      AtWork(r, t) /\ t \notin late /\ q # r /\ pass[q][t].pc \in {"restart", "insert"}
        => pass[q][t].claim <= now

KeyInv == Own /\ Begun /\ KeyStands /\ TakersLate /\ OverlapOnlyIfLate

\* A step in which no pass begins or goes to work.
Quiet(r, t) ==
    \/ pass'[r][t].pc \in {"idle", "fired"} /\ pass'[r][t].claim = 0 /\ pass'[r][t].begun = 0
    \/ /\ pass'[r][t].claim = pass[r][t].claim /\ pass'[r][t].begun = pass[r][t].begun
       /\ pass'[r][t].lease = pass[r][t].lease \/ pass[r][t].claim <= now
       /\ pass'[r][t].pc \in {pass[r][t].pc, "succeeded", "errored"}

LEMMA QuietStep ==
  ASSUME TypeInv, KeyInv, now' \in Nat, now <= now', late' = late, KeyStands',
         \A r \in Replicas, t \in Tasks : Quiet(r, t)
  PROVE  KeyInv'
<1>1. now \in Nat /\ pass \in [Replicas -> [Tasks -> Passes]] /\ PassLimit \in Nat
  BY TimeAssumption DEF TypeInv, TypeOK
<1>2. \A r \in Replicas, t \in Tasks : pass[r][t].claim \in Nat /\ pass[r][t].begun \in Nat
  BY <1>1 DEF Passes
<1>3. \A r \in Replicas, t \in Tasks : AtWork(r, t)' => AtWork(r, t)
  BY <1>1, <1>2 DEF AtWork, InTime, Quiet
<1>4. Own'
  BY <1>1, <1>2 DEF KeyInv, Own, Quiet
<1>5. Begun'
  BY <1>1, <1>2 DEF KeyInv, Begun, Quiet
<1>6. TakersLate'
  <2> SUFFICES ASSUME NEW r \in Replicas, NEW q \in Replicas, NEW t \in Tasks,
                      AtWork(r, t)', t \notin late, q # r,
                      pass'[q][t].pc \in {"restart", "insert"}
               PROVE  pass'[q][t].claim <= now'
    BY DEF TakersLate
  <2>1. pass[q][t].pc = pass'[q][t].pc /\ pass'[q][t].claim = pass[q][t].claim
    BY DEF Quiet
  <2> QED BY <1>1, <1>2, <1>3, <2>1 DEF KeyInv, TakersLate
<1>7. OverlapOnlyIfLate'
  BY <1>3 DEF KeyInv, OverlapOnlyIfLate
<1> QED BY <1>4, <1>5, <1>6, <1>7 DEF KeyInv

\* A pass that moves on without going to work, and leaves the key standing.
LEMMA QuietPass ==
  ASSUME TypeInv, KeyInv, NEW r \in Replicas, NEW t \in Tasks,
         NEW pc \in {"succeeded", "errored"}, SetPass(r, t, pc),
         now' = now, late' = late, KeyStands'
  PROVE  KeyInv'
<1>1. pc \in PassPCs /\ now' \in Nat /\ now <= now' /\ TypeOK
  BY DEF PassPCs, TypeInv, TypeOK
<1>2. \A q \in Replicas, u \in Tasks : Quiet(q, u)
  BY <1>1, PcSet DEF Quiet
<1> QED BY <1>1, <1>2, QuietStep

LEMMA StartKeepsKeys ==
  ASSUME TypeInv, TypeOK', LeaseInv, KeyInv, NEW r \in Replicas, NEW t \in Tasks, Fire(r, t)
  PROVE  KeyInv'
<1> DEFINE c0 == batch[r].claim  p == Tracked(pass[r][t], c0)
<1>1. /\ now' = now /\ key' = key /\ late' = late /\ t \in batch[r].tasks
      /\ pass' = [pass EXCEPT ![r][t] = p] /\ pass \in [Replicas -> [Tasks -> Passes]]
      /\ c0 \in Nat /\ now \in Nat
  BY DEF Fire, table, TypeInv, TypeOK
<1>2. \/ p.pc = "fired" /\ p.claim = 0 /\ p.begun = 0
      \/ /\ pass[r][t].pc # "idle"
         /\ p.pc = pass[r][t].pc /\ p.claim = pass[r][t].claim /\ p.begun = pass[r][t].begun
  BY <1>1 DEF Tracked, IdlePass, Passes
<1>3. pass[r][t].pc # "idle" => pass[r][t].claim <= now
  <2> SUFFICES ASSUME pass[r][t].pc # "idle", pass[r][t].claim > now PROVE FALSE
    BY <1>1 DEF Passes
  <2>1. PICK c \in Nat : c = pass[r][t].lease
    BY <1>1 DEF Passes
  <2>2. c > now /\ Running(r, t, c)
    BY <2>1 DEF KeyInv, Own, Running
  <2>3. InBatch(r, t, c0) /\ c <= c0
    BY <1>1, <2>1 DEF InBatch, LeaseInv, Ordered
  <2>4. c = claim[t] /\ c0 = claim[t]
    BY <1>1, <2>2, <2>3 DEF LeaseInv, Live, Knows
  <2> QED BY <2>2, <2>3, <2>4 DEF LeaseInv, Once
<1> HIDE DEF p
<1>4. /\ pass'[r][t] = p
      /\ \A q \in Replicas, u \in Tasks : q # r \/ u # t => pass'[q][u] = pass[q][u]
  BY <1>1
<1>5. \A q \in Replicas, u \in Tasks : Quiet(q, u)
  BY <1>2, <1>3, <1>4 DEF Quiet
<1>6. KeyStands'
  <2>1. \A q \in Replicas, u \in Tasks :
          AtWork(q, u)' => AtWork(q, u) /\ pass'[q][u].begun = pass[q][u].begun
    BY <1>1, <1>2, <1>4 DEF AtWork, InTime
  <2> QED BY <1>1, <2>1 DEF KeyInv, KeyStands
<1> QED BY <1>1, <1>5, <1>6, QuietStep

\* The verdict of a pass that reads the key of another pass at work.
LEMMA ReadKeepsKeys ==
  ASSUME TypeInv, TypeOK', KeyInv, NEW r \in Replicas, NEW t \in Tasks, ReadKey(r, t)
  PROVE  KeyInv'
<1> DEFINE v == Verdict(key[t])
           p == [pass[r][t] EXCEPT !.pc = v, !.claim = pass[r][t].lease, !.begun = now]
<1>1. /\ now' = now /\ key' = key /\ late' = late /\ now \in Nat
      /\ pass' = [pass EXCEPT ![r][t] = p] /\ pass \in [Replicas -> [Tasks -> Passes]]
      /\ key \in [Tasks -> [status : KeyStatuses, seen : Nat]]
      /\ PassLimit \in Nat /\ KeyTTL \in Nat
  BY TimeAssumption DEF ReadKey, table, TypeInv, TypeOK
<1>2. v \in {"duplicate", "restart", "insert"}
  BY DEF Verdict
<1> HIDE DEF v
<1>3. p.pc = v /\ p.claim = p.lease /\ p.begun = now /\ p.claim \in Nat
  BY <1>1 DEF Passes
<1> HIDE DEF p
<1>4. /\ pass'[r][t] = p
      /\ \A q \in Replicas, u \in Tasks : q # r \/ u # t => pass'[q][u] = pass[q][u]
  BY <1>1
<1>5. \A q \in Replicas, u \in Tasks : AtWork(q, u)' =>
        AtWork(q, u) /\ (q # r \/ u # t) /\ pass'[q][u] = pass[q][u]
  BY <1>1, <1>2, <1>3, <1>4 DEF AtWork, InTime
<1>6. \A q \in Replicas : AtWork(q, t) /\ t \notin late => v = "duplicate"
  <2> SUFFICES ASSUME NEW q \in Replicas, AtWork(q, t), t \notin late PROVE v = "duplicate"
    OBVIOUS
  <2>1. key[t].status = "in_progress" /\ pass[q][t].begun <= key[t].seen
    BY DEF KeyInv, KeyStands
  <2>2. now < pass[q][t].begun + PassLimit
    BY DEF AtWork, InTime
  <2>3. pass[q][t].begun \in Nat /\ key[t].seen \in Nat
    BY <1>1 DEF Passes
  <2>4. ~Expired(key[t])
    BY <1>1, <2>1, <2>2, <2>3, PassEndsBeforeKey DEF Expired
  <2> QED BY <2>1, <2>4 DEF v, Verdict
<1>7. Own' /\ Begun'
  BY <1>1, <1>3, <1>4 DEF KeyInv, Own, Begun
<1>8. KeyStands'
  BY <1>1, <1>5 DEF KeyInv, KeyStands
<1>9. TakersLate'
  <2> SUFFICES ASSUME NEW q1 \in Replicas, NEW q2 \in Replicas, NEW u \in Tasks,
                      AtWork(q1, u)', u \notin late, q2 # q1,
                      pass'[q2][u].pc \in {"restart", "insert"}
               PROVE  pass'[q2][u].claim <= now
    BY <1>1 DEF TakersLate
  <2>1. q2 # r \/ u # t
    BY <1>3, <1>4, <1>5, <1>6
  <2> QED BY <1>4, <1>5, <2>1 DEF KeyInv, TakersLate
<1>10. OverlapOnlyIfLate'
  BY <1>1, <1>5 DEF KeyInv, OverlapOnlyIfLate
<1> QED BY <1>7, <1>8, <1>9, <1>10 DEF KeyInv

\* A pass that takes its key on a running dispatch lease finds nobody at work,
\* and nobody else about to take the key on one.
LEMMA TakeKeepsKeys ==
  ASSUME TypeInv, TypeOK', LeaseInv, KeyInv, NEW r \in Replicas, NEW t \in Tasks,
         TakeKey(r, t), now' = now
  PROVE  KeyInv'
<1>1. /\ now \in Nat /\ PassLimit \in Nat /\ pass \in [Replicas -> [Tasks -> Passes]]
      /\ key \in [Tasks -> [status : KeyStatuses, seen : Nat]] /\ TypeOK
  BY TimeAssumption DEF TypeInv, TypeOK
<1>2. /\ pass[r][t].pc \in {"restart", "insert"} /\ SetPass(r, t, "working")
      /\ "working" \in PassPCs
  BY DEF TakeKey, PassPCs
<1>3. /\ key'[t] = [status |-> "in_progress", seen |-> now]
      /\ \A u \in Tasks : u # t => key'[u] = key[u]
  BY <1>1 DEF TakeKey
<1>4. /\ pass[r][t].claim <= now => t \in late'
      /\ \A u \in Tasks : u \notin late' => u \notin late
  BY <1>1 DEF TakeKey, Passes
<1>5. /\ pass'[r][t].pc = "working" /\ pass'[r][t].begun = pass[r][t].begun
      /\ pass'[r][t].claim = pass[r][t].claim /\ pass'[r][t].lease = pass[r][t].lease
      /\ \A q \in Replicas, u \in Tasks : q # r \/ u # t => pass'[q][u] = pass[q][u]
  BY <1>1, <1>2, PcSet
<1>6. \A q \in Replicas, u \in Tasks : AtWork(q, u)' => AtWork(q, u) \/ (q = r /\ u = t)
  BY <1>5 DEF AtWork, InTime
<1>7. \A q \in Replicas : q # r /\ t \notin late' => ~AtWork(q, t)
  <2> SUFFICES ASSUME NEW q \in Replicas, q # r, t \notin late', AtWork(q, t) PROVE FALSE
    OBVIOUS
  <2>1. pass[r][t].claim <= now
    BY <1>2, <1>4 DEF KeyInv, TakersLate
  <2> QED BY <1>4, <2>1
<1>8. Own' /\ Begun'
  BY <1>1, <1>5 DEF KeyInv, Own, Begun
<1>9. KeyStands'
  <2> SUFFICES ASSUME NEW q \in Replicas, NEW u \in Tasks, AtWork(q, u)', u \notin late'
               PROVE  key'[u].status = "in_progress" /\ pass'[q][u].begun <= key'[u].seen
    BY DEF KeyStands
  <2>1. CASE u = t
    <3>1. q = r
      BY <1>6, <1>7, <2>1
    <3> QED BY <1>1, <1>3, <1>5, <2>1, <3>1 DEF KeyInv, Begun
  <2>2. CASE u # t
    BY <1>3, <1>4, <1>5, <1>6, <2>2 DEF KeyInv, KeyStands
  <2> QED BY <2>1, <2>2
<1>10. TakersLate'
  <2> SUFFICES ASSUME NEW q1 \in Replicas, NEW q2 \in Replicas, NEW u \in Tasks,
                      AtWork(q1, u)', u \notin late', q2 # q1,
                      pass'[q2][u].pc \in {"restart", "insert"}
               PROVE  pass'[q2][u].claim <= now
    BY DEF TakersLate
  <2>1. ~(q2 = r /\ u = t) /\ pass'[q2][u] = pass[q2][u]
    BY <1>5
  <2>2. CASE AtWork(q1, u)
    BY <1>4, <2>1, <2>2 DEF KeyInv, TakersLate
  <2>3. CASE q1 = r /\ u = t
    <3> SUFFICES ASSUME pass[q2][t].claim > now PROVE FALSE
      BY <1>1, <2>1, <2>3 DEF Passes
    <3>1. PICK c1 \in Nat, c2 \in Nat : c1 = pass[r][t].claim /\ c2 = pass[q2][t].claim
      BY <1>1 DEF Passes
    <3>2. c1 > now /\ c2 > now
      BY <1>1, <1>4, <2>3, <3>1
    <3>3. Running(r, t, c1) /\ Running(q2, t, c2)
      BY <1>2, <2>1, <2>3, <3>1, <3>2 DEF Running, KeyInv, Own
    <3>4. c1 = claim[t] /\ c2 = claim[t]
      BY <3>2, <3>3 DEF LeaseInv, Live, Knows
    <3> QED BY <2>3, <3>2, <3>3, <3>4 DEF LeaseInv, Sole, Knows
  <2> QED BY <1>6, <2>2, <2>3
<1>11. OverlapOnlyIfLate'
  <2> SUFFICES ASSUME NEW r1 \in Replicas, NEW r2 \in Replicas, NEW u \in Tasks,
                      AtWork(r1, u)', AtWork(r2, u)', u \notin late'
               PROVE  r1 = r2
    BY DEF OverlapOnlyIfLate
  <2>1. CASE u = t
    BY <1>6, <1>7, <2>1
  <2>2. CASE u # t
    BY <1>4, <1>6, <2>2 DEF KeyInv, OverlapOnlyIfLate
  <2> QED BY <2>1, <2>2
<1> QED BY <1>8, <1>9, <1>10, <1>11 DEF KeyInv

LEMMA WriteKeepsKeys ==
  ASSUME TypeInv, TypeOK', LeaseInv, KeyInv, NEW r \in Replicas, NEW t \in Tasks, WriteKey(r, t)
  PROVE  KeyInv'
<1>1. /\ now' = now /\ now \in Nat /\ TypeOK /\ pass \in [Replicas -> [Tasks -> Passes]]
      /\ key \in [Tasks -> [status : KeyStatuses, seen : Nat]]
  BY DEF WriteKey, TypeInv, TypeOK
<1>2. CASE TakeKey(r, t)
  BY <1>1, <1>2, TakeKeepsKeys
<1>3. CASE TouchKey(r, t) \/ MissKey(r, t)
  <2>1. PICK pc \in {"succeeded", "errored"} : SetPass(r, t, pc) /\ pc \in PassPCs
    BY <1>3 DEF TouchKey, MissKey, PassPCs
  <2>2. late' = late
    BY <1>3 DEF TouchKey, MissKey
  <2>3. \A u \in Tasks :
          \/ key'[u] = key[u]
          \/ key'[u].status = key[u].status /\ key'[u].seen = now
    BY <1>1, <1>3 DEF TouchKey, MissKey
  <2>4. \A q \in Replicas, u \in Tasks :
          AtWork(q, u)' => AtWork(q, u) /\ pass'[q][u].begun = pass[q][u].begun
    <3>1. /\ pass'[r][t].pc = pc
          /\ \A q \in Replicas, u \in Tasks : q # r \/ u # t => pass'[q][u] = pass[q][u]
      BY <1>1, <2>1, PcSet
    <3>2. pass'[r][t].pc # "working"
      BY <3>1
    <3> QED BY <1>1, <3>1, <3>2 DEF AtWork, InTime
  <2>5. KeyStands'
    BY <1>1, <2>2, <2>3, <2>4 DEF KeyInv, KeyStands, Begun
  <2> QED BY <1>1, <2>1, <2>2, <2>5, QuietPass
<1> QED BY <1>2, <1>3 DEF WriteKey

\* Whoever completes the key in time is the one at work.
LEMMA EndKeepsKeys ==
  ASSUME TypeInv, TypeOK', KeyInv, NEW r \in Replicas, NEW t \in Tasks, EndPass(r, t)
  PROVE  KeyInv'
<1>1. /\ now' = now /\ late' = late /\ TypeOK /\ pass[r][t].pc = "working"
      /\ key \in [Tasks -> [status : KeyStatuses, seen : Nat]]
  BY DEF EndPass, TypeInv, TypeOK
<1>2. PICK pc \in {"succeeded", "errored"} : SetPass(r, t, pc) /\ pc \in PassPCs
  BY DEF EndPass, PassPCs
<1>3. \A u \in Tasks : key'[u] = key[u] \/ (u = t /\ AtWork(r, t))
  BY <1>1 DEF EndPass, AtWork
<1>4. \A q \in Replicas, u \in Tasks : AtWork(q, u)' =>
        AtWork(q, u) /\ pass'[q][u].begun = pass[q][u].begun /\ ~(q = r /\ u = t)
  BY <1>1, <1>2, PcSet DEF AtWork, InTime
<1>5. KeyStands'
  <2> SUFFICES ASSUME NEW q \in Replicas, NEW u \in Tasks, AtWork(q, u)', u \notin late
               PROVE  key'[u].status = "in_progress" /\ pass'[q][u].begun <= key'[u].seen
    BY <1>1 DEF KeyStands
  <2>1. key'[u] = key[u]
    BY <1>3, <1>4 DEF KeyInv, OverlapOnlyIfLate
  <2> QED BY <1>4, <2>1 DEF KeyInv, KeyStands
<1> QED BY <1>1, <1>2, <1>5, QuietPass

LEMMA KeyStep ==
  ASSUME TypeInv, TypeOK', LeaseInv, KeyInv, [Next]_vars
  PROVE  KeyInv'
<1>0. now \in Nat /\ PassLimit \in Nat /\ pass \in [Replicas -> [Tasks -> Passes]]
  BY TimeAssumption DEF TypeInv, TypeOK
<1>1. ASSUME key' = key, late' = late, now' \in Nat, now <= now',
             \A r \in Replicas, t \in Tasks : \/ pass'[r][t] = pass[r][t]
                                              \/ pass'[r][t] = IdlePass
      PROVE  KeyInv'
  <2>1. \A r \in Replicas, t \in Tasks : Quiet(r, t)
    BY <1>1 DEF Quiet, IdlePass
  <2>2. \A r \in Replicas, t \in Tasks :
          AtWork(r, t)' => AtWork(r, t) /\ pass'[r][t] = pass[r][t]
    <3> SUFFICES ASSUME NEW r \in Replicas, NEW t \in Tasks, AtWork(r, t)'
                 PROVE  AtWork(r, t) /\ pass'[r][t] = pass[r][t]
      OBVIOUS
    <3>1. pass'[r][t] = pass[r][t]
      BY <1>1 DEF AtWork, IdlePass
    <3>2. pass[r][t].begun \in Nat
      BY <1>0 DEF Passes
    <3> QED BY <1>0, <1>1, <3>1, <3>2 DEF AtWork, InTime
  <2>3. KeyStands'
    BY <1>1, <2>2 DEF KeyInv, KeyStands
  <2> QED BY <1>1, <2>1, <2>3, QuietStep
<1>2. CASE Tick
  BY <1>0, <1>1, <1>2 DEF Tick, table, memory
<1>3. CASE \E r \in Replicas : ClaimDue(r) \/ ReleaseBatch(r) \/ Stop(r)
  BY <1>0, <1>1, <1>3 DEF ClaimDue, ReleaseBatch, Stop, table
<1>4. CASE \E r \in Replicas : Record(r)
  BY <1>0, <1>1, <1>4 DEF Record
<1>5. CASE \E r \in Replicas, t \in Tasks : Work(r, t)
  BY <1>0, <1>1, <1>5 DEF Work, memory
<1>6. CASE UNCHANGED vars
  BY <1>0, <1>1, <1>6 DEF vars, table, memory
<1>7. ASSUME NEW r \in Replicas, Die(r) PROVE KeyInv'
  <2>1. /\ now' = now /\ key' = key /\ late' = late
        /\ pass' = [pass EXCEPT ![r] = [t \in Tasks |-> IdlePass]]
    BY <1>7 DEF Die, table
  <2>2. \A q \in Replicas, t \in Tasks : pass'[q][t] = pass[q][t] \/ pass'[q][t] = IdlePass
    BY <1>0, <2>1
  <2> QED BY <1>0, <1>1, <2>1, <2>2
<1>8. ASSUME NEW r \in Replicas, NEW t \in Tasks, Untrack(r, t) PROVE KeyInv'
  <2>1. /\ now' = now /\ key' = key /\ late' = late
        /\ pass' = [pass EXCEPT ![r][t] = IdlePass]
    BY <1>8 DEF Untrack, table
  <2>2. \A q \in Replicas, u \in Tasks : pass'[q][u] = pass[q][u] \/ pass'[q][u] = IdlePass
    BY <1>0, <2>1
  <2> QED BY <1>0, <1>1, <2>1, <2>2
<1> QED
  BY <1>2, <1>3, <1>4, <1>5, <1>6, <1>7, <1>8, StartKeepsKeys, ReadKeepsKeys,
     WriteKeepsKeys, EndKeepsKeys DEF Next

\* Passes of one task overlap only when one of them took its execution key on
\* a lapsed dispatch lease, for any number of replicas and tasks and any lease
\* lengths, provided a pass ends before the key it took can expire
\* (pg_advanced_outreach.go, StartTaskExecution; local.go, tick).
THEOREM OverlapNeedsLateness == Spec => []OverlapOnlyIfLate
<1>1. Init => KeyInv
  <2> SUFFICES ASSUME Init PROVE KeyInv
    OBVIOUS
  <2>1. \A r \in Replicas, t \in Tasks :
          /\ pass[r][t].pc = "idle" /\ pass[r][t].claim = 0 /\ pass[r][t].begun = 0
          /\ ~AtWork(r, t)
    BY DEF Init, IdlePass, AtWork
  <2>2. now = 1
    BY DEF Init
  <2> QED BY <2>1, <2>2 DEF KeyInv, Own, Begun, KeyStands, TakersLate, OverlapOnlyIfLate
<1>2. TypeInv /\ TypeInv' /\ LeaseInv /\ KeyInv /\ [Next]_vars => KeyInv'
  BY KeyStep DEF TypeInv
<1>3. KeyInv => OverlapOnlyIfLate
  BY DEF KeyInv
<1> QED BY <1>1, <1>2, <1>3, LeaseInvariant, PTL DEF Spec

-----------------------------------------------------------------------------
(* No running lease is forgotten *)

\* Some replica still knows the claim c of task t.
Known(t, c) == \E r \in Replicas : Knows(r, t, c)

Accounted == \A t \in Tasks : \A c \in Nat :
               c > now /\ c = claim[t] /\ t \notin forsaken => Known(t, c)

LEMMA AccountedIsHeld ==
  ASSUME TypeInv, Accounted
  PROVE  LeaseHasHolder
<1> SUFFICES ASSUME NEW t \in Tasks, claim[t] > now, t \notin forsaken
             PROVE  \E r \in Replicas : claim[t] \in Held(r, t)
  BY DEF LeaseHasHolder
<1>1. claim[t] \in Nat
  BY DEF TypeInv, TypeOK
<1>2. PICK r \in Replicas : Knows(r, t, claim[t])
  BY <1>1 DEF Accounted, Known
<1> QED BY <1>2, HeldIsKnown

\* A step after which every replica knows what it knew.
LEMMA SameKnown ==
  ASSUME TypeInv, Accounted, now' \in Nat, now <= now', claim' = claim, forsaken' = forsaken,
         \A r \in Replicas, t \in Tasks : \A c \in Nat :
           c > now /\ c = claim[t] /\ Knows(r, t, c) => Knows(r, t, c)'
  PROVE  Accounted'
<1>1. now \in Nat
  BY DEF TypeInv, TypeOK
<1> SUFFICES ASSUME NEW t \in Tasks, NEW c \in Nat, c > now', c = claim[t], t \notin forsaken
             PROVE  Known(t, c)'
  BY DEF Accounted
<1>2. c > now
  BY <1>1
<1> QED BY <1>2 DEF Accounted, Known

LEMMA ClaimAccounts ==
  ASSUME TypeInv, Accounted, NEW r \in Replicas, ClaimDue(r)
  PROVE  Accounted'
<1> DEFINE c0 == now + Lease
<1>1. PICK S \in SUBSET {t \in Tasks : Due(t)} :
        /\ claim' = [t \in Tasks |-> IF t \in S THEN c0 ELSE claim[t]]
        /\ \/ /\ batch' = [batch EXCEPT ![r] = [tasks |-> S, claim |-> c0]]
              /\ forsaken' = forsaken \ S
           \/ forsaken' = forsaken \cup S /\ UNCHANGED batch
  BY DEF ClaimDue
<1>2. /\ now' = now /\ now \in Nat /\ pass' = pass /\ saving' = saving
      /\ batch[r].tasks = {}
      /\ batch \in [Replicas -> [tasks : SUBSET Tasks, claim : Nat]]
  BY DEF ClaimDue, NoBatch, TypeInv, TypeOK
<1> SUFFICES ASSUME NEW t \in Tasks, NEW c \in Nat,
                    c > now, c = claim'[t], t \notin forsaken'
             PROVE  Known(t, c)'
  BY <1>2 DEF Accounted
<1>3. CASE t \in S
  <2> HIDE DEF c0
  <2>1. batch' = [batch EXCEPT ![r] = [tasks |-> S, claim |-> c0]] /\ c = c0
    BY <1>1, <1>3
  <2>2. batch'[r].tasks = S /\ batch'[r].claim = c0
    BY <1>2, <2>1
  <2> QED BY <1>3, <2>1, <2>2 DEF Known, Knows, InBatch
<1>4. CASE t \notin S
  <2>1. c = claim[t] /\ t \notin forsaken
    BY <1>1, <1>4
  <2>2. PICK q \in Replicas : Knows(q, t, c)
    BY <2>1 DEF Accounted, Known
  <2>3. q # r => batch'[q] = batch[q]
    BY <1>1, <1>2
  <2>4. InBatch(q, t, c) => InBatch(q, t, c)'
    BY <1>2, <2>3 DEF InBatch
  <2> QED BY <1>2, <2>2, <2>4 DEF Known, Knows, Running, Saving
<1> QED BY <1>3, <1>4

\* Starting a task forgets no running lease, and no replica learns of a claim.
LEMMA FireMoves ==
  ASSUME TypeInv, LeaseInv, NEW r \in Replicas, NEW t \in Tasks, Fire(r, t)
  PROVE  /\ now' = now /\ claim' = claim /\ forsaken' = forsaken
         /\ \A q \in Replicas, u \in Tasks : \A c \in Nat :
              /\ Knows(q, u, c)' => Knows(q, u, c)
              /\ c > now /\ c = claim[u] /\ Knows(q, u, c) => Knows(q, u, c)'
<1> DEFINE c0 == batch[r].claim  p == Tracked(pass[r][t], c0)
<1>1. /\ now' = now /\ claim' = claim /\ saving' = saving /\ forsaken' = forsaken
      /\ t \in batch[r].tasks /\ now \in Nat /\ c0 \in Nat
      /\ pass' = [pass EXCEPT ![r][t] = p] /\ batch' = [batch EXCEPT ![r] = Rest(r, t)]
      /\ batch \in [Replicas -> [tasks : SUBSET Tasks, claim : Nat]]
      /\ pass \in [Replicas -> [Tasks -> Passes]]
  BY DEF Fire, table, TypeInv, TypeOK
<1>2. p.lease = c0 /\ p.pc # "idle"
  BY <1>1 DEF Tracked, IdlePass, Passes
<1> HIDE DEF p
<1>3. /\ pass'[r][t] = p
      /\ \A q \in Replicas, u \in Tasks : q # r \/ u # t => pass'[q][u] = pass[q][u]
  BY <1>1
<1>4. /\ Rest(r, t).tasks = batch[r].tasks \ {t}
      /\ Rest(r, t).tasks # {} => Rest(r, t).claim = c0
  BY <1>1 DEF Rest, NoBatch
<1>5. batch'[r] = Rest(r, t) /\ \A q \in Replicas : q # r => batch'[q] = batch[q]
  BY <1>1
<1>6. InBatch(r, t, c0)
  BY <1>1 DEF InBatch
<1>7. \A q \in Replicas, u \in Tasks : \A c \in Nat : Knows(q, u, c)' => Knows(q, u, c)
  <2> SUFFICES ASSUME NEW q \in Replicas, NEW u \in Tasks, NEW c \in Nat, Knows(q, u, c)'
               PROVE  Knows(q, u, c)
    OBVIOUS
  <2>1. CASE Saving(q, u, c)'
    BY <1>1, <2>1 DEF Knows, Saving
  <2>2. CASE InBatch(q, u, c)'
    BY <1>4, <1>5, <2>2 DEF Knows, InBatch
  <2>3. CASE Running(q, u, c)'
    BY <1>2, <1>3, <1>6, <2>3 DEF Knows, Running
  <2> QED BY <2>1, <2>2, <2>3 DEF Knows
<1>8. ASSUME NEW q \in Replicas, NEW u \in Tasks, NEW c \in Nat,
             c > now, c = claim[u], Knows(q, u, c)
      PROVE  Knows(q, u, c)'
  <2>1. CASE Saving(q, u, c)
    BY <1>1, <2>1 DEF Knows, Saving
  <2>2. CASE InBatch(q, u, c)
    BY <1>2, <1>3, <1>4, <1>5, <2>2 DEF Knows, InBatch, Running
  <2>3. CASE Running(q, u, c) /\ (q # r \/ u # t)
    BY <1>3, <2>3 DEF Knows, Running
  <2>4. CASE Running(r, t, c) /\ q = r /\ u = t
    <3>1. c <= c0
      BY <1>1, <2>4 DEF Running, LeaseInv, Ordered
    <3>2. c0 = claim[t]
      BY <1>1, <1>6, <1>8, <3>1 DEF LeaseInv, Live, Knows
    <3> QED BY <1>2, <1>3, <1>8, <2>4, <3>2 DEF Knows, Running
  <2> QED BY <1>8, <2>1, <2>2, <2>3, <2>4 DEF Knows
<1> QED BY <1>1, <1>7, <1>8

\* untrack moves a claim within its replica.
LEMMA UntrackMoves ==
  ASSUME TypeInv, NEW r \in Replicas, NEW t \in Tasks, Untrack(r, t)
  PROVE  /\ now' = now /\ claim' = claim /\ forsaken' = forsaken
         /\ \A q \in Replicas, u \in Tasks : \A c \in Nat : Knows(q, u, c)' <=> Knows(q, u, c)
<1> DEFINE x == [task |-> t, claim |-> pass[r][t].lease,
                 ending |-> IF stopping[r] THEN "released" ELSE pass[r][t].pc]
<1>1. /\ now' = now /\ now \in Nat /\ claim' = claim /\ batch' = batch /\ forsaken' = forsaken
      /\ x.task = t /\ x.claim = pass[r][t].lease /\ pass[r][t].pc # "idle"
      /\ saving' = [saving EXCEPT ![r] = @ \cup {x}] /\ saving \in [Replicas -> SUBSET Savings]
      /\ pass' = [pass EXCEPT ![r][t] = IdlePass] /\ pass \in [Replicas -> [Tasks -> Passes]]
      /\ IdlePass.pc = "idle"
  BY DEF Untrack, table, TypeInv, TypeOK, IdlePass
<1> HIDE DEF x
<1>2. /\ saving'[r] = saving[r] \cup {x}
      /\ \A q \in Replicas : q # r => saving'[q] = saving[q]
      /\ pass'[r][t].pc = "idle"
      /\ \A q \in Replicas, u \in Tasks : q # r \/ u # t => pass'[q][u] = pass[q][u]
  BY <1>1
<1>3. \A q \in Replicas, u \in Tasks : \A c \in Nat : Knows(q, u, c)' <=> Knows(q, u, c)
  <2> SUFFICES ASSUME NEW q \in Replicas, NEW u \in Tasks, NEW c \in Nat
               PROVE  Knows(q, u, c)' <=> Knows(q, u, c)
    OBVIOUS
  <2>1. InBatch(q, u, c)' <=> InBatch(q, u, c)
    BY <1>1 DEF InBatch
  <2>2. CASE q = r /\ u = t
    <3>1. ~Running(q, u, c)'
      BY <1>2, <2>2 DEF Running
    <3>2. Saving(q, u, c)' <=> Saving(q, u, c) \/ Running(q, u, c)
      BY <1>1, <1>2, <2>2 DEF Saving, Running
    <3> QED BY <2>1, <3>1, <3>2 DEF Knows
  <2>3. CASE ~(q = r /\ u = t)
    <3>1. Running(q, u, c)' <=> Running(q, u, c)
      BY <1>2, <2>3 DEF Running
    <3>2. Saving(q, u, c)' <=> Saving(q, u, c)
      BY <1>1, <1>2, <2>3 DEF Saving
    <3> QED BY <2>1, <3>1, <3>2 DEF Knows
  <2> QED BY <2>2, <2>3
<1> QED BY <1>1, <1>3

LEMMA FireAccounts ==
  ASSUME TypeInv, LeaseInv, Accounted, NEW r \in Replicas, NEW t \in Tasks, Fire(r, t)
  PROVE  Accounted'
<1>1. now' \in Nat /\ now <= now'
  BY FireMoves DEF TypeInv, TypeOK
<1> QED BY <1>1, FireMoves, SameKnown

LEMMA UntrackAccounts ==
  ASSUME TypeInv, Accounted, NEW r \in Replicas, NEW t \in Tasks, Untrack(r, t)
  PROVE  Accounted'
<1>1. now' \in Nat /\ now <= now'
  BY UntrackMoves DEF TypeInv, TypeOK
<1> QED BY <1>1, UntrackMoves, SameKnown

LEMMA ReleaseAccounts ==
  ASSUME TypeInv, Accounted, NEW r \in Replicas, ReleaseBatch(r)
  PROVE  Accounted'
<1> DEFINE own == {t \in batch[r].tasks : Owns(t, batch[r].claim)}
<1>1. /\ now' = now /\ now \in Nat /\ pass' = pass /\ saving' = saving
      /\ batch' = [batch EXCEPT ![r] = NoBatch]
      /\ batch \in [Replicas -> [tasks : SUBSET Tasks, claim : Nat]]
  BY DEF ReleaseBatch, TypeInv, TypeOK
<1>2. \/ /\ claim' = [t \in Tasks |-> IF t \in own THEN 0 ELSE claim[t]]
         /\ forsaken' = forsaken
      \/ forsaken' = forsaken \cup own /\ claim' = claim
  BY DEF ReleaseBatch
<1> SUFFICES ASSUME NEW t \in Tasks, NEW c \in Nat,
                    c > now, c = claim'[t], t \notin forsaken'
             PROVE  Known(t, c)'
  BY <1>1 DEF Accounted
<1>3. t \notin own /\ c = claim[t] /\ t \notin forsaken
  BY <1>1, <1>2
<1>4. PICK q \in Replicas : Knows(q, t, c)
  BY <1>3 DEF Accounted, Known
<1>5. InBatch(q, t, c) => q # r
  BY <1>3 DEF InBatch, Owns
<1>6. q # r => batch'[q] = batch[q]
  BY <1>1
<1> QED BY <1>1, <1>4, <1>5, <1>6 DEF Known, Knows, InBatch, Running, Saving

LEMMA RecordAccounts ==
  ASSUME TypeInv, Accounted, NEW r \in Replicas, Record(r)
  PROVE  Accounted'
<1>1. PICK x \in saving[r] :
        /\ RecordSuccess(r, x) \/ RecordFailure(r, x)
           \/ RecordRelease(r, x) \/ RecordLost(r, x)
        /\ saving' = [saving EXCEPT ![r] = @ \ {x}]
        /\ UNCHANGED <<now, status, key, batch, pass, stopping, late>>
  BY DEF Record
<1>2. /\ now \in Nat /\ x.task \in Tasks /\ x.claim \in Nat
      /\ saving \in [Replicas -> SUBSET Savings] /\ claim \in [Tasks -> Nat]
  BY DEF TypeInv, TypeOK, Savings
<1>3. \/ claim' = Cleared(x.task, x.claim) /\ forsaken' = forsaken
      \/ /\ claim' = claim
         /\ forsaken' = forsaken \cup {t \in {x.task} : Owns(t, x.claim)}
  BY <1>1 DEF RecordSuccess, RecordFailure, RecordRelease, RecordLost
<1> SUFFICES ASSUME NEW t \in Tasks, NEW c \in Nat,
                    c > now, c = claim'[t], t \notin forsaken'
             PROVE  Known(t, c)'
  BY <1>1 DEF Accounted
<1>4. c = claim[t] /\ t \notin forsaken /\ ~(t = x.task /\ c = x.claim)
  <2>1. CASE Owns(x.task, x.claim)
    BY <1>2, <1>3, <2>1 DEF Cleared, Owns
  <2>2. CASE ~Owns(x.task, x.claim)
    BY <1>3, <2>2 DEF Cleared, Owns
  <2> QED BY <2>1, <2>2
<1>5. PICK q \in Replicas : Knows(q, t, c)
  BY <1>4 DEF Accounted, Known
<1>6. \A y \in saving[q] : y # x => y \in saving'[q]
  BY <1>1, <1>2
<1>7. Saving(q, t, c) => Saving(q, t, c)'
  BY <1>4, <1>6 DEF Saving
<1> QED BY <1>1, <1>5, <1>7 DEF Known, Knows, InBatch, Running

LEMMA DieAccounts ==
  ASSUME TypeInv, Accounted, NEW r \in Replicas, Die(r)
  PROVE  Accounted'
<1>1. /\ now' = now /\ now \in Nat /\ claim' = claim
      /\ forsaken' = forsaken \cup {t \in Tasks : claim[t] \in Held(r, t)}
      /\ \A q \in Replicas : q # r =>
           batch'[q] = batch[q] /\ pass'[q] = pass[q] /\ saving'[q] = saving[q]
  BY DEF Die, table, TypeInv, TypeOK
<1> SUFFICES ASSUME NEW t \in Tasks, NEW c \in Nat,
                    c > now, c = claim[t], t \notin forsaken'
             PROVE  Known(t, c)'
  BY <1>1 DEF Accounted
<1>2. PICK q \in Replicas : Knows(q, t, c)
  BY <1>1 DEF Accounted, Known
<1>3. c \notin Held(r, t)
  BY <1>1
<1>4. q # r
  BY <1>2, <1>3, HeldIsKnown
<1> QED BY <1>1, <1>2, <1>4 DEF Known, Knows, InBatch, Running, Saving

\* A running lease is always known to a replica that will give it back, unless
\* a process or a statement failed (local.go, track, untrack and release).
THEOREM LeaseNotForgotten == Spec => []LeaseHasHolder
<1>1. Init => Accounted
  <2> SUFFICES ASSUME Init PROVE Accounted
    OBVIOUS
  <2>1. now = 1 /\ \A t \in Tasks : claim[t] = 0
    BY DEF Init
  <2> QED BY <2>1 DEF Accounted
<1>2. TypeInv /\ TypeInv' /\ LeaseInv /\ Accounted /\ [Next]_vars => Accounted'
  <2> SUFFICES ASSUME TypeInv, LeaseInv, Accounted, [Next]_vars PROVE Accounted'
    OBVIOUS
  <2>0. now \in Nat /\ pass \in [Replicas -> [Tasks -> Passes]] /\ TypeOK
    BY DEF TypeInv, TypeOK
  <2>1. ASSUME UNCHANGED <<claim, batch, saving, forsaken>>, now' \in Nat, now <= now',
               \A r \in Replicas, t \in Tasks : pass[r][t].pc # "idle" =>
                 pass'[r][t].pc # "idle" /\ pass'[r][t].lease = pass[r][t].lease
        PROVE  Accounted'
    <3>1. \A r \in Replicas, t \in Tasks : \A c \in Nat : Knows(r, t, c) => Knows(r, t, c)'
      BY <2>1 DEF Knows, InBatch, Running, Saving
    <3> QED BY <2>1, <3>1, SameKnown
  <2>2. CASE Tick
    BY <2>0, <2>1, <2>2 DEF Tick, table, memory
  <2>3. CASE \E r \in Replicas : Stop(r)
    BY <2>0, <2>1, <2>3 DEF Stop, table
  <2>4. CASE \E r \in Replicas, t \in Tasks : Work(r, t)
    BY <2>0, <2>1, <2>4 DEF Work, memory
  <2>5. CASE UNCHANGED vars
    BY <2>0, <2>1, <2>5 DEF vars, table, memory
  <2>6. ASSUME NEW r \in Replicas, NEW t \in Tasks, ReadKey(r, t) PROVE Accounted'
    <3> DEFINE v == Verdict(key[t])
               p == [pass[r][t] EXCEPT !.pc = v, !.claim = pass[r][t].lease, !.begun = now]
    <3>1. /\ pass' = [pass EXCEPT ![r][t] = p] /\ UNCHANGED <<now, claim, batch, saving, forsaken>>
      BY <2>6 DEF ReadKey, table
    <3>2. v # "idle"
      BY DEF Verdict
    <3> HIDE DEF v
    <3>3. p.pc # "idle" /\ p.lease = pass[r][t].lease
      BY <2>0, <3>2 DEF Passes
    <3> HIDE DEF p
    <3>4. /\ pass'[r][t] = p
          /\ \A q \in Replicas, u \in Tasks : q # r \/ u # t => pass'[q][u] = pass[q][u]
      BY <2>0, <3>1
    <3> QED BY <2>0, <2>1, <3>1, <3>3, <3>4
  <2>7. ASSUME NEW r \in Replicas, NEW t \in Tasks, WriteKey(r, t) \/ EndPass(r, t)
        PROVE  Accounted'
    <3>1. PICK pc \in PassPCs \ {"idle"} : SetPass(r, t, pc)
      BY <2>7 DEF WriteKey, TouchKey, TakeKey, MissKey, EndPass, PassPCs
    <3>2. UNCHANGED <<now, claim, batch, saving, forsaken>>
      BY <2>7 DEF WriteKey, TouchKey, TakeKey, MissKey, EndPass
    <3>3. \A q \in Replicas, u \in Tasks : pass[q][u].pc # "idle" =>
            pass'[q][u].pc # "idle" /\ pass'[q][u].lease = pass[q][u].lease
      BY <2>0, <3>1, PcSet
    <3> QED BY <2>0, <2>1, <3>2, <3>3
  <2> QED
    BY <2>2, <2>3, <2>4, <2>5, <2>6, <2>7, ClaimAccounts, FireAccounts, UntrackAccounts,
       ReleaseAccounts, RecordAccounts, DieAccounts DEF Next
<1>3. TypeInv /\ Accounted => LeaseHasHolder
  BY AccountedIsHeld
<1> QED BY <1>1, <1>2, <1>3, LeaseInvariant, PTL DEF Spec

-----------------------------------------------------------------------------
(* The pool *)

\* What a replica's pool has to hold: what runs, what saves, what is claimed.
Load(r) == Busy(r) + Cardinality(batch[r].tasks)

\* A pool counts finitely many goroutines.
Finite == \A r \in Replicas : IsFiniteSet(saving[r])

FitInv == TypeInv /\ Finite /\ ClaimsFit

\* What is in flight or claimed are tasks, so both are finite.
LEMMA Sizes ==
  ASSUME TypeInv, Finite, NEW r \in Replicas
  PROVE  /\ IsFiniteSet(Inflight(r)) /\ IsFiniteSet(batch[r].tasks) /\ IsFiniteSet(saving[r])
         /\ Cardinality(Inflight(r)) \in Nat
         /\ Cardinality(batch[r].tasks) \in Nat
         /\ Cardinality(saving[r]) \in Nat
<1>1. Inflight(r) \subseteq Tasks /\ batch[r].tasks \subseteq Tasks
  BY DEF Inflight, TypeInv, TypeOK
<1>2. IsFiniteSet(Inflight(r)) /\ IsFiniteSet(batch[r].tasks)
  BY <1>1, TasksAssumption, FS_Subset
<1>3. IsFiniteSet(saving[r])
  BY DEF Finite
<1> QED
  BY <1>2, <1>3, FS_CardinalityType

\* One element more is at most one more in number.
LEMMA OneMore ==
  ASSUME NEW S, IsFiniteSet(S), NEW x
  PROVE  IsFiniteSet(S \cup {x}) /\ Cardinality(S \cup {x}) <= Cardinality(S) + 1
<1>1. /\ IsFiniteSet(S \cup {x})
      /\ Cardinality(S \cup {x}) = IF x \in S THEN Cardinality(S) ELSE Cardinality(S) + 1
  BY FS_AddElement
<1>2. Cardinality(S) \in Nat
  BY FS_CardinalityType
<1> QED
  BY <1>1, <1>2

\* A member less is one less in number.
LEMMA OneLess ==
  ASSUME NEW S, IsFiniteSet(S), NEW x \in S
  PROVE  IsFiniteSet(S \ {x}) /\ Cardinality(S \ {x}) = Cardinality(S) - 1
BY FS_RemoveElement, FS_CardinalityType

\* The invariant of a replica that the step leaves alone.
LEMMA FitKept ==
  ASSUME FitInv, NEW r \in Replicas,
         Inflight(r)' = Inflight(r), saving'[r] = saving[r], batch'[r] = batch[r]
  PROVE  IsFiniteSet(saving'[r]) /\ Load(r)' <= Cap
BY DEF FitInv, Finite, ClaimsFit, Load, Busy

-----------------------------------------------------------------------------
(* The steps of one replica *)

\* tick claims no more than it counts free.
LEMMA ClaimFits ==
  ASSUME FitInv, NEW r \in Replicas, ClaimDue(r), NEW q \in Replicas
  PROVE  IsFiniteSet(saving'[q]) /\ Load(q)' <= Cap
<1>0. batch \in [Replicas -> [tasks : SUBSET Tasks, claim : Nat]]
  BY DEF FitInv, TypeInv, TypeOK
<1>1. Inflight(q)' = Inflight(q) /\ saving' = saving
  BY DEF ClaimDue, Inflight
<1>2. CASE batch'[q] = batch[q]
  BY <1>1, <1>2, FitKept
<1>3. CASE batch'[q] # batch[q]
  <2>1. PICK S \in SUBSET Tasks :
          /\ Cardinality(S) <= Free(r)
          /\ batch' = [batch EXCEPT ![r] = [tasks |-> S, claim |-> now + Lease]]
    BY <1>3 DEF ClaimDue
  <2>2. q = r /\ batch'[r].tasks = S
    BY <1>0, <1>3, <2>1
  <2>3. Cardinality(S) \in Nat
    BY TasksAssumption, FS_Subset, FS_CardinalityType
  <2>4. Busy(r)' = Busy(r) /\ Busy(r) \in Nat
    BY <1>1, <2>2, Sizes DEF Busy, FitInv
  <2>5. Load(r)' = Busy(r) + Cardinality(S)
    BY <2>2, <2>4 DEF Load
  <2> QED
    BY <1>1, <2>1, <2>2, <2>3, <2>4, <2>5, CapAssumption DEF Free, FitInv, Finite
<1> QED
  BY <1>2, <1>3

\* A goroutine that starts takes the place its task had in the batch.
LEMMA FireFits ==
  ASSUME FitInv, NEW r \in Replicas, NEW t \in Tasks, Fire(r, t)
  PROVE  IsFiniteSet(saving'[r]) /\ Load(r)' <= Cap
<1>0. /\ batch \in [Replicas -> [tasks : SUBSET Tasks, claim : Nat]]
      /\ pass \in [Replicas -> [Tasks -> Passes]]
      /\ TypeInv /\ Finite
  BY DEF FitInv, TypeInv, TypeOK
<1>1. t \in batch[r].tasks /\ batch'[r] = Rest(r, t) /\ saving' = saving
  BY <1>0 DEF Fire
<1>2. batch'[r].tasks = batch[r].tasks \ {t}
  BY <1>0, <1>1 DEF Rest, NoBatch
<1>3. Inflight(r)' \subseteq Inflight(r) \cup {t}
  BY <1>0 DEF Fire, Inflight
<1>4. Cardinality(batch'[r].tasks) = Cardinality(batch[r].tasks) - 1
  BY <1>0, <1>1, <1>2, Sizes, OneLess
<1>5. Cardinality(Inflight(r)') <= Cardinality(Inflight(r)) + 1 /\ Cardinality(Inflight(r)') \in Nat
  <2>1. /\ IsFiniteSet(Inflight(r) \cup {t})
        /\ Cardinality(Inflight(r) \cup {t}) <= Cardinality(Inflight(r)) + 1
    BY <1>0, Sizes, OneMore
  <2>2. IsFiniteSet(Inflight(r)') /\ Cardinality(Inflight(r)') <= Cardinality(Inflight(r) \cup {t})
    BY <1>3, <2>1, FS_Subset
  <2> QED
    BY <1>0, <2>1, <2>2, Sizes, FS_CardinalityType
<1>6. Load(r) <= Cap
  BY DEF FitInv, ClaimsFit, Load
<1>7. Load(r)' = Cardinality(Inflight(r)') + Cardinality(saving[r]) + Cardinality(batch'[r].tasks)
  BY <1>1 DEF Load, Busy
<1> QED
  BY <1>0, <1>1, <1>4, <1>5, <1>6, <1>7, Sizes, CapAssumption DEF Load, Busy, Finite

\* A goroutine keeps its slot while it saves.
LEMMA UntrackFits ==
  ASSUME FitInv, NEW r \in Replicas, NEW t \in Tasks, Untrack(r, t)
  PROVE  IsFiniteSet(saving'[r]) /\ Load(r)' <= Cap
<1>0. /\ saving \in [Replicas -> SUBSET Savings]
      /\ pass \in [Replicas -> [Tasks -> Passes]]
      /\ TypeInv /\ Finite
  BY DEF FitInv, TypeInv, TypeOK
<1>1. \E x : saving'[r] = saving[r] \cup {x}
  BY <1>0 DEF Untrack
<1>2. t \in Inflight(r) /\ Inflight(r)' = Inflight(r) \ {t}
  BY <1>0 DEF Untrack, Inflight, IdlePass
<1>3. Cardinality(Inflight(r)') = Cardinality(Inflight(r)) - 1
  BY <1>0, <1>2, Sizes, OneLess
<1>4. /\ IsFiniteSet(saving'[r]) /\ Cardinality(saving'[r]) \in Nat
      /\ Cardinality(saving'[r]) <= Cardinality(saving[r]) + 1
  <2>1. IsFiniteSet(saving'[r]) /\ Cardinality(saving'[r]) <= Cardinality(saving[r]) + 1
    <3>1. PICK x : saving'[r] = saving[r] \cup {x}
      BY <1>1
    <3>2. IsFiniteSet(saving[r])
      BY <1>0, Sizes
    <3> QED
      BY <3>1, <3>2, OneMore
  <2> QED
    BY <2>1, FS_CardinalityType
<1>5. Load(r) <= Cap
  BY DEF FitInv, ClaimsFit, Load
<1>6. Load(r)' = Cardinality(Inflight(r)') + Cardinality(saving'[r]) + Cardinality(batch[r].tasks)
  BY DEF Untrack, Load, Busy
<1> QED
  BY <1>0, <1>3, <1>4, <1>5, <1>6, Sizes, CapAssumption DEF Load, Busy

\* A last statement that returned gives its slot back.
LEMMA RecordFits ==
  ASSUME FitInv, NEW r \in Replicas, Record(r)
  PROVE  IsFiniteSet(saving'[r]) /\ Load(r)' <= Cap
<1>0. saving \in [Replicas -> SUBSET Savings] /\ TypeInv /\ Finite
  BY DEF FitInv, TypeInv, TypeOK
<1>1. \E x \in saving[r] : saving'[r] = saving[r] \ {x}
  BY <1>0 DEF Record
<1>2. Inflight(r)' = Inflight(r) /\ batch'[r] = batch[r]
  BY DEF Record, Inflight
<1>3. /\ IsFiniteSet(saving'[r]) /\ Cardinality(saving'[r]) \in Nat
      /\ Cardinality(saving'[r]) <= Cardinality(saving[r])
  <2>1. IsFiniteSet(saving'[r]) /\ Cardinality(saving'[r]) = Cardinality(saving[r]) - 1
    BY <1>0, <1>1, Sizes, OneLess
  <2>2. Cardinality(saving'[r]) \in Nat /\ Cardinality(saving[r]) \in Nat
    BY <1>0, <2>1, Sizes, FS_CardinalityType
  <2> QED
    BY <2>1, <2>2
<1>4. Load(r) <= Cap
  BY DEF FitInv, ClaimsFit, Load
<1>5. Load(r)' = Cardinality(Inflight(r)) + Cardinality(saving'[r]) + Cardinality(batch[r].tasks)
  BY <1>2 DEF Load, Busy
<1> QED
  BY <1>0, <1>3, <1>4, <1>5, Sizes, CapAssumption DEF Load, Busy

\* A batch that is handed back, or a process that ends, makes room.
LEMMA RoomMade ==
  ASSUME FitInv, NEW r \in Replicas, batch'[r] = NoBatch,
         \/ Inflight(r)' = Inflight(r) /\ saving'[r] = saving[r]
         \/ Inflight(r)' = {} /\ saving'[r] = {}
  PROVE  IsFiniteSet(saving'[r]) /\ Load(r)' <= Cap
<1>0. TypeInv /\ Finite /\ Load(r) <= Cap
  BY DEF FitInv, ClaimsFit, Load
<1>1. IsFiniteSet({}) /\ Cardinality({}) = 0
  BY FS_EmptySet
<1>2. Cardinality(batch'[r].tasks) = 0
  BY <1>1 DEF NoBatch
<1>3. /\ IsFiniteSet(saving'[r])
      /\ Cardinality(Inflight(r)') \in 0..Cardinality(Inflight(r))
      /\ Cardinality(saving'[r]) \in 0..Cardinality(saving[r])
  <2>1. CASE Inflight(r)' = Inflight(r) /\ saving'[r] = saving[r]
    BY <1>0, <2>1, Sizes
  <2>2. CASE Inflight(r)' = {} /\ saving'[r] = {}
    BY <1>0, <1>1, <2>2, Sizes
  <2> QED
    BY <2>1, <2>2
<1>4. Load(r)' = Cardinality(Inflight(r)') + Cardinality(saving'[r])
  BY <1>2, <1>3, Sizes, <1>0 DEF Load, Busy
<1> QED
  BY <1>0, <1>3, <1>4, Sizes, CapAssumption DEF Load, Busy

-----------------------------------------------------------------------------
(* The invariant *)

LEMMA FitStep == FitInv /\ TypeInv' /\ [Next]_vars => FitInv'
<1> SUFFICES ASSUME FitInv, [Next]_vars, NEW q \in Replicas
             PROVE  IsFiniteSet(saving'[q]) /\ Load(q)' <= Cap
  BY DEF FitInv, Finite, ClaimsFit, Load
<1> USE DEF table, memory
<1> DEFINE Goal == IsFiniteSet(saving'[q]) /\ Load(q)' <= Cap
<1>0. /\ batch \in [Replicas -> [tasks : SUBSET Tasks, claim : Nat]]
      /\ pass \in [Replicas -> [Tasks -> Passes]]
      /\ saving \in [Replicas -> SUBSET Savings]
      /\ TypeOK
  BY DEF FitInv, TypeInv, TypeOK
\* A step that counts nothing differently here.
<1>a. ASSUME Inflight(q)' = Inflight(q), saving'[q] = saving[q], batch'[q] = batch[q]
      PROVE  Goal
  BY <1>a, FitKept
<1>1. CASE Tick \/ UNCHANGED vars
  BY <1>1, <1>a DEF Tick, vars, Inflight
<1>2. ASSUME NEW r \in Replicas, ClaimDue(r) PROVE Goal
  BY <1>2, ClaimFits
<1>3. ASSUME NEW r \in Replicas, q # r,
             ReleaseBatch(r) \/ Record(r) \/ Die(r) \/ \E t \in Tasks : Fire(r, t) \/ Untrack(r, t)
      PROVE  Goal
  <2>1. pass'[q] = pass[q] /\ saving'[q] = saving[q] /\ batch'[q] = batch[q]
    BY <1>0, <1>3 DEF ReleaseBatch, Record, Die, Fire, Untrack
  <2>2. Inflight(q)' = Inflight(q)
    BY <2>1 DEF Inflight
  <2> QED
    BY <1>a, <2>1, <2>2
<1>4. CASE ReleaseBatch(q)
  <2>1. batch'[q] = NoBatch /\ saving'[q] = saving[q] /\ Inflight(q)' = Inflight(q)
    BY <1>0, <1>4 DEF ReleaseBatch, Inflight
  <2> QED
    BY <2>1, RoomMade
<1>5. CASE Die(q)
  <2>1. batch'[q] = NoBatch /\ saving'[q] = {} /\ Inflight(q)' = {}
    BY <1>0, <1>5 DEF Die, Inflight, IdlePass
  <2> QED
    BY <2>1, RoomMade
<1>6. CASE Record(q)
  BY <1>6, RecordFits
<1>7. ASSUME NEW t \in Tasks, Fire(q, t) PROVE Goal
  BY <1>7, FireFits
<1>8. ASSUME NEW t \in Tasks, Untrack(q, t) PROVE Goal
  BY <1>8, UntrackFits
<1>9. ASSUME NEW r \in Replicas, Stop(r) PROVE Goal
  BY <1>9, <1>a DEF Stop, Inflight
\* A pass that moves on stays in flight.
<1>10. ASSUME NEW r \in Replicas, NEW t \in Tasks,
              ReadKey(r, t) \/ WriteKey(r, t) \/ Work(r, t) \/ EndPass(r, t)
       PROVE  Goal
  <2>1. UNCHANGED <<batch, saving>>
    BY <1>10 DEF ReadKey, WriteKey, Work, EndPass
  <2>2. \A u \in Tasks : pass'[q][u].pc = "idle" <=> pass[q][u].pc = "idle"
    <3>1. CASE ReadKey(r, t)
      BY <1>0, <3>1 DEF ReadKey, Verdict, Passes
    <3>2. CASE WriteKey(r, t) \/ EndPass(r, t)
      <4>1. /\ pass[r][t].pc # "idle"
            /\ \E pc \in PassPCs \ {"idle"} : SetPass(r, t, pc)
        BY <3>2 DEF WriteKey, TouchKey, TakeKey, MissKey, EndPass, PassPCs
      <4> QED
        BY <1>0, <4>1, PcSet
    <3>3. CASE Work(r, t)
      BY <3>3 DEF Work
    <3> QED
      BY <1>10, <3>1, <3>2, <3>3
  <2>3. Inflight(q)' = Inflight(q)
    BY <2>2 DEF Inflight
  <2> QED
    BY <1>a, <2>1, <2>3
<1> QED
  BY <1>1, <1>2, <1>3, <1>4, <1>5, <1>6, <1>7, <1>8, <1>9, <1>10 DEF Next

\* What tick claims always finds a slot: goroutines that only save still count,
\* so no claim is handed back for the want of a slot (local.go, tick and run).
THEOREM ClaimsAlwaysFit == Spec => []ClaimsFit
<1>1. Init => FitInv
  <2> SUFFICES ASSUME Init PROVE FitInv
    OBVIOUS
  <2>1. TypeInv
    BY DEF Init, TypeInv, Claimed, TypeOK, NoBatch, IdlePass, Passes, PassPCs, Statuses,
           KeyStatuses
  <2>2. \A r \in Replicas : Inflight(r) = {} /\ saving[r] = {} /\ batch[r].tasks = {}
    BY DEF Init, Inflight, IdlePass, NoBatch
  <2>3. IsFiniteSet({}) /\ Cardinality({}) = 0
    BY FS_EmptySet
  <2>4. Finite
    BY <2>2, <2>3 DEF Finite
  <2>5. \A r \in Replicas : Busy(r) + Cardinality(batch[r].tasks) = 0
    BY <2>2, <2>3 DEF Busy
  <2>6. ClaimsFit
    BY <2>5, CapAssumption DEF ClaimsFit
  <2> QED
    BY <2>1, <2>4, <2>6 DEF FitInv
<1>2. FitInv => ClaimsFit
  BY DEF FitInv
<1> QED
  BY TypeInvariant, FitStep, <1>1, <1>2, PTL DEF Spec
=============================================================================
