-------------------------- MODULE ResultEffectsProofs --------------------------
(***************************************************************************)
(* Proofs about ResultEffects, for any effects, endpoints, replicas, batch *)
(* sizes and leases: the types, that a claim is exclusive for as long as   *)
(* its pass can act on it, that no endpoint misses an effect that counts   *)
(* as delivered, and that the sinks get no effect twice without a failure. *)
(***************************************************************************)
EXTENDS ResultEffects, TLAPS

-----------------------------------------------------------------------------
(* Types *)

RowsOK ==
    /\ row \in [Effects -> {"none", "pending", "delivered"}]
    /\ lease \in [Effects -> Replicas \cup {None}]

LeasesOK == locked \in [Effects -> 0..LeaseTicks]

DeliveriesOK ==
    /\ sunk \in [Effects -> 0..2]
    /\ enqueued \in [Effects -> SUBSET Endpoints]
    /\ failed \subseteq Effects /\ dropped \subseteq Effects

PassesOK ==
    /\ pc \in [Replicas -> {"idle", "claim", "deliver", "mark"}]
    /\ batch \in [Replicas -> SUBSET Effects]
    /\ stalled \subseteq Replicas

TimersOK ==
    /\ left \in [Replicas -> 0..PassTicks]
    /\ wait \in [Replicas -> 0..1]
    /\ faults \in 0..MaxFaults

\* A pass claims again only while it has batches left.
RoundsOK ==
    /\ rounds \in [Replicas -> 0..Rounds]
    /\ \A r \in Replicas : pc[r] = "claim" => rounds[r] > 0

TInv == RowsOK /\ LeasesOK /\ DeliveriesOK /\ PassesOK /\ TimersOK /\ RoundsOK

LEMMA TypesMeant == TInv => TypeOK
  BY DEF TInv, RowsOK, LeasesOK, DeliveriesOK, PassesOK, TimersOK, RoundsOK, TypeOK

LEMMA TypesInit == Init => TInv
  BY SizesAssumption, TimesAssumption
  DEF Init, TInv, RowsOK, LeasesOK, DeliveriesOK, PassesOK, TimersOK, RoundsOK

LEMMA FaultTyped == TimersOK /\ Fault => faults' \in 0..MaxFaults
  BY SizesAssumption DEF TimersOK, Fault

LEMMA BatchTyped == PassesOK => \A r \in Replicas : batch[r] \subseteq Effects
  BY DEF PassesOK

\* What is freed or leased keeps its type.
LEMMA HandBackTyped == ASSUME LeasesOK, NEW r, NEW e, HandBack(r, e) PROVE LeasesOK'
  BY TimesAssumption DEF LeasesOK, HandBack

LEMMA LeaseTyped ==
    ASSUME RowsOK, LeasesOK, NEW r \in Replicas, NEW S, Lease(r, S)
    PROVE  LeasesOK' /\ lease' \in [Effects -> Replicas \cup {None}]
  BY TimesAssumption DEF RowsOK, LeasesOK, Lease

LEMMA MarkTyped ==
    ASSUME RowsOK, LeasesOK, NEW r, NEW e, MarkDelivered(r, e)
    PROVE  LeasesOK' /\ row' \in [Effects -> {"none", "pending", "delivered"}]
  BY TimesAssumption DEF RowsOK, LeasesOK, MarkDelivered

LEMMA SinkTyped ==
    ASSUME DeliveriesOK, NEW e \in Effects, Sink(e)
    PROVE  sunk' \in [Effects -> 0..2]
  <1> DEFINE n == IF sunk[e] = 0 THEN 1 ELSE 2
  <1>1. n \in 0..2
    OBVIOUS
  <1>2. sunk' = [sunk EXCEPT ![e] = n]
    BY DEF Sink
  <1> HIDE DEF n
  <1> QED BY <1>1, <1>2 DEF DeliveriesOK

LEMMA TypesQueue == ASSUME TInv, NEW e \in Effects, Queue(e) PROVE TInv'
  <1>1. RowsOK'
    BY DEF Queue, RowsOK, passes, TInv
  <1>2. LeasesOK'
    BY DEF Queue, LeasesOK, passes, TInv
  <1>3. DeliveriesOK'
    BY DEF Queue, DeliveriesOK, passes, TInv
  <1>4. PassesOK'
    BY DEF Queue, PassesOK, passes, TInv
  <1>5. TimersOK'
    BY TimesAssumption DEF Queue, TimersOK, passes, TInv
  <1>6. RoundsOK'
    BY SizesAssumption DEF Queue, RoundsOK, passes, PassesOK, TInv
  <1> QED BY <1>1, <1>2, <1>3, <1>4, <1>5, <1>6 DEF TInv

LEMMA TypesBegin == ASSUME TInv, NEW r \in Replicas, Begin(r) PROVE TInv'
  <1>1. RowsOK'
    BY DEF Begin, RowsOK, effects, TInv
  <1>2. LeasesOK'
    BY DEF Begin, LeasesOK, effects, TInv
  <1>3. DeliveriesOK'
    BY BatchTyped DEF Begin, DeliveriesOK, effects, TInv
  <1>4. PassesOK'
    BY BatchTyped DEF Begin, PassesOK, Goto, effects, TInv
  <1>5. TimersOK'
    BY TimesAssumption DEF Begin, TimersOK, effects, TInv
  <1>6. RoundsOK'
    BY BatchTyped, SizesAssumption DEF Begin, RoundsOK, Goto, effects, PassesOK, TInv
  <1> QED BY <1>1, <1>2, <1>3, <1>4, <1>5, <1>6 DEF TInv

LEMMA TypesClaim == ASSUME TInv, NEW r \in Replicas, Claim(r) PROVE TInv'
  <1>1. RowsOK'
    BY LeaseTyped DEF Claim, RowsOK, Lease, Claimable, TInv
  <1>2. LeasesOK'
    BY LeaseTyped DEF Claim, LeasesOK, TInv
  <1>3. DeliveriesOK'
    BY BatchTyped DEF Claim, DeliveriesOK, TInv
  <1>4. PassesOK'
    BY BatchTyped DEF Claim, PassesOK, Goto, Claimable, TInv
  <1>5. TimersOK'
    BY TimesAssumption DEF Claim, TimersOK, TInv
  <1>6. RoundsOK'
    BY BatchTyped, SizesAssumption DEF Claim, RoundsOK, Goto, PassesOK, TInv
  <1> QED BY <1>1, <1>2, <1>3, <1>4, <1>5, <1>6 DEF TInv

LEMMA TypesDeliver == ASSUME TInv, NEW r \in Replicas, Deliver(r) PROVE TInv'
  <1>1. RowsOK'
    BY DEF Deliver, RowsOK, TInv
  <1>2. LeasesOK'
    BY DEF Deliver, LeasesOK, TInv
  <1>3. DeliveriesOK'
    BY SinkTyped, BatchTyped DEF Deliver, DeliveriesOK, FanOut, TInv
  <1>4. PassesOK'
    BY BatchTyped DEF Deliver, PassesOK, Goto, TInv
  <1>5. TimersOK'
    BY TimesAssumption DEF Deliver, TimersOK, TInv
  <1>6. RoundsOK'
    BY BatchTyped, SizesAssumption DEF Deliver, RoundsOK, Goto, PassesOK, TInv
  <1> QED BY <1>1, <1>2, <1>3, <1>4, <1>5, <1>6 DEF TInv

LEMMA TypesMark == ASSUME TInv, NEW r \in Replicas, Mark(r) PROVE TInv'
  <1>1. RowsOK'
    BY MarkTyped DEF Mark, RowsOK, MarkDelivered, TInv
  <1>2. LeasesOK'
    BY MarkTyped DEF Mark, LeasesOK, TInv
  <1>3. DeliveriesOK'
    BY BatchTyped DEF Mark, DeliveriesOK, TInv
  <1>4. PassesOK'
    BY BatchTyped DEF Mark, PassesOK, Goto, AfterBatch, TInv
  <1>5. TimersOK'
    BY TimesAssumption DEF Mark, TimersOK, TInv
  <1>6. RoundsOK'
    BY BatchTyped, SizesAssumption DEF Mark, RoundsOK, Goto, AfterBatch, PassesOK, TInv
  <1> QED BY <1>1, <1>2, <1>3, <1>4, <1>5, <1>6 DEF TInv

LEMMA TypesRefuse == ASSUME TInv, NEW r \in Replicas, Refuse(r) PROVE TInv'
  <1>1. RowsOK'
    BY DEF Refuse, RowsOK, TInv
  <1>2. LeasesOK'
    BY HandBackTyped DEF Refuse, LeasesOK, TInv
  <1>3. DeliveriesOK'
    BY BatchTyped DEF Refuse, DeliveriesOK, GiveUp, TInv
  <1>4. PassesOK'
    BY BatchTyped DEF Refuse, PassesOK, GiveUp, Goto, TInv
  <1>5. TimersOK'
    BY TimesAssumption DEF Refuse, TimersOK, TInv
  <1>6. RoundsOK'
    BY BatchTyped, SizesAssumption DEF Refuse, RoundsOK, GiveUp, Goto, PassesOK, TInv
  <1> QED BY <1>1, <1>2, <1>3, <1>4, <1>5, <1>6 DEF TInv

LEMMA TypesFailDelivery == ASSUME TInv, NEW r \in Replicas, FailDelivery(r) PROVE TInv'
  <1>1. RowsOK'
    BY DEF FailDelivery, RowsOK, TInv
  <1>2. LeasesOK'
    BY HandBackTyped DEF FailDelivery, LeasesOK, TInv
  <1>3. DeliveriesOK'
    BY SinkTyped, BatchTyped DEF FailDelivery, DeliveriesOK, GiveUp, TInv
  <1>4. PassesOK'
    BY BatchTyped DEF FailDelivery, PassesOK, GiveUp, Goto, TInv
  <1>5. TimersOK'
    BY FaultTyped, TimesAssumption DEF FailDelivery, TimersOK, TInv
  <1>6. RoundsOK'
    BY BatchTyped, SizesAssumption DEF FailDelivery, RoundsOK, GiveUp, Goto, PassesOK, TInv
  <1> QED BY <1>1, <1>2, <1>3, <1>4, <1>5, <1>6 DEF TInv

LEMMA TypesFailMark == ASSUME TInv, NEW r \in Replicas, FailMark(r) PROVE TInv'
  <1>1. RowsOK'
    BY MarkTyped DEF FailMark, RowsOK, MarkDelivered, TInv
  <1>2. LeasesOK'
    BY HandBackTyped, MarkTyped DEF FailMark, LeasesOK, TInv
  <1>3. DeliveriesOK'
    BY BatchTyped DEF FailMark, DeliveriesOK, GiveUp, TInv
  <1>4. PassesOK'
    BY BatchTyped DEF FailMark, PassesOK, GiveUp, Goto, TInv
  <1>5. TimersOK'
    BY FaultTyped, TimesAssumption DEF FailMark, TimersOK, TInv
  <1>6. RoundsOK'
    BY BatchTyped, SizesAssumption DEF FailMark, RoundsOK, GiveUp, Goto, PassesOK, TInv
  <1> QED BY <1>1, <1>2, <1>3, <1>4, <1>5, <1>6 DEF TInv

LEMMA TypesFailClaim == ASSUME TInv, NEW r \in Replicas, FailClaim(r) PROVE TInv'
  <1>1. RowsOK'
    BY LeaseTyped DEF FailClaim, RowsOK, Lease, Claimable, TInv
  <1>2. LeasesOK'
    BY LeaseTyped DEF FailClaim, LeasesOK, TInv
  <1>3. DeliveriesOK'
    BY BatchTyped DEF FailClaim, DeliveriesOK, TInv
  <1>4. PassesOK'
    BY BatchTyped DEF FailClaim, PassesOK, Goto, Claimable, TInv
  <1>5. TimersOK'
    BY FaultTyped, TimesAssumption DEF FailClaim, TimersOK, TInv
  <1>6. RoundsOK'
    BY BatchTyped, SizesAssumption DEF FailClaim, RoundsOK, Goto, PassesOK, TInv
  <1> QED BY <1>1, <1>2, <1>3, <1>4, <1>5, <1>6 DEF TInv

LEMMA TypesCrash == ASSUME TInv, NEW r \in Replicas, Crash(r) PROVE TInv'
  <1>1. RowsOK'
    BY DEF Crash, RowsOK, TInv
  <1>2. LeasesOK'
    BY DEF Crash, LeasesOK, TInv
  <1>3. DeliveriesOK'
    BY BatchTyped DEF Crash, DeliveriesOK, TInv
  <1>4. PassesOK'
    BY BatchTyped DEF Crash, PassesOK, Goto, TInv
  <1>5. TimersOK'
    BY FaultTyped, TimesAssumption DEF Crash, TimersOK, TInv
  <1>6. RoundsOK'
    BY BatchTyped, SizesAssumption DEF Crash, RoundsOK, Goto, PassesOK, TInv
  <1> QED BY <1>1, <1>2, <1>3, <1>4, <1>5, <1>6 DEF TInv

LEMMA TypesStall == ASSUME TInv, NEW r \in Replicas, Stall(r) PROVE TInv'
  <1>1. RowsOK'
    BY DEF Stall, RowsOK, TInv
  <1>2. LeasesOK'
    BY DEF Stall, LeasesOK, TInv
  <1>3. DeliveriesOK'
    BY BatchTyped DEF Stall, DeliveriesOK, TInv
  <1>4. PassesOK'
    BY BatchTyped DEF Stall, PassesOK, TInv
  <1>5. TimersOK'
    BY FaultTyped, TimesAssumption DEF Stall, TimersOK, TInv
  <1>6. RoundsOK'
    BY BatchTyped, SizesAssumption DEF Stall, RoundsOK, PassesOK, TInv
  <1> QED BY <1>1, <1>2, <1>3, <1>4, <1>5, <1>6 DEF TInv

LEMMA TypesTick == ASSUME TInv, Tick PROVE TInv'
  <1>1. RowsOK' /\ DeliveriesOK' /\ PassesOK' /\ RoundsOK'
    BY DEF Tick, TInv, RowsOK, DeliveriesOK, PassesOK, RoundsOK
  <1>2. LeasesOK'
    BY TimesAssumption DEF Tick, TInv, LeasesOK
  <1>3. TimersOK'
    BY TimesAssumption DEF Tick, TInv, TimersOK
  <1> QED BY <1>1, <1>2, <1>3 DEF TInv

LEMMA TypesStep == TInv /\ [Next]_vars => TInv'
  <1> SUFFICES ASSUME TInv, [Next]_vars PROVE TInv'
    OBVIOUS
  <1>1. CASE UNCHANGED vars
    BY <1>1
    DEF vars, effects, passes, TInv, RowsOK, LeasesOK, DeliveriesOK, PassesOK, TimersOK, RoundsOK
  <1>2. CASE Next
    BY <1>2, TypesQueue, TypesBegin, TypesClaim, TypesDeliver, TypesMark, TypesRefuse,
       TypesFailDelivery, TypesFailMark, TypesFailClaim, TypesCrash, TypesStall, TypesTick
    DEF Next, Pass
  <1> QED BY <1>1, <1>2

LEMMA TypesHold == Spec => []TInv
  BY TypesInit, TypesStep, PTL DEF Spec

\* Every variable of the outbox and its passes keeps to its type, the batches a
\* pass may still claim included: they never fall below none.
THEOREM TypeCorrect == Spec => []TypeOK
  BY TypesHold, TypesMeant, PTL

-----------------------------------------------------------------------------
(* Claims are exclusive *)

\* A pass that is not delivering holds no effects.
HandsEmpty == \A r \in Replicas : pc[r] \in {"idle", "claim"} => batch[r] = {}

LInv == TInv /\ HandsEmpty /\ LeaseOutlastsPass

LEMMA LeasesInit == Init => LInv
  BY TypesInit DEF Init, LInv, HandsEmpty, LeaseOutlastsPass

\* Nothing a pass is awake for can be claimed.
LEMMA HeldNotClaimable ==
    ASSUME LInv, NEW r \in Replicas \ stalled, NEW e \in batch[r]
    PROVE  e \in Effects /\ e \notin Claimable
  BY DEF LInv, TInv, LeaseOutlastsPass, PassesOK, TimersOK, Claimable

\* What a pass hands back, others do not hold.
LEMMA HandBackOwn ==
    ASSUME LInv, NEW r \in Replicas, NEW e, HandBack(r, e),
           NEW s \in Replicas \ stalled, s # r, NEW f \in batch[s]
    PROVE  locked'[f] = locked[f]
  BY DEF LInv, TInv, LeaseOutlastsPass, HandBack, Released, PassesOK, LeasesOK

\* What a pass marks, others do not hold.
LEMMA MarkOwn ==
    ASSUME LInv, NEW r \in Replicas, NEW e \in batch[r], MarkDelivered(r, e),
           NEW s \in Replicas \ stalled, s # r, NEW f \in batch[s]
    PROVE  locked'[f] = locked[f] /\ row'[f] = row[f]
  BY DEF LInv, TInv, LeaseOutlastsPass, MarkDelivered, PassesOK, LeasesOK, RowsOK

LEMMA HandsStep == ASSUME LInv, Next PROVE HandsEmpty'
  <1>1. ASSUME NEW e \in Effects, Queue(e) PROVE HandsEmpty'
    BY <1>1 DEF Queue, passes, LInv, TInv, HandsEmpty, PassesOK
  <1>2. ASSUME NEW r \in Replicas, Begin(r) PROVE HandsEmpty'
    BY <1>2 DEF Begin, Goto, effects, LInv, TInv, HandsEmpty, PassesOK
  <1>3. ASSUME NEW r \in Replicas, Claim(r) PROVE HandsEmpty'
    BY <1>3 DEF Claim, Goto, LInv, TInv, HandsEmpty, PassesOK
  <1>4. ASSUME NEW r \in Replicas, Deliver(r) PROVE HandsEmpty'
    BY <1>4 DEF Deliver, Goto, LInv, TInv, HandsEmpty, PassesOK
  <1>5. ASSUME NEW r \in Replicas, Mark(r) PROVE HandsEmpty'
    BY <1>5 DEF Mark, Goto, AfterBatch, LInv, TInv, HandsEmpty, PassesOK
  <1>6. ASSUME NEW r \in Replicas, Refuse(r) PROVE HandsEmpty'
    BY <1>6 DEF Refuse, Goto, GiveUp, LInv, TInv, HandsEmpty, PassesOK
  <1>7. ASSUME NEW r \in Replicas, FailDelivery(r) PROVE HandsEmpty'
    BY <1>7 DEF FailDelivery, Goto, GiveUp, LInv, TInv, HandsEmpty, PassesOK
  <1>8. ASSUME NEW r \in Replicas, FailMark(r) PROVE HandsEmpty'
    BY <1>8 DEF FailMark, Goto, GiveUp, LInv, TInv, HandsEmpty, PassesOK
  <1>9. ASSUME NEW r \in Replicas, FailClaim(r) PROVE HandsEmpty'
    BY <1>9 DEF FailClaim, Goto, LInv, TInv, HandsEmpty, PassesOK
  <1>10. ASSUME NEW r \in Replicas, Crash(r) PROVE HandsEmpty'
    BY <1>10 DEF Crash, Goto, LInv, TInv, HandsEmpty, PassesOK
  <1>11. ASSUME NEW r \in Replicas, Stall(r) PROVE HandsEmpty'
    BY <1>11 DEF Stall, LInv, TInv, HandsEmpty, PassesOK
  <1>12. ASSUME Tick PROVE HandsEmpty'
    BY <1>12 DEF Tick, LInv, TInv, HandsEmpty, PassesOK
  <1> QED BY <1>1, <1>2, <1>3, <1>4, <1>5, <1>6, <1>7, <1>8, <1>9, <1>10, <1>11, <1>12
             DEF Next, Pass

LEMMA LeasesStep == ASSUME LInv, Next PROVE LeaseOutlastsPass'
  <1>1. ASSUME NEW e \in Effects, Queue(e) PROVE LeaseOutlastsPass'
    BY <1>1 DEF Queue, passes, LInv, TInv, LeaseOutlastsPass, PassesOK, RowsOK, LeasesOK
  <1>2. ASSUME NEW r \in Replicas, Begin(r) PROVE LeaseOutlastsPass'
    BY <1>2 DEF Begin, Goto, effects, LInv, TInv, LeaseOutlastsPass, PassesOK, RowsOK,
       LeasesOK, HandsEmpty
  <1>3. ASSUME NEW r \in Replicas, Claim(r) PROVE LeaseOutlastsPass'
    <2> PICK S \in SUBSET Claimable : Lease(r, S) /\ batch' = [batch EXCEPT ![r] = S]
      BY <1>3 DEF Claim
    <2>1. stalled' = stalled \ {r} /\ row' = row /\ left' = left
      BY <1>3 DEF Claim
    <2>2. ASSUME NEW e \in S PROVE row'[e] = "pending" /\ lease'[e] = r /\ locked'[e] > left'[r]
      BY <2>1, TimesAssumption DEF Lease, Claimable, LInv, TInv, TimersOK
    <2>3. ASSUME NEW s \in Replicas \ stalled, s # r, NEW e \in batch[s]
          PROVE  row'[e] = "pending" /\ lease'[e] = s /\ locked'[e] > left'[s]
      BY <2>1, <2>3, HeldNotClaimable DEF Lease, LInv, LeaseOutlastsPass
    <2> QED BY <2>1, <2>2, <2>3 DEF LeaseOutlastsPass, LInv, TInv, PassesOK
  <1>4. ASSUME NEW r \in Replicas, Deliver(r) PROVE LeaseOutlastsPass'
    BY <1>4 DEF Deliver, Goto, LInv, TInv, LeaseOutlastsPass, PassesOK, RowsOK, LeasesOK
  <1>5. ASSUME NEW r \in Replicas, Mark(r) PROVE LeaseOutlastsPass'
    <2> PICK e \in batch[r] : MarkDelivered(r, e) /\ batch' = [batch EXCEPT ![r] = @ \ {e}]
      BY <1>5 DEF Mark
    <2>1. UNCHANGED <<stalled, left, lease>>
      BY <1>5 DEF Mark
    <2>2. ASSUME NEW f \in batch[r] \ {e} PROVE locked'[f] = locked[f] /\ row'[f] = row[f]
      BY DEF MarkDelivered, LInv, TInv, RowsOK, LeasesOK, PassesOK
    <2> QED BY <2>1, <2>2, MarkOwn DEF LeaseOutlastsPass, LInv, TInv, PassesOK
  <1>6. ASSUME NEW r \in Replicas, Refuse(r) PROVE LeaseOutlastsPass'
    <2> PICK e \in batch[r] : GiveUp(r, e) /\ (HandBack(r, e))
      BY <1>6 DEF Refuse
    <2>1. UNCHANGED <<stalled, left, lease>> /\ row' = row
      BY <1>6 DEF Refuse
    <2>2. batch' = [batch EXCEPT ![r] = {}]
      BY DEF GiveUp
    <2>3. ASSUME NEW s \in Replicas \ stalled, s # r, NEW f \in batch[s]
          PROVE  locked'[f] = locked[f] /\ row'[f] = row[f]
      BY <2>1, <2>3, HandBackOwn
    <2> QED BY <2>1, <2>2, <2>3 DEF LeaseOutlastsPass, LInv, TInv, PassesOK
  <1>7. ASSUME NEW r \in Replicas, FailDelivery(r) PROVE LeaseOutlastsPass'
    <2> PICK e \in batch[r] : GiveUp(r, e) /\ (HandBack(r, e) \/ UNCHANGED locked)
      BY <1>7 DEF FailDelivery
    <2>1. UNCHANGED <<stalled, left, lease>> /\ row' = row
      BY <1>7 DEF FailDelivery
    <2>2. batch' = [batch EXCEPT ![r] = {}]
      BY DEF GiveUp
    <2>3. ASSUME NEW s \in Replicas \ stalled, s # r, NEW f \in batch[s]
          PROVE  locked'[f] = locked[f] /\ row'[f] = row[f]
      BY <2>1, <2>3, HandBackOwn
    <2> QED BY <2>1, <2>2, <2>3 DEF LeaseOutlastsPass, LInv, TInv, PassesOK
  <1>8. ASSUME NEW r \in Replicas, FailMark(r) PROVE LeaseOutlastsPass'
    <2> PICK e \in batch[r] : GiveUp(r, e) /\ ((HandBack(r, e) /\ UNCHANGED row) \/ MarkDelivered(r, e))
      BY <1>8 DEF FailMark
    <2>1. UNCHANGED <<stalled, left, lease>>
      BY <1>8 DEF FailMark
    <2>2. batch' = [batch EXCEPT ![r] = {}]
      BY DEF GiveUp
    <2>3. ASSUME NEW s \in Replicas \ stalled, s # r, NEW f \in batch[s]
          PROVE  locked'[f] = locked[f] /\ row'[f] = row[f]
      BY <2>1, <2>3, MarkOwn, HandBackOwn
    <2> QED BY <2>1, <2>2, <2>3 DEF LeaseOutlastsPass, LInv, TInv, PassesOK
  <1>9. ASSUME NEW r \in Replicas, FailClaim(r) PROVE LeaseOutlastsPass'
    <2>1. ASSUME NEW S \in SUBSET Claimable, Lease(r, S),
                 NEW s \in Replicas \ stalled, NEW e \in batch[s]
          PROVE  lease'[e] = lease[e] /\ locked'[e] = locked[e]
      BY <2>1, HeldNotClaimable DEF Lease, LInv, TInv, RowsOK, LeasesOK
    <2> QED BY <1>9, <2>1 DEF FailClaim, Goto, LInv, TInv, LeaseOutlastsPass, PassesOK,
               RowsOK, LeasesOK
  <1>10. ASSUME NEW r \in Replicas, Crash(r) PROVE LeaseOutlastsPass'
    BY <1>10 DEF Crash, Goto, LInv, TInv, LeaseOutlastsPass, PassesOK, RowsOK, LeasesOK,
       HandsEmpty
  <1>11. ASSUME NEW r \in Replicas, Stall(r) PROVE LeaseOutlastsPass'
    BY <1>11 DEF Stall, LInv, TInv, LeaseOutlastsPass, PassesOK, RowsOK, LeasesOK,
       HandsEmpty
  <1>12. ASSUME Tick PROVE LeaseOutlastsPass'
    BY <1>12 DEF Tick, LInv, TInv, LeaseOutlastsPass, PassesOK, RowsOK, LeasesOK,
       HandsEmpty, TimersOK
  <1> QED BY <1>1, <1>2, <1>3, <1>4, <1>5, <1>6, <1>7, <1>8, <1>9, <1>10, <1>11, <1>12
             DEF Next, Pass

LEMMA LInvStep == LInv /\ [Next]_vars => LInv'
  <1> SUFFICES ASSUME LInv, [Next]_vars PROVE LInv'
    OBVIOUS
  <1>1. CASE UNCHANGED vars
    BY <1>1, TypesStep DEF vars, effects, passes, LInv, HandsEmpty, LeaseOutlastsPass
  <1>2. CASE Next
    BY <1>2, TypesStep, HandsStep, LeasesStep DEF LInv
  <1> QED BY <1>1, <1>2

LEMMA LInvHolds == Spec => []LInv
  BY LeasesInit, LInvStep, PTL DEF Spec

\* However many replicas run passes, and whatever fails, an effect in the batch of
\* a pass that is awake is leased to it past the pass's deadline.
THEOREM LeasesExclusive == Spec => []LeaseOutlastsPass
  <1>1. LInv => LeaseOutlastsPass
    BY DEF LInv
  <1> QED BY <1>1, LInvHolds, PTL

-----------------------------------------------------------------------------
(* What counts as delivered reached everyone *)

Reached(e) == sunk[e] > 0 /\ (enqueued[e] = Endpoints \/ e \in dropped)

\* An effect about to be marked has been fanned out.
FannedOut == \A r \in Replicas : pc[r] = "mark" =>
                \A e \in batch[r] : IsOldest(e, batch[r]) => Reached(e)

DInv == TInv /\ DeliveredEverywhere /\ FannedOut

LEMMA ReachedInit == Init => DInv
  BY TypesInit DEF Init, DInv, DeliveredEverywhere, FannedOut

\* Deliveries are only added to.
LEMMA ReachedStays == ASSUME TInv, Next, NEW e \in Effects, Reached(e) PROVE Reached(e)'
  <1>1. ASSUME NEW f \in Effects, Queue(f) PROVE Reached(e)'
    BY <1>1 DEF Queue, passes, Reached, TInv, DeliveriesOK
  <1>2. ASSUME NEW r \in Replicas, Begin(r) PROVE Reached(e)'
    BY <1>2 DEF Begin, Goto, effects, Reached, TInv, DeliveriesOK
  <1>3. ASSUME NEW r \in Replicas, Claim(r) PROVE Reached(e)'
    BY <1>3 DEF Claim, Goto, Reached, TInv, DeliveriesOK
  <1>4. ASSUME NEW r \in Replicas, Deliver(r) PROVE Reached(e)'
    <2> PICK f \in batch[r] : Sink(f) /\ FanOut(f)
      BY <1>4 DEF Deliver
    <2>1. sunk'[e] > 0
      BY DEF Sink, Reached, TInv, DeliveriesOK
    <2>2. enqueued'[e] = Endpoints \/ e \in dropped'
      BY DEF FanOut, Reached, TInv, DeliveriesOK
    <2> QED BY <2>1, <2>2 DEF Reached
  <1>5. ASSUME NEW r \in Replicas, Mark(r) PROVE Reached(e)'
    BY <1>5 DEF Mark, Goto, AfterBatch, Reached, TInv, DeliveriesOK
  <1>6. ASSUME NEW r \in Replicas, Refuse(r) PROVE Reached(e)'
    BY <1>6 DEF Refuse, Goto, GiveUp, Reached, TInv, DeliveriesOK
  <1>7. ASSUME NEW r \in Replicas, FailDelivery(r) PROVE Reached(e)'
    <2> PICK f \in batch[r], S \in SUBSET Endpoints :
               Sink(f) /\ enqueued' = [enqueued EXCEPT ![f] = @ \cup S] /\ UNCHANGED dropped
      BY <1>7 DEF FailDelivery
    <2>1. sunk'[e] > 0
      BY DEF Sink, Reached, TInv, DeliveriesOK
    <2>2. enqueued'[e] = Endpoints \/ e \in dropped'
      BY DEF Reached, TInv, DeliveriesOK
    <2> QED BY <2>1, <2>2 DEF Reached
  <1>8. ASSUME NEW r \in Replicas, FailMark(r) PROVE Reached(e)'
    BY <1>8 DEF FailMark, Goto, GiveUp, Reached, TInv, DeliveriesOK
  <1>9. ASSUME NEW r \in Replicas, FailClaim(r) PROVE Reached(e)'
    BY <1>9 DEF FailClaim, Goto, Reached, TInv, DeliveriesOK
  <1>10. ASSUME NEW r \in Replicas, Crash(r) PROVE Reached(e)'
    BY <1>10 DEF Crash, Goto, Reached, TInv, DeliveriesOK
  <1>11. ASSUME NEW r \in Replicas, Stall(r) PROVE Reached(e)'
    BY <1>11 DEF Stall, Reached, TInv, DeliveriesOK
  <1>12. ASSUME Tick PROVE Reached(e)'
    BY <1>12 DEF Tick, Reached, TInv, DeliveriesOK
  <1> QED BY <1>1, <1>2, <1>3, <1>4, <1>5, <1>6, <1>7, <1>8, <1>9, <1>10, <1>11, <1>12
             DEF Next, Pass

LEMMA FannedStep == ASSUME DInv, Next PROVE FannedOut'
  <1> SUFFICES ASSUME NEW s \in Replicas, pc'[s] = "mark",
                      NEW e \in batch'[s], IsOldest(e, batch'[s])
               PROVE  Reached(e)'
    BY DEF FannedOut, IsOldest
  <1>0. TInv
    BY DEF DInv
  <1>a. ASSUME pc[s] = "mark", batch[s] = batch'[s] PROVE Reached(e)'
    <2>1. e \in Effects /\ Reached(e)
      BY <1>a DEF DInv, FannedOut, TInv, PassesOK
    <2> QED BY <2>1, <1>0, ReachedStays
  <1>1. ASSUME NEW f \in Effects, Queue(f) PROVE Reached(e)'
    BY <1>1, <1>a DEF Queue, passes, DInv, TInv, PassesOK
  <1>2. ASSUME NEW r \in Replicas, Begin(r) PROVE Reached(e)'
    BY <1>2, <1>a DEF Begin, Goto, effects, DInv, TInv, PassesOK
  <1>3. ASSUME NEW r \in Replicas, Claim(r) PROVE Reached(e)'
    BY <1>3, <1>a DEF Claim, Goto, DInv, TInv, PassesOK
  <1>4. ASSUME NEW r \in Replicas, Deliver(r) PROVE Reached(e)'
    <2>1. CASE s # r
      BY <2>1, <1>4, <1>a DEF Deliver, Goto, DInv, TInv, PassesOK
    <2>2. CASE s = r
      <3> PICK f \in batch[r] : IsOldest(f, batch[r]) /\ Sink(f) /\ FanOut(f)
        BY <1>4 DEF Deliver
      <3>1. f = e /\ e \in Effects
        BY <2>2, <1>4, SetsAssumption DEF Deliver, IsOldest, DInv, TInv, PassesOK
      <3>2. sunk'[e] > 0
        BY <3>1 DEF Sink, DInv, TInv, DeliveriesOK
      <3>3. enqueued'[e] = Endpoints \/ e \in dropped'
        BY <3>1 DEF FanOut, DInv, TInv, DeliveriesOK
      <3> QED BY <3>2, <3>3 DEF Reached
    <2> QED BY <2>1, <2>2
  <1>5. ASSUME NEW r \in Replicas, Mark(r) PROVE Reached(e)'
    BY <1>5, <1>a DEF Mark, Goto, AfterBatch, DInv, TInv, PassesOK
  <1>6. ASSUME NEW r \in Replicas, Refuse(r) PROVE Reached(e)'
    BY <1>6, <1>a DEF Refuse, Goto, GiveUp, DInv, TInv, PassesOK
  <1>7. ASSUME NEW r \in Replicas, FailDelivery(r) PROVE Reached(e)'
    BY <1>7, <1>a DEF FailDelivery, Goto, GiveUp, DInv, TInv, PassesOK
  <1>8. ASSUME NEW r \in Replicas, FailMark(r) PROVE Reached(e)'
    BY <1>8, <1>a DEF FailMark, Goto, GiveUp, DInv, TInv, PassesOK
  <1>9. ASSUME NEW r \in Replicas, FailClaim(r) PROVE Reached(e)'
    BY <1>9, <1>a DEF FailClaim, Goto, DInv, TInv, PassesOK
  <1>10. ASSUME NEW r \in Replicas, Crash(r) PROVE Reached(e)'
    BY <1>10, <1>a DEF Crash, Goto, DInv, TInv, PassesOK
  <1>11. ASSUME NEW r \in Replicas, Stall(r) PROVE Reached(e)'
    BY <1>11, <1>a DEF Stall, DInv, TInv, PassesOK
  <1>12. ASSUME Tick PROVE Reached(e)'
    BY <1>12, <1>a DEF Tick
  <1> QED BY <1>1, <1>2, <1>3, <1>4, <1>5, <1>6, <1>7, <1>8, <1>9, <1>10, <1>11, <1>12
             DEF Next, Pass

LEMMA DeliveredStep == ASSUME DInv, Next PROVE DeliveredEverywhere'
  <1> SUFFICES ASSUME NEW e \in Effects, row'[e] = "delivered" PROVE Reached(e)'
    BY DEF DeliveredEverywhere, Reached
  <1>0. TInv
    BY DEF DInv
  <1>a. ASSUME row[e] = "delivered" PROVE Reached(e)'
    BY <1>a, <1>0, ReachedStays DEF DInv, DeliveredEverywhere, Reached
  <1>b. ASSUME NEW r \in Replicas, pc[r] = "mark", IsOldest(e, batch[r]) PROVE Reached(e)'
    BY <1>b, <1>0, ReachedStays DEF DInv, FannedOut, IsOldest
  <1>1. ASSUME NEW f \in Effects, Queue(f) PROVE Reached(e)'
    BY <1>1, <1>a DEF Queue, DInv, TInv, RowsOK
  <1>2. ASSUME NEW r \in Replicas, Begin(r) PROVE Reached(e)'
    BY <1>2, <1>a DEF Begin, effects
  <1>3. ASSUME NEW r \in Replicas, Claim(r) PROVE Reached(e)'
    BY <1>3, <1>a DEF Claim
  <1>4. ASSUME NEW r \in Replicas, Deliver(r) PROVE Reached(e)'
    BY <1>4, <1>a DEF Deliver
  <1>5. ASSUME NEW r \in Replicas, Mark(r) PROVE Reached(e)'
    BY <1>5, <1>a, <1>b DEF Mark, MarkDelivered, DInv, TInv, RowsOK
  <1>6. ASSUME NEW r \in Replicas, Refuse(r) PROVE Reached(e)'
    BY <1>6, <1>a DEF Refuse
  <1>7. ASSUME NEW r \in Replicas, FailDelivery(r) PROVE Reached(e)'
    BY <1>7, <1>a DEF FailDelivery
  <1>8. ASSUME NEW r \in Replicas, FailMark(r) PROVE Reached(e)'
    BY <1>8, <1>a, <1>b DEF FailMark, MarkDelivered, DInv, TInv, RowsOK, GiveUp
  <1>9. ASSUME NEW r \in Replicas, FailClaim(r) PROVE Reached(e)'
    BY <1>9, <1>a DEF FailClaim
  <1>10. ASSUME NEW r \in Replicas, Crash(r) PROVE Reached(e)'
    BY <1>10, <1>a DEF Crash
  <1>11. ASSUME NEW r \in Replicas, Stall(r) PROVE Reached(e)'
    BY <1>11, <1>a DEF Stall
  <1>12. ASSUME Tick PROVE Reached(e)'
    BY <1>12, <1>a DEF Tick
  <1> QED BY <1>1, <1>2, <1>3, <1>4, <1>5, <1>6, <1>7, <1>8, <1>9, <1>10, <1>11, <1>12
             DEF Next, Pass

LEMMA DInvStep == DInv /\ [Next]_vars => DInv'
  <1> SUFFICES ASSUME DInv, [Next]_vars PROVE DInv'
    OBVIOUS
  <1>1. CASE UNCHANGED vars
    BY <1>1, TypesStep
    DEF vars, effects, passes, DInv, DeliveredEverywhere, FannedOut, Reached, IsOldest
  <1>2. CASE Next
    BY <1>2, TypesStep, FannedStep, DeliveredStep DEF DInv
  <1> QED BY <1>1, <1>2

\* An effect counts as delivered only when the sinks have had it and every endpoint
\* has its row, or the throttle dropped it: whichever pass delivered it, and
\* however often earlier ones stopped half way.
THEOREM DeliveredReached == Spec => []DeliveredEverywhere
  <1>1. DInv => DeliveredEverywhere
    BY DEF DInv
  <1> QED BY <1>1, ReachedInit, DInvStep, PTL DEF Spec

-----------------------------------------------------------------------------
(* The sinks get no effect twice without a failure *)

\* A pass that is awake is about to mark the effect.
BeingMarked(e) ==
    \E r \in Replicas \ stalled : pc[r] = "mark" /\ IsOldest(e, batch[r])

\* What the sinks have had is delivered, about to be marked, or failed once.
Accounted ==
    \A e \in Effects :
        sunk[e] # 0 => e \in failed \/ row[e] = "delivered" \/ BeingMarked(e)

\* What a pass slept over counts as failed.
SleptOver == \A r \in stalled : batch[r] \subseteq failed

NInv == LInv /\ Accounted /\ SleptOver /\ NoNeedlessRepeat

LEMMA RepeatsInit == Init => NInv
  BY LeasesInit DEF Init, NInv, Accounted, SleptOver, NoNeedlessRepeat

LEMMA SleptStep == ASSUME NInv, Next PROVE SleptOver'
  <1>1. ASSUME NEW e \in Effects, Queue(e) PROVE SleptOver'
    BY <1>1 DEF Queue, passes, NInv, LInv, TInv, SleptOver, PassesOK
  <1>2. ASSUME NEW r \in Replicas, Begin(r) PROVE SleptOver'
    BY <1>2 DEF Begin, Goto, effects, NInv, LInv, TInv, SleptOver, PassesOK
  <1>3. ASSUME NEW r \in Replicas, Claim(r) PROVE SleptOver'
    BY <1>3 DEF Claim, Goto, NInv, LInv, TInv, SleptOver, PassesOK
  <1>4. ASSUME NEW r \in Replicas, Deliver(r) PROVE SleptOver'
    BY <1>4 DEF Deliver, Goto, NInv, LInv, TInv, SleptOver, PassesOK
  <1>5. ASSUME NEW r \in Replicas, Mark(r) PROVE SleptOver'
    BY <1>5 DEF Mark, Goto, AfterBatch, NInv, LInv, TInv, SleptOver, PassesOK
  <1>6. ASSUME NEW r \in Replicas, Refuse(r) PROVE SleptOver'
    BY <1>6 DEF Refuse, Goto, GiveUp, NInv, LInv, TInv, SleptOver, PassesOK
  <1>7. ASSUME NEW r \in Replicas, FailDelivery(r) PROVE SleptOver'
    BY <1>7 DEF FailDelivery, Goto, GiveUp, NInv, LInv, TInv, SleptOver, PassesOK
  <1>8. ASSUME NEW r \in Replicas, FailMark(r) PROVE SleptOver'
    BY <1>8 DEF FailMark, Goto, GiveUp, NInv, LInv, TInv, SleptOver, PassesOK
  <1>9. ASSUME NEW r \in Replicas, FailClaim(r) PROVE SleptOver'
    BY <1>9 DEF FailClaim, Goto, NInv, LInv, TInv, SleptOver, PassesOK
  <1>10. ASSUME NEW r \in Replicas, Crash(r) PROVE SleptOver'
    BY <1>10 DEF Crash, Goto, NInv, LInv, TInv, SleptOver, PassesOK
  <1>11. ASSUME NEW r \in Replicas, Stall(r) PROVE SleptOver'
    BY <1>11 DEF Stall, NInv, LInv, TInv, SleptOver, PassesOK
  <1>12. ASSUME Tick PROVE SleptOver'
    BY <1>12 DEF Tick, NInv, LInv, TInv, SleptOver, PassesOK
  <1> QED BY <1>1, <1>2, <1>3, <1>4, <1>5, <1>6, <1>7, <1>8, <1>9, <1>10, <1>11, <1>12
             DEF Next, Pass

\* The sinks get an effect a second time only after a failure.
LEMMA RepeatsStep == ASSUME NInv, Next PROVE NoNeedlessRepeat'
  <1>1. ASSUME NEW e \in Effects, Queue(e) PROVE NoNeedlessRepeat'
    BY <1>1 DEF Queue, NInv, NoNeedlessRepeat
  <1>2. ASSUME NEW r \in Replicas, Begin(r) PROVE NoNeedlessRepeat'
    BY <1>2 DEF Begin, effects, NInv, NoNeedlessRepeat
  <1>3. ASSUME NEW r \in Replicas, Claim(r) PROVE NoNeedlessRepeat'
    BY <1>3 DEF Claim, NInv, NoNeedlessRepeat
  <1>4. ASSUME NEW r \in Replicas, Deliver(r) PROVE NoNeedlessRepeat'
    <2> PICK f \in batch[r] : IsOldest(f, batch[r]) /\ Sink(f)
      BY <1>4 DEF Deliver
    <2>1. f \in Effects /\ failed' = failed
      BY <1>4 DEF Deliver, NInv, LInv, TInv, PassesOK
    <2>2. sunk[f] = 0 \/ f \in failed
      <3> SUFFICES ASSUME sunk[f] # 0, f \notin failed PROVE FALSE
        OBVIOUS
      <3>1. r \notin stalled
        BY DEF NInv, SleptOver
      <3>2. row[f] = "pending" /\ lease[f] = r
        BY <3>1 DEF NInv, LInv, LeaseOutlastsPass
      <3> PICK s \in Replicas \ stalled : pc[s] = "mark" /\ f \in batch[s]
        BY <2>1, <3>2 DEF NInv, Accounted, BeingMarked, IsOldest
      <3>3. s = r
        BY <3>2 DEF NInv, LInv, LeaseOutlastsPass
      <3> QED BY <3>3, <1>4 DEF Deliver
    <2> QED BY <2>1, <2>2 DEF Sink, NInv, NoNeedlessRepeat, LInv, TInv, DeliveriesOK
  <1>5. ASSUME NEW r \in Replicas, Mark(r) PROVE NoNeedlessRepeat'
    BY <1>5 DEF Mark, NInv, NoNeedlessRepeat
  <1>6. ASSUME NEW r \in Replicas, Refuse(r) PROVE NoNeedlessRepeat'
    BY <1>6 DEF Refuse, GiveUp, NInv, NoNeedlessRepeat
  <1>7. ASSUME NEW r \in Replicas, FailDelivery(r) PROVE NoNeedlessRepeat'
    BY <1>7 DEF FailDelivery, GiveUp, Sink, NInv, NoNeedlessRepeat, LInv, TInv, DeliveriesOK
  <1>8. ASSUME NEW r \in Replicas, FailMark(r) PROVE NoNeedlessRepeat'
    BY <1>8 DEF FailMark, GiveUp, NInv, NoNeedlessRepeat
  <1>9. ASSUME NEW r \in Replicas, FailClaim(r) PROVE NoNeedlessRepeat'
    BY <1>9 DEF FailClaim, NInv, NoNeedlessRepeat
  <1>10. ASSUME NEW r \in Replicas, Crash(r) PROVE NoNeedlessRepeat'
    BY <1>10 DEF Crash, NInv, NoNeedlessRepeat
  <1>11. ASSUME NEW r \in Replicas, Stall(r) PROVE NoNeedlessRepeat'
    BY <1>11 DEF Stall, NInv, NoNeedlessRepeat
  <1>12. ASSUME Tick PROVE NoNeedlessRepeat'
    BY <1>12 DEF Tick, NInv, NoNeedlessRepeat
  <1> QED BY <1>1, <1>2, <1>3, <1>4, <1>5, <1>6, <1>7, <1>8, <1>9, <1>10, <1>11, <1>12
             DEF Next, Pass

LEMMA AccountedStep == ASSUME NInv, Next PROVE Accounted'
  <1> SUFFICES ASSUME NEW e \in Effects, sunk'[e] # 0, e \notin failed', row'[e] # "delivered"
               PROVE  BeingMarked(e)'
    BY DEF Accounted
  <1>0. NInv /\ LInv /\ TInv /\ e \in Effects
    BY DEF NInv, LInv
  <1>a. ASSUME sunk[e] # 0, e \notin failed, row[e] # "delivered"
        PROVE  BeingMarked(e)
    BY <1>a DEF NInv, Accounted
  <1>1. ASSUME NEW f \in Effects, Queue(f) PROVE BeingMarked(e)'
    <2>1. sunk[e] # 0 /\ e \notin failed /\ row[e] # "delivered"
      BY <1>1, <1>0 DEF Queue, TInv, RowsOK
    <2> PICK s \in Replicas \ stalled : pc[s] = "mark" /\ IsOldest(e, batch[s])
      BY <2>1, <1>a DEF BeingMarked
    <2> QED BY <1>1, <1>0 DEF Queue, passes, BeingMarked, IsOldest, TInv, PassesOK
  <1>2. ASSUME NEW r \in Replicas, Begin(r) PROVE BeingMarked(e)'
    <2>1. sunk[e] # 0 /\ e \notin failed /\ row[e] # "delivered"
      BY <1>2, <1>0 DEF Begin, effects
    <2> PICK s \in Replicas \ stalled : pc[s] = "mark" /\ IsOldest(e, batch[s])
      BY <2>1, <1>a DEF BeingMarked
    <2> QED BY <1>2, <1>0 DEF Begin, Goto, effects, BeingMarked, IsOldest, TInv, PassesOK
  <1>3. ASSUME NEW r \in Replicas, Claim(r) PROVE BeingMarked(e)'
    <2>1. sunk[e] # 0 /\ e \notin failed /\ row[e] # "delivered"
      BY <1>3, <1>0 DEF Claim
    <2> PICK s \in Replicas \ stalled : pc[s] = "mark" /\ IsOldest(e, batch[s])
      BY <2>1, <1>a DEF BeingMarked
    <2> QED BY <1>3, <1>0 DEF Claim, Goto, BeingMarked, IsOldest, TInv, PassesOK
  <1>4. ASSUME NEW r \in Replicas, Deliver(r) PROVE BeingMarked(e)'
    <2> PICK f \in batch[r] : IsOldest(f, batch[r]) /\ Sink(f)
      BY <1>4 DEF Deliver
    <2>0. /\ pc' = [pc EXCEPT ![r] = "mark"] /\ pc[r] = "deliver"
          /\ UNCHANGED <<failed, row, batch, stalled>>
      BY <1>4 DEF Deliver, Goto
    <2>1. CASE e = f
      <3>1. r \notin stalled
        BY <2>0, <2>1 DEF NInv, SleptOver
      <3> QED BY <2>0, <2>1, <3>1, <1>0 DEF BeingMarked, IsOldest, TInv, PassesOK
    <2>2. CASE e # f
      <3>1. sunk[e] # 0
        BY <2>2, <1>0 DEF Sink, TInv, DeliveriesOK
      <3> PICK s \in Replicas \ stalled : pc[s] = "mark" /\ IsOldest(e, batch[s])
        BY <2>0, <3>1, <1>a DEF BeingMarked
      <3> QED BY <2>0, <1>0 DEF BeingMarked, IsOldest, TInv, PassesOK
    <2> QED BY <2>1, <2>2
  <1>5. ASSUME NEW r \in Replicas, Mark(r) PROVE BeingMarked(e)'
    <2>1. sunk[e] # 0 /\ e \notin failed /\ row[e] # "delivered"
      BY <1>5, <1>0 DEF Mark, MarkDelivered, TInv, RowsOK
    <2> PICK s \in Replicas \ stalled : pc[s] = "mark" /\ IsOldest(e, batch[s])
      BY <2>1, <1>a DEF BeingMarked
    <2> PICK f \in batch[r] :
               /\ IsOldest(f, batch[r]) /\ MarkDelivered(r, f)
               /\ batch' = [batch EXCEPT ![r] = @ \ {f}]
      BY <1>5 DEF Mark
    <2>2. s # r
      <3> SUFFICES ASSUME s = r PROVE FALSE
        OBVIOUS
      <3>1. e = f
        BY <1>0, SetsAssumption DEF IsOldest, TInv, PassesOK
      <3>2. lease[e] = r
        BY <1>0 DEF LInv, LeaseOutlastsPass, IsOldest
      <3> QED BY <3>1, <3>2, <1>0 DEF MarkDelivered, TInv, RowsOK
    <2> QED BY <1>5, <1>0, <2>2 DEF Mark, Goto, BeingMarked, IsOldest, TInv, PassesOK
  <1>6. ASSUME NEW r \in Replicas, Refuse(r) PROVE BeingMarked(e)'
    <2>1. sunk[e] # 0 /\ e \notin failed /\ row[e] # "delivered"
      BY <1>6, <1>0 DEF Refuse, GiveUp
    <2> PICK s \in Replicas \ stalled : pc[s] = "mark" /\ IsOldest(e, batch[s])
      BY <2>1, <1>a DEF BeingMarked
    <2> QED BY <1>6, <1>0 DEF Refuse, Goto, GiveUp, BeingMarked, IsOldest, TInv, PassesOK
  <1>7. ASSUME NEW r \in Replicas, FailDelivery(r) PROVE BeingMarked(e)'
    <2> PICK f \in batch[r] : GiveUp(r, f) /\ Sink(f)
      BY <1>7 DEF FailDelivery
    <2>1. sunk[e] # 0 /\ e \notin failed /\ row[e] # "delivered"
      BY <1>7, <1>0 DEF FailDelivery, GiveUp, Sink, TInv, DeliveriesOK
    <2> PICK s \in Replicas \ stalled : pc[s] = "mark" /\ IsOldest(e, batch[s])
      BY <2>1, <1>a DEF BeingMarked
    <2> QED BY <1>7, <1>0 DEF FailDelivery, GiveUp, Goto, BeingMarked, IsOldest, TInv,
               PassesOK
  <1>8. ASSUME NEW r \in Replicas, FailMark(r) PROVE BeingMarked(e)'
    <2>1. sunk[e] # 0 /\ e \notin failed /\ row[e] # "delivered"
      BY <1>8, <1>0 DEF FailMark, GiveUp, MarkDelivered, TInv, RowsOK
    <2> PICK s \in Replicas \ stalled : pc[s] = "mark" /\ IsOldest(e, batch[s])
      BY <2>1, <1>a DEF BeingMarked
    <2> PICK f \in batch[r] : GiveUp(r, f)
      BY <1>8 DEF FailMark
    <2>2. s # r
      BY <1>0, SetsAssumption DEF GiveUp, IsOldest, TInv, PassesOK
    <2> QED BY <1>8, <1>0, <2>2 DEF FailMark, GiveUp, Goto, BeingMarked, IsOldest, TInv,
               PassesOK
  <1>9. ASSUME NEW r \in Replicas, FailClaim(r) PROVE BeingMarked(e)'
    <2>1. sunk[e] # 0 /\ e \notin failed /\ row[e] # "delivered"
      BY <1>9, <1>0 DEF FailClaim
    <2> PICK s \in Replicas \ stalled : pc[s] = "mark" /\ IsOldest(e, batch[s])
      BY <2>1, <1>a DEF BeingMarked
    <2> QED BY <1>9, <1>0 DEF FailClaim, Goto, BeingMarked, IsOldest, TInv, PassesOK
  <1>10. ASSUME NEW r \in Replicas, Crash(r) PROVE BeingMarked(e)'
    <2>1. sunk[e] # 0 /\ e \notin failed /\ row[e] # "delivered"
      BY <1>10, <1>0 DEF Crash
    <2> PICK s \in Replicas \ stalled : pc[s] = "mark" /\ IsOldest(e, batch[s])
      BY <2>1, <1>a DEF BeingMarked
    <2>2. s # r
      BY <1>10, <2>1 DEF Crash, IsOldest
    <2> QED BY <1>10, <1>0, <2>2 DEF Crash, Goto, BeingMarked, IsOldest, TInv, PassesOK
  <1>11. ASSUME NEW r \in Replicas, Stall(r) PROVE BeingMarked(e)'
    <2>1. sunk[e] # 0 /\ e \notin failed /\ row[e] # "delivered"
      BY <1>11, <1>0 DEF Stall
    <2> PICK s \in Replicas \ stalled : pc[s] = "mark" /\ IsOldest(e, batch[s])
      BY <2>1, <1>a DEF BeingMarked
    <2>2. s # r
      BY <1>11, <2>1 DEF Stall, IsOldest
    <2> QED BY <1>11, <1>0, <2>2 DEF Stall, BeingMarked, IsOldest, TInv, PassesOK
  <1>12. ASSUME Tick PROVE BeingMarked(e)'
    <2>1. sunk[e] # 0 /\ e \notin failed /\ row[e] # "delivered"
      BY <1>12, <1>0 DEF Tick
    <2> PICK s \in Replicas \ stalled : pc[s] = "mark" /\ IsOldest(e, batch[s])
      BY <2>1, <1>a DEF BeingMarked
    <2> QED BY <1>12, <1>0 DEF Tick, BeingMarked, IsOldest, TInv, PassesOK
  <1> QED BY <1>1, <1>2, <1>3, <1>4, <1>5, <1>6, <1>7, <1>8, <1>9, <1>10, <1>11, <1>12
             DEF Next, Pass

LEMMA NInvStep == NInv /\ [Next]_vars => NInv'
  <1> SUFFICES ASSUME NInv, [Next]_vars PROVE NInv'
    OBVIOUS
  <1>0. LInv'
    BY LInvStep DEF NInv
  <1>1. CASE UNCHANGED vars
    BY <1>0, <1>1
    DEF vars, effects, passes, NInv, Accounted, BeingMarked, IsOldest, SleptOver, NoNeedlessRepeat
  <1>2. CASE Next
    BY <1>0, <1>2, SleptStep, RepeatsStep, AccountedStep DEF NInv
  <1> QED BY <1>1, <1>2

\* The sinks, which do not know an effect they have had, get none a second time
\* unless a delivery of it failed, was cut short or slept over its deadline.
THEOREM RepeatsFail == Spec => []NoNeedlessRepeat
  <1>1. NInv => NoNeedlessRepeat
    BY DEF NInv
  <1> QED BY <1>1, RepeatsInit, NInvStep, PTL DEF Spec

=============================================================================
