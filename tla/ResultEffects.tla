----------------------------- MODULE ResultEffects -----------------------------
(***************************************************************************)
(* The outbox of what a send result causes elsewhere: webhooks and         *)
(* notifications (internal/repository/send_result_effects.go).  A result   *)
(* queues its effects in its own transaction.  Every consumer replica runs *)
(* a pass on a timer (internal/app/consumer/send_result_effects.go) that   *)
(* leases the oldest effects, a batch at a time, and delivers them one by  *)
(* one (internal/app/advanced/send_result_effects.go).                     *)
(*                                                                         *)
(* Time is counted in ticks of the replicas' timer, and kept as what is    *)
(* left: of a lease, of a pass's deadline, of the wait for the next pass.  *)
(* Every effect goes to the same endpoints; a notification is an effect    *)
(* with a single one.                                                      *)
(***************************************************************************)
EXTENDS Naturals, FiniteSets

CONSTANTS
    Effects,    \* their rows, numbered by created_at
    Broken,     \* effects no delivery of which ever succeeds
    Endpoints,  \* what an effect is fanned out to
    Replicas,   \* consumer processes
    None,
    Batch,      \* sendResultEffectBatch
    Rounds,     \* sendResultEffectBatches
    LeaseTicks, \* one minute
    PassTicks,  \* the deadline of a pass, thirty seconds
    MaxFaults   \* bound: crashes, stalls, overruns and failed calls

ASSUME SetsAssumption  == Effects \subseteq Nat /\ Broken \subseteq Effects /\ None \notin Replicas
ASSUME SizesAssumption == Batch \in Nat \ {0} /\ Rounds \in Nat \ {0} /\ MaxFaults \in Nat
\* A lease outlives the pass that took it.
ASSUME TimesAssumption == /\ PassTicks \in Nat \ {0} /\ LeaseTicks \in Nat
                          /\ PassTicks < LeaseTicks

VARIABLES
    row,     \* per effect: not queued, pending, delivered
    lease,   \* per effect, the replica whose claim its lease is
    locked,  \* per effect, ticks until locked_until; 0 is NULL or passed
    sunk,    \* history: how often the event sinks got the effect; 2 is more than once
    enqueued,\* per effect, the endpoints with a delivery row
    failed,  \* history: effects a delivery of which did not run to its end
    dropped, \* history: effects the throttle kept from the endpoints
    pc,      \* per replica, where its pass is
    batch,   \* per replica, claimed effects not yet dealt with
    rounds,  \* per replica, batches it may still claim in this pass
    left,    \* per replica, ticks until the pass's deadline
    wait,    \* per replica, ticks until its timer fires
    stalled, \* replicas that slept through their deadline
    faults   \* faults so far

effects == <<row, lease, locked, sunk, enqueued, failed, dropped>>
passes  == <<pc, batch, rounds, left, wait, stalled>>
vars    == <<effects, passes, faults>>

TypeOK ==
    /\ row \in [Effects -> {"none", "pending", "delivered"}]
    /\ lease \in [Effects -> Replicas \cup {None}]
    /\ locked \in [Effects -> 0..LeaseTicks]
    /\ sunk \in [Effects -> 0..2]
    /\ enqueued \in [Effects -> SUBSET Endpoints]
    /\ failed \subseteq Effects /\ dropped \subseteq Effects
    /\ pc \in [Replicas -> {"idle", "claim", "deliver", "mark"}]
    /\ batch \in [Replicas -> SUBSET Effects]
    /\ rounds \in [Replicas -> 0..Rounds]
    /\ left \in [Replicas -> 0..PassTicks]
    /\ wait \in [Replicas -> 0..1]
    /\ stalled \subseteq Replicas
    /\ faults \in 0..MaxFaults

Init ==
    /\ row = [e \in Effects |-> "none"]
    /\ lease = [e \in Effects |-> None]
    /\ locked = [e \in Effects |-> 0]
    /\ sunk = [e \in Effects |-> 0]
    /\ enqueued = [e \in Effects |-> {}]
    /\ failed = {} /\ dropped = {}
    /\ pc = [r \in Replicas |-> "idle"]
    /\ batch = [r \in Replicas |-> {}]
    /\ rounds = [r \in Replicas |-> 0]
    /\ left = [r \in Replicas |-> 0]
    /\ wait = [r \in Replicas |-> 0]
    /\ stalled = {}
    /\ faults = 0

-----------------------------------------------------------------------------
Goto(r, l) == pc' = [pc EXCEPT ![r] = l]
Fault      == faults < MaxFaults /\ faults' = faults + 1

IsOldest(e, S) == e \in S /\ \A f \in S : e <= f

\* QueueSendResultEffect, with the result's transaction; the same result once
\* more finds the effect there.
Queue(e) ==
    /\ row[e] = "none" /\ \A f \in Effects : f < e => row[f] # "none"
    /\ row' = [row EXCEPT ![e] = "pending"]
    /\ UNCHANGED <<lease, locked, sunk, enqueued, failed, dropped, passes, faults>>

\* The timer of runSendResultEffects fires and a pass begins.
Begin(r) ==
    /\ pc[r] = "idle" /\ wait[r] = 0
    /\ Goto(r, "claim")
    /\ rounds' = [rounds EXCEPT ![r] = Rounds]
    /\ left' = [left EXCEPT ![r] = PassTicks]
    /\ wait' = [wait EXCEPT ![r] = 1]
    /\ UNCHANGED <<effects, batch, stalled, faults>>

\* Mutant: pending effects are claimed whether they are leased or not.
BugClaimable == {e \in Effects : row[e] = "pending"}

Claimable == {e \in Effects : row[e] = "pending" /\ locked[e] = 0}

\* What a claim takes: the oldest, as many as a batch holds.
Chosen(S) ==
    /\ S \subseteq Claimable
    /\ \A e \in S, f \in Claimable \ S : e < f
    /\ Cardinality(S) = Batch \/ (S = Claimable /\ Cardinality(S) < Batch)

Lease(r, S) ==
    /\ lease' = [e \in Effects |-> IF e \in S THEN r ELSE lease[e]]
    /\ locked' = [e \in Effects |-> IF e \in S THEN LeaseTicks ELSE locked[e]]

\* claimSendResultEffects.  A short batch is the last of the pass.
Claim(r) ==
    /\ pc[r] = "claim"
    /\ \E S \in SUBSET Claimable :
         /\ Chosen(S) /\ Lease(r, S)
         /\ batch' = [batch EXCEPT ![r] = S]
         /\ rounds' = [rounds EXCEPT ![r] = IF Cardinality(S) < Batch THEN 0 ELSE @ - 1]
         /\ Goto(r, IF S = {} THEN "idle" ELSE "deliver")
    /\ stalled' = stalled \ {r}
    /\ UNCHANGED <<row, sunk, enqueued, failed, dropped, left, wait, faults>>

\* The sinks get the effect at every delivery.
Sink(e) == sunk' = [sunk EXCEPT ![e] = IF @ = 0 THEN 1 ELSE 2]

\* Mutant: an endpoint whose row cannot be written is passed over.
BugFanOut(e) ==
    \E S \in SUBSET Endpoints :
        enqueued' = [enqueued EXCEPT ![e] = @ \cup S] /\ UNCHANGED dropped

\* Dispatch after the sinks: a row for each endpoint, with an id made from the
\* effect and the endpoint that a second insert runs into; or the organization
\* is over its limit for the minute and the endpoints get nothing.
FanOut(e) ==
    \/ enqueued' = [enqueued EXCEPT ![e] = Endpoints] /\ UNCHANGED dropped
    \/ dropped' = dropped \cup {e} /\ UNCHANGED enqueued

Deliver(r) ==
    /\ pc[r] = "deliver"
    /\ \E e \in batch[r] \ Broken : IsOldest(e, batch[r]) /\ Sink(e) /\ FanOut(e)
    /\ Goto(r, "mark")
    /\ UNCHANGED <<row, lease, locked, failed, batch, rounds, left, wait, stalled, faults>>

\* The effect counts as delivered, if its lease is still this pass's.
MarkDelivered(r, e) ==
    IF lease[e] = r
    THEN /\ row' = [row EXCEPT ![e] = "delivered"]
         /\ locked' = [locked EXCEPT ![e] = 0]
    ELSE UNCHANGED <<row, locked>>

\* Mutant: a pass goes on for as long as there is something to claim.
BugAfterBatch(r) == "claim"

AfterBatch(r) == IF rounds[r] = 0 THEN "idle" ELSE "claim"

Mark(r) ==
    /\ pc[r] = "mark"
    /\ \E e \in batch[r] :
         /\ IsOldest(e, batch[r]) /\ MarkDelivered(r, e)
         /\ batch' = [batch EXCEPT ![r] = @ \ {e}]
         /\ Goto(r, IF batch[r] = {e} THEN AfterBatch(r) ELSE "deliver")
    /\ UNCHANGED <<lease, sunk, enqueued, failed, dropped, rounds, left, wait, stalled, faults>>

\* Mutant: the claims of other passes are freed too.
BugReleased(r, S) == S

\* What releaseSendResultEffects frees of a batch: what is still this pass's.
Released(r, S) == {f \in S : lease[f] = r /\ row[f] = "pending"}

\* Mutant: the effect the pass failed at is handed back with the others.
BugHandBack(r, e) ==
    locked' = [f \in Effects |-> IF f \in Released(r, batch[r]) THEN 0 ELSE locked[f]]

\* What the pass did not attempt is handed back; the effect it failed at, e,
\* keeps its lease.
HandBack(r, e) ==
    locked' = [f \in Effects |-> IF f \in Released(r, batch[r] \ {e}) THEN 0 ELSE locked[f]]

\* The pass ends at the effect e.
GiveUp(r, e) ==
    /\ IsOldest(e, batch[r])
    /\ failed' = failed \cup {e}
    /\ batch' = [batch EXCEPT ![r] = {}]
    /\ Goto(r, "idle")

\* The payload cannot be read, the kind is unknown, nothing is set up to take it.
Refuse(r) ==
    /\ pc[r] = "deliver"
    /\ \E e \in batch[r] \cap Broken : GiveUp(r, e) /\ HandBack(r, e)
    /\ UNCHANGED <<row, lease, sunk, enqueued, dropped, rounds, left, wait, stalled, faults>>

\* A call fails during the fan-out, or the deadline of the pass cuts it short;
\* the release may fail with it.
FailDelivery(r) ==
    /\ pc[r] = "deliver" /\ Fault
    /\ \E e \in batch[r] \ Broken, S \in SUBSET Endpoints :
         /\ GiveUp(r, e) /\ Sink(e)
         /\ HandBack(r, e) \/ UNCHANGED locked
         /\ enqueued' = [enqueued EXCEPT ![e] = @ \cup S]
    /\ UNCHANGED <<row, lease, dropped, rounds, left, wait, stalled>>

\* The effect is delivered, but the write that says so fails; it may have landed.
FailMark(r) ==
    /\ pc[r] = "mark" /\ Fault
    /\ \E e \in batch[r] :
         /\ GiveUp(r, e)
         /\ \/ HandBack(r, e) /\ UNCHANGED row
            \/ MarkDelivered(r, e)
    /\ UNCHANGED <<lease, sunk, enqueued, dropped, rounds, left, wait, stalled>>

\* The claim fails, or its answer is lost and what it leased waits.
FailClaim(r) ==
    /\ pc[r] = "claim" /\ Fault
    /\ Goto(r, "idle")
    /\ \/ UNCHANGED <<lease, locked>>
       \/ \E S \in SUBSET Claimable : Chosen(S) /\ Lease(r, S)
    /\ UNCHANGED <<row, sunk, enqueued, failed, dropped, batch, rounds, left, wait, stalled>>

\* The process dies and starts again; its claims lapse by themselves.
Crash(r) ==
    /\ pc[r] # "idle" /\ Fault
    /\ failed' = failed \cup (IF pc[r] = "mark" THEN batch[r] ELSE {})
    /\ batch' = [batch EXCEPT ![r] = {}]
    /\ Goto(r, "idle")
    /\ stalled' = stalled \ {r}
    /\ UNCHANGED <<row, lease, locked, sunk, enqueued, dropped, rounds, left, wait>>

\* The process sleeps and wakes with its deadline still to come.
Stall(r) ==
    /\ pc[r] # "idle" /\ left[r] = 0 /\ Fault
    /\ left' = [left EXCEPT ![r] = PassTicks]
    /\ stalled' = stalled \cup {r}
    /\ failed' = failed \cup batch[r]
    /\ UNCHANGED <<row, lease, locked, sunk, enqueued, dropped, pc, batch, rounds, wait>>

\* Time passes; a pass that is awake does not outlast its deadline.
Tick ==
    /\ \A r \in Replicas : pc[r] # "idle" => left[r] > 0
    /\ locked' = [e \in Effects |-> IF locked[e] = 0 THEN 0 ELSE locked[e] - 1]
    /\ left' = [r \in Replicas |-> IF left[r] = 0 THEN 0 ELSE left[r] - 1]
    /\ wait' = [r \in Replicas |-> 0]
    /\ UNCHANGED <<row, lease, sunk, enqueued, failed, dropped, pc, batch, rounds, stalled, faults>>

Pass(r) == Claim(r) \/ Deliver(r) \/ Mark(r) \/ Refuse(r)

Next ==
    \/ \E e \in Effects : Queue(e)
    \/ \E r \in Replicas :
          \/ Begin(r) \/ Pass(r) \/ Crash(r) \/ Stall(r)
          \/ FailDelivery(r) \/ FailMark(r) \/ FailClaim(r)
    \/ Tick

Spec == Init /\ [][Next]_vars

-----------------------------------------------------------------------------
(* What the outbox promises *)

\* Claims are exclusive for as long as a pass can act on them: the lease of an
\* effect in the batch of a pass that is awake is that pass's, and outlasts its
\* deadline.
LeaseOutlastsPass ==
    \A r \in Replicas \ stalled : \A e \in batch[r] :
        row[e] = "pending" /\ lease[e] = r /\ locked[e] > left[r]

\* The sinks behind webhooks, which do not know an effect they have seen, get it
\* once, unless a delivery of it did not run to its end.
NoNeedlessRepeat == \A e \in Effects : sunk[e] = 2 => e \in failed

\* No endpoint misses an effect that counts as delivered, though deliveries may
\* stop half way and be taken up by another replica; only the throttle drops.
DeliveredEverywhere ==
    \A e \in Effects : row[e] = "delivered" =>
        sunk[e] > 0 /\ (enqueued[e] = Endpoints \/ e \in dropped)

\* Timers fire, passes go on once begun, and time does not stop.
Fairness ==
    /\ WF_vars(Tick)
    /\ \A r \in Replicas : WF_vars(Begin(r)) /\ WF_vars(Pass(r))

\* A timer that is due and the claim behind it take less than a tick.
Punctual == \A r \in Replicas : pc[r] # "claim" /\ (pc[r] = "idle" => wait[r] > 0)

FairSpec == Spec /\ Fairness

\* Once timers and claims are no longer late, every effect that can be delivered
\* is, behind effects that cannot: a pass that fails at one leaves it leased, and
\* the next passes work past it.
EveryEffectDelivered ==
    <>[][Tick => Punctual]_vars =>
        \A e \in Effects \ Broken : row[e] = "pending" ~> row[e] = "delivered"
=============================================================================
