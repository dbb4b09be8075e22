------------------------- MODULE SendPipelineProofs -------------------------
(***************************************************************************)
(* What SendPipeline guarantees for any set of tasks, mailboxes, steps,    *)
(* handler executions and worker deliveries.                               *)
(***************************************************************************)
EXTENDS SendPipeline, TLAPS

-----------------------------------------------------------------------------
(* Types *)

\* A delivery at work has a task, and publishes an answer that is stored.
Working ==
    \A e \in Execs :
        /\ exec[e].pc # "idle" => exec[e].task \in Tasks
        /\ exec[e].pc = "publishing" => stored[exec[e].task] # "none"

TypeInv == TypeOK /\ Working

\* refreshSendHold chooses a well-formed hold.
LEMMA NextHoldsType ==
    ASSUME NEW m, NEW oc, NEW q, NEW cf
    PROVE  NextHolds(m, oc, q, cf) \subseteq Holds
  BY DEF NextHolds, Holds, UnknownHold, NoHold

\* So does refreshUnknownSendHold.
LEMMA RefreshedHoldsType ==
    ASSUME TypeOK, NEW t \in Tasks, NEW oc, NEW q, NEW cf
    PROVE  RefreshedHolds(t, oc, q, cf) \subseteq Holds
  BY NextHoldsType, MailboxAssumption DEF RefreshedHolds, TypeOK

\* Writing one of some well-formed holds keeps the column well-formed.
LEMMA SetHoldType ==
    ASSUME TypeOK, NEW m \in Mailboxes, NEW H \in SUBSET Holds, SetHold(m, H)
    PROVE  hold' \in [Mailboxes -> Holds]
  BY DEF SetHold, TypeOK

\* The progress writes of results and releases yield well-formed steps.
LEMMA SlotTypes ==
    ASSUME TypeOK, NEW s \in Steps, NEW t \in Tasks, NEW k
    PROVE  /\ ReleasedSlot(s, t) \in Slots
           /\ SlotAfterFailure(s, t, k) \in Slots
           /\ StampedSlot(s, t) \in Slots
  <1>1. FreeSlot \in Slots
    BY DEF FreeSlot, Slots
  <1>2. slot[s] \in Slots
    BY DEF TypeOK
  <1>3. [slot[s] EXCEPT !.sent = TRUE] \in Slots
    BY <1>2 DEF Slots
  <1> QED
    BY <1>1, <1>2, <1>3 DEF ReleasedSlot, WalkedSlot, SlotAfterFailure, StampedSlot

\* SetSlot writes a campaign's own step and nothing else.
LEMMA SetSlotType ==
    ASSUME TypeOK, NEW t \in Tasks, NEW sl, SetSlot(t, sl), IsCampaign(t) => sl \in Slots
    PROVE  slot' \in [Steps -> Slots]
  BY StepAssumption DEF SetSlot, IsCampaign, TypeOK

LEMMA InitType == Init => TypeInv
  BY DEF Init, Untouched, TypeInv, TypeOK, Working, Statuses, RunPCs, ExecPCs, Kinds, Holds, Slots,
         NoHold, FreeSlot, IdleExec

\* The handlers write well-formed rows.
LEMMA HandlerType ==
    ASSUME TypeInv, NEW r \in Runs, Handler(r)
    PROVE  TypeInv'
  <1> USE DEF ledger, progress, bus, worker, history
  <1> DEFINE t == TaskOf[r]
  <1>0. t \in Tasks
    BY RunAssumption
  <1>a. ASSUME NEW pc \in RunPCs, Goto(r, pc)
        PROVE  run' \in [Runs -> RunPCs]
    BY <1>a DEF Goto, TypeInv, TypeOK
  <1>b. ASSUME NEW st \in Statuses, SetStatus(t, st)
        PROVE  status' \in [Tasks -> Statuses]
    BY <1>0, <1>b DEF SetStatus, TypeInv, TypeOK
  \* A handler that leaves the send columns and the worker alone.
  <1>c. ASSUME UNCHANGED <<authority, stored, outcome, quarantine, conflict, hold, parked,
                           results, exec, pendingSend, calls, delivered, unopened, withdrawn>>,
               status' \in [Tasks -> Statuses],
               slot' \in [Steps -> Slots],
               run' \in [Runs -> RunPCs],
               cmds' \in SUBSET Tasks
        PROVE  TypeInv'
    BY <1>c DEF TypeInv, TypeOK, Working
  <1>1. CASE Pick(r)
    BY <1>1, <1>a, <1>c DEF Pick, RunPCs, TypeInv, TypeOK
  <1>2. CASE Activate(r)
    BY <1>2, <1>a, <1>b, <1>c DEF Activate, RunPCs, Statuses, TypeInv, TypeOK
  <1>3. CASE Admit(r)
    BY <1>3, <1>a, <1>c DEF Admit, RunPCs, TypeInv, TypeOK
  <1>4. CASE TurnAway(r)
    <2>1. AfterDenial(t) \subseteq Statuses
      BY <1>0 DEF AfterDenial, Statuses, TypeInv, TypeOK
    <2> QED
      BY <1>4, <2>1, <1>a, <1>b, <1>c DEF TurnAway, RunPCs, TypeInv, TypeOK
  <1>5. CASE EndUnsent(r)
    BY <1>5, <1>a, <1>b, <1>c DEF EndUnsent, RunPCs, Statuses, TypeInv, TypeOK
  <1>6. CASE ClaimStep(r)
    <2>1. StepOf[t] \in Steps
      BY <1>6, <1>0, StepAssumption DEF ClaimStep, IsCampaign
    <2>2. [dispatched |-> TRUE, task |-> t, sent |-> FALSE] \in Slots
      BY <1>0 DEF Slots
    <2>3. CASE SetStatus(t, "skipped") /\ Goto(r, "idle") /\ UNCHANGED slot
      BY <1>6, <2>3, <1>a, <1>b, <1>c DEF ClaimStep, RunPCs, Statuses, TypeInv, TypeOK
    <2>4. CASE /\ slot' = [slot EXCEPT ![StepOf[t]] =
                              [dispatched |-> TRUE, task |-> t, sent |-> FALSE]]
               /\ Goto(r, "ready") /\ UNCHANGED status
      BY <1>6, <2>1, <2>2, <2>4, <1>a, <1>c DEF ClaimStep, RunPCs, TypeInv, TypeOK
    <2> QED
      BY <1>6, <2>3, <2>4 DEF ClaimStep
  <1>7. CASE Reserve(r)
    <2>1. UnknownHold(t) \in Holds
      BY <1>0 DEF UnknownHold, Holds
    <2>2. MailboxOf[t] \in Mailboxes
      BY <1>0, MailboxAssumption
    <2>3. /\ status' \in [Tasks -> Statuses]
          /\ run' \in [Runs -> RunPCs]
      BY <1>7, <1>a, <1>b DEF Reserve, RunPCs, Statuses
    <2> QED
      BY <1>0, <1>7, <2>1, <2>2, <2>3 DEF Reserve, TypeInv, TypeOK, Working
  <1>8. CASE RefuseReserve(r)
    <2>0. FreeSlot \in Slots
      BY DEF FreeSlot, Slots
    <2>1. slot' \in [Steps -> Slots]
      BY <1>8, <2>0 DEF RefuseReserve, TypeInv, TypeOK
    <2>2. status' \in [Tasks -> Statuses]
      BY <1>8, <1>b DEF RefuseReserve, Statuses, TypeInv, TypeOK
    <2>3. run' \in [Runs -> RunPCs]
      BY <1>8, <1>a DEF RefuseReserve, RunPCs
    <2> QED
      BY <1>8, <2>1, <2>2, <2>3, <1>c DEF RefuseReserve, TypeInv, TypeOK
  <1>9. CASE RecordRefusal(r)
    BY <1>9, <1>a, <1>b, <1>c DEF RecordRefusal, RunPCs, Statuses, TypeInv, TypeOK
  <1>10. CASE Publish(r)
    <2>1. run' \in [Runs -> RunPCs]
      BY <1>10, <1>a DEF Publish, RunPCs
    <2>2. cmds' \in SUBSET Tasks
      BY <1>0, <1>10 DEF Publish, TypeInv, TypeOK
    <2> QED
      BY <1>10, <2>1, <2>2, <1>c DEF Publish, TypeInv, TypeOK
  <1>11. CASE RecordUnsure(r)
    BY <1>11, <1>a, <1>b, <1>c DEF RecordUnsure, RunPCs, Statuses, TypeInv, TypeOK
  <1>12. CASE Bury(r)
    BY <1>12, <1>a, <1>b, <1>c DEF Bury, RunPCs, Statuses, TypeInv, TypeOK
  <1>13. CASE Stamp(r)
    <2>1. StepOf[t] \in Steps
      BY <1>13, <1>0, StepAssumption DEF Stamp, IsCampaign
    <2>2. [dispatched |-> TRUE, task |-> slot[StepOf[t]].task, sent |-> TRUE] \in Slots
      BY <2>1 DEF Slots, TypeInv, TypeOK
    <2>3. slot' \in [Steps -> Slots]
      BY <1>13, <2>1, <2>2 DEF Stamp, TypeInv, TypeOK
    <2> QED
      BY <1>13, <2>3, <1>a, <1>c DEF Stamp, RunPCs, TypeInv, TypeOK
  <1>14. CASE Complete(r)
    BY <1>14, <1>a, <1>b, <1>c DEF Complete, RunPCs, Statuses, TypeInv, TypeOK
  <1>15. CASE Crash(r)
    <2>1. status' \in [Tasks -> Statuses]
      BY <1>15, <1>b DEF Crash, Statuses, TypeInv, TypeOK
    <2> QED
      BY <1>15, <2>1, <1>a, <1>c DEF Crash, RunPCs, TypeInv, TypeOK
  <1> QED
    BY <1>1, <1>2, <1>3, <1>4, <1>5, <1>6, <1>7, <1>8, <1>9, <1>10, <1>11, <1>12, <1>13,
       <1>14, <1>15 DEF Handler

\* Giving an unstarted reservation back keeps the rows well-formed.
LEMMA CancelOutboundType ==
    ASSUME TypeInv, NEW t \in Tasks, CancelOutbound(t)
    PROVE  /\ status' \in [Tasks -> Statuses]
           /\ outcome' \in [Tasks -> {"null", "unknown", "sent", "failed"}]
           /\ hold' \in [Mailboxes -> Holds]
           /\ slot' \in [Steps -> Slots]
           /\ UNCHANGED <<authority, stored, quarantine, conflict, parked>>
  <1> DEFINE oc == [outcome EXCEPT ![t] = "failed"]
  <1>1. hold' \in [Mailboxes -> Holds]
    <2>1. RefreshedHolds(t, oc, quarantine, conflict) \in SUBSET Holds
      BY RefreshedHoldsType DEF TypeInv
    <2>2. SetHold(MailboxOf[t], RefreshedHolds(t, oc, quarantine, conflict))
      BY DEF CancelOutbound
    <2> QED
      BY <2>1, <2>2, SetHoldType, MailboxAssumption DEF TypeInv
  <1>2. slot' \in [Steps -> Slots]
    <2>1. IsCampaign(t) => ReleasedSlot(StepOf[t], t) \in Slots
      BY SlotTypes, StepAssumption DEF IsCampaign, TypeInv
    <2>2. SetSlot(t, ReleasedSlot(StepOf[t], t))
      BY DEF CancelOutbound
    <2> QED
      BY <2>1, <2>2, SetSlotType DEF TypeInv
  <1> QED
    BY <1>1, <1>2 DEF CancelOutbound, SetStatus, Statuses, TypeInv, TypeOK

\* The worker keeps its deliveries and the rows it writes well-formed.
LEMMA WorkerType ==
    ASSUME TypeInv, NEW e \in Execs, Worker(e)
    PROVE  TypeInv'
  <1> USE DEF ledger, progress, bus, worker, history
  <1> DEFINE u == exec[e].task
  <1>a. ASSUME NEW pc \in ExecPCs, NEW t \in Tasks, SetExec(e, pc, t),
               pc = "publishing" => stored'[t] # "none",
               \A x \in Tasks : stored[x] # "none" => stored'[x] # "none"
        PROVE  Working' /\ exec' \in [Execs -> [pc : ExecPCs, task : Tasks \cup {None}]]
    BY <1>a DEF SetExec, Working, TypeInv, TypeOK
  <1>b. ASSUME FreeExec(e), UNCHANGED stored
        PROVE  Working' /\ exec' \in [Execs -> [pc : ExecPCs, task : Tasks \cup {None}]]
    <2>1. IdleExec \in [pc : ExecPCs, task : Tasks \cup {None}]
      BY DEF IdleExec, ExecPCs
    <2>2. IdleExec.pc = "idle"
      BY DEF IdleExec
    <2> QED
      BY <1>b, <2>1, <2>2 DEF FreeExec, Working, TypeInv, TypeOK
  <1>c. exec[e].pc # "idle" => u \in Tasks
    BY DEF TypeInv, Working
  <1>1. ASSUME NEW t \in Tasks, Deliver(e, t) PROVE TypeInv'
    <2>1. Working' /\ exec' \in [Execs -> [pc : ExecPCs, task : Tasks \cup {None}]]
      BY <1>1, <1>a DEF Deliver, ExecPCs, TypeInv, TypeOK, Working
    <2>2. results' \subseteq Tasks \X Kinds
      BY <1>1 DEF Deliver, TypeInv, TypeOK
    <2> QED
      BY <1>1, <2>1, <2>2 DEF Deliver, TypeInv, TypeOK
  <1>2. CASE FailUnopened(e)
    <2>1. results' \subseteq Tasks \X Kinds /\ unopened' \subseteq Tasks
      BY <1>2, <1>c DEF FailUnopened, Kinds, TypeInv, TypeOK
    <2> QED
      BY <1>2, <2>1, <1>b DEF FailUnopened, TypeInv, TypeOK
  <1>3. CASE Begin(e)
    <2>1. Working' /\ exec' \in [Execs -> [pc : ExecPCs, task : Tasks \cup {None}]]
      BY <1>3, <1>a, <1>c DEF Begin, ExecPCs
    <2> QED
      BY <1>3, <2>1 DEF Begin, TypeInv, TypeOK
  <1>4. CASE DenyBegin(e)
    <2>1. Working' /\ exec' \in [Execs -> [pc : ExecPCs, task : Tasks \cup {None}]]
      BY <1>4, <1>a, <1>c DEF DenyBegin, ExecPCs
    <2> QED
      BY <1>4, <2>1 DEF DenyBegin, TypeInv, TypeOK
  <1>5. CASE CancelDenied(e)
    <2>1. u \in Tasks /\ CancelOutbound(u)
      BY <1>5, <1>c DEF CancelDenied
    <2> QED
      BY <1>5, <2>1, <1>b, CancelOutboundType DEF CancelDenied, TypeInv, TypeOK
  <1>6. CASE BeginTwice(e)
    <2>1. results' \subseteq Tasks \X Kinds
      BY <1>6, <1>c DEF BeginTwice, TypeInv, TypeOK
    <2> QED
      BY <1>6, <2>1, <1>b DEF BeginTwice, TypeInv, TypeOK
  <1>7. CASE CallProvider(e)
    <2>1. Working' /\ exec' \in [Execs -> [pc : ExecPCs, task : Tasks \cup {None}]]
      BY <1>7, <1>a, <1>c DEF CallProvider, ExecPCs
    <2>2. calls' \in [Tasks -> Nat] /\ pendingSend' \in [Tasks -> Kinds \cup {"none"}]
      BY <1>7, <1>c DEF CallProvider, TypeInv, TypeOK
    <2>3. delivered' \subseteq Tasks
      BY <1>7, <1>c DEF CallProvider, TypeInv, TypeOK
    <2> QED
      BY <1>7, <2>1, <2>2, <2>3 DEF CallProvider, TypeInv, TypeOK
  <1>8. CASE Finish(e)
    <2>1. stored' \in [Tasks -> Kinds \cup {"none"}] /\ stored'[u] # "none"
      BY <1>8, <1>c DEF Finish, TypeInv, TypeOK
    <2>2. Working' /\ exec' \in [Execs -> [pc : ExecPCs, task : Tasks \cup {None}]]
      BY <1>8, <2>1, <1>a, <1>c DEF Finish, ExecPCs, TypeInv, TypeOK
    <2> QED
      BY <1>8, <2>1, <2>2 DEF Finish, TypeInv, TypeOK
  <1>9. CASE PublishResult(e)
    <2>1. results' \subseteq Tasks \X Kinds
      BY <1>9, <1>c DEF PublishResult, Working, TypeInv, TypeOK
    <2>2. pendingSend' \in [Tasks -> Kinds \cup {"none"}]
      BY <1>9 DEF PublishResult, TypeInv, TypeOK
    <2> QED
      BY <1>9, <2>1, <2>2, <1>b DEF PublishResult, TypeInv, TypeOK
  <1>10. CASE Nak(e)
    BY <1>10, <1>b DEF Nak, TypeInv, TypeOK
  <1> QED
    BY <1>1, <1>2, <1>3, <1>4, <1>5, <1>6, <1>7, <1>8, <1>9, <1>10 DEF Worker

\* An applied answer keeps the rows well-formed, whichever branch takes it.
LEMMA ApplyType ==
    ASSUME TypeInv, NEW t \in Tasks, NEW k, Apply(t, k)
    PROVE  TypeInv'
  <1> USE DEF ledger, progress, bus, worker, history
  <1> DEFINE m == MailboxOf[t]
  <1>0. m \in Mailboxes /\ TypeOK /\ Working
    BY MailboxAssumption DEF TypeInv
  <1>h. hold[m] \in Holds
    BY <1>0 DEF TypeOK
  <1>a. ASSUME status' \in [Tasks -> Statuses],
               outcome' \in [Tasks -> {"null", "unknown", "sent", "failed"}],
               conflict' \in [Tasks -> {"no", "open", "resolved"}],
               hold' \in [Mailboxes -> Holds],
               slot' \in [Steps -> Slots],
               parked' \in [Steps -> BOOLEAN],
               UNCHANGED <<authority, stored, quarantine>>
        PROVE  TypeInv'
    BY <1>a DEF Apply, TypeInv, TypeOK, Working
  <1>p. ASSUME Unpark(t)
        PROVE  parked' \in [Steps -> BOOLEAN]
    BY <1>0, <1>p DEF Unpark, TypeOK
  <1>1. CASE RecordConflict(t, k)
    <2> DEFINE cf == [conflict EXCEPT ![t] = IF @ = "no" THEN "open" ELSE @]
               H == IF hold[m] \in {NoHold, UnknownHold(t)}
                    THEN NextHolds(m, outcome, quarantine, cf) ELSE {hold[m]}
    <2>1. H \in SUBSET Holds
      BY <1>h, NextHoldsType
    <2>2. SetHold(m, H)
      BY <1>1 DEF RecordConflict
    <2>3. hold' \in [Mailboxes -> Holds]
      BY <1>0, <2>1, <2>2, SetHoldType
    <2>4. conflict' \in [Tasks -> {"no", "open", "resolved"}]
      BY <1>0, <1>1 DEF RecordConflict, TypeOK
    <2> QED
      BY <1>0, <1>1, <2>3, <2>4, <1>a DEF RecordConflict, TypeOK
  <1>2. CASE ApplyUnknown(t, k)
    <2> DEFINE H == IF hold[m].reason \in {"none", "unknown"} /\ quarantine[t] = "no"
                    THEN {UnknownHold(t)} ELSE {hold[m]}
    <2>1. H \in SUBSET Holds
      BY <1>h DEF UnknownHold, Holds
    <2>2. SetHold(m, H)
      BY <1>2 DEF ApplyUnknown
    <2>3. hold' \in [Mailboxes -> Holds]
      BY <1>0, <2>1, <2>2, SetHoldType
    <2>4. outcome' \in [Tasks -> {"null", "unknown", "sent", "failed"}]
      BY <1>0, <1>2 DEF ApplyUnknown, TypeOK
    <2> QED
      BY <1>0, <1>2, <2>3, <2>4, <1>a DEF ApplyUnknown, TypeOK
  <1>3. CASE ApplySent(t, k)
    <2> DEFINE oc == [outcome EXCEPT ![t] = "sent"]
    <2>1. hold' \in [Mailboxes -> Holds]
      <3>1. RefreshedHolds(t, oc, quarantine, conflict) \in SUBSET Holds
        BY <1>0, RefreshedHoldsType
      <3>2. SetHold(m, RefreshedHolds(t, oc, quarantine, conflict))
        BY <1>3 DEF ApplySent
      <3> QED
        BY <1>0, <3>1, <3>2, SetHoldType
    <2>2. slot' \in [Steps -> Slots]
      <3>1. IsCampaign(t) => StampedSlot(StepOf[t], t) \in Slots
        BY <1>0, SlotTypes, StepAssumption DEF IsCampaign
      <3>2. SetSlot(t, StampedSlot(StepOf[t], t))
        BY <1>3 DEF ApplySent
      <3> QED
        BY <1>0, <3>1, <3>2, SetSlotType
    <2>3. status' \in [Tasks -> Statuses]
      BY <1>0, <1>3 DEF ApplySent, Statuses, TypeOK
    <2>4. outcome' \in [Tasks -> {"null", "unknown", "sent", "failed"}]
      BY <1>0, <1>3 DEF ApplySent, TypeOK
    <2>5. parked' \in [Steps -> BOOLEAN]
      BY <1>3, <1>p DEF ApplySent
    <2> QED
      BY <1>0, <1>3, <2>1, <2>2, <2>3, <2>4, <2>5, <1>a DEF ApplySent, TypeOK
  <1>4. CASE ApplyFailed(t, k)
    <2> DEFINE oc == [outcome EXCEPT ![t] = "failed"]
               H == IF k = "domain_auth" THEN {[reason |-> "refused", task |-> t]}
                    ELSE RefreshedHolds(t, oc, quarantine, conflict)
    <2>1. hold' \in [Mailboxes -> Holds]
      <3>1. [reason |-> "refused", task |-> t] \in Holds
        BY DEF Holds
      <3>2. H \in SUBSET Holds
        BY <1>0, <3>1, RefreshedHoldsType
      <3>3. SetHold(m, H)
        BY <1>4 DEF ApplyFailed
      <3> QED
        BY <1>0, <3>2, <3>3, SetHoldType
    <2>2. slot' \in [Steps -> Slots]
      <3>1. IsCampaign(t) => SlotAfterFailure(StepOf[t], t, k) \in Slots
        BY <1>0, SlotTypes, StepAssumption DEF IsCampaign
      <3>2. SetSlot(t, SlotAfterFailure(StepOf[t], t, k)) \/ UNCHANGED slot
        BY <1>4 DEF ApplyFailed
      <3> QED
        BY <1>0, <3>1, <3>2, SetSlotType DEF TypeOK
    <2>3. status' \in [Tasks -> Statuses]
      BY <1>0, <1>4 DEF ApplyFailed, Statuses, TypeOK
    <2>4. outcome' \in [Tasks -> {"null", "unknown", "sent", "failed"}]
      BY <1>0, <1>4 DEF ApplyFailed, TypeOK
    <2>5. parked' \in [Steps -> BOOLEAN]
      BY <1>4, <1>p DEF ApplyFailed
    <2> QED
      BY <1>0, <1>4, <2>1, <2>2, <2>3, <2>4, <2>5, <1>a DEF ApplyFailed, TypeOK
  <1> QED
    BY <1>1, <1>2, <1>3, <1>4 DEF Apply

\* The loops that work on held sends keep the rows well-formed.
LEMMA RecoveryType ==
    ASSUME TypeInv, NEW t \in Tasks, Recovery(t)
    PROVE  TypeInv'
  <1> USE DEF ledger, progress, bus, worker, history
  <1>0. MailboxOf[t] \in Mailboxes /\ TypeOK /\ Working
    BY MailboxAssumption DEF TypeInv
  <1>1. CASE ReplayStored(t)
    BY <1>1, ApplyType DEF ReplayStored
  <1>2. CASE ReclaimStuck(t)
    BY <1>2, ApplyType DEF ReclaimStuck
  <1>3. CASE RecoverUnstarted(t)
    <2>1. CancelOutbound(t)
      BY <1>3 DEF RecoverUnstarted
    <2> QED
      BY <1>3, <2>1, CancelOutboundType DEF RecoverUnstarted, TypeInv, TypeOK, Working
  <1>a. ASSUME NEW v \in {"lifted", "isolated"},
               quarantine' = [quarantine EXCEPT ![t] = v],
               SetHold(MailboxOf[t],
                       RefreshedHolds(t, outcome, [quarantine EXCEPT ![t] = v], conflict))
        PROVE  /\ quarantine' \in [Tasks -> {"no", "lifted", "isolated"}]
               /\ hold' \in [Mailboxes -> Holds]
    <2>1. RefreshedHolds(t, outcome, [quarantine EXCEPT ![t] = v], conflict) \in SUBSET Holds
      BY <1>0, RefreshedHoldsType
    <2> QED
      BY <1>0, <1>a, <2>1, SetHoldType DEF TypeOK
  <1>4. CASE LiftStarted(t)
    <2>1. /\ quarantine' \in [Tasks -> {"no", "lifted", "isolated"}]
          /\ hold' \in [Mailboxes -> Holds]
      BY <1>4, <1>a DEF LiftStarted
    <2> QED
      BY <1>4, <2>1 DEF LiftStarted, TypeInv, TypeOK, Working
  <1>5. CASE Isolate(t)
    <2>1. /\ quarantine' \in [Tasks -> {"no", "lifted", "isolated"}]
          /\ hold' \in [Mailboxes -> Holds]
      BY <1>5, <1>a DEF Isolate
    <2>2. /\ status' \in [Tasks -> Statuses]
          /\ parked' \in [Steps -> BOOLEAN]
      BY <1>0, <1>5 DEF Isolate, SetStatus, Statuses, TypeOK
    <2> QED
      BY <1>5, <2>1, <2>2 DEF Isolate, TypeInv, TypeOK, Working
  <1> QED
    BY <1>1, <1>2, <1>3, <1>4, <1>5 DEF Recovery

\* So do the releases of a refusal and of a contradiction.
LEMMA MailboxType ==
    ASSUME TypeInv, NEW m \in Mailboxes, ReleaseRefusal(m) \/ ResolveConflict(m)
    PROVE  TypeInv'
  <1> USE DEF ledger, progress, bus, worker, history
  <1>1. CASE ReleaseRefusal(m)
    <2>1. hold' \in [Mailboxes -> Holds]
      BY <1>1, NextHoldsType, SetHoldType DEF ReleaseRefusal, TypeInv
    <2> QED
      BY <1>1, <2>1 DEF ReleaseRefusal, TypeInv, TypeOK, Working
  <1>2. CASE ResolveConflict(m)
    <2>1. hold' \in [Mailboxes -> Holds]
      BY <1>2, NextHoldsType, SetHoldType DEF ResolveConflict, TypeInv
    <2>2. conflict' \in [Tasks -> {"no", "open", "resolved"}]
      BY <1>2 DEF ResolveConflict, TypeInv, TypeOK
    <2> QED
      BY <1>2, <2>1, <2>2 DEF ResolveConflict, TypeInv, TypeOK, Working
  <1> QED
    BY <1>1, <1>2

\* Every step keeps the rows well-formed.
LEMMA NextType == TypeInv /\ [Next]_vars => TypeInv'
  <1> SUFFICES ASSUME TypeInv, [Next]_vars PROVE TypeInv'
    OBVIOUS
  <1> USE DEF ledger, progress, bus, worker, history
  <1>1. ASSUME NEW r \in Runs, Handler(r) PROVE TypeInv'
    BY <1>1, HandlerType
  <1>2. ASSUME NEW e \in Execs, Worker(e) PROVE TypeInv'
    BY <1>2, WorkerType
  <1>3. CASE CrashWorker
    <2>1. IdleExec \in [pc : ExecPCs, task : Tasks \cup {None}] /\ IdleExec.pc = "idle"
      BY DEF IdleExec, ExecPCs
    <2> QED
      BY <1>3, <2>1 DEF CrashWorker, TypeInv, TypeOK, Working
  <1>4. ASSUME NEW t \in Tasks, OwnerCancel(t) PROVE TypeInv'
    BY <1>4 DEF OwnerCancel, SetStatus, Statuses, TypeInv, TypeOK, Working
  <1>5. ASSUME NEW t \in Tasks, Recovery(t) PROVE TypeInv'
    BY <1>5, RecoveryType
  <1>6. ASSUME NEW t \in Tasks, DropCommand(t) PROVE TypeInv'
    BY <1>6 DEF DropCommand, TypeInv, TypeOK, Working
  <1>7. ASSUME NEW x \in results, ConsumeResult(x[1], x[2]) PROVE TypeInv'
    <2>1. x[1] \in Tasks
      BY <1>7 DEF TypeInv, TypeOK
    <2> QED
      BY <1>7, <2>1, ApplyType DEF ConsumeResult
  <1>8. ASSUME NEW x \in results, DropResult(x) PROVE TypeInv'
    BY <1>8 DEF DropResult, TypeInv, TypeOK, Working
  <1>9. ASSUME NEW m \in Mailboxes, ReleaseRefusal(m) \/ ResolveConflict(m) PROVE TypeInv'
    BY <1>9, MailboxType
  <1>10. CASE UNCHANGED vars
    BY <1>10 DEF vars, TypeInv, TypeOK, Working
  <1> QED
    BY <1>1, <1>2, <1>3, <1>4, <1>5, <1>6, <1>7, <1>8, <1>9, <1>10 DEF Next

\* Type correctness: every row, message and worker delivery stays well-formed.
THEOREM TypeCorrect == Spec => []TypeOK
  <1>1. TypeInv => TypeOK
    BY DEF TypeInv
  <1> QED
    BY InitType, NextType, <1>1, PTL DEF Spec
-----------------------------------------------------------------------------
(* Which steps concern the sends                                           *)

core == <<authority, stored, outcome, quarantine, conflict, hold, results, exec, pendingSend,
          calls>>

\* Of all a handler does, only its reservation touches the send columns, the
\* mailbox hold, the results or the worker.
LEMMA HandlerSteps ==
    ASSUME NEW r \in Runs, Handler(r), ~Reserve(r)
    PROVE  UNCHANGED core
  <1> USE DEF core, ledger, progress, bus, worker, history
  <1> QED
    BY DEF Handler, Pick, Activate, Admit, TurnAway, EndUnsent, ClaimStep, RefuseReserve,
           RecordRefusal, Publish, RecordUnsure, Bury, Stamp, Complete, Crash

\* A step is a reservation, a step of the worker, an applied or lost result, a
\* recovery or a release; every other step leaves the core alone.
LEMMA CoreSteps ==
    ASSUME [Next]_vars
    PROVE  \/ UNCHANGED core
           \/ \E r \in Runs : Reserve(r)
           \/ \E e \in Execs : Worker(e)
           \/ CrashWorker
           \/ \E t \in Tasks : Recovery(t)
           \/ \E x \in results : ConsumeResult(x[1], x[2]) \/ DropResult(x)
           \/ \E m \in Mailboxes : ReleaseRefusal(m) \/ ResolveConflict(m)
  <1> USE DEF core, ledger, progress, bus, worker, history
  <1>1. ASSUME NEW r \in Runs, Handler(r) PROVE Reserve(r) \/ UNCHANGED core
    BY <1>1, HandlerSteps
  <1>2. ASSUME NEW t \in Tasks, OwnerCancel(t) \/ DropCommand(t) PROVE UNCHANGED core
    BY <1>2 DEF OwnerCancel, DropCommand
  <1>3. CASE UNCHANGED vars
    BY <1>3 DEF vars
  <1> QED
    BY <1>1, <1>2, <1>3 DEF Next

-----------------------------------------------------------------------------
(* Evidence: what can exist of a send only once the worker has begun it    *)

Evidence ==
    /\ \A t \in Tasks :
          authority[t] # "started" =>
             /\ calls[t] = 0 /\ stored[t] = "none" /\ pendingSend[t] = "none"
             /\ outcome[t] # "sent" /\ quarantine[t] = "no"
    /\ \A t \in Tasks : authority[t] # "none" => outcome[t] # "null"
    /\ \A t \in Tasks, k \in Kinds :
          <<t, k>> \in results /\ k # "failed" => authority[t] = "started"

\* The delivery that began a task is the only one about to call the provider
\* for it, and nobody has called before.
Calling ==
    /\ \A e \in Execs :
          exec[e].pc = "calling" => /\ authority[exec[e].task] = "started"
                                    /\ calls[exec[e].task] = 0
    /\ \A e, f \in Execs :
          e # f /\ exec[e].pc = "calling" /\ exec[f].pc = "calling"
             => exec[e].task # exec[f].task

EvidenceInv == TypeInv /\ Evidence /\ Calling /\ AtMostOneExecution

LEMMA InitEvidence == Init => EvidenceInv
  BY InitType
  DEF Init, Untouched, EvidenceInv, Evidence, Calling, AtMostOneExecution, IdleExec

\* Applying an answer leaves evidence alone, when an answer other than a failure
\* or "nobody knows" comes from a send that was begun.
LEMMA ApplyEvidence ==
    ASSUME EvidenceInv, NEW t \in Tasks, NEW k \in Kinds, Apply(t, k),
           k = "sent" => authority[t] = "started"
    PROVE  Evidence' /\ Calling' /\ AtMostOneExecution'
  <1> USE DEF ledger, progress, bus, worker, history
  <1>1. UNCHANGED <<authority, stored, quarantine, results, exec, pendingSend, calls>>
    BY DEF Apply, RecordConflict, ApplyUnknown, ApplySent, ApplyFailed
  <1>2. \/ UNCHANGED outcome
        \/ \E v \in {"unknown", "sent", "failed"} :
              /\ outcome' = [outcome EXCEPT ![t] = v]
              /\ v = "sent" => k = "sent"
    BY DEF Apply, RecordConflict, ApplyUnknown, ApplySent, ApplyFailed
  <1>3. outcome \in [Tasks -> {"null", "unknown", "sent", "failed"}]
    BY DEF EvidenceInv, TypeInv, TypeOK
  <1>4. Evidence'
    BY <1>1, <1>2, <1>3 DEF EvidenceInv, Evidence
  <1>5. Calling' /\ AtMostOneExecution'
    BY <1>1 DEF EvidenceInv, Calling, AtMostOneExecution
  <1> QED
    BY <1>4, <1>5

\* Giving an unstarted reservation back leaves evidence alone.
LEMMA CancelEvidence ==
    ASSUME EvidenceInv, NEW t \in Tasks, CancelOutbound(t),
           UNCHANGED <<results, pendingSend, calls>>,
           \A e \in Execs : exec'[e] \in {exec[e], IdleExec}
    PROVE  Evidence' /\ Calling' /\ AtMostOneExecution'
  <1>1. outcome \in [Tasks -> {"null", "unknown", "sent", "failed"}]
    BY DEF EvidenceInv, TypeInv, TypeOK
  <1>2. Evidence'
    BY <1>1 DEF CancelOutbound, EvidenceInv, Evidence
  <1>3. Calling' /\ AtMostOneExecution'
    BY DEF CancelOutbound, IdleExec, EvidenceInv, Calling, AtMostOneExecution
  <1> QED
    BY <1>2, <1>3

\* The worker begins a task once, calls the provider once after that, and
\* answers only for what it began.
LEMMA WorkerEvidence ==
    ASSUME EvidenceInv, NEW e \in Execs, Worker(e)
    PROVE  Evidence' /\ Calling' /\ AtMostOneExecution'
  <1> USE DEF ledger, progress, bus, worker, history
  <1> DEFINE u == exec[e].task
  <1>c. exec[e].pc # "idle" => u \in Tasks
    BY DEF EvidenceInv, TypeInv, Working
  <1>x. exec \in [Execs -> [pc : ExecPCs, task : Tasks \cup {None}]]
    BY DEF EvidenceInv, TypeInv, TypeOK
  \* A delivery that moves elsewhere than to the call.
  <1>a. ASSUME UNCHANGED <<authority, calls>>,
               \/ FreeExec(e)
               \/ \E pc \in ExecPCs \ {"calling"} : \E t \in Tasks : SetExec(e, pc, t)
               \/ UNCHANGED exec
        PROVE  Calling' /\ AtMostOneExecution'
    <2>1. \A f \in Execs : exec'[f].pc = "calling" => exec'[f] = exec[f]
      BY <1>a, <1>x DEF FreeExec, SetExec, IdleExec
    <2> QED
      BY <1>a, <2>1 DEF EvidenceInv, Calling, AtMostOneExecution
  <1>1. ASSUME NEW t \in Tasks, Deliver(e, t) PROVE Evidence' /\ Calling' /\ AtMostOneExecution'
    <2>1. Calling' /\ AtMostOneExecution'
      BY <1>1, <1>a DEF Deliver, ExecPCs
    <2>2. \/ results' = results
          \/ stored[t] # "none" /\ results' = results \cup {<<t, stored[t]>>}
      BY <1>1 DEF Deliver
    <2>3. Evidence'
      BY <1>1, <2>2 DEF Deliver, EvidenceInv, Evidence
    <2> QED
      BY <2>1, <2>3
  <1>2. CASE FailUnopened(e)
    <2>1. Calling' /\ AtMostOneExecution'
      BY <1>2, <1>a DEF FailUnopened
    <2>2. Evidence'
      BY <1>2 DEF FailUnopened, EvidenceInv, Evidence
    <2> QED
      BY <2>1, <2>2
  <1>3. CASE Begin(e)
    <2>1. u \in Tasks /\ authority[u] = "reserved" /\ calls[u] = 0
      BY <1>3, <1>c DEF Begin, EvidenceInv, Evidence
    <2>2. authority' = [authority EXCEPT ![u] = "started"]
      BY <1>3 DEF Begin
    <2>3. authority \in [Tasks -> {"none", "reserved", "started"}]
      BY DEF EvidenceInv, TypeInv, TypeOK
    <2>4. \A t \in Tasks : authority[t] = "started" => authority'[t] = "started"
      BY <2>2, <2>3
    <2>5. Evidence'
      BY <1>3, <2>1, <2>2, <2>3, <2>4 DEF Begin, EvidenceInv, Evidence
    <2>6. exec' = [exec EXCEPT ![e] = [pc |-> "calling", task |-> u]]
      BY <1>3 DEF Begin, SetExec
    <2>7. \A f \in Execs : f # e => exec'[f] = exec[f]
      BY <1>x, <2>6
    <2>8. exec'[e].task = u
      BY <1>x, <2>6
    <2>9. \A f \in Execs : f # e /\ exec[f].pc = "calling" =>
             exec[f].task \in Tasks /\ exec[f].task # u
      BY <2>1 DEF EvidenceInv, Calling, TypeInv, Working
    <2>10. calls' = calls /\ authority'[u] = "started"
      BY <1>3, <2>1, <2>2, <2>3 DEF Begin
    <2>11. Calling'
      BY <2>1, <2>4, <2>7, <2>8, <2>9, <2>10 DEF EvidenceInv, Calling
    <2> QED
      BY <2>5, <2>10, <2>11 DEF EvidenceInv, AtMostOneExecution
  <1>4. CASE DenyBegin(e)
    <2>1. Calling' /\ AtMostOneExecution'
      BY <1>4, <1>a, <1>c DEF DenyBegin, ExecPCs
    <2> QED
      BY <1>4, <2>1 DEF DenyBegin, EvidenceInv, Evidence
  <1>5. CASE CancelDenied(e)
    <2>1. u \in Tasks /\ CancelOutbound(u)
      BY <1>5, <1>c DEF CancelDenied
    <2>2. \A f \in Execs : exec'[f] \in {exec[f], IdleExec}
      BY <1>5, <1>x DEF CancelDenied, FreeExec
    <2> QED
      BY <1>5, <2>1, <2>2, CancelEvidence DEF CancelDenied
  <1>6. CASE BeginTwice(e)
    <2>1. Calling' /\ AtMostOneExecution'
      BY <1>6, <1>a DEF BeginTwice
    <2>2. authority[u] = "started"
      BY <1>6 DEF BeginTwice
    <2>3. results' = results \/ results' = results \cup {<<u, stored[u]>>}
      BY <1>6 DEF BeginTwice
    <2>4. Evidence'
      BY <1>6, <2>2, <2>3 DEF BeginTwice, EvidenceInv, Evidence
    <2> QED
      BY <2>1, <2>4
  <1>7. CASE CallProvider(e)
    <2>1. u \in Tasks /\ authority[u] = "started" /\ calls[u] = 0
      BY <1>7, <1>c DEF CallProvider, EvidenceInv, Calling
    <2>2. calls \in [Tasks -> Nat] /\ pendingSend \in [Tasks -> Kinds \cup {"none"}]
      BY DEF EvidenceInv, TypeInv, TypeOK
    <2>3. calls' = [calls EXCEPT ![u] = @ + 1]
      BY <1>7 DEF CallProvider
    <2>4. PICK k \in Kinds : pendingSend' = [pendingSend EXCEPT ![u] = k]
      BY <1>7 DEF CallProvider
    <2>5. Evidence'
      BY <1>7, <2>1, <2>2, <2>3, <2>4 DEF CallProvider, EvidenceInv, Evidence
    <2>6. \A t \in Tasks : calls'[t] = IF t = u THEN 1 ELSE calls[t]
      BY <2>1, <2>2, <2>3
    <2>7. AtMostOneExecution'
      BY <2>6 DEF EvidenceInv, AtMostOneExecution
    <2>8. \A f \in Execs : exec'[f].pc = "calling" => f # e /\ exec'[f] = exec[f]
      BY <1>7, <1>x DEF CallProvider, SetExec
    <2>9. \A f \in Execs : exec'[f].pc = "calling" => exec[f].task \in Tasks /\ exec[f].task # u
      BY <1>7, <2>8 DEF CallProvider, EvidenceInv, Calling, TypeInv, Working
    <2>10. Calling'
      BY <1>7, <2>6, <2>8, <2>9 DEF CallProvider, EvidenceInv, Calling
    <2> QED
      BY <2>5, <2>7, <2>10
  <1>8. CASE Finish(e)
    <2>1. Calling' /\ AtMostOneExecution'
      BY <1>8, <1>a, <1>c DEF Finish, ExecPCs
    <2>2. u \in Tasks /\ authority[u] = "started"
      BY <1>8, <1>c DEF Finish
    <2>3. stored' = [stored EXCEPT ![u] = pendingSend[u]]
      BY <1>8 DEF Finish
    <2>4. stored \in [Tasks -> Kinds \cup {"none"}]
      BY DEF EvidenceInv, TypeInv, TypeOK
    <2>5. Evidence'
      BY <1>8, <2>2, <2>3, <2>4 DEF Finish, EvidenceInv, Evidence
    <2> QED
      BY <2>1, <2>5
  <1>9. CASE PublishResult(e)
    <2>1. Calling' /\ AtMostOneExecution'
      BY <1>9, <1>a DEF PublishResult
    <2>2. u \in Tasks /\ stored[u] # "none"
      BY <1>9, <1>c DEF PublishResult, EvidenceInv, TypeInv, Working
    <2>3. pendingSend \in [Tasks -> Kinds \cup {"none"}]
      BY DEF EvidenceInv, TypeInv, TypeOK
    <2>4. Evidence'
      BY <1>9, <2>2, <2>3 DEF PublishResult, EvidenceInv, Evidence
    <2> QED
      BY <2>1, <2>4
  <1>10. CASE Nak(e)
    <2>1. Calling' /\ AtMostOneExecution'
      BY <1>10, <1>a DEF Nak
    <2> QED
      BY <1>10, <2>1 DEF Nak, EvidenceInv, Evidence
  <1> QED
    BY <1>1, <1>2, <1>3, <1>4, <1>5, <1>6, <1>7, <1>8, <1>9, <1>10 DEF Worker

LEMMA NextEvidence == EvidenceInv /\ [Next]_vars => EvidenceInv'
  <1> SUFFICES ASSUME EvidenceInv, [Next]_vars
               PROVE  Evidence' /\ Calling' /\ AtMostOneExecution'
    BY NextType DEF EvidenceInv
  <1> USE DEF ledger, progress, bus, worker, history
  <1>1. CASE UNCHANGED core
    BY <1>1 DEF core, EvidenceInv, Evidence, Calling, AtMostOneExecution
  <1>2. ASSUME NEW r \in Runs, Reserve(r) PROVE Evidence' /\ Calling' /\ AtMostOneExecution'
    <2> DEFINE t == TaskOf[r]
    <2>1. t \in Tasks /\ authority[t] = "none"
      BY <1>2, RunAssumption DEF Reserve
    <2>2. /\ authority' = [authority EXCEPT ![t] = "reserved"]
          /\ outcome' = [outcome EXCEPT ![t] = "unknown"]
      BY <1>2 DEF Reserve
    <2>3. /\ authority \in [Tasks -> {"none", "reserved", "started"}]
          /\ outcome \in [Tasks -> {"null", "unknown", "sent", "failed"}]
      BY DEF EvidenceInv, TypeInv, TypeOK
    <2>4. Evidence'
      BY <1>2, <2>1, <2>2, <2>3 DEF Reserve, EvidenceInv, Evidence
    <2>5. \A e \in Execs : exec[e].pc = "calling" => exec[e].task \in Tasks
      BY DEF EvidenceInv, TypeInv, Working
    <2>6. Calling' /\ AtMostOneExecution'
      BY <1>2, <2>1, <2>2, <2>3, <2>5 DEF Reserve, EvidenceInv, Calling, AtMostOneExecution
    <2> QED
      BY <2>4, <2>6
  <1>3. ASSUME NEW e \in Execs, Worker(e) PROVE Evidence' /\ Calling' /\ AtMostOneExecution'
    BY <1>3, WorkerEvidence
  <1>4. CASE CrashWorker
    BY <1>4 DEF CrashWorker, IdleExec, EvidenceInv, Evidence, Calling, AtMostOneExecution
  <1>5. ASSUME NEW t \in Tasks, Recovery(t) PROVE Evidence' /\ Calling' /\ AtMostOneExecution'
    <2>1. CASE ReplayStored(t)
      <3>1. stored[t] \in Kinds /\ authority[t] = "started"
        BY <2>1 DEF ReplayStored, EvidenceInv, Evidence, TypeInv, TypeOK
      <3> QED
        BY <2>1, <3>1, ApplyEvidence DEF ReplayStored
    <2>2. CASE ReclaimStuck(t)
      <3>1. PICK k \in Kinds : Apply(t, k) /\ (k = "sent" => outcome[t] = "sent")
        BY <2>2 DEF ReclaimStuck, Kinds
      <3>2. k = "sent" => authority[t] = "started"
        BY <3>1 DEF EvidenceInv, Evidence
      <3> QED
        BY <3>1, <3>2, ApplyEvidence
    <2>3. CASE RecoverUnstarted(t)
      BY <2>3, CancelEvidence DEF RecoverUnstarted
    <2>4. CASE LiftStarted(t) \/ Isolate(t)
      <3>1. /\ authority[t] = "started"
            /\ \E v \in {"lifted", "isolated"} : quarantine' = [quarantine EXCEPT ![t] = v]
            /\ UNCHANGED <<authority, stored, outcome, results, exec, pendingSend, calls>>
        BY <2>4 DEF LiftStarted, Isolate
      <3>2. quarantine \in [Tasks -> {"no", "lifted", "isolated"}]
        BY DEF EvidenceInv, TypeInv, TypeOK
      <3> QED
        BY <3>1, <3>2 DEF EvidenceInv, Evidence, Calling, AtMostOneExecution
    <2> QED
      BY <1>5, <2>1, <2>2, <2>3, <2>4 DEF Recovery
  <1>6. ASSUME NEW x \in results, ConsumeResult(x[1], x[2])
        PROVE  Evidence' /\ Calling' /\ AtMostOneExecution'
    <2>1. x[1] \in Tasks /\ x[2] \in Kinds /\ <<x[1], x[2]>> \in results
      BY <1>6 DEF ConsumeResult, EvidenceInv, TypeInv, TypeOK
    <2>2. x[2] = "sent" => authority[x[1]] = "started"
      BY <2>1 DEF EvidenceInv, Evidence
    <2> QED
      BY <1>6, <2>1, <2>2, ApplyEvidence DEF ConsumeResult
  <1>7. ASSUME NEW x \in results, DropResult(x) PROVE Evidence' /\ Calling' /\ AtMostOneExecution'
    BY <1>7 DEF DropResult, EvidenceInv, Evidence, Calling, AtMostOneExecution
  <1>8. ASSUME NEW m \in Mailboxes, ReleaseRefusal(m) \/ ResolveConflict(m)
        PROVE  Evidence' /\ Calling' /\ AtMostOneExecution'
    BY <1>8 DEF ReleaseRefusal, ResolveConflict, EvidenceInv, Evidence, Calling,
                AtMostOneExecution
  <1> QED
    BY CoreSteps, <1>1, <1>2, <1>3, <1>4, <1>5, <1>6, <1>7, <1>8

\* At most one execution: whatever is redelivered, replayed, released or crashes
\* between two steps, the provider is asked at most once to send a task.
THEOREM OneExecution == Spec => []AtMostOneExecution
  <1>1. EvidenceInv => AtMostOneExecution
    BY DEF EvidenceInv
  <1> QED
    BY InitEvidence, NextEvidence, <1>1, PTL DEF Spec
-----------------------------------------------------------------------------
(* What a step does to a send                                              *)

\* An open send gets its outcome, or is suspected of having one.
Settles(t, v) ==
    /\ ~Settled(t)
    /\ outcome' = [outcome EXCEPT ![t] = v]
    /\ v = "sent" => authority[t] = "started"
    /\ UNCHANGED <<authority, quarantine, calls>>

\* A begun send stops holding its mailbox.
LetsGo(t) ==
    /\ authority[t] = "started"
    /\ \E v \in {"lifted", "isolated"} : quarantine' = [quarantine EXCEPT ![t] = v]
    /\ UNCHANGED <<authority, outcome, calls>>

\* An applied answer settles its send, or leaves all sends as they are.
LEMMA ApplySends ==
    ASSUME EvidenceInv, NEW t \in Tasks, NEW k, Apply(t, k),
           k = "sent" => authority[t] = "started"
    PROVE  \/ UNCHANGED <<authority, outcome, quarantine, calls>>
           \/ \E v \in {"unknown", "sent", "failed"} : Settles(t, v)
  <1> USE DEF ledger, progress, bus, worker, history
  <1>1. CASE RecordConflict(t, k)
    BY <1>1 DEF RecordConflict, Apply
  <1>2. CASE ApplyUnknown(t, k)
    <2>1. Settles(t, "unknown")
      BY <1>2 DEF ApplyUnknown, Apply, Settles
    <2> QED
      BY <2>1
  <1>3. CASE ApplySent(t, k) /\ ~Settled(t)
    <2>1. Settles(t, "sent")
      BY <1>3 DEF ApplySent, Apply, Settles
    <2> QED
      BY <2>1
  <1>4. CASE ApplySent(t, k) /\ Settled(t)
    <2>1. outcome[t] = "sent" /\ outcome' = [outcome EXCEPT ![t] = "sent"]
      BY <1>4 DEF ApplySent, Applicable
    <2>2. outcome' = outcome
      BY <2>1 DEF EvidenceInv, TypeInv, TypeOK
    <2> QED
      BY <1>4, <2>2 DEF ApplySent, Apply
  <1>5. CASE ApplyFailed(t, k)
    <2>1. Settles(t, "failed")
      BY <1>5 DEF ApplyFailed, Apply, Settles
    <2> QED
      BY <2>1
  <1> QED
    BY <1>1, <1>2, <1>3, <1>4, <1>5 DEF Apply

\* Giving a reservation back settles an open send as failed.
LEMMA CancelSends ==
    ASSUME EvidenceInv, NEW t \in Tasks, CancelOutbound(t), UNCHANGED calls
    PROVE  Settles(t, "failed")
  BY DEF CancelOutbound, Settles, Settled, EvidenceInv, Evidence

\* Every step reserves, begins or calls for one send, settles one, lets one
\* go, or leaves all of them as they are.
LEMMA SendSteps ==
    ASSUME EvidenceInv, [Next]_vars
    PROVE  \/ UNCHANGED <<authority, outcome, quarantine, calls>>
           \/ \E r \in Runs : Reserve(r)
           \/ \E e \in Execs : Begin(e) \/ CallProvider(e)
           \/ \E t \in Tasks, v \in {"unknown", "sent", "failed"} : Settles(t, v)
           \/ \E t \in Tasks : LetsGo(t)
  <1> USE DEF ledger, progress, bus, worker, history
  <1> DEFINE Goal == \/ UNCHANGED <<authority, outcome, quarantine, calls>>
                     \/ \E r \in Runs : Reserve(r)
                     \/ \E e \in Execs : Begin(e) \/ CallProvider(e)
                     \/ \E t \in Tasks, v \in {"unknown", "sent", "failed"} : Settles(t, v)
                     \/ \E t \in Tasks : LetsGo(t)
  <1>1. CASE UNCHANGED core
    BY <1>1 DEF core
  <1>2. ASSUME NEW e \in Execs, Worker(e) PROVE Goal
    <2>1. CASE CancelDenied(e)
      <3>1. exec[e].task \in Tasks
        BY <2>1 DEF CancelDenied, EvidenceInv, TypeInv, Working
      <3>2. Settles(exec[e].task, "failed")
        BY <2>1, <3>1, CancelSends DEF CancelDenied
      <3> QED
        BY <3>1, <3>2
    <2>2. CASE Begin(e) \/ CallProvider(e)
      BY <2>2
    <2>3. CASE ~CancelDenied(e) /\ ~Begin(e) /\ ~CallProvider(e)
      <3>1. UNCHANGED <<authority, outcome, quarantine, calls>>
        BY <1>2, <2>3 DEF Worker, Deliver, FailUnopened, DenyBegin, BeginTwice, Finish,
                          PublishResult, Nak
      <3> QED
        BY <3>1
    <2> QED
      BY <2>1, <2>2, <2>3
  <1>3. CASE CrashWorker
    BY <1>3 DEF CrashWorker
  <1>4. ASSUME NEW t \in Tasks, Recovery(t) PROVE Goal
    <2>1. CASE ReplayStored(t)
      <3>1. authority[t] = "started"
        BY <2>1 DEF ReplayStored, EvidenceInv, Evidence
      <3> QED
        BY <2>1, <3>1, ApplySends DEF ReplayStored
    <2>2. CASE ReclaimStuck(t)
      <3>1. PICK k : Apply(t, k) /\ (k = "sent" => outcome[t] = "sent")
        BY <2>2 DEF ReclaimStuck
      <3>2. k = "sent" => authority[t] = "started"
        BY <3>1 DEF EvidenceInv, Evidence
      <3> QED
        BY <3>1, <3>2, ApplySends
    <2>3. CASE RecoverUnstarted(t)
      <3>1. Settles(t, "failed")
        BY <2>3, CancelSends DEF RecoverUnstarted
      <3> QED
        BY <3>1
    <2>4. CASE LiftStarted(t)
      <3>1. LetsGo(t)
        BY <2>4 DEF LiftStarted, LetsGo
      <3> QED
        BY <3>1
    <2>5. CASE Isolate(t)
      <3>1. LetsGo(t)
        BY <2>5 DEF Isolate, LetsGo
      <3> QED
        BY <3>1
    <2> QED
      BY <1>4, <2>1, <2>2, <2>3, <2>4, <2>5 DEF Recovery
  <1>5. ASSUME NEW x \in results, ConsumeResult(x[1], x[2]) PROVE Goal
    <2>1. x[1] \in Tasks /\ x[2] \in Kinds /\ <<x[1], x[2]>> \in results
      BY <1>5 DEF ConsumeResult, EvidenceInv, TypeInv, TypeOK
    <2>2. x[2] = "sent" => authority[x[1]] = "started"
      BY <2>1 DEF EvidenceInv, Evidence
    <2> QED
      BY <1>5, <2>1, <2>2, ApplySends DEF ConsumeResult
  <1>6. ASSUME NEW x \in results, DropResult(x) PROVE Goal
    BY <1>6 DEF DropResult
  <1>7. ASSUME NEW m \in Mailboxes, ReleaseRefusal(m) \/ ResolveConflict(m) PROVE Goal
    BY <1>7 DEF ReleaseRefusal, ResolveConflict
  <1> QED
    BY CoreSteps, <1>1, <1>2, <1>3, <1>4, <1>5, <1>6, <1>7

\* A settled outcome is final: no late, duplicated or contradicting answer, no
\* recovery loop and no release overwrites it.
THEOREM OutcomeFinal == Spec => SettledStays
  <1>1. EvidenceInv /\ [Next]_vars
           => [\A t \in Tasks : Settled(t) => outcome'[t] = outcome[t]]_vars
    <2> SUFFICES ASSUME EvidenceInv, [Next]_vars, NEW t \in Tasks, Settled(t)
                 PROVE  outcome'[t] = outcome[t]
      OBVIOUS
    <2>0. outcome \in [Tasks -> {"null", "unknown", "sent", "failed"}]
      BY DEF EvidenceInv, TypeInv, TypeOK
    <2>1. ASSUME NEW r \in Runs, Reserve(r) PROVE outcome'[t] = outcome[t]
      BY <2>0, <2>1 DEF Reserve, SendAuthority
    <2>2. ASSUME NEW e \in Execs, Begin(e) \/ CallProvider(e)
          PROVE  outcome'[t] = outcome[t]
      BY <2>2 DEF Begin, CallProvider, ledger
    <2>3. ASSUME NEW u \in Tasks, NEW v \in {"unknown", "sent", "failed"}, Settles(u, v)
          PROVE  outcome'[t] = outcome[t]
      BY <2>0, <2>3 DEF Settles
    <2>4. ASSUME NEW u \in Tasks, LetsGo(u) PROVE outcome'[t] = outcome[t]
      BY <2>4 DEF LetsGo
    <2> QED
      BY SendSteps, <2>1, <2>2, <2>3, <2>4
  <1> QED
    BY InitEvidence, NextEvidence, <1>1, PTL DEF Spec, SettledStays

\* A settled or released send is never reserved or begun again, although its
\* command may still be on the bus, or inspected by the worker already.
THEOREM NeverBegunAfter == Spec => SettledNeverBegun
  <1>1. EvidenceInv /\ [Next]_vars
           => [\A t \in Tasks : Settled(t) => authority'[t] = authority[t]]_vars
    <2> SUFFICES ASSUME EvidenceInv, [Next]_vars, NEW t \in Tasks, Settled(t)
                 PROVE  authority'[t] = authority[t]
      OBVIOUS
    <2>0. authority \in [Tasks -> {"none", "reserved", "started"}]
      BY DEF EvidenceInv, TypeInv, TypeOK
    <2>1. ASSUME NEW r \in Runs, Reserve(r) PROVE authority'[t] = authority[t]
      BY <2>0, <2>1 DEF Reserve, SendAuthority
    <2>2. ASSUME NEW e \in Execs, Begin(e) PROVE authority'[t] = authority[t]
      BY <2>0, <2>2 DEF Begin, SendAuthority
    <2>3. ASSUME NEW e \in Execs, CallProvider(e) PROVE authority'[t] = authority[t]
      BY <2>3 DEF CallProvider, ledger
    <2>4. ASSUME NEW u \in Tasks, NEW v \in {"unknown", "sent", "failed"}, Settles(u, v)
          PROVE  authority'[t] = authority[t]
      BY <2>4 DEF Settles
    <2>5. ASSUME NEW u \in Tasks, LetsGo(u) PROVE authority'[t] = authority[t]
      BY <2>5 DEF LetsGo
    <2> QED
      BY SendSteps, <2>1, <2>2, <2>3, <2>4, <2>5
  <1> QED
    BY InitEvidence, NextEvidence, <1>1, PTL DEF Spec, SettledNeverBegun
-----------------------------------------------------------------------------
(* What holds a mailbox                                                    *)

\* A mailbox without a hold has no unknown send and no open contradiction.
Covered(h, m, oc, q, cf) ==
    h.reason = "none" =>
       /\ h = NoHold
       /\ \A t \in Tasks : MailboxOf[t] = m => /\ ~(oc[t] = "unknown" /\ q[t] = "no")
                                               /\ cf[t] # "open"

HoldsCover == \A m \in Mailboxes : Covered(hold[m], m, outcome, quarantine, conflict)

\* Nothing new would hold the mailbox of t, after a change to oc, q and cf.
Eased(t, oc, q, cf) ==
    /\ oc[t] = "unknown" /\ q[t] = "no" => Live(t)
    /\ cf[t] = "open" => conflict[t] = "open"

LEMMA NextHoldsCover ==
    ASSUME NEW m, NEW oc, NEW q, NEW cf, NEW h \in NextHolds(m, oc, q, cf)
    PROVE  Covered(h, m, oc, q, cf)
  BY DEF NextHolds, Covered, UnknownHold, NoHold

LEMMA RefreshedHoldsCover ==
    ASSUME HoldsCover, NEW t \in Tasks, NEW oc, NEW q, NEW cf,
           \A u \in Tasks : Eased(u, oc, q, cf),
           NEW h \in RefreshedHolds(t, oc, q, cf)
    PROVE  Covered(h, MailboxOf[t], oc, q, cf)
  <1>1. CASE hold[MailboxOf[t]] = UnknownHold(t)
    BY <1>1, NextHoldsCover DEF RefreshedHolds
  <1>2. CASE hold[MailboxOf[t]] # UnknownHold(t)
    BY <1>2, MailboxAssumption DEF RefreshedHolds, HoldsCover, Covered, Eased, Live
  <1> QED
    BY <1>1, <1>2

\* It is enough that the written hold covers its mailbox, and that the others
\* get nothing new to cover.
LEMMA SetHoldCover ==
    ASSUME TypeOK, HoldsCover, NEW m \in Mailboxes, NEW H, SetHold(m, H),
           \A h \in H : Covered(h, m, outcome', quarantine', conflict'),
           \A u \in Tasks : MailboxOf[u] # m => Eased(u, outcome', quarantine', conflict')
    PROVE  HoldsCover'
  <1>1. PICK h \in H : hold' = [hold EXCEPT ![m] = h]
    BY DEF SetHold
  <1>2. ASSUME NEW n \in Mailboxes
        PROVE  Covered(hold'[n], n, outcome', quarantine', conflict')
    <2>1. CASE n = m
      BY <1>1, <2>1 DEF TypeOK
    <2>2. CASE n # m
      <3>1. hold'[n] = hold[n]
        BY <1>1, <2>2 DEF TypeOK
      <3> QED
        BY <2>2, <3>1 DEF HoldsCover, Covered, Eased, Live
    <2> QED
      BY <2>1, <2>2
  <1> QED
    BY <1>2 DEF HoldsCover

\* A release that recomputes its own hold keeps every mailbox covered.
LEMMA RefreshCover ==
    ASSUME TypeOK, HoldsCover, NEW t \in Tasks,
           SetHold(MailboxOf[t], RefreshedHolds(t, outcome', quarantine', conflict')),
           \A u \in Tasks : Eased(u, outcome', quarantine', conflict')
    PROVE  HoldsCover'
  <1>1. \A h \in RefreshedHolds(t, outcome', quarantine', conflict') :
           Covered(h, MailboxOf[t], outcome', quarantine', conflict')
    BY RefreshedHoldsCover
  <1> QED
    BY <1>1, SetHoldCover, MailboxAssumption

LEMMA CancelCover ==
    ASSUME TypeInv, HoldsCover, NEW t \in Tasks, CancelOutbound(t)
    PROVE  HoldsCover'
  <1>1. SetHold(MailboxOf[t], RefreshedHolds(t, outcome', quarantine', conflict'))
    BY DEF CancelOutbound
  <1>2. \A u \in Tasks : Eased(u, outcome', quarantine', conflict')
    BY DEF CancelOutbound, Eased, Live, TypeInv, TypeOK
  <1> QED
    BY <1>1, <1>2, RefreshCover DEF TypeInv

\* An applied answer opens a hold for the unknown and for the contradicting
\* one, and a definite one gives way only to what else holds the mailbox.
LEMMA ApplyCover ==
    ASSUME TypeInv, HoldsCover, NEW t \in Tasks, NEW k, Apply(t, k)
    PROVE  HoldsCover'
  <1> DEFINE m == MailboxOf[t]
  <1>0. m \in Mailboxes /\ TypeOK
    BY MailboxAssumption DEF TypeInv
  <1>1. CASE RecordConflict(t, k)
    <2> DEFINE cf == [conflict EXCEPT ![t] = IF @ = "no" THEN "open" ELSE @]
               H == IF hold[m] \in {NoHold, UnknownHold(t)}
                    THEN NextHolds(m, outcome, quarantine, cf) ELSE {hold[m]}
    <2>1. conflict' = cf /\ SetHold(m, H) /\ UNCHANGED <<outcome, quarantine>>
      BY <1>1 DEF RecordConflict
    <2>2. \A u \in Tasks : MailboxOf[u] # m => Eased(u, outcome', quarantine', conflict')
      BY <1>0, <2>1 DEF Eased, Live, TypeOK
    <2>3. \A h \in H : Covered(h, m, outcome', quarantine', conflict')
      <3>1. CASE hold[m] \in {NoHold, UnknownHold(t)}
        BY <2>1, <3>1, NextHoldsCover
      <3>2. CASE hold[m] \notin {NoHold, UnknownHold(t)}
        <4>1. hold[m].reason # "none"
          BY <1>0, <3>2 DEF HoldsCover, Covered
        <4> QED
          BY <3>2, <4>1 DEF Covered
      <3> QED
        BY <3>1, <3>2
    <2> HIDE DEF H
    <2> QED
      BY <1>0, <2>1, <2>2, <2>3, SetHoldCover
  <1>2. CASE ApplyUnknown(t, k)
    <2> DEFINE H == IF hold[m].reason \in {"none", "unknown"} /\ quarantine[t] = "no"
                    THEN {UnknownHold(t)} ELSE {hold[m]}
    <2>1. /\ outcome' = [outcome EXCEPT ![t] = "unknown"]
          /\ SetHold(m, H) /\ UNCHANGED <<quarantine, conflict>>
      BY <1>2 DEF ApplyUnknown
    <2>2. \A u \in Tasks : u # t => Eased(u, outcome', quarantine', conflict')
      BY <1>0, <2>1 DEF Eased, Live, TypeOK
    <2>3. \A h \in H : Covered(h, m, outcome', quarantine', conflict')
      <3>1. CASE hold[m].reason \in {"none", "unknown"} /\ quarantine[t] = "no"
        BY <3>1 DEF Covered, UnknownHold
      <3>2. CASE quarantine[t] # "no"
        <4>1. Eased(t, outcome', quarantine', conflict')
          BY <2>1, <3>2 DEF Eased
        <4> QED
          BY <1>0, <2>2, <3>2, <4>1 DEF HoldsCover, Covered, Eased, Live
      <3>3. CASE hold[m].reason \notin {"none", "unknown"}
        BY <3>3 DEF Covered
      <3> QED
        BY <3>1, <3>2, <3>3
    <2> HIDE DEF H
    <2> QED
      BY <1>0, <2>1, <2>2, <2>3, SetHoldCover
  <1>3. CASE ApplySent(t, k)
    <2>1. SetHold(MailboxOf[t], RefreshedHolds(t, outcome', quarantine', conflict'))
      BY <1>3 DEF ApplySent
    <2>2. \A u \in Tasks : Eased(u, outcome', quarantine', conflict')
      BY <1>0, <1>3 DEF ApplySent, Eased, Live, TypeOK
    <2> QED
      BY <1>0, <2>1, <2>2, RefreshCover
  <1>4. CASE ApplyFailed(t, k)
    <2>1. \A u \in Tasks : Eased(u, outcome', quarantine', conflict')
      BY <1>0, <1>4 DEF ApplyFailed, Eased, Live, TypeOK
    <2>2. CASE k = "domain_auth"
      <3>1. SetHold(m, {[reason |-> "refused", task |-> t]})
        BY <1>4, <2>2 DEF ApplyFailed
      <3>2. Covered([reason |-> "refused", task |-> t], m, outcome', quarantine', conflict')
        BY DEF Covered
      <3> QED
        BY <1>0, <2>1, <3>1, <3>2, SetHoldCover
    <2>3. CASE k # "domain_auth"
      <3>1. SetHold(MailboxOf[t], RefreshedHolds(t, outcome', quarantine', conflict'))
        BY <1>4, <2>3 DEF ApplyFailed
      <3> QED
        BY <1>0, <2>1, <3>1, RefreshCover
    <2> QED
      BY <2>2, <2>3
  <1> QED
    BY <1>1, <1>2, <1>3, <1>4 DEF Apply

LEMMA NextCover == TypeInv /\ HoldsCover /\ [Next]_vars => HoldsCover'
  <1> SUFFICES ASSUME TypeInv, HoldsCover, [Next]_vars PROVE HoldsCover'
    OBVIOUS
  <1> USE DEF ledger, progress, bus, worker, history
  <1>0. TypeOK
    BY DEF TypeInv
  <1>a. ASSUME UNCHANGED <<outcome, quarantine, conflict, hold>> PROVE HoldsCover'
    BY <1>a DEF HoldsCover, Covered
  <1>1. CASE UNCHANGED core
    BY <1>1, <1>a DEF core
  <1>2. ASSUME NEW r \in Runs, Reserve(r) PROVE HoldsCover'
    <2> DEFINE t == TaskOf[r]
    <2>1. t \in Tasks /\ MailboxOf[t] \in Mailboxes
      BY RunAssumption, MailboxAssumption
    <2> DEFINE H == {UnknownHold(t)}
    <2>2. /\ SetHold(MailboxOf[t], H)
          /\ outcome' = [outcome EXCEPT ![t] = "unknown"]
          /\ UNCHANGED <<quarantine, conflict>>
      BY <1>2 DEF Reserve, SetHold
    <2>3. \A h \in H : Covered(h, MailboxOf[t], outcome', quarantine', conflict')
      BY DEF Covered, UnknownHold
    <2>4. \A u \in Tasks : MailboxOf[u] # MailboxOf[t]
             => Eased(u, outcome', quarantine', conflict')
      BY <1>0, <2>1, <2>2 DEF Eased, Live, TypeOK
    <2> HIDE DEF H
    <2> QED
      BY <1>0, <2>1, <2>2, <2>3, <2>4, SetHoldCover
  <1>3. ASSUME NEW e \in Execs, Worker(e) PROVE HoldsCover'
    <2>1. CASE CancelDenied(e)
      BY <2>1, CancelCover DEF CancelDenied, TypeInv, Working
    <2>2. CASE ~CancelDenied(e)
      BY <1>3, <2>2, <1>a DEF Worker, Deliver, FailUnopened, Begin, DenyBegin, BeginTwice,
                              CallProvider, Finish, PublishResult, Nak
    <2> QED
      BY <2>1, <2>2
  <1>4. CASE CrashWorker
    BY <1>4, <1>a DEF CrashWorker
  <1>5. ASSUME NEW t \in Tasks, Recovery(t) PROVE HoldsCover'
    <2>1. CASE ReplayStored(t) \/ ReclaimStuck(t)
      <3>1. PICK k : Apply(t, k)
        BY <2>1 DEF ReplayStored, ReclaimStuck
      <3> QED
        BY <3>1, ApplyCover
    <2>2. CASE RecoverUnstarted(t)
      BY <2>2, CancelCover DEF RecoverUnstarted
    <2>3. CASE LiftStarted(t) \/ Isolate(t)
      <3>1. /\ SetHold(MailboxOf[t], RefreshedHolds(t, outcome', quarantine', conflict'))
            /\ \E v \in {"lifted", "isolated"} : quarantine' = [quarantine EXCEPT ![t] = v]
            /\ UNCHANGED <<outcome, conflict>>
        BY <2>3 DEF LiftStarted, Isolate
      <3>2. \A u \in Tasks : Eased(u, outcome', quarantine', conflict')
        BY <1>0, <3>1 DEF Eased, Live, TypeOK
      <3> QED
        BY <1>0, <3>1, <3>2, RefreshCover
    <2> QED
      BY <1>5, <2>1, <2>2, <2>3 DEF Recovery
  <1>6. ASSUME NEW x \in results, ConsumeResult(x[1], x[2]) PROVE HoldsCover'
    <2>1. x[1] \in Tasks
      BY <1>0, <1>6 DEF TypeOK
    <2> QED
      BY <1>6, <2>1, ApplyCover DEF ConsumeResult
  <1>7. ASSUME NEW x \in results, DropResult(x) PROVE HoldsCover'
    BY <1>7, <1>a DEF DropResult
  <1>8. ASSUME NEW m \in Mailboxes, ReleaseRefusal(m) \/ ResolveConflict(m)
        PROVE  HoldsCover'
    <2>1. /\ SetHold(m, NextHolds(m, outcome', quarantine', conflict'))
          /\ UNCHANGED <<outcome, quarantine>>
      BY <1>8 DEF ReleaseRefusal, ResolveConflict
    <2>2. \A u \in Tasks : Eased(u, outcome', quarantine', conflict')
      BY <1>0, <1>8 DEF ReleaseRefusal, ResolveConflict, Eased, Live, TypeOK
    <2>3. \A h \in NextHolds(m, outcome', quarantine', conflict') :
             Covered(h, m, outcome', quarantine', conflict')
      BY NextHoldsCover
    <2> QED
      BY <1>0, <2>1, <2>2, <2>3, SetHoldCover
  <1> QED
    BY CoreSteps, <1>1, <1>2, <1>3, <1>4, <1>5, <1>6, <1>7, <1>8

LEMMA InitCover == Init => HoldsCover
  BY DEF Init, Untouched, HoldsCover, Covered, NoHold

\* What covers its mailboxes holds every mailbox with an unknown send, and
\* every mailbox with an open contradiction.
LEMMA CoverHolds == HoldsCover => UnknownHeld /\ ConflictHeld
  BY MailboxAssumption DEF HoldsCover, Covered, UnknownHeld, ConflictHeld, Live

\* No interleaving of results, recoveries and releases leaves a mailbox with an
\* unknown send open to admission.
THEOREM UnknownAlwaysHeld == Spec => []UnknownHeld
  BY InitType, NextType, InitCover, NextCover, CoverHolds, PTL DEF Spec

\* A contradiction on record keeps its mailbox held until it is resolved.
THEOREM ConflictAlwaysHeld == Spec => []ConflictHeld
  BY InitType, NextType, InitCover, NextCover, CoverHolds, PTL DEF Spec

-----------------------------------------------------------------------------
(* One outstanding send for each mailbox                                   *)

IInv == EvidenceInv /\ HoldsCover /\ OneOutstanding

\* Reservations follow one another: a mailbox is reserved for a second send
\* only when no other reserved send of it is unknown.
LEMMA NextOutstanding == IInv /\ [Next]_vars => OneOutstanding'
  <1> SUFFICES ASSUME IInv, [Next]_vars,
                      NEW t \in Tasks, NEW u \in Tasks,
                      t # u, MailboxOf[t] = MailboxOf[u],
                      authority'[t] # "none", authority'[u] # "none"
               PROVE  ~(Live(t)' /\ Live(u)')
    BY DEF OneOutstanding
  <1>0. TypeOK /\ EvidenceInv
    BY DEF IInv, EvidenceInv, TypeInv
  <1> DEFINE Busy(x) == authority[x] # "none" /\ Live(x)
             Free(x) == authority'[x] # "none" /\ Live(x)' => Busy(x)
  <1>a. ASSUME \A x \in Tasks : Free(x) PROVE ~(Live(t)' /\ Live(u)')
    BY <1>a DEF IInv, OneOutstanding
  <1>1. CASE UNCHANGED <<authority, outcome, quarantine, calls>>
    BY <1>1, <1>a DEF Live
  <1>2. ASSUME NEW r \in Runs, Reserve(r) PROVE ~(Live(t)' /\ Live(u)')
    <2> DEFINE v == TaskOf[r]
    <2>1. v \in Tasks /\ hold[MailboxOf[v]].reason = "none"
      BY <1>2, RunAssumption DEF Reserve, SendAuthority, UnknownHold
    <2>2. \A x \in Tasks : MailboxOf[x] = MailboxOf[v] => ~Live(x)
      BY <2>1, CoverHolds DEF IInv, UnknownHeld
    <2>3. \A x \in Tasks \ {v} : Live(x)' => Live(x)
      BY <1>0, <1>2, <2>1 DEF Reserve, Live, TypeOK
    <2>4. \A x \in Tasks \ {v} : authority'[x] = authority[x]
      BY <1>0, <1>2, <2>1 DEF Reserve, TypeOK
    <2>5. CASE v \in {t, u}
      BY <2>2, <2>3, <2>5
    <2>6. CASE v \notin {t, u}
      BY <2>3, <2>4, <2>6 DEF IInv, OneOutstanding
    <2> QED
      BY <2>5, <2>6
  <1>3. ASSUME NEW e \in Execs, Begin(e) PROVE ~(Live(t)' /\ Live(u)')
    <2>1. \A x \in Tasks : Free(x)
      BY <1>0, <1>3 DEF Begin, Live, TypeOK
    <2> QED
      BY <2>1, <1>a
  <1>4. ASSUME NEW e \in Execs, CallProvider(e) PROVE ~(Live(t)' /\ Live(u)')
    BY <1>4, <1>a DEF CallProvider, Live, ledger
  <1>5. ASSUME NEW x \in Tasks, NEW v \in {"unknown", "sent", "failed"}, Settles(x, v)
        PROVE  ~(Live(t)' /\ Live(u)')
    <2>1. \A y \in Tasks : Free(y)
      BY <1>0, <1>5 DEF Settles, Settled, Live, EvidenceInv, Evidence, TypeOK
    <2> QED
      BY <2>1, <1>a
  <1>6. ASSUME NEW x \in Tasks, LetsGo(x) PROVE ~(Live(t)' /\ Live(u)')
    <2>1. \A y \in Tasks : Free(y)
      BY <1>0, <1>6 DEF LetsGo, Live, TypeOK
    <2> QED
      BY <2>1, <1>a
  <1> QED
    BY <1>0, SendSteps, <1>1, <1>2, <1>3, <1>4, <1>5, <1>6

LEMMA InitIInv == Init => IInv
  BY InitEvidence, InitCover DEF Init, Untouched, IInv, OneOutstanding

LEMMA NextIInv == IInv /\ [Next]_vars => IInv'
  BY NextEvidence, NextCover, NextOutstanding DEF IInv, EvidenceInv

\* Two reserved sends of one mailbox are never unknown together.
THEOREM OneAtATime == Spec => []OneOutstanding
  <1>1. IInv => OneOutstanding
    BY DEF IInv
  <1> QED
    BY InitIInv, NextIInv, <1>1, PTL DEF Spec
=============================================================================
