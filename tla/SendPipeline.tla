---------------------------- MODULE SendPipeline ----------------------------
(***************************************************************************)
(* The life of one outbound email, from the moment a due task is picked up *)
(* to the moment its outcome is settled.  Four kinds of actor share the    *)
(* rows of Postgres and two message streams:                               *)
(*                                                                         *)
(*  - task handlers (internal/tasks) admit, claim, reserve and publish;    *)
(*  - the worker (internal/app/worker) begins, calls the mail provider,    *)
(*    stores the answer and reports it;                                    *)
(*  - the result consumer (internal/app/consumer) applies reported answers;*)
(*  - recovery loops apply stored answers, release what never started and  *)
(*    isolate or lift what started and was never answered.                 *)
(*                                                                         *)
(* An action is one database transaction, or one message, of the code.     *)
(* Crashes fall between actions.  Messages are delivered at least once, in *)
(* any order, until they are dropped.  Time is left out: whatever waits    *)
(* for a timeout may happen as soon as its other conditions hold.          *)
(***************************************************************************)
EXTENDS Naturals, FiniteSets

CONSTANTS
    Tasks,      \* rows of the tasks table
    Mailboxes,  \* rows of email_accounts
    Steps,      \* (lead, sequence step) pairs: rows of campaign_contact_progress
    Runs,       \* handler executions; several may hold the same task
    Execs,      \* concurrent SEND_EMAIL deliveries inside the worker
    Lane,       \* task_type of each task
    MailboxOf,  \* email_account_id of each task
    StepOf,     \* the step a campaign task sends; None for the other lanes
    TaskOf,     \* the task each handler execution was fired for
    None

Lanes == {"campaign", "email", "placement"}

ASSUME LaneAssumption == Lane \in [Tasks -> Lanes]
ASSUME MailboxAssumption == MailboxOf \in [Tasks -> Mailboxes]
ASSUME StepAssumption ==
    /\ StepOf \in [Tasks -> Steps \cup {None}]
    /\ \A t \in Tasks : Lane[t] = "campaign" => StepOf[t] \in Steps
ASSUME RunAssumption == TaskOf \in [Runs -> Tasks]
ASSUME NoneAssumption == None \notin Tasks

VARIABLES
    status,      \* tasks.status
    authority,   \* send_executor_nonce and send_executor_started_at
    stored,      \* send_executor_result: the answer FinishOutbound recorded
    outcome,     \* send_result_state
    quarantine,  \* campaign_send_isolated_at, send_hold_lifted_at
    conflict,    \* send_recovery_resolutions: contradicting answers
    hold,        \* email_accounts.send_recovery_{hold,reason,task_id}
    slot,        \* campaign_contact_progress.{dispatched_at,dispatch_task_id,sent_at}
    parked,      \* campaign_leads.send_outcome_pending_at
    cmds,        \* SEND_EMAIL commands the bus may still deliver
    results,     \* EMAIL_SENT / EMAIL_FAILED events the bus may still deliver
    run,         \* where each handler execution stands
    exec,        \* where each worker delivery stands
    pendingSend, \* WorkerService.pendingSendResults: answers in worker memory
    calls,       \* history: how often the provider was asked to send the task
    delivered,   \* history: tasks whose email reached the recipient
    unopened,    \* history: tasks reported failed before they were begun
    withdrawn    \* history: tasks whose owner was told the send is cancelled

ledger   == <<status, authority, stored, outcome, quarantine, conflict, hold>>
progress == <<slot, parked>>
bus      == <<cmds, results>>
worker   == <<exec, pendingSend>>
history  == <<calls, delivered, unopened, withdrawn>>
vars     == <<ledger, progress, bus, run, worker, history>>

-----------------------------------------------------------------------------
(* Vocabulary *)

Statuses == {"pending", "active", "completed", "failed", "dead_lettered",
             "cancelled", "skipped"}
RunPCs == {"idle", "picked", "active", "admitted", "ready", "refused",
           "reserved", "published", "stamped", "unsure", "buried"}
ExecPCs == {"idle", "inspected", "denying", "calling", "reporting", "publishing"}

\* What an answer can say: the mail left; a definite failure; a definite
\* failure that also holds the mailbox because of its domain's DNS; nobody knows.
Kinds == {"sent", "failed", "domain_auth", "unknown"}

\* resultState: the send_result_state an answer stands for.
ResultState(k) == IF k = "domain_auth" THEN "failed" ELSE k

NoHold   == [reason |-> "none", task |-> None]
FreeSlot == [dispatched |-> FALSE, task |-> None, sent |-> FALSE]
IdleExec == [pc |-> "idle", task |-> None]

Holds == [reason : {"none", "unknown", "conflict", "refused"}, task : Tasks \cup {None}]
Slots == [dispatched : BOOLEAN, task : Tasks \cup {None}, sent : BOOLEAN]

UnknownHold(t) == [reason |-> "unknown", task |-> t]

IsCampaign(t) == Lane[t] = "campaign"

\* send_result_applied_at IS NOT NULL
Settled(t) == outcome[t] \in {"sent", "failed"}

\* liveUnknownSend: an unknown send that still holds its mailbox.
Live(t) == outcome[t] = "unknown" /\ quarantine[t] = "no"

\* No handler execution is working on t.  The recovery loops act on sends ten
\* or thirty minutes old; a handler gives up after two.
Quiet(t) == \A r \in Runs : TaskOf[r] = t => run[r] = "idle"

TypeOK ==
    /\ status \in [Tasks -> Statuses]
    /\ authority \in [Tasks -> {"none", "reserved", "started"}]
    /\ stored \in [Tasks -> Kinds \cup {"none"}]
    /\ outcome \in [Tasks -> {"null", "unknown", "sent", "failed"}]
    /\ quarantine \in [Tasks -> {"no", "lifted", "isolated"}]
    /\ conflict \in [Tasks -> {"no", "open", "resolved"}]
    /\ hold \in [Mailboxes -> Holds]
    /\ slot \in [Steps -> Slots]
    /\ parked \in [Steps -> BOOLEAN]
    /\ cmds \subseteq Tasks
    /\ results \subseteq Tasks \X Kinds
    /\ run \in [Runs -> RunPCs]
    /\ exec \in [Execs -> [pc : ExecPCs, task : Tasks \cup {None}]]
    /\ pendingSend \in [Tasks -> Kinds \cup {"none"}]
    /\ calls \in [Tasks -> Nat]
    /\ delivered \subseteq Tasks
    /\ unopened \subseteq Tasks
    /\ withdrawn \subseteq Tasks

\* Nothing was reserved, sent or answered yet, and nothing is under way.
Untouched ==
    /\ authority = [t \in Tasks |-> "none"]
    /\ stored = [t \in Tasks |-> "none"]
    /\ outcome = [t \in Tasks |-> "null"]
    /\ quarantine = [t \in Tasks |-> "no"]
    /\ conflict = [t \in Tasks |-> "no"]
    /\ hold = [m \in Mailboxes |-> NoHold]
    /\ slot = [s \in Steps |-> FreeSlot]
    /\ parked = [s \in Steps |-> FALSE]
    /\ cmds = {} /\ results = {}
    /\ run = [r \in Runs |-> "idle"]
    /\ exec = [e \in Execs |-> IdleExec]
    /\ pendingSend = [t \in Tasks |-> "none"]
    /\ calls = [t \in Tasks |-> 0]
    /\ delivered = {} /\ unopened = {} /\ withdrawn = {}

Init == status = [t \in Tasks |-> "pending"] /\ Untouched

-----------------------------------------------------------------------------
(* Mailbox holds *)

\* The holds a recomputed mailbox may carry: an unknown send first, then an
\* open conflict, then none.  Which of several equals wins is left open.
NextHolds(m, oc, q, cf) ==
    LET unknown  == {t \in Tasks : MailboxOf[t] = m /\ oc[t] = "unknown" /\ q[t] = "no"}
        conflicts == {t \in Tasks : MailboxOf[t] = m /\ cf[t] = "open"}
    IN  IF unknown # {} THEN {UnknownHold(t) : t \in unknown}
        ELSE IF conflicts # {} THEN {[reason |-> "conflict", task |-> t] : t \in conflicts}
        ELSE {NoHold}

\* refreshUnknownSendHold(t): only the hold that names t is recomputed.
RefreshedHolds(t, oc, q, cf) ==
    IF hold[MailboxOf[t]] = UnknownHold(t)
    THEN NextHolds(MailboxOf[t], oc, q, cf)
    ELSE {hold[MailboxOf[t]]}

SetHold(m, holds) == \E h \in holds : hold' = [hold EXCEPT ![m] = h]

-----------------------------------------------------------------------------
(* Campaign steps *)

\* ReleaseSend with the result's task in its context: a stamped step stays.
ReleasedSlot(s, t) ==
    IF slot[s].dispatched /\ ~slot[s].sent /\ slot[s].task \in {t, None}
    THEN FreeSlot ELSE slot[s]

\* WalkBackSend, likewise, but a stamped step is given back too.
WalkedSlot(s, t) ==
    IF (slot[s].dispatched \/ slot[s].sent) /\ slot[s].task \in {t, None}
    THEN FreeSlot ELSE slot[s]

\* failCampaignSend: a refusal of the sending domain takes the release path.
SlotAfterFailure(s, t, k) ==
    IF k = "domain_auth" THEN ReleasedSlot(s, t) ELSE WalkedSlot(s, t)

\* StampDispatchedSend: completes a reserved step, never moves a stamp.
StampedSlot(s, t) ==
    IF slot[s].dispatched /\ ~slot[s].sent /\ slot[s].task \in {t, None}
    THEN [slot[s] EXCEPT !.sent = TRUE] ELSE slot[s]

SetSlot(t, sl) ==
    slot' = IF IsCampaign(t) THEN [slot EXCEPT ![StepOf[t]] = sl] ELSE slot

-----------------------------------------------------------------------------
(* Task handlers: HandleCampaignTask, HandleUserEmailTask,                 *)
(* HandlePlacementTask.  A campaign pass is made active before admission   *)
(* is checked, the other lanes after.                                      *)

Goto(r, pc) == run' = [run EXCEPT ![r] = pc]
SetStatus(t, st) == status' = [status EXCEPT ![t] = st]

BeforeAdmission(r) ==
    run[r] = IF IsCampaign(TaskOf[r]) THEN "active" ELSE "picked"

\* The task is read once; its status is not looked at again.
Pick(r) ==
    /\ run[r] = "idle" /\ status[TaskOf[r]] = "pending"
    /\ Goto(r, "picked")
    /\ UNCHANGED <<ledger, progress, bus, worker, history>>

\* UpdateTaskStatusWithLock(active) writes whatever status it finds over.
Activate(r) ==
    /\ run[r] = IF IsCampaign(TaskOf[r]) THEN "picked" ELSE "admitted"
    /\ SetStatus(TaskOf[r], "active")
    /\ Goto(r, IF IsCampaign(TaskOf[r]) THEN "active" ELSE "ready")
    /\ UNCHANGED <<authority, stored, outcome, quarantine, conflict, hold>>
    /\ UNCHANGED <<progress, bus, worker, history>>

\* sendAdmission: the mailbox is not held (GetSendAdmission).
Admit(r) ==
    /\ BeforeAdmission(r)
    /\ hold[MailboxOf[TaskOf[r]]] = NoHold
    /\ Goto(r, "admitted")
    /\ UNCHANGED <<ledger, progress, bus, worker, history>>

\* What an admission denial leaves the task in: a campaign pass goes back to
\* pending (retryCampaignTickLater), or to failed when that write is lost
\* (keepChainAfterFailure); an email is refused or, when the check or
\* the refusal could not be written, left for another try, a probe stays.
AfterDenial(t) ==
    IF IsCampaign(t) THEN {"pending", "failed"}
    ELSE IF Lane[t] = "email" THEN {"failed", "pending", status[t]}
    ELSE {status[t]}

\* Admission denied, for the hold or for any other reason; a campaign pass
\* whose ReserveSend fails takes the same way out.
TurnAway(r) ==
    /\ \/ BeforeAdmission(r)
       \/ IsCampaign(TaskOf[r]) /\ run[r] = "admitted"
    /\ \E st \in AfterDenial(TaskOf[r]) : SetStatus(TaskOf[r], st)
    /\ Goto(r, "idle")
    /\ UNCHANGED <<authority, stored, outcome, quarantine, conflict, hold>>
    /\ UNCHANGED <<progress, bus, worker, history>>

\* The checks before admission end the task unsent: mailbox inactive, plan
\* lapsed, lead paused, nothing due.
EndUnsent(r) ==
    /\ BeforeAdmission(r)
    /\ \E st \in IF IsCampaign(TaskOf[r]) THEN {"skipped", "cancelled", "completed"}
                 ELSE {"cancelled"} :
          SetStatus(TaskOf[r], st)
    /\ Goto(r, "idle")
    /\ UNCHANGED <<authority, stored, outcome, quarantine, conflict, hold>>
    /\ UNCHANGED <<progress, bus, worker, history>>

\* ReserveSend: the step is claimed, unless it is in flight, sent or parked.
ClaimStep(r) ==
    LET t == TaskOf[r]
        s == StepOf[t]
    IN  /\ IsCampaign(t) /\ run[r] = "admitted"
        /\ IF slot[s].dispatched \/ slot[s].sent \/ parked[s]
           THEN /\ SetStatus(t, "skipped")
                /\ Goto(r, "idle")
                /\ UNCHANGED slot
           ELSE /\ slot' = [slot EXCEPT ![s] =
                              [dispatched |-> TRUE, task |-> t, sent |-> FALSE]]
                /\ Goto(r, "ready")
                /\ UNCHANGED status
        /\ UNCHANGED <<authority, stored, outcome, quarantine, conflict, hold>>
        /\ UNCHANGED <<parked, bus, worker, history>>

\* Mutant: only a refusal or a conflict keeps the mailbox closed.
BugSendAuthority(t, own) ==
    /\ hold[MailboxOf[t]].reason \in {"none", "unknown"}
    /\ ~Settled(t)
    /\ status[t] = IF own THEN "completed" ELSE "active"
    /\ quarantine[t] # "isolated"

\* sendAuthority: own is TRUE when the caller already holds the reservation.
SendAuthority(t, own) ==
    /\ \/ hold[MailboxOf[t]].reason = "none"
       \/ own /\ hold[MailboxOf[t]] = UnknownHold(t)
    /\ ~Settled(t)
    /\ status[t] = IF own THEN "completed" ELSE "active"
    /\ quarantine[t] # "isolated"

\* checkCampaignReservation, as far as it reads this state.
ReservationStands(t) ==
    IsCampaign(t) => slot[StepOf[t]].task = t /\ ~parked[StepOf[t]]

\* Mutant: the mailbox is held only when the send turns out to be unknown.
BugReserve(r) ==
    LET t == TaskOf[r]
    IN  /\ run[r] = "ready"
        /\ authority[t] = "none"
        /\ SendAuthority(t, FALSE)
        /\ ReservationStands(t)
        /\ authority' = [authority EXCEPT ![t] = "reserved"]
        /\ outcome' = [outcome EXCEPT ![t] = "unknown"]
        /\ SetStatus(t, "completed")
        /\ Goto(r, "reserved")
        /\ UNCHANGED <<stored, quarantine, conflict, hold, progress, bus, worker, history>>

\* ReserveOutbound: one transaction grants the nonce, marks the send unknown
\* and completed, and holds the mailbox in its name.
Reserve(r) ==
    LET t == TaskOf[r]
    IN  /\ run[r] = "ready"
        /\ authority[t] = "none"
        /\ SendAuthority(t, FALSE)
        /\ ReservationStands(t)
        /\ authority' = [authority EXCEPT ![t] = "reserved"]
        /\ outcome' = [outcome EXCEPT ![t] = "unknown"]
        /\ SetStatus(t, "completed")
        /\ hold' = [hold EXCEPT ![MailboxOf[t]] = UnknownHold(t)]
        /\ Goto(r, "reserved")
        /\ UNCHANGED <<stored, quarantine, conflict, progress, bus, worker, history>>

\* ReserveOutbound refused, for any reason.  A campaign pass gives its step
\* back (ReleaseSend, or RecordSendFailure) outside any result context, so
\* without looking at whose claim it is; that write may fail.
RefuseReserve(r) ==
    LET t == TaskOf[r]
    IN  /\ run[r] = "ready"
        /\ \/ /\ IsCampaign(t)
              /\ \/ slot' = [slot EXCEPT ![StepOf[t]] = FreeSlot]
                 \/ UNCHANGED slot
              /\ Goto(r, "refused")
              /\ UNCHANGED status
           \/ /\ ~IsCampaign(t)
              /\ \E st \in IF Lane[t] = "email" THEN {"failed", "pending"} ELSE {"cancelled"} :
                    SetStatus(t, st)
              /\ Goto(r, "idle")
              /\ UNCHANGED slot
        /\ UNCHANGED <<authority, stored, outcome, quarantine, conflict, hold>>
        /\ UNCHANGED <<parked, bus, worker, history>>

\* RecordTaskFailure after a refused campaign reservation.
RecordRefusal(r) ==
    /\ run[r] = "refused"
    /\ SetStatus(TaskOf[r], "failed")
    /\ Goto(r, "idle")
    /\ UNCHANGED <<authority, stored, outcome, quarantine, conflict, hold>>
    /\ UNCHANGED <<progress, bus, worker, history>>

\* PublishSendEmail; on an error nobody knows whether the bus took the command.
Publish(r) ==
    /\ run[r] = "reserved"
    /\ \/ cmds' = cmds \cup {TaskOf[r]} /\ Goto(r, "published")
       \/ cmds' = cmds \cup {TaskOf[r]} /\ Goto(r, "unsure")
       \/ cmds' = cmds /\ Goto(r, "unsure")
    /\ UNCHANGED <<ledger, progress, results, worker, history>>

\* ErrSendDispatchUnknown: the claim stands, the task is recorded as failed,
\* a placement probe as completed.
RecordUnsure(r) ==
    /\ run[r] = "unsure"
    /\ SetStatus(TaskOf[r], IF Lane[TaskOf[r]] = "placement" THEN "completed" ELSE "failed")
    /\ Goto(r, IF Lane[TaskOf[r]] = "email" THEN "buried" ELSE "idle")
    /\ UNCHANGED <<authority, stored, outcome, quarantine, conflict, hold>>
    /\ UNCHANGED <<progress, bus, worker, history>>

\* CaptureTaskDeadLetter, then the dead_lettered status.
Bury(r) ==
    /\ run[r] = "buried"
    /\ SetStatus(TaskOf[r], "dead_lettered")
    /\ Goto(r, "idle")
    /\ UNCHANGED <<authority, stored, outcome, quarantine, conflict, hold>>
    /\ UNCHANGED <<progress, bus, worker, history>>

\* stampSendRecorded: RecordEmailSent upserts without a guard; every retry of
\* it may also fail.
Stamp(r) ==
    LET s == StepOf[TaskOf[r]]
    IN  /\ run[r] = "published" /\ IsCampaign(TaskOf[r])
        /\ \/ slot' = [slot EXCEPT ![s] = [dispatched |-> TRUE, task |-> @.task, sent |-> TRUE]]
           \/ UNCHANGED slot
        /\ Goto(r, "stamped")
        /\ UNCHANGED <<ledger, parked, bus, worker, history>>

\* UpdateTaskStatusWithLock(completed), again over whatever it finds.
Complete(r) ==
    /\ run[r] = IF IsCampaign(TaskOf[r]) THEN "stamped" ELSE "published"
    /\ SetStatus(TaskOf[r], "completed")
    /\ Goto(r, "idle")
    /\ UNCHANGED <<authority, stored, outcome, quarantine, conflict, hold>>
    /\ UNCHANGED <<progress, bus, worker, history>>

\* A campaign pass that errors while its task is active closes it
\* (keepChainAfterFailure); a process that dies closes nothing.
Crash(r) ==
    /\ run[r] # "idle"
    /\ \/ UNCHANGED status
       \/ /\ IsCampaign(TaskOf[r]) /\ status[TaskOf[r]] = "active" /\ run[r] # "picked"
          /\ SetStatus(TaskOf[r], IF run[r] \in {"published", "stamped"}
                                  THEN "completed" ELSE "failed")
    /\ Goto(r, "idle")
    /\ UNCHANGED <<authority, stored, outcome, quarantine, conflict, hold>>
    /\ UNCHANGED <<progress, bus, worker, history>>

\* CancelScheduledInOrg: the owner cancels a queued email and is told it worked.
OwnerCancel(t) ==
    /\ Lane[t] = "email" /\ status[t] = "pending"
    /\ SetStatus(t, "cancelled")
    /\ withdrawn' = withdrawn \cup {t}
    /\ UNCHANGED <<authority, stored, outcome, quarantine, conflict, hold>>
    /\ UNCHANGED <<progress, bus, run, worker, calls, delivered, unopened>>

Handler(r) ==
    \/ Pick(r) \/ Activate(r) \/ Admit(r) \/ TurnAway(r) \/ EndUnsent(r)
    \/ ClaimStep(r) \/ Reserve(r) \/ RefuseReserve(r) \/ RecordRefusal(r)
    \/ Publish(r) \/ RecordUnsure(r) \/ Bury(r) \/ Stamp(r) \/ Complete(r)
    \/ Crash(r)

-----------------------------------------------------------------------------
(* Giving a reservation back before the worker began it: cancelOutbound.   *)

\* Mutant: a send the worker has started is given back too.
BugCancelOutbound(t) ==
    LET oc == [outcome EXCEPT ![t] = "failed"]
    IN  /\ authority[t] # "none" /\ outcome[t] # "failed"
        /\ outcome' = oc
        /\ SetStatus(t, "cancelled")
        /\ SetSlot(t, ReleasedSlot(StepOf[t], t))
        /\ SetHold(MailboxOf[t], RefreshedHolds(t, oc, quarantine, conflict))
        /\ UNCHANGED <<authority, stored, quarantine, conflict, parked>>

CancelOutbound(t) ==
    LET oc == [outcome EXCEPT ![t] = "failed"]
    IN  /\ authority[t] = "reserved" /\ outcome[t] # "failed"
        /\ outcome' = oc
        /\ SetStatus(t, "cancelled")
        /\ SetSlot(t, ReleasedSlot(StepOf[t], t))
        /\ SetHold(MailboxOf[t], RefreshedHolds(t, oc, quarantine, conflict))
        /\ UNCHANGED <<authority, stored, quarantine, conflict, parked>>

-----------------------------------------------------------------------------
(* The worker: HandleSendEmail *)

SetExec(e, pc, t) == exec' = [exec EXCEPT ![e] = [pc |-> pc, task |-> t]]
FreeExec(e) == exec' = [exec EXCEPT ![e] = IdleExec]

\* InspectOutbound's "denied".
Denied(t) == status[t] = "cancelled" \/ quarantine[t] = "isolated" \/ outcome[t] = "failed"

\* Mutant: the stored answer is published without looking whether there is one.
BugDeliver(e, t) ==
    /\ exec[e] = IdleExec /\ t \in cmds
    /\ pendingSend[t] = "none" /\ ~Denied(t)
    /\ \/ /\ authority[t] = "started"
          /\ results' = results \cup {<<t, stored[t]>>}
          /\ UNCHANGED exec
       \/ /\ authority[t] = "reserved"
          /\ SetExec(e, "inspected", t)
          /\ UNCHANGED results
    /\ UNCHANGED <<ledger, progress, cmds, run, pendingSend, history>>

\* A command arrives.  An answer still in memory is reported again; a stored
\* one is published again; an authorized one is opened.  Denied and started
\* commands are acknowledged with no effect.
Deliver(e, t) ==
    /\ exec[e] = IdleExec /\ t \in cmds
    /\ \/ /\ pendingSend[t] # "none"
          /\ SetExec(e, "reporting", t)
          /\ UNCHANGED results
       \/ /\ pendingSend[t] = "none" /\ ~Denied(t) /\ stored[t] # "none"
          /\ results' = results \cup {<<t, stored[t]>>}
          /\ UNCHANGED exec
       \/ /\ pendingSend[t] = "none" /\ ~Denied(t)
          /\ stored[t] = "none" /\ authority[t] = "reserved"
          /\ SetExec(e, "inspected", t)
          /\ UNCHANGED results
    /\ UNCHANGED <<ledger, progress, cmds, run, pendingSend, history>>

\* failSend, failUnopenedSend: the mailbox is not loaded, the body cannot be
\* fetched or opened.  A definite failure is reported; the reservation stands.
FailUnopened(e) ==
    LET t == exec[e].task
    IN  /\ exec[e].pc = "inspected"
        /\ results' = results \cup {<<t, "failed">>}
        /\ unopened' = unopened \cup {t}
        /\ FreeExec(e)
        /\ UNCHANGED <<ledger, progress, cmds, run, pendingSend, calls, delivered, withdrawn>>

\* Mutant: the verdict of the earlier inspection is trusted.
BugBegin(e) ==
    LET t == exec[e].task
    IN  /\ exec[e].pc = "inspected" /\ authority[t] = "reserved"
        /\ authority' = [authority EXCEPT ![t] = "started"]
        /\ SetExec(e, "calling", t)
        /\ UNCHANGED <<status, stored, outcome, quarantine, conflict, hold>>
        /\ UNCHANGED <<progress, bus, run, pendingSend, history>>

\* BeginOutbound: the reservation is re-checked and started in one transaction.
Begin(e) ==
    LET t == exec[e].task
    IN  /\ exec[e].pc = "inspected"
        /\ authority[t] = "reserved" /\ outcome[t] # "failed"
        /\ SendAuthority(t, TRUE)
        /\ ReservationStands(t)
        /\ authority' = [authority EXCEPT ![t] = "started"]
        /\ SetExec(e, "calling", t)
        /\ UNCHANGED <<status, stored, outcome, quarantine, conflict, hold>>
        /\ UNCHANGED <<progress, bus, run, pendingSend, history>>

\* BeginOutbound denies a reservation, for these reasons or others (mailbox
\* inactive, worker changed, recipient suppressed, capacity spent), commits,
\* and only then gives it back in a second transaction.
DenyBegin(e) ==
    LET t == exec[e].task
    IN  /\ exec[e].pc = "inspected"
        /\ authority[t] = "reserved" /\ outcome[t] # "failed"
        /\ SetExec(e, "denying", t)
        /\ UNCHANGED <<ledger, progress, bus, run, pendingSend, history>>

CancelDenied(e) ==
    /\ exec[e].pc = "denying"
    /\ CancelOutbound(exec[e].task)
    /\ FreeExec(e)
    /\ UNCHANGED <<bus, run, pendingSend, history>>

\* Mutant: a started send without an answer is taken for interrupted, resumed.
BugBeginTwice(e) ==
    LET t == exec[e].task
    IN  /\ exec[e].pc = "inspected" /\ authority[t] = "started" /\ stored[t] = "none"
        /\ SetExec(e, "calling", t)
        /\ UNCHANGED <<ledger, progress, bus, run, pendingSend, history>>

\* BeginOutbound finds the send started elsewhere; a stored answer is published.
BeginTwice(e) ==
    LET t == exec[e].task
    IN  /\ exec[e].pc = "inspected" /\ authority[t] = "started"
        /\ results' = IF stored[t] # "none" /\ ~Denied(t)
                      THEN results \cup {<<t, stored[t]>>} ELSE results
        /\ FreeExec(e)
        /\ UNCHANGED <<ledger, progress, cmds, run, pendingSend, history>>

\* mail.Send.  The provider delivers what it accepts, refuses for good what it
\* refuses, and may do either when the answer is lost.  The answer is kept in
\* memory first.
CallProvider(e) ==
    LET t == exec[e].task
    IN  /\ exec[e].pc = "calling"
        /\ calls' = [calls EXCEPT ![t] = @ + 1]
        /\ \E k \in Kinds :
              /\ pendingSend' = [pendingSend EXCEPT ![t] = k]
              /\ \/ k \in {"sent", "unknown"} /\ delivered' = delivered \cup {t}
                 \/ k # "sent" /\ delivered' = delivered
        /\ SetExec(e, "reporting", t)
        /\ UNCHANGED <<ledger, progress, bus, run, unopened, withdrawn>>

\* FinishOutbound: the first answer is stored; only an unknown one is replaced.
Finish(e) ==
    LET t == exec[e].task
        k == pendingSend[t]
    IN  /\ exec[e].pc = "reporting" /\ k # "none"
        /\ authority[t] = "started"
        /\ \/ stored[t] \in {"none", k}
           \/ ResultState(stored[t]) = "unknown" /\ ResultState(k) # "unknown"
        /\ stored' = [stored EXCEPT ![t] = k]
        /\ SetExec(e, "publishing", t)
        /\ UNCHANGED <<status, authority, outcome, quarantine, conflict, hold>>
        /\ UNCHANGED <<progress, bus, run, pendingSend, history>>

PublishResult(e) ==
    LET t == exec[e].task
    IN  /\ exec[e].pc = "publishing"
        /\ results' = results \cup {<<t, stored[t]>>}
        /\ pendingSend' = [pendingSend EXCEPT ![t] = "none"]
        /\ FreeExec(e)
        /\ UNCHANGED <<ledger, progress, cmds, run, history>>

\* The handler returns an error and the command is left for redelivery; an
\* answer not yet reported stays in memory.
Nak(e) ==
    /\ exec[e].pc \in {"inspected", "denying", "reporting", "publishing"}
    /\ FreeExec(e)
    /\ UNCHANGED <<ledger, progress, bus, run, pendingSend, history>>

CrashWorker ==
    /\ \/ \E e \in Execs : exec[e] # IdleExec
       \/ \E t \in Tasks : pendingSend[t] # "none"
    /\ exec' = [e \in Execs |-> IdleExec]
    /\ pendingSend' = [t \in Tasks |-> "none"]
    /\ UNCHANGED <<ledger, progress, bus, run, history>>

Worker(e) ==
    \/ \E t \in Tasks : Deliver(e, t)
    \/ FailUnopened(e) \/ Begin(e) \/ DenyBegin(e) \/ CancelDenied(e)
    \/ BeginTwice(e) \/ CallProvider(e) \/ Finish(e) \/ PublishResult(e) \/ Nak(e)

-----------------------------------------------------------------------------
(* Applying an answer: ApplySendResult, with applyEmailSent and            *)
(* applyEmailFailed inside its transaction                                 *)

Cancelled(t) == status[t] = "cancelled" /\ quarantine[t] # "isolated"

\* An unsettled send, or a delivered one that was dead-lettered meanwhile.
Applicable(t, v) ==
    \/ ~Settled(t)
    \/ status[t] = "dead_lettered" /\ outcome[t] = "sent" /\ v = "sent"

\* Mutant: the contradiction is recorded and holds nothing.
BugRecordConflict(t, k) ==
    LET v == ResultState(k)
    IN  /\ Settled(t) /\ v \notin {"unknown", outcome[t]}
        /\ conflict' = [conflict EXCEPT ![t] = IF @ = "no" THEN "open" ELSE @]
        /\ UNCHANGED <<status, authority, stored, outcome, quarantine, hold, progress>>

\* A definite answer contradicts the settled one: it is recorded once, and the
\* mailbox is held for it unless something else holds it.
RecordConflict(t, k) ==
    LET v  == ResultState(k)
        m  == MailboxOf[t]
        cf == [conflict EXCEPT ![t] = IF @ = "no" THEN "open" ELSE @]
    IN  /\ Settled(t) /\ v \notin {"unknown", outcome[t]}
        /\ conflict' = cf
        /\ SetHold(m, IF hold[m] \in {NoHold, UnknownHold(t)}
                      THEN NextHolds(m, outcome, quarantine, cf) ELSE {hold[m]})
        /\ UNCHANGED <<status, authority, stored, outcome, quarantine, progress>>

\* An unknown answer holds the mailbox unless another kind of hold is there.
ApplyUnknown(t, k) ==
    LET m == MailboxOf[t]
    IN  /\ k = "unknown" /\ ~Settled(t) /\ status[t] # "cancelled"
        /\ outcome' = [outcome EXCEPT ![t] = "unknown"]
        /\ SetHold(m, IF hold[m].reason \in {"none", "unknown"} /\ quarantine[t] = "no"
                      THEN {UnknownHold(t)} ELSE {hold[m]})
        /\ UNCHANGED <<status, authority, stored, quarantine, conflict, progress>>

\* Mutant: an answered lead stays parked.
BugUnpark(t) == UNCHANGED parked

\* The recovery pause of an isolated send's lead ends with its answer, unless
\* another isolated send to that lead still has none.
Unpark(t) ==
    parked' = IF quarantine[t] = "isolated"
                 /\ ~\E u \in Tasks \ {t} : /\ StepOf[u] = StepOf[t]
                                            /\ quarantine[u] = "isolated"
                                            /\ ~Settled(u)
              THEN [parked EXCEPT ![StepOf[t]] = FALSE] ELSE parked

ApplySent(t, k) ==
    LET oc == [outcome EXCEPT ![t] = "sent"]
    IN  /\ k = "sent" /\ Applicable(t, k) /\ ~Cancelled(t)
        /\ outcome' = oc
        /\ status' = [status EXCEPT ![t] = IF quarantine[t] = "isolated" THEN "cancelled"
                                           ELSE IF @ = "dead_lettered" THEN "completed" ELSE @]
        /\ SetSlot(t, StampedSlot(StepOf[t], t))
        /\ Unpark(t)
        /\ SetHold(MailboxOf[t], RefreshedHolds(t, oc, quarantine, conflict))
        /\ UNCHANGED <<authority, stored, quarantine, conflict>>

\* Mutant: a failure is applied whatever was applied before.
BugApplyFailed(t, k) ==
    LET oc == [outcome EXCEPT ![t] = "failed"]
    IN  /\ ResultState(k) = "failed" /\ ~Cancelled(t) /\ status[t] # "active"
        /\ outcome' = oc
        /\ SetStatus(t, "failed")
        /\ SetSlot(t, SlotAfterFailure(StepOf[t], t, k))
        /\ Unpark(t)
        /\ SetHold(MailboxOf[t], RefreshedHolds(t, oc, quarantine, conflict))
        /\ UNCHANGED <<authority, stored, quarantine, conflict>>

\* applyEmailFailed touches the task and its step only while the task reads
\* completed or dead_lettered (an isolated one is made completed for the time
\* of the transaction); the failure is marked applied either way.
ApplyFailed(t, k) ==
    LET oc == [outcome EXCEPT ![t] = "failed"]
        effective == quarantine[t] = "isolated" \/ status[t] \in {"completed", "dead_lettered"}
    IN  /\ ResultState(k) = "failed" /\ ~Settled(t) /\ ~Cancelled(t)
        /\ status[t] # "active"
        /\ outcome' = oc
        /\ status' = [status EXCEPT ![t] = IF quarantine[t] = "isolated" THEN "cancelled"
                                           ELSE IF effective THEN "failed" ELSE @]
        /\ IF effective THEN SetSlot(t, SlotAfterFailure(StepOf[t], t, k)) ELSE UNCHANGED slot
        /\ Unpark(t)
        /\ SetHold(MailboxOf[t],
                   IF k = "domain_auth" THEN {[reason |-> "refused", task |-> t]}
                   ELSE RefreshedHolds(t, oc, quarantine, conflict))
        /\ UNCHANGED <<authority, stored, quarantine, conflict>>

Apply(t, k) ==
    /\ RecordConflict(t, k) \/ ApplyUnknown(t, k) \/ ApplySent(t, k) \/ ApplyFailed(t, k)
    /\ UNCHANGED <<bus, run, worker, history>>

-----------------------------------------------------------------------------
(* The result consumer and the recovery loops *)

ConsumeResult(t, k) == <<t, k>> \in results /\ Apply(t, k)

\* recoverStoredSendResults and reconcileRecordedSendResults.
ReplayStored(t) ==
    /\ stored[t] # "none" /\ Applicable(t, stored[t])
    /\ Apply(t, stored[t])

\* Mutant: an unanswered claim is walked back as a failure.
BugReclaimStuck(t) ==
    /\ IsCampaign(t) /\ Quiet(t)
    /\ slot[StepOf[t]] = [dispatched |-> TRUE, task |-> t, sent |-> FALSE]
    /\ Apply(t, "failed")

\* reclaimStuckSend: an unanswered claim becomes an unknown send.
ReclaimStuck(t) ==
    /\ IsCampaign(t) /\ Quiet(t)
    /\ slot[StepOf[t]] = [dispatched |-> TRUE, task |-> t, sent |-> FALSE]
    /\ Apply(t, IF outcome[t] = "sent" THEN "sent" ELSE "unknown")

Held(t) == hold[MailboxOf[t]] = UnknownHold(t) /\ outcome[t] = "unknown" /\ Quiet(t)


\* unstartedHeldSend: released through the ordinary path.
RecoverUnstarted(t) ==
    /\ Held(t) /\ Live(t) /\ status[t] = "completed"
    /\ CancelOutbound(t)
    /\ UNCHANGED <<bus, run, worker, history>>


Ended(t) == status[t] \in {"completed", "failed", "dead_lettered"}

\* liftableHeldSend: a started email or probe stops holding its mailbox.
LiftStarted(t) ==
    LET q == [quarantine EXCEPT ![t] = "lifted"]
    IN  /\ ~IsCampaign(t) /\ Held(t) /\ authority[t] = "started"
        /\ Ended(t)
        /\ quarantine' = q
        /\ SetHold(MailboxOf[t], RefreshedHolds(t, outcome, q, conflict))
        /\ UNCHANGED <<status, authority, stored, outcome, conflict>>
        /\ UNCHANGED <<progress, bus, run, worker, history>>

\* isolatableUnknownCampaignSend: a started campaign send is cancelled for
\* good, its lead parked until the answer, its mailbox freed.
Isolate(t) ==
    LET q == [quarantine EXCEPT ![t] = "isolated"]
        s == StepOf[t]
    IN  /\ IsCampaign(t) /\ Held(t) /\ Live(t) /\ authority[t] = "started"
        /\ Ended(t)
        /\ stored[t] \in {"none", "unknown"}
        /\ slot[s].task = t /\ slot[s].dispatched
        /\ SetStatus(t, "cancelled")
        /\ quarantine' = q
        /\ parked' = [parked EXCEPT ![s] = TRUE]
        /\ SetHold(MailboxOf[t], RefreshedHolds(t, outcome, q, conflict))
        /\ UNCHANGED <<authority, stored, outcome, conflict, slot>>
        /\ UNCHANGED <<bus, run, worker, history>>

\* releaseSendHold: a probe is due, the owner resumed, the DNS passes again.
ReleaseRefusal(m) ==
    /\ hold[m].reason = "refused"
    /\ SetHold(m, NextHolds(m, outcome, quarantine, conflict))
    /\ UNCHANGED <<status, authority, stored, outcome, quarantine, conflict>>
    /\ UNCHANGED <<progress, bus, run, worker, history>>

\* The operator settles contradicting answers with the provider's evidence.
ResolveConflict(m) ==
    LET cf == [conflict EXCEPT ![hold[m].task] = "resolved"]
    IN  /\ hold[m].reason = "conflict"
        /\ ~\E t \in Tasks : MailboxOf[t] = m /\ Live(t)
        /\ conflict' = cf
        /\ SetHold(m, NextHolds(m, outcome, quarantine, cf))
        /\ UNCHANGED <<status, authority, stored, outcome, quarantine>>
        /\ UNCHANGED <<progress, bus, run, worker, history>>

\* A message is acknowledged, or lost after its last delivery attempt.
DropCommand(t) ==
    /\ t \in cmds
    /\ cmds' = cmds \ {t}
    /\ UNCHANGED <<ledger, progress, results, run, worker, history>>

DropResult(x) ==
    /\ x \in results
    /\ results' = results \ {x}
    /\ UNCHANGED <<ledger, progress, cmds, run, worker, history>>

Recovery(t) ==
    \/ ReplayStored(t) \/ ReclaimStuck(t)
    \/ RecoverUnstarted(t) \/ LiftStarted(t) \/ Isolate(t)

Next ==
    \/ \E r \in Runs : Handler(r)
    \/ \E e \in Execs : Worker(e)
    \/ CrashWorker
    \/ \E t \in Tasks : OwnerCancel(t) \/ Recovery(t) \/ DropCommand(t)
    \/ \E x \in results : ConsumeResult(x[1], x[2]) \/ DropResult(x)
    \/ \E m \in Mailboxes : ReleaseRefusal(m) \/ ResolveConflict(m)

Spec == Init /\ [][Next]_vars

-----------------------------------------------------------------------------
(* What the pipeline promises *)

\* send-safety: the provider is asked at most once to send a task, whatever is
\* redelivered, replayed, crashed or released (BeginOutbound, Inspect, replay).
AtMostOneExecution == \A t \in Tasks : calls[t] <= 1

\* A mailbox with an unknown send is closed to admission: no interleaving of
\* results, recoveries and releases leaves such a mailbox without a hold.
UnknownHeld ==
    \A t \in Tasks : Live(t) => hold[MailboxOf[t]].reason # "none"

\* Two reserved sends of one mailbox are never unknown together, so a second
\* command is not handed over before the first is settled, lifted or isolated.
OneOutstanding ==
    \A t, u \in Tasks :
        /\ t # u /\ MailboxOf[t] = MailboxOf[u]
        /\ authority[t] # "none" /\ authority[u] # "none"
        => ~(Live(t) /\ Live(u))

\* A released or settled command is never begun afterwards, although a worker
\* may have inspected it, and found it authorized, before it was released.
SettledNeverBegun ==
    [][\A t \in Tasks : Settled(t) => authority'[t] = authority[t]]_vars

\* A settled outcome is final: a late, duplicated or contradicting answer
\* never overwrites it (it becomes a conflict instead).
SettledStays ==
    [][\A t \in Tasks : Settled(t) => outcome'[t] = outcome[t]]_vars

\* A step reaches its lead once.  Left out are tasks the worker reported
\* failed without beginning them: a redelivered copy of that command may begin
\* before the failure is applied (see the README).
NoDoubleDelivery ==
    \A t, u \in delivered \ unopened :
        IsCampaign(t) /\ IsCampaign(u) /\ StepOf[t] = StepOf[u] => t = u

\* The step of a delivered email is never offered again: no walk-back, release
\* or recovery frees it.
DeliveredStepClaimed ==
    \A t \in delivered \ unopened : IsCampaign(t) => slot[StepOf[t]].dispatched

\* A contradiction on record keeps its mailbox held until somebody settles it.
ConflictHeld ==
    \A t \in Tasks : conflict[t] = "open" => hold[MailboxOf[t]].reason # "none"

\* A lead is parked exactly as long as an isolated send to it is unanswered:
\* never longer (nothing else could release it), never shorter (ReserveSend
\* would offer the step again).
ParkedWhileIsolated ==
    \A s \in Steps :
        parked[s] <=> \E t \in Tasks : /\ IsCampaign(t) /\ StepOf[t] = s
                                       /\ quarantine[t] = "isolated" /\ ~Settled(t)

\* The abstract view of the pipeline: what is granted, spent and asked.
Right ==
    [t \in Tasks |->
        IF authority[t] = "none" THEN "none"
        ELSE IF authority[t] = "started" THEN "spent"
        ELSE IF outcome[t] = "failed" THEN "withdrawn" ELSE "granted"]
Open  == {t \in Tasks : authority[t] # "none" /\ Live(t)}
Asked == {t \in Tasks : calls[t] > 0}

Abstract == INSTANCE AtMostOnceSend WITH right <- Right, open <- Open, asked <- Asked

\* The pipeline implements the at-most-once send of AtMostOnceSend: exclusive
\* grant per mailbox (ReserveOutbound), one start (BeginOutbound), one call.
ImplementsAtMostOnce == Abstract!Spec

-----------------------------------------------------------------------------
(* Liveness *)

\* The recovery loops run for ever on a timer (send_result_effects.go), and a
\* handler that was picked up ends: its context expires after two minutes.
Fairness ==
    /\ \A t \in Tasks : /\ WF_vars(ReplayStored(t))
                        /\ WF_vars(RecoverUnstarted(t))
                        /\ WF_vars(LiftStarted(t))
                        /\ WF_vars(Isolate(t))
    /\ \A r \in Runs : WF_vars(run[r] # "idle" /\ Handler(r))

FairSpec == Spec /\ Fairness



-----------------------------------------------------------------------------
(* What comments and documents say of the pipeline, and the code does not  *)
(* do (see the README)                                                     *)

\* event_send_result.go:23: a result that lands before the stamp is left for
\* redelivery, so a step is never stamped for a send already walked back.
NoOrphanStamp == \A s \in Steps : slot[s].sent => slot[s].task # None

\* send-safety.mdx:103: a send reserved and never begun is released.
UnstartedHoldEnds ==
    \A t \in Tasks :
        (authority[t] = "reserved" /\ hold[MailboxOf[t]] = UnknownHold(t))
            ~> hold[MailboxOf[t]] # UnknownHold(t)

\* event_send_result.go:160, event_send_result.go:283, send-safety.mdx:103: the
\* step of a campaign send that failed for good, was refused for its domain or
\* was released unstarted is given back.
FailedStepGivenBack ==
    \A t \in Tasks :
        IsCampaign(t) /\ outcome[t] = "failed" => slot[StepOf[t]].task # t

\* campaign_unknown_isolation.go:15, unknown_send_hold_recovery.go:21: an
\* unknown hold names a send that was authorized, so that it can be recovered.
HoldNamesReservation ==
    \A m \in Mailboxes :
        hold[m].reason = "unknown" => authority[hold[m].task] # "none"

\* app/unibox/scheduled.go:109: a cancelled email is not sent, even when its
\* task had already fired.
WithdrawnNeverSent == \A t \in withdrawn : calls[t] = 0

=============================================================================
