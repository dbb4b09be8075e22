----------------------------- MODULE CampaignChain -----------------------------
(***************************************************************************)
(* How a running campaign keeps running.  A campaign has no loop: each     *)
(* pass is a row of the tasks table that is fired once and creates its     *)
(* successor (internal/tasks/campaign_task.go).  The owner starts, stops   *)
(* and reschedules the campaign and adds leads meanwhile                   *)
(* (internal/app/campaign/handlers.go), and a reconciler re-seeds chains   *)
(* that lost their next pass (internal/tasks/campaign_reconciler.go).      *)
(*                                                                         *)
(* One campaign.  Which lead a pass writes to and what becomes of the      *)
(* email is the business of SendPipeline: here a send uses up one lead.    *)
(* What the scheduler answers (CalculateNextCampaignTime) follows from the *)
(* campaign and its leads as far as they are modelled, and is open beyond. *)
(***************************************************************************)
EXTENDS Naturals

CONSTANTS
    Passes,       \* ids of campaign tasks
    Callers,      \* requests of the owner and of lead imports
    Reconciler,   \* the job campaign_reconcile
    None,
    MaxLeads,     \* bound: leads waiting at a time
    MaxRequests,  \* bound: requests made and wakeups parked again
    MaxFaults     \* bound: crashes, refused statements, lost callbacks

ASSUME ActorsAssumption == /\ None \notin Passes
                           /\ Passes \cap Callers = {}
                           /\ Reconciler \notin Passes \cup Callers
ASSUME BoundAssumption  == /\ MaxLeads \in Nat
                           /\ MaxRequests \in Nat
                           /\ MaxFaults \in Nat

Agents == Callers \cup {Reconciler}
Actors == Passes \cup Agents

VARIABLES
    campaign,  \* campaigns.status
    leads,     \* leads the campaign may still write to
    row,       \* the task row of each pass; "closed" is any end status
    handedBack,\* those pending again because a failed handler handed them back
    queued,    \* passes whose callback the queue will deliver
    pc,        \* per pass, where its handler is
    job,       \* per agent, what it does, where it is, the passes it read
    new,       \* per actor, the pass it inserted and has yet to enqueue
    requests,  \* requests made so far
    faults,    \* faults so far
    excused    \* history: a fault or a stop since the last pass was seeded

chain  == <<row, handedBack, queued>>
actors == <<pc, job, new>>
vars   == <<campaign, leads, chain, actors, requests, faults, excused>>

-----------------------------------------------------------------------------
Statuses == {"active", "paused", "resting", "expired", "completed"}
Rows     == {"none", "pending", "active", "closed"}
PassPCs  == {"idle", "picked", "active", "due", "drained", "rest", "next",
             "enqueue"}
Ops      == {"none", "stop", "wake", "move", "repark"}
JobPCs   == {"idle", "pause", "activate", "read", "drop", "calc", "drained",
             "rest", "create", "enqueue"}
IdleJob  == [op |-> "none", pc |-> "idle", todo |-> {}]

\* Pending rows of the campaign.
Waiting == {p \in Passes : row[p] = "pending"}

\* Nobody knows p any more: an id for a new row.  A row left active by a pass
\* that died is never taken up again.
Fresh(p) ==
    /\ row[p] # "pending" /\ pc[p] = "idle"
    /\ \A x \in Actors : new[x] # p
    /\ \A a \in Agents : p \notin job[a].todo

TypeOK ==
    /\ campaign \in Statuses
    /\ leads \in 0..MaxLeads
    /\ row \in [Passes -> Rows]
    /\ handedBack \subseteq Waiting
    /\ queued \subseteq Waiting
    /\ pc \in [Passes -> PassPCs]
    /\ job \in [Agents -> [op : Ops, pc : JobPCs, todo : SUBSET Passes]]
    /\ new \in [Actors -> Passes \cup {None}]
    /\ requests \in 0..MaxRequests
    /\ faults \in 0..MaxFaults
    /\ excused \in BOOLEAN

Init ==
    /\ campaign = "paused"
    /\ leads \in 0..MaxLeads
    /\ row = [p \in Passes |-> "none"]
    /\ handedBack = {} /\ queued = {}
    /\ pc = [p \in Passes |-> "idle"]
    /\ job = [a \in Agents |-> IdleJob]
    /\ new = [x \in Actors |-> None]
    /\ requests = 0 /\ faults = 0
    /\ excused = FALSE

-----------------------------------------------------------------------------
(* Statements *)

Goto(p, l)    == pc' = [pc EXCEPT ![p] = l]
GotoJob(a, l) == job' = [job EXCEPT ![a].pc = l]
EndJob(a)     == job' = [job EXCEPT ![a] = IdleJob]

\* Something fails that the code does not make up for at once.
Fault == faults < MaxFaults /\ faults' = faults + 1 /\ excused' = TRUE
Fine  == UNCHANGED <<faults, excused>>

\* A row that leaves pending: a callback that comes later finds nothing to do.
Unqueue(S)   == queued' = queued \ S /\ handedBack' = handedBack \ S
SetRow(p, s) == row' = [row EXCEPT ![p] = s] /\ Unqueue({p})

\* A status write to a row that may have been deleted meanwhile.
Write(p, s) == IF row[p] = "none" THEN UNCHANGED chain ELSE SetRow(p, s)

\* MarkCompleted, UpdateStatusWithLock: only an active campaign moves.
LeaveActive(s) == campaign' = IF campaign = "active" THEN s ELSE campaign

\* What CalculateNextCampaignTime may answer.
Sendable == campaign = "active" /\ leads > 0
Drained  == campaign = "active" /\ leads = 0

\* A new row, inserted by actor x.
FreshPass == CHOOSE p \in Passes : Fresh(p)
NewRow(x) ==
    /\ \E p \in Passes : Fresh(p)
    /\ row' = [row EXCEPT ![FreshPass] = "pending"]
    /\ new' = [new EXCEPT ![x] = FreshPass]
    /\ excused' = FALSE
    /\ UNCHANGED <<queued, handedBack, faults>>

\* Mutant: the campaign's lock is not taken, the look for a pending pass misses
\* one that is just being inserted.
BugInsert(x) == NewRow(x)

\* createCampaignTaskWithLock: no second pass while one waits.
Insert(x) == Waiting = {} /\ NewRow(x)

-----------------------------------------------------------------------------
(* A pass: HandleCampaignTask *)

\* GetTask finds the row pending.
Pick(p) ==
    /\ p \in queued /\ pc[p] = "idle"
    /\ Goto(p, "picked")
    /\ UNCHANGED <<campaign, leads, chain, job, new, requests, faults, excused>>

\* UpdateTaskStatusWithLock(active), whatever the status is by now.
Activate(p) ==
    /\ pc[p] = "picked"
    /\ Write(p, "active")
    /\ Goto(p, "active")
    /\ UNCHANGED <<campaign, leads, job, new, requests, faults, excused>>

\* The campaign is read: a pass of a campaign that is not active ends, and so
\* does one whose row is gone.
TurnAway(p) ==
    /\ pc[p] = "active"
    /\ row[p] = "none" \/ campaign # "active"
    /\ Write(p, "closed") /\ Goto(p, "idle")
    /\ UNCHANGED <<campaign, leads, job, new, requests, faults, excused>>

\* The owner's plan does not allow sending any more.
Expire(p) ==
    /\ pc[p] = "active" /\ row[p] # "none" /\ campaign = "active"
    /\ campaign' = "expired" /\ SetRow(p, "closed") /\ Goto(p, "idle")
    /\ UNCHANGED <<leads, job, new, requests, faults, excused>>

\* The organization's daily limit is reached: the pass is skipped and followed
\* by one on the next day, if the scheduler names a mailbox for it.
SkipDay(p) ==
    /\ pc[p] = "active" /\ row[p] # "none" /\ campaign = "active"
    /\ SetRow(p, "closed")
    /\ \/ Sendable /\ Goto(p, "next") /\ Fine
       \/ Goto(p, "idle") /\ (IF Sendable THEN Fault ELSE Fine)
    /\ UNCHANGED <<campaign, leads, job, new, requests>>

\* CalculateNextCampaignTime: a lead is due, or later; none is left; none is
\* left but held ones, or the campaign is continuous, and it waits, active; no
\* mailbox can send.
Calculate(p) ==
    /\ pc[p] = "active" /\ row[p] # "none" /\ campaign = "active"
    /\ \/ Sendable /\ UNCHANGED chain /\ \E l \in {"due", "next"} : Goto(p, l)
       \/ Drained /\ UNCHANGED chain /\ Goto(p, "drained")
       \/ Drained /\ SetRow(p, "closed") /\ Goto(p, "idle")
       \/ UNCHANGED chain /\ Goto(p, "rest")
    /\ UNCHANGED <<campaign, leads, job, new, requests, faults, excused>>

\* completeCampaign, pauseUndeliverable, autoPauseCampaign; then the row.
CloseCampaign(p) ==
    /\ \/ pc[p] = "drained" /\ \E s \in {"completed", "paused"} : LeaveActive(s)
       \/ pc[p] = "rest" /\ LeaveActive("resting")
    /\ Write(p, "closed") /\ Goto(p, "idle")
    /\ UNCHANGED <<leads, job, new, requests, faults, excused>>

\* A gate or the reservation of the step turns the send down, or the send
\* fails before it reaches the bus: the pass ends, the chain goes on.
PassOver(p) ==
    /\ pc[p] = "due"
    /\ Write(p, "closed") /\ Goto(p, "next")
    /\ UNCHANGED <<campaign, leads, job, new, requests, faults, excused>>

\* Mutant: the lead is not looked at again when the step is reserved.
BugSend(p) ==
    /\ pc[p] = "due" /\ row[p] = "active" /\ campaign = "active"
    /\ leads' = leads - 1
    /\ SetRow(p, "closed") /\ Goto(p, "next")
    /\ UNCHANGED <<campaign, job, new, requests, faults, excused>>

\* ReserveSend and ReserveOutbound: pass, campaign and lead are checked once
\* more, and the row is completed, before the command is published.
Send(p) ==
    /\ pc[p] = "due" /\ row[p] = "active" /\ Sendable
    /\ leads' = leads - 1
    /\ SetRow(p, "closed") /\ Goto(p, "next")
    /\ UNCHANGED <<campaign, job, new, requests, faults, excused>>

\* keepChainAfterFailure: a failed pass whose row is there goes on to create a
\* successor while the campaign is active.
KeepChain(p) == Goto(p, IF row[p] # "none" /\ campaign = "active" THEN "next" ELSE "idle")

\* Mutant: the failed pass is left as it is, for the queue to fire again.
BugRetryLater(p) ==
    /\ pc[p] \in {"active", "due"}
    /\ faults < MaxFaults /\ faults' = faults + 1
    /\ Goto(p, "idle")
    /\ UNCHANGED <<campaign, leads, chain, job, new, requests, excused>>

\* retryCampaignTickLater: the scheduler or the reservation failed, the same
\* row is tried again a minute later.
RetryLater(p) ==
    /\ pc[p] \in {"active", "due"}
    /\ faults < MaxFaults /\ faults' = faults + 1
    /\ IF row[p] = "none" THEN UNCHANGED chain
       ELSE /\ row' = [row EXCEPT ![p] = "pending"]
            /\ handedBack' = handedBack \cup {p}
            /\ queued' = queued \cup {p}
    /\ KeepChain(p)
    /\ UNCHANGED <<campaign, leads, job, new, requests, excused>>

\* Another statement of the claimed pass fails: its row is closed.
Fail(p) ==
    /\ pc[p] \in {"active", "due"}
    /\ faults < MaxFaults /\ faults' = faults + 1
    /\ IF row[p] = "active" THEN SetRow(p, "closed") ELSE UNCHANGED chain
    /\ KeepChain(p)
    /\ UNCHANGED <<campaign, leads, job, new, requests, excused>>

\* A deferred pass closes its row after its successor is there.
Ended(p) == [row EXCEPT ![p] = IF @ = "active" THEN "closed" ELSE @]

\* createCampaignTask: the row of the next pass.
Succeed(p) ==
    /\ pc[p] = "next"
    /\ \/ Insert(p) /\ Goto(p, "enqueue")
       \/ /\ (Waiting # {} /\ Fine) \/ Fault
          /\ row' = Ended(p) /\ Goto(p, "idle")
          /\ UNCHANGED <<queued, handedBack, new>>
    /\ UNCHANGED <<campaign, leads, job, requests>>

\* createCampaignTask: its callback.
Enqueue(p) ==
    /\ pc[p] = "enqueue"
    /\ \/ /\ Fine /\ row' = Ended(p)
          /\ queued' = queued \cup ({new[p]} \cap Waiting)
          /\ UNCHANGED handedBack
       \/ /\ Fault /\ row' = [Ended(p) EXCEPT ![new[p]] = "none"]
          /\ Unqueue({new[p]})
    /\ new' = [new EXCEPT ![p] = None] /\ Goto(p, "idle")
    /\ UNCHANGED <<campaign, leads, job, requests>>

Handler(p) ==
    \/ Activate(p) \/ TurnAway(p) \/ Expire(p) \/ SkipDay(p)
    \/ Calculate(p) \/ CloseCampaign(p) \/ PassOver(p) \/ Send(p)
    \/ Succeed(p) \/ Enqueue(p)

\* The process dies during a pass; its row stays as it is.
Crash(p) ==
    /\ pc[p] # "idle" /\ Fault
    /\ Goto(p, "idle") /\ new' = [new EXCEPT ![p] = None]
    /\ UNCHANGED <<campaign, leads, chain, job, requests>>

-----------------------------------------------------------------------------
(* The queue *)

\* A callback is lost: a wiped queue, a restarted emulator, a dropped retry.
LoseCallback(p) ==
    /\ p \in queued /\ Fault
    /\ queued' = queued \ {p}
    /\ UNCHANGED <<campaign, leads, row, handedBack, actors, requests>>

-----------------------------------------------------------------------------
(* The owner and lead imports *)

Idle(a)         == job[a].pc = "idle"
Does(a, op, l)  == job' = [job EXCEPT ![a] = [op |-> op, pc |-> l, todo |-> {}]]
Drops(a, op)    == job' = [job EXCEPT ![a] = [op |-> op, pc |-> "drop", todo |-> Waiting]]

\* StopCampaign of an active campaign.
StopCampaign(a) == campaign = "active" /\ Does(a, "stop", "pause") /\ UNCHANGED leads

\* StartCampaign, also of a finished campaign; one whose plan expired is refused.
StartCampaign(a) ==
    /\ campaign \notin {"active", "expired"}
    /\ Does(a, "none", "activate") /\ UNCHANGED leads

\* rescheduleCampaignWakeup, after settings of an active campaign were saved.
MoveWakeup(a) == campaign = "active" /\ Drops(a, "move") /\ UNCHANGED leads

\* A lead is added.  WakeCampaigns starts a finished campaign again and looks at
\* a running one, unless a pass is about to fire or paced by the send before it.
AddLead(a) ==
    /\ leads < MaxLeads /\ leads' = leads + 1
    /\ CASE campaign = "completed" -> Does(a, "none", "activate")
         [] campaign = "active"    -> Does(a, "wake", "read")
         [] OTHER                  -> UNCHANGED job

\* Callers are alike: a request is made by any that is idle.
Request ==
    /\ \E a \in Callers : Idle(a)
    /\ requests < MaxRequests /\ requests' = requests + 1
    /\ LET a == CHOOSE c \in Callers : Idle(c)
       IN  StopCampaign(a) \/ StartCampaign(a) \/ MoveWakeup(a) \/ AddLead(a)
    /\ UNCHANGED <<campaign, chain, pc, new, faults, excused>>

\* StopCampaign: the status first, the pending passes after.
PauseCampaign(a) ==
    /\ job[a].pc = "pause"
    /\ campaign' = "paused" /\ GotoJob(a, "read")
    /\ UNCHANGED <<leads, chain, pc, new, requests, faults, excused>>

ActivateCampaign(a) ==
    /\ job[a].pc = "activate"
    /\ campaign' = "active" /\ GotoJob(a, "calc")
    /\ UNCHANGED <<leads, chain, pc, new, requests, faults, excused>>

\* GetPendingCampaignTasks.  An import asks for the next slot as well, and
\* leaves alone what waits for an earlier one.
ReadPending(a) ==
    /\ job[a].pc = "read"
    /\ \/ job[a].op = "stop" /\ Drops(a, "stop") /\ Fine
       \/ job[a].op = "wake" /\ Sendable /\ Drops(a, "move") /\ Fine
       \/ job[a].op = "wake" /\ (Waiting # {} \/ ~Sendable) /\ EndJob(a) /\ Fine
       \/ Fault /\ EndJob(a)
    /\ UNCHANGED <<campaign, leads, chain, pc, new, requests>>

\* A pass read before is deleted, or cancelled by the reconciler, whatever it
\* has become.  A stop that does so after a new start leaves no pass behind.
Drop(a) ==
    /\ job[a].pc = "drop"
    /\ \E p \in job[a].todo :
         /\ job' = [job EXCEPT ![a].todo = @ \ {p}]
         /\ Write(p, IF a = Reconciler THEN "closed" ELSE "none")
         /\ excused' = (excused \/ (job[a].op = "stop" /\ campaign = "active"))
    /\ UNCHANGED <<campaign, leads, pc, new, requests, faults>>

Dropped(a) ==
    /\ job[a].pc = "drop" /\ job[a].todo = {}
    /\ \/ job[a].op = "stop"   /\ EndJob(a)
       \/ job[a].op = "repark" /\ Does(a, "none", "create")
       \/ job[a].op = "move"   /\ Does(a, "none", "calc")
    /\ UNCHANGED <<campaign, leads, chain, pc, new, requests, faults, excused>>

\* enqueueCampaignWakeup and the reconciler ask for the next slot: there is one;
\* or nothing is left, or nothing but leads that are held, or the campaign is
\* continuous, and it waits, active; or no mailbox can send.
CalcSlot(a) ==
    /\ job[a].pc = "calc"
    /\ \/ Sendable /\ Fine /\ GotoJob(a, "create")
       \/ Drained /\ Fine /\ GotoJob(a, "drained")
       \/ (Drained \/ campaign # "active") /\ Fine /\ EndJob(a)
       \/ campaign = "active" /\ Fine /\ GotoJob(a, "rest")
       \/ Fault /\ EndJob(a)
    /\ UNCHANGED <<campaign, leads, chain, pc, new, requests>>

\* Nothing to send, or nothing to send from.
EndCampaign(a) ==
    /\ \/ job[a].pc = "drained" /\ \E s \in {"completed", "paused"} : LeaveActive(s)
       \/ job[a].pc = "rest" /\ LeaveActive("resting")
    /\ EndJob(a)
    /\ UNCHANGED <<leads, chain, pc, new, requests, faults, excused>>

CreatePass(a) ==
    /\ job[a].pc = "create"
    /\ \/ Insert(a) /\ GotoJob(a, "enqueue")
       \/ /\ (Waiting # {} /\ Fine) \/ Fault
          /\ EndJob(a) /\ UNCHANGED <<chain, new>>
    /\ UNCHANGED <<campaign, leads, pc, requests>>

\* A request whose pass the queue refuses stops the campaign.
EnqueuePass(a) ==
    /\ job[a].pc = "enqueue"
    /\ \/ /\ Fine /\ queued' = queued \cup ({new[a]} \cap Waiting)
          /\ UNCHANGED <<campaign, row, handedBack>>
       \/ /\ Fault /\ SetRow(new[a], "none")
          /\ campaign' = IF a \in Callers THEN "paused" ELSE campaign
    /\ new' = [new EXCEPT ![a] = None] /\ EndJob(a)
    /\ UNCHANGED <<leads, pc, requests>>

\* The process dies during a request or a pass of the reconciler.
CrashJob(a) ==
    /\ job[a].pc # "idle" /\ Fault
    /\ EndJob(a) /\ new' = [new EXCEPT ![a] = None]
    /\ UNCHANGED <<campaign, leads, chain, pc, requests>>

-----------------------------------------------------------------------------
(* The reconciler: ReconcileCampaignSchedules *)

\* Passes whose callback never comes, apart from one just being enqueued.
Lost == {p \in Waiting \ queued : pc[p] = "idle" /\ \A x \in Actors : new[x] # p}

\* CancelOverduePendingTasks, of passes that are still pending fifteen minutes
\* after their slot: their callback is lost, or the queue is that far behind.
CancelOverdue(S) ==
    /\ Idle(Reconciler) /\ S # {}
    /\ row' = [p \in Passes |-> IF p \in S THEN "closed" ELSE row[p]]
    /\ Unqueue(S)
    /\ IF S \subseteq Lost THEN excused' = TRUE /\ UNCHANGED faults ELSE Fault
    /\ UNCHANGED <<campaign, leads, actors, requests>>

\* repark: a wakeup is parked much later than the campaign's next slot, which
\* a lead or a change of settings has moved.
Repark ==
    /\ Idle(Reconciler) /\ Sendable /\ Waiting # {}
    /\ requests < MaxRequests /\ requests' = requests + 1
    /\ Drops(Reconciler, "repark")
    /\ UNCHANGED <<campaign, leads, chain, pc, new, faults, excused>>

\* resumeNoAccounts: a mailbox is back.
Resume ==
    /\ Idle(Reconciler) /\ campaign = "resting"
    /\ campaign' = "active" /\ excused' = TRUE
    /\ UNCHANGED <<leads, chain, actors, requests, faults>>

\* Mutant: a campaign is a candidate when none of its passes is open.
BugReseed ==
    /\ Idle(Reconciler) /\ campaign = "active"
    /\ \A p \in Passes : row[p] \in {"none", "closed"}
    /\ Does(Reconciler, "none", "calc")
    /\ UNCHANGED <<campaign, leads, chain, pc, new, requests, faults, excused>>

\* ListCampaignScheduleCandidates: active, and no pass pending.
Reseed ==
    /\ Idle(Reconciler) /\ campaign = "active" /\ Waiting = {}
    /\ Does(Reconciler, "none", "calc")
    /\ UNCHANGED <<campaign, leads, chain, pc, new, requests, faults, excused>>

Agent(a) ==
    \/ PauseCampaign(a) \/ ActivateCampaign(a) \/ ReadPending(a)
    \/ Drop(a) \/ Dropped(a) \/ CalcSlot(a) \/ EndCampaign(a)
    \/ CreatePass(a) \/ EnqueuePass(a)

Next ==
    \/ \E p \in Passes : Pick(p) \/ Handler(p) \/ RetryLater(p)
                           \/ Fail(p) \/ Crash(p) \/ LoseCallback(p)
    \/ Request
    \/ \E a \in Agents : Agent(a) \/ CrashJob(a)
    \/ \E S \in SUBSET (Lost \cup queued) : CancelOverdue(S)
    \/ Repark \/ Resume \/ Reseed

Spec == Init /\ [][Next]_vars

-----------------------------------------------------------------------------
(* What keeps a campaign running *)

\* A campaign waits for one pass at a time, however many passes, requests and
\* reconcilers seed the next: only a pass that failed and was handed back may
\* wait beside it (createCampaignTaskWithLock).
OneWaiting == \A p, q \in Waiting \ handedBack : p = q

\* When nothing is under way, an active campaign with leads has a pass waiting:
\* passes that are skipped, deferred, turned down or fail, and requests that
\* move or replace passes under way, hand the chain on by themselves.  Only a
\* crash, a refusal, a lost callback or a stop overtaken by a start needs the
\* reconciler.
ChainUnbroken ==
    /\ \A p \in Passes : pc[p] = "idle"
    /\ \A a \in Agents : Idle(a)
    /\ campaign = "active" /\ leads > 0 /\ ~excused
    => Waiting # {}

\* Requests, passes and the reconciler's job go on once begun, the dispatcher
\* fires what is queued, and campaign_reconcile runs for ever on its timer.
Fairness ==
    /\ \A p \in Passes : WF_vars(Pick(p)) /\ WF_vars(Handler(p))
    /\ \A a \in Agents : WF_vars(Agent(a))
    /\ WF_vars(CancelOverdue(Lost)) /\ WF_vars(Reseed)

FairSpec == Spec /\ Fairness

\* A campaign with leads that stays active has a pass fired again, whatever was
\* lost, refused or interrupted before.
ChainRevives ==
    (campaign = "active" /\ leads > 0)
        ~> (\/ \E p \in Passes : pc[p] # "idle"
            \/ campaign # "active" \/ leads = 0)
=============================================================================
