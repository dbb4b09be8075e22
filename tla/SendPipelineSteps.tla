-------------------------- MODULE SendPipelineSteps --------------------------
(***************************************************************************)
(* What SendPipeline guarantees of the steps of a campaign, for any set of *)
(* tasks, mailboxes, steps, handler executions and worker deliveries: a    *)
(* lead is parked exactly as long as an isolated send to it is open, and a *)
(* delivered step is neither offered again nor delivered twice.            *)
(***************************************************************************)
EXTENDS SendPipelineProofs

-----------------------------------------------------------------------------
(* Parked leads *)

\* Only campaign sends are isolated; other lanes are lifted.
IsolatedCampaigns == \A t \in Tasks : quarantine[t] = "isolated" => IsCampaign(t)

ParkInv == IsolatedCampaigns /\ ParkedWhileIsolated

\* A send to the step s is isolated and still has no answer.
Awaited(s) ==
    \E t \in Tasks : IsCampaign(t) /\ StepOf[t] = s /\ quarantine[t] = "isolated" /\ ~Settled(t)

\* The steps that answer, release, lift or isolate a send; every other step
\* leaves the parked leads and what parks them alone.
LEMMA ParkSteps ==
    ASSUME TypeInv, [Next]_vars
    PROVE  \/ UNCHANGED <<parked, outcome, quarantine>>
           \/ \E r \in Runs : Reserve(r)
           \/ \E t \in Tasks : CancelOutbound(t) \/ LiftStarted(t) \/ Isolate(t)
           \/ \E t \in Tasks : \E k : Apply(t, k)
  <1> USE DEF ledger, progress, bus, worker, history
  <1> DEFINE Goal == \/ UNCHANGED <<parked, outcome, quarantine>>
                     \/ \E r \in Runs : Reserve(r)
                     \/ \E t \in Tasks : CancelOutbound(t) \/ LiftStarted(t) \/ Isolate(t)
                     \/ \E t \in Tasks : \E k : Apply(t, k)
  <1>1. ASSUME NEW r \in Runs, Handler(r) PROVE Goal
    <2>1. CASE Reserve(r)
      BY <2>1
    <2>2. CASE ~Reserve(r)
      <3>1. UNCHANGED <<parked, outcome, quarantine>>
        BY <1>1, <2>2
        DEF Handler, Pick, Activate, Admit, TurnAway, EndUnsent, ClaimStep, RefuseReserve,
            RecordRefusal, Publish, RecordUnsure, Bury, Stamp, Complete, Crash
      <3> QED
        BY <3>1
    <2> QED
      BY <2>1, <2>2
  <1>2. ASSUME NEW e \in Execs, Worker(e) PROVE Goal
    <2>1. CASE CancelDenied(e)
      <3>1. exec[e].task \in Tasks
        BY <2>1 DEF CancelDenied, TypeInv, Working
      <3> QED
        BY <2>1, <3>1 DEF CancelDenied
    <2>2. CASE ~CancelDenied(e)
      <3>1. UNCHANGED <<parked, outcome, quarantine>>
        BY <1>2, <2>2 DEF Worker, Deliver, FailUnopened, Begin, DenyBegin, BeginTwice,
                          CallProvider, Finish, PublishResult, Nak
      <3> QED
        BY <3>1
    <2> QED
      BY <2>1, <2>2
  <1>3. CASE CrashWorker
    BY <1>3 DEF CrashWorker
  <1>4. ASSUME NEW t \in Tasks, OwnerCancel(t) \/ DropCommand(t) PROVE Goal
    BY <1>4 DEF OwnerCancel, DropCommand
  <1>5. ASSUME NEW t \in Tasks, Recovery(t) PROVE Goal
    BY <1>5 DEF Recovery, ReplayStored, ReclaimStuck, RecoverUnstarted
  <1>6. ASSUME NEW x \in results, ConsumeResult(x[1], x[2]) PROVE Goal
    <2>1. x[1] \in Tasks
      BY <1>6 DEF TypeInv, TypeOK
    <2> QED
      BY <1>6, <2>1 DEF ConsumeResult
  <1>7. ASSUME NEW x \in results, DropResult(x) PROVE Goal
    BY <1>7 DEF DropResult
  <1>8. ASSUME NEW m \in Mailboxes, ReleaseRefusal(m) \/ ResolveConflict(m) PROVE Goal
    BY <1>8 DEF ReleaseRefusal, ResolveConflict
  <1>9. CASE UNCHANGED vars
    BY <1>9 DEF vars
  <1> QED
    BY <1>1, <1>2, <1>3, <1>4, <1>5, <1>6, <1>7, <1>8, <1>9 DEF Next

\* An answer unparks the lead only when no other isolated send waits for it.
LEMMA AnswerParks ==
    ASSUME EvidenceInv, ParkInv, NEW t \in Tasks, NEW k, Apply(t, k)
    PROVE  ParkInv'
  <1>0. /\ outcome \in [Tasks -> {"null", "unknown", "sent", "failed"}]
        /\ parked \in [Steps -> BOOLEAN]
    BY DEF EvidenceInv, TypeInv, TypeOK
  <1>1. quarantine' = quarantine
    BY DEF Apply, RecordConflict, ApplyUnknown, ApplySent, ApplyFailed
  <1>2. IsolatedCampaigns'
    BY <1>1 DEF ParkInv, IsolatedCampaigns
  <1>3. CASE RecordConflict(t, k)
    <2>1. UNCHANGED <<parked, outcome, quarantine>>
      BY <1>3 DEF RecordConflict, progress
    <2> QED
      BY <1>2, <2>1 DEF ParkInv, ParkedWhileIsolated, Settled
  <1>4. CASE ApplyUnknown(t, k)
    <2>1. /\ parked' = parked /\ ~Settled(t)
          /\ outcome' = [outcome EXCEPT ![t] = "unknown"]
      BY <1>4 DEF ApplyUnknown, progress
    <2>2. \A u \in Tasks : Settled(u)' <=> Settled(u)
      BY <1>0, <2>1 DEF Settled
    <2> QED
      BY <1>1, <1>2, <2>1, <2>2 DEF ParkInv, ParkedWhileIsolated
  <1>5. CASE ApplySent(t, k) \/ ApplyFailed(t, k)
    <2>1. Unpark(t) /\ \E v \in {"sent", "failed"} : outcome' = [outcome EXCEPT ![t] = v]
      BY <1>5 DEF ApplySent, ApplyFailed
    <2>2. \A u \in Tasks : Settled(u)' <=> u = t \/ Settled(u)
      BY <1>0, <2>1 DEF Settled
    <2>3. ASSUME NEW s \in Steps
          PROVE  parked'[s] <=> Awaited(s)'
      <3>1. parked[s] <=> Awaited(s)
        BY DEF ParkInv, ParkedWhileIsolated, Awaited
      <3>2. CASE quarantine[t] = "isolated" /\ s = StepOf[t]
        BY <1>0, <1>1, <2>1, <2>2, <3>1, <3>2
        DEF Unpark, Awaited, ParkInv, IsolatedCampaigns
      <3>3. CASE ~(quarantine[t] = "isolated" /\ s = StepOf[t])
        <4>1. parked'[s] = parked[s]
          BY <1>0, <2>1, <3>3 DEF Unpark
        <4>2. Awaited(s)' <=> Awaited(s)
          BY <1>1, <2>2, <3>3 DEF Awaited
        <4> QED
          BY <3>1, <4>1, <4>2
      <3> QED
        BY <3>2, <3>3
    <2> QED
      BY <1>2, <2>3 DEF ParkInv, ParkedWhileIsolated, Awaited
  <1> QED
    BY <1>3, <1>4, <1>5 DEF Apply

LEMMA NextParks == EvidenceInv /\ ParkInv /\ [Next]_vars => ParkInv'
  <1> SUFFICES ASSUME EvidenceInv, ParkInv, [Next]_vars PROVE ParkInv'
    OBVIOUS
  <1> USE DEF ledger, progress, bus, worker, history
  <1>0. /\ outcome \in [Tasks -> {"null", "unknown", "sent", "failed"}]
        /\ quarantine \in [Tasks -> {"no", "lifted", "isolated"}]
        /\ parked \in [Steps -> BOOLEAN]
        /\ TypeInv
    BY DEF EvidenceInv, TypeInv, TypeOK
  \* An outcome that changes is that of a send that is not isolated.
  <1>a. ASSUME UNCHANGED <<parked, quarantine>>, NEW t \in Tasks, quarantine[t] # "isolated",
               NEW v, outcome' = [outcome EXCEPT ![t] = v]
        PROVE  ParkInv'
    <2>1. \A u \in Tasks : quarantine[u] = "isolated" => (Settled(u)' <=> Settled(u))
      BY <1>0, <1>a DEF Settled
    <2> QED
      BY <1>a, <2>1 DEF ParkInv, IsolatedCampaigns, ParkedWhileIsolated
  <1>1. CASE UNCHANGED <<parked, outcome, quarantine>>
    BY <1>1 DEF ParkInv, IsolatedCampaigns, ParkedWhileIsolated, Settled
  <1>2. ASSUME NEW r \in Runs, Reserve(r) PROVE ParkInv'
    <2>1. TaskOf[r] \in Tasks /\ quarantine[TaskOf[r]] = "no"
      BY <1>2, RunAssumption DEF Reserve, EvidenceInv, Evidence
    <2> QED
      BY <1>2, <1>a, <2>1 DEF Reserve
  <1>3. ASSUME NEW t \in Tasks, CancelOutbound(t) PROVE ParkInv'
    <2>1. quarantine[t] = "no"
      BY <1>3 DEF CancelOutbound, EvidenceInv, Evidence
    <2> QED
      BY <1>3, <1>a, <2>1 DEF CancelOutbound
  <1>4. ASSUME NEW t \in Tasks, LiftStarted(t) PROVE ParkInv'
    <2>1. /\ ~IsCampaign(t) /\ quarantine' = [quarantine EXCEPT ![t] = "lifted"]
          /\ UNCHANGED <<parked, outcome>>
      BY <1>4 DEF LiftStarted
    <2>2. \A u \in Tasks : IsCampaign(u) => quarantine'[u] = quarantine[u]
      BY <1>0, <2>1
    <2>3. IsolatedCampaigns'
      BY <1>0, <2>1 DEF ParkInv, IsolatedCampaigns
    <2> QED
      BY <2>1, <2>2, <2>3 DEF ParkInv, ParkedWhileIsolated, Settled
  <1>5. ASSUME NEW t \in Tasks, Isolate(t) PROVE ParkInv'
    <2>1. /\ IsCampaign(t) /\ quarantine' = [quarantine EXCEPT ![t] = "isolated"]
          /\ parked' = [parked EXCEPT ![StepOf[t]] = TRUE]
          /\ outcome' = outcome /\ outcome[t] = "unknown"
      BY <1>5 DEF Isolate, Held
    <2>2. IsolatedCampaigns'
      BY <1>0, <2>1 DEF ParkInv, IsolatedCampaigns
    <2>3. ASSUME NEW s \in Steps
          PROVE  parked'[s] <=> Awaited(s)'
      <3>1. parked[s] <=> Awaited(s)
        BY DEF ParkInv, ParkedWhileIsolated, Awaited
      <3>2. Awaited(s)' <=> s = StepOf[t] \/ Awaited(s)
        BY <1>0, <2>1 DEF Awaited, Settled
      <3> QED
        BY <1>0, <2>1, <3>1, <3>2
    <2> QED
      BY <2>2, <2>3 DEF ParkInv, ParkedWhileIsolated, Awaited
  <1>6. ASSUME NEW t \in Tasks, NEW k, Apply(t, k) PROVE ParkInv'
    BY <1>6, AnswerParks
  <1> QED
    BY <1>0, <1>1, <1>2, <1>3, <1>4, <1>5, <1>6, ParkSteps

\* A lead is parked exactly as long as an isolated send to it is unanswered,
\* however answers, releases and isolations of several sends to it interleave
\* (campaign_unknown_isolation.go; ApplySendResult in pg_send_recovery.go).
THEOREM ParkedExactly == Spec => []ParkedWhileIsolated
  <1>1. Init => ParkInv
    BY DEF Init, Untouched, ParkInv, IsolatedCampaigns, ParkedWhileIsolated
  <1>2. ParkInv => ParkedWhileIsolated
    BY DEF ParkInv
  <1> QED
    BY InitEvidence, NextEvidence, NextParks, <1>1, <1>2, PTL DEF Spec

-----------------------------------------------------------------------------
(* Commands, deliveries and results of reserved sends *)

\* Nothing of a send is on the bus or at the worker before it was reserved.
HandedOut ==
    /\ \A r \in Runs : run[r] = "reserved" => authority[TaskOf[r]] # "none"
    /\ \A t \in cmds : authority[t] # "none"
    /\ \A e \in Execs : exec[e].pc # "idle" => authority[exec[e].task] # "none"
    /\ \A t \in Tasks, k \in Kinds : <<t, k>> \in results => authority[t] # "none"

\* A reservation is never taken back: what is given back keeps its nonce.
LEMMA AuthorityStays ==
    ASSUME EvidenceInv, [Next]_vars
    PROVE  \A t \in Tasks : authority[t] # "none" => authority'[t] # "none"
  <1>0. authority \in [Tasks -> {"none", "reserved", "started"}]
    BY DEF EvidenceInv, TypeInv, TypeOK
  <1>1. ASSUME NEW r \in Runs, Reserve(r)
        PROVE  \A t \in Tasks : authority[t] # "none" => authority'[t] # "none"
    BY <1>0, <1>1 DEF Reserve
  <1>2. ASSUME NEW e \in Execs, Begin(e)
        PROVE  \A t \in Tasks : authority[t] # "none" => authority'[t] # "none"
    BY <1>0, <1>2 DEF Begin
  <1>3. ASSUME NEW e \in Execs, CallProvider(e) PROVE authority' = authority
    BY <1>3 DEF CallProvider, ledger
  <1>4. ASSUME NEW t \in Tasks, NEW v \in {"unknown", "sent", "failed"}, Settles(t, v)
        PROVE  authority' = authority
    BY <1>4 DEF Settles
  <1>5. ASSUME NEW t \in Tasks, LetsGo(t) PROVE authority' = authority
    BY <1>5 DEF LetsGo
  <1> QED
    BY SendSteps, <1>1, <1>2, <1>3, <1>4, <1>5

\* What a delivery at the worker adds is about the task it already has, or
\* about a command that waits.
LEMMA WorkerHands ==
    ASSUME EvidenceInv, HandedOut, NEW e \in Execs, Worker(e)
    PROVE  HandedOut'
  <1> USE DEF ledger, progress, bus, worker, history
  <1> DEFINE u == exec[e].task
  <1>0. /\ exec \in [Execs -> [pc : ExecPCs, task : Tasks \cup {None}]]
        /\ authority \in [Tasks -> {"none", "reserved", "started"}]
        /\ cmds \subseteq Tasks
    BY DEF EvidenceInv, TypeInv, TypeOK
  <1>1. \A t \in Tasks : authority[t] # "none" => authority'[t] # "none"
    <2>1. [Next]_vars
      BY DEF Next
    <2> QED
      BY <2>1, AuthorityStays
  <1>2. exec[e].pc # "idle" => u \in Tasks /\ authority[u] # "none"
    BY DEF HandedOut, EvidenceInv, TypeInv, Working
  <1>3. run' = run /\ cmds' = cmds
    BY DEF Worker, Deliver, FailUnopened, Begin, DenyBegin, CancelDenied, BeginTwice,
           CallProvider, Finish, PublishResult, Nak
  <1>4. \/ exec' = exec
        \/ FreeExec(e)
        \/ \E pc \in ExecPCs : \E t \in cmds \cup {u} :
              SetExec(e, pc, t) /\ (t = u => exec[e].pc # "idle" \/ u \in cmds)
    BY DEF Worker, Deliver, FailUnopened, Begin, DenyBegin, CancelDenied, BeginTwice,
           CallProvider, Finish, PublishResult, Nak, ExecPCs
  <1>5. \/ results' = results
        \/ \E t \in cmds : \E k : results' = results \cup {<<t, k>>}
        \/ exec[e].pc # "idle" /\ \E k : results' = results \cup {<<u, k>>}
    BY DEF Worker, Deliver, FailUnopened, Begin, DenyBegin, CancelDenied, BeginTwice,
           CallProvider, Finish, PublishResult, Nak
  <1>6. \A f \in Execs : exec'[f].pc # "idle" => authority'[exec'[f].task] # "none"
    <2> SUFFICES ASSUME NEW f \in Execs, exec'[f].pc # "idle"
                 PROVE  authority'[exec'[f].task] # "none"
      OBVIOUS
    <2>1. CASE exec'[f] = exec[f]
      <3>1. exec[f].task \in Tasks /\ authority[exec[f].task] # "none"
        BY <2>1 DEF HandedOut, EvidenceInv, TypeInv, Working
      <3> QED
        BY <1>1, <2>1, <3>1
    <2>2. CASE exec'[f] # exec[f]
      <3>1. f = e /\ exec'[e].task \in Tasks /\ authority[exec'[e].task] # "none"
        BY <1>0, <1>2, <1>4, <2>2 DEF FreeExec, SetExec, IdleExec, HandedOut
      <3> QED
        BY <1>1, <3>1
    <2> QED
      BY <2>1, <2>2
  <1>7. \A t \in Tasks, k \in Kinds : <<t, k>> \in results' => authority'[t] # "none"
    BY <1>0, <1>1, <1>2, <1>5 DEF HandedOut
  <1> QED
    BY <1>0, <1>1, <1>3, <1>6, <1>7, RunAssumption DEF HandedOut

LEMMA NextHands == EvidenceInv /\ HandedOut /\ [Next]_vars => HandedOut'
  <1> SUFFICES ASSUME EvidenceInv, HandedOut, [Next]_vars PROVE HandedOut'
    OBVIOUS
  <1> USE DEF ledger, progress, bus, worker, history
  <1>0. /\ cmds \subseteq Tasks
        /\ run \in [Runs -> RunPCs]
        /\ authority \in [Tasks -> {"none", "reserved", "started"}]
        /\ \A e \in Execs : exec[e].pc # "idle" => exec[e].task \in Tasks
    BY DEF EvidenceInv, TypeInv, TypeOK, Working
  <1>1. \A t \in Tasks : authority[t] # "none" => authority'[t] # "none"
    BY AuthorityStays
  \* A step that hands nothing out.
  <1>a. ASSUME cmds' \subseteq cmds, results' \subseteq results, exec' = exec,
               \A r \in Runs : run'[r] = "reserved" => run[r] = "reserved"
        PROVE  HandedOut'
    BY <1>0, <1>1, <1>a, RunAssumption DEF HandedOut
  <1>2. ASSUME NEW r \in Runs, Handler(r) PROVE HandedOut'
    <2>1. CASE Reserve(r)
      <3>1. /\ TaskOf[r] \in Tasks
            /\ authority' = [authority EXCEPT ![TaskOf[r]] = "reserved"]
            /\ run' = [run EXCEPT ![r] = "reserved"]
            /\ UNCHANGED <<cmds, results, exec>>
        BY <2>1, RunAssumption DEF Reserve, Goto
      <3> QED
        BY <1>0, <1>1, <3>1, RunAssumption DEF HandedOut
    <2>2. CASE Publish(r)
      <3>1. /\ cmds' \subseteq cmds \cup {TaskOf[r]} /\ run[r] = "reserved"
            /\ \A q \in Runs : run'[q] = "reserved" => run[q] = "reserved"
            /\ UNCHANGED <<authority, results, exec>>
        BY <1>0, <2>2 DEF Publish, Goto
      <3> QED
        BY <3>1 DEF HandedOut
    <2>3. CASE ~Reserve(r) /\ ~Publish(r)
      <3>1. UNCHANGED <<cmds, results, exec>>
        BY <1>2, <2>3
        DEF Handler, Pick, Activate, Admit, TurnAway, EndUnsent, ClaimStep, RefuseReserve,
            RecordRefusal, RecordUnsure, Bury, Stamp, Complete, Crash
      <3>2. \E pc \in RunPCs \ {"reserved"} : run' = [run EXCEPT ![r] = pc]
        BY <1>2, <2>3
        DEF Handler, Pick, Activate, Admit, TurnAway, EndUnsent, ClaimStep, RefuseReserve,
            RecordRefusal, RecordUnsure, Bury, Stamp, Complete, Crash, Goto, RunPCs
      <3>3. \A q \in Runs : run'[q] = "reserved" => run[q] = "reserved"
        BY <1>0, <3>2
      <3> QED
        BY <1>a, <3>1, <3>3
    <2> QED
      BY <2>1, <2>2, <2>3
  <1>3. ASSUME NEW e \in Execs, Worker(e) PROVE HandedOut'
    BY <1>3, WorkerHands
  <1>4. CASE CrashWorker
    BY <1>0, <1>1, <1>4, RunAssumption DEF CrashWorker, IdleExec, HandedOut
  <1>5. ASSUME NEW t \in Tasks, OwnerCancel(t) \/ DropCommand(t) PROVE HandedOut'
    BY <1>5, <1>a DEF OwnerCancel, DropCommand
  <1>6. ASSUME NEW t \in Tasks, Recovery(t) PROVE HandedOut'
    BY <1>6, <1>a DEF Recovery, ReplayStored, ReclaimStuck, RecoverUnstarted, LiftStarted, Isolate,
                      Apply
  <1>7. ASSUME NEW x \in results, ConsumeResult(x[1], x[2]) \/ DropResult(x) PROVE HandedOut'
    BY <1>7, <1>a DEF ConsumeResult, DropResult, Apply
  <1>8. ASSUME NEW m \in Mailboxes, ReleaseRefusal(m) \/ ResolveConflict(m) PROVE HandedOut'
    BY <1>8, <1>a DEF ReleaseRefusal, ResolveConflict
  <1>9. CASE UNCHANGED vars
    BY <1>9, <1>a DEF vars
  <1> QED
    BY <1>2, <1>3, <1>4, <1>5, <1>6, <1>7, <1>8, <1>9 DEF Next

-----------------------------------------------------------------------------
(* Steps and their claims *)

\* A handler that claimed its step and has yet to reserve the send.
Ready(r) == run[r] = "ready" /\ IsCampaign(TaskOf[r])

\* A send that is reserved and was neither refused for good nor released.
Pursued(t) == IsCampaign(t) /\ authority[t] # "none" /\ outcome[t] # "failed"

\* A step that names a task is taken.
SlotShape == \A s \in Steps : slot[s].task # None => slot[s].dispatched

\* A step is being claimed by one handler, which it names,
ClaimsExclusive ==
    /\ \A r \in Runs : Ready(r) => slot[StepOf[TaskOf[r]]].task = TaskOf[r]
    /\ \A q, r \in Runs : Ready(q) /\ Ready(r) /\ StepOf[TaskOf[q]] = StepOf[TaskOf[r]] => q = r

\* or it belongs to the one send of it that is pursued.
PursuedOwns ==
    \A t \in Tasks : Pursued(t) =>
        /\ slot[StepOf[t]].task = t
        /\ \A r \in Runs : Ready(r) => StepOf[TaskOf[r]] # StepOf[t]

StepInv == SlotShape /\ ClaimsExclusive /\ PursuedOwns

\* A step that no handler starts to claim, that keeps the task it names, and no
\* send of which becomes pursued.
LEMMA StepsKept ==
    ASSUME StepInv,
           \A s \in Steps : /\ slot'[s].task = slot[s].task
                            /\ slot[s].dispatched => slot'[s].dispatched,
           \A r \in Runs : Ready(r)' => Ready(r),
           \A t \in Tasks : Pursued(t)' => Pursued(t)
    PROVE  StepInv'
  <1>1. \A t \in Tasks : IsCampaign(t) => StepOf[t] \in Steps
    BY StepAssumption DEF IsCampaign
  <1>2. SlotShape'
    BY DEF StepInv, SlotShape
  <1>3. ClaimsExclusive'
    <2>1. \A r \in Runs : Ready(r)' => slot'[StepOf[TaskOf[r]]].task = TaskOf[r]
      BY <1>1, RunAssumption DEF StepInv, ClaimsExclusive, Ready
    <2>2. \A q, r \in Runs :
             Ready(q)' /\ Ready(r)' /\ StepOf[TaskOf[q]] = StepOf[TaskOf[r]] => q = r
      BY DEF StepInv, ClaimsExclusive
    <2> QED
      BY <2>1, <2>2 DEF ClaimsExclusive
  <1>4. PursuedOwns'
    <2>1. \A t \in Tasks : Pursued(t)' => slot'[StepOf[t]].task = t
      BY <1>1 DEF StepInv, PursuedOwns, Pursued
    <2>2. \A t \in Tasks : Pursued(t)' =>
             \A r \in Runs : Ready(r)' => StepOf[TaskOf[r]] # StepOf[t]
      BY DEF StepInv, PursuedOwns
    <2> QED
      BY <2>1, <2>2 DEF PursuedOwns
  <1> QED
    BY <1>2, <1>3, <1>4 DEF StepInv

\* A send that fails for good or is released gives its own step back, or one
\* that names nobody.
LEMMA StepGivenBack ==
    ASSUME EvidenceInv, StepInv, NEW t \in Tasks,
           authority[t] # "none", outcome[t] # "failed",
           outcome' = [outcome EXCEPT ![t] = "failed"],
           \/ UNCHANGED slot
           \/ /\ IsCampaign(t) /\ slot[StepOf[t]].task \in {t, None}
              /\ slot' = [slot EXCEPT ![StepOf[t]] = FreeSlot],
           UNCHANGED <<authority, run>>
    PROVE  StepInv'
  <1>0. /\ outcome \in [Tasks -> {"null", "unknown", "sent", "failed"}]
        /\ slot \in [Steps -> Slots]
    BY DEF EvidenceInv, TypeInv, TypeOK
  <1>1. \A u \in Tasks : Pursued(u)' => u # t /\ Pursued(u)
    BY <1>0 DEF Pursued
  <1>2. \A r \in Runs : Ready(r)' <=> Ready(r)
    BY DEF Ready
  <1>3. CASE UNCHANGED slot
    BY <1>1, <1>2, <1>3, StepsKept
  <1>4. CASE /\ IsCampaign(t) /\ slot[StepOf[t]].task \in {t, None}
             /\ slot' = [slot EXCEPT ![StepOf[t]] = FreeSlot]
    <2>1. Pursued(t)
      BY <1>4 DEF Pursued
    <2>2. StepOf[t] \in Steps
      BY <1>4, StepAssumption DEF IsCampaign
    <2>3. slot'[StepOf[t]] = FreeSlot /\ \A s \in Steps : s # StepOf[t] => slot'[s] = slot[s]
      BY <1>0, <1>4, <2>2
    <2>4. SlotShape'
      BY <2>3 DEF StepInv, SlotShape, FreeSlot
    <2>5. \A r \in Runs : Ready(r) => StepOf[TaskOf[r]] \in Steps \ {StepOf[t]}
      BY <2>1, StepAssumption, RunAssumption DEF StepInv, PursuedOwns, Ready, IsCampaign
    <2>6. ClaimsExclusive'
      BY <1>2, <2>3, <2>5 DEF StepInv, ClaimsExclusive
    <2>7. \A u \in Tasks : Pursued(u)' => StepOf[u] \in Steps \ {StepOf[t]}
      BY <1>1, <2>1, StepAssumption DEF StepInv, PursuedOwns, Pursued, IsCampaign
    <2>8. PursuedOwns'
      BY <1>1, <1>2, <2>3, <2>7 DEF StepInv, PursuedOwns
    <2> QED
      BY <2>4, <2>6, <2>8 DEF StepInv
  <1> QED
    BY <1>3, <1>4

\* cancelOutbound gives back what nobody began.
LEMMA CancelGivesBack ==
    ASSUME EvidenceInv, StepInv, NEW t \in Tasks, CancelOutbound(t), UNCHANGED run
    PROVE  StepInv'
  <1>1. /\ authority[t] # "none" /\ outcome[t] # "failed"
        /\ outcome' = [outcome EXCEPT ![t] = "failed"]
        /\ UNCHANGED authority
        /\ SetSlot(t, ReleasedSlot(StepOf[t], t))
    BY DEF CancelOutbound
  <1>2. \/ UNCHANGED slot
        \/ /\ IsCampaign(t) /\ slot[StepOf[t]].task \in {t, None}
           /\ slot' = [slot EXCEPT ![StepOf[t]] = FreeSlot]
    BY <1>1 DEF SetSlot, ReleasedSlot, EvidenceInv, TypeInv, TypeOK
  <1> QED
    BY <1>1, <1>2, StepGivenBack

\* So does an applied failure; every other answer leaves the step to its task.
LEMMA AnswerGivesBack ==
    ASSUME EvidenceInv, StepInv, NEW t \in Tasks, NEW k, Apply(t, k),
           ResultState(k) = "failed" => authority[t] # "none"
    PROVE  StepInv'
  <1>0. /\ outcome \in [Tasks -> {"null", "unknown", "sent", "failed"}]
        /\ slot \in [Steps -> Slots]
        /\ UNCHANGED <<authority, run>>
    BY DEF EvidenceInv, TypeInv, TypeOK, Apply, RecordConflict, ApplyUnknown, ApplySent,
           ApplyFailed
  <1>1. \A r \in Runs : Ready(r)' => Ready(r)
    BY <1>0 DEF Ready
  <1>2. CASE RecordConflict(t, k)
    <2>1. UNCHANGED <<slot, outcome>>
      BY <1>2 DEF RecordConflict, progress
    <2> QED
      BY <1>0, <1>1, <2>1, StepsKept DEF Pursued
  <1>3. CASE ApplyUnknown(t, k)
    <2>1. UNCHANGED slot /\ \A u \in Tasks : Pursued(u)' => Pursued(u)
      BY <1>0, <1>3 DEF ApplyUnknown, progress, Pursued, Settled
    <2> QED
      BY <1>1, <2>1, StepsKept
  <1>4. CASE ApplySent(t, k)
    <2>1. SetSlot(t, StampedSlot(StepOf[t], t))
      BY <1>4 DEF ApplySent
    <2>2. \A s \in Steps : /\ slot'[s].task = slot[s].task
                           /\ slot[s].dispatched => slot'[s].dispatched
      BY <1>0, <2>1 DEF SetSlot, StampedSlot, Slots
    <2>3. \A u \in Tasks : Pursued(u)' => Pursued(u)
      BY <1>0, <1>4 DEF ApplySent, Applicable, Pursued, Settled
    <2> QED
      BY <1>1, <2>2, <2>3, StepsKept
  <1>5. CASE ApplyFailed(t, k)
    <2>1. /\ authority[t] # "none" /\ outcome[t] # "failed"
          /\ outcome' = [outcome EXCEPT ![t] = "failed"]
          /\ SetSlot(t, SlotAfterFailure(StepOf[t], t, k)) \/ UNCHANGED slot
      BY <1>5 DEF ApplyFailed, Settled
    <2>2. \/ UNCHANGED slot
          \/ /\ IsCampaign(t) /\ slot[StepOf[t]].task \in {t, None}
             /\ slot' = [slot EXCEPT ![StepOf[t]] = FreeSlot]
      BY <1>0, <2>1 DEF SetSlot, SlotAfterFailure, ReleasedSlot, WalkedSlot
    <2> QED
      BY <1>0, <2>1, <2>2, StepGivenBack
  <1> QED
    BY <1>2, <1>3, <1>4, <1>5 DEF Apply
\* ReserveSend claims a step that nobody claims and no send owns.
LEMMA ClaimTakes ==
    ASSUME EvidenceInv, StepInv, NEW r \in Runs, ClaimStep(r)
    PROVE  StepInv'
  <1> USE DEF ledger, progress, bus, worker, history
  <1> DEFINE t == TaskOf[r]
             s == StepOf[t]
  <1>0. /\ t \in Tasks /\ s \in Steps /\ IsCampaign(t)
        /\ slot \in [Steps -> Slots]
        /\ run \in [Runs -> RunPCs]
    BY RunAssumption, StepAssumption DEF ClaimStep, IsCampaign, EvidenceInv, TypeInv, TypeOK
  <1>1. \A u \in Tasks : Pursued(u)' <=> Pursued(u)
    BY DEF ClaimStep, Pursued
  <1>2. CASE Goto(r, "idle") /\ UNCHANGED slot
    <2>1. \A q \in Runs : Ready(q)' => Ready(q)
      BY <1>0, <1>2 DEF Goto, Ready
    <2> QED
      BY <1>1, <1>2, <2>1, StepsKept
  <1>3. CASE /\ ~slot[s].dispatched
             /\ slot' = [slot EXCEPT ![s] = [dispatched |-> TRUE, task |-> t, sent |-> FALSE]]
             /\ Goto(r, "ready")
    <2>1. slot[s].task = None
      BY <1>0, <1>3 DEF StepInv, SlotShape
    <2>2. \A q \in Runs : Ready(q) => StepOf[TaskOf[q]] # s
      BY <2>1, RunAssumption, NoneAssumption DEF StepInv, ClaimsExclusive
    <2>3. \A u \in Tasks : Pursued(u) => StepOf[u] # s
      BY <2>1, NoneAssumption DEF StepInv, PursuedOwns
    <2>4. /\ slot'[s].task = t /\ slot'[s].dispatched
          /\ \A x \in Steps : x # s => slot'[x] = slot[x]
      BY <1>0, <1>3
    <2>5. \A q \in Runs : Ready(q)' => q = r \/ Ready(q)
      BY <1>0, <1>3 DEF Goto, Ready
    <2>6. SlotShape'
      BY <2>4 DEF StepInv, SlotShape
    <2>7. \A q \in Runs : Ready(q) => StepOf[TaskOf[q]] \in Steps \ {s}
      BY <2>2, StepAssumption, RunAssumption DEF Ready, IsCampaign
    <2>8. ClaimsExclusive'
      BY <2>4, <2>5, <2>7 DEF StepInv, ClaimsExclusive
    <2>9. \A u \in Tasks : Pursued(u) => StepOf[u] \in Steps \ {s}
      BY <2>3, StepAssumption DEF Pursued, IsCampaign
    <2>10. PursuedOwns'
      BY <1>1, <2>4, <2>5, <2>9 DEF StepInv, PursuedOwns
    <2> QED
      BY <2>6, <2>8, <2>10 DEF StepInv
  <1> QED
    BY <1>2, <1>3 DEF ClaimStep

\* ReserveOutbound hands the claim of its handler on to the send, which no
\* other handler shares.
LEMMA ReserveOwns ==
    ASSUME EvidenceInv, StepInv, NEW r \in Runs, Reserve(r)
    PROVE  StepInv'
  <1> USE DEF ledger, progress, bus, worker, history
  <1> DEFINE t == TaskOf[r]
  <1>0. /\ t \in Tasks
        /\ run \in [Runs -> RunPCs]
        /\ authority \in [Tasks -> {"none", "reserved", "started"}]
        /\ outcome \in [Tasks -> {"null", "unknown", "sent", "failed"}]
    BY RunAssumption DEF EvidenceInv, TypeInv, TypeOK
  <1>1. slot' = slot /\ run[r] = "ready" /\ run' = [run EXCEPT ![r] = "reserved"]
    BY DEF Reserve, Goto
  <1>2. \A q \in Runs : Ready(q)' => q # r /\ Ready(q)
    BY <1>0, <1>1 DEF Ready
  <1>3. \A u \in Tasks : Pursued(u)' => u = t \/ Pursued(u)
    BY <1>0 DEF Reserve, Pursued
  <1>4. CASE ~IsCampaign(t)
    <2>1. \A u \in Tasks : Pursued(u)' => Pursued(u)
      BY <1>3, <1>4 DEF Pursued
    <2> QED
      BY <1>1, <1>2, <2>1, StepsKept
  <1>5. CASE IsCampaign(t)
    <2>1. Ready(r)
      BY <1>1, <1>5 DEF Ready
    <2>2. slot[StepOf[t]].task = t
      BY <2>1 DEF StepInv, ClaimsExclusive
    <2>3. \A q \in Runs : Ready(q)' => StepOf[TaskOf[q]] # StepOf[t]
      BY <1>2, <2>1 DEF StepInv, ClaimsExclusive
    <2>4. PursuedOwns'
      BY <1>1, <1>2, <1>3, <2>2, <2>3 DEF StepInv, PursuedOwns
    <2>5. SlotShape' /\ ClaimsExclusive'
      BY <1>1, <1>2 DEF StepInv, SlotShape, ClaimsExclusive
    <2> QED
      BY <2>4, <2>5 DEF StepInv
  <1> QED
    BY <1>4, <1>5

\* A refused handler frees its step without looking whose it is: it is its own.
LEMMA RefusalFrees ==
    ASSUME EvidenceInv, StepInv, NEW r \in Runs, RefuseReserve(r)
    PROVE  StepInv'
  <1> USE DEF ledger, progress, bus, worker, history
  <1> DEFINE t == TaskOf[r]
  <1>0. run \in [Runs -> RunPCs] /\ slot \in [Steps -> Slots] /\ t \in Tasks
    BY RunAssumption DEF EvidenceInv, TypeInv, TypeOK
  <1>1. \A u \in Tasks : Pursued(u)' <=> Pursued(u)
    BY DEF RefuseReserve, Pursued
  <1>2. \A q \in Runs : Ready(q)' => q # r /\ Ready(q)
    BY <1>0 DEF RefuseReserve, Goto, Ready
  <1>3. CASE UNCHANGED slot
    BY <1>1, <1>2, <1>3, StepsKept
  <1>4. CASE IsCampaign(t) /\ slot' = [slot EXCEPT ![StepOf[t]] = FreeSlot]
    <2>1. Ready(r)
      BY <1>4 DEF RefuseReserve, Ready
    <2>2. StepOf[t] \in Steps
      BY <1>0, <1>4, StepAssumption DEF IsCampaign
    <2>3. slot'[StepOf[t]] = FreeSlot /\ \A x \in Steps : x # StepOf[t] => slot'[x] = slot[x]
      BY <1>0, <1>4, <2>2
    <2>4. \A q \in Runs : Ready(q)' => Ready(q) /\ StepOf[TaskOf[q]] \in Steps \ {StepOf[t]}
      BY <1>2, <2>1, StepAssumption, RunAssumption
      DEF StepInv, ClaimsExclusive, Ready, IsCampaign
    <2>5. \A u \in Tasks : Pursued(u) => StepOf[u] \in Steps \ {StepOf[t]}
      BY <2>1, StepAssumption DEF StepInv, PursuedOwns, Pursued, IsCampaign
    <2>6. SlotShape'
      BY <2>3 DEF StepInv, SlotShape, FreeSlot
    <2>7. ClaimsExclusive'
      BY <2>3, <2>4 DEF StepInv, ClaimsExclusive
    <2>8. PursuedOwns'
      BY <1>1, <2>3, <2>4, <2>5 DEF StepInv, PursuedOwns
    <2> QED
      BY <2>6, <2>7, <2>8 DEF StepInv
  <1> QED
    BY <1>3, <1>4 DEF RefuseReserve

LEMMA HandlerKeepsSteps ==
    ASSUME EvidenceInv, StepInv, NEW r \in Runs, Handler(r)
    PROVE  StepInv'
  <1> USE DEF ledger, progress, bus, worker, history
  <1>0. run \in [Runs -> RunPCs] /\ slot \in [Steps -> Slots]
    BY DEF EvidenceInv, TypeInv, TypeOK
  <1>1. CASE ClaimStep(r)
    BY <1>1, ClaimTakes
  <1>2. CASE Reserve(r)
    BY <1>2, ReserveOwns
  <1>3. CASE RefuseReserve(r)
    BY <1>3, RefusalFrees
  <1>4. CASE ~ClaimStep(r) /\ ~Reserve(r) /\ ~RefuseReserve(r)
    <2>1. UNCHANGED <<authority, outcome>>
      BY <1>4 DEF Handler, Pick, Activate, Admit, TurnAway, EndUnsent, RecordRefusal, Publish,
                  RecordUnsure, Bury, Stamp, Complete, Crash
    <2>2. \E pc \in RunPCs : /\ run' = [run EXCEPT ![r] = pc]
                             /\ pc = "ready" => ~IsCampaign(TaskOf[r])
      BY <1>4 DEF Handler, Pick, Activate, Admit, TurnAway, EndUnsent, RecordRefusal, Publish,
                  RecordUnsure, Bury, Stamp, Complete, Crash, Goto, RunPCs
    <2>3. \A s \in Steps : /\ slot'[s].task = slot[s].task
                           /\ slot[s].dispatched => slot'[s].dispatched
      <3>1. CASE Stamp(r)
        BY <1>0, <3>1 DEF Stamp
      <3>2. CASE ~Stamp(r)
        <4>1. UNCHANGED slot
          BY <1>4, <3>2 DEF Handler, Pick, Activate, Admit, TurnAway, EndUnsent, RecordRefusal,
                            Publish, RecordUnsure, Bury, Complete, Crash
        <4> QED
          BY <4>1
      <3> QED
        BY <3>1, <3>2
    <2>4. \A q \in Runs : Ready(q)' => Ready(q)
      BY <1>0, <2>2 DEF Ready
    <2>5. \A u \in Tasks : Pursued(u)' => Pursued(u)
      BY <2>1 DEF Pursued
    <2> QED
      BY <2>3, <2>4, <2>5, StepsKept
  <1> QED
    BY <1>1, <1>2, <1>3, <1>4

LEMMA NextSteps == EvidenceInv /\ HandedOut /\ StepInv /\ [Next]_vars => StepInv'
  <1> SUFFICES ASSUME EvidenceInv, HandedOut, StepInv, [Next]_vars PROVE StepInv'
    OBVIOUS
  <1> USE DEF ledger, progress, bus, worker, history
  <1>0. authority \in [Tasks -> {"none", "reserved", "started"}]
    BY DEF EvidenceInv, TypeInv, TypeOK
  \* A step that leaves the steps, the handlers and the sends' outcomes alone.
  <1>a. ASSUME UNCHANGED <<slot, run, outcome>>,
               \A t \in Tasks : authority'[t] # "none" => authority[t] # "none"
        PROVE  StepInv'
    <2>1. /\ \A r \in Runs : Ready(r)' => Ready(r)
          /\ \A t \in Tasks : Pursued(t)' => Pursued(t)
      BY <1>a DEF Ready, Pursued
    <2> QED
      BY <1>a, <2>1, StepsKept
  <1>1. ASSUME NEW r \in Runs, Handler(r) PROVE StepInv'
    BY <1>1, HandlerKeepsSteps
  <1>2. ASSUME NEW e \in Execs, Worker(e) PROVE StepInv'
    <2>1. CASE CancelDenied(e)
      <3>1. exec[e].task \in Tasks
        BY <2>1 DEF CancelDenied, EvidenceInv, TypeInv, Working
      <3> QED
        BY <2>1, <3>1, CancelGivesBack DEF CancelDenied
    <2>2. CASE Begin(e)
      <3>1. /\ authority[exec[e].task] = "reserved"
            /\ authority' = [authority EXCEPT ![exec[e].task] = "started"]
            /\ UNCHANGED <<slot, run, outcome>>
        BY <2>2 DEF Begin
      <3>2. \A t \in Tasks : authority'[t] # "none" => authority[t] # "none"
        BY <1>0, <3>1
      <3> QED
        BY <1>a, <3>1, <3>2
    <2>3. CASE ~CancelDenied(e) /\ ~Begin(e)
      <3>1. UNCHANGED <<slot, run, outcome, authority>>
        BY <1>2, <2>3 DEF Worker, Deliver, FailUnopened, DenyBegin, BeginTwice, CallProvider,
                          Finish, PublishResult, Nak
      <3> QED
        BY <1>a, <3>1
    <2> QED
      BY <2>1, <2>2, <2>3
  <1>3. CASE CrashWorker
    BY <1>a, <1>3 DEF CrashWorker
  <1>4. ASSUME NEW t \in Tasks, OwnerCancel(t) \/ DropCommand(t) PROVE StepInv'
    BY <1>a, <1>4 DEF OwnerCancel, DropCommand
  <1>5. ASSUME NEW t \in Tasks, Recovery(t) PROVE StepInv'
    <2>1. CASE ReplayStored(t)
      <3>1. authority[t] # "none"
        BY <2>1 DEF ReplayStored, EvidenceInv, Evidence
      <3> QED
        BY <2>1, <3>1, AnswerGivesBack DEF ReplayStored
    <2>2. CASE ReclaimStuck(t)
      <3>1. \E k \in {"sent", "unknown"} : Apply(t, k)
        BY <2>2 DEF ReclaimStuck
      <3>2. \A k \in {"sent", "unknown"} : ResultState(k) # "failed"
        BY DEF ResultState
      <3> QED
        BY <3>1, <3>2, AnswerGivesBack
    <2>3. CASE RecoverUnstarted(t)
      BY <2>3, CancelGivesBack DEF RecoverUnstarted
    <2>4. CASE LiftStarted(t) \/ Isolate(t)
      BY <1>a, <2>4 DEF LiftStarted, Isolate
    <2> QED
      BY <1>5, <2>1, <2>2, <2>3, <2>4 DEF Recovery
  <1>6. ASSUME NEW x \in results, ConsumeResult(x[1], x[2]) PROVE StepInv'
    <2>1. x[1] \in Tasks /\ x[2] \in Kinds /\ <<x[1], x[2]>> \in results
      BY <1>6 DEF ConsumeResult, EvidenceInv, TypeInv, TypeOK
    <2>2. authority[x[1]] # "none"
      BY <2>1 DEF HandedOut
    <2> QED
      BY <1>6, <2>1, <2>2, AnswerGivesBack DEF ConsumeResult
  <1>7. ASSUME NEW x \in results, DropResult(x) PROVE StepInv'
    BY <1>a, <1>7 DEF DropResult
  <1>8. ASSUME NEW m \in Mailboxes, ReleaseRefusal(m) \/ ResolveConflict(m) PROVE StepInv'
    BY <1>a, <1>8 DEF ReleaseRefusal, ResolveConflict
  <1>9. CASE UNCHANGED vars
    BY <1>a, <1>9 DEF vars
  <1> QED
    BY <1>1, <1>2, <1>3, <1>4, <1>5, <1>6, <1>7, <1>8, <1>9 DEF Next
-----------------------------------------------------------------------------
(* What a failure says of its send                                         *)

Failures == {"failed", "domain_auth"}

\* The provider has not refused t, and nobody reported t failed before it was
\* begun: it was not asked yet, or the email left.
Undecided(t) == t \notin unopened /\ (t \in delivered \/ calls[t] = 0)

\* No answer on the way or on record calls the send a failure, nor does its
\* outcome, unless it was released before it began.
NotFailed(t) ==
    /\ stored[t] \notin Failures
    /\ pendingSend[t] \notin Failures
    /\ \A k \in Failures : <<t, k>> \notin results
    /\ authority[t] = "started" => outcome[t] # "failed"

\* Only what was begun and asked for is delivered.
DeliveredAsked == \A t \in delivered : authority[t] = "started" /\ calls[t] # 0

\* A failure that reaches the ledger tells the truth: the email did not leave.
Truthful == DeliveredAsked /\ \A t \in Tasks : Undecided(t) => NotFailed(t)

\* A step that asks no provider and brings no failure of an undecided send.
LEMMA TruthKept ==
    ASSUME Truthful, UNCHANGED <<calls, delivered>>, unopened \subseteq unopened',
           \A t \in Tasks : authority[t] = "started" => authority'[t] = "started",
           \A t \in Tasks : NotFailed(t) => NotFailed(t)' \/ t \in unopened',
           delivered \subseteq Tasks
    PROVE  Truthful'
  <1>1. DeliveredAsked'
    BY DEF Truthful, DeliveredAsked
  <1>2. \A t \in Tasks : Undecided(t)' => Undecided(t)
    BY DEF Undecided
  <1>3. \A t \in Tasks : Undecided(t)' => NotFailed(t)'
    BY <1>2 DEF Truthful, Undecided
  <1> QED
    BY <1>1, <1>3 DEF Truthful

\* The answer of the provider decides a send, one way or the other.
LEMMA CallDecides ==
    ASSUME EvidenceInv, Truthful, NEW e \in Execs, CallProvider(e)
    PROVE  Truthful'
  <1> USE DEF ledger, progress, bus, worker, history
  <1> DEFINE u == exec[e].task
  <1>1. u \in Tasks /\ authority[u] = "started" /\ calls[u] = 0
    BY DEF CallProvider, EvidenceInv, Calling, TypeInv, Working
  <1>2. /\ calls \in [Tasks -> Nat] /\ pendingSend \in [Tasks -> Kinds \cup {"none"}]
        /\ delivered \subseteq Tasks
    BY DEF EvidenceInv, TypeInv, TypeOK
  <1>3. u \notin delivered
    BY <1>1 DEF Truthful, DeliveredAsked
  <1>4. PICK k \in Kinds :
           /\ pendingSend' = [pendingSend EXCEPT ![u] = k]
           /\ \/ k \in {"sent", "unknown"} /\ delivered' = delivered \cup {u}
              \/ k # "sent" /\ delivered' = delivered
    BY DEF CallProvider
  <1>5. calls' = [calls EXCEPT ![u] = @ + 1]
        /\ UNCHANGED <<authority, stored, outcome, results, unopened>>
    BY DEF CallProvider
  <1>6. \A t \in Tasks : calls'[t] = IF t = u THEN 1 ELSE calls[t]
    BY <1>1, <1>2, <1>5
  <1>7. DeliveredAsked'
    BY <1>1, <1>2, <1>4, <1>5, <1>6 DEF Truthful, DeliveredAsked
  <1>8. \A t \in Tasks : Undecided(t)' => Undecided(t) /\ (t = u => k \notin Failures)
    BY <1>1, <1>3, <1>4, <1>5, <1>6 DEF Undecided, Failures
  <1>9. \A t \in Tasks : NotFailed(t) /\ (t = u => k \notin Failures) => NotFailed(t)'
    BY <1>1, <1>2, <1>4, <1>5 DEF NotFailed
  <1> QED
    BY <1>7, <1>8, <1>9 DEF Truthful

\* The rest of the worker passes on what it was told.
LEMMA WorkerTruthful ==
    ASSUME EvidenceInv, Truthful, NEW e \in Execs, Worker(e)
    PROVE  Truthful'
  <1> USE DEF ledger, progress, bus, worker, history
  <1> DEFINE u == exec[e].task
  <1>0. /\ stored \in [Tasks -> Kinds \cup {"none"}]
        /\ pendingSend \in [Tasks -> Kinds \cup {"none"}]
        /\ authority \in [Tasks -> {"none", "reserved", "started"}]
        /\ outcome \in [Tasks -> {"null", "unknown", "sent", "failed"}]
        /\ delivered \subseteq Tasks
    BY DEF EvidenceInv, TypeInv, TypeOK
  <1>u. exec[e].pc # "idle" => u \in Tasks
    BY DEF EvidenceInv, TypeInv, Working
  <1>1. ASSUME NEW t \in Tasks, Deliver(e, t) PROVE Truthful'
    <2>1. \/ results' = results
          \/ results' = results \cup {<<t, stored[t]>>}
      BY <1>1 DEF Deliver
    <2>2. UNCHANGED <<authority, stored, outcome, pendingSend, calls, delivered, unopened>>
      BY <1>1 DEF Deliver
    <2>3. \A x \in Tasks : NotFailed(x) => NotFailed(x)'
      BY <2>1, <2>2 DEF NotFailed
    <2> QED
      BY <1>0, <2>2, <2>3, TruthKept
  <1>2. CASE FailUnopened(e)
    <2>1. /\ results' = results \cup {<<u, "failed">>} /\ unopened' = unopened \cup {u}
          /\ UNCHANGED <<authority, stored, outcome, pendingSend, calls, delivered>>
      BY <1>2 DEF FailUnopened
    <2>2. \A x \in Tasks : NotFailed(x) => NotFailed(x)' \/ x \in unopened'
      BY <2>1 DEF NotFailed
    <2> QED
      BY <1>0, <2>1, <2>2, TruthKept
  <1>3. CASE Begin(e)
    <2>1. /\ u \in Tasks /\ outcome[u] # "failed"
          /\ authority' = [authority EXCEPT ![u] = "started"]
          /\ UNCHANGED <<results, stored, outcome, pendingSend, calls, delivered, unopened>>
      BY <1>3, <1>u DEF Begin
    <2>2. \A x \in Tasks : NotFailed(x) => NotFailed(x)'
      BY <1>0, <2>1 DEF NotFailed
    <2>3. \A x \in Tasks : authority[x] = "started" => authority'[x] = "started"
      BY <1>0, <2>1
    <2> QED
      BY <1>0, <2>1, <2>2, <2>3, TruthKept
  <1>4. CASE CancelDenied(e)
    <2>1. /\ u \in Tasks /\ authority[u] = "reserved"
          /\ outcome' = [outcome EXCEPT ![u] = "failed"]
          /\ UNCHANGED <<results, stored, authority, pendingSend, calls, delivered, unopened>>
      BY <1>4, <1>u DEF CancelDenied, CancelOutbound
    <2>2. \A x \in Tasks : NotFailed(x) => NotFailed(x)'
      BY <1>0, <2>1 DEF NotFailed
    <2> QED
      BY <1>0, <2>1, <2>2, TruthKept
  <1>5. CASE BeginTwice(e)
    <2>1. /\ results' = results \/ results' = results \cup {<<u, stored[u]>>}
          /\ UNCHANGED <<authority, stored, outcome, pendingSend, calls, delivered, unopened>>
      BY <1>5 DEF BeginTwice
    <2>2. \A x \in Tasks : NotFailed(x) => NotFailed(x)'
      BY <2>1 DEF NotFailed
    <2> QED
      BY <1>0, <2>1, <2>2, TruthKept
  <1>6. CASE CallProvider(e)
    BY <1>6, CallDecides
  <1>7. CASE Finish(e)
    <2>1. /\ u \in Tasks /\ stored' = [stored EXCEPT ![u] = pendingSend[u]]
          /\ UNCHANGED <<authority, results, outcome, pendingSend, calls, delivered, unopened>>
      BY <1>7, <1>u DEF Finish
    <2>2. \A x \in Tasks : NotFailed(x) => NotFailed(x)'
      BY <1>0, <2>1 DEF NotFailed
    <2> QED
      BY <1>0, <2>1, <2>2, TruthKept
  <1>8. CASE PublishResult(e)
    <2>1. /\ u \in Tasks /\ results' = results \cup {<<u, stored[u]>>}
          /\ pendingSend' = [pendingSend EXCEPT ![u] = "none"]
          /\ UNCHANGED <<authority, stored, outcome, calls, delivered, unopened>>
      BY <1>8, <1>u DEF PublishResult
    <2>2. \A x \in Tasks : NotFailed(x) => NotFailed(x)'
      BY <1>0, <2>1 DEF NotFailed, Failures
    <2> QED
      BY <1>0, <2>1, <2>2, TruthKept
  <1>9. CASE DenyBegin(e) \/ Nak(e)
    <2>1. UNCHANGED <<authority, stored, outcome, results, pendingSend, calls, delivered,
                      unopened>>
      BY <1>9 DEF DenyBegin, Nak
    <2>2. \A x \in Tasks : NotFailed(x) => NotFailed(x)'
      BY <2>1 DEF NotFailed
    <2> QED
      BY <1>0, <2>1, <2>2, TruthKept
  <1> QED
    BY <1>1, <1>2, <1>3, <1>4, <1>5, <1>6, <1>7, <1>8, <1>9 DEF Worker

\* An answer is applied as a failure only if it is one.
LEMMA AnswerTruthful ==
    ASSUME EvidenceInv, Truthful, NEW t \in Tasks, NEW k \in Kinds, Apply(t, k),
           NotFailed(t) => k \notin Failures
    PROVE  Truthful'
  <1> USE DEF ledger, progress, bus, worker, history
  <1>0. /\ outcome \in [Tasks -> {"null", "unknown", "sent", "failed"}]
        /\ delivered \subseteq Tasks
    BY DEF EvidenceInv, TypeInv, TypeOK
  <1>1. UNCHANGED <<authority, stored, results, pendingSend, calls, delivered, unopened>>
    BY DEF Apply, RecordConflict, ApplyUnknown, ApplySent, ApplyFailed
  <1>2. \/ UNCHANGED outcome
        \/ \E v \in {"unknown", "sent", "failed"} :
              /\ outcome' = [outcome EXCEPT ![t] = v]
              /\ v = "failed" => k \in Failures
    BY DEF Apply, RecordConflict, ApplyUnknown, ApplySent, ApplyFailed, ResultState, Kinds,
           Failures
  <1>3. \A x \in Tasks : NotFailed(x) => NotFailed(x)'
    BY <1>0, <1>1, <1>2 DEF NotFailed
  <1> QED
    BY <1>0, <1>1, <1>3, TruthKept

LEMMA NextTruthful == EvidenceInv /\ Truthful /\ [Next]_vars => Truthful'
  <1> SUFFICES ASSUME EvidenceInv, Truthful, [Next]_vars PROVE Truthful'
    OBVIOUS
  <1> USE DEF ledger, progress, bus, worker, history
  <1>0. /\ authority \in [Tasks -> {"none", "reserved", "started"}]
        /\ outcome \in [Tasks -> {"null", "unknown", "sent", "failed"}]
        /\ pendingSend \in [Tasks -> Kinds \cup {"none"}]
        /\ delivered \subseteq Tasks
    BY DEF EvidenceInv, TypeInv, TypeOK
  \* A step that adds no answer and leaves the sends alone.
  <1>a. ASSUME UNCHANGED <<authority, stored, outcome, pendingSend, calls, delivered, unopened>>,
               results' \subseteq results
        PROVE  Truthful'
    <2>1. \A x \in Tasks : NotFailed(x) => NotFailed(x)'
      BY <1>a DEF NotFailed
    <2> QED
      BY <1>0, <1>a, <2>1, TruthKept
  <1>1. ASSUME NEW r \in Runs, Handler(r) PROVE Truthful'
    <2>1. CASE Reserve(r)
      <3> DEFINE t == TaskOf[r]
      <3>1. /\ t \in Tasks /\ authority[t] = "none"
            /\ authority' = [authority EXCEPT ![t] = "reserved"]
            /\ outcome' = [outcome EXCEPT ![t] = "unknown"]
            /\ UNCHANGED <<stored, results, pendingSend, calls, delivered, unopened>>
        BY <2>1, RunAssumption DEF Reserve
      <3>2. \A x \in Tasks : NotFailed(x) => NotFailed(x)'
        BY <1>0, <3>1 DEF NotFailed
      <3>3. \A x \in Tasks : authority[x] = "started" => authority'[x] = "started"
        BY <1>0, <3>1
      <3> QED
        BY <1>0, <3>1, <3>2, <3>3, TruthKept
    <2>2. CASE ~Reserve(r)
      <3>1. UNCHANGED <<authority, stored, outcome, results, pendingSend, calls>>
        BY <1>1, <2>2, HandlerSteps DEF core
      <3>2. UNCHANGED <<delivered, unopened>>
        BY <1>1, <2>2
        DEF Handler, Pick, Activate, Admit, TurnAway, EndUnsent, ClaimStep, RefuseReserve,
            RecordRefusal, Publish, RecordUnsure, Bury, Stamp, Complete, Crash
      <3> QED
        BY <1>a, <3>1, <3>2
    <2> QED
      BY <2>1, <2>2
  <1>2. ASSUME NEW e \in Execs, Worker(e) PROVE Truthful'
    BY <1>2, WorkerTruthful
  <1>3. CASE CrashWorker
    <2>1. /\ UNCHANGED <<authority, stored, outcome, results, calls, delivered, unopened>>
          /\ \A x \in Tasks : pendingSend'[x] = "none"
      BY <1>3 DEF CrashWorker
    <2>2. \A x \in Tasks : NotFailed(x) => NotFailed(x)'
      BY <2>1 DEF NotFailed, Failures
    <2> QED
      BY <1>0, <2>1, <2>2, TruthKept
  <1>4. ASSUME NEW t \in Tasks, OwnerCancel(t) \/ DropCommand(t) PROVE Truthful'
    BY <1>a, <1>4 DEF OwnerCancel, DropCommand
  <1>5. ASSUME NEW t \in Tasks, Recovery(t) PROVE Truthful'
    <2>1. CASE ReplayStored(t)
      <3>1. stored[t] \in Kinds /\ (NotFailed(t) => stored[t] \notin Failures)
        BY <2>1 DEF ReplayStored, NotFailed, EvidenceInv, TypeInv, TypeOK
      <3> QED
        BY <2>1, <3>1, AnswerTruthful DEF ReplayStored
    <2>2. CASE ReclaimStuck(t)
      <3>1. \E k \in Kinds : Apply(t, k) /\ k \notin Failures
        BY <2>2 DEF ReclaimStuck, Kinds, Failures
      <3> QED
        BY <3>1, AnswerTruthful
    <2>3. CASE RecoverUnstarted(t)
      <3>1. /\ authority[t] = "reserved"
            /\ outcome' = [outcome EXCEPT ![t] = "failed"]
            /\ UNCHANGED <<results, stored, authority, pendingSend, calls, delivered, unopened>>
        BY <2>3 DEF RecoverUnstarted, CancelOutbound
      <3>2. \A x \in Tasks : NotFailed(x) => NotFailed(x)'
        BY <1>0, <3>1 DEF NotFailed
      <3> QED
        BY <1>0, <3>1, <3>2, TruthKept
    <2>4. CASE LiftStarted(t) \/ Isolate(t)
      BY <1>a, <2>4 DEF LiftStarted, Isolate
    <2> QED
      BY <1>5, <2>1, <2>2, <2>3, <2>4 DEF Recovery
  <1>6. ASSUME NEW x \in results, ConsumeResult(x[1], x[2]) PROVE Truthful'
    <2>1. x[1] \in Tasks /\ x[2] \in Kinds /\ <<x[1], x[2]>> \in results
      BY <1>6 DEF ConsumeResult, EvidenceInv, TypeInv, TypeOK
    <2>2. NotFailed(x[1]) => x[2] \notin Failures
      BY <2>1 DEF NotFailed
    <2> QED
      BY <1>6, <2>1, <2>2, AnswerTruthful DEF ConsumeResult
  <1>7. ASSUME NEW x \in results, DropResult(x) PROVE Truthful'
    BY <1>a, <1>7 DEF DropResult
  <1>8. ASSUME NEW m \in Mailboxes, ReleaseRefusal(m) \/ ResolveConflict(m) PROVE Truthful'
    BY <1>a, <1>8 DEF ReleaseRefusal, ResolveConflict
  <1>9. CASE UNCHANGED vars
    BY <1>a, <1>9 DEF vars
  <1> QED
    BY <1>1, <1>2, <1>3, <1>4, <1>5, <1>6, <1>7, <1>8, <1>9 DEF Next

-----------------------------------------------------------------------------
(* Delivered steps *)

\* A delivered send that was not reported failed before it began is pursued:
\* it holds its step.
LEMMA DeliveredPursued ==
    ASSUME EvidenceInv, Truthful, NEW t \in delivered \ unopened, IsCampaign(t)
    PROVE  t \in Tasks /\ Pursued(t)
  <1>1. t \in Tasks
    BY DEF EvidenceInv, TypeInv, TypeOK
  <1>2. authority[t] = "started"
    BY DEF Truthful, DeliveredAsked
  <1>3. outcome[t] # "failed"
    BY <1>1, <1>2 DEF Truthful, Undecided, NotFailed
  <1> QED
    BY <1>1, <1>2, <1>3 DEF Pursued

StepsInv == EvidenceInv /\ HandedOut /\ StepInv /\ Truthful

LEMMA InitStepsInv == Init => StepsInv
  <1> SUFFICES ASSUME Init PROVE StepsInv
    OBVIOUS
  <1>1. \A r \in Runs : run[r] = "idle" /\ ~Ready(r)
    BY DEF Init, Untouched, Ready
  <1>2. HandedOut
    BY <1>1 DEF Init, Untouched, HandedOut, IdleExec
  <1>3. StepInv
    BY <1>1 DEF Init, Untouched, StepInv, SlotShape, ClaimsExclusive, PursuedOwns, Pursued,
                FreeSlot
  <1>4. Truthful
    BY DEF Init, Untouched, Truthful, DeliveredAsked, NotFailed, Failures
  <1> QED
    BY <1>2, <1>3, <1>4, InitEvidence DEF StepsInv

LEMMA NextStepsInv == StepsInv /\ [Next]_vars => StepsInv'
  BY NextEvidence, NextHands, NextSteps, NextTruthful DEF StepsInv

\* The step of a delivered email is never offered again, whatever is walked
\* back, released or recovered, and even when a task is fired several times
\* (ReserveSend, ReleaseSend and WalkBackSend in pg_campaign_progress.go).
THEOREM StepStaysClaimed == Spec => []DeliveredStepClaimed
  <1>1. StepsInv => DeliveredStepClaimed
    <2> SUFFICES ASSUME StepsInv, NEW t \in delivered \ unopened, IsCampaign(t)
                 PROVE  slot[StepOf[t]].dispatched
      BY DEF DeliveredStepClaimed
    <2>1. t \in Tasks /\ Pursued(t)
      BY DeliveredPursued DEF StepsInv
    <2>2. slot[StepOf[t]].task = t /\ StepOf[t] \in Steps
      BY <2>1, StepAssumption DEF StepsInv, StepInv, PursuedOwns, IsCampaign
    <2> QED
      BY <2>1, <2>2, NoneAssumption DEF StepsInv, StepInv, SlotShape
  <1> QED
    BY InitStepsInv, NextStepsInv, <1>1, PTL DEF Spec

\* A step reaches its lead once: of two sends of one step at most one is
\* delivered, because both would have to own the step, also when their tasks
\* are fired several times.  As in the property, sends that were reported
\* failed without having begun are left out (ReserveSend, ReleaseSend and
\* WalkBackSend in pg_campaign_progress.go; failSend in event_send_email.go).
THEOREM StepSentOnce == Spec => []NoDoubleDelivery
  <1>1. StepsInv => NoDoubleDelivery
    <2> SUFFICES ASSUME StepsInv,
                        NEW t \in delivered \ unopened, NEW u \in delivered \ unopened,
                        IsCampaign(t), IsCampaign(u), StepOf[t] = StepOf[u]
                 PROVE  t = u
      BY DEF NoDoubleDelivery
    <2>1. t \in Tasks /\ Pursued(t) /\ u \in Tasks /\ Pursued(u)
      BY DeliveredPursued DEF StepsInv
    <2>2. slot[StepOf[t]].task = t /\ slot[StepOf[u]].task = u
      BY <2>1 DEF StepsInv, StepInv, PursuedOwns
    <2> QED
      BY <2>2
  <1> QED
    BY InitStepsInv, NextStepsInv, <1>1, PTL DEF Spec

\* From its reservation until it is refused for good or released, a campaign
\* send owns its step, and no handler is about to reserve another send for it
\* (ReserveSend in pg_campaign_progress.go; ReserveOutbound and cancelOutbound
\* in send_admission.go).
THEOREM StepHasOneSend == Spec => []PursuedOwns
  <1>1. StepsInv => PursuedOwns
    BY DEF StepsInv, StepInv
  <1> QED
    BY InitStepsInv, NextStepsInv, <1>1, PTL DEF Spec

\* An email that left is on record as a failure nowhere: not in the answer the
\* worker stored, not in one it still has to report, not as the outcome.
DeliveredNeverFailed ==
    \A t \in delivered \ unopened :
        /\ outcome[t] # "failed"
        /\ stored[t] \notin Failures /\ pendingSend[t] \notin Failures

\* What went out is never taken for a failure, in any lane, whatever is
\* redelivered, replayed or released; as above, sends that were
\* reported failed without having begun are left out (FinishOutbound in
\* send_admission.go; ApplySendResult in pg_send_recovery.go).
THEOREM DeliveryNotDenied == Spec => []DeliveredNeverFailed
  <1>1. StepsInv => DeliveredNeverFailed
    <2> SUFFICES ASSUME StepsInv, NEW t \in delivered \ unopened
                 PROVE  /\ outcome[t] # "failed"
                        /\ stored[t] \notin Failures /\ pendingSend[t] \notin Failures
      BY DEF DeliveredNeverFailed
    <2>1. t \in Tasks
      BY DEF StepsInv, EvidenceInv, TypeInv, TypeOK
    <2>2. NotFailed(t) /\ authority[t] = "started"
      BY <2>1 DEF StepsInv, Truthful, DeliveredAsked, Undecided
    <2> QED
      BY <2>2 DEF NotFailed
  <1> QED
    BY InitStepsInv, NextStepsInv, <1>1, PTL DEF Spec
=============================================================================
