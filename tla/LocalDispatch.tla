---------------------------- MODULE LocalDispatch ----------------------------
(***************************************************************************)
(* How a due task is fired when there is no cloud queue.  Every backend    *)
(* replica polls Postgres, claims due tasks under a lease and runs each in *)
(* a goroutine of a bounded pool (internal/tasksched/local.go over         *)
(* repository/pg_task.go). The handlers of campaigns and emails then take  *)
(* the execution key of the task, a second lease of its own length, before *)
(* they work (repository/pg_advanced_outreach.go).                         *)
(*                                                                         *)
(* Nothing stops a slow replica from acting on a lease that has lapsed, so *)
(* time is explicit: a clock, in minutes, that every timestamp is taken    *)
(* from.  A statement is an action; a replica may stop in an orderly way   *)
(* or die between any two, and a statement may fail or its answer be lost. *)
(***************************************************************************)
EXTENDS Naturals, FiniteSets

CONSTANTS
    Replicas,    \* backend processes
    Tasks,       \* rows of the tasks table
    Cap,         \* capacity of Local.slots
    Lease,       \* dispatchClaimLease
    RetryDelay,  \* dispatchRetryDelay
    PassLimit,   \* the timeout of a handler's context
    KeyTTL,      \* executionLockTTL
    MaxTime      \* bound of the clock

ASSUME TasksAssumption == IsFiniteSet(Tasks)
ASSUME CapAssumption  == Cap \in Nat \ {0}
ASSUME TimeAssumption == /\ Lease \in Nat \ {0}
                         /\ RetryDelay \in Nat
                         /\ PassLimit \in Nat
                         /\ KeyTTL \in Nat
                         /\ MaxTime \in Nat
ASSUME PassEndsBeforeKey == PassLimit <= KeyTTL

VARIABLES
    now,        \* the clock
    status,     \* tasks.status, as far as dispatch tells statuses apart
    claim,      \* tasks.dispatch_claimed_until; 0 is NULL
    retryAt,    \* tasks.dispatch_retry_at; 0 is NULL
    key,        \* task_execution_keys: status, and last_seen_at while in_progress
    batch,      \* per replica, what tick claimed and has not started yet
    pass,       \* per replica and task, the goroutine between track and untrack
    saving,     \* per replica, goroutines whose last statement is under way
    stopping,   \* per replica, whether Run's context has ended
    forsaken,   \* history: tasks whose lease lost its holder to a failure
    late        \* history: tasks with a pass that took its key on a lapsed lease

table  == <<status, claim, retryAt, key>>
memory == <<batch, pass, saving, stopping>>
vars   == <<now, table, memory, forsaken, late>>

-----------------------------------------------------------------------------
Statuses    == {"pending", "other"}
KeyStatuses == {"absent", "in_progress", "completed", "failed"}
PassPCs     == {"idle", "fired", "duplicate", "restart", "insert", "working",
                "succeeded", "errored"}
Endings     == {"succeeded", "errored", "released"}

IdlePass == [pc |-> "idle", lease |-> 0, claim |-> 0, begun |-> 0]
NoBatch  == [tasks |-> {}, claim |-> 0]
Passes   == [pc : PassPCs, lease : Nat, claim : Nat, begun : Nat]
Savings  == [task : Tasks, claim : Nat \ {0}, ending : Endings]

\* Local.inflight: the latest claim of a task this replica is handling.
Inflight(r) == {t \in Tasks : pass[r][t].pc # "idle"}

\* len(l.slots): a goroutine keeps its slot until its last statement returned.
Busy(r) == Cardinality(Inflight(r)) + Cardinality(saving[r])

\* The claims of a task that a replica knows of and has yet to give back.
Held(r, t) ==
    {c \in {batch[r].claim} : t \in batch[r].tasks}
      \cup {c \in {pass[r][t].lease} : t \in Inflight(r)}
      \cup {x.claim : x \in {y \in saving[r] : y.task = t}}

\* The context of a pass has not ended, so what it writes is still written.
InTime(p) == now < p.begun + PassLimit

\* A pass that has the execution key and can still act on it.
AtWork(r, t) == pass[r][t].pc = "working" /\ InTime(pass[r][t])

TypeOK ==
    /\ now \in Nat
    /\ status \in [Tasks -> Statuses]
    /\ claim \in [Tasks -> Nat]
    /\ retryAt \in [Tasks -> Nat]
    /\ key \in [Tasks -> [status : KeyStatuses, seen : Nat]]
    /\ batch \in [Replicas -> [tasks : SUBSET Tasks, claim : Nat]]
    /\ pass \in [Replicas -> [Tasks -> Passes]]
    /\ saving \in [Replicas -> SUBSET Savings]
    /\ stopping \in [Replicas -> BOOLEAN]
    /\ forsaken \subseteq Tasks
    /\ late \subseteq Tasks

Init ==
    /\ now = 1
    /\ status = [t \in Tasks |-> "pending"]
    /\ claim = [t \in Tasks |-> 0]
    /\ retryAt = [t \in Tasks |-> 0]
    /\ key = [t \in Tasks |-> [status |-> "absent", seen |-> 0]]
    /\ batch = [r \in Replicas |-> NoBatch]
    /\ pass = [r \in Replicas |-> [t \in Tasks |-> IdlePass]]
    /\ saving = [r \in Replicas |-> {}]
    /\ stopping = [r \in Replicas |-> FALSE]
    /\ forsaken = {}
    /\ late = {}

-----------------------------------------------------------------------------
(* The dispatcher *)

\* The mutant forgets the leases of other replicas.
BugDue(t) == status[t] = "pending" /\ retryAt[t] <= now

\* Which tasks ClaimDueTaskIDs may take: pending, at their time, not leased.
Due(t) == status[t] = "pending" /\ retryAt[t] <= now /\ claim[t] <= now

\* The mutant counts the goroutines that handle, not those that still save.
BugFree(r) == Cap - Cardinality(Inflight(r))

\* How many tasks a tick may claim.
Free(r) == Cap - Busy(r)

\* tick claims due tasks for its free slots.  The answer may be lost after the
\* claim is committed; the tasks then wait for the lease to lapse.
ClaimDue(r) ==
    /\ ~stopping[r] /\ batch[r] = NoBatch
    /\ \E S \in SUBSET {t \in Tasks : Due(t)} :
         /\ S # {} /\ Cardinality(S) <= Free(r)
         /\ claim' = [t \in Tasks |-> IF t \in S THEN now + Lease ELSE claim[t]]
         /\ \/ /\ batch' = [batch EXCEPT ![r] = [tasks |-> S, claim |-> now + Lease]]
               /\ forsaken' = forsaken \ S
            \/ /\ forsaken' = forsaken \cup S
               /\ UNCHANGED batch
    /\ UNCHANGED <<now, status, retryAt, key, pass, saving, stopping, late>>

Rest(r, t) ==
    LET left == batch[r].tasks \ {t}
    IN  IF left = {} THEN NoBatch ELSE [batch[r] EXCEPT !.tasks = left]

\* The mutant leaves the claim of a running task as it was.
BugTracked(p, c) ==
    IF p.pc = "idle" THEN [IdlePass EXCEPT !.pc = "fired", !.lease = c] ELSE p

\* track: a task that still runs here only gets the newer claim.
Tracked(p, c) ==
    IF p.pc = "idle" THEN [IdlePass EXCEPT !.pc = "fired", !.lease = c]
                     ELSE [p EXCEPT !.lease = c]

\* tick starts a goroutine for a claimed task.
Fire(r, t) ==
    /\ t \in batch[r].tasks /\ ~stopping[r] /\ Busy(r) < Cap
    /\ batch' = [batch EXCEPT ![r] = Rest(r, t)]
    /\ pass' = [pass EXCEPT ![r][t] = Tracked(@, batch[r].claim)]
    /\ UNCHANGED <<now, table, saving, stopping, forsaken, late>>

\* The mutant asks whether there is a claim, not whose it is.
BugOwns(t, c) == claim[t] # 0

\* Whether clearing the claim c of task t would clear what the row holds.
Owns(t, c) == claim[t] = c

\* tick hands back what it cannot start: Run ends, or no slot is free.
ReleaseBatch(r) ==
    /\ batch[r].tasks # {} /\ (stopping[r] \/ Busy(r) >= Cap)
    /\ LET own == {t \in batch[r].tasks : Owns(t, batch[r].claim)}
       IN  \/ /\ claim' = [t \in Tasks |-> IF t \in own THEN 0 ELSE claim[t]]
              /\ UNCHANGED forsaken
           \/ /\ forsaken' = forsaken \cup own
              /\ UNCHANGED claim
    /\ batch' = [batch EXCEPT ![r] = NoBatch]
    /\ UNCHANGED <<now, status, retryAt, key, pass, saving, stopping, late>>

\* The mutant forgets the claim before it is read.
BugUntrack(r, t) ==
    /\ pass[r][t].pc \in {"succeeded", "errored"}
    /\ pass' = [pass EXCEPT ![r][t] = IdlePass]
    /\ saving' = [saving EXCEPT ![r] = @ \cup
         {[task |-> t, claim |-> IdlePass.lease, ending |-> pass[r][t].pc]}]
    /\ UNCHANGED <<now, table, batch, stopping, forsaken, late>>

\* untrack: the goroutine takes the latest claim of its task and goes on to
\* record the attempt, or to hand the claim back when Run ended meanwhile.  One
\* that has just started looks for the end of Run once, before it calls the
\* handler, which does not look again.
Untrack(r, t) ==
    /\ \/ pass[r][t].pc \in {"succeeded", "errored"}
       \/ pass[r][t].pc = "fired" /\ stopping[r]
    /\ saving' = [saving EXCEPT ![r] = @ \cup
         {[task |-> t, claim |-> pass[r][t].lease,
           ending |-> IF stopping[r] THEN "released" ELSE pass[r][t].pc]}]
    /\ pass' = [pass EXCEPT ![r][t] = IdlePass]
    /\ UNCHANGED <<now, table, batch, stopping, forsaken, late>>

\* The mutant clears whoever's claim the row holds.
BugCleared(t, c) == [claim EXCEPT ![t] = 0]

\* Only our own claim is cleared.
Cleared(t, c) == IF Owns(t, c) THEN [claim EXCEPT ![t] = 0] ELSE claim

Later(a, b) == IF a < b THEN b ELSE a

\* RecordDispatchAttempt after a pass without an error.  A task the pass put
\* back for a later slot is pending without a retry.
RecordSuccess(r, x) ==
    /\ x.ending = "succeeded" /\ ~stopping[r]
    /\ claim' = Cleared(x.task, x.claim)
    /\ \E at \in IF status[x.task] = "pending"
                   THEN {0, Later(retryAt[x.task], now + RetryDelay)} ELSE {0} :
         retryAt' = [retryAt EXCEPT ![x.task] = at]
    /\ UNCHANGED forsaken

\* RecordDispatchAttempt after an error: a row that is no longer pending is
\* left alone, its claim too.
RecordFailure(r, x) ==
    /\ x.ending = "errored" /\ ~stopping[r]
    /\ \/ /\ status[x.task] = "pending"
          /\ claim' = Cleared(x.task, x.claim)
          /\ retryAt' = [retryAt EXCEPT ![x.task] = now + RetryDelay]
          /\ UNCHANGED forsaken
       \/ /\ status[x.task] # "pending"
          /\ forsaken' = forsaken \cup {t \in {x.task} : Owns(t, x.claim)}
          /\ UNCHANGED <<claim, retryAt>>

\* ReleaseDispatchClaims, on a context of its own, by a goroutine that finds
\* Run's context ended.
RecordRelease(r, x) ==
    /\ x.ending = "released" \/ stopping[r]
    /\ claim' = Cleared(x.task, x.claim)
    /\ UNCHANGED <<retryAt, forsaken>>

\* The statement fails, or Run's context ends first: the lease has to lapse.
RecordLost(r, x) ==
    /\ forsaken' = forsaken \cup {t \in {x.task} : Owns(t, x.claim)}
    /\ UNCHANGED <<claim, retryAt>>

Record(r) ==
    \E x \in saving[r] :
      /\ \/ RecordSuccess(r, x) \/ RecordFailure(r, x)
         \/ RecordRelease(r, x) \/ RecordLost(r, x)
      /\ saving' = [saving EXCEPT ![r] = @ \ {x}]
      /\ UNCHANGED <<now, status, key, batch, pass, stopping, late>>

-----------------------------------------------------------------------------
(* The handler *)

Expired(k) == now - k.seen >= KeyTTL

\* The mutant takes over whatever is not completed.
BugVerdict(k) ==
    CASE k.status = "absent" -> "insert"
      [] k.status \in {"failed", "in_progress"} -> "restart"
      [] OTHER -> "duplicate"

\* What StartTaskExecution makes of the row it reads: whole minutes have passed
\* since last_seen_at when the code finds more than KeyTTL elapsed.
Verdict(k) ==
    CASE k.status = "absent" -> "insert"
      [] k.status = "failed" -> "restart"
      [] k.status = "in_progress" /\ Expired(k) -> "restart"
      [] OTHER -> "duplicate"

\* The handler's context begins and StartTaskExecution reads the key.
ReadKey(r, t) ==
    /\ pass[r][t].pc = "fired"
    /\ pass' = [pass EXCEPT ![r][t] = [@ EXCEPT
         !.pc = Verdict(key[t]), !.claim = pass[r][t].lease, !.begun = now]]
    /\ UNCHANGED <<now, table, batch, saving, stopping, forsaken, late>>

SetPass(r, t, pc) == pass' = [pass EXCEPT ![r][t].pc = pc]

\* A duplicate only leaves a trace, which extends the lease of the key.
TouchKey(r, t) ==
    /\ pass[r][t].pc = "duplicate" /\ InTime(pass[r][t])
    /\ key' = IF key[t].status = "in_progress" THEN [key EXCEPT ![t].seen = now] ELSE key
    /\ SetPass(r, t, "succeeded")
    /\ UNCHANGED late

\* Any other reader takes the key over, whatever became of it since the read.
TakeKey(r, t) ==
    /\ \/ pass[r][t].pc = "restart"
       \/ pass[r][t].pc = "insert" /\ key[t].status = "absent"
    /\ InTime(pass[r][t])
    /\ key' = [key EXCEPT ![t] = [status |-> "in_progress", seen |-> now]]
    /\ SetPass(r, t, "working")
    /\ late' = IF pass[r][t].claim > now THEN late ELSE late \cup {t}

\* The insert meets a row that was not there, or a statement fails; a
\* duplicate ignores the error.
MissKey(r, t) ==
    /\ pass[r][t].pc \in {"fired", "duplicate", "restart", "insert"}
    /\ SetPass(r, t, IF pass[r][t].pc = "duplicate" THEN "succeeded" ELSE "errored")
    /\ UNCHANGED <<key, late>>

WriteKey(r, t) ==
    /\ TouchKey(r, t) \/ TakeKey(r, t) \/ MissKey(r, t)
    /\ UNCHANGED <<now, status, claim, retryAt, batch, saving, stopping, forsaken>>

\* What a pass does to its task: nothing here depends on which status it writes.
Work(r, t) ==
    /\ AtWork(r, t)
    /\ \E st \in Statuses : status' = [status EXCEPT ![t] = st]
    /\ UNCHANGED <<now, claim, retryAt, key, memory, forsaken, late>>

\* The pass returns; the deferred CompleteTaskExecution runs on its context, so
\* the key stays in_progress when that has ended, or when the statement fails.
EndPass(r, t) ==
    /\ pass[r][t].pc = "working"
    /\ \/ /\ InTime(pass[r][t])
          /\ \E st \in {"completed", "failed"} :
               key' = [key EXCEPT ![t] = [status |-> st, seen |-> 0]]
       \/ UNCHANGED key
    /\ \E pc \in {"succeeded", "errored"} : SetPass(r, t, pc)
    /\ UNCHANGED <<now, status, claim, retryAt, batch, saving, stopping,
                   forsaken, late>>

-----------------------------------------------------------------------------
(* Processes and time *)

\* SIGTERM: Run's context ends while goroutines still run.
Stop(r) ==
    /\ ~stopping[r]
    /\ stopping' = [stopping EXCEPT ![r] = TRUE]
    /\ UNCHANGED <<now, table, batch, pass, saving, forsaken, late>>

\* The process exits, in order or not, and another takes its place.
Die(r) ==
    /\ batch' = [batch EXCEPT ![r] = NoBatch]
    /\ pass' = [pass EXCEPT ![r] = [t \in Tasks |-> IdlePass]]
    /\ saving' = [saving EXCEPT ![r] = {}]
    /\ stopping' = [stopping EXCEPT ![r] = FALSE]
    /\ forsaken' = forsaken \cup {t \in Tasks : claim[t] \in Held(r, t)}
    /\ UNCHANGED <<now, table, late>>

Tick ==
    /\ now < MaxTime
    /\ now' = now + 1
    /\ UNCHANGED <<table, memory, forsaken, late>>

Next ==
    \/ Tick
    \/ \E r \in Replicas :
         \/ ClaimDue(r) \/ ReleaseBatch(r) \/ Record(r) \/ Stop(r) \/ Die(r)
         \/ \E t \in Tasks : \/ Fire(r, t) \/ Untrack(r, t) \/ ReadKey(r, t)
                             \/ WriteKey(r, t) \/ Work(r, t) \/ EndPass(r, t)

Spec == Init /\ [][Next]_vars

-----------------------------------------------------------------------------
(* Properties *)

\* A lease that has not lapsed has one holder at most: "each due task is fired
\* by one dispatcher" (pg_task.go, ClaimDueTaskIDs), also when a replica claims
\* again what it still runs.
OneHolder ==
    \A r1, r2 \in Replicas, t \in Tasks :
      \A c1 \in Held(r1, t), c2 \in Held(r2, t) :
        c1 > now /\ c2 > now => r1 = r2 /\ c1 = c2

\* No step ends or replaces a running lease but that of the replica that holds
\* it (local.go and pg_task.go compare the claim before they clear it).
LeaseEndsByHolder ==
    [][\A t \in Tasks : claim[t] > now /\ claim'[t] # claim[t] =>
         \E r \in Replicas : claim[t] \in Held(r, t) /\ claim[t] \notin Held(r, t)']_vars

\* A running lease is known to a replica that will give it back, unless a
\* process or a statement failed: no healthy task waits for a lease to lapse
\* (local.go, track, untrack and release).
LeaseHasHolder ==
    \A t \in Tasks : claim[t] > now /\ t \notin forsaken =>
      \E r \in Replicas : claim[t] \in Held(r, t)

\* What tick claims always finds a slot, so no claim is handed back for the
\* want of one (local.go, tick: the limit it computes before it claims).
ClaimsFit ==
    \A r \in Replicas : Busy(r) + Cardinality(batch[r].tasks) <= Cap

\* Two passes of one task never work at the same time, unless one of them took
\* the execution key on a dispatch lease that had lapsed: neither lease alone
\* shows it, since a pass may outlive its dispatch lease.
OverlapOnlyIfLate ==
    \A r1, r2 \in Replicas, t \in Tasks :
      AtWork(r1, t) /\ AtWork(r2, t) => r1 = r2 \/ t \in late

\* The abstract view of the dispatcher: which leases run, and who holds them.
Until == [t \in Tasks |-> IF claim[t] > now THEN claim[t] ELSE 0]
Holders == [t \in Tasks |-> {r \in Replicas : claim[t] > now /\ claim[t] \in Held(r, t)}]

Abstract == INSTANCE DispatchLease WITH until <- Until, holders <- Holders

\* The dispatcher implements the lease of DispatchLease: what claims, moves,
\* saves, loses and clears a claim in many steps and places amounts to taking a
\* lease that does not run, giving it back by its holder, or leaving it to lapse.
ImplementsLease == Abstract!Spec
=============================================================================
