----------------------------- MODULE ScheduledJobs -----------------------------
(***************************************************************************)
(* One scheduled job, hosted by every replica of a service                 *)
(* (internal/jobrun/jobrun.go), and its row of scheduled_job_runs          *)
(* (internal/repository/pg_job_runs.go).  Each process waits for the time  *)
(* it believes the job is due, claims that slot in the row and runs it; a  *)
(* run can also be asked for, and is taken by whichever process polls      *)
(* first.                                                                  *)
(*                                                                         *)
(* Times are ticks from now: zero is due, a negative time is overdue.  A   *)
(* slot is a value of next_run_at.                                         *)
(***************************************************************************)
EXTENDS Integers

CONSTANTS
    Procs,
    None,
    Interval,    \* of the job
    Offset,      \* phaseOffset: the job's place after a start
    RunOnBoot,   \* whether a start makes the job due
    Late,        \* bound: a process acts on a slot sooner than this after it is due
    MaxRestarts, \* bound on stops and crashes
    MaxFaults    \* bound on store calls that fail

ASSUME TimesAssumption == /\ Interval \in Nat \ {0} /\ Offset \in 0..(Interval - 1)
                          /\ Late \in Nat \ {0, 1} /\ None \notin Int
ASSUME BoundAssumption == RunOnBoot \in BOOLEAN /\ MaxRestarts \in Nat /\ MaxFaults \in Nat

VARIABLES
    next,      \* next_run_at; None before the row exists
    requested, \* run_requested_at is set
    loop,      \* per process, where its Loop is
    due,       \* per process, what its timer is set to
    taken,     \* processes whose poller holds a request it cleared
    token,     \* processes whose loop has a request in its channel
    asked,     \* history: a run was asked for and has not begun
    lost,      \* history: and will not, for a loop or a call ended under it
    spent,     \* history: the slot in the row has been run
    extra,     \* history: runs of a slot that had been run
    unsure,    \* history: claims that failed
    restarts,  \* stops and crashes so far
    faults     \* failed store calls so far

requests == <<requested, taken, token, asked, lost>>
history  == <<spent, extra, unsure>>
bounds   == <<restarts, faults>>
vars     == <<next, loop, due, requests, history, bounds>>

Times == (-Late)..(Interval + Offset)

TypeOK ==
    /\ next \in Times \cup {None}
    /\ loop \in [Procs -> {"down", "register", "wait", "run", "serve", "stopped"}]
    /\ due \in [Procs -> Times]
    /\ requested \in BOOLEAN /\ asked \in BOOLEAN /\ lost \in BOOLEAN /\ spent \in BOOLEAN
    /\ taken \subseteq Procs /\ token \subseteq Procs
    /\ unsure \in 0..MaxFaults /\ extra \in 0..MaxFaults
    /\ restarts \in 0..MaxRestarts /\ faults \in 0..MaxFaults

Init ==
    /\ next = None
    /\ loop = [p \in Procs |-> "down"]
    /\ due = [p \in Procs |-> 0]
    /\ requested = FALSE /\ asked = FALSE /\ lost = FALSE
    /\ taken = {} /\ token = {}
    /\ spent = FALSE /\ extra = 0 /\ unsure = 0
    /\ restarts = 0 /\ faults = 0

-----------------------------------------------------------------------------
Goto(p, l) == loop' = [loop EXCEPT ![p] = l]
Wait(p, t) == due' = [due EXCEPT ![p] = t]

Fault   == faults < MaxFaults /\ faults' = faults + 1 /\ UNCHANGED restarts
Restart == restarts < MaxRestarts /\ restarts' = restarts + 1 /\ UNCHANGED faults

\* The loop takes requests while it waits or runs: it has a channel.
Watching(p) == loop[p] \in {"wait", "run", "serve"}

\* What a start asks for: the job's own offset, after an interval unless it
\* runs on boot.
FirstDue == IF RunOnBoot THEN Offset ELSE Offset + Interval

Boot(p) ==
    /\ loop[p] = "down"
    /\ Goto(p, "register") /\ Wait(p, FirstDue)
    /\ UNCHANGED <<next, requests, history, bounds>>

Earlier(s, t) == IF s < t THEN s ELSE t
Later(s, t)   == IF s < t THEN t ELSE s

\* Mutant: a start sets the job's time anew.
BugRegistered(p) == due[p]

\* Register: the stored time is kept, no later than what the start asks for and
\* no earlier than its offset.
Registered(p) ==
    LET earliest == due[p] - (FirstDue - Offset)
    IN  IF next = None THEN due[p] ELSE Later(earliest, Earlier(next, due[p]))

Register(p) ==
    /\ loop[p] = "register"
    /\ next' = Registered(p)
    /\ Goto(p, "wait") /\ Wait(p, Registered(p))
    /\ UNCHANGED <<requests, history, bounds>>

\* The call fails, whether or not it took effect: the loop goes by its own time.
FailRegister(p) ==
    /\ loop[p] = "register" /\ Fault
    /\ next' \in {next, Registered(p)}
    /\ Goto(p, "wait")
    /\ UNCHANGED <<due, requests, history>>

\* Mutant: one slot too far when slots were missed.
BugNextDue(d) ==
    IF d + Interval > 0 THEN d + Interval ELSE d + ((-d) \div Interval + 2) * Interval

\* nextDue: the first slot of the cadence that is still to come.
NextDue(d) ==
    IF d + Interval > 0 THEN d + Interval ELSE d + ((-d) \div Interval + 1) * Interval

Fires(p) == loop[p] = "wait" /\ due[p] <= 0

\* Mutant: a claim takes whatever slot the row is at.
BugClaims(p) == next # None

\* Claim compares the slot with the row's.
Claims(p) == next = due[p]

\* A run of the slot due[p] begins; it is one too many unless that is the slot in
\* the row, not run so far.
CountRun(p) == extra' = extra + (IF next = due[p] /\ ~spent THEN 0 ELSE 1)

\* The process moves the row on and runs the slot.
WinSlot(p) ==
    /\ Fires(p) /\ Claims(p)
    /\ next' = NextDue(due[p]) /\ Wait(p, NextDue(due[p])) /\ Goto(p, "run")
    /\ CountRun(p) /\ spent' = FALSE
    /\ UNCHANGED <<requests, unsure, bounds>>

\* Mutant: the loser keeps to its own cadence.
BugAfterLoss(p) == NextDue(due[p])

AfterLoss(p) == next

\* Another process has taken the slot: wait for what the row says.
LoseSlot(p) ==
    /\ Fires(p) /\ ~Claims(p) /\ next # None
    /\ Wait(p, AfterLoss(p))
    /\ UNCHANGED <<next, loop, requests, history, bounds>>

\* There is no row, hence nothing to compete over.
RunUnregistered(p) ==
    /\ Fires(p) /\ next = None
    /\ Wait(p, NextDue(due[p])) /\ Goto(p, "run")
    /\ UNCHANGED <<next, requests, history, bounds>>

\* The claim fails, whether or not it took effect: the process runs the slot.
FailClaim(p) ==
    /\ Fires(p) /\ Fault
    /\ \/ Claims(p) /\ next' = NextDue(due[p]) /\ spent' = FALSE
       \/ spent' = (spent \/ next = due[p]) /\ UNCHANGED next
    /\ Wait(p, NextDue(due[p])) /\ Goto(p, "run")
    /\ CountRun(p) /\ unsure' = unsure + 1
    /\ UNCHANGED requests

\* The run is over, well or badly.
EndRun(p) ==
    /\ loop[p] \in {"run", "serve"}
    /\ Goto(p, "wait")
    /\ UNCHANGED <<next, due, requests, history, bounds>>

-----------------------------------------------------------------------------
(* Run requests *)

\* RequestRun, from the admin panel.
Ask ==
    /\ next # None /\ ~asked
    /\ requested' = TRUE /\ asked' = TRUE /\ lost' = FALSE
    /\ UNCHANGED <<next, loop, due, taken, token, history, bounds>>

\* pollRequests clears the request.
Take(p) ==
    /\ Watching(p) /\ p \notin taken
    /\ requested /\ requested' = FALSE
    /\ taken' = taken \cup {p}
    /\ UNCHANGED <<next, loop, due, token, asked, lost, history, bounds>>

\* The answer is lost, and what it cleared with it.
FailTake(p) ==
    /\ Watching(p) /\ p \notin taken /\ Fault
    /\ requested /\ requested' = FALSE /\ lost' = TRUE
    /\ UNCHANGED <<next, loop, due, taken, token, asked, history>>

\* Mutant: a request whose loop has stopped is dropped.
BugHandOver(p) ==
    /\ token' = IF Watching(p) THEN token \cup {p} ELSE token
    /\ UNCHANGED requested

\* Mutant: a loop that is running misses the request.
BugBuffered(p) ==
    IF Watching(p) THEN token' = (IF loop[p] = "wait" THEN token \cup {p} ELSE token) /\ UNCHANGED requested
                   ELSE requested' = TRUE /\ UNCHANGED token

\* takeRequests gives the loop the request.  If it stopped meanwhile the request
\* goes back into the row.
HandOver(p) ==
    IF Watching(p) THEN token' = token \cup {p} /\ UNCHANGED requested
                   ELSE requested' = TRUE /\ UNCHANGED token

Deliver(p) ==
    /\ p \in taken /\ taken' = taken \ {p}
    /\ HandOver(p)
    /\ UNCHANGED <<next, loop, due, asked, lost, history, bounds>>

\* The request cannot be put back.
FailHandBack(p) ==
    /\ p \in taken /\ taken' = taken \ {p}
    /\ ~Watching(p) /\ Fault /\ lost' = TRUE
    /\ UNCHANGED <<next, loop, due, requested, token, asked, history>>

\* The loop runs what was asked for; its schedule stays.
Serve(p) ==
    /\ loop[p] = "wait" /\ p \in token
    /\ token' = token \ {p} /\ asked' = FALSE
    /\ Goto(p, "serve")
    /\ UNCHANGED <<next, due, requested, taken, lost, history, bounds>>

-----------------------------------------------------------------------------
(* Stops, crashes and time *)

\* The process is told to stop: the loop returns, with what its channel holds.
\* If that happens during a claim the slot is taken and not run.
Stop(p) ==
    /\ loop[p] = "register" \/ Watching(p)
    /\ Restart
    /\ \/ UNCHANGED <<next, spent>>
       \/ Fires(p) /\ Claims(p) /\ next' = NextDue(due[p]) /\ spent' = FALSE
    /\ Goto(p, "stopped")
    /\ token' = token \ {p} /\ lost' = (lost \/ p \in token)
    /\ UNCHANGED <<due, requested, taken, asked, extra, unsure>>

\* The process ends, with the requests it has in hand.
End(p) ==
    /\ Goto(p, "down")
    /\ taken' = taken \ {p} /\ token' = token \ {p}
    /\ lost' = (lost \/ p \in taken \cup token)
    /\ UNCHANGED <<next, due, requested, asked, history>>

Exit(p)  == loop[p] = "stopped" /\ End(p) /\ UNCHANGED bounds
Crash(p) == loop[p] # "down" /\ Restart /\ End(p)

Past(t) == IF t = -Late THEN t ELSE t - 1

\* Time passes; a process acts on its timer, and ends its run, in time.
Tick ==
    /\ \A p \in Procs : loop[p] \notin {"down", "stopped"} => due[p] > 1 - Late
    /\ next' = IF next = None THEN None ELSE Past(next)
    /\ due' = [p \in Procs |-> Past(due[p])]
    /\ UNCHANGED <<loop, requests, history, bounds>>

Timer(p) == WinSlot(p) \/ LoseSlot(p) \/ RunUnregistered(p)

Next ==
    \/ \E p \in Procs :
          \/ Boot(p) \/ Register(p) \/ FailRegister(p)
          \/ Timer(p) \/ FailClaim(p) \/ EndRun(p)
          \/ Take(p) \/ FailTake(p) \/ Deliver(p) \/ FailHandBack(p) \/ Serve(p)
          \/ Stop(p) \/ Exit(p) \/ Crash(p)
    \/ Ask
    \/ Tick

Spec == Init /\ [][Next]_vars

-----------------------------------------------------------------------------
(* What the schedule promises *)

\* Each slot is run once, however many processes host the job and however their
\* timers and starts interleave; a claim whose outcome is unknown costs at most
\* one run more.
SlotsRunOnce == extra <= unsure

\* A run that was asked for is in the row, in a poller's hands or in the channel
\* of a loop, whichever loop stops meanwhile, unless a process or a call ended
\* with it.
RequestKept == asked /\ ~lost => requested \/ taken # {} \/ token # {}

\* A start does not put the job off: however often processes start, a job that
\* is due runs after its offset, and one that is not keeps its time.
StartsKeepSchedule ==
    [][\A p \in Procs :
          loop[p] = "register" /\ loop'[p] = "wait" /\ next # None =>
              next' <= Later(next, Offset)]_vars

\* A loop goes on from wherever it is, but for its waits.
Progress(p) == Boot(p) \/ Register(p) \/ EndRun(p) \/ Exit(p)

\* Processes start, end their runs, act on their timers and poll; a loop with
\* both a due timer and a request takes either in the end, as select does.
Fairness ==
    /\ WF_vars(Tick)
    /\ WF_vars(\E p \in Procs : Take(p))
    /\ \A p \in Procs :
          /\ WF_vars(Progress(p)) /\ WF_vars(Deliver(p))
          /\ SF_vars(Timer(p)) /\ SF_vars(Serve(p))

FairSpec == Spec /\ Fairness

\* The job keeps being run by its schedule, whichever process wins or loses a
\* slot, stops or comes back.
JobRuns == []<>(\E p \in Procs : loop[p] = "run")

\* A run that was asked for begins, unless a process or a call ended with it.
RequestServed == asked ~> ~asked \/ lost
=============================================================================
