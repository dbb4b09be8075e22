-------------------------- MODULE ScheduledJobsProofs --------------------------
(***************************************************************************)
(* Proofs about ScheduledJobs, for any processes, interval, offset and     *)
(* bounds: the types, that a slot is run once but for claims that failed,  *)
(* that a run that was asked for is kept, and that starts keep the         *)
(* schedule.                                                               *)
(***************************************************************************)
EXTENDS ScheduledJobs, TLAPS

-----------------------------------------------------------------------------
(* Slots and their times *)

LEMMA Division ==
    ASSUME NEW i \in Nat \ {0}, NEW n \in Nat
    PROVE  n \div i \in Nat /\ i * (n \div i) <= n /\ n < i * (n \div i) + i
  BY Z3

\* The next slot is to come, within an interval.
LEMMA NextDueToCome == ASSUME NEW d \in Int, d <= 0 PROVE NextDue(d) \in 1..Interval
  <1> USE TimesAssumption
  <1>1. CASE d + Interval > 0
    BY <1>1 DEF NextDue
  <1>2. CASE ~(d + Interval > 0)
    <2> DEFINE q == (-d) \div Interval
    <2>1. q \in Nat /\ Interval * q <= -d /\ -d < Interval * q + Interval
      BY Division
    <2>2. NextDue(d) = d + (q + 1) * Interval
      BY <1>2 DEF NextDue
    <2> HIDE DEF q
    <2>3. (q + 1) * Interval = Interval * q + Interval
      BY <2>1
    <2> QED BY <2>1, <2>2, <2>3
  <1> QED BY <1>1, <1>2

\* A process that has not registered waits for what a start asks for, at most.
TimesOK ==
    /\ next \in Times \cup {None}
    /\ due \in [Procs -> Times]
    /\ \A p \in Procs : loop[p] = "register" => due[p] <= FirstDue

LoopsOK ==
    /\ loop \in [Procs -> {"down", "register", "wait", "run", "serve", "stopped"}]
    /\ taken \subseteq Procs /\ token \subseteq Procs

FlagsOK ==
    requested \in BOOLEAN /\ asked \in BOOLEAN /\ lost \in BOOLEAN /\ spent \in BOOLEAN

\* A slot that has been run and is still in the row was run under a failed claim,
\* which is paid for by at most one run more.
RunsOK ==
    /\ extra \in Nat /\ unsure \in Nat
    /\ (spent => extra + 1 <= unsure) /\ extra <= unsure

BoundsOK == restarts \in 0..MaxRestarts /\ faults \in 0..MaxFaults /\ unsure <= faults

JInv == TimesOK /\ LoopsOK /\ FlagsOK /\ RunsOK /\ BoundsOK

LEMMA TypesMeant == JInv => TypeOK
  <1> SUFFICES ASSUME JInv PROVE TypeOK
    OBVIOUS
  <1>1. extra \in 0..MaxFaults /\ unsure \in 0..MaxFaults
    BY BoundAssumption DEF JInv, RunsOK, BoundsOK
  <1>2. spent \in BOOLEAN
    BY DEF JInv, FlagsOK
  <1>3. restarts \in 0..MaxRestarts /\ faults \in 0..MaxFaults
    BY DEF JInv, BoundsOK
  <1> QED BY <1>1, <1>2, <1>3 DEF JInv, TimesOK, LoopsOK, FlagsOK, TypeOK

LEMMA FirstDueTyped == FirstDue \in Offset..(Offset + Interval) /\ FirstDue \in Nat
  BY TimesAssumption, BoundAssumption DEF FirstDue

LEMMA TypesInit == Init => JInv
  <1> SUFFICES ASSUME Init PROVE JInv
    OBVIOUS
  <1>1. TimesOK
    BY TimesAssumption DEF Init, TimesOK, Times
  <1>2. LoopsOK
    BY DEF Init, LoopsOK
  <1>3. FlagsOK
    BY DEF Init, FlagsOK
  <1>4. RunsOK
    BY DEF Init, RunsOK
  <1>5. BoundsOK
    BY BoundAssumption DEF Init, BoundsOK
  <1> QED BY <1>1, <1>2, <1>3, <1>4, <1>5 DEF JInv

\* What a start sets is within bounds, and puts off nothing past the offset.
LEMMA RegisteredTyped ==
    ASSUME TimesOK, NEW p \in Procs, loop[p] = "register"
    PROVE  /\ Registered(p) \in Times
           /\ next # None => Registered(p) <= Later(next, Offset)
  BY TimesAssumption, FirstDueTyped DEF TimesOK, Times, Registered, Later, Earlier

LEMMA PastTyped == \A t \in Times : Past(t) \in Times /\ Past(t) <= t
  BY TimesAssumption DEF Times, Past

LEMMA SlotTyped ==
    ASSUME TimesOK, NEW p \in Procs, Fires(p)
    PROVE  NextDue(due[p]) \in Times
  <1>1. due[p] \in Int /\ due[p] <= 0
    BY TimesAssumption DEF TimesOK, Times, Fires
  <1>2. NextDue(due[p]) \in 1..Interval
    BY <1>1, NextDueToCome
  <1> QED BY <1>2, TimesAssumption DEF Times

LEMMA TimesStep == ASSUME JInv, Next PROVE TimesOK'
  <1>1. ASSUME NEW p \in Procs, Boot(p) PROVE TimesOK'
    BY <1>1, FirstDueTyped, TimesAssumption DEF Boot, Goto, Wait, requests, history,
       bounds, JInv, TimesOK, LoopsOK, Times
  <1>2. ASSUME NEW p \in Procs, Register(p) PROVE TimesOK'
    BY <1>2, RegisteredTyped DEF Register, Goto, Wait, requests, history, bounds, JInv,
       TimesOK, LoopsOK
  <1>3. ASSUME NEW p \in Procs, FailRegister(p) PROVE TimesOK'
    BY <1>3, RegisteredTyped DEF FailRegister, Goto, requests, history, JInv, TimesOK,
       LoopsOK
  <1>4. ASSUME NEW p \in Procs, WinSlot(p) PROVE TimesOK'
    <2>1. Fires(p) => NextDue(due[p]) \in Times
      BY SlotTyped DEF JInv
    <2> QED BY <1>4, <2>1 DEF WinSlot, Goto, Wait, requests, bounds, JInv, TimesOK, LoopsOK
  <1>5. ASSUME NEW p \in Procs, LoseSlot(p) PROVE TimesOK'
    BY <1>5 DEF LoseSlot, Wait, Fires, AfterLoss, requests, history, bounds, JInv, TimesOK,
       LoopsOK
  <1>6. ASSUME NEW p \in Procs, RunUnregistered(p) PROVE TimesOK'
    <2>1. Fires(p) => NextDue(due[p]) \in Times
      BY SlotTyped DEF JInv
    <2> QED BY <1>6, <2>1 DEF RunUnregistered, Goto, Wait, requests, history, bounds, JInv,
               TimesOK, LoopsOK
  <1>7. ASSUME NEW p \in Procs, FailClaim(p) PROVE TimesOK'
    <2>1. Fires(p) => NextDue(due[p]) \in Times
      BY SlotTyped DEF JInv
    <2> QED BY <1>7, <2>1 DEF FailClaim, Goto, Wait, requests, JInv, TimesOK, LoopsOK
  <1>8. ASSUME NEW p \in Procs, EndRun(p) PROVE TimesOK'
    BY <1>8 DEF EndRun, Goto, requests, history, bounds, JInv, TimesOK, LoopsOK
  <1>9. ASSUME NEW p \in Procs, Take(p) PROVE TimesOK'
    BY <1>9 DEF Take, history, bounds, JInv, TimesOK, LoopsOK
  <1>10. ASSUME NEW p \in Procs, FailTake(p) PROVE TimesOK'
    BY <1>10 DEF FailTake, history, JInv, TimesOK, LoopsOK
  <1>11. ASSUME NEW p \in Procs, Deliver(p) PROVE TimesOK'
    BY <1>11 DEF Deliver, history, bounds, JInv, TimesOK, LoopsOK
  <1>12. ASSUME NEW p \in Procs, FailHandBack(p) PROVE TimesOK'
    BY <1>12 DEF FailHandBack, history, JInv, TimesOK, LoopsOK
  <1>13. ASSUME NEW p \in Procs, Serve(p) PROVE TimesOK'
    BY <1>13 DEF Serve, Goto, history, bounds, JInv, TimesOK, LoopsOK
  <1>14. ASSUME NEW p \in Procs, Stop(p) PROVE TimesOK'
    <2>1. Fires(p) => NextDue(due[p]) \in Times
      BY SlotTyped DEF JInv
    <2> QED BY <1>14, <2>1 DEF Stop, Goto, JInv, TimesOK, LoopsOK
  <1>15. ASSUME NEW p \in Procs, Exit(p) PROVE TimesOK'
    BY <1>15 DEF Exit, End, Goto, history, bounds, JInv, TimesOK, LoopsOK
  <1>16. ASSUME NEW p \in Procs, Crash(p) PROVE TimesOK'
    BY <1>16 DEF Crash, End, Goto, history, JInv, TimesOK, LoopsOK
  <1>17. ASSUME Ask PROVE TimesOK'
    BY <1>17 DEF Ask, history, bounds, JInv, TimesOK, LoopsOK
  <1>18. ASSUME Tick PROVE TimesOK'
    <2>1. next' \in Times \cup {None}
      BY <1>18, PastTyped DEF Tick, JInv, TimesOK
    <2>2. due' \in [Procs -> Times]
      BY <1>18, PastTyped DEF Tick, JInv, TimesOK
    <2>3. ASSUME NEW p \in Procs, loop'[p] = "register" PROVE due'[p] <= FirstDue
      <3>1. due[p] <= FirstDue /\ due'[p] = Past(due[p]) /\ due[p] \in Times
        BY <1>18, <2>3 DEF Tick, JInv, TimesOK
      <3>2. Past(due[p]) <= due[p] /\ Past(due[p]) \in Times
        BY <3>1, PastTyped
      <3> QED BY <3>1, <3>2, FirstDueTyped, TimesAssumption DEF Times
    <2> QED BY <2>1, <2>2, <2>3 DEF TimesOK
  <1> QED BY <1>1, <1>2, <1>3, <1>4, <1>5, <1>6, <1>7, <1>8, <1>9, <1>10, <1>11, <1>12,
             <1>13, <1>14, <1>15, <1>16, <1>17, <1>18 DEF Next, Timer

LEMMA LoopsStep == ASSUME JInv, Next PROVE LoopsOK'
  <1>1. ASSUME NEW p \in Procs, Boot(p) PROVE LoopsOK'
    BY <1>1 DEF Boot, Goto, requests, history, bounds, JInv, LoopsOK
  <1>2. ASSUME NEW p \in Procs, Register(p) PROVE LoopsOK'
    BY <1>2 DEF Register, Goto, requests, history, bounds, JInv, LoopsOK
  <1>3. ASSUME NEW p \in Procs, FailRegister(p) PROVE LoopsOK'
    BY <1>3 DEF FailRegister, Goto, requests, history, JInv, LoopsOK
  <1>4. ASSUME NEW p \in Procs, WinSlot(p) PROVE LoopsOK'
    BY <1>4 DEF WinSlot, Goto, requests, bounds, JInv, LoopsOK
  <1>5. ASSUME NEW p \in Procs, LoseSlot(p) PROVE LoopsOK'
    BY <1>5 DEF LoseSlot, requests, history, bounds, JInv, LoopsOK
  <1>6. ASSUME NEW p \in Procs, RunUnregistered(p) PROVE LoopsOK'
    BY <1>6 DEF RunUnregistered, Goto, requests, history, bounds, JInv, LoopsOK
  <1>7. ASSUME NEW p \in Procs, FailClaim(p) PROVE LoopsOK'
    BY <1>7 DEF FailClaim, Goto, requests, JInv, LoopsOK
  <1>8. ASSUME NEW p \in Procs, EndRun(p) PROVE LoopsOK'
    BY <1>8 DEF EndRun, Goto, requests, history, bounds, JInv, LoopsOK
  <1>9. ASSUME NEW p \in Procs, Take(p) PROVE LoopsOK'
    BY <1>9 DEF Take, history, bounds, JInv, LoopsOK
  <1>10. ASSUME NEW p \in Procs, FailTake(p) PROVE LoopsOK'
    BY <1>10 DEF FailTake, history, JInv, LoopsOK
  <1>11. ASSUME NEW p \in Procs, Deliver(p) PROVE LoopsOK'
    BY <1>11 DEF Deliver, HandOver, history, bounds, JInv, LoopsOK
  <1>12. ASSUME NEW p \in Procs, FailHandBack(p) PROVE LoopsOK'
    BY <1>12 DEF FailHandBack, history, JInv, LoopsOK
  <1>13. ASSUME NEW p \in Procs, Serve(p) PROVE LoopsOK'
    BY <1>13 DEF Serve, Goto, history, bounds, JInv, LoopsOK
  <1>14. ASSUME NEW p \in Procs, Stop(p) PROVE LoopsOK'
    BY <1>14 DEF Stop, Goto, JInv, LoopsOK
  <1>15. ASSUME NEW p \in Procs, Exit(p) PROVE LoopsOK'
    BY <1>15 DEF Exit, End, Goto, history, bounds, JInv, LoopsOK
  <1>16. ASSUME NEW p \in Procs, Crash(p) PROVE LoopsOK'
    BY <1>16 DEF Crash, End, Goto, history, JInv, LoopsOK
  <1>17. ASSUME Ask PROVE LoopsOK'
    BY <1>17 DEF Ask, history, bounds, JInv, LoopsOK
  <1>18. ASSUME Tick PROVE LoopsOK'
    BY <1>18 DEF Tick, requests, history, bounds, JInv, LoopsOK
  <1> QED BY <1>1, <1>2, <1>3, <1>4, <1>5, <1>6, <1>7, <1>8, <1>9, <1>10, <1>11, <1>12,
             <1>13, <1>14, <1>15, <1>16, <1>17, <1>18 DEF Next, Timer

LEMMA FlagsStep == ASSUME JInv, Next PROVE FlagsOK'
  <1>1. ASSUME NEW p \in Procs, Boot(p) PROVE FlagsOK'
    BY <1>1 DEF Boot, requests, history, bounds, JInv, FlagsOK
  <1>2. ASSUME NEW p \in Procs, Register(p) PROVE FlagsOK'
    BY <1>2 DEF Register, requests, history, bounds, JInv, FlagsOK
  <1>3. ASSUME NEW p \in Procs, FailRegister(p) PROVE FlagsOK'
    BY <1>3 DEF FailRegister, requests, history, JInv, FlagsOK
  <1>4. ASSUME NEW p \in Procs, WinSlot(p) PROVE FlagsOK'
    BY <1>4 DEF WinSlot, requests, bounds, JInv, FlagsOK
  <1>5. ASSUME NEW p \in Procs, LoseSlot(p) PROVE FlagsOK'
    BY <1>5 DEF LoseSlot, requests, history, bounds, JInv, FlagsOK
  <1>6. ASSUME NEW p \in Procs, RunUnregistered(p) PROVE FlagsOK'
    BY <1>6 DEF RunUnregistered, requests, history, bounds, JInv, FlagsOK
  <1>7. ASSUME NEW p \in Procs, FailClaim(p) PROVE FlagsOK'
    BY <1>7 DEF FailClaim, requests, JInv, FlagsOK
  <1>8. ASSUME NEW p \in Procs, EndRun(p) PROVE FlagsOK'
    BY <1>8 DEF EndRun, requests, history, bounds, JInv, FlagsOK
  <1>9. ASSUME NEW p \in Procs, Take(p) PROVE FlagsOK'
    BY <1>9 DEF Take, history, bounds, JInv, FlagsOK
  <1>10. ASSUME NEW p \in Procs, FailTake(p) PROVE FlagsOK'
    BY <1>10 DEF FailTake, history, JInv, FlagsOK
  <1>11. ASSUME NEW p \in Procs, Deliver(p) PROVE FlagsOK'
    BY <1>11 DEF Deliver, HandOver, history, bounds, JInv, FlagsOK
  <1>12. ASSUME NEW p \in Procs, FailHandBack(p) PROVE FlagsOK'
    BY <1>12 DEF FailHandBack, history, JInv, FlagsOK
  <1>13. ASSUME NEW p \in Procs, Serve(p) PROVE FlagsOK'
    BY <1>13 DEF Serve, history, bounds, JInv, FlagsOK
  <1>14. ASSUME NEW p \in Procs, Stop(p) PROVE FlagsOK'
    BY <1>14 DEF Stop, JInv, FlagsOK
  <1>15. ASSUME NEW p \in Procs, Exit(p) PROVE FlagsOK'
    BY <1>15 DEF Exit, End, history, bounds, JInv, FlagsOK
  <1>16. ASSUME NEW p \in Procs, Crash(p) PROVE FlagsOK'
    BY <1>16 DEF Crash, End, history, JInv, FlagsOK
  <1>17. ASSUME Ask PROVE FlagsOK'
    BY <1>17 DEF Ask, history, bounds, JInv, FlagsOK
  <1>18. ASSUME Tick PROVE FlagsOK'
    BY <1>18 DEF Tick, requests, history, bounds, JInv, FlagsOK
  <1> QED BY <1>1, <1>2, <1>3, <1>4, <1>5, <1>6, <1>7, <1>8, <1>9, <1>10, <1>11, <1>12,
             <1>13, <1>14, <1>15, <1>16, <1>17, <1>18 DEF Next, Timer

LEMMA RunsStep == ASSUME JInv, Next PROVE RunsOK'
  <1>1. ASSUME NEW p \in Procs, Boot(p) PROVE RunsOK'
    BY <1>1 DEF Boot, requests, history, bounds, JInv, RunsOK
  <1>2. ASSUME NEW p \in Procs, Register(p) PROVE RunsOK'
    BY <1>2 DEF Register, requests, history, bounds, JInv, RunsOK
  <1>3. ASSUME NEW p \in Procs, FailRegister(p) PROVE RunsOK'
    BY <1>3 DEF FailRegister, requests, history, JInv, RunsOK
  <1>4. ASSUME NEW p \in Procs, WinSlot(p) PROVE RunsOK'
    <2>1. ~spent' /\ unsure' = unsure
      BY <1>4 DEF WinSlot, JInv, FlagsOK
    <2>2. extra' \in Nat /\ extra' <= unsure
      <3>1. CASE spent
        BY <1>4, <3>1 DEF WinSlot, CountRun, JInv, RunsOK
      <3>2. CASE ~spent
        BY <1>4, <3>2 DEF WinSlot, Claims, CountRun, JInv, RunsOK
      <3> QED BY <3>1, <3>2
    <2> QED BY <2>1, <2>2 DEF JInv, RunsOK
  <1>5. ASSUME NEW p \in Procs, LoseSlot(p) PROVE RunsOK'
    BY <1>5 DEF LoseSlot, Claims, requests, history, bounds, JInv, RunsOK
  <1>6. ASSUME NEW p \in Procs, RunUnregistered(p) PROVE RunsOK'
    BY <1>6 DEF RunUnregistered, requests, history, bounds, JInv, RunsOK
  <1>7. ASSUME NEW p \in Procs, FailClaim(p) PROVE RunsOK'
    <2>1. unsure' = unsure + 1 /\ unsure' \in Nat
      BY <1>7 DEF FailClaim, JInv, RunsOK
    <2>2. CASE next = due[p] /\ ~spent
      <3>1. extra' = extra
        BY <1>7, <2>2 DEF FailClaim, CountRun, JInv, RunsOK
      <3> QED BY <2>1, <3>1 DEF JInv, RunsOK
    <2>3. CASE ~(next = due[p] /\ ~spent)
      <3>1. extra' = extra + 1
        BY <1>7, <2>3 DEF FailClaim, CountRun
      <3>2. spent' => spent
        BY <1>7, <2>3 DEF FailClaim
      <3> QED BY <2>1, <3>1, <3>2 DEF JInv, RunsOK
    <2> QED BY <2>2, <2>3
  <1>8. ASSUME NEW p \in Procs, EndRun(p) PROVE RunsOK'
    BY <1>8 DEF EndRun, requests, history, bounds, JInv, RunsOK
  <1>9. ASSUME NEW p \in Procs, Take(p) PROVE RunsOK'
    BY <1>9 DEF Take, history, bounds, JInv, RunsOK
  <1>10. ASSUME NEW p \in Procs, FailTake(p) PROVE RunsOK'
    BY <1>10 DEF FailTake, history, JInv, RunsOK
  <1>11. ASSUME NEW p \in Procs, Deliver(p) PROVE RunsOK'
    BY <1>11 DEF Deliver, history, bounds, JInv, RunsOK
  <1>12. ASSUME NEW p \in Procs, FailHandBack(p) PROVE RunsOK'
    BY <1>12 DEF FailHandBack, history, JInv, RunsOK
  <1>13. ASSUME NEW p \in Procs, Serve(p) PROVE RunsOK'
    BY <1>13 DEF Serve, history, bounds, JInv, RunsOK
  <1>14. ASSUME NEW p \in Procs, Stop(p) PROVE RunsOK'
    <2>1. spent' => spent
      BY <1>14 DEF Stop
    <2>2. UNCHANGED <<extra, unsure>>
      BY <1>14 DEF Stop
    <2> QED BY <2>1, <2>2 DEF JInv, RunsOK
  <1>15. ASSUME NEW p \in Procs, Exit(p) PROVE RunsOK'
    BY <1>15 DEF Exit, End, history, bounds, JInv, RunsOK
  <1>16. ASSUME NEW p \in Procs, Crash(p) PROVE RunsOK'
    BY <1>16 DEF Crash, End, history, JInv, RunsOK
  <1>17. ASSUME Ask PROVE RunsOK'
    BY <1>17 DEF Ask, history, bounds, JInv, RunsOK
  <1>18. ASSUME Tick PROVE RunsOK'
    BY <1>18 DEF Tick, requests, history, bounds, JInv, RunsOK
  <1> QED BY <1>1, <1>2, <1>3, <1>4, <1>5, <1>6, <1>7, <1>8, <1>9, <1>10, <1>11, <1>12,
             <1>13, <1>14, <1>15, <1>16, <1>17, <1>18 DEF Next, Timer

LEMMA BoundsStep == ASSUME JInv, Next PROVE BoundsOK'
  <1>1. ASSUME NEW p \in Procs, Boot(p) PROVE BoundsOK'
    BY <1>1, BoundAssumption DEF Boot, requests, history, bounds, JInv, BoundsOK, RunsOK
  <1>2. ASSUME NEW p \in Procs, Register(p) PROVE BoundsOK'
    BY <1>2, BoundAssumption DEF Register, requests, history, bounds, JInv, BoundsOK, RunsOK
  <1>3. ASSUME NEW p \in Procs, FailRegister(p) PROVE BoundsOK'
    BY <1>3, BoundAssumption DEF FailRegister, Fault, requests, history, JInv, BoundsOK,
       RunsOK
  <1>4. ASSUME NEW p \in Procs, WinSlot(p) PROVE BoundsOK'
    BY <1>4, BoundAssumption DEF WinSlot, requests, bounds, JInv, BoundsOK, RunsOK
  <1>5. ASSUME NEW p \in Procs, LoseSlot(p) PROVE BoundsOK'
    BY <1>5, BoundAssumption DEF LoseSlot, requests, history, bounds, JInv, BoundsOK, RunsOK
  <1>6. ASSUME NEW p \in Procs, RunUnregistered(p) PROVE BoundsOK'
    BY <1>6, BoundAssumption DEF RunUnregistered, requests, history, bounds, JInv,
       BoundsOK, RunsOK
  <1>7. ASSUME NEW p \in Procs, FailClaim(p) PROVE BoundsOK'
    BY <1>7, BoundAssumption DEF FailClaim, Fault, requests, JInv, BoundsOK, RunsOK
  <1>8. ASSUME NEW p \in Procs, EndRun(p) PROVE BoundsOK'
    BY <1>8, BoundAssumption DEF EndRun, requests, history, bounds, JInv, BoundsOK, RunsOK
  <1>9. ASSUME NEW p \in Procs, Take(p) PROVE BoundsOK'
    BY <1>9, BoundAssumption DEF Take, history, bounds, JInv, BoundsOK, RunsOK
  <1>10. ASSUME NEW p \in Procs, FailTake(p) PROVE BoundsOK'
    BY <1>10, BoundAssumption DEF FailTake, Fault, history, JInv, BoundsOK, RunsOK
  <1>11. ASSUME NEW p \in Procs, Deliver(p) PROVE BoundsOK'
    BY <1>11, BoundAssumption DEF Deliver, history, bounds, JInv, BoundsOK, RunsOK
  <1>12. ASSUME NEW p \in Procs, FailHandBack(p) PROVE BoundsOK'
    BY <1>12, BoundAssumption DEF FailHandBack, Fault, history, JInv, BoundsOK, RunsOK
  <1>13. ASSUME NEW p \in Procs, Serve(p) PROVE BoundsOK'
    BY <1>13, BoundAssumption DEF Serve, history, bounds, JInv, BoundsOK, RunsOK
  <1>14. ASSUME NEW p \in Procs, Stop(p) PROVE BoundsOK'
    BY <1>14, BoundAssumption DEF Stop, Restart, JInv, BoundsOK, RunsOK
  <1>15. ASSUME NEW p \in Procs, Exit(p) PROVE BoundsOK'
    BY <1>15, BoundAssumption DEF Exit, End, history, bounds, JInv, BoundsOK, RunsOK
  <1>16. ASSUME NEW p \in Procs, Crash(p) PROVE BoundsOK'
    BY <1>16, BoundAssumption DEF Crash, End, Restart, history, JInv, BoundsOK, RunsOK
  <1>17. ASSUME Ask PROVE BoundsOK'
    BY <1>17, BoundAssumption DEF Ask, history, bounds, JInv, BoundsOK, RunsOK
  <1>18. ASSUME Tick PROVE BoundsOK'
    BY <1>18, BoundAssumption DEF Tick, requests, history, bounds, JInv, BoundsOK, RunsOK
  <1> QED BY <1>1, <1>2, <1>3, <1>4, <1>5, <1>6, <1>7, <1>8, <1>9, <1>10, <1>11, <1>12,
             <1>13, <1>14, <1>15, <1>16, <1>17, <1>18 DEF Next, Timer

LEMMA JInvStep == JInv /\ [Next]_vars => JInv'
  <1> SUFFICES ASSUME JInv, [Next]_vars PROVE JInv'
    OBVIOUS
  <1>1. CASE UNCHANGED vars
    BY <1>1 DEF vars, requests, history, bounds, JInv, TimesOK, LoopsOK, FlagsOK, RunsOK,
       BoundsOK
  <1>2. CASE Next
    BY <1>2, TimesStep, LoopsStep, FlagsStep, RunsStep, BoundsStep DEF JInv
  <1> QED BY <1>1, <1>2

LEMMA JInvHolds == Spec => []JInv
  BY TypesInit, JInvStep, PTL DEF Spec

\* Every variable keeps to its type: times stay within an interval and an offset
\* of now, whatever the starts, lost slots and overruns.
THEOREM TypeCorrect == Spec => []TypeOK
  BY JInvHolds, TypesMeant, PTL

\* However many processes host the job, a slot is run once, but for one run more
\* for each claim whose outcome was unknown.
THEOREM SlotsOnce == Spec => []SlotsRunOnce
  <1>1. JInv => SlotsRunOnce
    BY DEF JInv, RunsOK, SlotsRunOnce
  <1> QED BY <1>1, JInvHolds, PTL

-----------------------------------------------------------------------------
(* Requests *)

LEMMA RequestInit == Init => RequestKept
  BY DEF Init, RequestKept

LEMMA RequestStep == RequestKept /\ [Next]_vars => RequestKept'
  <1> SUFFICES ASSUME RequestKept, [Next]_vars PROVE RequestKept'
    OBVIOUS
  <1>0. CASE UNCHANGED vars
    BY <1>0 DEF vars, requests, RequestKept
  <1>1. ASSUME NEW p \in Procs, Boot(p) PROVE RequestKept'
    BY <1>1 DEF Boot, requests, history, bounds, RequestKept
  <1>2. ASSUME NEW p \in Procs, Register(p) PROVE RequestKept'
    BY <1>2 DEF Register, requests, history, bounds, RequestKept
  <1>3. ASSUME NEW p \in Procs, FailRegister(p) PROVE RequestKept'
    BY <1>3 DEF FailRegister, requests, history, RequestKept
  <1>4. ASSUME NEW p \in Procs, WinSlot(p) PROVE RequestKept'
    BY <1>4 DEF WinSlot, requests, bounds, RequestKept
  <1>5. ASSUME NEW p \in Procs, LoseSlot(p) PROVE RequestKept'
    BY <1>5 DEF LoseSlot, requests, history, bounds, RequestKept
  <1>6. ASSUME NEW p \in Procs, RunUnregistered(p) PROVE RequestKept'
    BY <1>6 DEF RunUnregistered, requests, history, bounds, RequestKept
  <1>7. ASSUME NEW p \in Procs, FailClaim(p) PROVE RequestKept'
    BY <1>7 DEF FailClaim, requests, RequestKept
  <1>8. ASSUME NEW p \in Procs, EndRun(p) PROVE RequestKept'
    BY <1>8 DEF EndRun, requests, history, bounds, RequestKept
  <1>9. ASSUME NEW p \in Procs, Take(p) PROVE RequestKept'
    BY <1>9 DEF Take, history, bounds, RequestKept
  <1>10. ASSUME NEW p \in Procs, FailTake(p) PROVE RequestKept'
    BY <1>10 DEF FailTake, history, RequestKept
  <1>11. ASSUME NEW p \in Procs, Deliver(p) PROVE RequestKept'
    BY <1>11 DEF Deliver, HandOver, history, bounds, RequestKept
  <1>12. ASSUME NEW p \in Procs, FailHandBack(p) PROVE RequestKept'
    BY <1>12 DEF FailHandBack, history, RequestKept
  <1>13. ASSUME NEW p \in Procs, Serve(p) PROVE RequestKept'
    BY <1>13 DEF Serve, history, bounds, RequestKept
  <1>14. ASSUME NEW p \in Procs, Stop(p) PROVE RequestKept'
    BY <1>14 DEF Stop, RequestKept
  <1>15. ASSUME NEW p \in Procs, Exit(p) PROVE RequestKept'
    BY <1>15 DEF Exit, End, history, bounds, RequestKept
  <1>16. ASSUME NEW p \in Procs, Crash(p) PROVE RequestKept'
    BY <1>16 DEF Crash, End, history, RequestKept
  <1>17. ASSUME Ask PROVE RequestKept'
    BY <1>17 DEF Ask, history, bounds, RequestKept
  <1>18. ASSUME Tick PROVE RequestKept'
    BY <1>18 DEF Tick, requests, history, bounds, RequestKept
  <1> QED BY <1>0, <1>1, <1>2, <1>3, <1>4, <1>5, <1>6, <1>7, <1>8, <1>9, <1>10, <1>11,
             <1>12, <1>13, <1>14, <1>15, <1>16, <1>17, <1>18 DEF Next, Timer

\* A run that was asked for is in the row, with a poller or with a loop, until it
\* begins or a process or a call ends with it.
THEOREM RequestsKept == Spec => []RequestKept
  BY RequestInit, RequestStep, PTL DEF Spec

-----------------------------------------------------------------------------
(* Starts *)

\* Only a start leads from register to wait.
LEMMA StartStep ==
    ASSUME JInv, [Next]_vars, NEW p \in Procs, loop[p] = "register", loop'[p] = "wait", next # None
    PROVE  next' <= Later(next, Offset)
  <1>a. next <= Later(next, Offset)
    BY TimesAssumption DEF JInv, TimesOK, Times, Later
  <1>b. Registered(p) <= Later(next, Offset)
    BY RegisteredTyped DEF JInv
  <1>0. CASE UNCHANGED vars
    BY <1>0 DEF vars
  <1>1. Register(p) \/ FailRegister(p) \/ UNCHANGED vars
    <2>1. ASSUME NEW q \in Procs, Boot(q) PROVE FALSE
      BY <2>1 DEF Boot, Goto, requests, history, bounds, JInv, LoopsOK
    <2>2. ASSUME NEW q \in Procs, Register(q) PROVE Register(p)
      BY <2>2 DEF Register, Goto, requests, history, bounds, JInv, LoopsOK
    <2>3. ASSUME NEW q \in Procs, FailRegister(q) PROVE FailRegister(p)
      BY <2>3 DEF FailRegister, Goto, requests, history, JInv, LoopsOK
    <2>4. ASSUME NEW q \in Procs, WinSlot(q) PROVE FALSE
      BY <2>4 DEF WinSlot, Goto, Fires, requests, bounds, JInv, LoopsOK
    <2>5. ASSUME NEW q \in Procs, LoseSlot(q) PROVE FALSE
      BY <2>5 DEF LoseSlot, Fires, requests, history, bounds, JInv, LoopsOK
    <2>6. ASSUME NEW q \in Procs, RunUnregistered(q) PROVE FALSE
      BY <2>6 DEF RunUnregistered, Goto, Fires, requests, history, bounds, JInv, LoopsOK
    <2>7. ASSUME NEW q \in Procs, FailClaim(q) PROVE FALSE
      BY <2>7 DEF FailClaim, Goto, Fires, requests, JInv, LoopsOK
    <2>8. ASSUME NEW q \in Procs, EndRun(q) PROVE FALSE
      BY <2>8 DEF EndRun, Goto, requests, history, bounds, JInv, LoopsOK
    <2>9. ASSUME NEW q \in Procs, Take(q) PROVE FALSE
      BY <2>9 DEF Take, Watching, history, bounds, JInv, LoopsOK
    <2>10. ASSUME NEW q \in Procs, FailTake(q) PROVE FALSE
      BY <2>10 DEF FailTake, Watching, history, JInv, LoopsOK
    <2>11. ASSUME NEW q \in Procs, Deliver(q) PROVE FALSE
      BY <2>11 DEF Deliver, history, bounds, JInv, LoopsOK
    <2>12. ASSUME NEW q \in Procs, FailHandBack(q) PROVE FALSE
      BY <2>12 DEF FailHandBack, Watching, history, JInv, LoopsOK
    <2>13. ASSUME NEW q \in Procs, Serve(q) PROVE FALSE
      BY <2>13 DEF Serve, Goto, history, bounds, JInv, LoopsOK
    <2>14. ASSUME NEW q \in Procs, Stop(q) PROVE FALSE
      BY <2>14 DEF Stop, Goto, Fires, Watching, JInv, LoopsOK
    <2>15. ASSUME NEW q \in Procs, Exit(q) PROVE FALSE
      BY <2>15 DEF Exit, End, Goto, history, bounds, JInv, LoopsOK
    <2>16. ASSUME NEW q \in Procs, Crash(q) PROVE FALSE
      BY <2>16 DEF Crash, End, Goto, history, JInv, LoopsOK
    <2>17. ASSUME Ask PROVE FALSE
      BY <2>17 DEF Ask, history, bounds, JInv, LoopsOK
    <2>18. ASSUME Tick PROVE FALSE
      BY <2>18 DEF Tick, requests, history, bounds, JInv, LoopsOK
    <2> QED BY <2>1, <2>2, <2>3, <2>4, <2>5, <2>6, <2>7, <2>8, <2>9, <2>10, <2>11, <2>12,
               <2>13, <2>14, <2>15, <2>16, <2>17, <2>18 DEF Next, Timer
  <1>2. CASE Register(p)
    BY <1>2, <1>b DEF Register
  <1>3. CASE FailRegister(p)
    BY <1>3, <1>a, <1>b DEF FailRegister
  <1> QED BY <1>0, <1>1, <1>2, <1>3

\* However often processes start, a start leaves a job that is due no later than its
\* offset, and one that is not at its time.
THEOREM StartsKeep == Spec => StartsKeepSchedule
  <1>1. ASSUME JInv, [Next]_vars
        PROVE  [\A p \in Procs :
                  loop[p] = "register" /\ loop'[p] = "wait" /\ next # None =>
                      next' <= Later(next, Offset)]_vars
    BY <1>1, StartStep
  <1> QED BY <1>1, JInvHolds, PTL DEF Spec, StartsKeepSchedule

=============================================================================
