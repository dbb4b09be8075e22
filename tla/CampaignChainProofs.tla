-------------------------- MODULE CampaignChainProofs --------------------------
(***************************************************************************)
(* Proofs about CampaignChain, for any passes, callers and bounds: the     *)
(* types, that one pass waits at a time, and that the chain never breaks   *)
(* without a fault.                                                        *)
(***************************************************************************)
EXTENDS CampaignChain, TLAPS

-----------------------------------------------------------------------------
(* The invariant behind ChainUnbroken: somebody always carries the chain *)

\* Passes are dropped by a stop, a move or a repark, and by nothing else.
DropsOK == \A a \in Agents : job[a].pc = "drop" => job[a].op \in {"stop", "move", "repark"}

\* A handler that will create a successor, or end the campaign.  One whose row
\* was deleted may just return.
PassCarries(p) ==
    \/ pc[p] \in {"next", "drained", "rest"}
    \/ pc[p] \in {"active", "due"} /\ row[p] # "none"

\* A request or the reconciler that will seed a pass, or end the campaign.
JobCarries(a) ==
    \/ job[a].pc \in {"activate", "calc", "create", "drained", "rest"}
    \/ job[a].pc = "drop" /\ job[a].op \in {"move", "repark"}
    \/ job[a].pc = "read" /\ job[a].op = "wake"

Carried == Waiting # {} \/ (\E p \in Passes : PassCarries(p)) \/ (\E a \in Agents : JobCarries(a))

Running == campaign = "active" /\ leads > 0 /\ ~excused

ChainCarried == Running => Carried

-----------------------------------------------------------------------------
(* Choices *)

LEMMA FreshPassIsFresh == (\E p \in Passes : Fresh(p)) => FreshPass \in Passes /\ Fresh(FreshPass)
  BY DEF FreshPass

\* What a request does, by whichever caller.
RequestOf(a) ==
    /\ a \in Callers /\ Idle(a)
    /\ requests < MaxRequests /\ requests' = requests + 1
    /\ StopCampaign(a) \/ StartCampaign(a) \/ MoveWakeup(a) \/ AddLead(a)
    /\ UNCHANGED <<campaign, chain, pc, new, faults, excused>>

LEMMA RequestHasCaller == Request => \E a \in Callers : RequestOf(a)
  <1> SUFFICES ASSUME Request PROVE \E a \in Callers : RequestOf(a)
    OBVIOUS
  <1> DEFINE c == CHOOSE d \in Callers : Idle(d)
  <1>1. c \in Callers /\ Idle(c)
    BY DEF Request
  <1>2. RequestOf(c)
    <2> HIDE DEF c
    <2> QED BY <1>1 DEF Request, RequestOf, c
  <1> QED BY <1>1, <1>2

-----------------------------------------------------------------------------
(* Types *)

ChainOK ==
    /\ row \in [Passes -> Rows]
    /\ handedBack \subseteq Waiting
    /\ queued \subseteq Waiting

ActorsOK ==
    /\ pc \in [Passes -> PassPCs]
    /\ job \in [Agents -> [op : Ops, pc : JobPCs, todo : SUBSET Passes]]
    /\ new \in [Actors -> Passes \cup {None}]

CountsOK ==
    /\ campaign \in Statuses
    /\ leads \in 0..MaxLeads
    /\ requests \in 0..MaxRequests

FaultsOK == faults \in 0..MaxFaults /\ excused \in BOOLEAN

LEMMA TypeParts == TypeOK <=> ChainOK /\ ActorsOK /\ CountsOK /\ FaultsOK
  BY DEF TypeOK, ChainOK, ActorsOK, CountsOK, FaultsOK

LEMMA TypePartsNext == TypeOK' <=> ChainOK' /\ ActorsOK' /\ CountsOK' /\ FaultsOK'
  BY DEF TypeOK, ChainOK, ActorsOK, CountsOK, FaultsOK

LEMMA TypeInit == Init => TypeOK
  <1> SUFFICES ASSUME Init PROVE TypeOK
    OBVIOUS
  <1>1. ChainOK
    BY DEF Init, ChainOK, Rows
  <1>2. ActorsOK
    BY DEF Init, ActorsOK, PassPCs, JobPCs, Ops, IdleJob
  <1>3. CountsOK
    BY BoundAssumption DEF Init, CountsOK, Statuses
  <1>4. faults \in 0..MaxFaults
    BY BoundAssumption DEF Init
  <1>5. excused \in BOOLEAN
    BY DEF Init
  <1>6. FaultsOK
    BY <1>4, <1>5 DEF FaultsOK
  <1> QED BY <1>1, <1>2, <1>3, <1>6, TypeParts

LEMMA FaultTyped == FaultsOK /\ Fault => FaultsOK'
  BY BoundAssumption DEF FaultsOK, Fault

\* A fault the code makes up for at once.
LEMMA CountTyped == FaultsOK /\ faults < MaxFaults /\ faults' = faults + 1 /\ UNCHANGED excused => FaultsOK'
  <1> SUFFICES ASSUME FaultsOK, faults < MaxFaults, faults' = faults + 1, UNCHANGED excused
               PROVE  FaultsOK'
    OBVIOUS
  <1>1. faults' \in 0..MaxFaults
    BY BoundAssumption DEF FaultsOK
  <1>2. excused' \in BOOLEAN
    BY DEF FaultsOK
  <1> QED BY <1>1, <1>2 DEF FaultsOK

LEMMA FineTyped == FaultsOK /\ Fine => FaultsOK'
  BY DEF FaultsOK, Fine

LEMMA NewRowTyped ==
    ASSUME ChainOK, ActorsOK, FaultsOK, NEW x \in Actors, NewRow(x)
    PROVE  /\ ChainOK' /\ FaultsOK'
           /\ new' \in [Actors -> Passes \cup {None}]
  BY FreshPassIsFresh DEF ChainOK, ActorsOK, FaultsOK, NewRow, Fresh, Waiting, Rows

LEMMA TypePass ==
    ASSUME TypeOK, NEW p \in Passes,
           Pick(p) \/ Handler(p) \/ RetryLater(p) \/ Fail(p) \/ Crash(p) \/ LoseCallback(p)
    PROVE  TypeOK'
  <1>1. CASE Pick(p)
    <2>1. ChainOK'
      BY <1>1, TypeParts
      DEF Pick, ChainOK, Waiting, Rows, chain
    <2>2. ActorsOK'
      BY <1>1, TypeParts
      DEF Pick, ActorsOK, actors, Goto, PassPCs
    <2>3. CountsOK'
      BY <1>1, TypeParts, BoundAssumption
      DEF Pick, CountsOK
    <2>4. FaultsOK'
      BY <1>1, TypeParts, FaultTyped, FineTyped
      DEF Pick, FaultsOK
    <2> QED BY <2>1, <2>2, <2>3, <2>4, TypePartsNext
  <1>2. CASE Activate(p)
    <2>1. ChainOK'
      BY <1>2, TypeParts
      DEF Activate, ChainOK, Waiting, Rows, chain, Write, SetRow, Unqueue
    <2>2. ActorsOK'
      BY <1>2, TypeParts
      DEF Activate, ActorsOK, actors, Goto, PassPCs
    <2>3. CountsOK'
      BY <1>2, TypeParts, BoundAssumption
      DEF Activate, CountsOK
    <2>4. FaultsOK'
      BY <1>2, TypeParts, FaultTyped, FineTyped
      DEF Activate, FaultsOK
    <2> QED BY <2>1, <2>2, <2>3, <2>4, TypePartsNext
  <1>3. CASE TurnAway(p)
    <2>1. ChainOK'
      BY <1>3, TypeParts
      DEF TurnAway, ChainOK, Waiting, Rows, chain, Write, SetRow, Unqueue
    <2>2. ActorsOK'
      BY <1>3, TypeParts
      DEF TurnAway, ActorsOK, actors, Goto, PassPCs
    <2>3. CountsOK'
      BY <1>3, TypeParts, BoundAssumption
      DEF TurnAway, CountsOK
    <2>4. FaultsOK'
      BY <1>3, TypeParts, FaultTyped, FineTyped
      DEF TurnAway, FaultsOK
    <2> QED BY <2>1, <2>2, <2>3, <2>4, TypePartsNext
  <1>4. CASE Expire(p)
    <2>1. ChainOK'
      BY <1>4, TypeParts
      DEF Expire, ChainOK, Waiting, Rows, chain, SetRow, Unqueue
    <2>2. ActorsOK'
      BY <1>4, TypeParts
      DEF Expire, ActorsOK, actors, Goto, PassPCs
    <2>3. CountsOK'
      BY <1>4, TypeParts, BoundAssumption
      DEF Expire, CountsOK, Statuses
    <2>4. FaultsOK'
      BY <1>4, TypeParts, FaultTyped, FineTyped
      DEF Expire, FaultsOK
    <2> QED BY <2>1, <2>2, <2>3, <2>4, TypePartsNext
  <1>5. CASE SkipDay(p)
    <2>1. ChainOK'
      BY <1>5, TypeParts
      DEF SkipDay, ChainOK, Waiting, Rows, chain, SetRow, Unqueue
    <2>2. ActorsOK'
      BY <1>5, TypeParts
      DEF SkipDay, ActorsOK, actors, Goto, PassPCs
    <2>3. CountsOK'
      BY <1>5, TypeParts, BoundAssumption
      DEF SkipDay, CountsOK
    <2>4. FaultsOK'
      BY <1>5, TypeParts, FaultTyped, FineTyped
      DEF SkipDay, FaultsOK
    <2> QED BY <2>1, <2>2, <2>3, <2>4, TypePartsNext
  <1>6. CASE Calculate(p)
    <2>1. ChainOK'
      BY <1>6, TypeParts
      DEF Calculate, ChainOK, Waiting, Rows, chain, SetRow, Unqueue
    <2>2. ActorsOK'
      BY <1>6, TypeParts
      DEF Calculate, ActorsOK, actors, Goto, PassPCs
    <2>3. CountsOK'
      BY <1>6, TypeParts, BoundAssumption
      DEF Calculate, CountsOK
    <2>4. FaultsOK'
      BY <1>6, TypeParts, FaultTyped, FineTyped
      DEF Calculate, FaultsOK
    <2> QED BY <2>1, <2>2, <2>3, <2>4, TypePartsNext
  <1>7. CASE CloseCampaign(p)
    <2>1. ChainOK'
      BY <1>7, TypeParts
      DEF CloseCampaign, ChainOK, Waiting, Rows, chain, Write, SetRow,
          Unqueue
    <2>2. ActorsOK'
      BY <1>7, TypeParts
      DEF CloseCampaign, ActorsOK, actors, Goto, PassPCs
    <2>3. CountsOK'
      BY <1>7, TypeParts, BoundAssumption
      DEF CloseCampaign, CountsOK, LeaveActive, Statuses
    <2>4. FaultsOK'
      BY <1>7, TypeParts, FaultTyped, FineTyped
      DEF CloseCampaign, FaultsOK
    <2> QED BY <2>1, <2>2, <2>3, <2>4, TypePartsNext
  <1>8. CASE PassOver(p)
    <2>1. ChainOK'
      BY <1>8, TypeParts
      DEF PassOver, ChainOK, Waiting, Rows, chain, Write, SetRow, Unqueue
    <2>2. ActorsOK'
      BY <1>8, TypeParts
      DEF PassOver, ActorsOK, actors, Goto, PassPCs
    <2>3. CountsOK'
      BY <1>8, TypeParts, BoundAssumption
      DEF PassOver, CountsOK
    <2>4. FaultsOK'
      BY <1>8, TypeParts, FaultTyped, FineTyped
      DEF PassOver, FaultsOK
    <2> QED BY <2>1, <2>2, <2>3, <2>4, TypePartsNext
  <1>9. CASE Send(p)
    <2>1. ChainOK'
      BY <1>9, TypeParts
      DEF Send, ChainOK, Waiting, Rows, chain, SetRow, Unqueue
    <2>2. ActorsOK'
      BY <1>9, TypeParts
      DEF Send, ActorsOK, actors, Goto, PassPCs
    <2>3. CountsOK'
      BY <1>9, TypeParts, BoundAssumption
      DEF Send, CountsOK, Sendable
    <2>4. FaultsOK'
      BY <1>9, TypeParts, FaultTyped, FineTyped
      DEF Send, FaultsOK
    <2> QED BY <2>1, <2>2, <2>3, <2>4, TypePartsNext
  <1>10. CASE Succeed(p)
    <2>1. CASE NewRow(p)
      BY <2>1, <1>10, TypeParts, TypePartsNext, NewRowTyped
      DEF Succeed, Insert, ActorsOK, CountsOK, PassPCs, JobPCs, Actors,
          Agents, Goto, PassPCs
    <2>2. CASE ~NewRow(p)
        <3>1. ChainOK'
          BY <2>2, <1>10, TypeParts
          DEF Succeed, ChainOK, Waiting, Rows, chain, Insert, Ended
        <3>2. ActorsOK'
          BY <2>2, <1>10, TypeParts
          DEF Succeed, ActorsOK, actors, Insert, Goto, PassPCs
        <3>3. CountsOK'
          BY <2>2, <1>10, TypeParts, BoundAssumption
          DEF Succeed, CountsOK
        <3>4. FaultsOK'
          BY <2>2, <1>10, TypeParts, FaultTyped, FineTyped
          DEF Succeed, Insert
        <3> QED BY <3>1, <3>2, <3>3, <3>4, TypePartsNext
    <2> QED BY <2>1, <2>2
  <1>11. CASE Enqueue(p)
    <2>1. ChainOK'
      BY <1>11, TypeParts
      DEF Enqueue, ChainOK, Waiting, Rows, chain, Ended, Unqueue
    <2>2. ActorsOK'
      BY <1>11, TypeParts
      DEF Enqueue, ActorsOK, actors, Goto, PassPCs, Actors
    <2>3. CountsOK'
      BY <1>11, TypeParts, BoundAssumption
      DEF Enqueue, CountsOK
    <2>4. FaultsOK'
      BY <1>11, TypeParts, FaultTyped, FineTyped
      DEF Enqueue, FaultsOK
    <2> QED BY <2>1, <2>2, <2>3, <2>4, TypePartsNext
  <1>12. CASE RetryLater(p)
    <2>1. ChainOK'
      BY <1>12, TypeParts
      DEF RetryLater, ChainOK, Waiting, Rows, chain
    <2>2. ActorsOK'
      BY <1>12, TypeParts
      DEF RetryLater, ActorsOK, actors, Goto, PassPCs, KeepChain
    <2>3. CountsOK'
      BY <1>12, TypeParts, BoundAssumption
      DEF RetryLater, CountsOK
    <2>4. FaultsOK'
      BY <1>12, TypeParts, CountTyped
      DEF RetryLater
    <2> QED BY <2>1, <2>2, <2>3, <2>4, TypePartsNext
  <1>13. CASE Fail(p)
    <2>1. ChainOK'
      BY <1>13, TypeParts
      DEF Fail, ChainOK, Waiting, Rows, chain, SetRow, Unqueue
    <2>2. ActorsOK'
      BY <1>13, TypeParts
      DEF Fail, ActorsOK, actors, Goto, PassPCs, KeepChain
    <2>3. CountsOK'
      BY <1>13, TypeParts, BoundAssumption
      DEF Fail, CountsOK
    <2>4. FaultsOK'
      BY <1>13, TypeParts, CountTyped
      DEF Fail
    <2> QED BY <2>1, <2>2, <2>3, <2>4, TypePartsNext
  <1>14. CASE Crash(p)
    <2>1. ChainOK'
      BY <1>14, TypeParts
      DEF Crash, ChainOK, Waiting, Rows, chain
    <2>2. ActorsOK'
      BY <1>14, TypeParts
      DEF Crash, ActorsOK, actors, Goto, PassPCs, Actors
    <2>3. CountsOK'
      BY <1>14, TypeParts, BoundAssumption
      DEF Crash, CountsOK
    <2>4. FaultsOK'
      BY <1>14, TypeParts, FaultTyped, FineTyped
      DEF Crash, FaultsOK
    <2> QED BY <2>1, <2>2, <2>3, <2>4, TypePartsNext
  <1>15. CASE LoseCallback(p)
    <2>1. ChainOK'
      BY <1>15, TypeParts
      DEF LoseCallback, ChainOK, Waiting, Rows, chain
    <2>2. ActorsOK'
      BY <1>15, TypeParts
      DEF LoseCallback, ActorsOK, actors
    <2>3. CountsOK'
      BY <1>15, TypeParts, BoundAssumption
      DEF LoseCallback, CountsOK
    <2>4. FaultsOK'
      BY <1>15, TypeParts, FaultTyped, FineTyped
      DEF LoseCallback, FaultsOK
    <2> QED BY <2>1, <2>2, <2>3, <2>4, TypePartsNext
  <1> QED BY <1>1, <1>2, <1>3, <1>4, <1>5, <1>6, <1>7, <1>8, <1>9, <1>10,
             <1>11, <1>12, <1>13, <1>14, <1>15 DEF Handler

LEMMA TypeJob ==
    ASSUME TypeOK, NEW a \in Agents, Agent(a) \/ CrashJob(a)
    PROVE  TypeOK'
  <1>1. CASE PauseCampaign(a)
    <2>1. ChainOK'
      BY <1>1, TypeParts
      DEF PauseCampaign, ChainOK, Waiting, Rows, chain
    <2>2. ActorsOK'
      BY <1>1, TypeParts
      DEF PauseCampaign, ActorsOK, actors, GotoJob, Ops, JobPCs
    <2>3. CountsOK'
      BY <1>1, TypeParts, BoundAssumption
      DEF PauseCampaign, CountsOK, Statuses
    <2>4. FaultsOK'
      BY <1>1, TypeParts, FaultTyped, FineTyped
      DEF PauseCampaign, FaultsOK
    <2> QED BY <2>1, <2>2, <2>3, <2>4, TypePartsNext
  <1>2. CASE ActivateCampaign(a)
    <2>1. ChainOK'
      BY <1>2, TypeParts
      DEF ActivateCampaign, ChainOK, Waiting, Rows, chain
    <2>2. ActorsOK'
      BY <1>2, TypeParts
      DEF ActivateCampaign, ActorsOK, actors, GotoJob, Ops, JobPCs
    <2>3. CountsOK'
      BY <1>2, TypeParts, BoundAssumption
      DEF ActivateCampaign, CountsOK, Statuses
    <2>4. FaultsOK'
      BY <1>2, TypeParts, FaultTyped, FineTyped
      DEF ActivateCampaign, FaultsOK
    <2> QED BY <2>1, <2>2, <2>3, <2>4, TypePartsNext
  <1>3. CASE ReadPending(a)
    <2>1. ChainOK'
      BY <1>3, TypeParts
      DEF ReadPending, ChainOK, Waiting, Rows, chain
    <2>2. ActorsOK'
      BY <1>3, TypeParts
      DEF ReadPending, ActorsOK, actors, EndJob, IdleJob, Drops, Waiting,
          Ops, JobPCs
    <2>3. CountsOK'
      BY <1>3, TypeParts, BoundAssumption
      DEF ReadPending, CountsOK
    <2>4. FaultsOK'
      BY <1>3, TypeParts, FaultTyped, FineTyped
      DEF ReadPending, FaultsOK
    <2> QED BY <2>1, <2>2, <2>3, <2>4, TypePartsNext
  <1>4. CASE Drop(a)
    <2>1. ChainOK'
      BY <1>4, TypeParts
      DEF Drop, ChainOK, Waiting, Rows, chain, Write, SetRow, Unqueue
    <2>2. ActorsOK'
      BY <1>4, TypeParts
      DEF Drop, ActorsOK, actors, Ops, JobPCs
    <2>3. CountsOK'
      BY <1>4, TypeParts, BoundAssumption
      DEF Drop, CountsOK
    <2>4. FaultsOK'
      BY <1>4, TypeParts
      DEF Drop, FaultsOK
    <2> QED BY <2>1, <2>2, <2>3, <2>4, TypePartsNext
  <1>5. CASE Dropped(a)
    <2>1. ChainOK'
      BY <1>5, TypeParts
      DEF Dropped, ChainOK, Waiting, Rows, chain
    <2>2. ActorsOK'
      BY <1>5, TypeParts
      DEF Dropped, ActorsOK, actors, EndJob, IdleJob, Does, Ops, JobPCs
    <2>3. CountsOK'
      BY <1>5, TypeParts, BoundAssumption
      DEF Dropped, CountsOK
    <2>4. FaultsOK'
      BY <1>5, TypeParts, FaultTyped, FineTyped
      DEF Dropped, FaultsOK
    <2> QED BY <2>1, <2>2, <2>3, <2>4, TypePartsNext
  <1>6. CASE CalcSlot(a)
    <2>1. ChainOK'
      BY <1>6, TypeParts
      DEF CalcSlot, ChainOK, Waiting, Rows, chain
    <2>2. ActorsOK'
      BY <1>6, TypeParts
      DEF CalcSlot, ActorsOK, actors, GotoJob, EndJob, IdleJob, Ops, JobPCs
    <2>3. CountsOK'
      BY <1>6, TypeParts, BoundAssumption
      DEF CalcSlot, CountsOK
    <2>4. FaultsOK'
      BY <1>6, TypeParts, FaultTyped, FineTyped
      DEF CalcSlot, FaultsOK
    <2> QED BY <2>1, <2>2, <2>3, <2>4, TypePartsNext
  <1>7. CASE EndCampaign(a)
    <2>1. ChainOK'
      BY <1>7, TypeParts
      DEF EndCampaign, ChainOK, Waiting, Rows, chain
    <2>2. ActorsOK'
      BY <1>7, TypeParts
      DEF EndCampaign, ActorsOK, actors, EndJob, IdleJob, Ops, JobPCs
    <2>3. CountsOK'
      BY <1>7, TypeParts, BoundAssumption
      DEF EndCampaign, CountsOK, LeaveActive, Statuses
    <2>4. FaultsOK'
      BY <1>7, TypeParts, FaultTyped, FineTyped
      DEF EndCampaign, FaultsOK
    <2> QED BY <2>1, <2>2, <2>3, <2>4, TypePartsNext
  <1>8. CASE CreatePass(a)
    <2>1. CASE NewRow(a)
      BY <2>1, <1>8, TypeParts, TypePartsNext, NewRowTyped
      DEF CreatePass, Insert, ActorsOK, CountsOK, PassPCs, JobPCs, Actors,
          Agents, GotoJob, EndJob, IdleJob, Ops, JobPCs
    <2>2. CASE ~NewRow(a)
        <3>1. ChainOK'
          BY <2>2, <1>8, TypeParts
          DEF CreatePass, ChainOK, Waiting, Rows, chain, Insert
        <3>2. ActorsOK'
          BY <2>2, <1>8, TypeParts
          DEF CreatePass, ActorsOK, actors, Insert, GotoJob, EndJob, IdleJob,
              Ops, JobPCs
        <3>3. CountsOK'
          BY <2>2, <1>8, TypeParts, BoundAssumption
          DEF CreatePass, CountsOK
        <3>4. FaultsOK'
          BY <2>2, <1>8, TypeParts, FaultTyped, FineTyped
          DEF CreatePass, Insert
        <3> QED BY <3>1, <3>2, <3>3, <3>4, TypePartsNext
    <2> QED BY <2>1, <2>2
  <1>9. CASE EnqueuePass(a)
    <2>1. ChainOK'
      BY <1>9, TypeParts
      DEF EnqueuePass, ChainOK, Waiting, Rows, chain, SetRow, Unqueue
    <2>2. ActorsOK'
      BY <1>9, TypeParts
      DEF EnqueuePass, ActorsOK, actors, EndJob, IdleJob, Actors, Ops,
          JobPCs
    <2>3. CountsOK'
      BY <1>9, TypeParts, BoundAssumption
      DEF EnqueuePass, CountsOK, Statuses
    <2>4. FaultsOK'
      BY <1>9, TypeParts, FaultTyped, FineTyped
      DEF EnqueuePass, FaultsOK
    <2> QED BY <2>1, <2>2, <2>3, <2>4, TypePartsNext
  <1>10. CASE CrashJob(a)
    <2>1. ChainOK'
      BY <1>10, TypeParts
      DEF CrashJob, ChainOK, Waiting, Rows, chain
    <2>2. ActorsOK'
      BY <1>10, TypeParts
      DEF CrashJob, ActorsOK, actors, EndJob, IdleJob, Actors, Ops, JobPCs
    <2>3. CountsOK'
      BY <1>10, TypeParts, BoundAssumption
      DEF CrashJob, CountsOK
    <2>4. FaultsOK'
      BY <1>10, TypeParts, FaultTyped, FineTyped
      DEF CrashJob, FaultsOK
    <2> QED BY <2>1, <2>2, <2>3, <2>4, TypePartsNext
  <1> QED BY <1>1, <1>2, <1>3, <1>4, <1>5, <1>6, <1>7, <1>8, <1>9, <1>10 DEF Agent

LEMMA TypeRequest ==
    ASSUME TypeOK, Request
    PROVE  TypeOK'
  <1>1. PICK a \in Callers : RequestOf(a)
    BY RequestHasCaller
  <1>2. ChainOK'
    BY <1>1, TypeParts DEF RequestOf, ChainOK, chain, Waiting
  <1>3. ActorsOK'
    BY <1>1, TypeParts
    DEF RequestOf, StopCampaign, StartCampaign, MoveWakeup, AddLead, Does,
        Drops, ActorsOK, Agents, Ops, JobPCs, Waiting
  <1>4. CountsOK'
    BY <1>1, TypeParts, BoundAssumption
    DEF RequestOf, StopCampaign, StartCampaign, MoveWakeup, AddLead, CountsOK
  <1>5. FaultsOK'
    BY <1>1, TypeParts DEF RequestOf, FaultsOK
  <1> QED BY <1>2, <1>3, <1>4, <1>5, TypePartsNext

LEMMA TypeReconciler ==
    ASSUME TypeOK, (\E S \in SUBSET (Lost \cup queued) : CancelOverdue(S)) \/ Repark \/ Resume \/ Reseed
    PROVE  TypeOK'
  <1>1. CASE \E S \in SUBSET (Lost \cup queued) : CancelOverdue(S)
    <2>1. PICK S \in SUBSET (Lost \cup queued) : CancelOverdue(S)
      BY <1>1
    <2>2. S \subseteq Passes
      BY <2>1, TypeParts DEF ChainOK, Lost, Waiting
    <2>3. ChainOK'
      BY <2>1, <2>2, TypeParts DEF CancelOverdue, ChainOK, Unqueue, Waiting, Rows
    <2>4. ActorsOK' /\ CountsOK'
      BY <2>1, TypeParts DEF CancelOverdue, ActorsOK, CountsOK, actors
    <2>5. FaultsOK'
      <3>1. CASE S \subseteq Lost
        BY <2>1, <3>1, TypeParts DEF CancelOverdue, FaultsOK
      <3>2. CASE ~(S \subseteq Lost)
        BY <2>1, <3>2, TypeParts, FaultTyped DEF CancelOverdue
      <3> QED BY <3>1, <3>2
    <2> QED BY <2>3, <2>4, <2>5, TypePartsNext
  <1>2. CASE Repark \/ Resume \/ Reseed
    <2>1. ChainOK'
      BY <1>2, TypeParts DEF Repark, Resume, Reseed, ChainOK, chain, Waiting
    <2>2. ActorsOK'
      BY <1>2, TypeParts
      DEF Repark, Resume, Reseed, Drops, Does, ActorsOK, actors, Agents, Ops,
          JobPCs, Waiting
    <2>3. CountsOK'
      BY <1>2, TypeParts, BoundAssumption
      DEF Repark, Resume, Reseed, CountsOK, Statuses
    <2>4. FaultsOK'
      BY <1>2, TypeParts DEF Repark, Resume, Reseed, FaultsOK
    <2> QED BY <2>1, <2>2, <2>3, <2>4, TypePartsNext
  <1> QED BY <1>1, <1>2

LEMMA TypeStutter == ASSUME TypeOK, UNCHANGED vars PROVE TypeOK'
  BY DEF TypeOK, vars, chain, actors, Waiting

\* Every variable stays within its type (Init and the actions of the tasks
\* service, the campaign handlers and the reconciler).
THEOREM TypeCorrect == Spec => []TypeOK
  <1>1. TypeOK /\ [Next]_vars => TypeOK'
    BY TypePass, TypeJob, TypeRequest, TypeReconciler, TypeStutter DEF Next
  <1> QED BY TypeInit, <1>1, PTL DEF Spec

-----------------------------------------------------------------------------
(* One pass waits, and the chain is carried *)

LEMMA InvInit == Init => OneWaiting /\ DropsOK /\ ChainCarried
  BY DEF Init, OneWaiting, DropsOK, ChainCarried, Running, Waiting, IdleJob

\* Sets of waiting passes that only lose members stay as small.
LEMMA FewerWait ==
    ASSUME OneWaiting, Waiting' \ handedBack' \subseteq Waiting \ handedBack
    PROVE  OneWaiting'
  BY DEF OneWaiting

LEMMA InsertOne ==
    ASSUME TypeOK, NEW x \in Actors, Insert(x)
    PROVE  OneWaiting' /\ Waiting' # {}
  BY FreshPassIsFresh, TypeParts DEF Insert, NewRow, ChainOK, OneWaiting, Waiting

LEMMA InvPass ==
    ASSUME TypeOK, OneWaiting, DropsOK, ChainCarried, NEW p \in Passes,
           Pick(p) \/ Handler(p) \/ RetryLater(p) \/ Fail(p) \/ Crash(p) \/ LoseCallback(p)
    PROVE  OneWaiting' /\ DropsOK' /\ ChainCarried'
  <1>1. CASE Pick(p)
    <2>1. OneWaiting'
      BY <1>1, TypeParts, FewerWait
      DEF Pick, Goto, ChainOK, Waiting, chain
    <2>2. DropsOK'
      BY <1>1, TypeParts
      DEF Pick, Goto, DropsOK, ActorsOK, actors
    <2>3. ChainCarried'
      BY <1>1, TypeParts
      DEF Pick, Goto, ChainOK, ActorsOK, CountsOK, ChainCarried, DropsOK,
          Running, Carried, PassCarries, JobCarries, Waiting, chain, actors,
          Actors, Agents
    <2> QED BY <2>1, <2>2, <2>3
  <1>2. CASE Activate(p)
    <2>1. OneWaiting'
      BY <1>2, TypeParts, FewerWait
      DEF Activate, Goto, Write, SetRow, Unqueue, ChainOK, Waiting, chain
    <2>2. DropsOK'
      BY <1>2, TypeParts
      DEF Activate, Goto, Write, SetRow, Unqueue, DropsOK, ActorsOK, actors
    <2>3. ChainCarried'
      BY <1>2, TypeParts
      DEF Activate, Goto, Write, SetRow, Unqueue, ChainOK, ActorsOK,
          CountsOK, ChainCarried, DropsOK, Running, Carried, PassCarries,
          JobCarries, Waiting, chain, actors, Actors, Agents
    <2> QED BY <2>1, <2>2, <2>3
  <1>3. CASE TurnAway(p)
    <2>1. OneWaiting'
      BY <1>3, TypeParts, FewerWait
      DEF TurnAway, Goto, Write, SetRow, Unqueue, ChainOK, Waiting, chain
    <2>2. DropsOK'
      BY <1>3, TypeParts
      DEF TurnAway, Goto, Write, SetRow, Unqueue, DropsOK, ActorsOK, actors
    <2>3. ChainCarried'
      BY <1>3, TypeParts
      DEF TurnAway, Goto, Write, SetRow, Unqueue, ChainOK, ActorsOK,
          CountsOK, ChainCarried, DropsOK, Running, Carried, PassCarries,
          JobCarries, Waiting, chain, actors, Actors, Agents
    <2> QED BY <2>1, <2>2, <2>3
  <1>4. CASE Expire(p)
    <2>1. OneWaiting'
      BY <1>4, TypeParts, FewerWait
      DEF Expire, Goto, SetRow, Unqueue, ChainOK, Waiting, chain
    <2>2. DropsOK'
      BY <1>4, TypeParts
      DEF Expire, Goto, SetRow, Unqueue, DropsOK, ActorsOK, actors
    <2>3. ChainCarried'
      BY <1>4, TypeParts
      DEF Expire, Goto, SetRow, Unqueue, ChainOK, ActorsOK, CountsOK,
          ChainCarried, DropsOK, Running, Carried, PassCarries, JobCarries,
          Waiting, chain, actors, Actors, Agents
    <2> QED BY <2>1, <2>2, <2>3
  <1>5. CASE SkipDay(p)
    <2>1. OneWaiting'
      BY <1>5, TypeParts, FewerWait
      DEF SkipDay, Goto, SetRow, Fault, Fine, Sendable, Unqueue, ChainOK,
          Waiting, chain
    <2>2. DropsOK'
      BY <1>5, TypeParts
      DEF SkipDay, Goto, SetRow, Fault, Fine, Sendable, Unqueue, DropsOK,
          ActorsOK, actors
    <2>3. ChainCarried'
      BY <1>5, TypeParts
      DEF SkipDay, Goto, SetRow, Fault, Fine, Sendable, Unqueue, ChainOK,
          ActorsOK, CountsOK, ChainCarried, DropsOK, Running, Carried,
          PassCarries, JobCarries, Waiting, chain, actors, Actors, Agents
    <2> QED BY <2>1, <2>2, <2>3
  <1>6. CASE Calculate(p)
    <2>1. OneWaiting'
      BY <1>6, TypeParts, FewerWait
      DEF Calculate, Goto, SetRow, Sendable, Drained, Unqueue, ChainOK,
          Waiting, chain
    <2>2. DropsOK'
      BY <1>6, TypeParts
      DEF Calculate, Goto, SetRow, Sendable, Drained, Unqueue, DropsOK,
          ActorsOK, actors
    <2>3. ChainCarried'
      BY <1>6, TypeParts
      DEF Calculate, Goto, SetRow, Sendable, Drained, Unqueue, ChainOK,
          ActorsOK, CountsOK, ChainCarried, DropsOK, Running, Carried,
          PassCarries, JobCarries, Waiting, chain, actors, Actors, Agents
    <2> QED BY <2>1, <2>2, <2>3
  <1>7. CASE CloseCampaign(p)
    <2>1. OneWaiting'
      BY <1>7, TypeParts, FewerWait
      DEF CloseCampaign, Goto, Write, LeaveActive, SetRow, Unqueue, ChainOK,
          Waiting, chain
    <2>2. DropsOK'
      BY <1>7, TypeParts
      DEF CloseCampaign, Goto, Write, LeaveActive, SetRow, Unqueue, DropsOK,
          ActorsOK, actors
    <2>3. ChainCarried'
      BY <1>7, TypeParts
      DEF CloseCampaign, Goto, Write, LeaveActive, SetRow, Unqueue, ChainOK,
          ActorsOK, CountsOK, ChainCarried, DropsOK, Running, Carried,
          PassCarries, JobCarries, Waiting, chain, actors, Actors, Agents
    <2> QED BY <2>1, <2>2, <2>3
  <1>8. CASE PassOver(p)
    <2>1. OneWaiting'
      BY <1>8, TypeParts, FewerWait
      DEF PassOver, Goto, Write, SetRow, Unqueue, ChainOK, Waiting, chain
    <2>2. DropsOK'
      BY <1>8, TypeParts
      DEF PassOver, Goto, Write, SetRow, Unqueue, DropsOK, ActorsOK, actors
    <2>3. ChainCarried'
      BY <1>8, TypeParts
      DEF PassOver, Goto, Write, SetRow, Unqueue, ChainOK, ActorsOK,
          CountsOK, ChainCarried, DropsOK, Running, Carried, PassCarries,
          JobCarries, Waiting, chain, actors, Actors, Agents
    <2> QED BY <2>1, <2>2, <2>3
  <1>9. CASE Send(p)
    <2>1. OneWaiting'
      BY <1>9, TypeParts, FewerWait
      DEF Send, Goto, SetRow, Sendable, Unqueue, ChainOK, Waiting, chain
    <2>2. DropsOK'
      BY <1>9, TypeParts
      DEF Send, Goto, SetRow, Sendable, Unqueue, DropsOK, ActorsOK, actors
    <2>3. ChainCarried'
      BY <1>9, TypeParts
      DEF Send, Goto, SetRow, Sendable, Unqueue, ChainOK, ActorsOK, CountsOK,
          ChainCarried, DropsOK, Running, Carried, PassCarries, JobCarries,
          Waiting, chain, actors, Actors, Agents
    <2> QED BY <2>1, <2>2, <2>3
  <1>10. CASE Succeed(p)
    <2>1. CASE Insert(p)
      <3>1. OneWaiting' /\ Waiting' # {}
        BY <2>1, InsertOne DEF Actors, Agents
      <3>2. DropsOK'
        BY <1>10, <2>1, TypeParts
        DEF Succeed, Goto, Fault, Fine, Ended, DropsOK, ActorsOK
      <3> QED BY <3>1, <3>2 DEF ChainCarried, Carried
    <2>2. CASE ~Insert(p)
        <3>1. OneWaiting'
          BY <2>2, <1>10, TypeParts, FewerWait
          DEF Succeed, Goto, Fault, Fine, Ended, ChainOK, Waiting, chain
        <3>2. DropsOK'
          BY <2>2, <1>10, TypeParts
          DEF Succeed, Goto, Fault, Fine, Ended, DropsOK, ActorsOK, actors
        <3>3. ChainCarried'
          BY <2>2, <1>10, TypeParts
          DEF Succeed, Goto, Fault, Fine, Ended, ChainOK, ActorsOK, CountsOK,
              ChainCarried, DropsOK, Running, Carried, PassCarries,
              JobCarries, Waiting, chain, actors, Actors, Agents
        <3> QED BY <3>1, <3>2, <3>3
    <2> QED BY <2>1, <2>2
  <1>11. CASE Enqueue(p)
    <2>1. OneWaiting'
      BY <1>11, TypeParts, FewerWait
      DEF Enqueue, Goto, Unqueue, Fault, Fine, Ended, ChainOK, Waiting,
          chain
    <2>2. DropsOK'
      BY <1>11, TypeParts
      DEF Enqueue, Goto, Unqueue, Fault, Fine, Ended, DropsOK, ActorsOK,
          actors
    <2>3. ChainCarried'
      BY <1>11, TypeParts
      DEF Enqueue, Goto, Unqueue, Fault, Fine, Ended, ChainOK, ActorsOK,
          CountsOK, ChainCarried, DropsOK, Running, Carried, PassCarries,
          JobCarries, Waiting, chain, actors, Actors, Agents
    <2> QED BY <2>1, <2>2, <2>3
  <1>12. CASE RetryLater(p)
    <2>1. OneWaiting'
      BY <1>12, TypeParts, FewerWait
      DEF RetryLater, KeepChain, Goto, ChainOK, Waiting, chain
    <2>2. DropsOK'
      BY <1>12, TypeParts
      DEF RetryLater, KeepChain, Goto, DropsOK, ActorsOK, actors
    <2>3. ChainCarried'
      BY <1>12, TypeParts
      DEF RetryLater, KeepChain, Goto, ChainOK, ActorsOK, CountsOK,
          ChainCarried, DropsOK, Running, Carried, PassCarries, JobCarries,
          Waiting, chain, actors, Actors, Agents
    <2> QED BY <2>1, <2>2, <2>3
  <1>13. CASE Fail(p)
    <2>1. OneWaiting'
      BY <1>13, TypeParts, FewerWait
      DEF Fail, SetRow, KeepChain, Unqueue, Goto, ChainOK, Waiting, chain
    <2>2. DropsOK'
      BY <1>13, TypeParts
      DEF Fail, SetRow, KeepChain, Unqueue, Goto, DropsOK, ActorsOK, actors
    <2>3. ChainCarried'
      BY <1>13, TypeParts
      DEF Fail, SetRow, KeepChain, Unqueue, Goto, ChainOK, ActorsOK,
          CountsOK, ChainCarried, DropsOK, Running, Carried, PassCarries,
          JobCarries, Waiting, chain, actors, Actors, Agents
    <2> QED BY <2>1, <2>2, <2>3
  <1>14. CASE Crash(p)
    <2>1. OneWaiting'
      BY <1>14, TypeParts, FewerWait
      DEF Crash, Goto, Fault, ChainOK, Waiting, chain
    <2>2. DropsOK'
      BY <1>14, TypeParts
      DEF Crash, Goto, Fault, DropsOK, ActorsOK, actors
    <2>3. ChainCarried'
      BY <1>14, TypeParts
      DEF Crash, Goto, Fault, ChainOK, ActorsOK, CountsOK, ChainCarried,
          DropsOK, Running, Carried, PassCarries, JobCarries, Waiting, chain,
          actors, Actors, Agents
    <2> QED BY <2>1, <2>2, <2>3
  <1>15. CASE LoseCallback(p)
    <2>1. OneWaiting'
      BY <1>15, TypeParts, FewerWait
      DEF LoseCallback, Fault, ChainOK, Waiting, chain
    <2>2. DropsOK'
      BY <1>15, TypeParts
      DEF LoseCallback, Fault, DropsOK, ActorsOK, actors
    <2>3. ChainCarried'
      BY <1>15, TypeParts
      DEF LoseCallback, Fault, ChainOK, ActorsOK, CountsOK, ChainCarried,
          DropsOK, Running, Carried, PassCarries, JobCarries, Waiting, chain,
          actors, Actors, Agents
    <2> QED BY <2>1, <2>2, <2>3
  <1> QED BY <1>1, <1>2, <1>3, <1>4, <1>5, <1>6, <1>7, <1>8, <1>9, <1>10,
             <1>11, <1>12, <1>13, <1>14, <1>15 DEF Handler

LEMMA InvJob ==
    ASSUME TypeOK, OneWaiting, DropsOK, ChainCarried, NEW a \in Agents,
           Agent(a) \/ CrashJob(a)
    PROVE  OneWaiting' /\ DropsOK' /\ ChainCarried'
  <1>1. CASE PauseCampaign(a)
    <2>1. OneWaiting'
      BY <1>1, TypeParts, FewerWait
      DEF PauseCampaign, GotoJob, ChainOK, Waiting, chain
    <2>2. DropsOK'
      BY <1>1, TypeParts
      DEF PauseCampaign, GotoJob, DropsOK, ActorsOK, actors
    <2>3. ChainCarried'
      BY <1>1, TypeParts
      DEF PauseCampaign, GotoJob, ChainOK, ActorsOK, CountsOK, ChainCarried,
          DropsOK, Running, Carried, PassCarries, JobCarries, Waiting, chain,
          actors, Actors, Agents
    <2> QED BY <2>1, <2>2, <2>3
  <1>2. CASE ActivateCampaign(a)
    <2>1. OneWaiting'
      BY <1>2, TypeParts, FewerWait
      DEF ActivateCampaign, GotoJob, ChainOK, Waiting, chain
    <2>2. DropsOK'
      BY <1>2, TypeParts
      DEF ActivateCampaign, GotoJob, DropsOK, ActorsOK, actors
    <2>3. ChainCarried'
      BY <1>2, TypeParts
      DEF ActivateCampaign, GotoJob, ChainOK, ActorsOK, CountsOK,
          ChainCarried, DropsOK, Running, Carried, PassCarries, JobCarries,
          Waiting, chain, actors, Actors, Agents
    <2> QED BY <2>1, <2>2, <2>3
  <1>3. CASE ReadPending(a)
    <2>1. OneWaiting'
      BY <1>3, TypeParts, FewerWait
      DEF ReadPending, EndJob, Drops, Fault, Fine, Sendable, IdleJob,
          ChainOK, Waiting, chain
    <2>2. DropsOK'
      BY <1>3, TypeParts
      DEF ReadPending, EndJob, Drops, Fault, Fine, Sendable, IdleJob,
          DropsOK, ActorsOK, actors
    <2>3. ChainCarried'
      BY <1>3, TypeParts
      DEF ReadPending, EndJob, Drops, Fault, Fine, Sendable, IdleJob,
          ChainOK, ActorsOK, CountsOK, ChainCarried, DropsOK, Running,
          Carried, PassCarries, JobCarries, Waiting, chain, actors, Actors,
          Agents
    <2> QED BY <2>1, <2>2, <2>3
  <1>4. CASE Drop(a)
    <2>1. OneWaiting'
      BY <1>4, TypeParts, FewerWait
      DEF Drop, Write, SetRow, Unqueue, ChainOK, Waiting, chain
    <2>2. DropsOK'
      BY <1>4, TypeParts
      DEF Drop, Write, SetRow, Unqueue, DropsOK, ActorsOK, actors
    <2>3. ChainCarried'
      <3>1. CASE job[a].op = "stop"
        BY <1>4, <3>1 DEF Drop, ChainCarried, Running
      <3>2. CASE job[a].op \in {"move", "repark"}
        <4>1. JobCarries(a)'
          BY <1>4, <3>2, TypeParts DEF Drop, ActorsOK, JobCarries
        <4> QED BY <4>1 DEF ChainCarried, Carried
      <3> QED BY <1>4, <3>1, <3>2 DEF Drop, DropsOK
    <2> QED BY <2>1, <2>2, <2>3
  <1>5. CASE Dropped(a)
    <2>1. OneWaiting'
      BY <1>5, TypeParts, FewerWait
      DEF Dropped, EndJob, Does, IdleJob, ChainOK, Waiting, chain
    <2>2. DropsOK'
      BY <1>5, TypeParts
      DEF Dropped, EndJob, Does, IdleJob, DropsOK, ActorsOK, actors
    <2>3. ChainCarried'
      BY <1>5, TypeParts
      DEF Dropped, EndJob, Does, IdleJob, ChainOK, ActorsOK, CountsOK,
          ChainCarried, DropsOK, Running, Carried, PassCarries, JobCarries,
          Waiting, chain, actors, Actors, Agents
    <2> QED BY <2>1, <2>2, <2>3
  <1>6. CASE CalcSlot(a)
    <2>1. OneWaiting'
      BY <1>6, TypeParts, FewerWait
      DEF CalcSlot, GotoJob, EndJob, Fault, Fine, Sendable, Drained, IdleJob,
          ChainOK, Waiting, chain
    <2>2. DropsOK'
      BY <1>6, TypeParts
      DEF CalcSlot, GotoJob, EndJob, Fault, Fine, Sendable, Drained, IdleJob,
          DropsOK, ActorsOK, actors
    <2>3. ChainCarried'
      BY <1>6, TypeParts
      DEF CalcSlot, GotoJob, EndJob, Fault, Fine, Sendable, Drained, IdleJob,
          ChainOK, ActorsOK, CountsOK, ChainCarried, DropsOK, Running,
          Carried, PassCarries, JobCarries, Waiting, chain, actors, Actors,
          Agents
    <2> QED BY <2>1, <2>2, <2>3
  <1>7. CASE EndCampaign(a)
    <2>1. OneWaiting'
      BY <1>7, TypeParts, FewerWait
      DEF EndCampaign, EndJob, LeaveActive, IdleJob, ChainOK, Waiting, chain
    <2>2. DropsOK'
      BY <1>7, TypeParts
      DEF EndCampaign, EndJob, LeaveActive, IdleJob, DropsOK, ActorsOK,
          actors
    <2>3. ChainCarried'
      BY <1>7, TypeParts
      DEF EndCampaign, EndJob, LeaveActive, IdleJob, ChainOK, ActorsOK,
          CountsOK, ChainCarried, DropsOK, Running, Carried, PassCarries,
          JobCarries, Waiting, chain, actors, Actors, Agents
    <2> QED BY <2>1, <2>2, <2>3
  <1>8. CASE CreatePass(a)
    <2>1. CASE Insert(a)
      <3>1. OneWaiting' /\ Waiting' # {}
        BY <2>1, InsertOne DEF Actors, Agents
      <3>2. DropsOK'
        BY <1>8, <2>1, TypeParts
        DEF CreatePass, GotoJob, EndJob, Fault, Fine, IdleJob, DropsOK,
            ActorsOK
      <3> QED BY <3>1, <3>2 DEF ChainCarried, Carried
    <2>2. CASE ~Insert(a)
        <3>1. OneWaiting'
          BY <2>2, <1>8, TypeParts, FewerWait
          DEF CreatePass, GotoJob, EndJob, Fault, Fine, IdleJob, ChainOK,
              Waiting, chain
        <3>2. DropsOK'
          BY <2>2, <1>8, TypeParts
          DEF CreatePass, GotoJob, EndJob, Fault, Fine, IdleJob, DropsOK,
              ActorsOK, actors
        <3>3. ChainCarried'
          BY <2>2, <1>8, TypeParts
          DEF CreatePass, GotoJob, EndJob, Fault, Fine, IdleJob, ChainOK,
              ActorsOK, CountsOK, ChainCarried, DropsOK, Running, Carried,
              PassCarries, JobCarries, Waiting, chain, actors, Actors,
              Agents
        <3> QED BY <3>1, <3>2, <3>3
    <2> QED BY <2>1, <2>2
  <1>9. CASE EnqueuePass(a)
    <2>1. OneWaiting'
      BY <1>9, TypeParts, FewerWait
      DEF EnqueuePass, EndJob, SetRow, Fault, Fine, Unqueue, IdleJob,
          ChainOK, Waiting, chain
    <2>2. DropsOK'
      BY <1>9, TypeParts
      DEF EnqueuePass, EndJob, SetRow, Fault, Fine, Unqueue, IdleJob,
          DropsOK, ActorsOK, actors
    <2>3. ChainCarried'
      BY <1>9, TypeParts
      DEF EnqueuePass, EndJob, SetRow, Fault, Fine, Unqueue, IdleJob,
          ChainOK, ActorsOK, CountsOK, ChainCarried, DropsOK, Running,
          Carried, PassCarries, JobCarries, Waiting, chain, actors, Actors,
          Agents
    <2> QED BY <2>1, <2>2, <2>3
  <1>10. CASE CrashJob(a)
    <2>1. OneWaiting'
      BY <1>10, TypeParts, FewerWait
      DEF CrashJob, EndJob, Fault, IdleJob, ChainOK, Waiting, chain
    <2>2. DropsOK'
      BY <1>10, TypeParts
      DEF CrashJob, EndJob, Fault, IdleJob, DropsOK, ActorsOK, actors
    <2>3. ChainCarried'
      BY <1>10, TypeParts
      DEF CrashJob, EndJob, Fault, IdleJob, ChainOK, ActorsOK, CountsOK,
          ChainCarried, DropsOK, Running, Carried, PassCarries, JobCarries,
          Waiting, chain, actors, Actors, Agents
    <2> QED BY <2>1, <2>2, <2>3
  <1> QED BY <1>1, <1>2, <1>3, <1>4, <1>5, <1>6, <1>7, <1>8, <1>9, <1>10 DEF Agent

LEMMA InvRequest ==
    ASSUME TypeOK, OneWaiting, DropsOK, ChainCarried, Request
    PROVE  OneWaiting' /\ DropsOK' /\ ChainCarried'
  <1>1. PICK a \in Callers : RequestOf(a)
    BY RequestHasCaller
  <1>2. OneWaiting'
    BY <1>1 DEF RequestOf, chain, OneWaiting, Waiting
  <1>3. DropsOK'
    BY <1>1, TypeParts
    DEF RequestOf, StopCampaign, StartCampaign, MoveWakeup, AddLead, Does,
        Drops, DropsOK, ActorsOK, Agents
  <1>4. ChainCarried'
    BY <1>1, TypeParts
    DEF RequestOf, StopCampaign, StartCampaign, MoveWakeup, AddLead, Does,
        Drops, Idle, ActorsOK, CountsOK, ChainCarried, Running, Carried,
        PassCarries, JobCarries, Waiting, chain, Agents
  <1> QED BY <1>2, <1>3, <1>4

LEMMA InvReconciler ==
    ASSUME TypeOK, OneWaiting, DropsOK, ChainCarried,
           (\E S \in SUBSET (Lost \cup queued) : CancelOverdue(S)) \/ Repark \/ Resume \/ Reseed
    PROVE  OneWaiting' /\ DropsOK' /\ ChainCarried'
  <1>1. CASE \E S \in SUBSET (Lost \cup queued) : CancelOverdue(S)
    <2>1. PICK S \in SUBSET (Lost \cup queued) : CancelOverdue(S)
      BY <1>1
    <2>2. OneWaiting'
      BY <2>1, TypeParts, FewerWait DEF CancelOverdue, Unqueue, ChainOK, Waiting
    <2>3. DropsOK' /\ excused'
      BY <2>1 DEF CancelOverdue, DropsOK, actors, Fault
    <2> QED BY <2>2, <2>3 DEF ChainCarried, Running
  <1>2. CASE Resume
    BY <1>2 DEF Resume, OneWaiting, DropsOK, ChainCarried, Running, chain,
       actors, Waiting
  <1>3. CASE Repark \/ Reseed
    <2>1. OneWaiting'
      BY <1>3 DEF Repark, Reseed, OneWaiting, chain, Waiting
    <2>2. DropsOK'
      BY <1>3, TypeParts DEF Repark, Reseed, Drops, Does, DropsOK, ActorsOK, Agents
    <2>3. ChainCarried'
      BY <1>3, TypeParts
      DEF Repark, Reseed, Drops, Does, Idle, ActorsOK, ChainCarried, Running,
          Carried, PassCarries, JobCarries, Waiting, chain, Agents
    <2> QED BY <2>1, <2>2, <2>3
  <1> QED BY <1>1, <1>2, <1>3

LEMMA InvStutter ==
    ASSUME OneWaiting, DropsOK, ChainCarried, UNCHANGED vars
    PROVE  OneWaiting' /\ DropsOK' /\ ChainCarried'
  BY DEF OneWaiting, DropsOK, ChainCarried, Running, Carried, PassCarries,
     JobCarries, vars, chain, actors, Waiting

CInv == TypeOK /\ OneWaiting /\ DropsOK /\ ChainCarried

LEMMA CInvCorrect == Spec => []CInv
  <1>1. Init => CInv
    BY TypeInit, InvInit DEF CInv
  <1>2. CInv /\ [Next]_vars => CInv'
    <2> SUFFICES ASSUME CInv, [Next]_vars PROVE CInv'
      OBVIOUS
    <2>1. TypeOK'
      BY TypePass, TypeJob, TypeRequest, TypeReconciler, TypeStutter DEF Next, CInv
    <2>2. OneWaiting' /\ DropsOK' /\ ChainCarried'
      BY InvPass, InvJob, InvRequest, InvReconciler, InvStutter DEF Next, CInv
    <2> QED BY <2>1, <2>2 DEF CInv
  <1> QED BY <1>1, <1>2, PTL DEF Spec

\* A campaign has at most one pass waiting, but for one that a failed handler
\* handed back, however many passes, requests and reconcilers seed the next at
\* the same time (createCampaignTaskWithLock).
THEOREM OneWaits == Spec => []OneWaiting
  <1>1. CInv => OneWaiting
    BY DEF CInv
  <1> QED BY CInvCorrect, <1>1, PTL

\* With nothing under way, an active campaign with leads has a pass waiting,
\* unless a fault or a stop overtaken by a start came since the last pass was
\* seeded: no way through HandleCampaignTask, StartCampaign, WakeCampaigns,
\* rescheduleCampaignWakeup or the reconciler drops the chain.
THEOREM ChainHolds == Spec => []ChainUnbroken
  <1>1. CInv => ChainUnbroken
    BY DEF CInv, ChainCarried, Running, Carried, PassCarries, JobCarries,
       ChainUnbroken, Idle
  <1> QED BY CInvCorrect, <1>1, PTL
=============================================================================
