------------------------- MODULE SendPipelineRefines -------------------------
(***************************************************************************)
(* SendPipeline implements AtMostOnceSend: every step of handlers, worker, *)
(* result consumer and recovery loops grants, spends, asks, withdraws or   *)
(* closes one right, or changes none.                                      *)
(***************************************************************************)
EXTENDS SendPipelineProofs

\* Where a send stands with respect to its right, read off its row.
RightOf(t) ==
    IF authority[t] = "none" THEN "none"
    ELSE IF authority[t] = "started" THEN "spent"
    ELSE IF outcome[t] = "failed" THEN "withdrawn" ELSE "granted"

AbstractStep == [Abstract!Next]_<<Right, Open, Asked>>

\* The abstract state is read off the rows send by send.
LEMMA Views ==
    /\ Right = [t \in Tasks |-> RightOf(t)]
    /\ Right' = [t \in Tasks |-> RightOf(t)']
    /\ \A t \in Tasks : t \in Open <=> authority[t] # "none" /\ Live(t)
    /\ \A t \in Tasks : t \in Open' <=> authority'[t] # "none" /\ Live(t)'
    /\ Open \subseteq Tasks /\ Open' \subseteq Tasks
    /\ \A t \in Tasks : t \in Asked <=> calls[t] > 0
    /\ \A t \in Tasks : t \in Asked' <=> calls'[t] > 0
    /\ Asked \subseteq Tasks /\ Asked' \subseteq Tasks
  BY DEF Right, RightOf, Open, Asked

\* Only one send's right changes, to x.
LEMMA RightChanges ==
    ASSUME NEW t \in Tasks, NEW x, RightOf(t)' = x,
           \A u \in Tasks \ {t} : RightOf(u)' = RightOf(u)
    PROVE  Right' = [Right EXCEPT ![t] = x]
  BY Views

\* ReserveOutbound grants: no other send of the mailbox is open.
LEMMA ReserveGrants ==
    ASSUME IInv, NEW r \in Runs, Reserve(r)
    PROVE  Abstract!Grant(TaskOf[r])
  <1> DEFINE t == TaskOf[r]
  <1>0. t \in Tasks /\ TypeOK
    BY RunAssumption DEF IInv, EvidenceInv, TypeInv
  <1>1. /\ authority[t] = "none" /\ authority' = [authority EXCEPT ![t] = "reserved"]
        /\ outcome' = [outcome EXCEPT ![t] = "unknown"]
        /\ hold[MailboxOf[t]].reason = "none"
        /\ UNCHANGED <<quarantine, calls>>
    BY DEF Reserve, SendAuthority, UnknownHold, worker, history
  <1>2. quarantine[t] = "no"
    BY <1>0, <1>1 DEF IInv, EvidenceInv, Evidence
  <1>3. \A u \in Open : MailboxOf[u] # MailboxOf[t]
    BY <1>0, <1>1, Views, CoverHolds DEF IInv, UnknownHeld
  <1>4. /\ authority'[t] = "reserved" /\ outcome'[t] = "unknown"
        /\ \A u \in Tasks \ {t} : authority'[u] = authority[u] /\ outcome'[u] = outcome[u]
    BY <1>0, <1>1 DEF TypeOK
  <1>5. Right' = [Right EXCEPT ![t] = "granted"] /\ Right[t] = "none"
    <2>1. RightOf(t)' = "granted" /\ RightOf(t) = "none"
      BY <1>1, <1>4 DEF RightOf
    <2>2. \A u \in Tasks \ {t} : RightOf(u)' = RightOf(u)
      BY <1>4 DEF RightOf
    <2> QED
      BY <1>0, <2>1, <2>2, RightChanges, Views
  <1>6. Open' = Open \cup {t}
    BY <1>0, <1>1, <1>2, <1>4, Views DEF Live
  <1>7. Asked' = Asked
    BY <1>1 DEF Asked
  <1> QED
    BY <1>3, <1>5, <1>6, <1>7 DEF Abstract!Grant

\* BeginOutbound spends: the send is granted and still open.
LEMMA BeginSpends ==
    ASSUME IInv, NEW e \in Execs, Begin(e)
    PROVE  exec[e].task \in Tasks /\ Abstract!Spend(exec[e].task)
  <1>. exec[e].task \in Tasks
    BY DEF IInv, EvidenceInv, TypeInv, Working, Begin
  <1>. SUFFICES ASSUME NEW t \in Tasks, t = exec[e].task PROVE Abstract!Spend(t)
    OBVIOUS
  <1>0. TypeOK
    BY DEF IInv, EvidenceInv, TypeInv
  <1>1. /\ authority[t] = "reserved" /\ authority' = [authority EXCEPT ![t] = "started"]
        /\ ~Settled(t)
        /\ UNCHANGED <<outcome, quarantine, calls>>
    <2>1. SendAuthority(t, TRUE)
      BY DEF Begin
    <2>2. ~Settled(t)
      BY <2>1 DEF SendAuthority
    <2> QED
      BY <2>2 DEF Begin, history
  <1>2. quarantine[t] = "no" /\ outcome[t] = "unknown"
    <2>1. outcome[t] # "null" /\ quarantine[t] = "no"
      BY <1>0, <1>1 DEF IInv, EvidenceInv, Evidence
    <2> QED
      BY <1>0, <1>1, <2>1 DEF Settled, TypeOK
  <1>3. /\ authority'[t] = "started"
        /\ \A u \in Tasks \ {t} : authority'[u] = authority[u]
    BY <1>0, <1>1 DEF TypeOK
  <1>4. Right' = [Right EXCEPT ![t] = "spent"] /\ Right[t] = "granted"
    <2>1. RightOf(t)' = "spent" /\ RightOf(t) = "granted"
      BY <1>1, <1>2, <1>3 DEF RightOf
    <2>2. \A u \in Tasks \ {t} : RightOf(u)' = RightOf(u)
      BY <1>1, <1>3 DEF RightOf
    <2> QED
      BY <1>0, <2>1, <2>2, RightChanges, Views
  <1>5. t \in Open /\ Open' = Open
    <2>1. \A u \in Tasks : (authority'[u] # "none") = (authority[u] # "none")
      BY <1>1, <1>3
    <2>2. \A u \in Tasks : Live(u)' = Live(u)
      BY <1>1 DEF Live
    <2>3. Open' = Open
      BY <2>1, <2>2 DEF Open
    <2>4. t \in Open
      BY <1>1, <1>2 DEF Open, Live
    <2> QED
      BY <2>3, <2>4
  <1>6. Asked' = Asked
    BY <1>1 DEF Asked
  <1> QED
    BY <1>0, <1>4, <1>5, <1>6 DEF Abstract!Spend

\* The call to the provider asks, for the first time.
LEMMA CallAsks ==
    ASSUME IInv, NEW e \in Execs, CallProvider(e)
    PROVE  exec[e].task \in Tasks /\ Abstract!Ask(exec[e].task)
  <1>. exec[e].task \in Tasks
    BY DEF IInv, EvidenceInv, TypeInv, Working, CallProvider
  <1>. SUFFICES ASSUME NEW t \in Tasks, t = exec[e].task PROVE Abstract!Ask(t)
    OBVIOUS
  <1>0. TypeOK
    BY DEF IInv, EvidenceInv, TypeInv
  <1>1. /\ authority[t] = "started" /\ calls[t] = 0
        /\ calls' = [calls EXCEPT ![t] = @ + 1]
        /\ UNCHANGED <<authority, outcome, quarantine>>
    BY DEF CallProvider, IInv, EvidenceInv, Calling, ledger
  <1>2. calls'[t] = 1 /\ \A u \in Tasks \ {t} : calls'[u] = calls[u]
    BY <1>0, <1>1 DEF TypeOK
  <1>3. t \notin Asked /\ Asked' = Asked \cup {t}
    BY <1>0, <1>1, <1>2, Views
  <1>4. Right' = Right /\ Open' = Open
    BY <1>1 DEF Right, Open, Live
  <1>5. Right[t] = "spent"
    BY <1>0, <1>1, Views DEF RightOf
  <1> QED
    BY <1>0, <1>3, <1>4, <1>5 DEF Abstract!Ask

\* An outcome withdraws a granted right, closes a spent one, and means nothing
\* for a send that was never reserved.
LEMMA SettleWithdrawsOrCloses ==
    ASSUME IInv, NEW t \in Tasks, NEW v \in {"unknown", "sent", "failed"}, Settles(t, v)
    PROVE  AbstractStep
  <1>0. TypeOK
    BY DEF IInv, EvidenceInv, TypeInv
  <1>1. /\ ~Settled(t) /\ outcome' = [outcome EXCEPT ![t] = v]
        /\ v = "sent" => authority[t] = "started"
        /\ UNCHANGED <<authority, quarantine, calls>>
    BY DEF Settles
  <1>2. outcome'[t] = v /\ \A u \in Tasks \ {t} : outcome'[u] = outcome[u]
    BY <1>0, <1>1 DEF TypeOK
  <1>3. authority[t] # "none" => outcome[t] = "unknown"
    BY <1>0, <1>1 DEF IInv, EvidenceInv, Evidence, Settled, TypeOK
  <1>4. \A u \in Tasks \ {t} : RightOf(u)' = RightOf(u)
    BY <1>1, <1>2 DEF RightOf
  <1>5. Asked' = Asked
    BY <1>1 DEF Asked
  <1>6. CASE authority[t] = "none" \/ v = "unknown"
    <2>1. RightOf(t)' = RightOf(t)
      BY <1>1, <1>2, <1>3, <1>6 DEF RightOf
    <2>2. Right' = Right
      BY <1>4, <2>1, Views
    <2>3. Open' = Open
      BY <1>1, <1>2, <1>3, <1>6, Views DEF Live
    <2> QED
      BY <1>5, <2>2, <2>3 DEF AbstractStep
  <1>7. CASE authority[t] = "reserved" /\ v = "failed"
    <2>1. RightOf(t)' = "withdrawn" /\ RightOf(t) = "granted"
      BY <1>1, <1>2, <1>3, <1>7 DEF RightOf
    <2>2. Right' = [Right EXCEPT ![t] = "withdrawn"] /\ Right[t] = "granted"
      BY <1>4, <2>1, RightChanges, Views
    <2>3. Open' = Open \ {t}
      BY <1>1, <1>2, <1>7, Views DEF Live
    <2>4. Abstract!Withdraw(t)
      BY <1>5, <2>2, <2>3 DEF Abstract!Withdraw
    <2> QED
      BY <2>4 DEF AbstractStep, Abstract!Next
  <1>8. CASE authority[t] = "started" /\ v # "unknown"
    <2>1. RightOf(t)' = RightOf(t) /\ RightOf(t) = "spent"
      BY <1>1, <1>8 DEF RightOf
    <2>2. Right' = Right /\ Right[t] = "spent"
      BY <1>4, <2>1, Views
    <2>3. Open' = Open \ {t}
      BY <1>1, <1>2, <1>8, Views DEF Live
    <2>4. Abstract!Close(t) \/ Open' = Open
      BY <1>5, <2>2, <2>3 DEF Abstract!Close
    <2> QED
      BY <1>5, <2>2, <2>4 DEF AbstractStep, Abstract!Next
  <1> QED
    BY <1>0, <1>1, <1>6, <1>7, <1>8 DEF TypeOK

\* Lifting or isolating a begun send closes it.
LEMMA LettingGoCloses ==
    ASSUME IInv, NEW t \in Tasks, LetsGo(t)
    PROVE  AbstractStep
  <1>0. TypeOK
    BY DEF IInv, EvidenceInv, TypeInv
  <1>1. PICK v \in {"lifted", "isolated"} : quarantine' = [quarantine EXCEPT ![t] = v]
    BY DEF LetsGo
  <1>2. authority[t] = "started" /\ UNCHANGED <<authority, outcome, calls>>
    BY DEF LetsGo
  <1>3. quarantine'[t] # "no" /\ \A u \in Tasks \ {t} : quarantine'[u] = quarantine[u]
    BY <1>0, <1>1 DEF TypeOK
  <1>4. Right' = Right /\ Asked' = Asked
    BY <1>2 DEF Right, Asked
  <1>5. Right[t] = "spent"
    BY <1>2, Views DEF RightOf
  <1>6. Open' = Open \ {t}
    BY <1>2, <1>3, Views DEF Live
  <1>7. Abstract!Close(t) \/ Open' = Open
    BY <1>4, <1>5, <1>6 DEF Abstract!Close
  <1> QED
    BY <1>4, <1>7 DEF AbstractStep, Abstract!Next

LEMMA InitMaps == Init => Abstract!Init
  BY DEF Init, Untouched, Abstract!Init, Right, Open, Asked

LEMMA NextMaps == IInv /\ [Next]_vars => AbstractStep
  <1> SUFFICES ASSUME IInv, [Next]_vars PROVE AbstractStep
    OBVIOUS
  <1>1. CASE UNCHANGED <<authority, outcome, quarantine, calls>>
    <2>1. Right' = Right /\ Open' = Open /\ Asked' = Asked
      BY <1>1 DEF Right, Open, Asked, Live
    <2> QED
      BY <2>1 DEF AbstractStep
  <1>2. ASSUME NEW r \in Runs, Reserve(r) PROVE AbstractStep
    BY <1>2, ReserveGrants, RunAssumption DEF AbstractStep, Abstract!Next
  <1>3. ASSUME NEW e \in Execs, Begin(e) PROVE AbstractStep
    BY <1>3, BeginSpends DEF AbstractStep, Abstract!Next
  <1>4. ASSUME NEW e \in Execs, CallProvider(e) PROVE AbstractStep
    BY <1>4, CallAsks DEF AbstractStep, Abstract!Next
  <1>5. ASSUME NEW t \in Tasks, NEW v \in {"unknown", "sent", "failed"}, Settles(t, v)
        PROVE  AbstractStep
    BY <1>5, SettleWithdrawsOrCloses
  <1>6. ASSUME NEW t \in Tasks, LetsGo(t) PROVE AbstractStep
    BY <1>6, LettingGoCloses
  <1> QED
    BY SendSteps, <1>1, <1>2, <1>3, <1>4, <1>5, <1>6 DEF IInv

\* The pipeline implements the at-most-once send: a right is granted for one
\* send of a mailbox at a time, spent by one start, and asked for once.
THEOREM Implements == Spec => ImplementsAtMostOnce
  <1>1. AbstractStep => [Abstract!Next]_(Abstract!vars)
    BY DEF AbstractStep, Abstract!vars
  <1> QED
    BY InitIInv, NextIInv, InitMaps, NextMaps, <1>1, PTL
    DEF Spec, ImplementsAtMostOnce, Abstract!Spec
=============================================================================
