--------------------------- MODULE MCSendPipeline ---------------------------
(* Instances of SendPipeline for TLC. *)
EXTENDS SendPipeline, TLC

CONSTANTS t1, t2, t3, t4, m1, s1, r1, r2, r3, r4, MaxCommands, MaxResults, MaxMessages

\* Two campaign tasks for the same step, from the same mailbox.
PairTasks == {t1, t2}
PairLane  == [t \in PairTasks |-> "campaign"]
PairBox   == [t \in PairTasks |-> m1]
PairStep  == [t \in PairTasks |-> s1]
PairRuns  == (r1 :> t1) @@ (r2 :> t2)

\* The tasks of T compete; the others had been cancelled before they fired.
Competing(T) ==
    /\ status = [t \in Tasks |-> IF t \in T THEN "pending" ELSE "cancelled"]
    /\ Untouched

\* One campaign task, fired twice, or an email and a placement probe of the
\* same mailbox.
TwiceTasks == {t1, t3, t4}
TwiceLane  == (t1 :> "campaign") @@ (t3 :> "email") @@ (t4 :> "placement")
TwiceBox   == [t \in TwiceTasks |-> m1]
TwiceStep  == (t1 :> s1) @@ (t3 :> None) @@ (t4 :> None)
TwiceRuns  == (r1 :> t1) @@ (r2 :> t1) @@ (r3 :> t3) @@ (r4 :> t4)
TwiceSpec  == (Competing({t1}) \/ Competing({t3, t4})) /\ [][Next]_vars

\* One campaign task or one email, with two worker executions.
RecoverTasks == {t1, t3}
RecoverLane  == (t1 :> "campaign") @@ (t3 :> "email")
RecoverBox   == [t \in RecoverTasks |-> m1]
RecoverStep  == (t1 :> s1) @@ (t3 :> None)
RecoverRuns  == (r1 :> t1) @@ (r3 :> t3)
RecoverSpec  ==
    (Competing({t1}) \/ Competing({t3})) /\ [][Next]_vars /\ Fairness

\* One task, fired once.
SoloTasks    == {t1}
SoloCampaign == [t \in SoloTasks |-> "campaign"]
SoloEmail    == [t \in SoloTasks |-> "email"]
SoloBox      == [t \in SoloTasks |-> m1]
SoloStep     == [t \in SoloTasks |-> s1]
SoloNoStep   == [t \in SoloTasks |-> None]
SoloRun      == (r1 :> t1)

\* Bounds: how many commands, results and messages wait on the bus at a time.
FewMessages ==
    /\ Cardinality(cmds) <= MaxCommands
    /\ Cardinality(results) <= MaxResults
    /\ Cardinality(cmds) + Cardinality(results) <= MaxMessages

\* Sends of other lanes have one message and one execution at a time.
TwiceMessages ==
    /\ FewMessages
    /\ LET others == {t3, t4}
       IN  /\ Cardinality(cmds \cap others)
                + Cardinality({x \in results : x[1] \in others}) <= 1
           /\ Cardinality({e \in Execs : exec[e].task \in others}) <= 1
=============================================================================
