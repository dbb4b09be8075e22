--------------------------- MODULE AtMostOnceSend ---------------------------
(***************************************************************************)
(* What the send pipeline promises, without handlers, messages, crashes or *)
(* recovery loops: the right to send a task is granted while nothing else  *)
(* of its mailbox is open, spent once at most, and after it was spent the  *)
(* provider is asked once at most.  A right that was not spent can be      *)
(* withdrawn, and then never is.                                           *)
(***************************************************************************)
CONSTANTS Tasks, Mailboxes, MailboxOf

VARIABLES
    right,   \* "none", "granted", "spent" or "withdrawn"
    open,    \* tasks whose outcome still keeps their mailbox busy
    asked    \* tasks the provider was asked to send

vars == <<right, open, asked>>

TypeOK ==
    /\ right \in [Tasks -> {"none", "granted", "spent", "withdrawn"}]
    /\ open \subseteq Tasks
    /\ asked \subseteq Tasks

Init ==
    /\ right = [t \in Tasks |-> "none"]
    /\ open = {}
    /\ asked = {}

Grant(t) ==
    /\ right[t] = "none"
    /\ \A u \in open : MailboxOf[u] # MailboxOf[t]
    /\ right' = [right EXCEPT ![t] = "granted"]
    /\ open' = open \cup {t}
    /\ UNCHANGED asked

Spend(t) ==
    /\ right[t] = "granted" /\ t \in open
    /\ right' = [right EXCEPT ![t] = "spent"]
    /\ UNCHANGED <<open, asked>>

Ask(t) ==
    /\ right[t] = "spent" /\ t \notin asked
    /\ asked' = asked \cup {t}
    /\ UNCHANGED <<right, open>>

Withdraw(t) ==
    /\ right[t] = "granted"
    /\ right' = [right EXCEPT ![t] = "withdrawn"]
    /\ open' = open \ {t}
    /\ UNCHANGED asked

Close(t) ==
    /\ t \in open /\ right[t] = "spent"
    /\ open' = open \ {t}
    /\ UNCHANGED <<right, asked>>

Next == \E t \in Tasks : Grant(t) \/ Spend(t) \/ Ask(t) \/ Withdraw(t) \/ Close(t)

Spec == Init /\ [][Next]_vars
=============================================================================
