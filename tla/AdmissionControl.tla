--------------------------- MODULE AdmissionControl ---------------------------
(***************************************************************************)
(* What the rest of the server may rely on when it asks the query limiter  *)
(* of src/server.py (`_enforce_query_rate_limit`) for permission to run a  *)
(* statement: a bucket that fills with time bounds how many statements     *)
(* were ever admitted, nothing is admitted while the breaker is open, and  *)
(* the breaker never locks callers out for longer than one open period.    *)
(*                                                                         *)
(* The bound has a slack: elapsed time that the limiter credited twice.    *)
(* An ideal limiter keeps it at zero.  QueryBreaker, the detailed module,  *)
(* implements this one with the slack that clock stamps taken outside the  *)
(* lock really produce.                                                    *)
(***************************************************************************)
EXTENDS Naturals

CONSTANTS
    Minute,     \* ticks in a minute, the period the rate is given for
    Rate,       \* statements admitted per minute in the long run
    Open,       \* ticks the breaker stays open
    MaxClock    \* bound: the clock stops here

VARIABLES
    clock,      \* real time
    admitted,   \* statements admitted since the start
    slack,      \* ticks credited more than once
    openUntil   \* the breaker is open before this time

vars == <<clock, admitted, slack, openUntil>>

\* The bucket starts full (Rate tokens) and gains Rate tokens per Minute.
\* Both sides are multiplied by Minute, so that no division is needed.
Allowance == Rate * Minute + Rate * (clock + slack)

Init ==
    /\ clock = 0
    /\ admitted = 0
    /\ slack = 0
    /\ openUntil = 0

Advance ==
    /\ clock < MaxClock
    /\ clock' = clock + 1
    /\ UNCHANGED <<admitted, slack, openUntil>>

\* A caller is told to go ahead.
Admit ==
    /\ openUntil <= clock
    /\ Minute * (admitted + 1) <= Allowance
    /\ admitted' = admitted + 1
    /\ slack' \in slack .. slack + clock
    /\ UNCHANGED <<clock, openUntil>>

\* A caller is turned away, and the breaker may open.
Refuse ==
    /\ slack' \in slack .. slack + clock
    /\ openUntil' \in {openUntil} \cup (openUntil + Open .. clock + Open)
    /\ UNCHANGED <<clock, admitted>>

Next == Advance \/ Admit \/ Refuse

Spec == Init /\ [][Next]_vars
===============================================================================
