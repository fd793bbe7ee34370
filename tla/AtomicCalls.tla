------------------------------ MODULE AtomicCalls ------------------------------
(***************************************************************************)
(* What a client may count on when it calls a database tool of             *)
(* src/server.py: the call takes effect at one moment, between its start   *)
(* and its end, with all of its changes or with none, and the client is    *)
(* told which, unless a COMMIT got lost or the client stopped waiting.     *)
(*                                                                         *)
(* Connections, statements, rollbacks and waiting lines do not appear:     *)
(* ToolExecution, where they do, implements this module.                   *)
(***************************************************************************)
EXTENDS Naturals

CONSTANTS
    Callers      \* worker threads, each with one call at a time

VARIABLES
    open,        \* the callers whose call is under way
    work,        \* for each caller the changes its call is there to make
    landed,      \* those that are in the database
    doubt,       \* the server cannot know whether they are
    told         \* what the client knows of its call

vars == <<open, work, landed, doubt, told>>

Init ==
    /\ open = {}
    /\ work \in [Callers -> SUBSET Nat]
    /\ landed = [c \in Callers |-> {}]
    /\ doubt = [c \in Callers |-> FALSE]
    /\ told = [c \in Callers |-> "none"]

\* A call begins; what is known of the one before is forgotten.
Begin(c) ==
    /\ c \notin open
    /\ open' = open \cup {c}
    /\ work' \in [Callers -> SUBSET Nat]
    /\ \A d \in Callers \ {c} : work'[d] = work[d]
    /\ landed' = [landed EXCEPT ![c] = {}]
    /\ doubt' = [doubt EXCEPT ![c] = FALSE]
    /\ told' = [told EXCEPT ![c] = "none"]

\* The client gets its answer, if it still waits for one.
End(c, what) ==
    /\ c \in open
    /\ open' = open \ {c}
    /\ told' = [told EXCEPT ![c] = IF @ = "none" THEN what ELSE @]
    /\ UNCHANGED work

\* The call does all it is there for; the answer may be that it has nothing to
\* say.
Succeed(c) ==
    /\ End(c, "ok") \/ End(c, "sorry")
    /\ landed' = [landed EXCEPT ![c] = work[c]]
    /\ UNCHANGED doubt

\* The call does nothing and the client gets an error.
Fail(c) ==
    /\ End(c, "error")
    /\ UNCHANGED <<landed, doubt>>

\* The connection broke during the COMMIT: all or nothing, and nobody knows.
Break(c) ==
    /\ End(c, "error")
    /\ landed' \in {landed, [landed EXCEPT ![c] = work[c]]}
    /\ doubt' = [doubt EXCEPT ![c] = TRUE]

\* The client stops waiting; the call goes on.
StopWaiting(c) ==
    /\ c \in open
    /\ told[c] = "none"
    /\ told' = [told EXCEPT ![c] = "timeout"]
    /\ UNCHANGED <<open, work, landed, doubt>>

Next == \E c \in Callers : Begin(c) \/ Succeed(c) \/ Fail(c) \/ Break(c) \/ StopWaiting(c)

Spec == Init /\ [][Next]_vars
===============================================================================
