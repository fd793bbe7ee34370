----------------------------- MODULE ToolExecution -----------------------------
(***************************************************************************)
(* How a tool call of src/server.py reaches the database.                  *)
(*                                                                         *)
(* A call runs its script (see ToolCatalog) on a worker thread.  It borrows *)
(* one connection for the length of a `with pool.connection()` block, runs *)
(* its statements through `_execute_safe`, and leaves the block by         *)
(* returning, which commits, or by an exception, which rolls back; both    *)
(* give the connection back.  Every statement has to get past the query    *)
(* limiter first; AdmissionControl says that the limiter may refuse at any *)
(* time, so a refusal is a choice here.                                    *)
(*                                                                         *)
(* The pool and the server are external.  The server may fail a statement, *)
(* drop a connection, or drop it during a COMMIT, which leaves the caller  *)
(* without knowing whether the transaction was committed.                  *)
(***************************************************************************)
EXTENDS Naturals, Sequences

CONSTANTS
    Callers,         \* worker threads, each with one call at a time
    Conns,           \* the connections of one pool (MCP_POOL_MAX_SIZE)
    Nobody,          \* owner of a connection that is in the pool
    MaxWaiting,      \* MCP_POOL_MAX_WAITING
    AuditRequired,   \* MCP_AUDIT_LOG_REQUIRED
    Calls            \* for each caller the calls its client may make: records
                     \* with a script

Changing == {"write", "dml", "into"}
AtOnce == {"signal", "invoke"}
Ending == {"return", "sorry", "raise"}
Statements == {"read", "raw", "fallback", "solo", "query"} \cup Changing \cup AtOnce

Kinds == Statements \cup Ending \cup {"borrow", "audit"}

\* What the functions of the tools have in common: one `with` block, all
\* statements and the answer inside it, nothing after the answer, no fallback,
\* which rolls back, after a statement that changes something, and at most one
\* audit record, made before the block.
WellFormed(script) ==
    /\ script \in Seq(Kinds)
    /\ script # <<>>
    /\ \A i \in DOMAIN script :
          /\ script[i] \in Ending <=> i = Len(script)
          /\ script[i] \in Statements \cup {"return", "sorry"}
                => \E j \in 1 .. i - 1 : script[j] = "borrow"
          /\ \A j \in 1 .. i - 1 :
                /\ ~ (script[i] = "borrow" /\ script[j] = "borrow")
                /\ ~ (script[i] = "audit" /\ script[j] \in {"audit", "borrow"})
                /\ ~ (script[i] = "fallback" /\ script[j] \in Changing)

ASSUME ExecutionAssumption ==
    /\ Nobody \notin Callers
    /\ MaxWaiting \in Nat
    /\ AuditRequired \in BOOLEAN
    /\ \A c \in Callers :
          /\ Calls[c] # {}
          /\ \A what \in Calls[c] : WellFormed(what.script)

VARIABLES
    phase,         \* of each caller: "idle", "running", "waiting" or "settled"
    call,          \* the call it runs, or ran last (any one when it is idle)
    step,          \* the step of the script it is at
    audit,         \* its audit record: "none", "kept" or "lost"
    faulted,       \* something outside the tool's code went wrong in this call
    doubt,         \* its COMMIT was sent and not acknowledged
    answer,        \* what the client got: "none", "ok", "sorry", "error", "timeout"
    owner,         \* who has each connection
    broken,        \* the server dropped the connection
    uncommitted,   \* the writes <<caller, step>> in its open transaction
    durable,       \* the writes of the callers' current calls that were committed
    queue          \* callers waiting for a connection

callVars == <<phase, call, step, audit, faulted, doubt, answer>>
poolVars == <<owner, broken, queue>>
dbVars == <<uncommitted, durable>>
vars == <<callVars, poolVars, dbVars>>

Init ==
    /\ phase = [c \in Callers |-> "idle"]
    /\ call = [c \in Callers |-> CHOOSE what \in Calls[c] : TRUE]
    /\ step = [c \in Callers |-> 1]
    /\ audit = [c \in Callers |-> "none"]
    /\ faulted = [c \in Callers |-> FALSE]
    /\ doubt = [c \in Callers |-> FALSE]
    /\ answer = [c \in Callers |-> "none"]
    /\ owner = [k \in Conns |-> Nobody]
    /\ broken = [k \in Conns |-> FALSE]
    /\ uncommitted = [k \in Conns |-> {}]
    /\ durable = {}
    /\ queue = <<>>

At(c, kinds) == phase[c] = "running" /\ call[c].script[step[c]] \in kinds

Proceed(c) == step' = [step EXCEPT ![c] = @ + 1]

Fault(c) == faulted' = [faulted EXCEPT ![c] = TRUE]

\* The client may have stopped waiting: then its answer is no longer read.
Reply(c, what) ==
    answer' = [answer EXCEPT ![c] = IF @ = "none" THEN what ELSE @]

Settle(c, what) ==
    /\ phase' = [phase EXCEPT ![c] = "settled"]
    /\ Reply(c, what)

-------------------------------------------------------------------------------
(* The connection pool *)

\* psycopg_pool hands a returned connection to the first waiting client; a
\* dropped one is replaced.  The new owner goes on with its script.
GiveBack(k) ==
    /\ broken' = [broken EXCEPT ![k] = FALSE]
    /\ owner' = [owner EXCEPT ![k] = IF queue = <<>> THEN Nobody ELSE Head(queue)]
    /\ queue' = IF queue = <<>> THEN <<>> ELSE Tail(queue)

\* phase and step after c settles and its connection goes to the next in line.
HandOver(c) ==
    /\ phase' = [d \in Callers |->
                    IF d = c THEN "settled"
                    ELSE IF queue # <<>> /\ d = Head(queue) THEN "running"
                    ELSE phase[d]]
    /\ step' = [d \in Callers |->
                    IF queue # <<>> /\ d = Head(queue) THEN step[d] + 1 ELSE step[d]]

Borrow(c) ==
    /\ At(c, {"borrow"})
    /\ \E k \in Conns :
          /\ owner[k] = Nobody
          /\ owner' = [owner EXCEPT ![k] = c]
    /\ Proceed(c)
    /\ UNCHANGED <<phase, call, audit, faulted, doubt, answer, broken, queue, dbVars>>

AllOut == \A k \in Conns : owner[k] # Nobody

Enqueue(c) ==
    /\ At(c, {"borrow"})
    /\ AllOut
    /\ Len(queue) < MaxWaiting
    /\ queue' = Append(queue, c)
    /\ phase' = [phase EXCEPT ![c] = "waiting"]
    /\ UNCHANGED <<call, step, audit, faulted, doubt, answer, owner, broken, dbVars>>

\* TooManyRequests
TurnedAway(c) ==
    /\ At(c, {"borrow"})
    /\ AllOut
    /\ Len(queue) >= MaxWaiting
    /\ Settle(c, "error")
    /\ Fault(c)
    /\ UNCHANGED <<call, step, audit, doubt, poolVars, dbVars>>

\* Mutation of WaitTimesOut: the caller stays in the queue.
WaitTimesOutQueued(c) ==
    /\ phase[c] = "waiting"
    /\ Settle(c, "error")
    /\ Fault(c)
    /\ UNCHANGED <<call, step, audit, doubt, poolVars, dbVars>>

\* The line without the one at place i.
Without(line, i) ==
    [j \in 1 .. Len(line) - 1 |-> IF j < i THEN line[j] ELSE line[j + 1]]

\* PoolTimeout
WaitTimesOut(c) ==
    /\ phase[c] = "waiting"
    /\ \E i \in DOMAIN queue : queue[i] = c /\ queue' = Without(queue, i)
    /\ Settle(c, "error")
    /\ Fault(c)
    /\ UNCHANGED <<call, step, audit, doubt, owner, broken, dbVars>>

-------------------------------------------------------------------------------
(* Statements *)

\* psycopg opens a transaction with the first statement, which is the SET of
\* the statement timeout when it goes through _execute_safe.
ExecuteRead(c) ==
    /\ At(c, {"read", "raw", "fallback", "query"})
    /\ \E k \in Conns : owner[k] = c /\ ~ broken[k]
    /\ Proceed(c)
    /\ UNCHANGED <<phase, call, audit, faulted, doubt, answer, poolVars, dbVars>>

\* Mutation of ExecuteWrite: the connection is in autocommit mode.
ExecuteWriteAutocommit(c) ==
    /\ At(c, Changing)
    /\ \E k \in Conns : owner[k] = c /\ ~ broken[k]
    /\ durable' = durable \cup {<<c, step[c]>>}
    /\ Proceed(c)
    /\ UNCHANGED <<phase, call, audit, faulted, doubt, answer, poolVars, uncommitted>>

ExecuteWrite(c) ==
    /\ At(c, Changing)
    /\ \E k \in Conns :
          /\ owner[k] = c
          /\ ~ broken[k]
          /\ uncommitted' = [uncommitted EXCEPT ![k] = @ \cup {<<c, step[c]>>}]
    /\ Proceed(c)
    /\ UNCHANGED <<phase, call, audit, faulted, doubt, answer, poolVars, durable>>

\* What the statement does is not part of the transaction.
ExecuteSignal(c) ==
    /\ At(c, AtOnce)
    /\ \E k \in Conns : owner[k] = c /\ ~ broken[k]
    /\ durable' = durable \cup {<<c, step[c]>>}
    /\ Proceed(c)
    /\ UNCHANGED <<phase, call, audit, faulted, doubt, answer, poolVars, uncommitted>>

\* Mutations of Abandon: no rollback; the exception is swallowed.
AbandonDirty(c, k) ==
    /\ owner[k] = c
    /\ UNCHANGED uncommitted
    /\ GiveBack(k)
    /\ HandOver(c)
    /\ Reply(c, "error")

AbandonQuietly(c, k) ==
    /\ owner[k] = c
    /\ uncommitted' = [uncommitted EXCEPT ![k] = {}]
    /\ GiveBack(k)
    /\ HandOver(c)
    /\ Reply(c, "ok")

\* The exception leaves the `with` block: rollback, and back to the pool.
Abandon(c, k) ==
    /\ owner[k] = c
    /\ uncommitted' = [uncommitted EXCEPT ![k] = {}]
    /\ GiveBack(k)
    /\ HandOver(c)
    /\ Reply(c, "error")

\* Mutation of StatementFails: a dropped connection is not noticed.
StatementFailsUnlessDropped(c) ==
    /\ At(c, Statements)
    /\ \E k \in Conns : Abandon(c, k) /\ ~ broken[k]
    /\ Fault(c)
    /\ UNCHANGED <<call, audit, doubt, durable>>

\* The limiter refuses (not for raw), or the server rejects the statement,
\* cancels it at the statement timeout, or has dropped the connection.
StatementFails(c) ==
    /\ At(c, Statements)
    /\ \E k \in Conns : Abandon(c, k)
    /\ Fault(c)
    /\ UNCHANGED <<call, audit, doubt, durable>>

\* The primary query fails: its transaction is rolled back and the fallback
\* query runs in a new one.
FallBack(c) ==
    /\ At(c, {"fallback"})
    /\ \E k \in Conns :
          /\ owner[k] = c
          /\ ~ broken[k]
          /\ uncommitted' = [uncommitted EXCEPT ![k] = {}]
    /\ Proceed(c)
    /\ UNCHANGED <<phase, call, audit, faulted, doubt, answer, poolVars, durable>>

\* The SET before it has opened a transaction block, so the server refuses the
\* statement: nothing outside the tool's code went wrong.
SoloRefused(c) ==
    /\ At(c, {"solo"})
    /\ \E k \in Conns : Abandon(c, k)
    /\ UNCHANGED <<call, audit, faulted, doubt, durable>>

ConnectionDrops(k) ==
    /\ owner[k] # Nobody
    /\ ~ broken[k]
    /\ broken' = [broken EXCEPT ![k] = TRUE]
    /\ uncommitted' = [uncommitted EXCEPT ![k] = {}]
    /\ UNCHANGED <<callVars, owner, queue, durable>>

-------------------------------------------------------------------------------
(* Audit records *)

AuditKept(c) ==
    /\ At(c, {"audit"})
    /\ audit' = [audit EXCEPT ![c] = "kept"]
    /\ Proceed(c)
    /\ UNCHANGED <<phase, call, faulted, doubt, answer, poolVars, dbVars>>

\* Mutation of AuditLost: MCP_AUDIT_LOG_REQUIRED is not looked at.
AuditLostAnyway(c) ==
    /\ At(c, {"audit"})
    /\ audit' = [audit EXCEPT ![c] = "lost"]
    /\ Fault(c)
    /\ Proceed(c)
    /\ UNCHANGED <<phase, call, doubt, answer, poolVars, dbVars>>

\* The log file cannot be written.
AuditLost(c) ==
    /\ At(c, {"audit"})
    /\ audit' = [audit EXCEPT ![c] = "lost"]
    /\ Fault(c)
    /\ \/ /\ AuditRequired
          /\ Settle(c, "error")
          /\ UNCHANGED step
       \/ /\ ~ AuditRequired
          /\ Proceed(c)
          /\ UNCHANGED <<phase, answer>>
    /\ UNCHANGED <<call, doubt, poolVars, dbVars>>

-------------------------------------------------------------------------------
(* The end of a call *)

Holds(c) == \E k \in Conns : owner[k] = c

\* Mutation of RaiseUnconnected: the call falls through.
RaiseIgnored(c) ==
    /\ At(c, {"raise"})
    /\ ~ Holds(c)
    /\ Proceed(c)
    /\ UNCHANGED <<phase, call, audit, faulted, doubt, answer, poolVars, dbVars>>

RaiseUnconnected(c) ==
    /\ At(c, {"raise"})
    /\ ~ Holds(c)
    /\ Settle(c, "error")
    /\ UNCHANGED <<call, step, audit, faulted, doubt, poolVars, dbVars>>

RaiseConnected(c) ==
    /\ At(c, {"raise"})
    /\ \E k \in Conns : Abandon(c, k)
    /\ UNCHANGED <<call, audit, faulted, doubt, durable>>

Outcome(c) == IF call[c].script[step[c]] = "sorry" THEN "sorry" ELSE "ok"

\* The block is left by a return: COMMIT, then back to the pool.
Return(c) ==
    /\ At(c, {"return", "sorry"})
    /\ \E k \in Conns :
          /\ owner[k] = c
          /\ ~ broken[k]
          /\ durable' = durable \cup uncommitted[k]
          /\ uncommitted' = [uncommitted EXCEPT ![k] = {}]
          /\ GiveBack(k)
    /\ HandOver(c)
    /\ Reply(c, Outcome(c))
    /\ UNCHANGED <<call, audit, faulted, doubt>>

\* The connection is gone when COMMIT is sent, or goes while it is on its way.
CommitFails(c) ==
    /\ At(c, {"return", "sorry"})
    /\ \E k \in Conns :
          /\ owner[k] = c
          /\ durable' \in {durable, durable \cup uncommitted[k]}
          /\ doubt' = [doubt EXCEPT ![c] = uncommitted[k] # {}]
          /\ Abandon(c, k)
    /\ Fault(c)
    /\ UNCHANGED <<call, audit>>

\* The tool's own timeout, or the client's: nobody waits for the answer any
\* more, but the worker thread goes on.
StopWaiting(c) ==
    /\ phase[c] \in {"running", "waiting"}
    /\ answer[c] = "none"
    /\ answer' = [answer EXCEPT ![c] = "timeout"]
    /\ UNCHANGED <<phase, call, step, audit, faulted, doubt, poolVars, dbVars>>

Start(c) ==
    /\ phase[c] \in {"idle", "settled"}
    /\ phase' = [phase EXCEPT ![c] = "running"]
    /\ \E what \in Calls[c] : call' = [call EXCEPT ![c] = what]
    /\ step' = [step EXCEPT ![c] = 1]
    /\ audit' = [audit EXCEPT ![c] = "none"]
    /\ faulted' = [faulted EXCEPT ![c] = FALSE]
    /\ doubt' = [doubt EXCEPT ![c] = FALSE]
    /\ answer' = [answer EXCEPT ![c] = "none"]
    /\ durable' = {w \in durable : w[1] # c}
    /\ UNCHANGED <<poolVars, uncommitted>>

-------------------------------------------------------------------------------
Execute(c) == ExecuteRead(c) \/ ExecuteWrite(c) \/ ExecuteSignal(c)
              \/ StatementFails(c) \/ FallBack(c) \/ SoloRefused(c)

Finish(c) == RaiseUnconnected(c) \/ RaiseConnected(c) \/ Return(c) \/ CommitFails(c)

\* What the thread of a running call does next.
Work(c) == Borrow(c) \/ Enqueue(c) \/ TurnedAway(c) \/ AuditKept(c) \/ AuditLost(c)
           \/ Execute(c) \/ Finish(c)

Next ==
    \/ \E c \in Callers : Start(c) \/ Work(c) \/ WaitTimesOut(c) \/ StopWaiting(c)
    \/ \E k \in Conns : ConnectionDrops(k)

Spec == Init /\ [][Next]_vars

\* A thread that can run does, a statement ends (at the latest at its timeout),
\* and a wait for a connection ends at MCP_POOL_TIMEOUT.
Fairness == \A c \in Callers : WF_vars(Work(c)) /\ WF_vars(WaitTimesOut(c))

FairSpec == Spec /\ Fairness

-------------------------------------------------------------------------------
(* Properties *)

\* A step of one of these kinds is behind it.
Passed(c, kinds) == \E i \in 1 .. step[c] - 1 : call[c].script[i] \in kinds

TypeOK ==
    /\ phase \in [Callers -> {"idle", "running", "waiting", "settled"}]
    /\ call \in [Callers -> UNION {Calls[c] : c \in Callers}]
    /\ step \in [Callers -> Nat]
    /\ \A c \in Callers : call[c] \in Calls[c] /\ step[c] \in DOMAIN call[c].script
    /\ audit \in [Callers -> {"none", "kept", "lost"}]
    /\ faulted \in [Callers -> BOOLEAN]
    /\ doubt \in [Callers -> BOOLEAN]
    /\ answer \in [Callers -> {"none", "ok", "sorry", "error", "timeout"}]
    /\ owner \in [Conns -> Callers \cup {Nobody}]
    /\ broken \in [Conns -> BOOLEAN]
    /\ uncommitted \in [Conns -> SUBSET (Callers \X Nat)]
    /\ durable \in SUBSET (Callers \X Nat)
    /\ queue \in Seq(Callers)

\* The writes of c's call, by their place in the script, and those that landed.
Writes(c) == {i \in DOMAIN call[c].script : call[c].script[i] \in Changing}
Landed(c) == {i \in Writes(c) : <<c, i>> \in durable}

\* A tool of several statements (create_db_user runs up to seven) never leaves
\* some of them behind: whichever statement, commit or connection fails, either
\* all of the call's writes are in the database or none.
AllOrNothing == \A c \in Callers : Landed(c) \in {{}, Writes(c)}

\* A client that is told "ok" finds the work done, and one that is told of an
\* error finds nothing done, unless the connection broke during the COMMIT.
AnswerTruthful ==
    \A c \in Callers :
        /\ answer[c] = "ok" => Landed(c) = Writes(c)
        /\ answer[c] = "error" /\ ~ doubt[c] => Landed(c) = {}

\* What the next borrower of a connection finds on it: nothing of the call
\* before it that a later commit could carry into the database.
CleanHandover ==
    \A k \in Conns : \A w \in uncommitted[k] : owner[k] = w[1]

\* A call that is over has no effects any more, whatever the calls after it
\* do on the connection it used.
NoLateEffects ==
    [][\A c \in Callers : phase[c] = "settled" /\ phase'[c] = "settled"
                            => Landed(c)' = Landed(c)]_vars

\* A call has a connection exactly from the start of its `with` block to its
\* end, and no two connections; nobody queues while one is free, no one is in
\* the queue twice or after it gave up, and the queue respects its bound.
PoolConsistent ==
    /\ \A c \in Callers :
          /\ Holds(c) <=> phase[c] = "running" /\ Passed(c, {"borrow"})
          /\ phase[c] = "waiting" <=> \E i \in DOMAIN queue : queue[i] = c
    /\ \A k, l \in Conns : owner[k] = owner[l] /\ owner[k] # Nobody => k = l
    /\ queue # <<>> => AllOut
    /\ Len(queue) <= MaxWaiting
    /\ \A i, j \in DOMAIN queue : queue[i] = queue[j] => i = j

\* What a client may count on.  A call that is under way has changed nothing, and
\* all that others can see of it changes at its end, once.
Promise == INSTANCE AtomicCalls WITH
    open <- {c \in Callers : phase[c] \in {"running", "waiting"}},
    work <- [c \in Callers |-> Writes(c)],
    landed <- [c \in Callers |-> Landed(c)],
    told <- answer

\* Statements, failures between them, rollbacks, hand-overs and time-outs add up
\* to calls that take effect at one moment or not at all.
ImplementsAtomicCalls == Promise!Spec

\* No call hangs: it gets a connection or is refused one, its statements end,
\* and the connection goes back.
CallsSettle ==
    \A c \in Callers : phase[c] = "running" ~> phase[c] = "settled"
===============================================================================
