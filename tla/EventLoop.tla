------------------------------- MODULE EventLoop -------------------------------
(***************************************************************************)
(* Who runs where in src/server.py, and against which database.            *)
(*                                                                         *)
(* Synchronous tools run on worker threads.  The *_async tools and the     *)
(* page's endpoints (/api/sessions, /api/sessions/list) are coroutines on  *)
(* the one thread of an event loop, and they use the synchronous pool: a   *)
(* wait for a connection there blocks the loop.  An async tool keeps its   *)
(* connection while it awaits (progress messages, log messages), so the    *)
(* connection a loop waits for may belong to a coroutine that cannot run.  *)
(*                                                                         *)
(* Under the http transports there is one loop, uvicorn's.  Under stdio    *)
(* there are two over the same pools: the main thread's, for the client    *)
(* on stdin, and the one of the HTTP thread, which serves the page and     *)
(* MCP clients too.                                                        *)
(*                                                                         *)
(* There is one pool per database instance.  Which one a job borrows from  *)
(* is decided by a context variable that the db_01_/db_02_ aliases and the *)
(* endpoints set and reset around the call; instance 2 may be missing.     *)
(***************************************************************************)
EXTENDS Naturals, Sequences, FiniteSets

CONSTANTS
    Jobs,       \* tool calls and page requests, each one after another
    Nobody,     \* nobody has a loop
    PoolSize,   \* MCP_POOL_MAX_SIZE
    Calls       \* what a job may be: records of home, via and script

Instances == {"01", "02"}

\* The loop of the client on stdin, and uvicorn's.
Loops == {"mcp", "page"}

\* via: the alias or the page's parameter; "direct" is a tool's own name.
Fitting(c) ==
    /\ c.home \in {"thread"} \cup Loops
    /\ c.via \in {"direct", "01", "02"}
    /\ c.script \in Seq({"set", "await", "borrow", "read", "return"})
    /\ \A i \in DOMAIN c.script :
          /\ c.script[i] = "return" <=> i = Len(c.script)
          /\ c.script[i] = "set" => c.via \in Instances
          /\ c.script[i] = "borrow" /\ c.via \in Instances
                => \E h \in 1 .. i - 1 : c.script[h] = "set"
          /\ c.script[i] = "await" => c.home \in Loops
          /\ c.script[i] = "borrow"
                => \A h \in 1 .. i - 1 : c.script[h] # "borrow"
    /\ c.script # <<>>

ASSUME LoopAssumption ==
    /\ Nobody \notin Jobs
    /\ PoolSize \in Nat \ {0}
    /\ Calls # {}
    /\ \A c \in Calls : Fitting(c)

VARIABLES
    hybrid,    \* MCP_TRANSPORT is stdio
    second,    \* DATABASE_URL_INSTANCE_2 is set
    call,      \* what each job is (any one call when it is idle)
    pc,        \* "idle", "running", "waiting" (for a connection) or "suspended"
               \* (at an await, or not started)
    step,      \* the step of its script it is at
    context,   \* _ACTIVE_DB_INSTANCE in its context
    holds,     \* the instance it has a connection of, or "none"
    queue,     \* of each instance: the jobs that wait for a connection
    loop       \* of each loop: the coroutine that has its thread

setup == <<hybrid, second>>
jobVars == <<call, step, context>>
vars == <<setup, jobVars, pc, holds, queue, loop>>

-------------------------------------------------------------------------------
(* The scripts of the async tools.  Awaits in a row are one await. *)

When(condition, steps) == IF condition THEN steps ELSE <<>>

DataModelAsync(attributes) ==
    <<"await", "borrow", "await", "read", "read", "await">>
    \o When(attributes, <<"read">>)
    \o <<"await", "read", "await", "read", "await", "read", "await", "return">>

IndexesAsync ==
    <<"await", "borrow", "await", "read", "await", "read", "await", "return">>

CheckBloatAsync == <<"await", "borrow", "read", "await", "return">>

SessionsAsync(active, idle, locked) ==
    <<"await", "borrow", "read", "await">>
    \o When(active, <<"read">>) \o <<"await">>
    \o When(idle, <<"read">>) \o <<"await">>
    \o When(locked, <<"read">>) \o <<"await", "return">>

PartitioningAsync == <<"await", "borrow", "read", "await", "return">>

\* api_sessions and api_sessions_list do not await between their first line and
\* their answer.  A synchronous tool looks the same, on a thread.
Straight == <<"borrow", "read", "return">>

\* An alias (or an endpoint) runs its target inside _run_in_instance_*.
Routed(home, via, script) ==
    [home |-> home, via |-> via,
     script |-> IF via = "direct" THEN script ELSE <<"set">> \o script]

AsyncScripts ==
    {DataModelAsync(attributes) : attributes \in BOOLEAN}
    \cup {IndexesAsync, CheckBloatAsync, PartitioningAsync}
    \cup {SessionsAsync(active, idle, locked) :
             active \in BOOLEAN, idle \in BOOLEAN, locked \in BOOLEAN}

\* All that runs on the pools: async tools and synchronous ones by their own names
\* and by their aliases, for either kind of client, and the page's endpoints.
ServerCalls ==
    {Routed(home, via, script) :
        home \in Loops, via \in {"direct"} \cup Instances, script \in AsyncScripts}
    \cup {Routed("page", via, Straight) : via \in Instances}
    \cup {Routed("thread", via, Straight) : via \in {"direct"} \cup Instances}

-------------------------------------------------------------------------------
NoCall == CHOOSE c \in Calls : TRUE

Init ==
    /\ hybrid \in BOOLEAN
    /\ second \in BOOLEAN
    /\ call = [j \in Jobs |-> NoCall]
    /\ pc = [j \in Jobs |-> "idle"]
    /\ step = [j \in Jobs |-> 1]
    /\ context = [j \in Jobs |-> "01"]
    /\ holds = [j \in Jobs |-> "none"]
    /\ queue = [i \in Instances |-> <<>>]
    /\ loop = [l \in Loops |-> Nobody]

\* The loop it is a coroutine of.
LoopOf(j) ==
    IF call[j].home = "thread" THEN "none" ELSE IF hybrid THEN call[j].home ELSE "page"

At(j, what) == pc[j] = "running" /\ call[j].script[step[j]] = what

Proceed(j) == step' = [step EXCEPT ![j] = @ + 1]

\* A worker thread starts at once, a coroutine when the loop gets to it; its
\* context is a copy, in which the variable has its default.
Arrive(j) ==
    /\ pc[j] = "idle"
    /\ \E c \in Calls :
          /\ call' = [call EXCEPT ![j] = c]
          /\ pc' = [pc EXCEPT ![j] = IF c.home \in Loops THEN "suspended" ELSE "running"]
    /\ UNCHANGED <<setup, step, context, holds, queue, loop>>

Resume(j) ==
    /\ pc[j] = "suspended"
    /\ loop[LoopOf(j)] = Nobody
    /\ loop' = [loop EXCEPT ![LoopOf(j)] = j]
    /\ pc' = [pc EXCEPT ![j] = "running"]
    /\ UNCHANGED <<setup, jobVars, holds, queue>>

Suspend(j) ==
    /\ At(j, "await")
    /\ loop' = [loop EXCEPT ![LoopOf(j)] = Nobody]
    /\ pc' = [pc EXCEPT ![j] = "suspended"]
    /\ Proceed(j)
    /\ UNCHANGED <<setup, call, context, holds, queue>>

-------------------------------------------------------------------------------
(* Routing *)

\* Mutation of SetInstance: a global variable instead of a context variable.
SetInstanceGlobally(j) ==
    /\ At(j, "set")
    /\ context' = [k \in Jobs |-> call[j].via]
    /\ Proceed(j)
    /\ UNCHANGED <<setup, call, pc, holds, queue, loop>>

SetInstance(j) ==
    /\ At(j, "set")
    /\ context' = [context EXCEPT ![j] = call[j].via]
    /\ Proceed(j)
    /\ UNCHANGED <<setup, call, pc, holds, queue, loop>>

\* _PoolRouter.connection; nobody passes tool_name.
Target(j) == context[j]
Configured(i) == i = "01" \/ second

Holders(i) == {j \in Jobs : holds[j] = i}
Available(i) == Cardinality(Holders(i)) < PoolSize

Borrow(j) ==
    /\ At(j, "borrow")
    /\ Configured(Target(j))
    /\ Available(Target(j))
    /\ holds' = [holds EXCEPT ![j] = Target(j)]
    /\ Proceed(j)
    /\ UNCHANGED <<setup, call, context, pc, queue, loop>>

\* getconn waits in its caller's thread: a coroutine keeps its loop.
Wait(j) ==
    /\ At(j, "borrow")
    /\ Configured(Target(j))
    /\ ~ Available(Target(j))
    /\ queue' = [queue EXCEPT ![Target(j)] = Append(@, j)]
    /\ pc' = [pc EXCEPT ![j] = "waiting"]
    /\ UNCHANGED <<setup, jobVars, holds, loop>>

-------------------------------------------------------------------------------
(* The ends of a job *)

\* _run_in_instance_* resets the variable, also after an exception, and a
\* coroutine that ends frees its loop.
Over(j) ==
    /\ call' = [call EXCEPT ![j] = NoCall]
    /\ context' = [context EXCEPT ![j] = "01"]
    /\ loop' = [l \in Loops |-> IF loop[l] = j THEN Nobody ELSE loop[l]]
    /\ UNCHANGED setup

\* Mutation of Release: the connection is not given back.
ReleaseNothing(j) ==
    /\ pc' = [pc EXCEPT ![j] = "idle"]
    /\ step' = [step EXCEPT ![j] = 1]
    /\ Over(j)
    /\ UNCHANGED <<holds, queue>>

\* Mutation of Release: those in line are not told.
ReleaseUnnoticed(j) ==
    /\ holds' = [holds EXCEPT ![j] = "none"]
    /\ pc' = [pc EXCEPT ![j] = "idle"]
    /\ step' = [step EXCEPT ![j] = 1]
    /\ Over(j)
    /\ UNCHANGED queue

\* Mutation of Release: the next call goes on where this one ended.
ReleaseMidway(j) ==
    /\ holds' = [holds EXCEPT ![j] = "none"]
    /\ pc' = [pc EXCEPT ![j] = "idle"]
    /\ Over(j)
    /\ UNCHANGED <<step, queue>>

\* The `with` block is left: the connection goes to the first in line, who goes
\* on behind its "borrow".
Release(j) ==
    LET i == holds[j]
        next == i # "none" /\ queue[i] # <<>>
        heir == Head(queue[i])
    IN  /\ holds' = [k \in Jobs |-> IF k = j THEN "none"
                                    ELSE IF next /\ k = heir THEN i ELSE holds[k]]
        /\ queue' = IF next THEN [queue EXCEPT ![i] = Tail(@)] ELSE queue
        /\ pc' = [k \in Jobs |-> IF k = j THEN "idle"
                                 ELSE IF next /\ k = heir THEN "running" ELSE pc[k]]
        /\ step' = [k \in Jobs |-> IF k = j THEN 1
                                   ELSE IF next /\ k = heir THEN step[k] + 1 ELSE step[k]]
        /\ Over(j)

Return(j) == At(j, "return") /\ Release(j)

StatementFails(j) == At(j, "read") /\ Release(j)

\* "Database instance 2 is not configured."
Unconfigured(j) ==
    /\ At(j, "borrow")
    /\ ~ Configured(Target(j))
    /\ Release(j)

\* Mutation of Cancelled: it takes effect at once, whoever has its loop.
CancelledAtOnce(j) == pc[j] = "suspended" /\ Release(j)

\* The client cancels the task or goes away: CancelledError at the await.
Cancelled(j) ==
    /\ pc[j] = "suspended"
    /\ loop[LoopOf(j)] = Nobody
    /\ Release(j)

Read(j) ==
    /\ At(j, "read")
    /\ Proceed(j)
    /\ UNCHANGED <<setup, call, context, pc, holds, queue, loop>>

\* The line without the one at place n.
Without(line, n) ==
    [m \in 1 .. Len(line) - 1 |-> IF m < n THEN line[m] ELSE line[m + 1]]

LeavesLine(j) ==
    \E i \in Instances : \E n \in DOMAIN queue[i] :
        queue[i][n] = j /\ queue' = [queue EXCEPT ![i] = Without(@, n)]

StopsWaiting(j) ==
    /\ LeavesLine(j)
    /\ pc' = [pc EXCEPT ![j] = "idle"]
    /\ step' = [step EXCEPT ![j] = 1]
    /\ Over(j)
    /\ UNCHANGED holds

\* Mutation of WaitTimesOut: the job asks again.
WaitTimesOutRetries(j) ==
    /\ pc[j] = "waiting"
    /\ LeavesLine(j)
    /\ pc' = [pc EXCEPT ![j] = "running"]
    /\ UNCHANGED <<setup, jobVars, holds, loop>>

\* PoolTimeout after MCP_POOL_TIMEOUT seconds (or TooManyRequests at once).
WaitTimesOut(j) ==
    /\ pc[j] = "waiting"
    /\ StopsWaiting(j)

-------------------------------------------------------------------------------
\* What a running job does next.
Work(j) == Suspend(j) \/ SetInstance(j) \/ Borrow(j) \/ Wait(j) \/ Unconfigured(j)
           \/ Read(j) \/ StatementFails(j) \/ Return(j)

Next == \E j \in Jobs : Arrive(j) \/ Resume(j) \/ Work(j) \/ Cancelled(j) \/ WaitTimesOut(j)

Spec == Init /\ [][Next]_vars

\* Threads run, a statement ends at its timeout, a wait at the pool's; a loop
\* is fair to its coroutines (its queue of callbacks is first in, first out).
Fairness ==
    \A j \in Jobs : WF_vars(Work(j)) /\ WF_vars(WaitTimesOut(j)) /\ SF_vars(Resume(j))

FairSpec == Spec /\ Fairness

-------------------------------------------------------------------------------
(* Properties *)

TypeOK ==
    /\ hybrid \in BOOLEAN
    /\ second \in BOOLEAN
    /\ call \in [Jobs -> Calls]
    /\ pc \in [Jobs -> {"idle", "running", "waiting", "suspended"}]
    /\ \A j \in Jobs : step[j] \in DOMAIN call[j].script
    /\ context \in [Jobs -> Instances]
    /\ holds \in [Jobs -> Instances \cup {"none"}]
    /\ queue \in [Instances -> Seq(Jobs)]
    /\ loop \in [Loops -> Jobs \cup {Nobody}]

\* README: "All session stats are routed to the correct instance using the
\* dual-instance context and connection pools", "deterministic routing": a job
\* only ever has or waits for a connection of the instance its name or parameter
\* says, whatever other jobs run between its steps, and the first instance never
\* stands in for a second one that is missing.
RoutedRight ==
    \A j \in Jobs :
        LET wanted == IF call[j].via = "direct" THEN "01" ELSE call[j].via IN
        /\ holds[j] # "none" => holds[j] = wanted /\ Configured(wanted)
        /\ \A i \in Instances :
              (\E n \in DOMAIN queue[i] : queue[i][n] = j) => i = wanted

\* A job that is over, by whatever end, has nothing: no connection, no place in
\* a queue, no loop; and only coroutines ever have a loop, each the one it belongs to.
NothingLeftBehind ==
    \A j \in Jobs :
        /\ pc[j] = "idle" =>
              /\ holds[j] = "none"
              /\ \A i \in Instances : \A n \in DOMAIN queue[i] : queue[i][n] # j
        /\ \A l \in Loops : loop[l] = j <=> pc[j] \in {"running", "waiting"} /\ LoopOf(j) = l

\* The pools keep their size, and nobody waits beside a free connection.
PoolsUsed ==
    \A i \in Instances :
        /\ Cardinality(Holders(i)) <= PoolSize
        /\ queue[i] # <<>> => Cardinality(Holders(i)) = PoolSize

\* Each of these loops waits for a connection of a pool that only their coroutines
\* have, which need one of these loops to give it back.
Stalled(group) ==
    \A l \in group : \E i \in Instances :
        /\ \E n \in DOMAIN queue[i] : queue[i][n] = loop[l]
        /\ \A k \in Holders(i) : LoopOf(k) \in group

\* Such a stall, of one loop or of two that wait for each other, stops all coroutines
\* of the loops until the pool's timeout: no step but the end of one of the waits lets
\* another coroutine go on.  A loop that waits for a thread, or for the other loop
\* while that one is free, is not stalled.
StallHoldsLoop ==
    [][\A group \in SUBSET Loops :
          Stalled(group) => Stalled(group)' \/ \E l \in group : WaitTimesOut(loop[l])]_vars

\* Every job comes to an end, on whatever thread it runs: a loop always comes
\* back from the coroutine it runs, also out of a stall.
JobsEnd == \A j \in Jobs : pc[j] # "idle" ~> pc[j] = "idle"
===============================================================================
