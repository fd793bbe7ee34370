# A TLA+ model of the PostgreSQL MCP server

The program is one Python module, `server.py` (8028 lines): an MCP server that
offers PostgreSQL administration, inspection and tuning as tools. It runs tools
on worker threads over a bounded connection pool, behind a query limiter shared
by all of them, in a process with up to two servers (MCP over stdio and HTTP in
the background). This directory models the part where those things meet.
Line numbers below are lines of `src/server.py`.

## 1. The system

| Component | State | Operations | Talks to | What is hard |
|---|---|---|---|---|
| Query limiter (1983-2041) | tokens, last_refill, open_until, rejections | `acquire` | called by every `_execute_safe` | clock read before the lock; breaker must recover |
| Tool execution (1753-1816, 2192-2351) | pool, waiting callers, the transaction of each connection | `pool.connection()`, `_execute_safe`, fallback, commit, rollback | limiter, pool, PostgreSQL | one statement of several failing, lost connections, commit in doubt, time-outs that do not stop the work |
| Database tools (2653-6185) | none of their own | 23 synchronous tools | tool execution, audit log | atomicity of several statements, gates, control flow of long functions |
| Audit log (2047-2099) | a file | `_write_audit_event` | the two query tools | order of record and statement, failing writes |
| Client queries (2174-2183, 5854-5918) | settings of the session, the fetch loop | run_query | tool execution | limits at batch boundaries, settings that outlive the call |
| Virtual index tuning (5983-6185) | hypothetical indexes of the session | one tool | tool execution, HypoPG | session state outlives rollback; failures in a `finally` |
| Start-up (1527-1640, 1893-1980) | environment, table scope of each instance | gates, checks | pools | every statement may end the process; two instances |
| Process runtime (1641-1750, 7003-7132) | threads, the readiness event, the SSH tunnel | `main`, signal handlers, atexit | uvicorn, MCP loop | start-up handshake, shutdown from any state |
| Instance routing (1778-1890, 7984-8022) | a context variable | alias wrappers, `_PoolRouter` | pools | context set and reset around calls that interleave |
| Async task tools (7139-7981) | progress, a kept connection | five tools | pool, event loop | synchronous waits on the event loop |
| Data model cache (5728, 6243-6583) | a dict in the process | store, page, fetch | HTTP server, browser | a page nothing tests, several processes, one port |
| Session monitor (6586-6984) | the page | polls, two endpoints | event loop, pool | overlapping polls, late answers |
| Auth and middleware (179-461, 1399-1520) | none | per request | HTTP | stateless |

How they interact: a client's call arrives over HTTP or stdio and runs on a
worker thread. The thread borrows a connection through `_PoolRouter`; each
statement calls the limiter, then `SET statement_timeout`, then itself. Leaving
the `with` block commits or rolls back and returns the connection, to the next
waiting thread if there is one. A call that fails at any of these points raises,
and the client gets an error. Tools carry a `timeout=`; when it expires, the
client gets a time-out but the thread runs on. The `*_async` tools and the pages'
endpoints are coroutines on an event loop's one thread and use the same pools,
synchronously. Under stdio there are two such loops, the MCP client's and the HTTP
thread's. The `db_01_`/`db_02_` aliases and the endpoints set the instance,
and so the pool, around the call.

What makes each part correct:

- limiter: it admits no more than the rate allows, never while open, and always
  recovers;
- execution: a call has all of its effects or none, the client is told which,
  connections change hands clean, and every call ends;
- tools: what is documented works, and in read-only mode nothing changes but by
  client SQL that looks like a query;
- audit: in run_query and explain_query no SQL of a client runs before the attempt
  to record it;
- queries: the client gets the rows it asked for and knows whether there are more;
- tuning: measurements are of what they claim to be, the best is the best, and
  the session is given back clean;
- start-up and runtime: nothing is served before the checks, start-up does not
  block, nothing takes back a signal, the tunnel is closed;
- routing and event loop: a call only touches its own instance, whatever
  interleaves, leaves nothing behind, and a stall of one loop or two ends;
- pages: a report's link shows the report (it does not: finding 5), and the API has
  it where the port says so; the monitor shows one instance,
  consistently, and catches up.

## 2. Modules

    AdmissionControl   what callers may assume of the limiter       (abstract)
          ^ refines
    QueryBreaker ------ MCQueryBreaker ------ QueryBreakerProofs    (TLAPS)

    AtomicCalls   what a client may count on                        (abstract)
                                                ^ refines
    ToolCatalog   the tools as scripts     ToolExecution   an interpreter of scripts
          \______________ ToolServer _______________/
                              |
                         MCToolServer

                  ToolExecutionProofs, ToolServerProofs             (TLAPS)

    UserQuery   VirtualIndexTuning ---- MCVirtualIndexTuning
         \______ PooledSession ________ MCPooledSession
                 PooledSessionProofs                                (TLAPS)

    EventLoop --------- MCEventLoop -------- EventLoopProofs        (TLAPS)
    HybridRuntime ----- MCHybridRuntime ---- HybridRuntimeProofs    (TLAPS)
    SessionMonitor ---- MCSessionMonitor --- SessionMonitorProofs   (TLAPS)
    DataModelReports -- MCDataModelReports - DataModelReportsProofs (TLAPS)

Operators whose comment begins with "Mutation of" are variants with a plausible
bug; each property of each passing run fails when its variant replaces the
original. They are used by nothing else.

The modules are joined by what they rely on: ToolExecution lets the limiter
refuse at any time, which AdmissionControl allows; UserQuery, VirtualIndexTuning
and EventLoop let any statement fail or its connection be lost, as ToolExecution
does; SessionMonitor's requests are EventLoop's `Straight` calls.

**QueryBreaker.** `acquire` is two steps: `ReadClock` (1997) is outside the
lock, and one of `RejectOpen`, `Admit`, `Throttle`, `TripBreaker` is the critical
section. Between them the clock ticks and other threads go through. Tokens are
counted in units of 1/Minute, so that `rate_per_minute / 60.0` stays integral.
`admitted` and `rewound` are history: statements let through, and seconds by
which `last_refill` was moved back. The code's floats are exact integers here.
The real breaker starts at whatever `time.monotonic()` is, with `open_until` at
0.0; the model starts both at 0.

**AdmissionControl.** A counter of admissions under a bound that grows with
time, and an open period. The bound has a slack; an ideal limiter's is 0,
QueryBreaker's is `rewound`. ToolExecution relies on it: it lets the limiter
refuse at any time, which is the most AdmissionControl allows.

**ToolCatalog.** Each tool is the set of step sequences its function can take:
which statements run, in which order, through which helper, and where it gives
up. SQL text and payloads are left out. Loops over tables are bounded by
`MaxItems`. Client SQL is of four kinds (`ClientSql`): a query; a statement that
writes and is recognised by `_require_readonly`'s keywords (`"dml"`); one that writes
and is not (`"into"`, as SELECT ... INTO); and a query whose functions take effect at
once (`"invoke"`, as nextval or pg_terminate_backend). Read-only mode keeps out the
second kind only (`UserSql`). `CreateVirtualIndexes` is the virtual index tool seen
as a sequence of statements: it executes the client's statement several times and
writes no audit record. Client SQL with a COMMIT of its own, which write mode lets
through, is outside the model.

**ToolExecution.** Runs scripts for several callers over one pool. Its actions
are the pool (`Borrow`, `Enqueue`, `TurnedAway`, `WaitTimesOut`, `GiveBack`),
statements (`ExecuteRead/Write/Signal`, `StatementFails`, `FallBack`,
`SoloRefused`), audit (`AuditKept`, `AuditLost`), and the end of a call
(`Return`, `CommitFails`, `RaiseConnected`, `RaiseUnconnected`). The
environment may drop a connection (`ConnectionDrops`) and a client may stop
waiting (`StopWaiting`). A statement that fails ends the call in one step: the
rollback in `_execute_safe`, the exception through the `with` block and the
return to the pool touch only the failing caller's connection, and no other
thread can see the points in between. `faulted` is history: something other
than the tool's own code failed. `signal` (pg_terminate_backend) and `invoke` are
not transactional and are no part of `AllOrNothing`.

**ToolServer.** The tools run as ToolExecution runs them, and what the two mean
together. `ReadOnlyHolds`: what is in the database after a read-only server's calls
is from client SQL that the keyword test lets through; the server's own tools add
nothing. `AuditedBeforeRun` is about run_query and explain_query, as the README's
claim (677) is.

**AtomicCalls.** A call begins; it succeeds, with all of its changes, fails,
with none, or breaks, with all or none and nobody knows which; its client may
stop waiting at any time in between. ToolExecution implements it: `open` are the
callers that run or wait, `work` the writes of a script, `landed` those that are
durable. All that goes on before the end of a call, on its own connection or in
the waiting line, is a stutter.

**VirtualIndexTuning.** One pooled connection and any number of tuning calls on
it. `hypo` is the session's set of hypothetical indexes; rollback does not
change it. How candidates come out of a plan is left open (0 to
`MaxCandidates`); the order of sets, the cut-off, and the comparison of results
are as in the code. Index names are numbers, so the comparison of DDL strings
that breaks ties uses the same order as the candidate list. `hypopg_create_index`
is taken to return a row when it succeeds.

**UserQuery.** One `run_query` on one connection: `SetTimeout` and `Execute` are
`_execute_safe`, `FetchBatch` is one turn of the loop in `_fetch_limited`, `Answer`
cuts the rows at the limit and commits. `setting` is what the transaction sees of
a session setting, `session` what a rollback goes back to. A statement that is a
command has nothing to fetch and fails there.

**PooledSession.** Both kinds of calls take turns on one connection and share its
session. It is what `MeasuredInIsolation` is about: the session a tuning call
gets is one that others used, and may have been given back with hypothetical
indexes.

**HybridRuntime.** The statements of the module from the first gate to the table
scope of the second instance, then `main`, the HTTP thread, its
`_monitor_startup` task, signals, interpreter exit. Each statement of start-up may
raise; before the handlers are installed a signal kills or interrupts. `setup`
holds the settings that matter later; the others are chosen where they are read
(`ReadSettings`). What uvicorn, the MCP loop and the interpreter do is modelled
from how `server.py` runs them: uvicorn exits with `SystemExit` when it cannot bind
(tmp_fastmcp_214/uvicorn/server.py:182), captures signals while it serves in the
main thread and raises them again afterwards (322-339 there), and the interpreter
joins non-daemon threads before it calls atexit functions. Between a handler's
`sys.exit(0)` and that join the exception passes through the asyncio runner of
`mcp.run` (7127): the main thread is `"unwinding"` until `Unwound`, and a signal that
comes there runs the handler again and is spent.

**EventLoop.** Jobs are tool calls and page requests: scripts of "set" (the
context variable), "await", "borrow", "read", "return". Worker threads (`home` is
"thread") run beside each other; coroutines run when they have their `loop`. Under
stdio (`hybrid`) there are two loops over the same pools: "mcp", of the client on
stdin, and "page", of the HTTP thread (7062-7097), which serves the page's endpoints
and MCP clients too; under http every coroutine is on uvicorn's (`LoopOf`).
`Wait` in a coroutine keeps its loop: the pool is synchronous. `Cancelled` takes
effect at an await, when the loop is free. The scripts are those of the five async
tools and of the page's two endpoints; awaits in a row are one. A synchronous
tool is `Straight` here, because its steps in between are ToolExecution's subject.

**SessionMonitor.** The page's `fetchData`: `Poll` starts two requests, each
answered at its own time from what the database shows then or refused, and
`Render` or `RenderError` runs when both are there. `SelectInstance` loads the
page anew. Sessions are a number that grows with every change.

**DataModelReports.** Server processes of one host that ask for the same port,
the reports each keeps, what a link shows (`OpenLink`: a page whose script does not
parse, 6543-6547) and what the API answers (`Fetch`). A process that starts is a new one:
it has made no report before (`StartProcess`). `Analyze` keeps its result before
`response_format` is looked at, as the tool does, so a report may have no link.
`made` is history.

## 3. Runs

| Run | Shows | Bounds |
|---|---|---|
| limiter | TypeOK, Accounting, AdmissionBound, LockoutBounded, NoAdmissionWhileOpen, TripsSpaced, Implements, BreakerRecovers | 2 threads, rate 1, trip at 2, clock to 7 |
| limiter_bucket | violated: TokenBucketBound | 2 threads, clock to 8 |
| tool_catalog | TypeOK, AllOrNothing, AnswerTruthful, AuditedBeforeRun, CleanHandover, PoolConsistent, ImplementsAtomicCalls | every script for 1 caller, 2 that contend, 1 connection, 1 waiting place |
| tool_read_only | ReadOnlyHolds, CallsSettle | every script of up to 5 steps, 2 callers, 1 connection |
| tool_types | violated: DocumentedTypesWork | 1 caller |
| session | SessionTypeOK, MeasuredInIsolation, BestIsBest, RowsExact, FailureKeepsSettings, SearchEnds, QueriesEnd | 3 candidates, 5 of 6 sets, 3 times; batch 2, up to 6 rows, limits -1, 0, 1, 3, 4 |
| tuning_reset | violated: AlwaysReset | 2 candidates |
| runtime | TypeOK, TunnelNotForgotten, ScopeBeforeService, StartupEnds, HttpStopsOnSignal, SignalEndsJoin | 1 table, 3 polls, 3 signals |
| runtime_shutdown | violated: SignalStops | 3 polls, 1 signal |
| event_loop | TypeOK, RoutedRight, NothingLeftBehind, PoolsUsed, StallHoldsLoop, JobsEnd | 3 jobs, 2 pools of 1 connection, 6 kinds of calls |
| session_monitor | TypeOK, ShowsItsInstance, PartsAgree, CatchesUp | 2 overlapping polls, 1 change per instance, 2 chart points |
| report_links | violated: LinkWorks | 2 processes, 2 reports |

Why the bounds are enough:

- Limiter: with two threads one keeps an old stamp while the other empties,
  refills and trips the breaker; the clock passes a full refill, an open period
  and its end. The proofs remove the bounds for safety. For recovery, the clock
  must hold a trip, an open period, one more trip and the wait for a token; states
  in which that no longer fits are excluded by name (`RecoveryTime <= MaxClock`).
- Tools: scripts of different tools with equal steps behave alike, so one of each
  is run (`OfEach`). Calls share no transaction, so one caller runs the whole
  catalogue; a second with two writes and a third that raises while it has the
  connection give every order of waiting, hand-over, time-out and refusal. The
  proofs remove these bounds. Loops over tables, columns and candidate sets go round
  at most once (`MaxItems` 1): what a second round adds is more of the same
  statements, and the proofs are for any number. In the read-only run, which is there
  for `CallsSettle`, the longest scripts are left out: they have more reads and the
  same gates.
- Sessions: three candidates give sets of both sizes and a cut-off inside the
  pairs; limits lie below, at and above a multiple of the batch, with limit + 1
  on either side; a connection serves unboundedly many calls, so a leak from an
  earlier call reaches later ones.
- Runtime: the number of polls only decides who gives up first, and both orders
  occur at three; three signals allow one before the join, one or two while the main
  thread unwinds, and one in the join; one table
  is allowed or not, selectable or not, writable or not.
- Event loop: with one connection per pool, one coroutine that keeps it and one
  that waits for it are a stall, and a third job is a worker thread, another
  waiter or another instance, or on the other loop. Two loops that wait for each
  other take four jobs, two on each; the proof of `StallHoldsLoop` covers them
  (`StallEndsByTimeout`), the run only stalls of one loop. The scripts of the run are the two shortest async
  ones (with and without an await before the first read), the endpoints and a
  synchronous tool; the longer ones repeat reads and awaits, and the proofs are
  for every script.
- Session monitor: two polls give every order of four answers; one change tells
  an old answer from a new one; the chart is cut at its second point.

### Findings

1. **Double credit** (1997, `TokenBucketBound`). A stamp read before the lock is
   assigned to `last_refill` even when it is the older one. The next caller
   credits the same time again. The excess is exactly `Rate * rewound`:
   `AdmissionBound` holds, and is proved. Without overtaking there is no excess
   (proved: `OvertakingAlone`).
2. **Documented types that never work** (3303, 5103, `DocumentedTypesWork`).
   CREATE and DROP DATABASE run inside the transaction that
   `SET statement_timeout` opened; `list_objects` rejects six of its eight types
   after running their query.
3. **Hypothetical indexes outlive the call** (6158, `AlwaysReset`) when the
   limiter refuses the final reset. Later calls still measure their sets in
   isolation (`MeasuredInIsolation`), but not their baseline, which precedes
   their first reset. Nothing else leaves any (proved: `OnlyRefusedResetsLeak`).
4. **One signal does not stop the process under stdio** (7109, `SignalStops`).
   It does under http (`HttpStopsOnSignal`), and under every transport a signal that
   comes while the interpreter is in its join ends it (`SignalEndsJoin`). Two signals
   in a row need not be enough: one that comes before the join is spent.
5. **Report links show nothing** (6543, `LinkWorks`). The script of the page breaks
   off inside a function: two `# [REMOVED ...]` lines stand where JavaScript should,
   `renderDashboard` is not closed, `loadData()` is never called, and there is no
   `</script>`. It does not parse, so nothing is ever fetched or shown, for any id.

Seen while modelling, and not the subject of a run:

- A port that uvicorn cannot bind is a `SystemExit`, which `except Exception` (7098)
  does not catch, so the event is not set although the comment at 7100 says so;
  main waits its 15 seconds (`StartupEnds` holds by that time-out). Conversely,
  "Background HTTP server started" (7121) is logged whenever the event is set,
  which the exception handler (7102) and the monitor's time-out (7088) do too.
- `print` in `api_sessions` (6932) writes to stdout, which is the protocol's
  channel under stdio; 7056 lowers uvicorn's log level to keep stdout clean.
- A plain `SET` passes the read-only check (2148) and then always fails at the
  fetch, because it has no result.
- The progress of `db_pg96_analyze_logical_data_model_async` reaches more than its
  total of 4; `check_bloat` and `recommend_partitioning` end at 1 of 2.
- A late answer puts an older point at the end of the monitor's chart.
- Between the tunnel's start (1684) and 1741 no clean-up is registered.
- Behind the broken page there is a second reason a link could fail: under stdio
  each client starts a process of its own, all ask for the same port, and the API at
  that port has the reports of the process that got it. With one process at a time it
  has every report (proved: `OneProcessAnswers`).
- `create_virtual_indexes` executes client SQL and leaves no audit record.
- A report whose call fails on `response_format` stays in the cache (5729, 5752).

### Fairness

- Limiter: time passes; a thread that has read the clock gets the lock; threads
  keep retrying, which is the premise of recovery and what MCP clients do on
  "Retry in ~Ns".
- Tools: `Work` of each caller (a statement ends at the latest at
  `statement_timeout`) and `WaitTimesOut` (`MCP_POOL_TIMEOUT`). Nothing is
  assumed of failures, clients or connection loss.
- Sessions: statements end, of queries and of tuning.
- Runtime: the main thread and the HTTP thread run, and a uvicorn that is told
  to stop does: FastMCP sets `timeout_graceful_shutdown` to 0
  (tmp_fastmcp_214/fastmcp/server/server.py:2568). A line on stdin, failures
  and signals are not owed. `SearchEnds`, `StartupEnds` and the shutdown
  properties are therefore about every adversarial choice of those.
- Event loop: threads run, statements end at their timeout and waits at the
  pool's. `Resume` is strongly fair: the loop's callbacks are a queue, so a
  coroutine that is ready again and again gets its turn. Nobody is owed a
  cancellation or a connection.
- Session monitor: the timer fires, requests are answered or refused, and the
  browser runs what waits for the answers. `CatchesUp` assumes in its premise
  that the trouble is over and the instance stays selected.

## 4. Proofs

Every safety property of the passing runs, both refinements included, is proved by
TLAPS, for every value of the constants. The assumptions are the named ASSUMEs of
the modules; TLC evaluates them in the runs.

Liveness is out of the prover's reach, but what it is made of is not: that progress is
made by steps. For tool calls, the calls on a session, jobs and the process,
`...Advance` (or `ProcessMovesOn`) gives each actor a measure in the natural numbers
that its own steps lower and nobody else's raise, and `AlwaysReady` says that an actor
that is not through is never left without a step: it has what the step at hand needs,
or stands in a line it can leave. For the limiter and the monitor, whose actors go on
for ever, `RefusalsCostNothing` and `MonitorCatchesUp` say that what recovery waits for
grows and is never set back. What then remains for the liveness properties, and stays
with TLC, is that fairness makes the actors take their steps.

**QueryBreakerProofs** (`BreakerAssumption`): any number of threads, any integer
settings, any clock bound. `AdmissionBound` is not inductive: it says nothing of
the tokens still in the bucket. `IInv` adds `Accounting`, a conservation law:
tokens spent plus tokens left never exceed the initial capacity plus what was
credited for `lastRefill + rewound` seconds. An old stamp lowers `lastRefill` and
raises `rewound` by the same amount, so the sum never shrinks and grows by
exactly the elapsed time a caller credits (`RestampPays`). `LockoutBounded` needs
that a stamp is not in the future, and the action properties need that a caller
past the open check has a stamp no older than `openUntil` (`CriticalSection`).
`Refinement`: QueryBreaker implements AdmissionControl. Multiplication by the
unknown rate is kept out of the large steps by `TimesMonotone` and
`TimesDistributes`.

`OvertakingAlone` is the other side of finding 1: where no stamp is overtaken by a
newer one, `rewound` stays 0 and `AdmissionBound` is `TokenBucketBound`.
`OneAtATimeKeepsRate` puts that in terms of the code: a clock read under the lock
would do. `RefusalsCostNothing`: the tokens a refused caller leaves, with the stamp it
leaves, are worth what the old ones were (`RefusalKeepsCredit`), so retries cannot
starve each other.

**ToolExecutionProofs** (`ExecutionAssumption`: scripts are well-formed): any
number of callers and connections, any scripts. What a client is told is only
right because of what is in the transaction at each step; `IInv` therefore adds
`Transactions` (a connection's transaction holds exactly the writes its borrower
has passed), `Pending` (a call that is not over has nothing in the database),
`PoolInv` (one borrower, one place in line) and `Recorded`. The steps are proved
by part of the state: `...KeepsPool`, `...KeepsTransactions`, `...Tells`,
`...KeepsRecords`. A hand-over (`GiveBack`) disturbs two callers at once and is the
longest case. `NoLateEffects`, which no run checks, is proved too: nothing adds to
what a call has done once it is over.

`Atomicity`: ToolExecution implements AtomicCalls. The step that has the effect is
the COMMIT; what makes it the call's only one is `Pending` before it, and
`Transactions`, by which the COMMIT brings all of the call's writes and none of
another's. A `CommitFails` is a `Break` if there was something to commit and a `Fail`
otherwise. `CallsAdvance`: a call ends after at most twice as many steps as its
script is long, because a hand-over brings a waiting call forward and nothing sends
one back to the line.

**ToolServerProofs** (`CatalogAssumption`: callers use the catalogue).
`CatalogWellFormed` shows that what ToolExecution assumes of scripts is so for
every tool and any `MaxItems`: a script enters its block first and has no fallback
after a write (`Opened`), grows by plain steps and analyses of any length
(`OpenedLonger`), and ends (`OpenedEnds`). So the results about well-formed scripts
are results about the tools. In read-only mode every step of every script either
changes nothing or is client SQL that the keyword test does not recognise
(`CatalogPermitted`, from one lemma per group of tools), and what is in the database
is of steps of scripts (`Landings`), which is `ReadOnlyHolds`. `RecordsComeFirst`:
run_query and explain_query have the record before the SQL in all their scripts
(`QueryScripts`), no other tool of the catalogue is taken for them (`RecordedTools`),
and ToolExecution's `Recorded` says how a record a call has passed came out.

**PooledSessionProofs** (`TuningAssumption`, `QueryAssumption`): any batch, limit,
result, number of candidates, tables and sets. `FetchInv` relates the loop's three
counters (fetched + remaining = limit + 1, fetched + rest = the result's rows);
`TuningInv` says which hypothetical indexes the session has at each statement and
`BestInv` that the best so far is minimal, which needs that the order of results
is irreflexive and transitive (`BetterTransitive`). The shape of the candidate
sets is a property of a set, not of a recursive definition, so it can be used for
every size.

`CallsAdvance`: a query has at most the rows of its result and three statements to
go, a tuning call a number that its limits on tables and sets bound; a set that is
discarded counts as much as one that is measured. `OnlyRefusedResetsLeak` is
the other side of finding 3: under the hypothesis that no final reset fails while
there are indexes to reset, every call gives the session back without any. Errors
before and in the loop, lost connections and the queries in between are not excluded
by that hypothesis, so none of them can be the reason.

**HybridRuntimeProofs** (`RuntimeAssumption`): any tables, polls and signals.
`ScopeBeforeService` needs to know how far the checks are at each statement
(`ChecksInOrder`) and that there is no HTTP thread before the last
(`ThreadComesLast`). `SignalsObeyed`, which no run checks, is what a signal does at
once, however many come and wherever the main thread is on its way out: once
`_signal_handler` is installed the tunnel is closed or its closing was tried, the main
thread is unwinding, in the join or behind it, unless it is in uvicorn, which is then
draining, and under http there is no thread that the join could wait for. It needs
that the reader of stdin and the HTTP thread are of the stdio transport (`OnlyStdio`)
and that no step of the main thread leaves the way out (`OnWayOut`). It does not say
that the process ends: under stdio it may not (finding 4). `ProcessMovesOn`: the main
thread's points are in a line (`Place`), and a signal or an exception only skips some
of them.

**EventLoopProofs** (`LoopAssumption`: a script sets its instance before it
borrows, borrows once, awaits only on the loop): any jobs, pool size and scripts.
A job's place in its script decides its context, whether it can have a
connection and where it waits (`JobInv`); a line holds waiting jobs whose context
names its instance, each once (`LineInv`); so whoever is handed a connection gets
one of the right instance. `PoolInv` counts holders: a hand-over replaces one by
another. `StallEndsByTimeout` is about any set of loops, so also about two that wait
for each other: their coroutines take no step (`CoroutinesHeld`), so nobody gives back
a connection of the pools they wait for (`HoldersStay`), so all keep waiting
(`WaiterStays`) until one wait ends. A loop that waits for a connection which a thread
or a free loop has is not stalled, and the theorem says nothing of it.

`ServerCallsFit`: the server's own calls (the five async tools with each of their
options, the endpoints, synchronous tools, and the aliases of all of these) are what
`LoopAssumption` asks for. `JobsAdvance`: a job is nearer to its end after each step
of its own and no further after any other; being resumed counts as a step
and an await as another, and a hand-over counts for the one who waits. `AlwaysReady`:
the loop is held by a coroutine that runs or stands in a line, so a stall has an end.

**SessionMonitorProofs** (`MonitorAssumption`): any number of polls, changes and
chart length. The properties are inductive together with the types.
`MonitorCatchesUp`: what can put a page back are the polls with an old answer
(`Stale`), which become fewer and never more while there is no trouble or change.

**DataModelReportsProofs**: any number of processes and reports. No run checks these
properties: the module's only run is the finding. They are about the API, since the
page shows no report. What holds of caches, answers and the port is inductive
together: `AnsweredStaysAnswered` (a report that was had can be had while its process
runs) needs `ReportsKept` (a process has the reports it made, and no others) where a
report is fetched, and that a process that starts has made nothing.
`FetchFollowsPort` says when exactly the API at a link's address has the report.
`FetchWorks`, that it always has it, is not true of two processes;
`OneProcessAnswers`: while no two run at a time, whoever runs has the port, and it is.

Only model-checked: liveness (`BreakerRecovers`, `CallsSettle`, `SearchEnds`,
`QueriesEnd`, `StartupEnds`, `HttpStopsOnSignal`, `SignalEndsJoin`, `JobsEnd`,
`CatchesUp`), which with fairness and ENABLED is beyond the prover, and the
properties that the code violates. No module uses RECURSIVE.

## 5. Not modelled

- Authentication and middleware: one stateless decision per request.
- Skills, prompts, resources, demo tools: static content and thin wrappers.
- The npx launcher, scripts, tests: I/O, or not part of the program.
- Vendored dependencies (the bulk of the repository's lines): third-party code,
  present as external actions where `server.py` meets it.
- What tools compute from the rows they read: scores, recommendations, rendered
  text, SQL text. The scripts keep which statements run and in which order.
- Progress counts of the async tools and the drawing of the pages.
- A process that is killed outright: nothing is persisted but the database and the
  audit file, and PostgreSQL rolls back what was not committed, which is
  `ConnectionDrops`.

## 6. Running it

    tlc -workers 2 -config QueryBreaker.cfg MCQueryBreaker
    tlapm QueryBreakerProofs.tla      (and each other ...Proofs module)

Each cfg says what its instance is for. Runs marked "violated" in section 3 end
with a counterexample, which is the finding.
