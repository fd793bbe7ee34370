----------------------------- MODULE HybridRuntime -----------------------------
(***************************************************************************)
(* The life of the process of src/server.py: the start-up that importing   *)
(* the module is, `main`, the background HTTP thread of the stdio          *)
(* transport with its start-up handshake, signals, and the SSH tunnel's    *)
(* clean-up.                                                               *)
(*                                                                         *)
(* Start-up reads the settings, opens the tunnel, registers the clean-up,  *)
(* opens the pools and checks what the database user of each instance may  *)
(* do.  Any of it may raise, which ends the process by way of the          *)
(* interpreter's exit.                                                     *)
(*                                                                         *)
(* Under the http transport the main thread runs uvicorn, which has its    *)
(* own signal handlers while it serves and raises the captured signal      *)
(* again when it has stopped.  Under stdio the main thread runs the MCP    *)
(* loop over stdin and uvicorn runs in a second, non-daemon thread, where  *)
(* it sees no signals.  When the main thread ends, the interpreter first   *)
(* joins non-daemon threads (that one, and the reader of stdin, which a    *)
(* signal does not interrupt) and then calls the atexit functions; an      *)
(* exception raised by a signal handler during the join ends the join.     *)
(***************************************************************************)
EXTENDS Naturals

CONSTANTS
    Tables,      \* the tables of a database
    MaxPolls,    \* polls of _monitor_startup before it gives up (300)
    MaxSignals   \* bound on the SIGINTs and SIGTERMs sent

ASSUME RuntimeAssumption == MaxPolls \in Nat /\ MaxSignals \in Nat

VARIABLES
    setup,       \* ALLOW_WRITE (write), ENFORCE_TABLE_SCOPE (enforced) and
                 \* whether DATABASE_URL_INSTANCE_2 is set (second)
    transport,   \* MCP_TRANSPORT: "http", "sse", "stdio" or anything else, "other"
    main,        \* the main thread
    reader,      \* a worker thread of the MCP loop waits for a line from stdin
    http,        \* the background thread: "none", "building", "binding", "serving", "dead"
    started,     \* server.started of its uvicorn server
    monitor,     \* the _monitor_startup task is alive
    polls,       \* polls it made
    ready,       \* the server_ready event
    guarded,     \* _cleanup_ssh_tunnel and _signal_handler are registered
    checked,     \* the instances whose table scope was found in order
    tunnel,      \* "none", "up", "stuck" (stop() raised), "closed"
    signals      \* signals sent so far

threadVars == <<http, started, monitor, polls, ready>>
startVars == <<setup, transport, guarded, checked>>
vars == <<startVars, main, reader, threadVars, tunnel, signals>>

ImportSteps == {"reading", "tunnelling", "registering", "pooling", "scoping01", "scoping02"}
\* The ways out all go the same way: what runs in the main thread comes to its end, by
\* an exception or not, and is taken down; then come the join, atexit and the end.
Ending == {"unwinding", "joining", "atexit", "exited"}

\* The http and sse transports run uvicorn in the main thread.
InMainThread == transport \in {"http", "sse"}

Init ==
    /\ setup \in [write : BOOLEAN, enforced : BOOLEAN, second : BOOLEAN]
    /\ transport \in {"http", "sse", "stdio", "other"}
    /\ main = "reading"
    /\ reader = FALSE
    /\ http = "none"
    /\ started = FALSE
    /\ monitor = FALSE
    /\ polls = 0
    /\ ready = FALSE
    /\ guarded = FALSE
    /\ checked = {}
    /\ tunnel = "none"
    /\ signals = 0

-------------------------------------------------------------------------------
(* Start-up: the statements of the module *)

\* The settings that are only looked at here.
Settings == [url : BOOLEAN, allowWriteSet : BOOLEAN, confirmed : BOOLEAN,
             authenticated : BOOLEAN, enterprisedb : BOOLEAN]

Accepted(s) ==
    /\ s.url
    /\ s.allowWriteSet
    /\ setup.write => s.confirmed /\ (transport = "http" => s.authenticated)
    /\ ~ s.enterprisedb

ReadSettings ==
    /\ main = "reading"
    /\ \E s \in Settings :
          /\ ~ s.allowWriteSet => ~ setup.write
          /\ main' = IF Accepted(s) THEN "tunnelling" ELSE "unwinding"
    /\ UNCHANGED <<startVars, reader, threadVars, tunnel, signals>>

\* No tunnel is asked for, or it is started.
OpenTunnel ==
    /\ main = "tunnelling"
    /\ tunnel' \in {"none", "up"}
    /\ main' = "registering"
    /\ UNCHANGED <<startVars, reader, threadVars, signals>>

\* An exception of the module's own statements: the tunnel or a pool cannot be
\* made, a setting is no number, no connection comes for the check.
ImportRaises ==
    /\ main \in {"tunnelling", "pooling", "scoping01", "scoping02"}
    /\ main' = "unwinding"
    /\ UNCHANGED <<startVars, reader, threadVars, tunnel, signals>>

RegisterCleanUp ==
    /\ main = "registering"
    /\ guarded' = TRUE
    /\ main' = "pooling"
    /\ UNCHANGED <<setup, transport, checked, reader, threadVars, tunnel, signals>>

OpenPools ==
    /\ main = "pooling"
    /\ main' = "scoping01"
    /\ UNCHANGED <<startVars, reader, threadVars, tunnel, signals>>

\* What MCP_ALLOWED_TABLES names and what the database user may do.
Scopes == [allowed : SUBSET Tables, selectable : SUBSET Tables, writable : SUBSET Tables]

InScope(s) ==
    /\ s.allowed # {}
    /\ s.selectable = s.allowed
    /\ setup.write \/ s.writable = {}

\* Mutation of AfterScope: the first instance stands for both.
AfterScopeOfOne(i) == "starting"

\* The second instance is checked in its own context, if there is one.
AfterScope(i) == IF i = "01" /\ setup.second THEN "scoping02" ELSE "starting"

\* _validate_table_scope, called for instance i
ValidateTableScope(i) ==
    /\ main = IF i = "01" THEN "scoping01" ELSE "scoping02"
    /\ \/ /\ ~ setup.enforced
          /\ main' = AfterScope(i)
          /\ UNCHANGED checked
       \/ /\ setup.enforced
          /\ \E s \in Scopes :
                IF InScope(s) THEN main' = AfterScope(i) /\ checked' = checked \cup {i}
                              ELSE main' = "unwinding" /\ UNCHANGED checked
    /\ UNCHANGED <<setup, transport, guarded, reader, threadVars, tunnel, signals>>

-------------------------------------------------------------------------------
(* The main thread *)

\* mcp.run(transport="http"), or "sse" unless MCP_ALLOW_LEGACY_SSE is false
RunHttp ==
    /\ main = "starting"
    /\ InMainThread
    /\ main' = "serving"
    /\ UNCHANGED <<startVars, reader, threadVars, tunnel, signals>>

\* ValueError: legacy SSE is disabled, the transport is unknown, or a setting
\* that main reads is no number.
MainRaises ==
    /\ main = "starting"
    /\ main' = "unwinding"
    /\ UNCHANGED <<startVars, reader, threadVars, tunnel, signals>>

\* http_thread.start(), then server_ready.wait(timeout=15.0)
LaunchBackground ==
    /\ main = "starting"
    /\ transport = "stdio"
    /\ main' = "waiting"
    /\ http' = "building"
    /\ UNCHANGED <<startVars, reader, started, monitor, polls, ready, tunnel, signals>>

WaitReturns ==
    /\ main = "waiting"
    /\ ready
    /\ main' = "serving"
    /\ reader' = TRUE
    /\ UNCHANGED <<startVars, threadVars, tunnel, signals>>

\* Mutation of WaitTimesOut: server_ready.wait() without a timeout.
WaitWithoutTimeout ==
    /\ main = "waiting"
    /\ ready
    /\ main' = "serving"
    /\ reader' = TRUE
    /\ UNCHANGED <<startVars, threadVars, tunnel, signals>>

WaitTimesOut ==
    /\ main = "waiting"
    /\ ~ ready
    /\ main' = "serving"
    /\ reader' = TRUE
    /\ UNCHANGED <<startVars, threadVars, tunnel, signals>>

\* mcp.run ends, and with it main(): stdin is at its end, or uvicorn, under the
\* http transport, cannot bind its port.
RunEnds ==
    /\ main = "serving"
    /\ main' = "unwinding"
    /\ reader' = FALSE
    /\ UNCHANGED <<startVars, threadVars, tunnel, signals>>

\* After a signal ended the MCP loop, its reader ends with the line it waits for.
ReaderEnds ==
    /\ main \in {"unwinding", "joining"}
    /\ reader
    /\ reader' = FALSE
    /\ UNCHANGED <<startVars, main, threadVars, tunnel, signals>>

\* The handler has returned by its exception, asyncio's runner has cancelled the tasks
\* of the loop, the module is left: the interpreter begins to wait for its threads.
Unwound ==
    /\ main = "unwinding"
    /\ main' = "joining"
    /\ UNCHANGED <<startVars, reader, threadVars, tunnel, signals>>

\* Mutation of Joined: a thread that was never started is waited for.
JoinedDead ==
    /\ main = "joining"
    /\ ~ reader
    /\ http = "dead"
    /\ main' = "atexit"
    /\ UNCHANGED <<startVars, reader, threadVars, tunnel, signals>>

\* No non-daemon thread is left to wait for.
Joined ==
    /\ main = "joining"
    /\ ~ reader
    /\ http \in {"none", "dead"}
    /\ main' = "atexit"
    /\ UNCHANGED <<startVars, reader, threadVars, tunnel, signals>>

\* _cleanup_ssh_tunnel: when stop() raises, the reference is kept and a later
\* call tries again.
CleanUp ==
    IF tunnel \in {"up", "stuck"} THEN tunnel' \in {"closed", "stuck"}
                                  ELSE UNCHANGED tunnel

\* Mutation of Exit: the clean-up is not registered with atexit.
ExitWithoutCleanUp ==
    /\ main = "atexit"
    /\ main' = "exited"
    /\ http' = IF http = "none" THEN "none" ELSE "dead"
    /\ monitor' = FALSE
    /\ UNCHANGED <<startVars, reader, started, polls, ready, tunnel, signals>>

\* The atexit function, if it got registered; then the process and its threads
\* are gone.
Exit ==
    /\ main = "atexit"
    /\ IF guarded THEN CleanUp ELSE UNCHANGED tunnel
    /\ main' = "exited"
    /\ http' = IF http = "none" THEN "none" ELSE "dead"
    /\ monitor' = FALSE
    /\ UNCHANGED <<startVars, reader, started, polls, ready, signals>>

-------------------------------------------------------------------------------
(* The background HTTP thread *)

Alive == main # "exited"

\* An exception that is an Exception: logged, and the event is set.
ThreadRaises ==
    /\ Alive
    /\ http \in {"building", "binding", "serving"}
    /\ http' = "dead"
    /\ monitor' = FALSE
    /\ ready' = TRUE
    /\ UNCHANGED <<startVars, reader, main, started, polls, tunnel, signals>>

CreateMonitor ==
    /\ Alive
    /\ http = "building"
    /\ http' = "binding"
    /\ monitor' = TRUE
    /\ UNCHANGED <<startVars, reader, main, started, polls, ready, tunnel, signals>>

Bound ==
    /\ Alive
    /\ http = "binding"
    /\ http' = "serving"
    /\ started' = TRUE
    /\ UNCHANGED <<startVars, reader, main, monitor, polls, ready, tunnel, signals>>

\* uvicorn cannot bind its port and calls sys.exit(1), or the application's
\* start-up fails and serve() returns: neither is an Exception, and the finally
\* clause cancels the monitor.
BindFails ==
    /\ Alive
    /\ http = "binding"
    /\ http' = "dead"
    /\ monitor' = FALSE
    /\ UNCHANGED <<startVars, reader, main, started, polls, ready, tunnel, signals>>

MonitorSeesStart ==
    /\ Alive
    /\ monitor
    /\ started
    /\ ready' = TRUE
    /\ monitor' = FALSE
    /\ UNCHANGED <<startVars, reader, main, http, started, polls, tunnel, signals>>

\* Mutation of MonitorPolls: one poll too many.
MonitorPollsOnce ==
    /\ Alive
    /\ monitor
    /\ ~ started
    /\ polls <= MaxPolls
    /\ polls' = polls + 1
    /\ UNCHANGED <<startVars, reader, main, http, started, monitor, ready, tunnel, signals>>

MonitorPolls ==
    /\ Alive
    /\ monitor
    /\ ~ started
    /\ polls < MaxPolls
    /\ polls' = polls + 1
    /\ UNCHANGED <<startVars, reader, main, http, started, monitor, ready, tunnel, signals>>

MonitorGivesUp ==
    /\ Alive
    /\ monitor
    /\ polls = MaxPolls
    /\ ready' = TRUE
    /\ monitor' = FALSE
    /\ UNCHANGED <<startVars, reader, main, http, started, polls, tunnel, signals>>

-------------------------------------------------------------------------------
(* Signals *)

Signalled ==
    /\ signals < MaxSignals
    /\ signals' = signals + 1

\* Before _signal_handler is installed SIGTERM ends the process on the spot.
Killed ==
    /\ Signalled
    /\ Alive
    /\ ~ guarded
    /\ main' = "exited"
    /\ UNCHANGED <<startVars, reader, threadVars, tunnel>>

\* An exception from a signal in the main thread ends what it does; one that comes
\* while another is still on its way up takes that one's place.  In the interpreter's
\* join, it ends the join.
Interrupt == main' = IF main \in {"joining", "atexit"} THEN "atexit" ELSE "unwinding"

\* SIGINT before that: KeyboardInterrupt.
Interrupted ==
    /\ Signalled
    /\ Alive
    /\ ~ guarded
    /\ Interrupt
    /\ UNCHANGED <<startVars, reader, threadVars, tunnel>>

\* Mutation of SignalHandled: no sys.exit(0).
HandlerReturns ==
    /\ Signalled
    /\ Alive
    /\ guarded
    /\ ~ (InMainThread /\ main \in {"serving", "draining"})
    /\ CleanUp
    /\ UNCHANGED <<startVars, main, reader, threadVars>>

\* _signal_handler in the main thread: clean up and sys.exit(0).  A signal that comes
\* during the clean-up finds the process unwinding: its own call cleans up.
SignalHandled ==
    /\ Signalled
    /\ Alive
    /\ guarded
    /\ ~ (InMainThread /\ main \in {"serving", "draining"})
    /\ CleanUp
    /\ Interrupt
    /\ UNCHANGED <<startVars, reader, threadVars>>

\* While uvicorn serves in the main thread its handler takes the signals.
SignalToUvicorn ==
    /\ Signalled
    /\ InMainThread
    /\ main \in {"serving", "draining"}
    /\ main' = "draining"
    /\ UNCHANGED <<startVars, reader, threadVars, tunnel>>

\* uvicorn has shut down and raises the signal again, for _signal_handler.
Drained ==
    /\ main = "draining"
    /\ CleanUp
    /\ main' = "unwinding"
    /\ UNCHANGED <<startVars, reader, threadVars, signals>>

StartUp == ReadSettings \/ OpenTunnel \/ RegisterCleanUp \/ OpenPools
           \/ \E i \in {"01", "02"} : ValidateTableScope(i)

MainSteps == StartUp \/ RunHttp \/ MainRaises \/ LaunchBackground \/ WaitReturns
             \/ WaitTimesOut \/ Unwound \/ Joined \/ Exit \/ Drained

ThreadSteps == CreateMonitor \/ Bound \/ MonitorSeesStart \/ MonitorPolls
               \/ MonitorGivesUp

Environment == ImportRaises \/ RunEnds \/ ReaderEnds \/ ThreadRaises \/ BindFails
               \/ Killed \/ Interrupted \/ SignalHandled \/ SignalToUvicorn

\* After the end nothing happens any more.
Gone == main = "exited" /\ UNCHANGED vars

Next == MainSteps \/ ThreadSteps \/ Environment \/ Gone

Spec == Init /\ [][Next]_vars

\* The threads of the process run; failures, clients and signals are not owed.
FairSpec == Spec /\ WF_vars(MainSteps) /\ WF_vars(ThreadSteps)

-------------------------------------------------------------------------------
(* Properties *)

TypeOK ==
    /\ setup \in [write : BOOLEAN, enforced : BOOLEAN, second : BOOLEAN]
    /\ transport \in {"http", "sse", "stdio", "other"}
    /\ main \in ImportSteps \cup Ending \cup {"starting", "waiting", "serving", "draining"}
    /\ http \in {"none", "building", "binding", "serving", "dead"}
    /\ reader \in BOOLEAN /\ started \in BOOLEAN /\ monitor \in BOOLEAN /\ ready \in BOOLEAN
    /\ polls \in 0 .. MaxPolls
    /\ guarded \in BOOLEAN
    /\ checked \subseteq {"01", "02"}
    /\ tunnel \in {"none", "up", "stuck", "closed"}
    /\ signals \in 0 .. MaxSignals

\* No start-up hangs: past every failure of the tunnel, the pools, the checks and
\* the HTTP thread, the process comes to serve its clients or to its exit.
StartupEnds ==
    main \in ImportSteps \cup {"starting", "waiting"}
        ~> main \in {"serving", "draining"} \cup Ending

\* Once the clean-up is registered, no way out of the process leaves the tunnel
\* open without an attempt to close it: not a start-up that fails, not an early
\* signal, not one during the join, not the end of stdin.
TunnelNotForgotten == main = "exited" /\ guarded => tunnel # "up"

\* Comment: "Validate table scope for each configured instance at startup": where
\* the scope is enforced, neither the main thread nor the HTTP thread serves
\* clients before every configured instance was found in order.
ScopeBeforeService ==
    setup.enforced
    /\ (main \in {"waiting", "serving", "draining"} \/ http \in {"binding", "serving"})
        => checked = IF setup.second THEN {"01", "02"} ELSE {"01"}

\* From the first signal on, however early it comes, the process is on its way out or
\* uvicorn is shutting down, and no failure or event takes it back; the tunnel is only
\* left as it was until uvicorn has shut down; and where uvicorn has the main thread,
\* there is no other thread to wait for.
SignalsObeyed ==
    /\ signals > 0 => main \in Ending \/ (InMainThread /\ main = "draining")
    /\ signals > 0 /\ guarded => tunnel # "up" \/ main = "draining"
    /\ InMainThread => ~ reader /\ http = "none"

\* With uvicorn in the main thread one signal stops the process, whenever it
\* comes, during start-up too.
HttpStopsOnSignal == InMainThread /\ signals > 0 ~> main = "exited"

\* A signal that comes while the process waits for its threads gets it to its end, under
\* every transport and after any others, though a thread may run for ever.  Counted from
\* the join: two signals that both come before it are not enough.
SignalEndsJoin ==
    \A sent \in 0 .. MaxSignals :
        [](main = "joining" /\ signals = sent => [](signals > sent => <>(main = "exited")))

\* Comments: "Register signal handlers for graceful shutdown", "Use non-daemon
\* thread for cleaner shutdown": a signal stops the process.
SignalStops == signals > 0 ~> main = "exited"
===============================================================================
