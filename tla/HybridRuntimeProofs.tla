-------------------------- MODULE HybridRuntimeProofs --------------------------
(***************************************************************************)
(* What the process of src/server.py never does, for any tables, any       *)
(* number of polls and any number of signals.                              *)
(*                                                                         *)
(* TunnelNotForgotten holds by its own strength.  ScopeBeforeService needs *)
(* to know how far the checks are at each statement of the start-up, and   *)
(* that there is no HTTP thread before the last of them.  What a signal    *)
(* achieves at once is under Signals, and that no thread goes in circles   *)
(* under Progress.                                                         *)
(***************************************************************************)
EXTENDS HybridRuntime, TLAPS

AllChecked == checked = IF setup.second THEN {"01", "02"} ELSE {"01"}

ChecksInOrder ==
    /\ main \in ImportSteps \ {"scoping02"} => checked = {}
    /\ main = "scoping02" => setup.second /\ (setup.enforced => checked = {"01"})
    /\ main \in {"starting", "waiting", "serving", "draining"} /\ setup.enforced => AllChecked

ThreadComesLast ==
    /\ main \in ImportSteps \cup {"starting"} => http = "none"
    /\ http # "none" /\ setup.enforced => AllChecked

\* TypeOK in two parts: the flags, and all the rest.
FlagsOK ==
    /\ reader \in BOOLEAN /\ started \in BOOLEAN /\ monitor \in BOOLEAN /\ ready \in BOOLEAN
    /\ guarded \in BOOLEAN

StatesOK ==
    /\ setup \in [write : BOOLEAN, enforced : BOOLEAN, second : BOOLEAN]
    /\ transport \in {"http", "sse", "stdio", "other"}
    /\ main \in ImportSteps \cup Ending \cup {"starting", "waiting", "serving", "draining"}
    /\ http \in {"none", "building", "binding", "serving", "dead"}
    /\ polls \in 0 .. MaxPolls
    /\ checked \subseteq {"01", "02"}
    /\ tunnel \in {"none", "up", "stuck", "closed"}
    /\ signals \in 0 .. MaxSignals

IInv == StatesOK /\ TunnelNotForgotten /\ ChecksInOrder /\ ThreadComesLast

-------------------------------------------------------------------------------
\* The first statement of the module is still to come.
LEMMA InitialState == Init => IInv
<1> SUFFICES ASSUME Init PROVE IInv
  OBVIOUS
<1>1. StatesOK
  BY RuntimeAssumption DEF Init, StatesOK, ImportSteps
<1>2. TunnelNotForgotten /\ ChecksInOrder
  BY DEF Init, TunnelNotForgotten, ChecksInOrder, ImportSteps
<1>3. ThreadComesLast
  BY DEF Init, ThreadComesLast, ImportSteps
<1> QED  BY <1>1, <1>2, <1>3 DEF IInv

\* The statements of start-up, each of which may raise.
LEMMA ImportKeeps ==
  ASSUME IInv, StartUp \/ ImportRaises
  PROVE  IInv'
<1> USE RuntimeAssumption DEF IInv, ImportSteps, Ending, startVars, threadVars
<1>1. CASE ReadSettings
  BY <1>1 DEF ReadSettings, StatesOK, TunnelNotForgotten, ChecksInOrder, ThreadComesLast, AllChecked
<1>2. CASE OpenTunnel
  BY <1>2 DEF OpenTunnel, StatesOK, TunnelNotForgotten, ChecksInOrder, ThreadComesLast, AllChecked
<1>3. CASE RegisterCleanUp
  BY <1>3
     DEF RegisterCleanUp, StatesOK, TunnelNotForgotten, ChecksInOrder, ThreadComesLast, AllChecked
<1>4. CASE OpenPools
  BY <1>4 DEF OpenPools, StatesOK, TunnelNotForgotten, ChecksInOrder, ThreadComesLast, AllChecked
<1>5. ASSUME NEW i \in {"01", "02"}, ValidateTableScope(i)
      PROVE  IInv'
  <2>1. CASE ~ setup.enforced
    BY <1>5, <2>1
       DEF ValidateTableScope, AfterScope, StatesOK, TunnelNotForgotten, ChecksInOrder,
           ThreadComesLast, AllChecked
  <2>2. CASE setup.enforced /\ main' = AfterScope(i) /\ checked' = checked \cup {i}
    BY <1>5, <2>2
       DEF ValidateTableScope, AfterScope, StatesOK, TunnelNotForgotten, ChecksInOrder,
           ThreadComesLast, AllChecked
  <2>3. CASE setup.enforced /\ main' = "unwinding" /\ UNCHANGED checked
    BY <1>5, <2>3
       DEF ValidateTableScope, StatesOK, TunnelNotForgotten, ChecksInOrder, ThreadComesLast,
           AllChecked
  <2> QED  BY <1>5, <2>1, <2>2, <2>3 DEF ValidateTableScope
<1>6. CASE ImportRaises
  BY <1>6 DEF ImportRaises, StatesOK, TunnelNotForgotten, ChecksInOrder, ThreadComesLast, AllChecked
<1> QED  BY <1>1, <1>2, <1>3, <1>4, <1>5, <1>6 DEF StartUp

\* The main thread behind start-up.
LEMMA MainKeeps ==
  ASSUME IInv,
         RunHttp \/ MainRaises \/ LaunchBackground \/ WaitReturns \/ WaitTimesOut
            \/ RunEnds \/ ReaderEnds \/ Unwound \/ Joined \/ Exit
  PROVE  IInv'
<1> USE DEF IInv, ImportSteps, Ending, startVars, threadVars, StatesOK, TunnelNotForgotten,
            ChecksInOrder, ThreadComesLast, AllChecked
<1>1. CASE RunHttp \/ MainRaises
  <2>1. CASE RunHttp
    BY <2>1 DEF RunHttp
  <2>2. CASE MainRaises
    BY <2>2 DEF MainRaises
  <2> QED  BY <1>1, <2>1, <2>2
<1>2. CASE LaunchBackground
  <2>1. StatesOK' /\ TunnelNotForgotten'
    BY <1>2 DEF LaunchBackground
  <2>2. ChecksInOrder' /\ ThreadComesLast'
    BY <1>2 DEF LaunchBackground
  <2> QED  BY <2>1, <2>2
<1>3. CASE WaitReturns \/ WaitTimesOut
  <2>1. CASE WaitReturns
    BY <2>1 DEF WaitReturns
  <2>2. CASE WaitTimesOut
    BY <2>2 DEF WaitTimesOut
  <2> QED  BY <1>3, <2>1, <2>2
<1>4. CASE RunEnds \/ ReaderEnds \/ Unwound \/ Joined
  <2>1. CASE RunEnds
    BY <2>1 DEF RunEnds
  <2>2. CASE ReaderEnds
    BY <2>2 DEF ReaderEnds
  <2>3. CASE Unwound
    BY <2>3 DEF Unwound
  <2>4. CASE Joined
    BY <2>4 DEF Joined
  <2> QED  BY <1>4, <2>1, <2>2, <2>3, <2>4
<1>5. CASE Exit
  <2>1. guarded => tunnel' # "up"
    BY <1>5 DEF Exit, CleanUp
  <2>2. tunnel' \in {"none", "up", "stuck", "closed"}
    BY <1>5 DEF Exit, CleanUp
  <2> QED  BY <1>5, <2>1, <2>2 DEF Exit
<1> QED  BY <1>1, <1>2, <1>3, <1>4, <1>5

\* The HTTP thread and its monitor.
LEMMA ThreadKeeps ==
  ASSUME IInv, ThreadSteps \/ ThreadRaises \/ BindFails
  PROVE  IInv'
<1> USE DEF ThreadSteps, CreateMonitor, Bound, MonitorSeesStart, MonitorPolls, MonitorGivesUp,
            ThreadRaises, BindFails, startVars
<1>1. UNCHANGED <<setup, transport, guarded, checked, main, tunnel, signals>>
  BY Zenon
<1>2. polls' \in 0 .. MaxPolls
  <2>1. polls' = polls \/ (polls < MaxPolls /\ polls' = polls + 1)
    BY Zenon
  <2> QED  BY <2>1, RuntimeAssumption DEF IInv, StatesOK
<1>3. http' = http \/ (http # "none" /\ http' \in {"binding", "serving", "dead"})
  BY Zenon
<1> HIDE DEF ThreadSteps, ThreadRaises, BindFails
<1>4. StatesOK'
  BY <1>1, <1>2, <1>3 DEF IInv, StatesOK
<1>5. (TunnelNotForgotten /\ ChecksInOrder)'
  BY <1>1 DEF IInv, TunnelNotForgotten, ChecksInOrder, AllChecked
<1>6. ThreadComesLast'
  BY <1>1, <1>3 DEF IInv, ThreadComesLast, AllChecked
<1> QED  BY <1>4, <1>5, <1>6 DEF IInv

\* Signals, before and after their handler is there.
LEMMA SignalKeeps ==
  ASSUME IInv, Killed \/ Interrupted \/ SignalHandled \/ SignalToUvicorn \/ Drained
  PROVE  IInv'
<1> USE RuntimeAssumption
    DEF IInv, ImportSteps, Ending, startVars, threadVars, StatesOK, TunnelNotForgotten,
        ChecksInOrder, ThreadComesLast, AllChecked, Signalled
<1>1. CASE Killed
  BY <1>1 DEF Killed
<1>2. CASE Interrupted
  <2>1. main' \in {"unwinding", "atexit"}
    BY <1>2 DEF Interrupted, Interrupt
  <2> QED  BY <1>2, <2>1 DEF Interrupted
<1>3. CASE SignalHandled
  <2>1. tunnel' \in {"none", "up", "stuck", "closed"}
    BY <1>3 DEF SignalHandled, CleanUp
  <2> QED  BY <1>3, <2>1 DEF SignalHandled, Interrupt, Alive
<1>4. CASE SignalToUvicorn
  BY <1>4 DEF SignalToUvicorn
<1>5. CASE Drained
  <2>1. tunnel' \in {"none", "up", "stuck", "closed"}
    BY <1>5 DEF Drained, CleanUp
  <2> QED  BY <1>5, <2>1 DEF Drained
<1> QED  BY <1>1, <1>2, <1>3, <1>4, <1>5

\* A step that changes nothing.
LEMMA Unchanged ==
  ASSUME IInv, UNCHANGED vars
  PROVE  IInv'
BY DEF vars, startVars, threadVars, IInv, StatesOK, TunnelNotForgotten, ChecksInOrder,
       ThreadComesLast, AllChecked

\* Every step of the process keeps the invariant.
LEMMA Step == IInv /\ [Next]_vars => IInv'
<1> SUFFICES ASSUME IInv, [Next]_vars PROVE IInv'
  OBVIOUS
<1>1. CASE Next
  BY <1>1, ImportKeeps, MainKeeps, ThreadKeeps, SignalKeeps, Unchanged
     DEF Next, MainSteps, Environment, Gone
<1>2. CASE UNCHANGED vars
  BY <1>2, Unchanged
<1> QED  BY <1>1, <1>2

\* Flags stay flags.
LEMMA FlagsStep == FlagsOK /\ [Next]_vars => FlagsOK'
<1> SUFFICES ASSUME FlagsOK, [Next]_vars PROVE FlagsOK'
  OBVIOUS
<1> USE DEF FlagsOK, startVars, threadVars
<1>1. CASE MainSteps
  BY <1>1, Zenon
     DEF MainSteps, StartUp, ReadSettings, OpenTunnel, RegisterCleanUp, OpenPools,
         ValidateTableScope, RunHttp, MainRaises, LaunchBackground, WaitReturns, WaitTimesOut,
         Unwound, Joined, Exit, Drained
<1>2. CASE ThreadSteps
  BY <1>2, Zenon
     DEF ThreadSteps, CreateMonitor, Bound, MonitorSeesStart, MonitorPolls, MonitorGivesUp
<1>3. CASE Environment
  BY <1>3, Zenon
     DEF Environment, ImportRaises, RunEnds, ReaderEnds, ThreadRaises, BindFails, Killed,
         Interrupted, SignalHandled, SignalToUvicorn
<1>4. CASE UNCHANGED vars
  BY <1>4 DEF vars
<1> QED  BY <1>1, <1>2, <1>3, <1>4 DEF Next, Gone

\* The induction: what holds of every start-up and of every way to run and end.
THEOREM Invariance == Spec => []IInv
<1>1. Init => IInv
  BY InitialState
<1>2. IInv /\ [Next]_vars => IInv'
  BY Step
<1> QED  BY <1>1, <1>2, PTL DEF Spec

\* Type correctness.
THEOREM TypeCorrect == Spec => []TypeOK
<1>1. Init => FlagsOK
  BY DEF Init, FlagsOK
<1>2. FlagsOK /\ [Next]_vars => FlagsOK'
  BY FlagsStep
<1>3. Spec => []FlagsOK
  BY <1>1, <1>2, PTL DEF Spec
<1>4. IInv /\ FlagsOK => TypeOK
  BY DEF IInv, StatesOK, FlagsOK, TypeOK
<1> QED  BY <1>3, <1>4, Invariance, PTL

\* _cleanup_ssh_tunnel is attempted on every way out once it is registered.
THEOREM TunnelClosed == Spec => []TunnelNotForgotten
<1>1. IInv => TunnelNotForgotten
  BY DEF IInv
<1> QED  BY <1>1, Invariance, PTL

\* _validate_table_scope has passed for every instance before anything is served.
THEOREM ScopeChecked == Spec => []ScopeBeforeService
<1>1. IInv => ScopeBeforeService
  BY DEF IInv, ScopeBeforeService, ChecksInOrder, ThreadComesLast, AllChecked
<1> QED  BY <1>1, Invariance, PTL
-------------------------------------------------------------------------------
(* Signals *)

\* Who could keep the interpreter from its end: only under stdio is there a thread
\* besides the main one, or a reader of stdin.
OnlyStdio == transport # "stdio" => main # "waiting" /\ reader = FALSE /\ http = "none"

EndInSight == main \in Ending \/ (InMainThread /\ main = "draining")

OnWayOut ==
    /\ signals > 0 => EndInSight
    /\ signals > 0 /\ guarded => tunnel # "up" \/ main = "draining"

\* A reader of stdin or an HTTP thread is only started under stdio.
LEMMA OnlyStdioKept == OnlyStdio /\ [Next]_vars => OnlyStdio'
<1> SUFFICES ASSUME OnlyStdio, [Next]_vars, transport' # "stdio"
             PROVE  main' # "waiting" /\ reader' = FALSE /\ http' = "none"
  BY DEF OnlyStdio
<1> USE DEF OnlyStdio, startVars, threadVars
<1>1. transport' = transport
  <2>1. CASE MainSteps
    BY <2>1, Zenon
       DEF MainSteps, StartUp, ReadSettings, OpenTunnel, RegisterCleanUp, OpenPools,
           ValidateTableScope, RunHttp, MainRaises, LaunchBackground, WaitReturns,
           WaitTimesOut, Unwound, Joined, Exit, Drained
  <2>2. CASE ThreadSteps
    BY <2>2, Zenon
       DEF ThreadSteps, CreateMonitor, Bound, MonitorSeesStart, MonitorPolls, MonitorGivesUp
  <2>3. CASE Environment
    BY <2>3, Zenon
       DEF Environment, ImportRaises, RunEnds, ReaderEnds, ThreadRaises, BindFails, Killed,
           Interrupted, SignalHandled, SignalToUvicorn
  <2>4. CASE UNCHANGED vars
    BY <2>4 DEF vars
  <2> QED  BY <2>1, <2>2, <2>3, <2>4 DEF Next, Gone
<1>2. transport # "stdio" /\ main # "waiting" /\ reader = FALSE /\ http = "none"
  BY <1>1
<1> HIDE DEF OnlyStdio
<1>3. CASE StartUp \/ RunHttp \/ MainRaises \/ Unwound \/ Joined \/ Drained \/ ImportRaises
  <2>1. main' # "waiting"
    <3>1. ASSUME NEW i \in {"01", "02"}, ValidateTableScope(i) PROVE main' # "waiting"
      BY <3>1 DEF ValidateTableScope, AfterScope
    <3> QED
      BY <1>3, <3>1
         DEF StartUp, ReadSettings, OpenTunnel, RegisterCleanUp, OpenPools, RunHttp,
             MainRaises, Unwound, Joined, Drained, ImportRaises
  <2>2. reader' = reader /\ http' = http
    BY <1>3, Zenon
       DEF StartUp, ReadSettings, OpenTunnel, RegisterCleanUp, OpenPools, ValidateTableScope,
           RunHttp, MainRaises, Unwound, Joined, Drained, ImportRaises
  <2> QED  BY <1>2, <2>1, <2>2
<1>4. ~ (LaunchBackground \/ WaitReturns \/ WaitTimesOut)
  BY <1>2 DEF LaunchBackground, WaitReturns, WaitTimesOut
<1>5. CASE Exit \/ RunEnds \/ ReaderEnds
  BY <1>2, <1>5 DEF Exit, RunEnds, ReaderEnds
<1>6. CASE Killed \/ Interrupted \/ SignalHandled \/ SignalToUvicorn
  BY <1>2, <1>6 DEF Killed, Interrupted, SignalHandled, SignalToUvicorn, Interrupt
<1>7. CASE ThreadSteps \/ ThreadRaises \/ BindFails
  <2>1. main' = main /\ reader' = reader
    BY <1>7, Zenon
       DEF ThreadSteps, CreateMonitor, Bound, MonitorSeesStart, MonitorPolls, MonitorGivesUp,
           ThreadRaises, BindFails
  <2>2. http' = "none"
    BY <1>2, <1>7
       DEF ThreadSteps, CreateMonitor, Bound, MonitorSeesStart, MonitorPolls, MonitorGivesUp,
           ThreadRaises, BindFails
  <2> QED  BY <1>2, <2>1, <2>2
<1>8. CASE UNCHANGED vars
  BY <1>2, <1>8 DEF vars
<1> QED  BY <1>3, <1>4, <1>5, <1>6, <1>7, <1>8 DEF Next, MainSteps, Environment, Gone

\* No step brings the process back from its way out, nor its tunnel.
LEMMA OnWayOutKept == IInv /\ OnWayOut /\ [Next]_vars => OnWayOut'
<1> SUFFICES ASSUME IInv, OnWayOut, [Next]_vars PROVE OnWayOut'
  OBVIOUS
<1> USE DEF startVars, threadVars, Ending
<1>0. signals \in Nat
  BY RuntimeAssumption DEF IInv, StatesOK
<1>1. CASE StartUp \/ RunHttp \/ MainRaises \/ LaunchBackground \/ WaitReturns \/ WaitTimesOut
           \/ ImportRaises \/ RunEnds
  <2>1. main \notin Ending \cup {"draining"} /\ signals' = signals
    <3>1. main \notin Ending \cup {"draining"}
      <4>1. ASSUME NEW i \in {"01", "02"}, ValidateTableScope(i)
            PROVE  main \notin Ending \cup {"draining"}
        BY <4>1 DEF ValidateTableScope
      <4> QED
        BY <1>1, <4>1
           DEF StartUp, ReadSettings, OpenTunnel, RegisterCleanUp, OpenPools, RunHttp,
               MainRaises, LaunchBackground, WaitReturns, WaitTimesOut, ImportRaises, RunEnds
    <3>2. signals' = signals
      BY <1>1, Zenon
         DEF StartUp, ReadSettings, OpenTunnel, RegisterCleanUp, OpenPools,
             ValidateTableScope, RunHttp, MainRaises, LaunchBackground, WaitReturns,
             WaitTimesOut, ImportRaises, RunEnds
    <3> QED  BY <3>1, <3>2
  <2>2. ~ (signals > 0)
    BY <1>0, <2>1 DEF OnWayOut, EndInSight
  <2> QED  BY <2>1, <2>2 DEF OnWayOut
<1>2. CASE Unwound \/ Joined \/ Exit
  <2>1. main' \in Ending /\ main # "draining"
    BY <1>2 DEF Unwound, Joined, Exit
  <2>2. guarded' = guarded /\ signals' = signals
    BY <1>2 DEF Unwound, Joined, Exit
  <2>3. tunnel # "up" => tunnel' # "up"
    BY <1>2 DEF Unwound, Joined, Exit, CleanUp
  <2> QED  BY <2>1, <2>2, <2>3 DEF OnWayOut, EndInSight
<1>3. CASE Drained \/ SignalHandled
  <2>1. main' \in Ending
    BY <1>3 DEF Drained, SignalHandled, Interrupt
  <2>2. tunnel' # "up"
    BY <1>3 DEF Drained, SignalHandled, CleanUp
  <2> QED  BY <2>1, <2>2 DEF OnWayOut, EndInSight
<1>4. CASE ThreadSteps \/ ThreadRaises \/ BindFails \/ ReaderEnds \/ UNCHANGED vars
  <2>1. UNCHANGED <<transport, main, guarded, tunnel, signals>>
    BY <1>4, Zenon
       DEF ThreadSteps, CreateMonitor, Bound, MonitorSeesStart, MonitorPolls, MonitorGivesUp,
           ThreadRaises, BindFails, ReaderEnds, vars
  <2> QED  BY <2>1 DEF OnWayOut, EndInSight, InMainThread
<1>5. CASE Killed \/ Interrupted
  <2>1. main' \in Ending /\ ~ guarded'
    BY <1>5 DEF Killed, Interrupted, Interrupt
  <2> QED  BY <2>1 DEF OnWayOut, EndInSight
<1>6. CASE SignalToUvicorn
  <2>1. InMainThread /\ main' = "draining" /\ transport' = transport
    BY <1>6 DEF SignalToUvicorn
  <2> QED  BY <2>1 DEF OnWayOut, EndInSight, InMainThread
<1> QED
  BY <1>1, <1>2, <1>3, <1>4, <1>5, <1>6 DEF Next, MainSteps, Environment, Gone

\* What is true of HttpStopsOnSignal without any fairness: nothing takes the process
\* back from its way out, and on it there is nothing to wait for but, under stdio, the
\* HTTP thread and the reader.  No number of signals is enough to pass those by, as all
\* of them may come while the first still unwinds.
THEOREM SignalsAreObeyed == Spec => []SignalsObeyed
<1>1. Init => OnlyStdio
  BY DEF Init, OnlyStdio
<1>2. Spec => []OnlyStdio
  BY <1>1, OnlyStdioKept, PTL DEF Spec
<1>3. Init => OnWayOut
  BY DEF Init, OnWayOut
<1>4. Spec => []OnWayOut
  BY <1>3, OnWayOutKept, Invariance, PTL DEF Spec
<1>5. OnlyStdio /\ OnWayOut => SignalsObeyed
  BY DEF OnlyStdio, OnWayOut, EndInSight, SignalsObeyed, InMainThread
<1> QED  BY <1>2, <1>4, <1>5, PTL
-------------------------------------------------------------------------------
(* Progress *)

\* The points of the main thread, in the order of a process's life.
Place ==
    CASE main = "reading" -> 0
      [] main = "tunnelling" -> 1
      [] main = "registering" -> 2
      [] main = "pooling" -> 3
      [] main = "scoping01" -> 4
      [] main = "scoping02" -> 5
      [] main = "starting" -> 6
      [] main = "waiting" -> 7
      [] main = "serving" -> 8
      [] main = "draining" -> 9
      [] main = "unwinding" -> 10
      [] main = "joining" -> 11
      [] main = "atexit" -> 12
      [] OTHER -> 13

\* What the HTTP thread's start-up has left to do: its own steps, and the polls of
\* its monitor.
ThreadLeft ==
    (CASE http = "building" -> 4 [] http = "binding" -> 2 [] http = "serving" -> 1
       [] OTHER -> 0)
    + (IF monitor THEN 1 ELSE 0)
    + (MaxPolls - polls)

\* The main thread only goes forward, with every step of its own; so does the
\* start-up of the HTTP thread, once it is launched.
MovingOn ==
    /\ MainSteps => Place < Place'
    /\ Place <= Place'
    /\ ThreadSteps => ThreadLeft' < ThreadLeft
    /\ ThreadLeft' <= ThreadLeft \/ LaunchBackground

\* No step takes the main thread back, and each of its own takes it forward.
LEMMA MainGoesForward == IInv /\ Next => (MainSteps => Place < Place') /\ Place <= Place'
<1> SUFFICES ASSUME IInv, Next PROVE (MainSteps => Place < Place') /\ Place <= Place'
  OBVIOUS
<1>1. Place \in 0 .. 13
  BY DEF Place
<1>2. ASSUME main' = main PROVE Place <= Place'
  BY <1>1, <1>2 DEF Place
<1>3. ASSUME MainSteps PROVE Place < Place' /\ Place <= Place'
  <2>1. CASE ReadSettings \/ OpenTunnel \/ RegisterCleanUp \/ OpenPools
    BY <2>1 DEF ReadSettings, OpenTunnel, RegisterCleanUp, OpenPools, Place
  <2>2. ASSUME NEW i \in {"01", "02"}, ValidateTableScope(i)
        PROVE  Place < Place' /\ Place <= Place'
    <3>1. main' \in {AfterScope(i), "unwinding"}
      BY <2>2 DEF ValidateTableScope
    <3>2. CASE i = "01"
      <4>1. main = "scoping01" /\ main' \in {"scoping02", "starting", "unwinding"}
        BY <2>2, <3>1, <3>2 DEF ValidateTableScope, AfterScope
      <4> QED  BY <4>1 DEF Place
    <3>3. CASE i = "02"
      <4>1. main = "scoping02" /\ main' \in {"starting", "unwinding"}
        BY <2>2, <3>1, <3>3 DEF ValidateTableScope, AfterScope
      <4> QED  BY <4>1 DEF Place
    <3> QED  BY <3>2, <3>3
  <2>3. CASE RunHttp \/ MainRaises \/ LaunchBackground \/ WaitReturns \/ WaitTimesOut
    BY <2>3 DEF RunHttp, MainRaises, LaunchBackground, WaitReturns, WaitTimesOut, Place
  <2>4. CASE Unwound \/ Joined \/ Exit \/ Drained
    BY <2>4 DEF Unwound, Joined, Exit, Drained, Place
  <2> QED  BY <1>3, <2>1, <2>2, <2>3, <2>4 DEF MainSteps, StartUp
<1>4. ASSUME Environment PROVE Place <= Place'
  <2>1. CASE ImportRaises \/ RunEnds \/ SignalToUvicorn
    BY <2>1 DEF ImportRaises, RunEnds, SignalToUvicorn, Place
  <2>2. CASE Killed
    BY <1>1, <2>2 DEF Killed, Place
  <2>3. CASE Interrupted \/ SignalHandled
    <3>1. Interrupt /\ main # "exited"
      BY <2>3 DEF Interrupted, SignalHandled, Alive
    <3>2. \/ main' = "atexit" /\ main \in {"joining", "atexit"}
          \/ main' = "unwinding" /\ main \notin {"joining", "atexit", "exited"}
      BY <3>1 DEF Interrupt
    <3>3. Place' \in {10, 12} /\ (main' = "atexit" => Place' = 12)
      BY <3>2 DEF Place
    <3>4. Place <= 12 /\ (main \notin {"joining", "atexit", "exited"} => Place <= 10)
      <4>1. main \in ImportSteps \cup Ending \cup {"starting", "waiting", "serving", "draining"}
        BY DEF IInv, StatesOK
      <4>2. main \in {"unwinding", "joining", "atexit"} =>
               Place \in {10, 11, 12} /\ (main = "unwinding" => Place = 10)
        BY DEF Place
      <4>3. main \in ImportSteps => Place \in {0, 1, 2, 3, 4, 5}
        BY DEF Place, ImportSteps
      <4>4. main \in {"starting", "waiting", "serving", "draining"} => Place \in {6, 7, 8, 9}
        BY DEF Place
      <4> QED  BY <3>1, <4>1, <4>2, <4>3, <4>4 DEF Ending
    <3> QED  BY <1>1, <3>2, <3>3, <3>4
  <2>4. CASE ReaderEnds \/ ThreadRaises \/ BindFails
    BY <1>2, <2>4 DEF ReaderEnds, ThreadRaises, BindFails
  <2> QED  BY <1>4, <2>1, <2>2, <2>3, <2>4 DEF Environment
<1>5. ASSUME ThreadSteps \/ Gone PROVE Place <= Place'
  <2>1. main' = main
    BY <1>5, Zenon
       DEF ThreadSteps, CreateMonitor, Bound, MonitorSeesStart, MonitorPolls, MonitorGivesUp,
           Gone, vars
  <2> QED  BY <1>2, <2>1
<1> QED  BY <1>3, <1>4, <1>5 DEF Next

\* The HTTP thread's start-up comes nearer to its end; only its launch begins one.
LEMMA ThreadGoesForward ==
  ASSUME IInv, FlagsOK, Next
  PROVE  (ThreadSteps => ThreadLeft' < ThreadLeft)
         /\ (ThreadLeft' <= ThreadLeft \/ LaunchBackground)
<1> USE DEF threadVars
<1> DEFINE steps == CASE http = "building" -> 4 [] http = "binding" -> 2
                      [] http = "serving" -> 1 [] OTHER -> 0
           watch == IF monitor THEN 1 ELSE 0
           left == MaxPolls - polls
<1>1. steps \in 0 .. 4 /\ watch \in 0 .. 1 /\ left \in Nat /\ polls \in Nat /\ MaxPolls \in Nat
  BY RuntimeAssumption DEF IInv, StatesOK
<1>2. ThreadLeft = steps + watch + left
  BY DEF ThreadLeft
<1>3. ThreadLeft' = steps' + watch' + left'
  BY DEF ThreadLeft
<1>4. CASE CreateMonitor
  <2>1. steps = 4 /\ steps' = 2 /\ watch' = 1 /\ left' = left
    BY <1>4 DEF CreateMonitor
  <2> HIDE DEF steps, watch, left
  <2> QED  BY <1>1, <1>2, <1>3, <2>1
<1>5. CASE Bound
  <2>1. steps = 2 /\ steps' = 1 /\ watch' = watch /\ left' = left
    BY <1>5 DEF Bound
  <2> HIDE DEF steps, watch, left
  <2> QED  BY <1>1, <1>2, <1>3, <2>1
<1>6. CASE MonitorSeesStart \/ MonitorGivesUp
  <2>1. watch = 1 /\ watch' = 0 /\ steps' = steps /\ left' = left
    BY <1>6 DEF MonitorSeesStart, MonitorGivesUp
  <2> HIDE DEF steps, watch, left
  <2> QED  BY <1>1, <1>2, <1>3, <2>1
<1>7. CASE MonitorPolls
  <2>1. watch' = watch /\ steps' = steps
    BY <1>7 DEF MonitorPolls
  <2>2. left' = left - 1
    BY <1>1, <1>7 DEF MonitorPolls
  <2> HIDE DEF steps, watch, left
  <2> QED  BY <1>1, <1>2, <1>3, <2>1, <2>2
<1>8. ASSUME ThreadRaises \/ BindFails \/ Exit
      PROVE  ThreadLeft' <= ThreadLeft
  <2>1. http' \in {"none", "dead"} /\ monitor' = FALSE /\ polls' = polls
    BY <1>8, Zenon DEF ThreadRaises, BindFails, Exit
  <2>2. steps' = 0 /\ watch' = 0 /\ left' = left
    BY <2>1
  <2> HIDE DEF steps, watch, left
  <2> QED  BY <1>1, <1>2, <1>3, <2>2
<1>9. ASSUME UNCHANGED <<http, monitor, polls>>
      PROVE  ThreadLeft' <= ThreadLeft
  <2>1. ThreadLeft' = ThreadLeft
    BY <1>9 DEF ThreadLeft
  <2>2. ThreadLeft \in Nat
    <3> HIDE DEF steps, watch, left
    <3> QED  BY <1>1, <1>2
  <2> QED  BY <2>1, <2>2
<1>10. ASSUME StartUp \/ RunHttp \/ MainRaises \/ WaitReturns \/ WaitTimesOut \/ Unwound \/ Joined \/ Drained
             \/ ImportRaises \/ RunEnds \/ ReaderEnds \/ Killed \/ Interrupted \/ SignalHandled
             \/ SignalToUvicorn \/ Gone
       PROVE  ThreadLeft' <= ThreadLeft
  <2>1. UNCHANGED <<http, monitor, polls>>
    BY <1>10, Zenon
       DEF StartUp, ReadSettings, OpenTunnel, RegisterCleanUp, OpenPools, ValidateTableScope,
           RunHttp, MainRaises, WaitReturns, WaitTimesOut, Unwound, Joined, Drained, ImportRaises,
           RunEnds, ReaderEnds, Killed, Interrupted, SignalHandled, SignalToUvicorn, Gone, vars
  <2> QED  BY <1>9, <2>1
<1>11. ThreadSteps => ThreadLeft' < ThreadLeft
  BY <1>4, <1>5, <1>6, <1>7 DEF ThreadSteps
<1>12. ThreadLeft' <= ThreadLeft \/ LaunchBackground
  BY <1>4, <1>5, <1>6, <1>7, <1>8, <1>10 DEF Next, MainSteps, ThreadSteps, Environment
<1> QED  BY <1>11, <1>12

\* No start-up goes round in circles: a failure, a signal or a poll too many sets
\* nothing back.  With the fairness of the threads this is why StartupEnds holds.
THEOREM ProcessMovesOn == Spec => [][MovingOn]_vars
<1>1. IInv /\ FlagsOK /\ [Next]_vars => [MovingOn]_vars
  BY MainGoesForward, ThreadGoesForward DEF MovingOn
<1>2. TypeOK => FlagsOK
  BY DEF TypeOK, FlagsOK
<1> QED  BY <1>1, <1>2, Invariance, TypeCorrect, PTL DEF Spec
===============================================================================
