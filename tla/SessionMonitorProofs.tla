-------------------------- MODULE SessionMonitorProofs --------------------------
(***************************************************************************)
(* What the session monitor's page shows, for any number of polls on their *)
(* way at a time, any length of the chart and any number of changes.       *)
(*                                                                         *)
(* Both properties are inductive together with the types: a poll that is   *)
(* on its way asks about the instance in the address, because selecting    *)
(* another one drops the polls; and whatever renders sets every part of    *)
(* the page.                                                               *)
(***************************************************************************)
EXTENDS SessionMonitor, TLAPS

\* TypeOK in two parts: the flags, and all the rest.
FlagsOK == second \in BOOLEAN /\ trouble \in BOOLEAN /\ error \in BOOLEAN

ServerOK ==
    /\ sessions \in [Instances -> 0 .. MaxChanges]
    /\ asked \in [Polls -> Instances \cup {"none"}]
    /\ answers \in [Polls -> [Requests -> Answers]]

PageOK ==
    /\ url \in Instances
    /\ counters \subseteq 0 .. MaxChanges
    /\ chart \in Seq(0 .. MaxChanges)
    /\ table \subseteq 0 .. MaxChanges
    /\ badge \in Instances \cup {"--"}

IInv == ServerOK /\ PageOK /\ ShowsItsInstance /\ PartsAgree

-------------------------------------------------------------------------------
(* Answers *)

\* Answers are answers, and what they show is a state the server was in.
LEMMA AnswerTypes ==
  /\ Waiting \in Answers /\ Refused \in Answers
  /\ \A n \in 0 .. MaxChanges : Shows(n) \in Answers
  /\ \A a \in Answers : a.shows \in 0 .. MaxChanges
<1>1. /\ Waiting \in Answers /\ Refused \in Answers
      /\ \A n \in 0 .. MaxChanges : Shows(n) \in Answers
  BY DEF Answers
<1>2. ASSUME NEW a \in Answers
      PROVE  a.shows \in 0 .. MaxChanges
  <2>1. CASE a \in {Waiting, Refused}
    BY <2>1, MonitorAssumption DEF Waiting, Refused
  <2>2. ASSUME NEW n \in 0 .. MaxChanges, a = Shows(n)
        PROVE  a.shows \in 0 .. MaxChanges
    BY <2>2 DEF Shows
  <2> QED  BY <1>2, <2>1, <2>2 DEF Answers
<1> QED  BY <1>1, <1>2

\* A poll without answers.
LEMMA UnansweredType == Unanswered \in [Requests -> Answers]
BY AnswerTypes DEF Unanswered

\* Requests come and go without the page.
LEMMA RequestKeeps ==
  ASSUME IInv, ServerOK', UNCHANGED <<url, pageVars>>,
         \A k \in Polls : asked'[k] \in {asked[k], url, "none"}
  PROVE  IInv'
<1>1. PageOK' /\ PartsAgree'
  BY DEF IInv, PageOK, PartsAgree, pageVars
<1>2. ShowsItsInstance'
  BY DEF IInv, ShowsItsInstance, pageVars
<1> QED  BY <1>1, <1>2 DEF IInv

\* What the server, the timer and the trouble do.
LEMMA ServerKeeps ==
  ASSUME IInv,
         \/ \E i \in Instances : SessionsChange(i)
         \/ TroubleComesOrGoes
         \/ Poll
         \/ \E k \in Polls : Answered(k)
  PROVE  IInv'
<1>1. ASSUME NEW i \in Instances, SessionsChange(i)
      PROVE  IInv'
  <2>1. sessions' \in [Instances -> 0 .. MaxChanges]
    BY <1>1, MonitorAssumption DEF SessionsChange, IInv, ServerOK
  <2>2. UNCHANGED <<asked, answers, url, pageVars>>
    BY <1>1 DEF SessionsChange
  <2>3. ServerOK'
    BY <2>1, <2>2 DEF IInv, ServerOK
  <2> QED  BY <2>2, <2>3, RequestKeeps
<1>2. CASE TroubleComesOrGoes
  <2>1. UNCHANGED <<sessions, asked, answers, url, pageVars>>
    BY <1>2 DEF TroubleComesOrGoes
  <2>2. ServerOK'
    BY <2>1 DEF IInv, ServerOK
  <2> QED  BY <2>1, <2>2, RequestKeeps
<1>3. CASE Poll
  <2>1. PICK k \in Polls : asked' = [asked EXCEPT ![k] = url]
    BY <1>3 DEF Poll, Idle
  <2>2. UNCHANGED <<sessions, answers, url, pageVars>>
    BY <1>3 DEF Poll, serverVars
  <2>3. ServerOK'
    BY <2>1, <2>2 DEF IInv, ServerOK, PageOK
  <2>4. \A j \in Polls : asked'[j] \in {asked[j], url, "none"}
    BY <2>1 DEF IInv, ServerOK
  <2> QED  BY <2>2, <2>3, <2>4, RequestKeeps
<1>4. ASSUME NEW k \in Polls, NEW r \in Requests, AnswerRequest(k, r) \/ RefuseRequest(k, r)
      PROVE  IInv'
  <2>1. UNCHANGED <<sessions, asked, url, pageVars>>
    BY <1>4 DEF AnswerRequest, RefuseRequest, serverVars
  <2>2. PICK a \in Answers : answers' = [answers EXCEPT ![k][r] = a]
    <3>1. CASE AnswerRequest(k, r)
      <4>1. sessions[asked[k]] \in 0 .. MaxChanges
        BY <3>1 DEF AnswerRequest, IInv, ServerOK
      <4> QED  BY <3>1, <4>1, AnswerTypes DEF AnswerRequest
    <3>2. CASE RefuseRequest(k, r)
      BY <3>2, AnswerTypes DEF RefuseRequest
    <3> QED  BY <1>4, <3>1, <3>2
  <2>3. answers' \in [Polls -> [Requests -> Answers]]
    BY <2>2 DEF IInv, ServerOK
  <2>4. ServerOK'
    BY <2>1, <2>3 DEF IInv, ServerOK
  <2> QED  BY <2>1, <2>4, RequestKeeps
<1> QED  BY <1>1, <1>2, <1>3, <1>4 DEF Answered

-------------------------------------------------------------------------------
(* The page *)

\* A poll that is over asks nothing.
LEMMA FinishTypes ==
  ASSUME ServerOK, NEW k \in Polls, Finish(k), UNCHANGED sessions
  PROVE  /\ ServerOK'
         /\ \A j \in Polls : asked'[j] \in {asked[j], "none"}
BY UnansweredType DEF ServerOK, Finish

\* What is in the chart when a point has been added.
LEMMA ChartGrows ==
  ASSUME NEW n \in 0 .. MaxChanges, chart \in Seq(0 .. MaxChanges), Len(chart) <= Window + 1,
         chart' = Append(Scrolled, n)
  PROVE  /\ chart' \in Seq(0 .. MaxChanges)
         /\ chart' # <<>>
         /\ chart'[Len(chart')] = n
         /\ Len(chart') <= Window + 1
<1>1. Scrolled \in Seq(0 .. MaxChanges) /\ Len(Scrolled) <= Window
  <2>1. CASE Len(chart) > Window
    <3>1. chart # <<>>
      BY <2>1, MonitorAssumption
    <3>2. Tail(chart) \in Seq(0 .. MaxChanges) /\ Len(Tail(chart)) = Len(chart) - 1
      BY <3>1
    <3> QED  BY <2>1, <3>2, MonitorAssumption DEF Scrolled
  <2>2. CASE ~ Len(chart) > Window
    BY <2>2, MonitorAssumption DEF Scrolled
  <2> QED  BY <2>1, <2>2
<1> DEFINE s == Scrolled
<1> HIDE DEF s
<1>2. s \in Seq(0 .. MaxChanges) /\ Len(s) <= Window /\ chart' = Append(s, n)
  BY <1>1 DEF s
<1>3. Len(s) \in Nat
  BY <1>2
<1>4. /\ chart' \in Seq(0 .. MaxChanges) /\ Len(chart') = Len(s) + 1
      /\ chart'[Len(s) + 1] = n
  BY <1>2, <1>3
<1>5. chart' # <<>>
  BY <1>3, <1>4
<1>6. Len(chart') <= Window + 1
  BY <1>2, <1>3, <1>4, MonitorAssumption
<1> QED  BY <1>4, <1>5, <1>6

\* Good answers change all parts of the page together.
LEMMA RenderKeeps ==
  ASSUME IInv, NEW k \in Polls, Render(k)
  PROVE  IInv'
<1>1. /\ \A r \in Requests : answers[k][r].shows \in 0 .. MaxChanges
      /\ asked[k] \in Instances /\ asked[k] = url
  BY AnswerTypes DEF Render, IInv, ServerOK, PageOK, ShowsItsInstance
<1>2. PICK n \in 0 .. MaxChanges, m \in 0 .. MaxChanges :
        counters' = {n} /\ chart' = Append(Scrolled, n) /\ table' = {m}
  BY <1>1 DEF Render, Requests
<1>3. /\ badge' = url /\ url' = url /\ ~ error' /\ Finish(k) /\ UNCHANGED sessions
  BY <1>1 DEF Render, serverVars
<1>4. ServerOK' /\ \A j \in Polls : asked'[j] \in {asked[j], "none"}
  BY <1>3, FinishTypes DEF IInv
<1>5. /\ chart' \in Seq(0 .. MaxChanges) /\ chart' # <<>>
      /\ chart'[Len(chart')] = n /\ Len(chart') <= Window + 1
  BY <1>2, ChartGrows DEF IInv, PageOK, PartsAgree
<1>6. PageOK'
  BY <1>2, <1>3, <1>5 DEF IInv, PageOK
<1>7. ShowsItsInstance'
  BY <1>3, <1>4 DEF IInv, ShowsItsInstance
<1>8. badge' # "--" /\ table' # {}
  BY <1>1, <1>2, <1>3 DEF Instances
<1>9. PartsAgree'
  BY <1>2, <1>3, <1>5, <1>8 DEF PartsAgree
<1> QED  BY <1>4, <1>6, <1>7, <1>9 DEF IInv

\* Bad answers empty the table and the badge together.
LEMMA RenderErrorKeeps ==
  ASSUME IInv, NEW k \in Polls, RenderError(k)
  PROVE  IInv'
<1>1. /\ table' = {} /\ badge' = "--"
      /\ UNCHANGED <<sessions, url, counters, chart>> /\ Finish(k)
  BY DEF RenderError, serverVars
<1>2. ServerOK' /\ \A j \in Polls : asked'[j] \in {asked[j], "none"}
  BY <1>1, FinishTypes DEF IInv
<1>3. PageOK' /\ PartsAgree'
  BY <1>1 DEF IInv, PageOK, PartsAgree
<1>4. ShowsItsInstance'
  BY <1>1, <1>2 DEF IInv, ShowsItsInstance
<1> QED  BY <1>2, <1>3, <1>4 DEF IInv

\* A page as it is loaded.
LEMMA NewPage ==
  ASSUME PageOK', sessions' \in [Instances -> 0 .. MaxChanges],
         NEW k \in Polls, asked' = [j \in Polls |-> IF j = k THEN url' ELSE "none"],
         answers' = [j \in Polls |-> Unanswered],
         counters' = {}, chart' = <<>>, table' = {}, badge' = "--"
  PROVE  IInv'
<1>1. ServerOK'
  BY UnansweredType DEF ServerOK, PageOK
<1>2. ShowsItsInstance'
  BY DEF ShowsItsInstance
<1>3. PartsAgree'
  BY MonitorAssumption DEF PartsAgree
<1> QED  BY <1>1, <1>2, <1>3 DEF IInv

\* Another instance is another page, without the old polls.
LEMMA SelectKeeps ==
  ASSUME IInv, NEW i \in Instances, SelectInstance(i)
  PROVE  IInv'
<1>1. PICK k \in Polls : asked' = [j \in Polls |-> IF j = k THEN i ELSE "none"]
  BY DEF SelectInstance
<1>2. /\ url' = i /\ answers' = [j \in Polls |-> Unanswered] /\ UNCHANGED sessions
      /\ counters' = {} /\ chart' = <<>> /\ table' = {} /\ badge' = "--"
  BY DEF SelectInstance, serverVars
<1>3. PageOK' /\ sessions' \in [Instances -> 0 .. MaxChanges]
  BY <1>2 DEF IInv, ServerOK, PageOK
<1> QED  BY <1>1, <1>2, <1>3, NewPage

\* The page as it is first loaded.
LEMMA InitialPage == Init => IInv
<1> SUFFICES ASSUME Init PROVE IInv
  OBVIOUS
<1>1. /\ sessions = [i \in Instances |-> 0] /\ url \in Instances
      /\ answers = [k \in Polls |-> Unanswered]
      /\ counters = {} /\ chart = <<>> /\ table = {} /\ badge = "--"
  BY DEF Init
<1>2. PICK k \in Polls : asked = [j \in Polls |-> IF j = k THEN url ELSE "none"]
  BY DEF Init
<1>3. ServerOK
  BY <1>1, <1>2, UnansweredType, MonitorAssumption DEF ServerOK
<1>4. PageOK /\ ShowsItsInstance /\ PartsAgree
  BY <1>1, <1>2, MonitorAssumption DEF PageOK, ShowsItsInstance, PartsAgree
<1> QED  BY <1>3, <1>4 DEF IInv

-------------------------------------------------------------------------------
\* Every step of the page and of the server keeps the invariant.
LEMMA Step == IInv /\ [Next]_vars => IInv'
<1> SUFFICES ASSUME IInv, [Next]_vars PROVE IInv'
  OBVIOUS
<1>1. CASE Next
  BY <1>1, ServerKeeps, RenderKeeps, RenderErrorKeeps, SelectKeeps DEF Next, Shown
<1>2. CASE UNCHANGED vars
  BY <1>2, RequestKeeps DEF vars, serverVars, IInv, ServerOK
<1> QED  BY <1>1, <1>2

\* Flags stay flags.
LEMMA FlagsStep == FlagsOK /\ [Next]_vars => FlagsOK'
<1> SUFFICES ASSUME FlagsOK, [Next]_vars PROVE FlagsOK'
  OBVIOUS
<1>1. CASE Next
  BY <1>1, Zenon
     DEF FlagsOK, Next, SessionsChange, SelectInstance, TroubleComesOrGoes, Poll, Answered,
         AnswerRequest, RefuseRequest, Shown, Render, RenderError, serverVars, pageVars
<1>2. CASE UNCHANGED vars
  BY <1>2 DEF FlagsOK, vars, serverVars, pageVars
<1> QED  BY <1>1, <1>2

\* The induction: what holds of the page in every order of polls and answers.
THEOREM Invariance == Spec => []IInv
<1> QED  BY InitialPage, Step, PTL DEF Spec

\* Type correctness.
THEOREM TypeCorrect == Spec => []TypeOK
<1>1. Init => FlagsOK
  BY DEF Init, FlagsOK
<1>2. Spec => []FlagsOK
  BY <1>1, FlagsStep, PTL DEF Spec
<1>3. IInv /\ FlagsOK => TypeOK
  BY DEF IInv, ServerOK, PageOK, FlagsOK, TypeOK
<1> QED  BY <1>2, <1>3, Invariance, PTL

\* An answer is never shown under another instance's address.
THEOREM InstanceShown == Spec => []ShowsItsInstance
<1>1. IInv => ShowsItsInstance
  BY DEF IInv
<1> QED  BY <1>1, Invariance, PTL

\* Badge, table, error message, counters and chart always belong together.
THEOREM PageAgrees == Spec => []PartsAgree
<1>1. IInv => PartsAgree
  BY DEF IInv
<1> QED  BY <1>1, Invariance, PTL
-------------------------------------------------------------------------------
(* Progress *)

\* What a request about the selected instance brings now.
Fresh == Shows(sessions[url])

\* Polls with an answer that would not be given any more: an error, or what the
\* sessions were.
Stale == {k \in Polls : \E r \in Requests : answers[k][r] \notin {Waiting, Fresh}}

\* Nothing happens to the server or the address, and the instance can answer.
Calm ==
    /\ ~ trouble
    /\ url = "01" \/ second
    /\ UNCHANGED <<second, trouble, url>>
    /\ sessions'[url] = sessions[url]

\* While that is so, no poll becomes stale; one that is shown is not stale any more,
\* and if it was not before, the page is current; and a current page stays so but for
\* the stale polls that are still on their way.
CatchingUp ==
    Calm =>
       /\ Stale' \subseteq Stale
       /\ \A k \in Polls :
             Shown(k) => k \notin Stale' /\ (k \notin Stale => Current')
       /\ Current => Current' \/ \E k \in Stale : Shown(k)

\* A stale answer has a kind of its own, or other sessions.
LEMMA AnswersDiffer ==
  /\ Waiting.kind = "waiting" /\ Refused.kind = "refused"
  /\ \A n : Shows(n).kind = "ok" /\ Shows(n).shows = n
BY DEF Waiting, Refused, Shows

\* A step of the server.
LEMMA AnswersFresh ==
  ASSUME IInv, Calm, NEW k \in Polls, NEW r \in Requests,
         AnswerRequest(k, r) \/ RefuseRequest(k, r)
  PROVE  Stale' \subseteq Stale /\ UNCHANGED <<pageVars, url>> /\ sessions' = sessions
<1>1. asked[k] = url
  BY DEF IInv, ShowsItsInstance, AnswerRequest, RefuseRequest
<1>2. answers' = [answers EXCEPT ![k][r] = Fresh]
  BY <1>1 DEF AnswerRequest, RefuseRequest, Calm, Fresh
<1>3. UNCHANGED <<pageVars, url>> /\ sessions' = sessions
  BY DEF AnswerRequest, RefuseRequest, serverVars
<1>4. Fresh' = Fresh
  BY <1>3 DEF Fresh, Shows
<1>5. ASSUME NEW j \in Polls, NEW q \in Requests, answers'[j][q] \notin {Waiting, Fresh}
      PROVE  answers[j][q] \notin {Waiting, Fresh}
  BY <1>2, <1>5 DEF IInv, ServerOK
<1>6. Waiting' = Waiting
  BY DEF Waiting
<1> QED  BY <1>3, <1>4, <1>5, <1>6 DEF Stale

\* A poll that is over has no answers.
LEMMA FinishedFresh ==
  ASSUME IInv, NEW k \in Polls, Finish(k), Fresh' = Fresh
  PROVE  Stale' \subseteq Stale /\ k \notin Stale'
<1>1. answers' = [answers EXCEPT ![k] = Unanswered]
  BY DEF Finish
<1>2. \A r \in Requests : answers'[k][r] = Waiting
  BY <1>1 DEF IInv, ServerOK, Unanswered
<1>3. \A j \in Polls : j # k => answers'[j] = answers[j]
  BY <1>1 DEF IInv, ServerOK
<1>4. Waiting' = Waiting
  BY DEF Waiting
<1>5. k \notin Stale'
  BY <1>2, <1>4 DEF Stale
<1>6. ASSUME NEW j \in Stale'
      PROVE  j \in Stale
  <2>1. j # k /\ j \in Polls
    BY <1>5 DEF Stale
  <2> QED  BY <1>3, <1>4, <2>1 DEF Stale
<1> QED  BY <1>5, <1>6

\* A poll that is shown is stale no more, and shows what is if it was not before.
LEMMA ShownCatchesUp ==
  ASSUME IInv, Calm, NEW k \in Polls, Shown(k)
  PROVE  /\ Stale' \subseteq Stale /\ k \notin Stale'
         /\ k \notin Stale => Current'
<1>1. Finish(k) /\ sessions' = sessions /\ url' = url
  BY DEF Shown, Render, RenderError, serverVars
<1>2. Fresh' = Fresh
  BY <1>1 DEF Fresh, Shows
<1>3. Stale' \subseteq Stale /\ k \notin Stale'
  BY <1>1, <1>2, FinishedFresh
<1>4. ASSUME k \notin Stale
      PROVE  Current'
  <2>1. \A r \in Requests : answers[k][r] \in {Waiting, Fresh}
    BY <1>4 DEF Stale
  <2>2. Refused \notin {Waiting, Fresh}
    BY AnswersDiffer DEF Fresh
  <2>3. Render(k)
    BY <2>1, <2>2 DEF Shown, RenderError
  <2>4. \A r \in Requests : answers[k][r].shows = sessions[url]
    BY <2>1, <2>3, AnswersDiffer DEF Render, Fresh
  <2>5. asked[k] = url
    BY <2>3 DEF Render, IInv, ShowsItsInstance
  <2> QED  BY <1>1, <2>3, <2>4, <2>5 DEF Render, Current, Requests
<1> QED  BY <1>3, <1>4

\* A step that leaves the answers and the page as they are.
LEMMA UnseenCatchesUp ==
  ASSUME Calm, UNCHANGED <<answers, pageVars>>
  PROVE  Stale' = Stale /\ (Current => Current')
<1>1. Fresh' = Fresh
  BY DEF Calm, Fresh, Shows
<1>2. Waiting' = Waiting
  BY DEF Waiting
<1> QED  BY <1>1, <1>2 DEF Stale, Current, Calm, pageVars

\* The safety part of CatchesUp: when the trouble is over, the page is put back by no
\* more polls than are on their way then, and from then on each poll that is shown
\* shows the sessions as they are.
THEOREM MonitorCatchesUp == Spec => [][CatchingUp]_vars
<1>1. ASSUME IInv, Next, Calm
      PROVE  CatchingUp
  <2>1. ASSUME NEW k \in Polls, Shown(k)
        PROVE  /\ Stale' \subseteq Stale /\ k \notin Stale'
               /\ k \notin Stale => Current'
    BY <1>1, <2>1, ShownCatchesUp
  <2>2. CASE \E k \in Polls : Answered(k)
    <3>1. PICK k \in Polls, r \in Requests : AnswerRequest(k, r) \/ RefuseRequest(k, r)
      BY <2>2 DEF Answered
    <3>2. Stale' \subseteq Stale /\ UNCHANGED <<pageVars, url>> /\ sessions' = sessions
      BY <1>1, <3>1, AnswersFresh
    <3>3. Current => Current'
      BY <3>2 DEF Current, pageVars
    <3> QED  BY <2>1, <3>2, <3>3 DEF CatchingUp
  <2>3. CASE \E k \in Polls : Shown(k)
    <3>1. PICK k \in Polls : Shown(k)
      BY <2>3
    <3>2. Current => Current' \/ \E j \in Stale : Shown(j)
      BY <2>1, <3>1
    <3>3. Stale' \subseteq Stale
      BY <2>1, <3>1
    <3> QED  BY <2>1, <3>2, <3>3 DEF CatchingUp
  <2>4. CASE Poll \/ TroubleComesOrGoes \/ \E i \in Instances : SessionsChange(i)
    <3>1. UNCHANGED <<answers, pageVars>>
      BY <2>4 DEF Poll, TroubleComesOrGoes, SessionsChange
    <3> QED  BY <1>1, <2>1, <3>1, UnseenCatchesUp DEF CatchingUp
  <2>5. ASSUME NEW i \in Instances
        PROVE  ~ SelectInstance(i)
    BY <1>1 DEF SelectInstance, Calm
  <2> QED  BY <1>1, <2>2, <2>3, <2>4, <2>5 DEF Next
<1>2. IInv /\ [Next]_vars => [CatchingUp]_vars
  BY <1>1 DEF CatchingUp
<1> QED  BY <1>2, Invariance, PTL DEF Spec
===============================================================================
