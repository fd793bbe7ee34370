---------------------------- MODULE SessionMonitor ----------------------------
(***************************************************************************)
(* The session monitor of src/server.py: the page at /sessions-monitor,    *)
(* its polls, and the two endpoints that answer them.                      *)
(*                                                                         *)
(* The page asks /api/sessions (counters) and /api/sessions/list (table)   *)
(* when it is loaded and every five seconds, without waiting for the       *)
(* answers of the poll before.  Polls overlap, each request reads the      *)
(* database at its own time or fails, and the answers come in any order.   *)
(* Selecting another instance loads the page anew.                         *)
(*                                                                         *)
(* What an instance's sessions are is a number that grows with every       *)
(* change, so that old and new answers can be told apart.                  *)
(***************************************************************************)
EXTENDS Naturals, Sequences

CONSTANTS
    Polls,        \* polls that may be on their way at a time
    MaxChanges,   \* bound on the changes of an instance's sessions
    Window        \* points of the chart after which the first is dropped (20)

ASSUME MonitorAssumption == MaxChanges \in Nat /\ Window \in Nat

Instances == {"01", "02"}
Requests == {"summary", "list"}

VARIABLES
    second,     \* the server has an instance 02
    sessions,   \* what pg_stat_activity shows, of each instance
    trouble,    \* the server is down, or its database, or it refuses requests
    url,        \* the instance in the page's address
    asked,      \* of each poll: the instance it asks about, "none" when it is over
    answers,    \* of each poll and request: its answer
    counters,   \* the four counters: what they show, or nothing
    chart,      \* the points of the chart
    table,      \* the rows of the table, or nothing
    badge,      \* the instance in the badge, "--" without one
    error       \* the error message is shown

serverVars == <<second, sessions, trouble>>
pageVars == <<counters, chart, table, badge, error>>
vars == <<serverVars, url, asked, answers, pageVars>>

\* An answer is waited for, has come with the sessions, or is an error.
Waiting == [kind |-> "waiting", shows |-> 0]
Refused == [kind |-> "refused", shows |-> 0]
Shows(n) == [kind |-> "ok", shows |-> n]
Answers == {Waiting, Refused} \cup {Shows(n) : n \in 0 .. MaxChanges}

Unanswered == [r \in Requests |-> Waiting]
Idle == {k \in Polls : asked[k] = "none"}

-------------------------------------------------------------------------------
\* fetchData() at the end of the script: the first poll.
Init ==
    /\ second \in BOOLEAN
    /\ sessions = [i \in Instances |-> 0]
    /\ trouble \in BOOLEAN
    /\ url \in Instances
    /\ \E k \in Polls : asked = [j \in Polls |-> IF j = k THEN url ELSE "none"]
    /\ answers = [k \in Polls |-> Unanswered]
    /\ counters = {}
    /\ chart = <<>>
    /\ table = {}
    /\ badge = "--"
    /\ error = FALSE

SessionsChange(i) ==
    /\ sessions[i] < MaxChanges
    /\ sessions' = [sessions EXCEPT ![i] = @ + 1]
    /\ UNCHANGED <<second, trouble, url, asked, answers, pageVars>>

TroubleComesOrGoes ==
    /\ trouble' = ~ trouble
    /\ UNCHANGED <<second, sessions, url, asked, answers, pageVars>>

-------------------------------------------------------------------------------
(* The server *)

\* api_sessions and api_sessions_list, in the context of the request's instance.
AnswerRequest(k, r) ==
    /\ asked[k] # "none"
    /\ answers[k][r] = Waiting
    /\ ~ trouble
    /\ asked[k] = "01" \/ second
    /\ answers' = [answers EXCEPT ![k][r] = Shows(sessions[asked[k]])]
    /\ UNCHANGED <<serverVars, url, asked, pageVars>>

\* No connection, a refusal by the limiter or the pool, a failed statement, an
\* instance that is not configured.
RefuseRequest(k, r) ==
    /\ asked[k] # "none"
    /\ answers[k][r] = Waiting
    /\ trouble \/ (asked[k] = "02" /\ ~ second)
    /\ answers' = [answers EXCEPT ![k][r] = Refused]
    /\ UNCHANGED <<serverVars, url, asked, pageVars>>

-------------------------------------------------------------------------------
(* The page *)

\* Mutation of Poll: setTimeout for setInterval, set when the page is loaded.
PollOnce ==
    /\ counters = {} /\ ~ error
    /\ \E k \in Idle : asked' = [asked EXCEPT ![k] = url]
    /\ UNCHANGED <<serverVars, url, answers, pageVars>>

\* setInterval(fetchData, 5000)
Poll ==
    /\ \E k \in Idle : asked' = [asked EXCEPT ![k] = url]
    /\ UNCHANGED <<serverVars, url, answers, pageVars>>

Finish(k) ==
    /\ asked' = [asked EXCEPT ![k] = "none"]
    /\ answers' = [answers EXCEPT ![k] = Unanswered]

\* if (chart.data.labels.length > 20) ... shift()
Scrolled == IF Len(chart) > Window THEN Tail(chart) ELSE chart

\* Both answers are there and good.
Render(k) ==
    /\ asked[k] # "none"
    /\ \A r \in Requests : answers[k][r].kind = "ok"
    /\ counters' = {answers[k]["summary"].shows}
    /\ chart' = Append(Scrolled, answers[k]["summary"].shows)
    /\ table' = {answers[k]["list"].shows}
    /\ badge' = asked[k]
    /\ error' = FALSE
    /\ Finish(k)
    /\ UNCHANGED <<serverVars, url>>

\* Mutation of RenderError: the table keeps its rows.
RenderErrorAlone(k) ==
    /\ asked[k] # "none"
    /\ \E r \in Requests : answers[k][r] = Refused
    /\ badge' = "--"
    /\ error' = TRUE
    /\ Finish(k)
    /\ UNCHANGED <<serverVars, url, counters, chart, table>>

\* Mutation of RenderError: the badge shows the instance_id the answer has not.
RenderErrorBadge(k) ==
    /\ asked[k] # "none"
    /\ \E r \in Requests : answers[k][r] = Refused
    /\ table' = {}
    /\ badge' = "undefined"
    /\ error' = TRUE
    /\ Finish(k)
    /\ UNCHANGED <<serverVars, url, counters, chart>>

\* One answer is an error.  (A request that breaks off rejects Promise.all at
\* once, an answer with an error status is looked at when both are there.)
RenderError(k) ==
    /\ asked[k] # "none"
    /\ \E r \in Requests : answers[k][r] = Refused
    /\ table' = {}
    /\ badge' = "--"
    /\ error' = TRUE
    /\ Finish(k)
    /\ UNCHANGED <<serverVars, url, counters, chart>>

\* Mutation of SelectInstance: the address changes, the page stays.
SelectInPlace(i) ==
    /\ i # url
    /\ url' = i
    /\ table' = {}
    /\ badge' = "--"
    /\ UNCHANGED <<serverVars, asked, answers, counters, chart, error>>

\* setInstanceParam: a new page, with its first poll; the old one's are dropped.
SelectInstance(i) ==
    /\ i # url
    /\ url' = i
    /\ \E k \in Polls : asked' = [j \in Polls |-> IF j = k THEN i ELSE "none"]
    /\ answers' = [k \in Polls |-> Unanswered]
    /\ counters' = {}
    /\ chart' = <<>>
    /\ table' = {}
    /\ badge' = "--"
    /\ error' = FALSE
    /\ UNCHANGED serverVars

-------------------------------------------------------------------------------
Answered(k) == \E r \in Requests : AnswerRequest(k, r) \/ RefuseRequest(k, r)
Shown(k) == Render(k) \/ RenderError(k)

Next ==
    \/ \E i \in Instances : SessionsChange(i) \/ SelectInstance(i)
    \/ TroubleComesOrGoes
    \/ Poll
    \/ \E k \in Polls : Answered(k) \/ Shown(k)

Spec == Init /\ [][Next]_vars

\* The timer fires; a request is answered or refused; the browser runs what
\* waits for the answers.
FairSpec ==
    /\ Spec
    /\ WF_vars(Poll)
    /\ \A k \in Polls : WF_vars(Answered(k)) /\ WF_vars(Shown(k))

-------------------------------------------------------------------------------
(* Properties *)

TypeOK ==
    /\ second \in BOOLEAN
    /\ sessions \in [Instances -> 0 .. MaxChanges]
    /\ trouble \in BOOLEAN
    /\ url \in Instances
    /\ asked \in [Polls -> Instances \cup {"none"}]
    /\ answers \in [Polls -> [Requests -> Answers]]
    /\ counters \subseteq 0 .. MaxChanges
    /\ chart \in Seq(0 .. MaxChanges)
    /\ table \subseteq 0 .. MaxChanges
    /\ badge \in Instances \cup {"--"}
    /\ error \in BOOLEAN

\* README: "All session stats are routed to the correct instance": the page never
\* shows another instance than its address names, although answers may come after
\* the other instance was selected.
ShowsItsInstance ==
    /\ badge # "--" => badge = url
    /\ \A k \in Polls : asked[k] \in {url, "none"}

\* The parts of the page agree, after any order of good and bad answers: rows
\* only below the badge of their instance, no error message above them, and the
\* counters are the last point of the chart, which keeps its window.
PartsAgree ==
    /\ badge = "--" <=> table = {}
    /\ badge # "--" => ~ error
    /\ counters = IF chart = <<>> THEN {} ELSE {chart[Len(chart)]}
    /\ Len(chart) <= Window + 1

\* README: "Updates every 5 seconds without page reload": a late answer may put
\* the page back, and trouble empties it, but once the trouble is over and one
\* instance stays selected, the page comes to show that instance's sessions as
\* they are, and goes on showing them.
Current ==
    /\ ~ error
    /\ badge = url
    /\ counters = {sessions[url]}
    /\ table = {sessions[url]}

CatchesUp ==
    \A i \in Instances :
        (i = "01" \/ second) /\ <>[](~ trouble /\ url = i) => <>[]Current
===============================================================================
