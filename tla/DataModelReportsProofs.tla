------------------------- MODULE DataModelReportsProofs -------------------------
(***************************************************************************)
(* Which reports a process has and when the API has them, for any number   *)
(* of processes on a host and any number of reports.                       *)
(*                                                                         *)
(* The invariant is the conjunction of the properties of states, and       *)
(* inductive: who has the port keeps it until its end, and a process that  *)
(* starts has made nothing.  The theorems are about what the API answers:  *)
(* the page of a link shows no report at all, as the run of LinkWorks      *)
(* shows.  FetchWorks is not true of two processes: who does not have the  *)
(* port makes reports that nobody can fetch.  That this takes a second     *)
(* process is proved last.                                                 *)
(***************************************************************************)
EXTENDS DataModelReports, TLAPS

IInv == TypeOK /\ ReportsKept /\ AnsweredStaysAnswered

-------------------------------------------------------------------------------
\* No process, no report: the invariant holds of a host before its first client.
LEMMA InitialState == Init => IInv
<1> SUFFICES ASSUME Init PROVE IInv
  OBVIOUS
<1>1. TypeOK
  BY DEF Init, TypeOK, PageOK, AnswerOK
<1>2. ReportsKept
  BY DEF Init, ReportsKept
<1>3. AnsweredStaysAnswered
  BY DEF Init, AnsweredStaysAnswered
<1> QED  BY <1>1, <1>2, <1>3 DEF IInv

\* The three answers of the API are told apart by their first word.
LEMMA OnlyReport ==
  \A r : \A x \in {<<"report", r>>, <<"not found", r>>, <<"no answer", r>>} :
      x[2] = r /\ (x[1] = "report" => x = <<"report", r>>)
<1> SUFFICES ASSUME NEW r,
                    NEW x \in {<<"report", r>>, <<"not found", r>>, <<"no answer", r>>}
             PROVE  x[2] = r /\ (x[1] = "report" => x = <<"report", r>>)
  OBVIOUS
<1>1. CASE x = <<"report", r>>
  BY <1>1
<1>2. CASE x = <<"not found", r>>
  BY <1>2
<1>3. CASE x = <<"no answer", r>>
  BY <1>3
<1> QED  BY <1>1, <1>2, <1>3

\* A report the API gave is one that was made, and whose link was given.
LEMMA AnsweredWasMade ==
  ASSUME TypeOK, answer[1] = "report"
  PROVE  /\ answer[2] \in links /\ answer = <<"report", answer[2]>>
         /\ \E p \in Processes : answer[2] \in made[p]
<1>1. answer # <<"nothing">>
  <2>1. <<"nothing">>[1] = "nothing"
    OBVIOUS
  <2> QED  BY <2>1
<1>2. PICK r \in links : answer \in {<<"report", r>>, <<"not found", r>>, <<"no answer", r>>}
  BY <1>1 DEF TypeOK, AnswerOK
<1>3. answer[2] = r /\ answer = <<"report", r>>
  BY <1>2, OnlyReport
<1> QED  BY <1>3 DEF TypeOK

\* A new process takes the port if nobody has it, and changes nothing else.
LEMMA StartKeeps ==
  ASSUME IInv, NEW p \in Processes, StartProcess(p)
  PROVE  IInv'
<1>1. /\ p \notin alive /\ made[p] = {}
      /\ alive' = alive \cup {p}
      /\ listener' = IF listener = {} THEN {p} ELSE listener
      /\ UNCHANGED <<cache, made, links, page, answer>>
  BY DEF StartProcess
<1>2. TypeOK'
  BY <1>1 DEF IInv, TypeOK, PageOK, AnswerOK
<1>3. ReportsKept'
  BY <1>1 DEF IInv, ReportsKept
<1>4. AnsweredStaysAnswered'
  <2> SUFFICES ASSUME answer[1] = "report", NEW q \in alive', answer[2] \in made[q]
               PROVE  listener' = {q}
    BY <1>1 DEF AnsweredStaysAnswered
  <2>1. q \in alive
    BY <1>1
  <2> QED  BY <1>1, <2>1 DEF IInv, AnsweredStaysAnswered
<1> QED  BY <1>2, <1>3, <1>4 DEF IInv

\* With a process go its cache and, if it was the listener, the port.
LEMMA EndKeeps ==
  ASSUME IInv, NEW p \in Processes, EndProcess(p)
  PROVE  IInv'
<1>1. /\ alive' = alive \ {p}
      /\ listener' = listener \ {p}
      /\ cache' = [cache EXCEPT ![p] = {}]
      /\ UNCHANGED <<made, links, page, answer>>
  BY DEF EndProcess
<1>2. TypeOK'
  BY <1>1 DEF IInv, TypeOK, PageOK, AnswerOK
<1>3. ReportsKept'
  BY <1>1 DEF IInv, ReportsKept, TypeOK
<1>4. AnsweredStaysAnswered'
  <2> SUFFICES ASSUME answer[1] = "report", NEW q \in alive', answer[2] \in made[q]
               PROVE  listener' = {q}
    BY <1>1 DEF AnsweredStaysAnswered
  <2>1. listener = {q} /\ q # p
    BY <1>1 DEF IInv, AnsweredStaysAnswered
  <2> QED  BY <1>1, <2>1
<1> QED  BY <1>2, <1>3, <1>4 DEF IInv

\* A new report is of one process, and not the one the API gave last.
LEMMA AnalyzeKeeps ==
  ASSUME IInv, NEW p \in Processes, Analyze(p)
  PROVE  IInv'
<1>1. PICK r \in Reports :
        /\ \A q \in Processes : r \notin made[q]
        /\ made' = [made EXCEPT ![p] = @ \cup {r}]
        /\ cache' = [cache EXCEPT ![p] = @ \cup {r}]
        /\ links' \in {links, links \cup {r}}
  BY DEF Analyze
<1>2. p \in alive /\ UNCHANGED <<alive, listener, page, answer>>
  BY DEF Analyze
<1>3. \A q \in Processes : /\ made'[q] = IF q = p THEN made[p] \cup {r} ELSE made[q]
                           /\ cache'[q] = IF q = p THEN cache[p] \cup {r} ELSE cache[q]
  BY <1>1 DEF IInv, TypeOK
<1>4. TypeOK'
  <2>1. /\ alive' \subseteq Processes /\ (listener' = {} \/ \E q \in alive' : listener' = {q})
        /\ cache' \in [Processes -> SUBSET Reports] /\ made' \in [Processes -> SUBSET Reports]
        /\ links' \subseteq Reports
    BY <1>1, <1>2 DEF IInv, TypeOK
  <2>2. ASSUME NEW s \in links'
        PROVE  \E q \in Processes : s \in made'[q]
    BY <1>1, <1>3 DEF IInv, TypeOK
  <2>3. PageOK' /\ AnswerOK'
    BY <1>1, <1>2 DEF IInv, TypeOK, PageOK, AnswerOK
  <2> QED  BY <2>1, <2>2, <2>3 DEF TypeOK
<1>5. ReportsKept'
  <2>1. ASSUME NEW q \in Processes
        PROVE  cache'[q] = IF q \in alive' THEN made'[q] ELSE {}
    BY <1>2, <1>3 DEF IInv, ReportsKept
  <2>2. ASSUME NEW q \in Processes, NEW s \in Processes, q # s
        PROVE  made'[q] \cap made'[s] = {}
    <3>1. made[q] \cap made[s] = {} /\ r \notin made[q] /\ r \notin made[s]
      BY <1>1, <2>2 DEF IInv, ReportsKept
    <3> QED  BY <1>3, <2>2, <3>1
  <2> QED  BY <2>1, <2>2 DEF ReportsKept
<1>6. AnsweredStaysAnswered'
  <2> SUFFICES ASSUME answer[1] = "report", NEW q \in alive, answer[2] \in made'[q]
               PROVE  listener = {q}
    BY <1>2 DEF AnsweredStaysAnswered
  <2>1. answer[2] # r
    BY <1>1, AnsweredWasMade DEF IInv
  <2>2. q \in Processes
    BY DEF IInv, TypeOK
  <2>3. answer[2] \in made[q]
    BY <1>3, <2>1, <2>2
  <2> QED  BY <2>3 DEF IInv, AnsweredStaysAnswered
<1> QED  BY <1>4, <1>5, <1>6 DEF IInv

\* What the API answers: the report, if the listener made it.
LEMMA FetchAnswers ==
  ASSUME IInv, NEW r \in Reports, Fetch(r)
  PROVE  /\ answer' \in {<<"report", r>>, <<"not found", r>>, <<"no answer", r>>}
         /\ answer'[1] = "report" <=> \E p \in alive : listener = {p} /\ r \in made[p]
         /\ answer'[2] = r
<1>1. CASE listener = {}
  <2>1. answer' = <<"no answer", r>>
    BY <1>1 DEF Fetch
  <2> QED  BY <1>1, <2>1
<1>2. ASSUME NEW p \in alive, listener = {p}
      PROVE  /\ answer' \in {<<"report", r>>, <<"not found", r>>, <<"no answer", r>>}
             /\ answer'[1] = "report" <=> r \in made[p]
             /\ answer'[2] = r
  <2>1. answer' = Lookup(p, r)
    BY <1>2 DEF Fetch
  <2>2. cache[p] = made[p]
    BY DEF IInv, TypeOK, ReportsKept
  <2>3. CASE r \in made[p]
    <3>1. answer' = <<"report", r>>
      BY <2>1, <2>2, <2>3 DEF Lookup
    <3> QED  BY <2>3, <3>1
  <2>4. CASE r \notin made[p]
    <3>1. answer' = <<"not found", r>>
      BY <2>1, <2>2, <2>4 DEF Lookup
    <3> QED  BY <2>4, <3>1
  <2> QED  BY <2>3, <2>4
<1>3. listener = {} \/ \E p \in alive : listener = {p}
  BY DEF IInv, TypeOK
<1>4. ASSUME NEW p \in alive, listener = {p}
      PROVE  r \in made[p] <=> \E q \in alive : listener = {q} /\ r \in made[q]
  BY <1>4
<1> QED  BY <1>1, <1>2, <1>3, <1>4

\* A page that is opened changes nothing but what the browser shows.
LEMMA OpenKeeps ==
  ASSUME IInv, NEW r \in Reports, OpenLink(r)
  PROVE  IInv'
<1>1. /\ r \in links /\ page' \in {<<"empty page", r>>, <<"no answer", r>>}
      /\ UNCHANGED <<alive, listener, cache, made, links, answer>>
  BY DEF OpenLink
<1>2. PageOK' /\ AnswerOK'
  BY <1>1 DEF IInv, TypeOK, PageOK, AnswerOK
<1> QED  BY <1>1, <1>2 DEF IInv, TypeOK, ReportsKept, AnsweredStaysAnswered

\* A report is the answer only if its process has the port.
LEMMA FetchKeeps ==
  ASSUME IInv, NEW r \in Reports, Fetch(r)
  PROVE  IInv'
<1>1. r \in links /\ UNCHANGED <<alive, listener, cache, made, links, page>>
  BY DEF Fetch
<1>2. TypeOK'
  <2>1. PageOK' /\ AnswerOK'
    BY <1>1, FetchAnswers DEF IInv, TypeOK, PageOK, AnswerOK
  <2> QED  BY <1>1, <2>1 DEF IInv, TypeOK
<1>3. ReportsKept'
  BY <1>1 DEF IInv, ReportsKept
<1>4. AnsweredStaysAnswered'
  <2> SUFFICES ASSUME answer'[1] = "report", NEW q \in alive, r \in made[q]
               PROVE  listener = {q}
    BY <1>1, FetchAnswers DEF AnsweredStaysAnswered
  <2>1. PICK p \in alive : listener = {p} /\ r \in made[p]
    BY FetchAnswers
  <2>2. p = q
    BY <2>1 DEF IInv, TypeOK, ReportsKept
  <2> QED  BY <2>1, <2>2
<1> QED  BY <1>2, <1>3, <1>4 DEF IInv

\* Every step of every process, and every request for a report, keeps the invariant.
LEMMA Step == IInv /\ [Next]_vars => IInv'
<1> SUFFICES ASSUME IInv, [Next]_vars PROVE IInv'
  OBVIOUS
<1>1. CASE UNCHANGED vars
  BY <1>1 DEF vars, IInv, TypeOK, PageOK, AnswerOK, ReportsKept, AnsweredStaysAnswered
<1> QED  BY <1>1, StartKeeps, EndKeeps, AnalyzeKeeps, OpenKeeps, FetchKeeps DEF Next

\* The induction, over everything the processes of a host do.
THEOREM Invariance == Spec => []IInv
<1> QED  BY InitialState, Step, PTL DEF Spec

\* Type correctness: the port is with a process that runs, or free, and a link is
\* of a report that was made.
THEOREM TypeCorrect == Spec => []TypeOK
<1>1. IInv => TypeOK
  BY DEF IInv
<1> QED  BY <1>1, Invariance, PTL

\* DATA_MODEL_CACHE loses nothing before its process ends, and gets nothing of others.
THEOREM ReportsStay == Spec => []ReportsKept
<1>1. IInv => ReportsKept
  BY DEF IInv
<1> QED  BY <1>1, Invariance, PTL

\* A report that was had from the API can be had as long as its process runs.
THEOREM AnswersLast == Spec => []AnsweredStaysAnswered
<1>1. IInv => AnsweredStaysAnswered
  BY DEF IInv
<1> QED  BY <1>1, Invariance, PTL

\* When exactly the API has a report: while the process with the port is its maker.
THEOREM PortDecides == Spec => FetchFollowsPort
<1> DEFINE Follows ==
      \A r \in Reports :
          Fetch(r) =>
             /\ \A p \in alive :
                   r \in made[p] => (answer'[1] = "report" <=> listener = {p})
             /\ answer'[2] = r
<1>1. IInv => Follows
  <2> SUFFICES ASSUME IInv, NEW r \in Reports, Fetch(r)
               PROVE  /\ \A p \in alive :
                            r \in made[p] => (answer'[1] = "report" <=> listener = {p})
                      /\ answer'[2] = r
    OBVIOUS
  <2>1. ASSUME NEW p \in alive, r \in made[p], NEW q \in alive, r \in made[q]
        PROVE  p = q
    BY <2>1 DEF IInv, TypeOK, ReportsKept
  <2> QED  BY <2>1, FetchAnswers
<1> QED  BY <1>1, Invariance, PTL DEF Spec, FetchFollowsPort

OneAtATime == \A p, q \in alive : p = q

\* Where no two processes run at a time, whatever is started and ended, the API gives
\* every report: what FetchWorks is violated by takes a second process.
THEOREM OneProcessAnswers == Spec /\ []OneAtATime => FetchWorks
<1> DEFINE Listening == alive # {} => listener # {}
           Works == \A p \in alive, r \in Reports :
                       Fetch(r) /\ r \in made[p] => answer' = <<"report", r>>
<1>1. Init => Listening
  BY DEF Init
<1>2. IInv /\ Listening /\ OneAtATime /\ [Next]_vars => Listening'
  <2> SUFFICES ASSUME IInv, Listening, OneAtATime, [Next]_vars PROVE Listening'
    OBVIOUS
  <2>1. ASSUME NEW p \in Processes, StartProcess(p) PROVE Listening'
    BY <2>1 DEF StartProcess
  <2>2. ASSUME NEW p \in Processes, EndProcess(p) PROVE Listening'
    <3>1. alive' = {}
      BY <2>2 DEF EndProcess, OneAtATime
    <3> QED  BY <3>1
  <2>3. ASSUME NEW p \in Processes, Analyze(p) PROVE Listening'
    BY <2>3 DEF Analyze
  <2>4. ASSUME NEW r \in Reports, Fetch(r) PROVE Listening'
    BY <2>4 DEF Fetch
  <2>5. ASSUME NEW r \in Reports, OpenLink(r) PROVE Listening'
    BY <2>5 DEF OpenLink
  <2>6. CASE UNCHANGED vars
    BY <2>6 DEF vars
  <2> QED  BY <2>1, <2>2, <2>3, <2>4, <2>5, <2>6 DEF Next
<1>3. IInv /\ Listening /\ OneAtATime => Works
  <2> SUFFICES ASSUME IInv, Listening, OneAtATime,
                      NEW p \in alive, NEW r \in Reports, Fetch(r), r \in made[p]
               PROVE  answer' = <<"report", r>>
    OBVIOUS
  <2>1. listener = {p}
    BY DEF IInv, TypeOK, OneAtATime
  <2>2. /\ answer' \in {<<"report", r>>, <<"not found", r>>, <<"no answer", r>>}
        /\ answer'[1] = "report"
    BY <2>1, FetchAnswers
  <2> QED  BY <2>2, OnlyReport
<1> HIDE DEF Listening
<1> QED  BY <1>1, <1>2, <1>3, Invariance, PTL DEF Spec, FetchWorks
===============================================================================
