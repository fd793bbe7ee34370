--------------------------- MODULE DataModelReports ---------------------------
(***************************************************************************)
(* The reports of db_pg96_analyze_logical_data_model of src/server.py.     *)
(* The tool keeps its result in the process's DATA_MODEL_CACHE and answers *)
(* with a link to a page, whose script was to fetch it over HTTP.  In the  *)
(* page as it is served the script is cut off in the middle of a function: *)
(* it does not parse, and nothing in it runs.  The result can be had from  *)
(* the API only, by whoever asks it for the id in the link.                *)
(*                                                                         *)
(* Under stdio every MCP client starts a server process of its own.  The   *)
(* processes of one host ask for the same port (MCP_PORT, or 8085); one    *)
(* that cannot have it goes on without its HTTP server, and its links name *)
(* the port all the same.                                                  *)
(***************************************************************************)
CONSTANTS
    Processes,   \* server processes of one host
    Reports      \* the ids uuid4 gives

VARIABLES
    alive,       \* the processes that run
    listener,    \* the process whose HTTP server has the port: none or one
    cache,       \* DATA_MODEL_CACHE of each process
    made,        \* history: the reports each process made
    links,       \* the reports whose links were given to a client
    page,        \* what the browser shows of the link opened last
    answer       \* what the API answered last, and of which report

vars == <<alive, listener, cache, made, links, page, answer>>

Init ==
    /\ alive = {}
    /\ listener = {}
    /\ cache = [p \in Processes |-> {}]
    /\ made = [p \in Processes |-> {}]
    /\ links = {}
    /\ page = <<"nothing">>
    /\ answer = <<"nothing">>

\* A new process, which has made no report yet.  uvicorn binds the port, or its
\* thread ends; the MCP loop runs in either case.
StartProcess(p) ==
    /\ p \notin alive
    /\ made[p] = {}
    /\ alive' = alive \cup {p}
    /\ listener' = IF listener = {} THEN {p} ELSE listener
    /\ UNCHANGED <<cache, made, links, page, answer>>

EndProcess(p) ==
    /\ p \in alive
    /\ alive' = alive \ {p}
    /\ listener' = listener \ {p}
    /\ cache' = [cache EXCEPT ![p] = {}]
    /\ UNCHANGED <<made, links, page, answer>>

\* The result is kept before response_format is looked at: with a bad format the
\* call fails and nobody knows the id.
Analyze(p) ==
    /\ p \in alive
    /\ \E r \in Reports, formatted \in BOOLEAN :
          /\ \A q \in Processes : r \notin made[q]
          /\ made' = [made EXCEPT ![p] = @ \cup {r}]
          /\ cache' = [cache EXCEPT ![p] = @ \cup {r}]
          /\ links' = IF formatted THEN links \cup {r} ELSE links
    /\ UNCHANGED <<alive, listener, page, answer>>

\* The page at report_url, opened in a browser: DATA_MODEL_HTML without its script,
\* whatever the id.
OpenLink(r) ==
    /\ r \in links
    /\ page' = <<IF listener = {} THEN "no answer" ELSE "empty page", r>>
    /\ UNCHANGED <<alive, listener, cache, made, links, answer>>

\* get_data_model_result: the report, or 404 "Analysis not found or expired".
Lookup(p, r) == IF r \in cache[p] THEN <<"report", r>> ELSE <<"not found", r>>

\* GET /api/data-model/{result_id} at the address of a link.
Fetch(r) ==
    /\ r \in links
    /\ \/ listener = {} /\ answer' = <<"no answer", r>>
       \/ \E p \in listener : answer' = Lookup(p, r)
    /\ UNCHANGED <<alive, listener, cache, made, links, page>>

Next ==
    \/ \E p \in Processes : StartProcess(p) \/ EndProcess(p) \/ Analyze(p)
    \/ \E r \in Reports : OpenLink(r) \/ Fetch(r)

Spec == Init /\ [][Next]_vars

-------------------------------------------------------------------------------
(* Properties *)

PageOK ==
    \/ page = <<"nothing">>
    \/ \E r \in links : page \in {<<"empty page", r>>, <<"no answer", r>>}

AnswerOK ==
    \/ answer = <<"nothing">>
    \/ \E r \in links : answer \in {<<"report", r>>, <<"not found", r>>, <<"no answer", r>>}

TypeOK ==
    /\ alive \subseteq Processes
    /\ listener = {} \/ \E p \in alive : listener = {p}
    /\ cache \in [Processes -> SUBSET Reports]
    /\ made \in [Processes -> SUBSET Reports]
    /\ links \subseteq Reports
    /\ \A r \in links : \E p \in Processes : r \in made[p]
    /\ PageOK
    /\ AnswerOK

\* DATA_MODEL_CACHE is neither trimmed nor shared: while a process runs it has the
\* reports it made, all of them and no others, and no two processes have one report.
ReportsKept ==
    /\ \A p \in Processes : cache[p] = IF p \in alive THEN made[p] ELSE {}
    /\ \A p, q \in Processes : p # q => made[p] \cap made[q] = {}

\* A report the API gave it would give again as long as the report's process runs,
\* whatever processes start and end meanwhile: the port stays where it is.
AnsweredStaysAnswered ==
    answer[1] = "report" => \A p \in alive : answer[2] \in made[p] => listener = {p}

\* While the process that made a report runs, the API at the link's address has the
\* report exactly if that process has the port; it never gives another report than
\* the one that was asked for.
FetchFollowsPort ==
    [][\A r \in Reports :
          Fetch(r) =>
             /\ \A p \in alive :
                   r \in made[p] => (answer'[1] = "report" <=> listener = {p})
             /\ answer'[2] = r]_vars

\* While the process that made a report runs, the API gives the report.
FetchWorks ==
    [][\A p \in alive, r \in Reports :
          Fetch(r) /\ r \in made[p] => answer' = <<"report", r>>]_vars

\* README: "The tool returns a URL to view the report in your browser": while the
\* process that made a report runs, the report's link shows it.
LinkWorks ==
    [][\A p \in alive, r \in Reports :
          OpenLink(r) /\ r \in made[p] => page' = <<"report", r>>]_vars
===============================================================================
