----------------------------- MODULE PooledSession -----------------------------
(***************************************************************************)
(* One pooled connection of src/server.py and the calls that borrow it one *)
(* after another: clients' queries (UserQuery) and index tuning            *)
(* (VirtualIndexTuning).  They share the session, that is, its settings    *)
(* and its hypothetical indexes; a connection lost in one call is a new    *)
(* session for the next.                                                   *)
(***************************************************************************)
EXTENDS VirtualIndexTuning, UserQuery

sessionVars == <<vars, queryVars>>

SessionInit == Init /\ QueryInit

\* Tuning goes through _execute_safe as well: its commit leaves the server's
\* timeout in the session.  An error rolls back, also when the final reset
\* succeeded before it was raised.  (Between the two, setting is not kept; the
\* last query's answer has gone to its client.)
TuningCommits == pc # "idle" /\ pc' = "idle" /\ outcome' = "ok"

TuningTurn ==
    /\ asking = "idle"
    /\ \/ /\ Begin \/ Statement \/ FailEarly \/ FailInTry \/ FinalResetFails
          /\ session' = IF TuningCommits THEN "server" ELSE session
       \/ /\ ConnectionLost
          /\ session' = "default"
    /\ setting' = session'
    /\ answer' = NoAnswer
    /\ UNCHANGED <<asking, query, limit, fetchVars>>

QueryTurn ==
    /\ pc = "idle"
    /\ \/ (Ask \/ QueryStep \/ QueryFails) /\ UNCHANGED hypo
       \/ SessionLost /\ hypo' = {}
    /\ UNCHANGED <<pc, callVars, outcome>>

SessionNext == TuningTurn \/ QueryTurn

SessionSpec == SessionInit /\ [][SessionNext]_sessionVars

\* Statements end, and the thread moves on to the next one.
FairSession ==
    /\ SessionSpec
    /\ WF_sessionVars(Statement /\ TuningTurn)
    /\ WF_sessionVars(QueryStep /\ QueryTurn)

-------------------------------------------------------------------------------
\* The types of both kinds of calls, and only one of them is on the connection.
SessionTypeOK ==
    /\ TypeOK
    /\ QueryTypeOK
    /\ asking = "idle" \/ pc = "idle"
===============================================================================
