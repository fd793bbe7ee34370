------------------------------- MODULE UserQuery -------------------------------
(***************************************************************************)
(* db_pg96_run_query of src/server.py on one pooled connection: the        *)
(* client's statement, the rows fetched of its result in batches, and what *)
(* the call leaves in the session.                                         *)
(*                                                                         *)
(* One row more than the limit is fetched, to know whether the answer is   *)
(* cut short.  The connection is not in autocommit mode: a setting that a  *)
(* statement changes (statement_timeout, which is set before every         *)
(* statement, among them) becomes the session's with the commit, and the   *)
(* session goes back to the pool with it; a rollback takes it back.        *)
(*                                                                         *)
(* Names begin with "Query" where VirtualIndexTuning has the same one: the *)
(* two are composed in PooledSession.                                      *)
(***************************************************************************)
EXTENDS Integers

CONSTANTS
    Batch,      \* rows per fetchmany (200)
    MaxRows,    \* bound on the rows of a result
    Limits      \* max_rows a client may ask for

ASSUME QueryAssumption ==
    /\ Batch \in Nat \ {0}
    /\ MaxRows \in Nat
    /\ Limits \subseteq Int

VARIABLES
    asking,      \* the point the call is at; "idle" between calls
    query,       \* the statement: its rows, whether it has a result, and
                 \* whether it changes a setting
    limit,       \* max_rows, or its default
    rest,        \* rows of the result that are not fetched yet
    fetched,     \* len(rows) in _fetch_limited
    remaining,   \* what the fetch loop still wants
    setting,     \* what the transaction sees: "default", "server" or "client"
    session,     \* what a rollback goes back to
    answer       \* of the last call

fetchVars == <<rest, fetched, remaining>>
queryVars == <<asking, query, limit, fetchVars, setting, session, answer>>

Queries == [rows : 0 .. MaxRows, result : BOOLEAN, sets : BOOLEAN]
NoAnswer == [kind |-> "none", rows |-> 0, truncated |-> FALSE]
Error == [kind |-> "error", rows |-> 0, truncated |-> FALSE]

-------------------------------------------------------------------------------
NoQuery == [rows |-> 0, result |-> TRUE, sets |-> FALSE]

QueryInit ==
    /\ asking = "idle"
    /\ query = NoQuery
    /\ limit = 0
    /\ rest = 0
    /\ fetched = 0
    /\ remaining = 0
    /\ setting = "default"
    /\ session = "default"
    /\ answer = NoAnswer

\* The gate and the audit record are ToolCatalog's; "max_rows must be >= 0" comes
\* before the connection.
Ask ==
    /\ asking = "idle"
    /\ \E max \in Limits :
          \/ /\ max < 0
             /\ answer' = Error
             /\ UNCHANGED <<asking, query, limit>>
          \/ /\ max >= 0
             /\ query' \in Queries
             /\ limit' = max
             /\ asking' = "timing"
             /\ answer' = NoAnswer
    /\ UNCHANGED <<fetchVars, setting, session>>

\* The call is over, and its locals are gone.
HangUp ==
    /\ asking' = "idle"
    /\ query' = NoQuery
    /\ limit' = 0
    /\ rest' = 0
    /\ fetched' = 0
    /\ remaining' = 0

\* SET statement_timeout
SetTimeout ==
    /\ asking = "timing"
    /\ setting' = "server"
    /\ asking' = "executing"
    /\ UNCHANGED <<query, limit, fetchVars, session, answer>>

\* Mutation of Wanted: no row to tell a full answer from one cut short.
WantedExactly == limit

\* How many rows _fetch_limited is called for.
Wanted == limit + 1

Execute ==
    /\ asking = "executing"
    /\ setting' = IF query.sets THEN "client" ELSE setting
    /\ rest' = query.rows
    /\ fetched' = 0
    /\ remaining' = Wanted
    /\ asking' = "fetching"
    /\ UNCHANGED <<query, limit, session, answer>>

\* Mutation of BatchSize: what was asked for, not what came.
BatchSizeAsked == IF remaining < Batch THEN remaining ELSE Batch

\* len(batch), after fetchmany(min(remaining, 200))
BatchSize ==
    LET asked == IF remaining < Batch THEN remaining ELSE Batch
    IN  IF rest < asked THEN rest ELSE asked

FetchBatch ==
    /\ asking = "fetching"
    /\ query.result
    /\ remaining > 0
    /\ BatchSize > 0
    /\ rest' = rest - BatchSize
    /\ fetched' = fetched + BatchSize
    /\ remaining' = remaining - BatchSize
    /\ UNCHANGED <<asking, query, limit, setting, session, answer>>

\* Mutation of Answer: the loop waits for all the rows it wanted.
AnswerWhenFull ==
    /\ asking = "fetching"
    /\ query.result
    /\ remaining = 0
    /\ answer' = [kind |-> "rows",
                  rows |-> IF fetched > limit THEN limit ELSE fetched,
                  truncated |-> fetched > limit]
    /\ session' = setting
    /\ HangUp
    /\ UNCHANGED setting

\* The loop is over: answer, commit, back to the pool.
Answer ==
    /\ asking = "fetching"
    /\ query.result
    /\ remaining = 0 \/ BatchSize = 0
    /\ answer' = [kind |-> "rows",
                  rows |-> IF fetched > limit THEN limit ELSE fetched,
                  truncated |-> fetched > limit]
    /\ session' = setting
    /\ HangUp
    /\ UNCHANGED setting

\* Mutation of QueryFails: the exception passes the `with` block by, and what
\* the statement did is committed with the next call.
QueryFailsQuietly ==
    /\ asking \in {"timing", "executing", "fetching"}
    /\ answer' = Error
    /\ session' = setting
    /\ HangUp
    /\ UNCHANGED setting

\* The limiter refuses, a statement fails, or there is nothing to fetch from (the
\* statement was a command): _execute_safe or the `with` block rolls back.
QueryFails ==
    /\ asking \in {"timing", "executing", "fetching"}
    /\ answer' = Error
    /\ setting' = session
    /\ HangUp
    /\ UNCHANGED session

\* The connection is lost, at a statement or at the commit: the pool has a new
\* one.
SessionLost ==
    /\ asking # "idle"
    /\ answer' = Error
    /\ setting' = "default"
    /\ session' = "default"
    /\ HangUp

QueryStep == SetTimeout \/ Execute \/ FetchBatch \/ Answer
             \/ (asking = "fetching" /\ ~ query.result /\ QueryFails)

QueryNext == Ask \/ QueryStep \/ QueryFails \/ SessionLost

QuerySpec == QueryInit /\ [][QueryNext]_queryVars

-------------------------------------------------------------------------------
(* Properties *)

QueryTypeOK ==
    /\ asking \in {"idle", "timing", "executing", "fetching"}
    /\ query \in Queries
    /\ limit \in Limits \cup {0}
    /\ rest \in 0 .. MaxRows
    /\ fetched \in 0 .. MaxRows
    /\ remaining \in Int
    /\ setting \in {"default", "server", "client"}
    /\ session \in {"default", "server", "client"}
    /\ answer \in [kind : {"none", "error", "rows"}, rows : Int, truncated : BOOLEAN]

\* Whatever the limit, the size of the result and of a batch: the client gets
\* the whole result or as much of it as the limit allows, and is told exactly
\* when there was more.
RowsExact ==
    [][asking # "idle" /\ answer'.kind = "rows" =>
          /\ answer'.rows = IF query.rows < limit THEN query.rows ELSE limit
          /\ answer'.truncated <=> query.rows > limit]_queryVars

\* A call that ends with an error leaves the session as the call before left it
\* (or a new session): no setting of a failed statement, its SET statement_timeout
\* included, reaches the next borrower of the connection.
FailureKeepsSettings ==
    [][asking # "idle" /\ answer'.kind = "error" => session' \in {session, "default"}
                                                    /\ setting' = session']_queryVars

\* The fetch loop ends, and with it every call.
QueriesEnd == asking # "idle" ~> asking = "idle"
===============================================================================
