------------------------------ MODULE ToolCatalog ------------------------------
(***************************************************************************)
(* The database tools of src/server.py as scripts: for every tool and every *)
(* kind of argument that changes its control flow, the sequence of steps   *)
(* the tool's function takes.  ToolExecution runs them.                    *)
(*                                                                         *)
(*   borrow    enter `with pool.connection() as conn`                      *)
(*   audit     _write_audit_event                                          *)
(*   read      _execute_safe of a query that changes nothing               *)
(*   raw       cur.execute: neither rate limit nor statement timeout       *)
(*   fallback  _execute_safe_with_fallback of two such queries             *)
(*   write     _execute_safe of a statement that changes the database      *)
(*   solo      _execute_safe of a statement that PostgreSQL refuses inside *)
(*             a transaction block (CREATE DATABASE, DROP DATABASE)        *)
(*   signal    _execute_safe of pg_terminate_backend: takes effect at once *)
(*   query     _execute_safe of SQL the client supplied, which reads       *)
(*   dml       the same, and the SQL writes: INSERT, CREATE TABLE ...      *)
(*   into      the same, in words that a query is made of: SELECT ... INTO *)
(*   invoke    the same, and a function it calls takes effect at once:     *)
(*             SELECT nextval(...), SELECT pg_terminate_backend(...)       *)
(*   raise     raise ValueError or RuntimeError                            *)
(*   sorry     return an {"error": ...} payload instead of the answer      *)
(*   return    return the answer                                           *)
(*                                                                         *)
(* What the statements say is left out.  What is kept is which statements  *)
(* run, in which order, and where the function gives up.                   *)
(***************************************************************************)
EXTENDS Naturals, Sequences

CONSTANTS
    AllowWrite,   \* MCP_ALLOW_WRITE
    MaxItems      \* bound on the items an analysis loops over

Steps == {"borrow", "audit", "read", "raw", "fallback", "write", "solo",
          "signal", "query", "dml", "into", "invoke", "raise", "sorry", "return"}

Script(tool, arg, steps) == [tool |-> tool, arg |-> arg, script |-> steps]

When(condition, steps) == IF condition THEN steps ELSE <<>>
Repeat(n, step) == [i \in 1 .. n |-> step]
End(ok) == IF ok THEN <<"return">> ELSE <<"raise">>

\* Every tool that writes begins with `if not ALLOW_WRITE: raise ValueError`.
Gate(steps) == IF AllowWrite THEN steps ELSE <<"raise">>

-------------------------------------------------------------------------------
(* Tools that write *)

\* privileges is "read", "read-write" or anything else, which is refused, like
\* a badly formed username, before a connection is borrowed.
CreateUserSteps(privileges, sameDb, roRole) ==
    <<"borrow", "raw", "write", "write">>
    \o When(sameDb /\ privileges = "read",
            <<"write", "write", "raw">> \o When(roRole, <<"write">>) \o <<"write">>)
    \o When(sameDb /\ privileges = "read-write", Repeat(4, "write"))
    \o <<"return">>

CreateDbUser ==
    {Script("create_db_user", p, Gate(CreateUserSteps(p, sameDb, roRole))) :
        p \in {"read", "read-write"}, sameDb \in BOOLEAN, roRole \in BOOLEAN}
    \cup {Script("create_db_user", "invalid", <<"raise">>),
          Script("create_db_user", "no_database", Gate(<<"borrow", "raw", "raise">>))}

DropDbUser ==
    {Script("drop_db_user", "valid", Gate(<<"borrow", "write", "write", "return">>)),
     Script("drop_db_user", "invalid", <<"raise">>)}

\* A procedure is taken for a function.
ObjectTypes == {"database", "schema", "table", "view", "index", "function",
                "trigger", "server"}

\* The tools over database objects build one statement from their arguments
\* while they hold a connection, and raise there when a parameter is missing or
\* the type or operation is not one they know.
AlterObject ==
    {Script("alter_object", type, Gate(<<"borrow", "write", "return">>)) :
        type \in ObjectTypes}
    \cup {Script("alter_object", "invalid", Gate(<<"borrow", "raise">>))}

\* A table, view or function gets its owner from a second statement.
OwnedAfterwards == {"table", "view", "function"}

CreateSteps(type, owner) ==
    <<"borrow", IF type = "database" THEN "solo" ELSE "write">>
    \o When(owner /\ type \in OwnedAfterwards, <<"write">>)
    \o <<"return">>

CreateObject ==
    {Script("create_object", type, Gate(CreateSteps(type, owner))) :
        type \in ObjectTypes, owner \in BOOLEAN}
    \cup {Script("create_object", "invalid", Gate(<<"borrow", "raise">>))}

DropObject ==
    {Script("drop_object", type,
            Gate(<<"borrow", IF type = "database" THEN "solo" ELSE "write", "return">>)) :
        type \in ObjectTypes}
    \cup {Script("drop_object", "invalid", Gate(<<"borrow", "raise">>))}

\* Mutation of KillSession: it does not look at ALLOW_WRITE.
KillSessionUngated == {Script("kill_session", "pid", <<"borrow", "signal", "return">>)}

\* pg_terminate_backend is not undone by a rollback.
KillSession ==
    {Script("kill_session", "pid", Gate(<<"borrow", "signal", "return">>))}

-------------------------------------------------------------------------------
(* Tools that run the client's SQL *)

ClientSql == {"query", "dml", "into", "invoke"}

\* _require_readonly judges by words: the first one has to begin a query, and none
\* of _WRITE_KEYWORDS may occur.  "into" and the names of functions are not there.
\* "dml" stands for the writing SQL that this test recognises, "into" for what it
\* does not, for whatever reason.
Recognised == {"dml"}

UserSql == IF AllowWrite THEN ClientSql ELSE ClientSql \ Recognised

\* The gate, the check of max_rows and the audit policy's demand for a prompt
\* come before the audit record, the decoding of params_json after it.
RunQuery ==
    {Script("run_query", "valid", <<"audit", "borrow", sql, "return">>) : sql \in UserSql}
    \cup {Script("run_query", "blocked", <<"raise">>),
          Script("run_query", "bad_params", <<"audit", "raise">>)}

\* Here the audit record comes first, so a blocked statement is on record too.
\* With ANALYZE the statement is executed.
ExplainQuery ==
    {Script("explain_query", "valid", <<"audit", "borrow", sql, "return">>) : sql \in UserSql}
    \cup {Script("explain_query", "blocked", <<"audit", "raise">>),
          Script("explain_query", "no_prompt", <<"raise">>)}

\* For each candidate set a reset, the creation of its index and the statement.
Trials(sets, sql) == [i \in 1 .. 3 * sets |-> IF i % 3 = 0 THEN sql ELSE "read"]

\* The client's statement is executed, by EXPLAIN ANALYZE, for the baseline and for
\* every candidate set, and is not on record.  `others` are the queries for columns
\* and the statements of sets that were given up.
TuningSteps(sql, others, sets) ==
    <<"borrow", "read", "read", sql>> \o Repeat(others, "read") \o Trials(sets, sql)
    \o <<"read">>

\* It raises for want of HypoPG, the schema or a plan, and at the end for want of an
\* execution time.  What failures between the sets leave is in VirtualIndexTuning.
CreateVirtualIndexes ==
    {Script("create_virtual_indexes", "valid", TuningSteps(sql, others, sets) \o End(ok)) :
        sql \in UserSql, others \in 0 .. MaxItems, sets \in 0 .. MaxItems, ok \in BOOLEAN}
    \cup {Script("create_virtual_indexes", "no_plan", <<"borrow", "read", "read", sql, "raise">>) :
            sql \in UserSql}
    \cup {Script("create_virtual_indexes", "blocked", <<"raise">>),
          Script("create_virtual_indexes", "no_hypopg", <<"borrow", "read", "raise">>),
          Script("create_virtual_indexes", "no_schema", <<"borrow", "read", "read", "raise">>)}

-------------------------------------------------------------------------------
(* Tools that read the catalogs.  `ok` is whether the arguments that shape the *)
(* answer (detail_level, response_format) are among the accepted ones: they    *)
(* are looked at after the queries ran.                                        *)

CheckBloat == {Script("check_bloat", "any", <<"borrow", "read", "return">>)}

\* A database that does not exist is answered with an error payload.
DbStats ==
    {Script("db_stats", "any", <<"borrow", "read", "read", end>>) :
        end \in {"return", "sorry"}}

\* One query for the candidates; if there are any, one for their details and
\* up to two more for each table.
HealthSteps(tables, bloat, maintenance) ==
    <<"borrow", "read">>
    \o When(tables > 0, <<"read">>)
    \o Repeat(tables * ((IF bloat THEN 1 ELSE 0) + (IF maintenance THEN 1 ELSE 0)), "read")

AnalyzeTableHealth ==
    {Script("analyze_table_health", "any", HealthSteps(n, bloat, maintenance) \o End(ok)) :
        n \in 0 .. MaxItems, bloat \in BOOLEAN, maintenance \in BOOLEAN, ok \in BOOLEAN}

MetricsSteps == <<"borrow", "read", "fallback">> \o Repeat(5, "read")

DbSecPerfMetrics ==
    {Script("db_sec_perf_metrics", "any", MetricsSteps \o End(ok)) : ok \in BOOLEAN}

\* The full name is an alias: it calls the function.
DatabaseSecurityPerformanceMetrics ==
    {[c EXCEPT !.tool = "database_security_performance_metrics"] : c \in DbSecPerfMetrics}

\* One query for the tables, one per table that is large enough.
RecommendPartitioning ==
    {Script("recommend_partitioning", "any",
            <<"borrow", "read">> \o Repeat(n, "read") \o <<"return">>) :
        n \in 0 .. MaxItems}
    \cup {Script("recommend_partitioning", "invalid", <<"raise">>)}

SessionSteps(active, idle, locked) ==
    <<"borrow", "read">>
    \o When(active, <<"read">>) \o When(idle, <<"read">>) \o When(locked, <<"read">>)
    \o <<"return">>

AnalyzeSessions ==
    {Script("analyze_sessions", "any", SessionSteps(active, idle, locked)) :
        active \in BOOLEAN, idle \in BOOLEAN, locked \in BOOLEAN}

\* It raises when there is no row.
ServerInfo ==
    {Script("server_info", "any", <<"borrow", "read">> \o End(ok)) : ok \in BOOLEAN}

ServerInfoMcp == {Script("server_info_mcp", "any", <<"borrow", "read", "return">>)}

GetDbParameters == {Script("get_db_parameters", "any", <<"borrow", "read", "return">>)}

\* The branches that build the query know eight types.  The query then runs, and
\* a second copy of the tail, which knows two of them, runs it again or gives up.
ListedTypes == {"database", "schema", "table", "index", "view", "sequence",
                "function", "temp_object"}
TailTypes == {"database", "temp_object"}

ListSteps(type, ok) ==
    IF type \notin ListedTypes THEN <<"borrow", "sorry">>
    ELSE IF type \notin TailTypes THEN <<"borrow", "read", "sorry">>
    ELSE <<"borrow", "read", "read">> \o End(ok)

ListObjects ==
    {Script("list_objects", type, ListSteps(type, ok)) :
        type \in ListedTypes \cup {"invalid"}, ok \in BOOLEAN}

AnalyzeIndexes ==
    {Script("analyze_indexes", "any", <<"borrow", "read", "read">> \o End(ok)) :
        ok \in BOOLEAN}

\* Storing the report in DATA_MODEL_CACHE, between the checks of detail_level
\* and response_format, is left out.
DataModelSteps(tables) ==
    <<"borrow", "read", "read">> \o When(tables, <<"read">>) \o Repeat(3, "read")

AnalyzeLogicalDataModel ==
    {Script("analyze_logical_data_model", "any", DataModelSteps(tables) \o End(ok)) :
        tables \in BOOLEAN, ok \in BOOLEAN}

DescribeTable ==
    {Script("describe_table", "any", <<"borrow">> \o Repeat(4, "read") \o <<"return">>)}

-------------------------------------------------------------------------------
WritingTools == CreateDbUser \cup DropDbUser \cup AlterObject \cup CreateObject
                \cup DropObject \cup KillSession

QueryTools == RunQuery \cup ExplainQuery \cup CreateVirtualIndexes

ReadingTools == CheckBloat \cup DbStats \cup AnalyzeTableHealth
                \cup DbSecPerfMetrics \cup DatabaseSecurityPerformanceMetrics
                \cup RecommendPartitioning \cup AnalyzeSessions
                \cup ServerInfo \cup ServerInfoMcp \cup GetDbParameters
                \cup ListObjects \cup AnalyzeIndexes
                \cup AnalyzeLogicalDataModel \cup DescribeTable

Catalog == WritingTools \cup QueryTools \cup ReadingTools
===============================================================================
