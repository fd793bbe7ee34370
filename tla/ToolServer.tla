------------------------------- MODULE ToolServer -------------------------------
(***************************************************************************)
(* The tools of src/server.py, run as ToolExecution runs them: what their  *)
(* scripts and the execution of scripts mean together.                     *)
(***************************************************************************)
EXTENDS ToolExecution, ToolCatalog

\* What clients call are the tools there are.
ASSUME CatalogAssumption ==
    /\ AllowWrite \in BOOLEAN
    /\ \A c \in Callers : Calls[c] \subseteq Catalog

\* In read-only mode the server's own tools change nothing and end no session, and
\* of client SQL only what the test of words takes for a query does, whatever fails
\* and whoever runs at the same time: all that is in the database is from there.
ReadOnlyHolds ==
    AllowWrite \/ \A w \in durable : call[w[1]].script[w[2]] \in ClientSql \ Recognised

\* README: "Prompt Audit Logging: db_pg96_run_query and db_pg96_explain_query".
\* Their client's SQL reaches the database only after the attempt to put it on
\* record, and only after the record is kept if the server is told to insist on it.
\* create_virtual_indexes executes client SQL without a record.
AuditedBeforeRun ==
    \A c \in Callers :
        call[c].tool \in {"run_query", "explain_query"} /\ Passed(c, ClientSql)
            => audit[c] = "kept" \/ (audit[c] = "lost" /\ ~ AuditRequired)

\* create_object and drop_object document the types they take (docstrings:
\* "object_type: One of: database, schema, table, ..."), and the README those of
\* list_objects ("databases, schemas, tables, views, indexes, functions,
\* sequences, and temporary objects").  For each of them the tool works
\* unless something outside its code goes wrong.
DocumentedTypesWork ==
    \A c \in Callers :
        /\ call[c].tool \in {"create_object", "drop_object"} /\ call[c].arg \in ObjectTypes
              => answer[c] # "error" \/ faulted[c]
        /\ call[c].tool = "list_objects" /\ call[c].arg \in ListedTypes
              => answer[c] # "sorry"
===============================================================================
