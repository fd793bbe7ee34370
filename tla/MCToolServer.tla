------------------------------ MODULE MCToolServer ------------------------------
(* Instances of ToolServer for TLC: which tools the callers use. *)
EXTENDS ToolServer, TLC

\* Scripts that differ in their steps, one of each: equal scripts of different
\* tools behave alike.
OfEach(calls) ==
    {CHOOSE c \in calls : c.script = s : s \in {c.script : c \in calls}}

CatalogCalls == OfEach(Catalog)

\* Short enough for two callers in every interleaving: what is left out only has
\* more reads.
ShortCalls == [c \in Callers |-> {s \in CatalogCalls : Len(s.script) <= 5}]

\* Of create_virtual_indexes the scripts that give up early, and with SQL that writes
\* those that try one candidate set and have no queries for columns: others have
\* more reads, or statements that run_query has too.
Sample(c) ==
    c.tool = "create_virtual_indexes" =>
        Len(c.script) <= 4 \/ (Len(c.script) \in {5, 9} /\ c.script[4] = "into")

\* One caller runs every tool of the catalogue, a second one drop_db_user (two
\* writes), and the others get in their way with a call that raises while it
\* has the connection.
First == CHOOSE c \in Callers : TRUE
Second == CHOOSE c \in Callers \ {First} : TRUE
MixedCalls ==
    [c \in Callers |->
        IF c = First THEN OfEach({s \in Catalog : Sample(s)})
        ELSE IF c = Second THEN {d \in DropDbUser : d.arg = "valid"}
        ELSE {a \in AlterObject : a.arg = "invalid"}]

TypedCalls == [c \in Callers |-> CreateObject \cup DropObject \cup ListObjects]
===============================================================================
