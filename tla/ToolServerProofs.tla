---------------------------- MODULE ToolServerProofs ----------------------------
(***************************************************************************)
(* The scripts of the tools are what ToolExecution assumes of scripts, the *)
(* SQL given to run_query and explain_query is put on record before it     *)
(* runs, and read-only mode stops what it can recognise, for any callers,  *)
(* any pool and any number of items an analysis loops over.                *)
(*                                                                         *)
(* Everything that is in the database comes from a step of a call whose    *)
(* kind has an effect.  In read-only mode the scripts of the catalogue     *)
(* have few such steps: the tools that write raise first, and of client    *)
(* SQL only what the test of words does not recognise is left.             *)
(***************************************************************************)
EXTENDS ToolServer, ToolExecutionProofs

\* The steps that are left in read-only mode.
Permitted == Steps \ {"write", "solo", "signal", "dml"}

\* What is in the database is there because of steps that have an effect.
Landings ==
    \A w \in durable :
        /\ w[1] \in Callers
        /\ w[2] \in DOMAIN call[w[1]].script
        /\ call[w[1]].script[w[2]] \in Changing \cup AtOnce

-------------------------------------------------------------------------------
(* The catalogue satisfies what ToolExecution assumes of scripts *)

\* Steps of a block that need no other step before them than its start.
Plain == {"read", "raw", "write", "solo", "signal", "query", "dml", "into", "invoke"}

\* A script up to somewhere in its block: the block is entered first, and no
\* fallback comes after a statement that changes something.
Opened ==
    {s \in Seq(Plain \cup {"borrow", "fallback"}) :
        /\ s # <<>>
        /\ \A i \in DOMAIN s : s[i] = "borrow" <=> i = 1
        /\ \A i \in DOMAIN s : s[i] = "fallback" => \A j \in 1 .. i - 1 : s[j] \notin Changing}

\* How the blocks of the tools begin.
LEMMA OpenedAlone ==
  /\ <<"borrow">> \in Opened
  /\ <<"borrow", "read">> \in Opened
  /\ <<"borrow", "read", "read">> \in Opened
  /\ <<"borrow", "read", "fallback">> \in Opened
  /\ \A one \in Plain : <<"borrow", one>> \in Opened
  /\ \A one \in Plain : <<"borrow", "read", "read", one>> \in Opened
  /\ <<"borrow", "write", "write">> \in Opened
  /\ <<"borrow", "raw", "write", "write">> \in Opened
<1>1. <<"borrow">> \in Opened
  BY DEF Opened, Plain, Changing
<1>2. <<"borrow", "read">> \in Opened /\ <<"borrow", "read", "read">> \in Opened
  BY DEF Opened, Plain, Changing
<1>3. <<"borrow", "read", "fallback">> \in Opened
  BY DEF Opened, Plain, Changing
<1>4. \A one \in Plain : <<"borrow", one>> \in Opened
  BY DEF Opened, Plain, Changing
<1>5. \A one \in Plain : <<"borrow", "read", "read", one>> \in Opened
  BY DEF Opened, Plain, Changing
<1>6. <<"borrow", "write", "write">> \in Opened
  BY DEF Opened, Plain, Changing
<1>7. <<"borrow", "raw", "write", "write">> \in Opened
  BY DEF Opened, Plain, Changing
<1> QED  BY <1>1, <1>2, <1>3, <1>4, <1>5, <1>6, <1>7

\* More statements may follow.
LEMMA OpenedLonger ==
  ASSUME NEW s \in Opened, NEW t \in Seq(Plain)
  PROVE  s \o t \in Opened
<1>1. /\ s \in Seq(Plain \cup {"borrow", "fallback"})
      /\ s # <<>> /\ Len(s) \in Nat /\ Len(t) \in Nat /\ Len(s) > 0
      /\ DOMAIN s = 1 .. Len(s) /\ DOMAIN t = 1 .. Len(t)
  BY DEF Opened
<1>2. /\ s \o t \in Seq(Plain \cup {"borrow", "fallback"})
      /\ DOMAIN (s \o t) = 1 .. Len(s) + Len(t)
      /\ \A i \in 1 .. Len(s) : (s \o t)[i] = s[i]
      /\ \A i \in Len(s) + 1 .. Len(s) + Len(t) :
            (s \o t)[i] = t[i - Len(s)] /\ (s \o t)[i] \in Plain
  BY <1>1
<1>3. s \o t # <<>>
  BY <1>1, <1>2
<1> DEFINE u == s \o t
<1> HIDE DEF u
<1>4. \A i \in DOMAIN u : u[i] = "borrow" <=> i = 1
  BY <1>1, <1>2 DEF u, Opened, Plain
<1>5. \A i \in DOMAIN u : u[i] = "fallback" => \A j \in 1 .. i - 1 : u[j] \notin Changing
  <2> SUFFICES ASSUME NEW i \in DOMAIN u, u[i] = "fallback", NEW j \in 1 .. i - 1
               PROVE  u[j] \notin Changing
    OBVIOUS
  <2>1. i \in 1 .. Len(s)
    BY <1>1, <1>2 DEF u, Plain
  <2>2. j \in 1 .. Len(s)
    BY <1>1, <2>1
  <2> QED  BY <1>1, <1>2, <2>1, <2>2 DEF u, Opened
<1> QED  BY <1>2, <1>3, <1>4, <1>5 DEF u, Opened

\* The answer or an exception ends it.
LEMMA OpenedThenEnds ==
  ASSUME NEW s \in Opened, NEW u \in Seq(Kinds), Len(u) = Len(s) + 1,
         \A i \in 1 .. Len(s) : u[i] = s[i], u[Len(s) + 1] \in Ending
  PROVE  WellFormed(u)
<1>1. /\ s \in Seq(Plain \cup {"borrow", "fallback"})
      /\ Len(s) \in Nat \ {0} /\ DOMAIN s = 1 .. Len(s)
      /\ s[1] = "borrow"
  BY DEF Opened
<1>2. /\ u # <<>> /\ DOMAIN u = 1 .. Len(s) + 1
      /\ \A i \in 1 .. Len(s) : u[i] = s[i]
      /\ u[Len(s) + 1] \in Ending
  BY <1>1
<1>3. \A i \in 1 .. Len(s) : u[i] \in Plain \cup {"borrow", "fallback"} /\ u[i] \notin Ending
  BY <1>1, <1>2 DEF Plain, Ending
<1>4. \A i \in DOMAIN u : u[i] \in Ending <=> i = Len(u)
  BY <1>1, <1>2, <1>3
<1>5. \A i \in DOMAIN u : u[i] = "borrow" <=> i = 1
  BY <1>1, <1>2 DEF Opened, Ending
<1>6. \A i \in DOMAIN u : u[i] \in Statements \cup {"return", "sorry"}
                              => \E j \in 1 .. i - 1 : u[j] = "borrow"
  <2> SUFFICES ASSUME NEW i \in DOMAIN u, u[i] \in Statements \cup {"return", "sorry"}
               PROVE  \E j \in 1 .. i - 1 : u[j] = "borrow"
    OBVIOUS
  <2>1. i # 1
    BY <1>5 DEF Statements, Changing, AtOnce
  <2>2. 1 \in 1 .. i - 1 /\ 1 \in DOMAIN u
    BY <1>1, <1>2, <2>1
  <2> QED  BY <1>5, <2>2
<1>7. \A i \in DOMAIN u : u[i] # "audit"
  BY <1>1, <1>2, <1>3 DEF Plain, Ending
<1>8. \A i \in DOMAIN u : \A j \in 1 .. i - 1 :
        /\ ~ (u[i] = "borrow" /\ u[j] = "borrow")
        /\ ~ (u[i] = "audit" /\ u[j] \in {"audit", "borrow"})
        /\ ~ (u[i] = "fallback" /\ u[j] \in Changing)
  <2> SUFFICES ASSUME NEW i \in DOMAIN u, NEW j \in 1 .. i - 1
               PROVE  /\ ~ (u[i] = "borrow" /\ u[j] = "borrow")
                      /\ u[i] # "audit"
                      /\ ~ (u[i] = "fallback" /\ u[j] \in Changing)
    OBVIOUS
  <2>1. ~ (u[i] = "borrow" /\ u[j] = "borrow") /\ u[i] # "audit"
    BY <1>1, <1>2, <1>5, <1>7
  <2>2. ASSUME u[i] = "fallback" PROVE u[j] \notin Changing
    <3>1. i \in 1 .. Len(s) /\ j \in 1 .. Len(s)
      BY <1>1, <1>2, <2>2 DEF Ending
    <3> QED  BY <1>1, <1>2, <2>2, <3>1 DEF Opened
  <2> QED  BY <2>1, <2>2
<1> QED  BY <1>2, <1>4, <1>6, <1>7, <1>8 DEF WellFormed

\* A block that has begun may end, with an answer or an exception.
LEMMA OpenedEnds ==
  ASSUME NEW s \in Opened, NEW end \in Ending
  PROVE  WellFormed(s \o <<end>>)
<1>1. s \in Seq(Plain \cup {"borrow", "fallback"}) /\ Len(s) \in Nat
  BY DEF Opened
<1>2. end \in Kinds /\ Plain \cup {"borrow", "fallback"} \subseteq Kinds
  BY DEF Plain, Ending, Kinds, Statements, Changing, AtOnce
<1>3. s \in Seq(Kinds)
  BY <1>1, <1>2
<1> DEFINE u == s \o <<end>>
<1>4. /\ u \in Seq(Kinds) /\ Len(u) = Len(s) + 1
      /\ \A i \in 1 .. Len(s) : u[i] = s[i]
      /\ u[Len(s) + 1] = end
  BY <1>2, <1>3
<1> HIDE DEF u
<1>5. WellFormed(u)
  BY <1>4, OpenedThenEnds
<1> QED  BY <1>5 DEF u

-------------------------------------------------------------------------------
\* The script of a tool's record.
LEMMA ScriptOf == \A tool, arg, steps : Script(tool, arg, steps).script = steps
BY DEF Script

\* What the tools' scripts are made of.
LEMMA PlainParts ==
  /\ <<>> \in Seq(Plain)
  /\ \A one \in Plain : <<one>> \in Seq(Plain)
  /\ \A n \in Nat, one \in Plain : Repeat(n, one) \in Seq(Plain)
  /\ \A n \in Nat, one \in Plain : Trials(n, one) \in Seq(Plain)
  /\ \A s, t \in Seq(Plain) : s \o t \in Seq(Plain)
  /\ \A s \in Seq(Plain) : \A condition : When(condition, s) \in Seq(Plain)
<1>1. \A n \in Nat, one \in Plain : Trials(n, one) \in Seq(Plain)
  <2> TAKE n \in Nat, one \in Plain
  <2>1. 3 * n \in Nat /\ "read" \in Plain
    BY DEF Plain
  <2>2. Trials(n, one) \in [1 .. 3 * n -> Plain]
    BY <2>1 DEF Trials
  <2> QED  BY <2>1, <2>2
<1> QED  BY <1>1 DEF Repeat, When

\* A script that begins as a block and may go on.
LEMMA BlockWellFormed ==
  ASSUME NEW s \in Opened, NEW t \in Seq(Plain)
  PROVE  /\ \A end \in Ending : WellFormed((s \o t) \o <<end>>)
         /\ \A ok : WellFormed((s \o t) \o End(ok))
<1>1. s \o t \in Opened
  BY OpenedLonger
<1> QED  BY <1>1, OpenedEnds DEF End, Ending

\* A script that is a beginning and an end.
LEMMA ShortBlockWellFormed ==
  ASSUME NEW s \in Opened
  PROVE  /\ \A end \in Ending : WellFormed(s \o <<end>>)
         /\ \A ok : WellFormed(s \o End(ok))
BY OpenedEnds DEF End, Ending

\* A call that gives up before its block.
LEMMA RaiseWellFormed == WellFormed(<<"raise">>)
BY DEF WellFormed, Ending, Statements, Changing, AtOnce, Kinds

\* The scripts of the tools that run the client's SQL.
LEMMA QueryWellFormed ==
  /\ WellFormed(<<"audit", "raise">>)
  /\ \A sql \in ClientSql : WellFormed(<<"audit", "borrow", sql, "return">>)
<1>1. WellFormed(<<"audit", "raise">>)
  BY DEF WellFormed, Ending, Statements, Changing, AtOnce, Kinds
<1>2. ASSUME NEW sql \in ClientSql
      PROVE  WellFormed(<<"audit", "borrow", sql, "return">>)
  <2> DEFINE u == <<"audit", "borrow", sql, "return">>
  <2>1. /\ u \in Seq(Kinds) /\ u # <<>> /\ Len(u) = 4 /\ DOMAIN u = 1 .. 4
        /\ u[1] = "audit" /\ u[2] = "borrow" /\ u[3] = sql /\ u[4] = "return"
    BY <1>2 DEF Kinds, Statements, Ending, Changing, AtOnce, ClientSql
  <2> HIDE DEF u
  <2>2. \A i \in DOMAIN u : u[i] \in Ending <=> i = Len(u)
    BY <1>2, <2>1 DEF Ending, ClientSql
  <2>3. \A i \in DOMAIN u : u[i] \in Statements \cup {"return", "sorry"}
                              => \E j \in 1 .. i - 1 : u[j] = "borrow"
    BY <1>2, <2>1 DEF Statements, Changing, AtOnce, ClientSql
  <2>4. \A i \in DOMAIN u : \A j \in 1 .. i - 1 :
          /\ ~ (u[i] = "borrow" /\ u[j] = "borrow")
          /\ ~ (u[i] = "audit" /\ u[j] \in {"audit", "borrow"})
          /\ ~ (u[i] = "fallback" /\ u[j] \in Changing)
    BY <1>2, <2>1 DEF ClientSql
  <2>5. WellFormed(u)
    BY <2>1, <2>2, <2>3, <2>4 DEF WellFormed
  <2> QED  BY <2>5 DEF u
<1> QED  BY <1>1, <1>2

\* The ALLOW_WRITE check in front of a script.
LEMMA GateWellFormed ==
  ASSUME NEW steps, WellFormed(steps)
  PROVE  WellFormed(Gate(steps))
BY RaiseWellFormed DEF Gate

\* The tools that write, with the gate in front of their scripts.
LEMMA WritingToolsWellFormed ==
  ASSUME NEW c \in WritingTools
  PROVE  WellFormed(c.script)
<1>0. ASSUME NEW one \in Plain, NEW end \in {"return", "raise"}
      PROVE  WellFormed(<<"borrow", one, end>>)
  <2> DEFINE s == <<"borrow", one>>
             u == <<"borrow", one, end>>
  <2>1. s \in Opened
    BY OpenedAlone
  <2>2. u \in Seq(Kinds)
    BY DEF Kinds, Statements, Changing, AtOnce, Ending, Plain
  <2>3. /\ Len(s) = 2 /\ Len(u) = Len(s) + 1 /\ u[Len(s) + 1] \in Ending
        /\ \A i \in 1 .. Len(s) : u[i] = s[i]
    BY DEF Ending
  <2> HIDE DEF s, u
  <2>4. WellFormed(u)
    BY <2>1, <2>2, <2>3, OpenedThenEnds
  <2> QED  BY <2>4 DEF u
<1>1. CASE c \in CreateDbUser
  <2>1. ASSUME NEW p \in {"read", "read-write"}, NEW sameDb \in BOOLEAN, NEW roRole \in BOOLEAN
        PROVE  WellFormed(CreateUserSteps(p, sameDb, roRole))
    <3> DEFINE first == <<"borrow", "raw", "write", "write">>
               reader == When(sameDb /\ p = "read",
                              (<<"write", "write", "raw">> \o When(roRole, <<"write">>))
                                 \o <<"write">>)
               writer == When(sameDb /\ p = "read-write", Repeat(4, "write"))
    <3>1. reader \in Seq(Plain)
      <4>1. <<"write", "write", "raw">> \in Seq(Plain) /\ <<"write">> \in Seq(Plain)
        BY DEF Plain
      <4>2. <<"write", "write", "raw">> \o When(roRole, <<"write">>) \in Seq(Plain)
        BY <4>1, PlainParts
      <4>3. (<<"write", "write", "raw">> \o When(roRole, <<"write">>)) \o <<"write">>
               \in Seq(Plain)
        BY <4>1, <4>2, PlainParts
      <4> QED  BY <4>3, PlainParts
    <3>2. writer \in Seq(Plain)
      <4>1. "write" \in Plain /\ 4 \in Nat
        BY DEF Plain
      <4>2. Repeat(4, "write") \in Seq(Plain)
        BY <4>1, PlainParts
      <4> QED  BY <4>2, PlainParts
    <3>3. first \in Opened
      BY OpenedAlone
    <3>4. CreateUserSteps(p, sameDb, roRole) = ((first \o reader) \o writer) \o <<"return">>
      BY DEF CreateUserSteps
    <3> HIDE DEF first, reader, writer
    <3>5. first \o reader \in Opened
      BY <3>1, <3>3, OpenedLonger
    <3>6. WellFormed(((first \o reader) \o writer) \o <<"return">>)
      BY <3>2, <3>5, BlockWellFormed DEF Ending
    <3> QED  BY <3>4, <3>6
  <2>2. CASE c = Script("create_db_user", "invalid", <<"raise">>)
    BY <2>2, ScriptOf, RaiseWellFormed
  <2>3. CASE \E p \in {"read", "read-write"}, sameDb \in BOOLEAN, roRole \in BOOLEAN :
               c = Script("create_db_user", p, Gate(CreateUserSteps(p, sameDb, roRole)))
    <3>1. PICK p \in {"read", "read-write"}, sameDb \in BOOLEAN, roRole \in BOOLEAN :
            c = Script("create_db_user", p, Gate(CreateUserSteps(p, sameDb, roRole)))
      BY <2>3
    <3>2. c.script = Gate(CreateUserSteps(p, sameDb, roRole))
      BY <3>1, ScriptOf
    <3> QED  BY <2>1, <3>2, GateWellFormed
  <2>4. CASE c = Script("create_db_user", "no_database", Gate(<<"borrow", "raw", "raise">>))
    <3>1. WellFormed(<<"borrow", "raw", "raise">>)
      BY <1>0 DEF Plain
    <3>2. c.script = Gate(<<"borrow", "raw", "raise">>)
      BY <2>4, ScriptOf
    <3> QED  BY <3>1, <3>2, GateWellFormed
  <2> QED  BY <1>1, <2>2, <2>3, <2>4 DEF CreateDbUser
<1>3. WellFormed(<<"borrow", "raise">>)
  <2> DEFINE s == <<"borrow">>
             u == <<"borrow", "raise">>
  <2>1. s \in Opened
    BY OpenedAlone
  <2>2. u \in Seq(Kinds)
    BY DEF Kinds, Ending
  <2>3. /\ Len(s) = 1 /\ Len(u) = Len(s) + 1 /\ u[Len(s) + 1] \in Ending
        /\ \A i \in 1 .. Len(s) : u[i] = s[i]
    BY DEF Ending
  <2> HIDE DEF s, u
  <2>4. WellFormed(u)
    BY <2>1, <2>2, <2>3, OpenedThenEnds
  <2> QED  BY <2>4 DEF u
<1>4. "write" \in Plain /\ "solo" \in Plain /\ "signal" \in Plain
  BY DEF Plain
<1>5. CASE c \in DropDbUser
  <2>1. WellFormed(<<"borrow", "write", "write", "return">>)
    <3> DEFINE s == <<"borrow", "write", "write">>
               u == <<"borrow", "write", "write", "return">>
    <3>1. s \in Opened
      BY OpenedAlone
    <3>2. u \in Seq(Kinds)
      BY DEF Kinds, Statements, Changing, AtOnce, Ending
    <3>3. /\ Len(s) = 3 /\ Len(u) = Len(s) + 1 /\ u[Len(s) + 1] \in Ending
          /\ \A i \in 1 .. Len(s) : u[i] = s[i]
      BY DEF Ending
    <3> HIDE DEF s, u
    <3>4. WellFormed(u)
      BY <3>1, <3>2, <3>3, OpenedThenEnds
    <3> QED  BY <3>4 DEF u
  <2>2. \/ c.script = Gate(<<"borrow", "write", "write", "return">>)
        \/ c.script = <<"raise">>
    BY <1>5, ScriptOf DEF DropDbUser
  <2> QED  BY <2>1, <2>2, GateWellFormed, RaiseWellFormed
<1>6. CASE c \in AlterObject
  <2>1. \/ c.script = Gate(<<"borrow", "write", "return">>)
        \/ c.script = Gate(<<"borrow", "raise">>)
    BY <1>6, ScriptOf DEF AlterObject
  <2> QED  BY <1>0, <1>3, <1>4, <2>1, GateWellFormed
<1>7. CASE c \in CreateObject
  <2>1. ASSUME NEW type \in ObjectTypes, NEW owner1 \in BOOLEAN
        PROVE  WellFormed(CreateSteps(type, owner1))
    <3> DEFINE statement == IF type = "database" THEN "solo" ELSE "write"
               rest == When(owner1 /\ type \in OwnedAfterwards, <<"write">>)
    <3>1. statement \in Plain /\ rest \in Seq(Plain)
      BY <1>4, PlainParts
    <3>2. CreateSteps(type, owner1) = (<<"borrow", statement>> \o rest) \o <<"return">>
      BY DEF CreateSteps
    <3> HIDE DEF statement, rest
    <3>3. <<"borrow", statement>> \in Opened
      BY <3>1, OpenedAlone
    <3>4. WellFormed((<<"borrow", statement>> \o rest) \o <<"return">>)
      BY <3>1, <3>3, BlockWellFormed DEF Ending
    <3> QED  BY <3>2, <3>4
  <2>2. CASE c = Script("create_object", "invalid", Gate(<<"borrow", "raise">>))
    BY <1>3, <2>2, ScriptOf, GateWellFormed
  <2>3. ASSUME NEW type \in ObjectTypes, NEW owner1 \in BOOLEAN,
               c = Script("create_object", type, Gate(CreateSteps(type, owner1)))
        PROVE  WellFormed(c.script)
    <3>1. c.script = Gate(CreateSteps(type, owner1))
      BY <2>3, ScriptOf
    <3> QED  BY <2>1, <3>1, GateWellFormed
  <2> QED  BY <1>7, <2>2, <2>3 DEF CreateObject
<1>8. CASE c \in DropObject
  <2>1. CASE c = Script("drop_object", "invalid", Gate(<<"borrow", "raise">>))
    BY <1>3, <2>1, ScriptOf, GateWellFormed
  <2>2. ASSUME NEW type \in ObjectTypes,
               c = Script("drop_object", type,
                          Gate(<<"borrow", IF type = "database" THEN "solo" ELSE "write", "return">>))
        PROVE  WellFormed(c.script)
    <3> DEFINE statement == IF type = "database" THEN "solo" ELSE "write"
    <3>1. c.script = Gate(<<"borrow", statement, "return">>)
      BY <2>2, ScriptOf
    <3>2. statement \in Plain
      BY <1>4
    <3> HIDE DEF statement
    <3> QED  BY <1>0, <3>1, <3>2, GateWellFormed
  <2> QED  BY <1>8, <2>1, <2>2 DEF DropObject
<1>9. CASE c \in KillSession
  <2>1. c.script = Gate(<<"borrow", "signal", "return">>)
    BY <1>9, ScriptOf DEF KillSession
  <2> QED  BY <1>0, <1>4, <2>1, GateWellFormed
<1> QED  BY <1>1, <1>5, <1>6, <1>7, <1>8, <1>9 DEF WritingTools

\* What the client's SQL is made of.
LEMMA ClientSqlPlain == UserSql \subseteq ClientSql /\ ClientSql \subseteq Plain
BY DEF UserSql, ClientSql, Plain

\* The scripts of run_query and explain_query.
LEMMA QueryScripts ==
  ASSUME NEW c \in RunQuery \cup ExplainQuery
  PROVE  \/ c.script \in {<<"raise">>, <<"audit", "raise">>}
         \/ \E sql \in UserSql : c.script = <<"audit", "borrow", sql, "return">>
<1>1. \/ \E tool, arg : c = Script(tool, arg, <<"raise">>)
      \/ \E tool, arg : c = Script(tool, arg, <<"audit", "raise">>)
      \/ \E sql \in UserSql : \E tool, arg :
            c = Script(tool, arg, <<"audit", "borrow", sql, "return">>)
  BY Zenon DEF RunQuery, ExplainQuery
<1>2. CASE \E sql \in UserSql : \E tool, arg :
             c = Script(tool, arg, <<"audit", "borrow", sql, "return">>)
  BY <1>2, ScriptOf
<1>3. CASE \/ \E tool, arg : c = Script(tool, arg, <<"raise">>)
           \/ \E tool, arg : c = Script(tool, arg, <<"audit", "raise">>)
  BY <1>3, ScriptOf
<1> QED  BY <1>1, <1>2, <1>3

\* The records of create_virtual_indexes.
LEMMA TuningRecords ==
  ASSUME NEW c \in CreateVirtualIndexes
  PROVE  \E arg, steps :
            /\ c = Script("create_virtual_indexes", arg, steps)
            /\ \/ steps \in {<<"raise">>, <<"borrow", "read", "raise">>,
                             <<"borrow", "read", "read", "raise">>}
               \/ \E sql \in UserSql : steps = <<"borrow", "read", "read", sql, "raise">>
               \/ \E sql \in UserSql, others \in 0 .. MaxItems, sets \in 0 .. MaxItems, ok \in BOOLEAN :
                     steps = TuningSteps(sql, others, sets) \o End(ok)
<1> DEFINE Whole ==
             {Script("create_virtual_indexes", "valid", TuningSteps(sql, others, sets) \o End(ok)) :
                sql \in UserSql, others \in 0 .. MaxItems, sets \in 0 .. MaxItems, ok \in BOOLEAN}
           Planless ==
             {Script("create_virtual_indexes", "no_plan", <<"borrow", "read", "read", sql, "raise">>) :
                sql \in UserSql}
           Refused ==
             {Script("create_virtual_indexes", "blocked", <<"raise">>),
              Script("create_virtual_indexes", "no_hypopg", <<"borrow", "read", "raise">>),
              Script("create_virtual_indexes", "no_schema", <<"borrow", "read", "read", "raise">>)}
<1>1. CreateVirtualIndexes = (Whole \cup Planless) \cup Refused
  BY DEF CreateVirtualIndexes
<1>2. CASE c \in Whole
  <2>1. PICK sql \in UserSql, others \in 0 .. MaxItems, sets \in 0 .. MaxItems, ok \in BOOLEAN :
          c = Script("create_virtual_indexes", "valid", TuningSteps(sql, others, sets) \o End(ok))
    BY <1>2
  <2> DEFINE whole == TuningSteps(sql, others, sets) \o End(ok)
  <2>2. \E s \in UserSql, n \in 0 .. MaxItems, k \in 0 .. MaxItems, b \in BOOLEAN :
          whole = TuningSteps(s, n, k) \o End(b)
    BY Zenon
  <2>3. c = Script("create_virtual_indexes", "valid", whole)
    BY <2>1
  <2> HIDE DEF whole
  <2> QED  BY <2>2, <2>3
<1>3. CASE c \in Planless
  <2>1. PICK sql \in UserSql :
          c = Script("create_virtual_indexes", "no_plan", <<"borrow", "read", "read", sql, "raise">>)
    BY <1>3
  <2> DEFINE steps == <<"borrow", "read", "read", sql, "raise">>
  <2>2. steps = <<"borrow", "read", "read", sql, "raise">>
    OBVIOUS
  <2> HIDE DEF steps
  <2> QED  BY <2>1, <2>2
<1>4. CASE c \in Refused
  BY <1>4
<1> HIDE DEF Whole, Planless, Refused
<1> QED  BY <1>1, <1>2, <1>3, <1>4

\* Their scripts.
LEMMA TuningScripts ==
  ASSUME NEW c \in CreateVirtualIndexes
  PROVE  /\ c.tool = "create_virtual_indexes"
         /\ \/ c.script \in {<<"raise">>, <<"borrow", "read", "raise">>,
                             <<"borrow", "read", "read", "raise">>}
            \/ \E sql \in UserSql : c.script = <<"borrow", "read", "read", sql, "raise">>
            \/ \E sql \in UserSql, others \in 0 .. MaxItems, sets \in 0 .. MaxItems, ok \in BOOLEAN :
                  c.script = TuningSteps(sql, others, sets) \o End(ok)
<1>1. PICK arg, steps :
        /\ c = Script("create_virtual_indexes", arg, steps)
        /\ \/ steps \in {<<"raise">>, <<"borrow", "read", "raise">>,
                         <<"borrow", "read", "read", "raise">>}
           \/ \E sql \in UserSql : steps = <<"borrow", "read", "read", sql, "raise">>
           \/ \E sql \in UserSql, others \in 0 .. MaxItems, sets \in 0 .. MaxItems, ok \in BOOLEAN :
                 steps = TuningSteps(sql, others, sets) \o End(ok)
  BY TuningRecords
<1>2. c.tool = "create_virtual_indexes" /\ c.script = steps
  BY <1>1 DEF Script
<1> QED  BY <1>1, <1>2, Zenon

\* The alias of the metrics tool takes the same steps.
LEMMA AliasScript ==
  ASSUME NEW c \in DbSecPerfMetrics \cup DatabaseSecurityPerformanceMetrics
  PROVE  \E d \in DbSecPerfMetrics : c.script = d.script
<1>1. CASE c \in DbSecPerfMetrics
  BY <1>1
<1>2. CASE c \in DatabaseSecurityPerformanceMetrics
  <2>1. PICK d \in DbSecPerfMetrics :
          c = [d EXCEPT !.tool = "database_security_performance_metrics"]
    BY <1>2 DEF DatabaseSecurityPerformanceMetrics
  <2>2. PICK ok \in BOOLEAN : d = Script("db_sec_perf_metrics", "any", MetricsSteps \o End(ok))
    BY DEF DbSecPerfMetrics, MetricsSteps
  <2>3. c.script = d.script
    BY <2>1, <2>2 DEF Script
  <2> QED  BY <2>3
<1> QED  BY <1>1, <1>2

\* The short scripts of the tools that read.
LEMMA ShortReadsWellFormed ==
  /\ WellFormed(<<"borrow", "sorry">>)
  /\ \A end \in Ending : WellFormed(<<"borrow", "read", end>>)
  /\ \A end \in Ending : WellFormed(<<"borrow", "read", "read", end>>)
<1>1. WellFormed(<<"borrow", "sorry">>)
  <2> DEFINE s == <<"borrow">>
             u == <<"borrow", "sorry">>
  <2>1. s \in Opened
    BY OpenedAlone
  <2>2. u \in Seq(Kinds)
    BY DEF Kinds, Ending
  <2>3. /\ Len(s) = 1 /\ Len(u) = Len(s) + 1 /\ u[Len(s) + 1] \in Ending
        /\ \A i \in 1 .. Len(s) : u[i] = s[i]
    BY DEF Ending
  <2> HIDE DEF s, u
  <2>4. WellFormed(u)
    BY <2>1, <2>2, <2>3, OpenedThenEnds
  <2> QED  BY <2>4 DEF u
<1>2. ASSUME NEW end \in Ending PROVE WellFormed(<<"borrow", "read", end>>)
  <2> DEFINE s == <<"borrow", "read">>
             u == <<"borrow", "read", end>>
  <2>1. s \in Opened
    BY OpenedAlone
  <2>2. u \in Seq(Kinds)
    BY DEF Kinds, Statements, Changing, AtOnce
  <2>3. /\ Len(s) = 2 /\ Len(u) = Len(s) + 1 /\ u[Len(s) + 1] \in Ending
        /\ \A i \in 1 .. Len(s) : u[i] = s[i]
    OBVIOUS
  <2> HIDE DEF s, u
  <2>4. WellFormed(u)
    BY <2>1, <2>2, <2>3, OpenedThenEnds
  <2> QED  BY <2>4 DEF u
<1>3. ASSUME NEW end \in Ending PROVE WellFormed(<<"borrow", "read", "read", end>>)
  <2> DEFINE s == <<"borrow", "read", "read">>
             u == <<"borrow", "read", "read", end>>
  <2>1. s \in Opened
    BY OpenedAlone
  <2>2. u \in Seq(Kinds)
    BY DEF Kinds, Statements, Changing, AtOnce
  <2>3. /\ Len(s) = 3 /\ Len(u) = Len(s) + 1 /\ u[Len(s) + 1] \in Ending
        /\ \A i \in 1 .. Len(s) : u[i] = s[i]
    OBVIOUS
  <2> HIDE DEF s, u
  <2>4. WellFormed(u)
    BY <2>1, <2>2, <2>3, OpenedThenEnds
  <2> QED  BY <2>4 DEF u
<1> QED  BY <1>1, <1>2, <1>3

\* The tools that run the client's SQL.
LEMMA QueryToolsWellFormed ==
  ASSUME NEW c \in QueryTools
  PROVE  WellFormed(c.script)
<1>1. CASE c \in RunQuery \cup ExplainQuery
  BY <1>1, QueryScripts, RaiseWellFormed, QueryWellFormed, ClientSqlPlain
<1>2. CASE c \in CreateVirtualIndexes
  <2>1. "raise" \in Ending /\ "read" \in Plain
    BY DEF Ending, Plain
  <2>2. ASSUME NEW sql \in Plain
        PROVE  WellFormed(<<"borrow", "read", "read", sql, "raise">>)
    <3> DEFINE s == <<"borrow", "read", "read", sql>>
               u == <<"borrow", "read", "read", sql, "raise">>
    <3>1. s \in Opened
      BY OpenedAlone
    <3>2. u \in Seq(Kinds)
      BY DEF Kinds, Statements, Changing, AtOnce, Ending, Plain
    <3>3. /\ Len(s) = 4 /\ Len(u) = Len(s) + 1 /\ u[Len(s) + 1] \in Ending
          /\ \A i \in 1 .. Len(s) : u[i] = s[i]
      BY DEF Ending
    <3> HIDE DEF s, u
    <3>4. WellFormed(u)
      BY <3>1, <3>2, <3>3, OpenedThenEnds
    <3> QED  BY <3>4 DEF u
  <2>3. ASSUME NEW sql \in Plain, NEW others \in 0 .. MaxItems, NEW sets \in 0 .. MaxItems,
               NEW ok \in BOOLEAN
        PROVE  WellFormed(TuningSteps(sql, others, sets) \o End(ok))
    <3> DEFINE first == <<"borrow", "read", "read", sql>>
               s == first \o Repeat(others, "read")
               t == Trials(sets, sql)
               last == <<"read">>
    <3>1. others \in Nat /\ sets \in Nat
      OBVIOUS
    <3>2. Repeat(others, "read") \in Seq(Plain) /\ t \in Seq(Plain) /\ last \in Seq(Plain)
      BY <2>1, <3>1, PlainParts
    <3>3. first \in Opened
      BY OpenedAlone
    <3>4. TuningSteps(sql, others, sets) = (s \o t) \o last
      BY DEF TuningSteps
    <3> HIDE DEF first, t, last
    <3>5. s \in Opened
      BY <3>2, <3>3, OpenedLonger
    <3> HIDE DEF s
    <3>6. s \o t \in Opened
      BY <3>2, <3>5, OpenedLonger
    <3> QED  BY <3>2, <3>4, <3>6, BlockWellFormed
  <2> QED  BY <1>2, <2>1, <2>2, <2>3, TuningScripts, RaiseWellFormed, ShortReadsWellFormed,
              ClientSqlPlain
<1> QED  BY <1>1, <1>2 DEF QueryTools

\* The tools that only read, one after another.
LEMMA ReadingToolsWellFormed ==
  ASSUME NEW c \in ReadingTools
  PROVE  WellFormed(c.script)
<1>0. "read" \in Plain /\ <<"read">> \in Seq(Plain) /\ "return" \in Ending /\ "sorry" \in Ending
  BY DEF Plain, Ending
<1>1. CASE c \in AnalyzeTableHealth
  <2>1. PICK n \in 0 .. MaxItems, bloat \in BOOLEAN, maintenance \in BOOLEAN, ok \in BOOLEAN :
          c = Script("analyze_table_health", "any", HealthSteps(n, bloat, maintenance) \o End(ok))
    BY <1>1 DEF AnalyzeTableHealth
  <2> DEFINE m == (IF bloat THEN 1 ELSE 0) + (IF maintenance THEN 1 ELSE 0)
             s == <<"borrow", "read">> \o When(n > 0, <<"read">>)
             t == Repeat(n * m, "read")
  <2>2. t \in Seq(Plain)
    <3>1. m \in {0, 1, 2} /\ n \in Nat
      OBVIOUS
    <3>2. n * m \in Nat
      BY <3>1
    <3> HIDE DEF m
    <3> QED  BY <1>0, <3>2, PlainParts
  <2>3. s \in Opened
    BY <1>0, OpenedAlone, OpenedLonger, PlainParts
  <2>4. c.script = (s \o t) \o End(ok)
    BY <2>1, ScriptOf DEF HealthSteps
  <2> HIDE DEF s, t
  <2> QED  BY <2>2, <2>3, <2>4, BlockWellFormed
<1>2. CASE c \in DbSecPerfMetrics \cup DatabaseSecurityPerformanceMetrics
  <2>1. PICK d \in DbSecPerfMetrics : c.script = d.script
    BY <1>2, AliasScript
  <2>2. PICK ok \in BOOLEAN : d = Script("db_sec_perf_metrics", "any", MetricsSteps \o End(ok))
    BY DEF DbSecPerfMetrics, MetricsSteps
  <2>3. c.script = MetricsSteps \o End(ok)
    BY <2>1, <2>2, ScriptOf
  <2>4. <<"borrow", "read", "fallback">> \in Opened /\ Repeat(5, "read") \in Seq(Plain)
    BY <1>0, OpenedAlone, PlainParts
  <2>5. WellFormed(MetricsSteps \o End(ok))
    BY <2>4, BlockWellFormed DEF MetricsSteps
  <2> QED  BY <2>3, <2>5
<1>3. CASE c \in RecommendPartitioning
  <2>1. CASE c = Script("recommend_partitioning", "invalid", <<"raise">>)
    BY <2>1, ScriptOf, RaiseWellFormed
  <2>2. ASSUME NEW n \in 0 .. MaxItems,
               c = Script("recommend_partitioning", "any",
                          (<<"borrow", "read">> \o Repeat(n, "read")) \o <<"return">>)
        PROVE  WellFormed(c.script)
    <3>1. n \in Nat
      OBVIOUS
    <3>2. <<"borrow", "read">> \in Opened /\ Repeat(n, "read") \in Seq(Plain)
      BY <1>0, <3>1, OpenedAlone, PlainParts
    <3>3. WellFormed((<<"borrow", "read">> \o Repeat(n, "read")) \o <<"return">>)
      BY <1>0, <3>2, BlockWellFormed
    <3>4. c.script = (<<"borrow", "read">> \o Repeat(n, "read")) \o <<"return">>
      BY <2>2, ScriptOf
    <3> QED  BY <3>3, <3>4
  <2> QED  BY <1>3, <2>1, <2>2 DEF RecommendPartitioning
<1>4. CASE c \in AnalyzeSessions
  <2>1. PICK active \in BOOLEAN, idle \in BOOLEAN, locked \in BOOLEAN :
          c = Script("analyze_sessions", "any", SessionSteps(active, idle, locked))
    BY <1>4 DEF AnalyzeSessions
  <2> DEFINE s == <<"borrow", "read">>
             t == When(active, <<"read">>)
             u == When(idle, <<"read">>)
             v == When(locked, <<"read">>)
  <2>2. s \in Opened /\ t \in Seq(Plain) /\ u \in Seq(Plain) /\ v \in Seq(Plain)
    BY <1>0, OpenedAlone, PlainParts
  <2>3. c.script = (((s \o t) \o u) \o v) \o <<"return">>
    BY <2>1, ScriptOf DEF SessionSteps
  <2> HIDE DEF s, t, u, v
  <2>4. (s \o t) \o u \in Opened
    BY <2>2, OpenedLonger
  <2> QED  BY <1>0, <2>2, <2>3, <2>4, BlockWellFormed
<1>5. CASE c \in CheckBloat \cup DbStats \cup ServerInfoMcp \cup GetDbParameters
  <2>1. \/ c.script = <<"borrow", "read", "return">>
        \/ \E end \in {"return", "sorry"} : c.script = <<"borrow", "read", "read", end>>
    BY <1>5, ScriptOf DEF CheckBloat, DbStats, ServerInfoMcp, GetDbParameters
  <2> QED  BY <1>0, <2>1, ShortReadsWellFormed
<1>10. CASE c \in ServerInfo
  <2>1. PICK ok \in BOOLEAN : c = Script("server_info", "any", <<"borrow", "read">> \o End(ok))
    BY <1>10 DEF ServerInfo
  <2>2. WellFormed(<<"borrow", "read">> \o End(ok))
    BY OpenedAlone, ShortBlockWellFormed
  <2> QED  BY <2>1, <2>2, ScriptOf
<1>6. CASE c \in ListObjects
  <2>1. PICK type \in ListedTypes \cup {"invalid"}, ok \in BOOLEAN :
          c = Script("list_objects", type, ListSteps(type, ok))
    BY <1>6 DEF ListObjects
  <2>2. c.script = ListSteps(type, ok)
    BY <2>1, ScriptOf
  <2>3. WellFormed(<<"borrow", "read", "read">> \o End(ok))
    BY OpenedAlone, ShortBlockWellFormed
  <2>4. WellFormed(<<"borrow", "sorry">>) /\ WellFormed(<<"borrow", "read", "sorry">>)
    BY <1>0, ShortReadsWellFormed
  <2> QED  BY <2>2, <2>3, <2>4 DEF ListSteps
<1>7. CASE c \in AnalyzeIndexes
  <2>1. PICK ok \in BOOLEAN :
          c = Script("analyze_indexes", "any", <<"borrow", "read", "read">> \o End(ok))
    BY <1>7 DEF AnalyzeIndexes
  <2>2. WellFormed(<<"borrow", "read", "read">> \o End(ok))
    BY OpenedAlone, ShortBlockWellFormed
  <2> QED  BY <2>1, <2>2, ScriptOf
<1>8. CASE c \in AnalyzeLogicalDataModel
  <2>1. PICK tables \in BOOLEAN, ok \in BOOLEAN :
          c = Script("analyze_logical_data_model", "any", DataModelSteps(tables) \o End(ok))
    BY <1>8 DEF AnalyzeLogicalDataModel
  <2> DEFINE s == <<"borrow", "read", "read">> \o When(tables, <<"read">>)
             t == Repeat(3, "read")
  <2>2. s \in Opened /\ t \in Seq(Plain)
    BY <1>0, OpenedAlone, OpenedLonger, PlainParts
  <2>3. c.script = (s \o t) \o End(ok)
    BY <2>1, ScriptOf DEF DataModelSteps
  <2> HIDE DEF s, t
  <2> QED  BY <2>2, <2>3, BlockWellFormed
<1>9. CASE c \in DescribeTable
  <2> DEFINE t == Repeat(4, "read")
  <2>1. c = Script("describe_table", "any", (<<"borrow">> \o t) \o <<"return">>)
    BY <1>9 DEF DescribeTable
  <2>2. <<"borrow">> \in Opened /\ t \in Seq(Plain)
    BY <1>0, OpenedAlone, PlainParts
  <2> HIDE DEF t
  <2>3. WellFormed((<<"borrow">> \o t) \o <<"return">>)
    BY <1>0, <2>2, BlockWellFormed
  <2> QED  BY <2>1, <2>3, ScriptOf
<1> QED  BY <1>1, <1>2, <1>3, <1>4, <1>5, <1>6, <1>7, <1>8, <1>9, <1>10 DEF ReadingTools

\* Every tool of server.py, whatever its arguments and however many items it loops
\* over, has the shape that ToolExecution assumes of scripts: one `with` block with
\* all statements in it, at most one record, before it, and no fallback after a write.
THEOREM CatalogWellFormed == \A c \in Catalog : WellFormed(c.script)
BY WritingToolsWellFormed, QueryToolsWellFormed, ReadingToolsWellFormed DEF Catalog

-------------------------------------------------------------------------------
(* The scripts in read-only mode *)

Beginnings ==
    {<<"raise">>, <<"audit", "raise">>, <<"read">>, <<"return">>, <<"borrow">>, <<"borrow", "read">>, <<"borrow", "read", "fallback">>,
     <<"borrow", "read", "read">>, <<"borrow", "sorry">>, <<"borrow", "read", "sorry">>,
     <<"borrow", "read", "return">>, <<"borrow", "read", "read", "return">>,
     <<"borrow", "read", "read", "sorry">>}

\* They have no other steps than those.
LEMMA Beginning == Beginnings \subseteq Seq(Permitted)
<1>1. {"borrow", "audit", "read", "fallback", "raise", "sorry", "return"}
        \subseteq Permitted
  BY DEF Permitted, Steps
<1> QED  BY <1>1 DEF Beginnings

\* Permitted parts make a permitted script.
LEMMA Joining == \A s, t \in Seq(Permitted) : s \o t \in Seq(Permitted)
OBVIOUS

\* So do any number of reads.
LEMMA Reads == \A n \in Nat : Repeat(n, "read") \in Seq(Permitted)
<1>1. "read" \in Permitted
  BY DEF Permitted, Steps
<1> QED  BY <1>1 DEF Repeat

\* What may come at the end or be left out.
LEMMA Endings ==
  /\ \A ok : End(ok) \in Seq(Permitted)
  /\ \A condition : When(condition, <<"read">>) \in Seq(Permitted)
<1>1. "raise" \in Permitted /\ "return" \in Permitted /\ "read" \in Permitted
  BY DEF Permitted, Steps
<1> QED  BY <1>1 DEF End, When

\* In read-only mode the writing tools raise first.
LEMMA WritingToolsGated ==
  ASSUME ~ AllowWrite, NEW c \in WritingTools
  PROVE  c.script = <<"raise">>
BY ScriptOf DEF WritingTools, CreateDbUser, DropDbUser, AlterObject, CreateObject, DropObject,
                KillSession, Gate

\* In read-only mode client SQL is what the test of words takes for a query.
LEMMA QueriesPermitted ==
  ASSUME ~ AllowWrite, NEW c \in QueryTools
  PROVE  c.script \in Seq(Permitted)
<1>1. UserSql \subseteq Permitted
  BY DEF UserSql, ClientSql, Recognised, Permitted, Steps
<1>2. {"audit", "borrow", "read", "raise", "return"} \subseteq Permitted
  BY DEF Permitted, Steps
<1>3. CASE c \in RunQuery \cup ExplainQuery
  <2>1. ASSUME NEW sql \in UserSql PROVE <<"audit", "borrow", sql, "return">> \in Seq(Permitted)
    BY <1>1, <1>2
  <2>2. <<"raise">> \in Seq(Permitted) /\ <<"audit", "raise">> \in Seq(Permitted)
    BY <1>2
  <2> QED  BY <1>3, <2>1, <2>2, QueryScripts
<1>4. CASE c \in CreateVirtualIndexes
  <2>1. ASSUME NEW sql \in UserSql, NEW others \in 0 .. MaxItems, NEW sets \in 0 .. MaxItems,
               NEW ok \in BOOLEAN, c.script = TuningSteps(sql, others, sets) \o End(ok)
        PROVE  c.script \in Seq(Permitted)
    <3> DEFINE s == <<"borrow", "read", "read", sql>>
    <3>1. others \in Nat /\ sets \in Nat /\ 3 * sets \in Nat
      OBVIOUS
    <3>2. s \in Seq(Permitted) /\ <<"read">> \in Seq(Permitted)
      BY <1>1, <1>2
    <3>3. Trials(sets, sql) \in [1 .. 3 * sets -> Permitted]
      BY <1>1, <1>2, <3>1 DEF Trials
    <3>4. Trials(sets, sql) \in Seq(Permitted)
      BY <3>1, <3>3
    <3>5. TuningSteps(sql, others, sets)
             = ((s \o Repeat(others, "read")) \o Trials(sets, sql)) \o <<"read">>
      BY DEF TuningSteps
    <3> HIDE DEF s
    <3>6. s \o Repeat(others, "read") \in Seq(Permitted)
      BY <3>1, <3>2, Joining, Reads
    <3>7. TuningSteps(sql, others, sets) \in Seq(Permitted)
      BY <3>2, <3>4, <3>5, <3>6, Joining
    <3> QED  BY <2>1, <3>7, Joining, Endings
  <2>2. ASSUME NEW sql \in UserSql, c.script = <<"borrow", "read", "read", sql, "raise">>
        PROVE  c.script \in Seq(Permitted)
    BY <1>1, <1>2, <2>2
  <2>3. CASE c.script \in {<<"raise">>, <<"borrow", "read", "raise">>,
                           <<"borrow", "read", "read", "raise">>}
    <3>1. /\ <<"raise">> \in Seq(Permitted)
          /\ <<"borrow", "read", "raise">> \in Seq(Permitted)
          /\ <<"borrow", "read", "read", "raise">> \in Seq(Permitted)
      BY <1>2
    <3> QED  BY <2>3, <3>1
  <2> QED  BY <1>4, <2>1, <2>2, <2>3, TuningScripts
<1> QED  BY <1>3, <1>4 DEF QueryTools

\* The analyses read, whatever they loop over.
LEMMA AnalysesOnlyRead ==
  ASSUME NEW c \in ReadingTools
  PROVE  c.script \in Seq(Permitted)
<1>1. CASE c \in AnalyzeTableHealth
  <2>1. PICK n \in 0 .. MaxItems, bloat \in BOOLEAN, maintenance \in BOOLEAN, ok \in BOOLEAN :
          c = Script("analyze_table_health", "any", HealthSteps(n, bloat, maintenance) \o End(ok))
    BY <1>1 DEF AnalyzeTableHealth
  <2> DEFINE m == (IF bloat THEN 1 ELSE 0) + (IF maintenance THEN 1 ELSE 0)
  <2>2. n * m \in Nat
    <3>1. m \in {0, 1, 2} /\ n \in Nat
      OBVIOUS
    <3> QED  BY <3>1
  <2>3. c.script = ((<<"borrow", "read">> \o When(n > 0, <<"read">>)) \o Repeat(n * m, "read"))
                      \o End(ok)
    BY <2>1, ScriptOf DEF HealthSteps
  <2> HIDE DEF m
  <2>4. Repeat(n * m, "read") \in Seq(Permitted)
    BY <2>2, Reads
  <2>5. <<"borrow", "read">> \o When(n > 0, <<"read">>) \in Seq(Permitted)
    BY Beginning, Joining, Endings DEF Beginnings
  <2>6. (<<"borrow", "read">> \o When(n > 0, <<"read">>)) \o Repeat(n * m, "read")
           \in Seq(Permitted)
    BY <2>4, <2>5, Joining
  <2> QED  BY <2>3, <2>6, Joining, Endings
<1>2. CASE c \in DbSecPerfMetrics \cup DatabaseSecurityPerformanceMetrics
  <2>1. PICK d \in DbSecPerfMetrics : c.script = d.script
    BY <1>2, AliasScript
  <2>2. PICK ok \in BOOLEAN : d = Script("db_sec_perf_metrics", "any", MetricsSteps \o End(ok))
    BY DEF DbSecPerfMetrics, MetricsSteps
  <2>3. c.script = MetricsSteps \o End(ok)
    BY <2>1, <2>2, ScriptOf
  <2>4. MetricsSteps \in Seq(Permitted)
    BY Beginning, Joining, Reads DEF Beginnings, MetricsSteps
  <2> QED  BY <2>3, <2>4, Joining, Endings
<1>3. CASE c \in RecommendPartitioning
  <2>1. CASE c.script = <<"raise">>
    BY <2>1, Beginning DEF Beginnings
  <2>2. ASSUME NEW n \in 0 .. MaxItems,
               c.script = (<<"borrow", "read">> \o Repeat(n, "read")) \o <<"return">>
        PROVE  c.script \in Seq(Permitted)
    <3>1. n \in Nat
      OBVIOUS
    <3>2. <<"borrow", "read">> \o Repeat(n, "read") \in Seq(Permitted)
      BY <3>1, Beginning, Joining, Reads DEF Beginnings
    <3>3. <<"return">> \in Seq(Permitted)
      BY Beginning DEF Beginnings
    <3> QED  BY <2>2, <3>2, <3>3, Joining
  <2>3. CASE c = Script("recommend_partitioning", "invalid", <<"raise">>)
    BY <2>1, <2>3, ScriptOf
  <2>4. ASSUME NEW n \in 0 .. MaxItems,
               c = Script("recommend_partitioning", "any",
                          (<<"borrow", "read">> \o Repeat(n, "read")) \o <<"return">>)
        PROVE  c.script \in Seq(Permitted)
    BY <2>2, <2>4, ScriptOf, Zenon
  <2> QED  BY <1>3, <2>3, <2>4 DEF RecommendPartitioning
<1>4. CASE c \in AnalyzeSessions
  <2>1. PICK active \in BOOLEAN, idle \in BOOLEAN, locked \in BOOLEAN :
          c = Script("analyze_sessions", "any", SessionSteps(active, idle, locked))
    BY <1>4 DEF AnalyzeSessions
  <2>2. <<"borrow", "read">> \in Seq(Permitted) /\ <<"return">> \in Seq(Permitted)
    BY Beginning DEF Beginnings
  <2>3. <<"borrow", "read">> \o When(active, <<"read">>) \in Seq(Permitted)
    BY <2>2, Joining, Endings
  <2>4. (<<"borrow", "read">> \o When(active, <<"read">>)) \o When(idle, <<"read">>)
           \in Seq(Permitted)
    BY <2>3, Joining, Endings
  <2>5. ((<<"borrow", "read">> \o When(active, <<"read">>)) \o When(idle, <<"read">>))
           \o When(locked, <<"read">>) \in Seq(Permitted)
    BY <2>4, Joining, Endings
  <2>6. c.script = (((<<"borrow", "read">> \o When(active, <<"read">>)) \o When(idle, <<"read">>))
                       \o When(locked, <<"read">>)) \o <<"return">>
    BY <2>1, ScriptOf DEF SessionSteps
  <2> QED  BY <2>2, <2>5, <2>6, Joining
<1>5. CASE c \in CheckBloat \cup DbStats \cup ServerInfoMcp \cup GetDbParameters
  <2>1. \/ c.script = <<"borrow", "read", "return">>
        \/ \E end \in {"return", "sorry"} : c.script = <<"borrow", "read", "read", end>>
    BY <1>5, ScriptOf DEF CheckBloat, DbStats, ServerInfoMcp, GetDbParameters
  <2> QED  BY <2>1, Beginning DEF Beginnings
<1>9. CASE c \in ServerInfo
  <2>1. PICK ok \in BOOLEAN : c = Script("server_info", "any", <<"borrow", "read">> \o End(ok))
    BY <1>9 DEF ServerInfo
  <2>2. c.script = <<"borrow", "read">> \o End(ok)
    BY <2>1, ScriptOf
  <2>3. <<"borrow", "read">> \in Seq(Permitted)
    BY Beginning DEF Beginnings
  <2> QED  BY <2>2, <2>3, Joining, Endings
<1>6. CASE c \in ListObjects \cup AnalyzeIndexes
  <2>1. \/ c.script \in {<<"borrow", "sorry">>, <<"borrow", "read", "sorry">>}
        \/ \E ok \in BOOLEAN : c.script = <<"borrow", "read", "read">> \o End(ok)
    <3>1. CASE c \in ListObjects
      <4>1. PICK type \in ListedTypes \cup {"invalid"}, ok \in BOOLEAN :
              c = Script("list_objects", type, ListSteps(type, ok))
        BY <3>1 DEF ListObjects
      <4>2. c.script = ListSteps(type, ok)
        BY <4>1, ScriptOf, Zenon
      <4> QED  BY <4>2 DEF ListSteps
    <3>2. CASE c \in AnalyzeIndexes
      <4>1. PICK ok \in BOOLEAN :
              c = Script("analyze_indexes", "any", <<"borrow", "read", "read">> \o End(ok))
        BY <3>2 DEF AnalyzeIndexes
      <4>2. c.script = <<"borrow", "read", "read">> \o End(ok)
        BY <4>1, ScriptOf
      <4> QED  BY <4>2, Zenon
    <3> QED  BY <1>6, <3>1, <3>2
  <2>2. CASE c.script \in {<<"borrow", "sorry">>, <<"borrow", "read", "sorry">>}
    BY <2>2, Beginning DEF Beginnings
  <2>3. <<"borrow", "read", "read">> \in Seq(Permitted)
    BY Beginning DEF Beginnings
  <2> QED  BY <2>1, <2>2, <2>3, Joining, Endings
<1>7. CASE c \in AnalyzeLogicalDataModel
  <2>1. PICK tables \in BOOLEAN, ok \in BOOLEAN :
          c = Script("analyze_logical_data_model", "any", DataModelSteps(tables) \o End(ok))
    BY <1>7 DEF AnalyzeLogicalDataModel
  <2>2. <<"borrow", "read", "read">> \o When(tables, <<"read">>) \in Seq(Permitted)
    BY Beginning, Joining, Endings DEF Beginnings
  <2>3. (<<"borrow", "read", "read">> \o When(tables, <<"read">>)) \o Repeat(3, "read")
           \in Seq(Permitted)
    BY <2>2, Joining, Reads
  <2>4. c.script = ((<<"borrow", "read", "read">> \o When(tables, <<"read">>))
                      \o Repeat(3, "read")) \o End(ok)
    BY <2>1, ScriptOf DEF DataModelSteps
  <2> QED  BY <2>3, <2>4, Joining, Endings
<1>8. CASE c \in DescribeTable
  <2>1. c.script = (<<"borrow">> \o Repeat(4, "read")) \o <<"return">>
    <3>1. c = Script("describe_table", "any",
                     (<<"borrow">> \o Repeat(4, "read")) \o <<"return">>)
      BY <1>8 DEF DescribeTable
    <3> QED  BY <3>1, ScriptOf, Zenon
  <2>2. <<"borrow">> \o Repeat(4, "read") \in Seq(Permitted) /\ <<"return">> \in Seq(Permitted)
    BY Beginning, Joining, Reads DEF Beginnings
  <2> QED  BY <2>1, <2>2, Joining
<1> QED  BY <1>1, <1>2, <1>3, <1>4, <1>5, <1>6, <1>7, <1>8, <1>9 DEF ReadingTools

\* What the scripts of the tools come down to in read-only mode.
LEMMA CatalogPermitted ==
  ASSUME ~ AllowWrite, NEW c \in Catalog
  PROVE  c.script \in Seq(Permitted)
BY WritingToolsGated, QueriesPermitted, AnalysesOnlyRead, Beginning DEF Catalog, Beginnings

-------------------------------------------------------------------------------
(* What is in the database *)

\* A COMMIT brings there what the caller has written, a signal what it does at once.
LEMMA LandingsStep == IInv /\ Landings /\ [Next]_vars => Landings'
<1> SUFFICES ASSUME IInv, Landings, [Next]_vars PROVE Landings'
  OBVIOUS
<1>0. TypeOK /\ Transactions
  BY DEF IInv
<1>1. ASSUME NEW k \in Conns, NEW w \in uncommitted[k]
      PROVE  /\ w[1] \in Callers
             /\ w[2] \in DOMAIN call[w[1]].script
             /\ call[w[1]].script[w[2]] \in Changing
  <2>1. owner[k] \in Callers /\ ~ broken[k]
    BY <1>0 DEF Transactions, TypeOK
  <2>2. uncommitted[k] = {<<owner[k], i>> : i \in Behind(owner[k])}
    BY <1>0, <2>1 DEF Transactions
  <2>3. PICK i \in Behind(owner[k]) : w = <<owner[k], i>>
    BY <2>2
  <2> QED  BY <2>1, <2>3 DEF Behind, Writes
<1>2. ASSUME call' = call, durable' = durable
      PROVE  Landings'
  BY <1>2 DEF Landings
<1>3. ASSUME call' = call, NEW k \in Conns,
             durable' = durable \/ durable' = durable \cup uncommitted[k]
      PROVE  Landings'
  BY <1>1, <1>3 DEF Landings
<1>4. ASSUME NEW c \in Callers, ExecuteSignal(c)
      PROVE  Landings'
  <2>1. /\ call' = call /\ durable' = durable \cup {<<c, step[c]>>}
        /\ call[c].script[step[c]] \in AtOnce
    BY <1>4 DEF ExecuteSignal, At
  <2>2. step[c] \in DOMAIN call[c].script
    BY <1>0 DEF TypeOK
  <2> QED  BY <2>1, <2>2 DEF Landings
<1>5. ASSUME NEW c \in Callers, Start(c)
      PROVE  Landings'
  <2>1. durable' = {w \in durable : w[1] # c}
    BY <1>5 DEF Start
  <2>2. \A d \in Callers \ {c} : call'[d] = call[d]
    BY <1>0, <1>5 DEF Start, TypeOK
  <2> QED  BY <2>1, <2>2 DEF Landings
<1>6. ASSUME NEW c \in Callers, Return(c) \/ CommitFails(c)
      PROVE  Landings'
  <2>1. call' = call
    BY <1>6 DEF Return, CommitFails
  <2>2. \E k \in Conns : durable' = durable \/ durable' = durable \cup uncommitted[k]
    BY <1>6 DEF Return, CommitFails
  <2> QED  BY <1>3, <2>1, <2>2
<1>7. ASSUME NEW c \in Callers,
             \/ Borrow(c) \/ Enqueue(c) \/ TurnedAway(c) \/ AuditKept(c) \/ AuditLost(c)
             \/ ExecuteRead(c) \/ ExecuteWrite(c) \/ StatementFails(c) \/ FallBack(c)
             \/ SoloRefused(c) \/ RaiseUnconnected(c) \/ RaiseConnected(c)
             \/ WaitTimesOut(c) \/ StopWaiting(c)
      PROVE  Landings'
  <2>1. call' = call /\ durable' = durable
    BY <1>7 DEF Borrow, Enqueue, TurnedAway, AuditKept, AuditLost, ExecuteRead, ExecuteWrite,
                StatementFails, FallBack, SoloRefused, RaiseUnconnected, RaiseConnected,
                WaitTimesOut, StopWaiting, dbVars
  <2> QED  BY <1>2, <2>1
<1>8. ASSUME NEW k \in Conns, ConnectionDrops(k)
      PROVE  Landings'
  BY <1>2, <1>8 DEF ConnectionDrops, callVars
<1>9. CASE UNCHANGED vars
  BY <1>2, <1>9 DEF vars, callVars, dbVars
<1> QED
  BY <1>4, <1>5, <1>6, <1>7, <1>8, <1>9 DEF Next, Work, Execute, Finish

\* MCP_ALLOW_WRITE=false: whatever reaches the database, in any interleaving and with
\* any failure, is of client SQL that the test of words takes for a query; the other
\* tools change nothing.
THEOREM ReadOnlyAlwaysHolds == Spec => []ReadOnlyHolds
<1>1. Init => Landings
  BY DEF Init, Landings
<1>2. Spec => []Landings
  BY <1>1, LandingsStep, Invariance, PTL DEF Spec
<1>3. IInv /\ Landings => ReadOnlyHolds
  <2> SUFFICES ASSUME IInv, Landings, ~ AllowWrite, NEW w \in durable
               PROVE  call[w[1]].script[w[2]] \in ClientSql \ Recognised
    BY DEF ReadOnlyHolds
  <2>1. /\ w[1] \in Callers
        /\ w[2] \in DOMAIN call[w[1]].script
        /\ call[w[1]].script[w[2]] \in Changing \cup AtOnce
    BY DEF Landings
  <2>2. call[w[1]] \in Catalog
    BY <2>1, CatalogAssumption DEF IInv, TypeOK
  <2>3. call[w[1]].script \in Seq(Permitted)
    BY <2>2, CatalogPermitted
  <2>4. call[w[1]].script[w[2]] \in Permitted
    BY <2>1, <2>3
  <2> QED  BY <2>1, <2>4 DEF Permitted, Changing, AtOnce, ClientSql, Recognised
<1> QED  BY <1>2, <1>3, Invariance, PTL

-------------------------------------------------------------------------------
(* What is on record *)

\* In the catalogue the two tools of the audit log have no other scripts than theirs.
LEMMA RecordedTools ==
  ASSUME NEW c \in Catalog, c.tool \in {"run_query", "explain_query"}
  PROVE  c \in RunQuery \cup ExplainQuery
<1>1. \A tool, arg, steps : Script(tool, arg, steps).tool = tool
  BY DEF Script
<1>2. c \notin CreateDbUser \cup DropDbUser \cup AlterObject
  BY <1>1 DEF CreateDbUser, DropDbUser, AlterObject
<1>8. c \notin CreateObject
  BY <1>1 DEF CreateObject
<1>9. c \notin KillSession
  BY <1>1 DEF KillSession
<1>10. c \notin DropObject
  <2>1. ASSUME NEW type \in ObjectTypes,
               c = Script("drop_object", type,
                          Gate(<<"borrow", IF type = "database" THEN "solo" ELSE "write", "return">>))
        PROVE  FALSE
    BY <1>1, <2>1
  <2>2. c # Script("drop_object", "invalid", Gate(<<"borrow", "raise">>))
    BY <1>1
  <2> QED  BY <2>1, <2>2 DEF DropObject
<1>3. c \notin CreateVirtualIndexes
  BY TuningScripts
<1>4. c \notin DbSecPerfMetrics
  BY <1>1 DEF DbSecPerfMetrics
<1>5. c \notin DatabaseSecurityPerformanceMetrics
  <2> SUFFICES ASSUME NEW d \in DbSecPerfMetrics,
                      c = [d EXCEPT !.tool = "database_security_performance_metrics"]
               PROVE  FALSE
    BY DEF DatabaseSecurityPerformanceMetrics
  <2>1. PICK ok \in BOOLEAN : d = Script("db_sec_perf_metrics", "any", MetricsSteps \o End(ok))
    BY DEF DbSecPerfMetrics
  <2>2. c.tool = "database_security_performance_metrics"
    BY <2>1 DEF Script
  <2> QED  BY <2>2
<1>6. c \notin CheckBloat \cup DbStats \cup ServerInfo \cup ServerInfoMcp \cup GetDbParameters
               \cup AnalyzeIndexes \cup DescribeTable
  BY <1>1 DEF CheckBloat, DbStats, ServerInfo, ServerInfoMcp, GetDbParameters, AnalyzeIndexes,
              DescribeTable
<1>7. c \notin AnalyzeTableHealth \cup RecommendPartitioning \cup AnalyzeSessions \cup ListObjects
               \cup AnalyzeLogicalDataModel
  BY <1>1 DEF AnalyzeTableHealth, RecommendPartitioning, AnalyzeSessions, ListObjects,
              AnalyzeLogicalDataModel
<1> QED  BY <1>2, <1>3, <1>4, <1>5, <1>6, <1>7, <1>8, <1>9, <1>10
         DEF Catalog, WritingTools, QueryTools, ReadingTools

\* Client SQL of run_query and explain_query never runs before it is on record, or the
\* record is known to be lost and not insisted on.
THEOREM RecordsComeFirst == Spec => []AuditedBeforeRun
<1>1. IInv => AuditedBeforeRun
  <2> SUFFICES ASSUME IInv, NEW c \in Callers, call[c].tool \in {"run_query", "explain_query"},
                      Passed(c, ClientSql)
               PROVE  audit[c] = "kept" \/ (audit[c] = "lost" /\ ~ AuditRequired)
    BY DEF AuditedBeforeRun
  <2>1. TypeOK /\ Recorded
    BY DEF IInv
  <2>2. PICK i \in 1 .. step[c] - 1 : call[c].script[i] \in ClientSql
    BY DEF Passed
  <2>3. i \in DOMAIN call[c].script /\ step[c] \in Nat /\ i \in Nat
    BY <2>1, <2>2, ScriptShape
  <2>4. call[c] \in RunQuery \cup ExplainQuery
    BY <2>1, CatalogAssumption, RecordedTools DEF TypeOK
  <2>5. PICK sql \in UserSql : call[c].script = <<"audit", "borrow", sql, "return">>
    <3>1. CASE call[c].script \in {<<"raise">>, <<"audit", "raise">>}
      BY <2>2, <2>3, <3>1 DEF ClientSql
    <3> QED  BY <2>4, <3>1, QueryScripts
  <2>6. 1 \in 1 .. step[c] - 1 /\ call[c].script[1] = "audit"
    BY <2>2, <2>3, <2>5
  <2>7. Passed(c, {"audit"})
    BY <2>6 DEF Passed
  <2> QED  BY <2>1, <2>7 DEF Recorded
<1> QED  BY <1>1, Invariance, PTL
===============================================================================
