---------------------------- MODULE EventLoopProofs ----------------------------
(***************************************************************************)
(* Routing, the pools and the event loop, for any number of jobs, any pool *)
(* size and any scripts of the shape LoopAssumption gives.                 *)
(*                                                                         *)
(* What a job may do is decided by its place in its script: its context    *)
(* variable is set exactly behind "set", it can have a connection only     *)
(* behind "borrow", and it waits at "borrow" (JobInv).  A line holds       *)
(* waiting jobs whose context names its instance, each once (LineInv); so  *)
(* whoever is first in line gets a connection of the right instance.  Under *)
(* Progress, no step takes a job further from its end.                     *)
(***************************************************************************)
EXTENDS EventLoop, FiniteSetTheorems, TLAPS

Here(j) == call[j].script[step[j]]
Passed(j, what) == \E h \in 1 .. step[j] - 1 : call[j].script[h] = what
Wanted(j) == IF call[j].via = "direct" THEN "01" ELSE call[j].via

FlagsOK == hybrid \in BOOLEAN /\ second \in BOOLEAN

\* TypeOK without the flags.
JobsOK ==
    /\ call \in [Jobs -> Calls]
    /\ pc \in [Jobs -> {"idle", "running", "waiting", "suspended"}]
    /\ step \in [Jobs -> Nat]
    /\ \A j \in Jobs : step[j] \in DOMAIN call[j].script
    /\ context \in [Jobs -> Instances]
    /\ holds \in [Jobs -> Instances \cup {"none"}]
    /\ queue \in [Instances -> Seq(Jobs)]
    /\ loop \in [Loops -> Jobs \cup {Nobody}]

JobInv(j) ==
    /\ pc[j] = "idle" => step[j] = 1
    /\ pc[j] = "waiting" => Here(j) = "borrow"
    /\ pc[j] = "suspended" => call[j].home \in Loops
    /\ context[j] = IF Passed(j, "set") THEN call[j].via ELSE "01"
    /\ holds[j] # "none" => Passed(j, "borrow") /\ holds[j] = Wanted(j) /\ Configured(Wanted(j))
    /\ \A l \in Loops : loop[l] = j <=> pc[j] \in {"running", "waiting"} /\ LoopOf(j) = l

LineInv ==
    \A i \in Instances :
        /\ \A n \in DOMAIN queue[i] :
              pc[queue[i][n]] = "waiting" /\ context[queue[i][n]] = i /\ Configured(i)
        /\ \A m, n \in DOMAIN queue[i] : queue[i][m] = queue[i][n] => m = n

PoolInv ==
    \A i \in Instances :
        /\ IsFiniteSet(Holders(i))
        /\ Cardinality(Holders(i)) <= PoolSize
        /\ queue[i] # <<>> => Cardinality(Holders(i)) = PoolSize

IInv == JobsOK /\ (\A j \in Jobs : JobInv(j)) /\ LineInv /\ PoolInv

-------------------------------------------------------------------------------
(* The calls of the server fit *)

\* The beginning of an async tool's script, up to somewhere behind its "borrow",
\* the end of one, and a whole one.
Begun ==
    {s \in Seq({"await", "borrow", "read"}) :
        /\ Len(s) > 1
        /\ \A i \in DOMAIN s : s[i] = "borrow" <=> i = 2}

Closing ==
    {t \in Seq({"await", "read", "return"}) :
        /\ t # <<>>
        /\ \A i \in DOMAIN t : t[i] = "return" <=> i = Len(t)}

Whole ==
    {u \in Seq({"await", "borrow", "read", "return"}) :
        /\ u # <<>>
        /\ \A i \in DOMAIN u : /\ u[i] = "return" <=> i = Len(u)
                               /\ u[i] = "borrow" => \A h \in 1 .. i - 1 : u[h] # "borrow"}

\* A script that has begun goes on with awaits and reads.
LEMMA BegunLonger ==
  ASSUME NEW s \in Begun, NEW t \in Seq({"await", "read"})
  PROVE  s \o t \in Begun
<1>1. /\ s \in Seq({"await", "borrow", "read"}) /\ Len(s) \in Nat /\ Len(t) \in Nat
      /\ Len(s) > 1 /\ DOMAIN s = 1 .. Len(s) /\ DOMAIN t = 1 .. Len(t)
  BY DEF Begun
<1> DEFINE u == s \o t
<1>2. /\ u \in Seq({"await", "borrow", "read"})
      /\ Len(u) = Len(s) + Len(t) /\ DOMAIN u = 1 .. Len(s) + Len(t)
      /\ \A i \in 1 .. Len(s) : u[i] = s[i]
      /\ \A i \in Len(s) + 1 .. Len(s) + Len(t) : u[i] \in {"await", "read"}
  BY <1>1
<1> HIDE DEF u
<1>3. \A i \in DOMAIN u : u[i] = "borrow" <=> i = 2
  BY <1>1, <1>2 DEF Begun
<1>4. u \in Begun
  BY <1>1, <1>2, <1>3 DEF Begun
<1> QED  BY <1>4 DEF u

\* And it ends with its answer.
LEMMA BegunCloses ==
  ASSUME NEW s \in Begun, NEW t \in Closing
  PROVE  s \o t \in Whole
<1>1. /\ s \in Seq({"await", "borrow", "read"}) /\ Len(s) \in Nat
      /\ Len(s) > 1 /\ DOMAIN s = 1 .. Len(s)
      /\ t \in Seq({"await", "read", "return"}) /\ Len(t) \in Nat \ {0}
      /\ DOMAIN t = 1 .. Len(t)
  BY DEF Begun, Closing
<1> DEFINE u == s \o t
<1>2. s \in Seq({"await", "borrow", "read", "return"})
      /\ t \in Seq({"await", "borrow", "read", "return"})
  BY <1>1
<1>3. /\ u \in Seq({"await", "borrow", "read", "return"})
      /\ Len(u) = Len(s) + Len(t) /\ DOMAIN u = 1 .. Len(s) + Len(t)
      /\ \A i \in 1 .. Len(s) : u[i] = s[i]
      /\ \A i \in Len(s) + 1 .. Len(s) + Len(t) :
            /\ i - Len(s) \in DOMAIN t
            /\ u[i] = t[i - Len(s)]
            /\ u[i] \in {"await", "read", "return"}
  BY <1>1, <1>2
<1> HIDE DEF u
<1>4. \A i \in 1 .. Len(s) : u[i] # "return" /\ (u[i] = "borrow" <=> i = 2)
  <2>1. \A i \in 1 .. Len(s) : s[i] \in {"await", "borrow", "read"}
    BY <1>1
  <2>2. \A i \in 1 .. Len(s) : s[i] = "borrow" <=> i = 2
    BY <1>1 DEF Begun
  <2> QED  BY <1>3, <2>1, <2>2
<1>5. \A i \in Len(s) + 1 .. Len(s) + Len(t) :
        u[i] # "borrow" /\ (u[i] = "return" <=> i - Len(s) = Len(t))
  BY <1>3 DEF Closing
<1>6. \A i \in DOMAIN u : i \in 1 .. Len(s) \/ i \in Len(s) + 1 .. Len(s) + Len(t)
  BY <1>1, <1>3
<1>7. \A i \in DOMAIN u : u[i] = "return" <=> i = Len(u)
  BY <1>1, <1>3, <1>4, <1>5, <1>6
<1>8. \A i \in DOMAIN u : u[i] = "borrow" => i = 2
  BY <1>4, <1>5, <1>6
<1>9. \A i \in DOMAIN u : u[i] = "borrow" => \A h \in 1 .. i - 1 : u[h] # "borrow"
  BY <1>1, <1>3, <1>4, <1>8
<1>10. u # <<>>
  BY <1>1, <1>3
<1>11. u \in Whole
  BY <1>3, <1>7, <1>9, <1>10 DEF Whole
<1> QED  BY <1>11 DEF u

\* Whatever its name or alias, a call with such a script fits; one of a thread
\* if it does not await.
LEMMA WholeFits ==
  ASSUME NEW u \in Whole, NEW via \in {"direct"} \cup Instances,
         NEW home \in {"thread"} \cup Loops,
         home \in Loops \/ \A i \in DOMAIN u : u[i] # "await"
  PROVE  Fitting(Routed(home, via, u))
<1> DEFINE c == Routed(home, via, u)
<1>1. /\ u \in Seq({"await", "borrow", "read", "return"}) /\ u # <<>>
      /\ Len(u) \in Nat \ {0} /\ DOMAIN u = 1 .. Len(u)
  BY DEF Whole
<1>2. c.home = home /\ c.via = via
  BY DEF Routed
<1>3. CASE via = "direct"
  <2>1. c.script = u /\ u \in Seq({"set", "await", "borrow", "read", "return"})
    BY <1>1, <1>3 DEF Routed
  <2>2. \A i \in DOMAIN u : u[i] # "set"
    BY <1>1
  <2>3. \A i \in DOMAIN u :
          /\ u[i] = "return" <=> i = Len(u)
          /\ u[i] = "borrow" => \A h \in 1 .. i - 1 : u[h] # "borrow"
    BY DEF Whole
  <2>4. c.via \notin Instances
    BY <1>2, <1>3 DEF Instances
  <2> HIDE DEF c
  <2>5. Fitting(c)
    BY <1>1, <1>2, <1>3, <2>1, <2>2, <2>3, <2>4 DEF Fitting
  <2> QED  BY <2>5 DEF c
<1>4. CASE via \in Instances
  <2> DEFINE v == <<"set">> \o u
  <2>1. u \in Seq({"set", "await", "borrow", "read", "return"})
        /\ <<"set">> \in Seq({"set", "await", "borrow", "read", "return"})
    BY <1>1
  <2>2. /\ v \in Seq({"set", "await", "borrow", "read", "return"})
        /\ Len(v) = Len(u) + 1 /\ DOMAIN v = 1 .. Len(u) + 1
        /\ v[1] = "set"
        /\ \A i \in 2 .. Len(u) + 1 : i - 1 \in DOMAIN u /\ v[i] = u[i - 1]
    BY <1>1, <2>1
  <2>3. c.script = v
    BY <1>4 DEF Routed, Instances
  <2> HIDE DEF c, v
  <2>4. \A i \in DOMAIN v : i = 1 \/ i \in 2 .. Len(u) + 1
    BY <1>1, <2>2
  <2>5. \A i \in DOMAIN v : v[i] = "return" <=> i = Len(v)
    <3>1. \A g \in DOMAIN u : u[g] = "return" <=> g = Len(u)
      BY DEF Whole
    <3>2. ASSUME NEW i \in 2 .. Len(u) + 1 PROVE v[i] = "return" <=> i = Len(v)
      <4>1. i - 1 \in DOMAIN u /\ v[i] = u[i - 1] /\ Len(v) = Len(u) + 1
        BY <2>2
      <4>2. i - 1 = Len(u) <=> i = Len(u) + 1
        BY <1>1
      <4> QED  BY <3>1, <4>1, <4>2
    <3>3. v[1] # "return" /\ 1 # Len(v)
      BY <1>1, <2>2
    <3> QED  BY <2>4, <3>2, <3>3
  <2>6. ASSUME NEW i \in DOMAIN v, v[i] = "borrow"
        PROVE  /\ \E h \in 1 .. i - 1 : v[h] = "set"
               /\ \A h \in 1 .. i - 1 : v[h] # "borrow"
    <3>1. i \in 2 .. Len(u) + 1 /\ u[i - 1] = "borrow"
      BY <2>2, <2>4, <2>6
    <3>2. \A g \in 1 .. i - 1 - 1 : u[g] # "borrow"
      BY <2>2, <3>1 DEF Whole
    <3>3. \A h \in 2 .. i - 1 : v[h] # "borrow"
      BY <1>1, <2>2, <3>1, <3>2
    <3> QED  BY <2>2, <3>1, <3>3
  <2>7. \A i \in DOMAIN v : v[i] = "await" => home \in Loops
    BY <2>2, <2>4
  <2>8. v # <<>>
    BY <1>1, <2>2
  <2>9. via \in {"direct", "01", "02"}
    BY DEF Instances
  <2>10. \A i \in DOMAIN c.script :
           /\ c.script[i] = "return" <=> i = Len(c.script)
           /\ c.script[i] = "set" => c.via \in Instances
           /\ c.script[i] = "borrow" /\ c.via \in Instances
                => \E h \in 1 .. i - 1 : c.script[h] = "set"
           /\ c.script[i] = "await" => c.home \in Loops
           /\ c.script[i] = "borrow"
                => \A h \in 1 .. i - 1 : c.script[h] # "borrow"
    BY <1>2, <1>4, <2>3, <2>5, <2>6, <2>7
  <2>11. Fitting(c)
    BY <1>2, <2>2, <2>3, <2>8, <2>9, <2>10 DEF Fitting
  <2> QED  BY <2>11 DEF c
<1> QED  BY <1>3, <1>4

\* The scripts of the five async tools, with all of their options.
LEMMA AsyncScriptsWhole == AsyncScripts \subseteq Whole
<1> DEFINE maybe(b) == When(b, <<"read">>)
<1>1. \A b : maybe(b) \in Seq({"await", "read"})
  <2>1. <<"read">> \in Seq({"await", "read"}) /\ <<>> \in Seq({"await", "read"})
    OBVIOUS
  <2>2. \A b : maybe(b) = <<"read">> \/ maybe(b) = <<>>
    BY DEF When
  <2> QED  BY <2>1, <2>2
<1>2. <<"await">> \in Seq({"await", "read"})
  OBVIOUS
<1> HIDE DEF maybe
<1>3. ASSUME NEW attributes \in BOOLEAN PROVE DataModelAsync(attributes) \in Whole
  <2> DEFINE s == <<"await", "borrow", "await", "read", "read", "await">>
             t == <<"await", "read", "await", "read", "await", "read", "await", "return">>
  <2>1. s \in Begun
    BY DEF Begun
  <2>2. t \in Closing
    BY DEF Closing
  <2>3. DataModelAsync(attributes) = (s \o maybe(attributes)) \o t
    BY DEF DataModelAsync, maybe
  <2> HIDE DEF s, t
  <2> QED  BY <1>1, <2>1, <2>2, <2>3, BegunLonger, BegunCloses
<1>4. IndexesAsync \in Whole
  BY DEF IndexesAsync, Whole
<1>5. CheckBloatAsync \in Whole /\ PartitioningAsync \in Whole
  BY DEF CheckBloatAsync, PartitioningAsync, Whole
<1>6. ASSUME NEW active \in BOOLEAN, NEW idle \in BOOLEAN, NEW locked \in BOOLEAN
      PROVE  SessionsAsync(active, idle, locked) \in Whole
  <2> DEFINE s == <<"await", "borrow", "read", "await">>
             t == <<"await", "return">>
             s1 == s \o maybe(active)
             s2 == s1 \o <<"await">>
             s3 == s2 \o maybe(idle)
             s4 == s3 \o <<"await">>
             s5 == s4 \o maybe(locked)
  <2>1. s \in Begun
    BY DEF Begun
  <2>2. t \in Closing
    BY DEF Closing
  <2>3. SessionsAsync(active, idle, locked) = s5 \o t
    BY DEF SessionsAsync, maybe
  <2> HIDE DEF s, t
  <2>4. s1 \in Begun
    BY <1>1, <2>1, BegunLonger
  <2> HIDE DEF s1
  <2>5. s2 \in Begun
    BY <1>2, <2>4, BegunLonger
  <2> HIDE DEF s2
  <2>6. s3 \in Begun
    BY <1>1, <2>5, BegunLonger
  <2> HIDE DEF s3
  <2>7. s4 \in Begun
    BY <1>2, <2>6, BegunLonger
  <2> HIDE DEF s4
  <2>8. s5 \in Begun
    BY <1>1, <2>7, BegunLonger
  <2> HIDE DEF s5
  <2> QED  BY <2>2, <2>3, <2>8, BegunCloses
<1> QED  BY <1>3, <1>4, <1>5, <1>6 DEF AsyncScripts

\* What EventLoop assumes of calls is so for every async tool, whatever parts of
\* its analysis were asked for, for every endpoint and for every synchronous tool,
\* under its own name and under both aliases.
THEOREM ServerCallsFit == \A c \in ServerCalls : Fitting(c)
<1>1. Straight \in Whole /\ \A i \in DOMAIN Straight : Straight[i] # "await"
  BY DEF Straight, Whole
<1>2. ASSUME NEW home \in Loops, NEW via \in {"direct"} \cup Instances,
             NEW script \in AsyncScripts
      PROVE  Fitting(Routed(home, via, script))
  BY AsyncScriptsWhole, WholeFits
<1>3. ASSUME NEW via \in {"direct"} \cup Instances, NEW home \in {"thread"} \cup Loops
      PROVE  Fitting(Routed(home, via, Straight))
  BY <1>1, WholeFits
<1>4. ASSUME NEW c \in ServerCalls PROVE Fitting(c)
  <2>1. CASE \E home \in Loops, via \in {"direct"} \cup Instances, script \in AsyncScripts :
               c = Routed(home, via, script)
    BY <1>2, <2>1
  <2>2. CASE \E via \in Instances : c = Routed("page", via, Straight)
    BY <1>3, <2>2 DEF Loops
  <2>3. CASE \E via \in {"direct"} \cup Instances : c = Routed("thread", via, Straight)
    BY <1>3, <2>3
  <2> QED  BY <2>1, <2>2, <2>3 DEF ServerCalls
<1> QED  BY <1>4

-------------------------------------------------------------------------------
(* Scripts *)

\* A script is not empty and goes on behind everything but "return".
LEMMA ScriptShape ==
  ASSUME NEW c \in Calls
  PROVE  /\ Len(c.script) \in Nat \ {0}
         /\ DOMAIN c.script = 1 .. Len(c.script)
         /\ \A n \in DOMAIN c.script :
               /\ n \in Nat \ {0}
               /\ c.script[n] # "return" => n + 1 \in DOMAIN c.script
<1>1. /\ c.script \in Seq({"set", "await", "borrow", "read", "return"}) /\ c.script # <<>>
      /\ \A i \in DOMAIN c.script : c.script[i] = "return" <=> i = Len(c.script)
  BY LoopAssumption DEF Fitting
<1>2. Len(c.script) \in Nat \ {0} /\ DOMAIN c.script = 1 .. Len(c.script)
  BY <1>1
<1> QED  BY <1>1, <1>2

\* At "borrow" the context variable names the instance the job is for, and the
\* job has no connection yet.
LEMMA AtBorrow ==
  ASSUME JobsOK, NEW j \in Jobs, JobInv(j), Here(j) = "borrow"
  PROVE  /\ context[j] = Wanted(j)
         /\ ~ Passed(j, "borrow")
         /\ holds[j] = "none"
<1> DEFINE c == call[j]
<1>1. c \in Calls /\ step[j] \in DOMAIN c.script /\ c.script[step[j]] = "borrow"
  BY DEF JobsOK, Here
<1>2. /\ c.via \in {"direct", "01", "02"}
      /\ c.via \in Instances => \E h \in 1 .. step[j] - 1 : c.script[h] = "set"
      /\ \A h \in 1 .. step[j] - 1 : c.script[h] # "borrow"
      /\ \A i \in DOMAIN c.script : c.script[i] = "set" => c.via \in Instances
  BY <1>1, LoopAssumption DEF Fitting
<1>3. \A h \in 1 .. step[j] - 1 : h \in DOMAIN c.script
  BY <1>1, ScriptShape
<1>4. ~ Passed(j, "borrow") /\ holds[j] = "none"
  BY <1>2 DEF Passed, JobInv
<1>5. CASE c.via = "direct"
  BY <1>2, <1>3, <1>5 DEF Passed, JobInv, Wanted, Instances
<1>6. CASE c.via \in Instances
  BY <1>2, <1>6 DEF Passed, JobInv, Wanted, Instances
<1> QED  BY <1>2, <1>4, <1>5, <1>6 DEF Instances

\* What is behind a job after one step more.
LEMMA MovingOn ==
  ASSUME JobsOK, NEW j \in Jobs, call'[j] = call[j], step'[j] = step[j] + 1
  PROVE  \A what : Passed(j, what)' <=> Passed(j, what) \/ Here(j) = what
<1>1. step[j] \in Nat \ {0}
  BY ScriptShape DEF JobsOK
<1>2. 1 .. step'[j] - 1 = (1 .. step[j] - 1) \cup {step[j]}
  BY <1>1
<1> QED  BY <1>2 DEF Passed, Here

\* A job whose step and script stay has the same place in it.
LEMMA StayingPut ==
  ASSUME NEW j \in Jobs, call'[j] = call[j], step'[j] = step[j]
  PROVE  /\ \A what : Passed(j, what)' <=> Passed(j, what)
         /\ Here(j)' = Here(j)
         /\ Wanted(j)' = Wanted(j)
BY DEF Passed, Here, Wanted

\* A call that has not begun.
LEMMA AtStart ==
  ASSUME NEW j \in Jobs, step[j] = 1
  PROVE  \A what : ~ Passed(j, what)
BY DEF Passed

\* A job nothing happens to.
LEMMA JobStays ==
  ASSUME NEW j \in Jobs, JobInv(j), setup' = setup,
         call'[j] = call[j], step'[j] = step[j], pc'[j] = pc[j],
         context'[j] = context[j], holds'[j] = holds[j],
         \A l \in Loops : loop'[l] = j <=> loop[l] = j
  PROVE  JobInv(j)'
BY StayingPut DEF JobInv, Configured, LoopOf, setup

\* A coroutine has a loop and a thread has none, whatever the transport.
LEMMA Homes ==
  ASSUME NEW j \in Jobs
  PROVE  /\ call[j].home \in Loops => LoopOf(j) \in Loops
         /\ LoopOf(j) \in Loops => call[j].home # "thread"
         /\ call'[j] = call[j] /\ setup' = setup => LoopOf(j)' = LoopOf(j)
BY DEF LoopOf, Loops, setup

\* Who has connections of an instance is a matter of `holds` alone.
LEMMA SameHolders ==
  ASSUME holds' = holds
  PROVE  \A i : Holders(i)' = Holders(i)
BY DEF Holders

\* A step that leaves the lines and the connections alone.
LEMMA PoolStays ==
  ASSUME LineInv, PoolInv, UNCHANGED <<setup, queue, holds>>,
         \A i \in Instances : \A n \in DOMAIN queue[i] :
             /\ pc'[queue[i][n]] = pc[queue[i][n]]
             /\ context'[queue[i][n]] = context[queue[i][n]]
  PROVE  LineInv' /\ PoolInv'
<1>1. LineInv'
  BY DEF LineInv, Configured, setup
<1>2. PoolInv'
  BY SameHolders DEF PoolInv
<1> QED  BY <1>1, <1>2

\* Who is in a line is a job, and waits.
LEMMA InLine ==
  ASSUME JobsOK, LineInv, NEW i \in Instances, NEW n \in DOMAIN queue[i]
  PROVE  queue[i][n] \in Jobs /\ pc[queue[i][n]] = "waiting"
BY DEF JobsOK, LineInv

-------------------------------------------------------------------------------
(* Steps of a job that leave the pools alone *)

\* Before the first job nobody waits and nobody has anything.
LEMMA InitialState == Init => IInv
<1> SUFFICES ASSUME Init PROVE IInv
  OBVIOUS
<1>1. NoCall \in Calls
  BY LoopAssumption DEF NoCall
<1>2. JobsOK
  <2>1. 1 \in DOMAIN NoCall.script
    BY <1>1, ScriptShape
  <2> QED  BY <1>1, <2>1 DEF Init, JobsOK, Instances
<1>3. ASSUME NEW j \in Jobs
      PROVE  JobInv(j)
  BY AtStart, LoopAssumption DEF Init, JobInv
<1>4. LineInv
  BY DEF Init, LineInv
<1>5. \A i \in Instances : Holders(i) = {}
  BY DEF Init, Holders, Instances
<1>6. PoolInv
  <2>1. \A i \in Instances : IsFiniteSet(Holders(i)) /\ Cardinality(Holders(i)) = 0
    BY <1>5, FS_EmptySet
  <2>2. \A i \in Instances : queue[i] = <<>>
    BY DEF Init
  <2>3. 0 <= PoolSize
    BY LoopAssumption
  <2> QED  BY <2>1, <2>2, <2>3 DEF PoolInv
<1> QED  BY <1>2, <1>3, <1>4, <1>6 DEF IInv

\* A tool call or a request comes: a thread starts, a coroutine waits for the loop.
LEMMA ArriveKeeps ==
  ASSUME IInv, NEW j \in Jobs, Arrive(j)
  PROVE  IInv'
<1>1. PICK c \in Calls :
        /\ call' = [call EXCEPT ![j] = c]
        /\ pc' = [pc EXCEPT ![j] = IF c.home \in Loops THEN "suspended" ELSE "running"]
  BY DEF Arrive
<1>2. /\ pc[j] = "idle" /\ step[j] = 1
      /\ UNCHANGED <<setup, step, context, holds, queue, loop>>
  BY DEF Arrive, IInv, JobInv
<1>3. /\ call'[j] = c /\ pc'[j] = IF c.home \in Loops THEN "suspended" ELSE "running"
      /\ \A k \in Jobs \ {j} : call'[k] = call[k] /\ pc'[k] = pc[k]
  BY <1>1 DEF IInv, JobsOK
<1>4. JobsOK'
  <2>1. 1 \in DOMAIN c.script
    BY ScriptShape
  <2>2. \A k \in Jobs : step'[k] \in DOMAIN call'[k].script
    BY <1>2, <1>3, <2>1 DEF IInv, JobsOK
  <2> QED  BY <1>1, <1>2, <2>2 DEF IInv, JobsOK
<1>5. ASSUME NEW k \in Jobs
      PROVE  JobInv(k)'
  <2>1. CASE k = j
    <3>1. \A what : ~ Passed(j, what) /\ ~ Passed(j, what)'
      BY <1>2, AtStart DEF Passed
    <3>2. holds[j] = "none" /\ context[j] = "01" /\ \A l \in Loops : loop[l] # j
      BY <1>2, <3>1 DEF IInv, JobInv
    <3>3. c.home \notin Loops => \A l \in Loops : LoopOf(j)' # l
      BY <1>3, LoopAssumption DEF LoopOf, Loops, Fitting
    <3> QED  BY <1>2, <1>3, <2>1, <3>1, <3>2, <3>3 DEF JobInv
  <2>2. CASE k # j
    BY <1>2, <1>3, <2>2, JobStays DEF IInv
  <2> QED  BY <2>1, <2>2
<1>6. LineInv' /\ PoolInv'
  BY <1>2, <1>3, InLine, PoolStays DEF IInv
<1> QED  BY <1>4, <1>5, <1>6 DEF IInv

\* The loop, free, runs a coroutine.
LEMMA ResumeKeeps ==
  ASSUME IInv, NEW j \in Jobs, Resume(j)
  PROVE  IInv'
<1>1. /\ loop[LoopOf(j)] = Nobody /\ pc[j] = "suspended"
      /\ loop' = [loop EXCEPT ![LoopOf(j)] = j]
      /\ pc' = [pc EXCEPT ![j] = "running"]
      /\ UNCHANGED <<setup, call, step, context, holds, queue>>
  BY DEF Resume, jobVars
<1>2. pc'[j] = "running" /\ \A k \in Jobs \ {j} : pc'[k] = pc[k]
  BY <1>1 DEF IInv, JobsOK
<1>3. /\ LoopOf(j) \in Loops /\ loop'[LoopOf(j)] = j
      /\ \A l \in Loops \ {LoopOf(j)} : loop'[l] = loop[l]
  BY <1>1, Homes DEF IInv, JobsOK, JobInv
<1>4. JobsOK'
  BY <1>1, <1>3 DEF IInv, JobsOK
<1>5. ASSUME NEW k \in Jobs
      PROVE  JobInv(k)'
  <2>1. CASE k = j
    <3>1. \A l \in Loops : loop[l] # j
      BY <1>1 DEF IInv, JobInv
    <3>2. LoopOf(j)' = LoopOf(j)
      BY <1>1, Homes
    <3> QED  BY <1>1, <1>2, <1>3, <2>1, <3>1, <3>2, StayingPut
             DEF IInv, JobInv, Configured, setup
  <2>2. CASE k # j
    <3>1. \A l \in Loops : loop'[l] = k <=> loop[l] = k
      BY <1>1, <1>3, <2>2, LoopAssumption
    <3> QED  BY <1>1, <1>2, <2>2, <3>1, JobStays DEF IInv
  <2> QED  BY <2>1, <2>2
<1>6. LineInv' /\ PoolInv'
  BY <1>1, <1>2, InLine, PoolStays DEF IInv
<1> QED  BY <1>4, <1>5, <1>6 DEF IInv

\* A running job that goes to its next step.
LEMMA ProceedTyped ==
  ASSUME JobsOK, NEW j \in Jobs, Proceed(j), Here(j) # "return", call' = call
  PROVE  /\ step' \in [Jobs -> Nat]
         /\ \A k \in Jobs : step'[k] \in DOMAIN call'[k].script
         /\ step'[j] = step[j] + 1
         /\ \A k \in Jobs \ {j} : step'[k] = step[k]
<1>1. step'[j] = step[j] + 1 /\ \A k \in Jobs \ {j} : step'[k] = step[k]
  BY DEF Proceed, JobsOK
<1>2. step[j] + 1 \in DOMAIN call[j].script
  BY ScriptShape DEF JobsOK, Here
<1>3. step' \in [Jobs -> Nat]
  BY DEF Proceed, JobsOK
<1> QED  BY <1>1, <1>2, <1>3 DEF JobsOK

\* An await gives the loop back.
LEMMA SuspendKeeps ==
  ASSUME IInv, NEW j \in Jobs, Suspend(j)
  PROVE  IInv'
<1>1. /\ pc[j] = "running" /\ Here(j) = "await" /\ loop' = [loop EXCEPT ![LoopOf(j)] = Nobody]
      /\ pc' = [pc EXCEPT ![j] = "suspended"] /\ Proceed(j)
      /\ UNCHANGED <<setup, call, context, holds, queue>>
  BY DEF Suspend, At, Here
<1>2. pc'[j] = "suspended" /\ \A k \in Jobs \ {j} : pc'[k] = pc[k]
  BY <1>1 DEF IInv, JobsOK
<1>3. /\ call[j].home \in Loops /\ LoopOf(j) \in Loops
      /\ loop[LoopOf(j)] = j /\ loop'[LoopOf(j)] = Nobody
      /\ \A l \in Loops \ {LoopOf(j)} : loop'[l] = loop[l] /\ loop[l] # j
  <2>1. call[j].home \in Loops
    BY <1>1, LoopAssumption DEF Fitting, IInv, JobsOK, Here
  <2>2. LoopOf(j) \in Loops
    BY <2>1, Homes
  <2>3. loop[LoopOf(j)] = j /\ \A l \in Loops \ {LoopOf(j)} : loop[l] # j
    BY <1>1, <2>2 DEF IInv, JobInv
  <2> QED  BY <1>1, <2>1, <2>2, <2>3 DEF IInv, JobsOK
<1>4. /\ step' \in [Jobs -> Nat] /\ step'[j] = step[j] + 1
      /\ \A k \in Jobs : step'[k] \in DOMAIN call'[k].script
      /\ \A k \in Jobs \ {j} : step'[k] = step[k]
  BY <1>1, ProceedTyped DEF IInv
<1>5. JobsOK'
  BY <1>1, <1>3, <1>4 DEF IInv, JobsOK
<1>6. ASSUME NEW k \in Jobs
      PROVE  JobInv(k)'
  <2>1. CASE k = j
    <3>1. \A what : what # "await" => (Passed(j, what)' <=> Passed(j, what))
      BY <1>1, <1>4, MovingOn DEF IInv
    <3>2. Wanted(j)' = Wanted(j) /\ \A l \in Loops : loop'[l] # j
      BY <1>1, <1>3, LoopAssumption DEF Wanted
    <3> QED  BY <1>1, <1>2, <1>3, <2>1, <3>1, <3>2 DEF IInv, JobInv, Configured, setup
  <2>2. CASE k # j
    <3>1. \A l \in Loops : loop'[l] = k <=> loop[l] = k
      BY <1>3, <2>2, LoopAssumption
    <3> QED  BY <1>1, <1>2, <1>4, <2>2, <3>1, JobStays DEF IInv
  <2> QED  BY <2>1, <2>2
<1>7. LineInv' /\ PoolInv'
  BY <1>1, <1>2, InLine, PoolStays DEF IInv
<1> QED  BY <1>5, <1>6, <1>7 DEF IInv

\* An alias sets the instance in its own context.
LEMMA SetKeeps ==
  ASSUME IInv, NEW j \in Jobs, SetInstance(j)
  PROVE  IInv'
<1>1. /\ pc[j] = "running" /\ Here(j) = "set" /\ Proceed(j)
      /\ context' = [context EXCEPT ![j] = call[j].via]
      /\ UNCHANGED <<setup, call, pc, holds, queue, loop>>
  BY DEF SetInstance, At, Here
<1>2. call[j].via \in Instances
  BY <1>1, LoopAssumption DEF Fitting, IInv, JobsOK, Here
<1>3. context'[j] = call[j].via /\ \A k \in Jobs \ {j} : context'[k] = context[k]
  BY <1>1 DEF IInv, JobsOK
<1>4. /\ step' \in [Jobs -> Nat] /\ step'[j] = step[j] + 1
      /\ \A k \in Jobs : step'[k] \in DOMAIN call'[k].script
      /\ \A k \in Jobs \ {j} : step'[k] = step[k]
  BY <1>1, ProceedTyped DEF IInv
<1>5. JobsOK'
  BY <1>1, <1>2, <1>4 DEF IInv, JobsOK
<1>6. ASSUME NEW k \in Jobs
      PROVE  JobInv(k)'
  <2>1. CASE k = j
    <3>1. /\ Passed(j, "set")'
          /\ Passed(j, "borrow")' <=> Passed(j, "borrow")
      BY <1>1, <1>4, MovingOn DEF IInv
    <3>2. Wanted(j)' = Wanted(j) /\ LoopOf(j)' = LoopOf(j)
      BY <1>1, Homes DEF Wanted
    <3> QED  BY <1>1, <1>3, <2>1, <3>1, <3>2 DEF IInv, JobInv, Configured, setup
  <2>2. CASE k # j
    BY <1>1, <1>3, <1>4, <2>2, JobStays DEF IInv
  <2> QED  BY <2>1, <2>2
<1>7. LineInv' /\ PoolInv'
  BY <1>1, <1>3, InLine, PoolStays DEF IInv
<1> QED  BY <1>5, <1>6, <1>7 DEF IInv

\* A statement changes nothing but the place in the script.
LEMMA ReadKeeps ==
  ASSUME IInv, NEW j \in Jobs, Read(j)
  PROVE  IInv'
<1>1. /\ pc[j] = "running" /\ Here(j) = "read" /\ Proceed(j)
      /\ UNCHANGED <<setup, call, context, pc, holds, queue, loop>>
  BY DEF Read, At, Here
<1>2. /\ step' \in [Jobs -> Nat] /\ step'[j] = step[j] + 1
      /\ \A k \in Jobs : step'[k] \in DOMAIN call'[k].script
      /\ \A k \in Jobs \ {j} : step'[k] = step[k]
  BY <1>1, ProceedTyped DEF IInv
<1>3. JobsOK'
  BY <1>1, <1>2 DEF IInv, JobsOK
<1>4. ASSUME NEW k \in Jobs
      PROVE  JobInv(k)'
  <2>1. CASE k = j
    <3>1. \A what : what # "read" => (Passed(j, what)' <=> Passed(j, what))
      BY <1>1, <1>2, MovingOn DEF IInv
    <3>2. Wanted(j)' = Wanted(j) /\ LoopOf(j)' = LoopOf(j)
      BY <1>1, Homes DEF Wanted
    <3> QED  BY <1>1, <2>1, <3>1, <3>2 DEF IInv, JobInv, Configured, setup
  <2>2. CASE k # j
    BY <1>1, <1>2, <2>2, JobStays DEF IInv
  <2> QED  BY <2>1, <2>2
<1>5. LineInv' /\ PoolInv'
  BY <1>1, PoolStays DEF IInv
<1> QED  BY <1>3, <1>4, <1>5 DEF IInv

-------------------------------------------------------------------------------
(* Connections *)

\* A connection that is left goes to a job whose context names its instance.
LEMMA BorrowKeeps ==
  ASSUME IInv, NEW j \in Jobs, Borrow(j)
  PROVE  IInv'
<1>0. PICK i \in Instances : i = Target(j)
  BY DEF IInv, JobsOK, Target
<1>1. /\ pc[j] = "running" /\ Here(j) = "borrow" /\ Proceed(j)
      /\ Configured(i) /\ Cardinality(Holders(i)) < PoolSize
      /\ holds' = [holds EXCEPT ![j] = i]
      /\ UNCHANGED <<setup, call, context, pc, queue, loop>>
  BY <1>0 DEF Borrow, At, Here, Available
<1>2. i = Wanted(j) /\ holds[j] = "none"
  BY <1>0, <1>1, AtBorrow DEF IInv, Target, JobsOK
<1>3. holds'[j] = i /\ \A k \in Jobs \ {j} : holds'[k] = holds[k]
  BY <1>1 DEF IInv, JobsOK
<1>4. /\ step' \in [Jobs -> Nat] /\ step'[j] = step[j] + 1
      /\ \A k \in Jobs : step'[k] \in DOMAIN call'[k].script
      /\ \A k \in Jobs \ {j} : step'[k] = step[k]
  BY <1>1, ProceedTyped DEF IInv
<1>5. JobsOK'
  BY <1>1, <1>2, <1>4 DEF IInv, JobsOK
<1>6. ASSUME NEW k \in Jobs
      PROVE  JobInv(k)'
  <2>1. CASE k = j
    <3>1. /\ Passed(j, "borrow")'
          /\ Passed(j, "set")' <=> Passed(j, "set")
      BY <1>1, <1>4, MovingOn DEF IInv
    <3>2. Wanted(j)' = Wanted(j) /\ LoopOf(j)' = LoopOf(j)
      BY <1>1, Homes DEF Wanted
    <3> QED  BY <1>1, <1>2, <1>3, <2>1, <3>1, <3>2 DEF IInv, JobInv, Configured, setup
  <2>2. CASE k # j
    BY <1>1, <1>3, <1>4, <2>2, JobStays DEF IInv
  <2> QED  BY <2>1, <2>2
<1>7. LineInv'
  BY <1>1 DEF IInv, LineInv, Configured, setup
<1>8. PoolInv'
  <2>1. Holders(i)' = Holders(i) \cup {j} /\ j \notin Holders(i)
    BY <1>2, <1>3 DEF Holders, Instances
  <2>2. \A l \in Instances \ {i} : Holders(l)' = Holders(l)
    BY <1>2, <1>3 DEF Holders, Instances
  <2>3. IsFiniteSet(Holders(i)) /\ Cardinality(Holders(i)) \in Nat
    BY <1>2, FS_CardinalityType DEF IInv, PoolInv
  <2>4. IsFiniteSet(Holders(i)') /\ Cardinality(Holders(i)') = Cardinality(Holders(i)) + 1
    BY <2>1, <2>3, FS_AddElement
  <2>5. queue[i] = <<>>
    BY <1>1, <1>2, <2>3, LoopAssumption DEF IInv, PoolInv
  <2>6. Cardinality(Holders(i)') <= PoolSize
    BY <1>1, <2>3, <2>4, LoopAssumption
  <2> QED  BY <1>1, <2>2, <2>4, <2>5, <2>6 DEF IInv, PoolInv
<1> QED  BY <1>5, <1>6, <1>7, <1>8 DEF IInv

\* The end of the line is for a job of that instance; the loop stays with it.
LEMMA WaitKeeps ==
  ASSUME IInv, NEW j \in Jobs, Wait(j)
  PROVE  IInv'
<1>0. PICK i \in Instances : i = Target(j)
  BY DEF IInv, JobsOK, Target
<1>1. /\ pc[j] = "running" /\ Here(j) = "borrow"
      /\ Configured(i) /\ ~ (Cardinality(Holders(i)) < PoolSize)
      /\ queue' = [queue EXCEPT ![i] = Append(@, j)]
      /\ pc' = [pc EXCEPT ![j] = "waiting"]
      /\ UNCHANGED <<setup, call, step, context, holds, loop>>
  BY <1>0 DEF Wait, At, Here, Available, jobVars
<1>2. i = context[j]
  BY <1>0 DEF Target
<1>3. pc'[j] = "waiting" /\ \A k \in Jobs \ {j} : pc'[k] = pc[k]
  BY <1>1 DEF IInv, JobsOK
<1>4. /\ queue[i] \in Seq(Jobs) /\ queue'[i] = Append(queue[i], j)
      /\ \A l \in Instances \ {i} : queue'[l] = queue[l]
  BY <1>1, <1>2 DEF IInv, JobsOK
<1>5. Append(queue[i], j) \in Seq(Jobs)
  BY <1>4
<1>6. JobsOK'
  BY <1>1, <1>2, <1>5 DEF IInv, JobsOK
<1>7. ASSUME NEW k \in Jobs
      PROVE  JobInv(k)'
  <2>1. CASE k = j
    BY <1>1, <1>3, <2>1, StayingPut, Homes DEF IInv, JobInv, Configured, setup
  <2>2. CASE k # j
    BY <1>1, <1>3, <2>2, JobStays DEF IInv
  <2> QED  BY <2>1, <2>2
<1>8. LineInv'
  <2> DEFINE q == queue[i]
             r == queue'[i]
  <2>1. /\ Len(q) \in Nat /\ DOMAIN q = 1 .. Len(q) /\ DOMAIN r = 1 .. Len(q) + 1
        /\ \A n \in 1 .. Len(q) : r[n] = q[n]
        /\ r[Len(q) + 1] = j
    BY <1>4
  <2>2. \A n \in 1 .. Len(q) : q[n] \in Jobs \ {j} /\ pc[q[n]] = "waiting" /\ context[q[n]] = i
    BY <1>1, <1>2, <2>1, InLine DEF IInv, LineInv
  <2>3. \A m, n \in 1 .. Len(q) : q[m] = q[n] => m = n
    BY <1>2, <2>1 DEF IInv, LineInv
  <2> HIDE DEF q, r
  <2>4. \A n \in DOMAIN r : pc'[r[n]] = "waiting" /\ context'[r[n]] = i
    BY <1>1, <1>2, <1>3, <2>1, <2>2
  <2>5. \A m, n \in DOMAIN r : r[m] = r[n] => m = n
    BY <2>1, <2>2, <2>3
  <2>6. \A l \in Instances \ {i} : \A n \in DOMAIN queue[l] :
          queue[l][n] \in Jobs \ {j} /\ pc'[queue[l][n]] = "waiting"
    BY <1>1, <1>3, InLine DEF IInv
  <2>7. \A l \in Instances \ {i} :
          /\ \A n \in DOMAIN queue'[l] :
                pc'[queue'[l][n]] = "waiting" /\ context'[queue'[l][n]] = l /\ Configured(l)'
          /\ \A m, n \in DOMAIN queue'[l] : queue'[l][m] = queue'[l][n] => m = n
    BY <1>1, <1>4, <2>6 DEF IInv, LineInv, Configured, setup
  <2>8. /\ \A n \in DOMAIN queue'[i] :
                pc'[queue'[i][n]] = "waiting" /\ context'[queue'[i][n]] = i /\ Configured(i)'
        /\ \A m, n \in DOMAIN queue'[i] : queue'[i][m] = queue'[i][n] => m = n
    BY <1>1, <2>4, <2>5 DEF Configured, setup, r
  <2> QED  BY <2>7, <2>8 DEF LineInv
<1>9. PoolInv'
  <2>1. \A l \in Instances : Holders(l)' = Holders(l)
    BY <1>1, SameHolders
  <2>2. /\ Cardinality(Holders(i)) \in Nat /\ Cardinality(Holders(i)) <= PoolSize
    BY <1>2, FS_CardinalityType DEF IInv, PoolInv
  <2>3. Cardinality(Holders(i)) = PoolSize
    BY <1>1, <2>2, LoopAssumption
  <2> QED  BY <1>4, <2>1, <2>3 DEF IInv, PoolInv
<1> QED  BY <1>6, <1>7, <1>8, <1>9 DEF IInv

-------------------------------------------------------------------------------
(* The ends of a job *)

\* A job that is over has nothing, and its invariant holds.
LEMMA Ended ==
  ASSUME JobsOK, NEW j \in Jobs, Over(j), pc'[j] = "idle", step'[j] = 1, holds'[j] = "none"
  PROVE  /\ call' \in [Jobs -> Calls] /\ context' \in [Jobs -> Instances]
         /\ loop' \in [Loops -> Jobs \cup {Nobody}]
         /\ 1 \in DOMAIN call'[j].script
         /\ \A k \in Jobs \ {j} : /\ call'[k] = call[k] /\ context'[k] = context[k]
                                  /\ \A l \in Loops : loop'[l] = k <=> loop[l] = k
         /\ JobInv(j)'
<1>1. NoCall \in Calls
  BY LoopAssumption DEF NoCall
<1>2. /\ call' = [call EXCEPT ![j] = NoCall] /\ context' = [context EXCEPT ![j] = "01"]
      /\ loop' = [l \in Loops |-> IF loop[l] = j THEN Nobody ELSE loop[l]]
  BY DEF Over
<1>3. /\ call' \in [Jobs -> Calls] /\ context' \in [Jobs -> Instances]
      /\ loop' \in [Loops -> Jobs \cup {Nobody}] /\ \A l \in Loops : loop'[l] # j
      /\ call'[j] = NoCall /\ context'[j] = "01"
  BY <1>1, <1>2, LoopAssumption DEF JobsOK, Instances
<1>4. 1 \in DOMAIN call'[j].script
  BY <1>1, <1>3, ScriptShape
<1>5. \A k \in Jobs \ {j} : /\ call'[k] = call[k] /\ context'[k] = context[k]
                            /\ \A l \in Loops : loop'[l] = k <=> loop[l] = k
  BY <1>2, LoopAssumption DEF JobsOK
<1>6. \A what : ~ Passed(j, what)'
  BY DEF Passed
<1>7. JobInv(j)'
  BY <1>3, <1>6 DEF JobInv
<1> QED  BY <1>3, <1>4, <1>5, <1>7

\* A wait that times out ends the job and closes its gap in the line.
LEMMA LeaveKeeps ==
  ASSUME IInv, NEW j \in Jobs, WaitTimesOut(j)
  PROVE  IInv'
<1>1. /\ pc[j] = "waiting" /\ pc' = [pc EXCEPT ![j] = "idle"]
      /\ step' = [step EXCEPT ![j] = 1] /\ Over(j) /\ UNCHANGED holds /\ setup' = setup
  BY DEF WaitTimesOut, StopsWaiting, Over
<1>2. PICK i \in Instances : \E m \in DOMAIN queue[i] :
        queue[i][m] = j /\ queue' = [queue EXCEPT ![i] = Without(@, m)]
  BY DEF WaitTimesOut, StopsWaiting, LeavesLine
<1>3. PICK n \in DOMAIN queue[i] :
        queue[i][n] = j /\ queue' = [queue EXCEPT ![i] = Without(@, n)]
  BY <1>2
<1>4. /\ pc'[j] = "idle" /\ step'[j] = 1
      /\ \A k \in Jobs \ {j} : pc'[k] = pc[k] /\ step'[k] = step[k]
  BY <1>1 DEF IInv, JobsOK
<1>5. holds[j] = "none"
  BY <1>1, AtBorrow DEF IInv, JobInv
<1>6. /\ call' \in [Jobs -> Calls] /\ context' \in [Jobs -> Instances]
      /\ loop' \in [Loops -> Jobs \cup {Nobody}]
      /\ 1 \in DOMAIN call'[j].script
      /\ \A k \in Jobs \ {j} : /\ call'[k] = call[k] /\ context'[k] = context[k]
                               /\ \A l \in Loops : loop'[l] = k <=> loop[l] = k
      /\ JobInv(j)'
  BY <1>1, <1>4, <1>5, Ended DEF IInv
<1> DEFINE q == queue[i]
           r == queue'[i]
           N == Len(q)
<1>7. /\ q \in Seq(Jobs) /\ N \in Nat /\ DOMAIN q = 1 .. N /\ n \in 1 .. N
      /\ \A m \in 1 .. N : q[m] \in Jobs
      /\ \A m, l \in 1 .. N : q[m] = q[l] => m = l
  <2>1. q \in Seq(Jobs)
    BY DEF IInv, JobsOK
  <2>2. \A m, l \in DOMAIN q : q[m] = q[l] => m = l
    BY DEF IInv, LineInv
  <2> QED  BY <2>1, <2>2
<1>8. /\ r = [m \in 1 .. N - 1 |-> IF m < n THEN q[m] ELSE q[m + 1]]
      /\ \A l \in Instances \ {i} : queue'[l] = queue[l]
  BY <1>3 DEF IInv, JobsOK, Without
<1> HIDE DEF N
<1>9. r \in Seq(Jobs) /\ DOMAIN r = 1 .. N - 1
  <2>1. r \in [1 .. N - 1 -> Jobs]
    BY <1>7, <1>8
  <2>2. N - 1 \in Nat
    BY <1>7
  <2> QED  BY <2>1, <2>2
<1>10. JobsOK'
  <2>1. queue' \in [Instances -> Seq(Jobs)]
    BY <1>3, <1>9 DEF IInv, JobsOK
  <2>2. /\ pc' \in [Jobs -> {"idle", "running", "waiting", "suspended"}]
        /\ step' \in [Jobs -> Nat] /\ holds' \in [Jobs -> Instances \cup {"none"}]
    BY <1>1 DEF IInv, JobsOK
  <2>3. \A k \in Jobs : step'[k] \in DOMAIN call'[k].script
    BY <1>4, <1>6 DEF IInv, JobsOK
  <2> QED  BY <1>6, <2>1, <2>2, <2>3 DEF JobsOK
<1>11. ASSUME NEW k \in Jobs
       PROVE  JobInv(k)'
  BY <1>1, <1>4, <1>6, JobStays DEF IInv
<1>12. \A m \in 1 .. N - 1 :
         LET l == IF m < n THEN m ELSE m + 1
         IN  l \in 1 .. N /\ l # n /\ r[m] = q[l]
  BY <1>7, <1>8
<1>13. LineInv'
  <2>1. \A l \in Instances : \A m \in DOMAIN queue[l] :
          ~ (l = i /\ m = n) => queue[l][m] \in Jobs \ {j}
    <3> SUFFICES ASSUME NEW l \in Instances, NEW m \in DOMAIN queue[l], queue[l][m] = j
                 PROVE  l = i /\ m = n
      BY InLine DEF IInv
    <3>1. context[j] = i /\ context[j] = l
      BY <1>3 DEF IInv, LineInv
    <3> QED  BY <1>3, <3>1 DEF IInv, LineInv
  <2>2. \A m \in DOMAIN r : r[m] \in Jobs \ {j} /\ pc[r[m]] = "waiting" /\ context[r[m]] = i
    BY <1>7, <1>9, <1>12, <2>1 DEF IInv, LineInv
  <2>3. \A m, l \in DOMAIN r : r[m] = r[l] => m = l
    <3> SUFFICES ASSUME NEW m \in 1 .. N - 1, NEW l \in 1 .. N - 1, r[m] = r[l]
                 PROVE  m = l
      BY <1>9
    <3>1. PICK x \in 1 .. N : x = (IF m < n THEN m ELSE m + 1) /\ r[m] = q[x]
      BY <1>12
    <3>2. PICK y \in 1 .. N : y = (IF l < n THEN l ELSE l + 1) /\ r[l] = q[y]
      BY <1>12
    <3>3. x = y
      BY <1>7, <3>1, <3>2
    <3> QED  BY <1>7, <3>1, <3>2, <3>3
  <2>4. /\ \A m \in DOMAIN queue'[i] :
              pc'[queue'[i][m]] = "waiting" /\ context'[queue'[i][m]] = i /\ Configured(i)'
        /\ \A m, l \in DOMAIN queue'[i] : queue'[i][m] = queue'[i][l] => m = l
    <3>1. Configured(i)
      BY <1>3 DEF IInv, LineInv
    <3> QED  BY <1>1, <1>4, <1>6, <2>2, <2>3, <3>1 DEF Configured, setup
  <2>5. \A l \in Instances \ {i} :
          /\ \A m \in DOMAIN queue'[l] :
                pc'[queue'[l][m]] = "waiting" /\ context'[queue'[l][m]] = l /\ Configured(l)'
          /\ \A m, o \in DOMAIN queue'[l] : queue'[l][m] = queue'[l][o] => m = o
    BY <1>1, <1>4, <1>6, <1>8, <2>1 DEF IInv, LineInv, Configured, setup
  <2> QED  BY <2>4, <2>5 DEF LineInv
<1>14. PoolInv'
  <2>1. \A l \in Instances : Holders(l)' = Holders(l)
    BY <1>1, SameHolders
  <2>2. q # <<>>
    BY <1>7
  <2> QED  BY <1>8, <2>1, <2>2 DEF IInv, PoolInv
<1> QED  BY <1>10, <1>11, <1>13, <1>14 DEF IInv

\* A connection that goes back to the pool, or a job that has none.
LEMMA ReturnKeeps ==
  ASSUME IInv, NEW j \in Jobs, pc[j] \in {"running", "suspended"}, Release(j),
         holds[j] # "none" => queue[holds[j]] = <<>>
  PROVE  IInv'
<1>1. /\ \A k \in Jobs : /\ holds'[k] = IF k = j THEN "none" ELSE holds[k]
                         /\ pc'[k] = IF k = j THEN "idle" ELSE pc[k]
                         /\ step'[k] = IF k = j THEN 1 ELSE step[k]
      /\ holds' \in [Jobs -> Instances \cup {"none"}]
      /\ pc' \in [Jobs -> {"idle", "running", "waiting", "suspended"}]
      /\ step' \in [Jobs -> Nat]
      /\ queue' = queue /\ Over(j) /\ setup' = setup
  BY DEF Release, Over, IInv, JobsOK
<1>2. /\ call' \in [Jobs -> Calls] /\ context' \in [Jobs -> Instances]
      /\ loop' \in [Loops -> Jobs \cup {Nobody}]
      /\ 1 \in DOMAIN call'[j].script
      /\ \A k \in Jobs \ {j} : /\ call'[k] = call[k] /\ context'[k] = context[k]
                               /\ \A l \in Loops : loop'[l] = k <=> loop[l] = k
      /\ JobInv(j)'
  BY <1>1, Ended DEF IInv
<1>3. JobsOK'
  <2>1. \A k \in Jobs : step'[k] \in DOMAIN call'[k].script
    BY <1>1, <1>2 DEF IInv, JobsOK
  <2> QED  BY <1>1, <1>2, <2>1 DEF IInv, JobsOK
<1>4. ASSUME NEW k \in Jobs
      PROVE  JobInv(k)'
  BY <1>1, <1>2, JobStays DEF IInv
<1>5. LineInv'
  <2>1. \A l \in Instances : \A n \in DOMAIN queue[l] : queue[l][n] \in Jobs \ {j}
    BY InLine DEF IInv
  <2>2. \A l \in Instances : Configured(l)' <=> Configured(l)
    BY <1>1 DEF Configured, setup
  <2>3. \A l \in Instances : \A n \in DOMAIN queue[l] :
          /\ pc'[queue[l][n]] = pc[queue[l][n]]
          /\ context'[queue[l][n]] = context[queue[l][n]]
    BY <1>1, <1>2, <2>1
  <2>4. queue' = queue
    BY <1>1
  <2>5. LineInv
    BY DEF IInv
  <2> QED  BY <2>2, <2>3, <2>4, <2>5 DEF LineInv
<1>6. PoolInv'
  <2> SUFFICES ASSUME NEW l \in Instances
               PROVE  /\ IsFiniteSet(Holders(l)')
                      /\ Cardinality(Holders(l)') <= PoolSize
                      /\ queue'[l] # <<>> => Cardinality(Holders(l)') = PoolSize
    BY DEF PoolInv
  <2>1. CASE holds[j] = l
    <3>1. Holders(l)' = Holders(l) \ {j} /\ j \in Holders(l)
      BY <1>1, <2>1 DEF Holders, Instances
    <3>2. IsFiniteSet(Holders(l)) /\ Cardinality(Holders(l)) <= PoolSize
      BY DEF IInv, PoolInv
    <3>3. /\ IsFiniteSet(Holders(l)') /\ Cardinality(Holders(l)') = Cardinality(Holders(l)) - 1
          /\ Cardinality(Holders(l)) \in Nat
      BY <3>1, <3>2, FS_RemoveElement, FS_CardinalityType
    <3>4. Cardinality(Holders(l)') <= PoolSize
      BY <3>2, <3>3, LoopAssumption
    <3>5. queue'[l] = <<>>
      BY <1>1, <2>1 DEF Instances
    <3> QED  BY <3>3, <3>4, <3>5
  <2>2. CASE holds[j] # l
    <3>1. Holders(l)' = Holders(l)
      BY <1>1, <2>2 DEF Holders, Instances
    <3> QED  BY <1>1, <3>1 DEF IInv, PoolInv
  <2> QED  BY <2>1, <2>2
<1> QED  BY <1>3, <1>4, <1>5, <1>6 DEF IInv

\* A connection that goes to the first in line.
LEMMA HandOverKeeps ==
  ASSUME IInv, NEW j \in Jobs, pc[j] \in {"running", "suspended"}, Release(j),
         NEW i \in Instances, holds[j] = i, queue[i] # <<>>
  PROVE  IInv'
<1> DEFINE q == queue[i]
           N == Len(q)
<1>1. /\ q \in Seq(Jobs) /\ N \in Nat \ {0} /\ DOMAIN q = 1 .. N
      /\ Head(q) = q[1] /\ Tail(q) \in Seq(Jobs) /\ DOMAIN Tail(q) = 1 .. N - 1
      /\ \A n \in 1 .. N - 1 : Tail(q)[n] = q[n + 1]
  <2>1. q \in Seq(Jobs) /\ q # <<>>
    BY DEF IInv, JobsOK
  <2> QED  BY <2>1
<1>2. PICK h \in Jobs : h = q[1]
  BY <1>1
<1>3. /\ h # j /\ pc[h] = "waiting" /\ context[h] = i /\ Configured(i)
      /\ \A n \in 2 .. N : q[n] # h
  <2>1. 1 \in DOMAIN queue[i]
    BY <1>1
  <2>2. pc[h] = "waiting" /\ context[h] = i /\ Configured(i)
    BY <1>2, <2>1 DEF IInv, LineInv
  <2>3. \A n \in 2 .. N : q[n] # h
    <3>1. \A m, n \in 1 .. N : q[m] = q[n] => m = n
      BY <1>1 DEF IInv, LineInv
    <3> QED  BY <1>1, <1>2, <3>1
  <2> QED  BY <2>2, <2>3
<1>4. Here(h) = "borrow" /\ i = Wanted(h) /\ ~ Passed(h, "borrow") /\ holds[h] = "none"
  <2>1. Here(h) = "borrow"
    BY <1>3 DEF IInv, JobInv
  <2> QED  BY <1>3, <2>1, AtBorrow DEF IInv
<1>5. /\ \A k \in Jobs :
            /\ holds'[k] = IF k = j THEN "none" ELSE IF k = h THEN i ELSE holds[k]
            /\ pc'[k] = IF k = j THEN "idle" ELSE IF k = h THEN "running" ELSE pc[k]
            /\ step'[k] = IF k = j THEN 1 ELSE IF k = h THEN step[k] + 1 ELSE step[k]
      /\ holds' \in [Jobs -> Instances \cup {"none"}]
      /\ pc' \in [Jobs -> {"idle", "running", "waiting", "suspended"}]
      /\ step' \in [Jobs -> Nat]
      /\ queue' = [queue EXCEPT ![i] = Tail(@)]
      /\ Over(j) /\ setup' = setup
  <2>1. i # "none" /\ Head(queue[i]) = h
    BY <1>1, <1>2 DEF Instances
  <2>2. /\ holds' = [k \in Jobs |-> IF k = j THEN "none" ELSE IF k = h THEN i ELSE holds[k]]
        /\ pc' = [k \in Jobs |-> IF k = j THEN "idle" ELSE IF k = h THEN "running" ELSE pc[k]]
        /\ step' = [k \in Jobs |-> IF k = j THEN 1 ELSE IF k = h THEN step[k] + 1 ELSE step[k]]
        /\ queue' = [queue EXCEPT ![i] = Tail(@)]
    BY <2>1 DEF Release
  <2>3. Over(j) /\ setup' = setup
    BY DEF Release, Over
  <2>4. h \in Jobs /\ i \in Instances
    BY <1>1, <1>2
  <2>5. holds' \in [Jobs -> Instances \cup {"none"}]
    BY <2>2, <2>4 DEF IInv, JobsOK
  <2>6. pc' \in [Jobs -> {"idle", "running", "waiting", "suspended"}]
    BY <2>2 DEF IInv, JobsOK
  <2>7. step' \in [Jobs -> Nat]
    BY <2>2 DEF IInv, JobsOK
  <2> QED  BY <2>2, <2>3, <2>5, <2>6, <2>7
<1>6. /\ call' \in [Jobs -> Calls] /\ context' \in [Jobs -> Instances]
      /\ loop' \in [Loops -> Jobs \cup {Nobody}]
      /\ 1 \in DOMAIN call'[j].script
      /\ \A k \in Jobs \ {j} : /\ call'[k] = call[k] /\ context'[k] = context[k]
                               /\ \A l \in Loops : loop'[l] = k <=> loop[l] = k
      /\ JobInv(j)'
  BY <1>5, Ended DEF IInv
<1>7. /\ queue'[i] = Tail(q) /\ queue' \in [Instances -> Seq(Jobs)]
      /\ \A l \in Instances \ {i} : queue'[l] = queue[l]
  BY <1>1, <1>5 DEF IInv, JobsOK
<1> HIDE DEF N
<1>8. JobsOK'
  <2>1. step[h] + 1 \in DOMAIN call[h].script
    BY <1>4, ScriptShape DEF IInv, JobsOK, Here
  <2>2. \A k \in Jobs : step'[k] \in DOMAIN call'[k].script
    <3> SUFFICES ASSUME NEW k \in Jobs PROVE step'[k] \in DOMAIN call'[k].script
      OBVIOUS
    <3>1. CASE k = j
      BY <1>5, <1>6, <3>1
    <3>2. CASE k = h
      BY <1>3, <1>5, <1>6, <2>1, <3>2
    <3>3. CASE k # j /\ k # h
      BY <1>5, <1>6, <3>3 DEF IInv, JobsOK
    <3> QED  BY <3>1, <3>2, <3>3
  <2> QED  BY <1>5, <1>6, <1>7, <2>2 DEF IInv, JobsOK
<1>9. ASSUME NEW k \in Jobs
      PROVE  JobInv(k)'
  <2>1. CASE k = j
    BY <1>6, <2>1
  <2>2. CASE k = h
    <3>1. /\ call'[h] = call[h] /\ step'[h] = step[h] + 1 /\ context'[h] = context[h]
          /\ pc'[h] = "running" /\ holds'[h] = i
          /\ \A l \in Loops : loop'[l] = h <=> loop[l] = h
      BY <1>3, <1>5, <1>6
    <3>2. /\ Passed(h, "borrow")'
          /\ Passed(h, "set")' <=> Passed(h, "set")
      BY <1>4, <3>1, MovingOn DEF IInv
    <3>3. Wanted(h)' = i /\ LoopOf(h)' = LoopOf(h)
      BY <1>4, <1>5, <3>1, Homes DEF Wanted
    <3> QED  BY <1>3, <1>5, <2>2, <3>1, <3>2, <3>3 DEF IInv, JobInv, Configured, setup
  <2>3. CASE k # j /\ k # h
    BY <1>5, <1>6, <2>3, JobStays DEF IInv
  <2> QED  BY <2>1, <2>2, <2>3
<1>10. LineInv'
  <2>1. \A n \in 1 .. N - 1 :
          /\ n + 1 \in 1 .. N /\ q[n + 1] \in Jobs \ {j, h}
          /\ pc[q[n + 1]] = "waiting" /\ context[q[n + 1]] = i
    <3> SUFFICES ASSUME NEW n \in 1 .. N - 1
                 PROVE  /\ n + 1 \in 1 .. N /\ q[n + 1] \in Jobs \ {j, h}
                        /\ pc[q[n + 1]] = "waiting" /\ context[q[n + 1]] = i
      OBVIOUS
    <3>1. n + 1 \in DOMAIN queue[i] /\ n + 1 \in 2 .. N
      BY <1>1
    <3>2. queue[i][n + 1] \in Jobs /\ pc[queue[i][n + 1]] = "waiting"
      BY <3>1, InLine DEF IInv
    <3> QED  BY <1>1, <1>3, <3>1, <3>2 DEF IInv, LineInv
  <2>2. \A m, n \in 1 .. N - 1 : q[m + 1] = q[n + 1] => m = n
    <3> SUFFICES ASSUME NEW m \in 1 .. N - 1, NEW n \in 1 .. N - 1, q[m + 1] = q[n + 1]
                 PROVE  m = n
      OBVIOUS
    <3>1. m + 1 = n + 1
      BY <1>1, <2>1 DEF IInv, LineInv
    <3> QED  BY <3>1
  <2>3. /\ \A n \in DOMAIN queue'[i] :
              pc'[queue'[i][n]] = "waiting" /\ context'[queue'[i][n]] = i /\ Configured(i)'
        /\ \A m, n \in DOMAIN queue'[i] : queue'[i][m] = queue'[i][n] => m = n
    <3>1. DOMAIN queue'[i] = 1 .. N - 1 /\ \A n \in 1 .. N - 1 : queue'[i][n] = q[n + 1]
      BY <1>1, <1>7
    <3>2. \A n \in 1 .. N - 1 : pc'[q[n + 1]] = "waiting" /\ context'[q[n + 1]] = i
      BY <1>5, <1>6, <2>1
    <3>3. Configured(i)'
      BY <1>3, <1>5 DEF Configured, setup
    <3> QED  BY <2>2, <3>1, <3>2, <3>3
  <2>4. \A l \in Instances \ {i} : \A n \in DOMAIN queue[l] : queue[l][n] \in Jobs \ {j, h}
    <3> SUFFICES ASSUME NEW l \in Instances \ {i}, NEW n \in DOMAIN queue[l]
                 PROVE  queue[l][n] \in Jobs \ {j, h}
      OBVIOUS
    <3>1. queue[l][n] \in Jobs /\ pc[queue[l][n]] = "waiting" /\ context[queue[l][n]] = l
      BY InLine DEF IInv, LineInv
    <3> QED  BY <1>3, <3>1
  <2>5. \A l \in Instances \ {i} :
          /\ \A n \in DOMAIN queue'[l] :
                pc'[queue'[l][n]] = "waiting" /\ context'[queue'[l][n]] = l /\ Configured(l)'
          /\ \A m, n \in DOMAIN queue'[l] : queue'[l][m] = queue'[l][n] => m = n
    <3> SUFFICES ASSUME NEW l \in Instances \ {i}
                 PROVE  /\ \A n \in DOMAIN queue[l] :
                              /\ pc'[queue[l][n]] = "waiting"
                              /\ context'[queue[l][n]] = l /\ Configured(l)'
                        /\ \A m, n \in DOMAIN queue[l] : queue[l][m] = queue[l][n] => m = n
      BY <1>7
    <3>1. \A n \in DOMAIN queue[l] : pc'[queue[l][n]] = pc[queue[l][n]]
      BY <1>5, <2>4
    <3>2. \A n \in DOMAIN queue[l] : context'[queue[l][n]] = context[queue[l][n]]
      BY <1>6, <2>4
    <3>3. Configured(l)' <=> Configured(l)
      BY <1>5 DEF Configured, setup
    <3> QED  BY <3>1, <3>2, <3>3 DEF IInv, LineInv
  <2> QED  BY <2>3, <2>5 DEF LineInv
<1>11. PoolInv'
  <2>1. /\ IsFiniteSet(Holders(i)) /\ Cardinality(Holders(i)) = PoolSize
        /\ PoolSize \in Nat
    BY LoopAssumption DEF IInv, PoolInv
  <2>2. j \in Holders(i) /\ h \notin Holders(i)
    BY <1>4 DEF Holders, Instances
  <2>3. Holders(i)' = (Holders(i) \ {j}) \cup {h}
    BY <1>3, <1>5 DEF Holders, Instances
  <2>4. /\ IsFiniteSet(Holders(i) \ {j})
        /\ Cardinality(Holders(i) \ {j}) = Cardinality(Holders(i)) - 1
    BY <2>1, <2>2, FS_RemoveElement
  <2>5. /\ IsFiniteSet(Holders(i)')
        /\ Cardinality(Holders(i)') = Cardinality(Holders(i) \ {j}) + 1
    BY <2>2, <2>3, <2>4, FS_AddElement
  <2>6. Cardinality(Holders(i)') = PoolSize
    BY <2>1, <2>4, <2>5
  <2>7. \A l \in Instances \ {i} : Holders(l)' = Holders(l)
    <3>1. \A l \in Instances \ {i}, m \in Jobs : holds'[m] = l <=> holds[m] = l
      BY <1>4, <1>5 DEF Instances
    <3> QED  BY <3>1 DEF Holders
  <2>8. PoolSize <= PoolSize
    BY <2>1
  <2> QED  BY <1>7, <2>5, <2>6, <2>7, <2>8 DEF IInv, PoolInv
<1> QED  BY <1>8, <1>9, <1>10, <1>11 DEF IInv

\* The end of a job, with or without a connection, with or without somebody in line.
LEMMA ReleaseKeeps ==
  ASSUME IInv, NEW j \in Jobs, pc[j] \in {"running", "suspended"}, Release(j)
  PROVE  IInv'
<1>1. CASE holds[j] # "none" => queue[holds[j]] = <<>>
  BY <1>1, ReturnKeeps
<1>2. CASE holds[j] # "none" /\ queue[holds[j]] # <<>>
  <2>1. holds[j] \in Instances
    BY <1>2 DEF IInv, JobsOK
  <2> QED  BY <1>2, <2>1, HandOverKeeps
<1> QED  BY <1>1, <1>2

-------------------------------------------------------------------------------
\* Every step of every job keeps the invariant.
LEMMA Step == IInv /\ [Next]_vars => IInv'
<1> SUFFICES ASSUME IInv, [Next]_vars PROVE IInv'
  OBVIOUS
<1>1. ASSUME NEW j \in Jobs, Work(j)
      PROVE  IInv'
  <2>1. CASE StatementFails(j) \/ Return(j) \/ Unconfigured(j)
    <3>1. pc[j] = "running" /\ Release(j)
      BY <2>1 DEF StatementFails, Return, Unconfigured, At
    <3> QED  BY <3>1, ReleaseKeeps
  <2> QED  BY <1>1, <2>1, SuspendKeeps, SetKeeps, BorrowKeeps, WaitKeeps, ReadKeeps DEF Work
<1>2. ASSUME NEW j \in Jobs, Cancelled(j)
      PROVE  IInv'
  BY <1>2, ReleaseKeeps DEF Cancelled
<1>3. CASE UNCHANGED vars
  <2>1. JobsOK' /\ LineInv' /\ PoolInv'
    BY <1>3, PoolStays DEF vars, jobVars, IInv, JobsOK
  <2>2. \A j \in Jobs : JobInv(j)'
    BY <1>3, JobStays DEF vars, jobVars, IInv
  <2> QED  BY <2>1, <2>2 DEF IInv
<1> QED  BY <1>1, <1>2, <1>3, ArriveKeeps, ResumeKeeps, LeaveKeeps DEF Next

\* The induction: what holds for all jobs, however their steps interleave.
THEOREM Invariance == Spec => []IInv
<1> QED  BY InitialState, Step, PTL DEF Spec

\* Type correctness.
THEOREM TypeCorrect == Spec => []TypeOK
<1>1. Init => FlagsOK
  BY DEF Init, FlagsOK
<1>2. FlagsOK /\ [Next]_vars => FlagsOK'
  <2> SUFFICES ASSUME FlagsOK, [Next]_vars PROVE FlagsOK'
    OBVIOUS
  <2>1. setup' = setup
    <3>1. ASSUME NEW j \in Jobs, Release(j) \/ StopsWaiting(j)
          PROVE  setup' = setup
      BY <3>1 DEF Release, StopsWaiting, Over
    <3>2. ASSUME NEW j \in Jobs, Work(j)
          PROVE  setup' = setup
      BY <3>1, <3>2
         DEF Work, Suspend, SetInstance, Borrow, Wait, Unconfigured, Read, StatementFails, Return
    <3> QED  BY <3>1, <3>2 DEF Next, Arrive, Resume, Cancelled, WaitTimesOut, vars
  <2> QED  BY <2>1 DEF FlagsOK, setup
<1>3. Spec => []FlagsOK
  BY <1>1, <1>2, PTL DEF Spec
<1>4. IInv /\ FlagsOK => TypeOK
  BY DEF FlagsOK, IInv, JobsOK, TypeOK
<1> QED  BY <1>3, <1>4, Invariance, PTL

\* _PoolRouter takes every connection from the pool of the instance the call names.
THEOREM RoutingRight == Spec => []RoutedRight
<1>1. IInv => RoutedRight
  <2> SUFFICES ASSUME IInv PROVE RoutedRight
    OBVIOUS
  <2>1. ASSUME NEW j \in Jobs, NEW i \in Instances, NEW n \in DOMAIN queue[i], queue[i][n] = j
        PROVE  i = Wanted(j)
    <3>1. pc[j] = "waiting" /\ context[j] = i
      BY <2>1 DEF IInv, LineInv
    <3> QED  BY <3>1, AtBorrow DEF IInv, JobInv
  <2> QED  BY <2>1 DEF RoutedRight, IInv, JobInv, Wanted
<1> QED  BY <1>1, Invariance, PTL

\* No end of a job leaves a connection, a place in line or the loop behind.
THEOREM EndsClean == Spec => []NothingLeftBehind
<1>1. IInv => NothingLeftBehind
  BY AtStart DEF IInv, LineInv, JobInv, NothingLeftBehind
<1> QED  BY <1>1, Invariance, PTL

\* The pools are neither overdrawn nor left unused beside a line.
THEOREM PoolsAreUsed == Spec => []PoolsUsed
<1>1. IInv => PoolsUsed
  BY DEF IInv, PoolInv, PoolsUsed
<1> QED  BY <1>1, Invariance, PTL

-------------------------------------------------------------------------------
(* Progress *)

\* How far a job is from its end: three for each step that is left, the one it is
\* at included, one less when it has its thread, two less when it keeps that and
\* waits.
Distance(j) ==
    IF pc[j] = "idle" THEN 0
    ELSE 3 * (Len(call[j].script) - step[j])
         + (CASE pc[j] = "suspended" -> 3 [] pc[j] = "running" -> 2 [] OTHER -> 1)

\* Every step of a job's own brings it nearer to its end, and no step of others
\* takes it further away, also none of the coroutine that has the loop.
Advancing ==
    \A j \in Jobs :
        /\ Resume(j) \/ Work(j) \/ WaitTimesOut(j) \/ Cancelled(j)
              => Distance(j)' < Distance(j)
        /\ Distance(j)' <= Distance(j) \/ Arrive(j)

InSomeLine(j) == \E i \in Instances : \E n \in DOMAIN queue[i] : queue[i][n] = j

\* Nothing a job needs for its next step is lost: who waits is in a line, where
\* the pool or its timeout finds it, and the loop is free or with a coroutine that
\* can go on or is in a line.
Ready ==
    /\ \A j \in Jobs : pc[j] = "waiting" => InSomeLine(j)
    /\ \A l \in Loops : loop[l] # Nobody => pc[loop[l]] = "running" \/ InSomeLine(loop[l])

\* The distance is a natural number, and none but an idle job has arrived.
LEMMA DistanceTyped ==
  ASSUME JobsOK, NEW j \in Jobs
  PROVE  /\ Len(call[j].script) - step[j] \in Nat
         /\ Distance(j) \in Nat
         /\ pc[j] # "idle" => Distance(j) > 0
         /\ pc[j] = "suspended" => Distance(j) = 3 * (Len(call[j].script) - step[j]) + 3
         /\ pc[j] = "running" => Distance(j) = 3 * (Len(call[j].script) - step[j]) + 2
         /\ pc[j] = "waiting" => Distance(j) = 3 * (Len(call[j].script) - step[j]) + 1
<1>1. /\ Len(call[j].script) \in Nat /\ step[j] \in 1 .. Len(call[j].script)
      /\ pc[j] \in {"idle", "running", "waiting", "suspended"}
  BY ScriptShape DEF JobsOK
<1>2. Len(call[j].script) - step[j] \in Nat
  BY <1>1
<1> QED  BY <1>1, <1>2 DEF Distance

\* A job that does not move.
LEMMA DistanceKept ==
  ASSUME JobsOK, NEW j \in Jobs, pc'[j] = pc[j], step'[j] = step[j], call'[j] = call[j]
  PROVE  Distance(j)' <= Distance(j)
<1>1. Distance(j)' = Distance(j)
  BY DEF Distance
<1> QED  BY <1>1, DistanceTyped

\* One that goes on to its next step: it is running or suspended then.
LEMMA DistanceFalls ==
  ASSUME JobsOK, NEW j \in Jobs, call'[j] = call[j], step'[j] = step[j] + 1,
         \/ pc[j] \in {"running", "waiting"} /\ pc'[j] = "running"
         \/ pc[j] = "running" /\ pc'[j] = "suspended"
  PROVE  Distance(j)' < Distance(j) /\ Distance(j)' <= Distance(j)
<1> DEFINE left == Len(call[j].script) - step[j]
<1>1. Len(call[j].script) \in Nat /\ step[j] \in Nat /\ left \in Nat
  BY ScriptShape, DistanceTyped DEF JobsOK
<1>2. Distance(j)' = 3 * (Len(call[j].script) - (step[j] + 1))
                     + (IF pc'[j] = "suspended" THEN 3 ELSE 2)
  BY DEF Distance
<1>3. Len(call[j].script) - (step[j] + 1) = left - 1
  BY <1>1
<1>4. /\ pc[j] = "running" => Distance(j) = 3 * left + 2
      /\ pc[j] = "waiting" => Distance(j) = 3 * left + 1
  BY DistanceTyped
<1> HIDE DEF left
<1>5. Distance(j)' = 3 * (left - 1) + (IF pc'[j] = "suspended" THEN 3 ELSE 2)
  BY <1>2, <1>3
<1> QED  BY <1>1, <1>4, <1>5

\* What the end of a job does to the others: at most one goes on, out of its line,
\* and who is still waiting is still in a line.
LEMMA ReleaseEffect ==
  ASSUME IInv, NEW j \in Jobs, Release(j)
  PROVE  /\ pc'[j] = "idle"
         /\ \A k \in Jobs \ {j} :
               /\ call'[k] = call[k]
               /\ \/ pc'[k] = pc[k] /\ step'[k] = step[k]
                  \/ pc[k] = "waiting" /\ pc'[k] = "running" /\ step'[k] = step[k] + 1
               /\ pc'[k] = "waiting" /\ InSomeLine(k) => InSomeLine(k)'
<1>1. /\ \A k \in Jobs \ {j} : call'[k] = call[k]
      /\ pc'[j] = "idle"
  BY DEF Release, Over, IInv, JobsOK
<1>2. CASE holds[j] # "none" => queue[holds[j]] = <<>>
  <2>1. queue' = queue /\ \A k \in Jobs \ {j} : pc'[k] = pc[k] /\ step'[k] = step[k]
    BY <1>2 DEF Release
  <2> QED  BY <1>1, <2>1 DEF InSomeLine
<1>3. CASE holds[j] # "none" /\ queue[holds[j]] # <<>>
  <2>1. PICK i \in Instances : i = holds[j]
    BY <1>3 DEF IInv, JobsOK
  <2>2. /\ queue[i] \in Seq(Jobs) /\ Len(queue[i]) \in Nat \ {0}
        /\ DOMAIN queue[i] = 1 .. Len(queue[i])
        /\ Head(queue[i]) = queue[i][1]
        /\ DOMAIN Tail(queue[i]) = 1 .. Len(queue[i]) - 1
        /\ \A n \in 1 .. Len(queue[i]) - 1 : Tail(queue[i])[n] = queue[i][n + 1]
    <3>1. queue[i] \in Seq(Jobs) /\ queue[i] # <<>>
      BY <1>3, <2>1 DEF IInv, JobsOK
    <3> QED  BY <3>1
  <2>3. PICK h \in Jobs : h = queue[i][1]
    BY <2>2
  <2>4. pc[h] = "waiting"
    BY <2>2, <2>3, InLine DEF IInv
  <2>5. /\ \A k \in Jobs \ {j} :
              /\ pc'[k] = IF k = h THEN "running" ELSE pc[k]
              /\ step'[k] = IF k = h THEN step[k] + 1 ELSE step[k]
        /\ queue' = [queue EXCEPT ![i] = Tail(@)]
    BY <1>3, <2>1, <2>2, <2>3 DEF Release
  <2>6. /\ queue'[i] = Tail(queue[i])
        /\ \A l \in Instances \ {i} : queue'[l] = queue[l]
    BY <2>5 DEF IInv, JobsOK
  <2>7. ASSUME NEW k \in Jobs \ {j}, pc'[k] = "waiting", InSomeLine(k)
        PROVE  InSomeLine(k)'
    <3>1. PICK l \in Instances : \E n \in DOMAIN queue[l] : queue[l][n] = k
      BY <2>7 DEF InSomeLine
    <3>2. PICK n \in DOMAIN queue[l] : queue[l][n] = k
      BY <3>1
    <3>3. CASE l = i
      <4>1. n # 1
        BY <2>3, <2>5, <2>7, <3>2, <3>3
      <4>2. n - 1 \in 1 .. Len(queue[i]) - 1 /\ (n - 1) + 1 = n
        BY <2>2, <3>3, <4>1
      <4>3. queue'[i][n - 1] = k /\ n - 1 \in DOMAIN queue'[i]
        BY <2>2, <2>6, <3>2, <3>3, <4>2
      <4> QED  BY <4>3 DEF InSomeLine
    <3>4. CASE l # i
      BY <2>6, <3>2, <3>4 DEF InSomeLine
    <3> QED  BY <3>3, <3>4
  <2> QED  BY <1>1, <2>4, <2>5, <2>7
<1> QED  BY <1>1, <1>2, <1>3

\* A job that ends has arrived, and who gets its connection is nearer to the end too.
LEMMA ReleaseAdvances ==
  ASSUME IInv, NEW j \in Jobs, pc[j] # "idle", Release(j)
  PROVE  /\ Distance(j)' < Distance(j)
         /\ \A k \in Jobs : Distance(k)' <= Distance(k)
<1>1. JobsOK
  BY DEF IInv
<1>2. Distance(j)' = 0 /\ Distance(j) \in Nat /\ Distance(j) > 0
  BY <1>1, ReleaseEffect, DistanceTyped DEF Distance
<1>3. ASSUME NEW k \in Jobs \ {j} PROVE Distance(k)' <= Distance(k)
  BY <1>1, ReleaseEffect, DistanceKept, DistanceFalls
<1> QED  BY <1>2, <1>3

\* Any step a job takes by itself.
LEMMA OwnStepAdvances ==
  ASSUME IInv, NEW j \in Jobs, Resume(j) \/ Work(j) \/ WaitTimesOut(j) \/ Cancelled(j)
  PROVE  /\ Distance(j)' < Distance(j)
         /\ \A k \in Jobs : Distance(k)' <= Distance(k)
<1>1. JobsOK /\ \A k \in Jobs : Distance(k) \in Nat
  BY DistanceTyped DEF IInv
<1>2. CASE Suspend(j) \/ SetInstance(j) \/ Borrow(j) \/ Read(j)
  <2>1. /\ pc[j] = "running" /\ call' = call /\ Proceed(j)
        /\ pc' = pc \/ pc' = [pc EXCEPT ![j] = "suspended"]
    BY <1>2 DEF Suspend, SetInstance, Borrow, Read, At
  <2>2. step'[j] = step[j] + 1 /\ pc'[j] \in {"running", "suspended"}
    BY <1>1, <2>1 DEF Proceed, JobsOK
  <2>3. Distance(j)' < Distance(j) /\ Distance(j)' <= Distance(j)
    BY <1>1, <2>1, <2>2, DistanceFalls
  <2>4. ASSUME NEW k \in Jobs \ {j} PROVE Distance(k)' <= Distance(k)
    <3>1. pc'[k] = pc[k] /\ step'[k] = step[k] /\ call'[k] = call[k]
      BY <1>1, <2>1 DEF Proceed, JobsOK
    <3> QED  BY <1>1, <3>1, DistanceKept
  <2> QED  BY <2>3, <2>4
<1>3. CASE Resume(j) \/ Wait(j)
  <2>1. /\ UNCHANGED <<call, step>>
        /\ \/ pc[j] = "suspended" /\ pc' = [pc EXCEPT ![j] = "running"]
           \/ pc[j] = "running" /\ pc' = [pc EXCEPT ![j] = "waiting"]
    BY <1>3 DEF Resume, Wait, At, jobVars
  <2>2. Distance(j)' = 3 * (Len(call[j].script) - step[j])
                       + (IF pc[j] = "suspended" THEN 2 ELSE 1)
    BY <1>1, <2>1 DEF Distance, JobsOK
  <2>3. Distance(j)' < Distance(j) /\ Distance(j)' <= Distance(j)
    BY <1>1, <2>1, <2>2, DistanceTyped
  <2>4. ASSUME NEW k \in Jobs \ {j} PROVE Distance(k)' <= Distance(k)
    BY <1>1, <2>1, DistanceKept DEF JobsOK
  <2> QED  BY <2>3, <2>4
<1>4. CASE Unconfigured(j) \/ StatementFails(j) \/ Return(j) \/ Cancelled(j)
  <2>1. pc[j] # "idle" /\ Release(j)
    BY <1>4 DEF Unconfigured, StatementFails, Return, Cancelled, At
  <2> QED  BY <2>1, ReleaseAdvances
<1>5. CASE WaitTimesOut(j)
  <2>1. /\ pc[j] = "waiting" /\ pc' = [pc EXCEPT ![j] = "idle"]
        /\ step' = [step EXCEPT ![j] = 1] /\ call' = [call EXCEPT ![j] = NoCall]
    BY <1>5 DEF WaitTimesOut, StopsWaiting, Over
  <2>2. Distance(j)' = 0 /\ Distance(j) > 0
    BY <1>1, <2>1, DistanceTyped DEF Distance, JobsOK
  <2>3. ASSUME NEW k \in Jobs \ {j} PROVE Distance(k)' <= Distance(k)
    BY <1>1, <2>1, DistanceKept DEF JobsOK
  <2> QED  BY <1>1, <2>2, <2>3
<1> QED  BY <1>2, <1>3, <1>4, <1>5 DEF Work

\* No job goes in circles or is set back, on whatever thread: it ends after at most
\* three times as many of its own steps as its script is long.
THEOREM JobsAdvance == Spec => [][Advancing]_vars
<1>1. IInv /\ [Next]_vars => [Advancing]_vars
  <2> SUFFICES ASSUME IInv, Next PROVE Advancing
    OBVIOUS
  <2>1. JobsOK
    BY DEF IInv
  <2>2. ASSUME NEW k \in Jobs PROVE Distance(k)' <= Distance(k) \/ Arrive(k)
    <3>1. ASSUME NEW j \in Jobs, Arrive(j), j # k PROVE Distance(k)' <= Distance(k)
      <4>1. pc'[k] = pc[k] /\ step'[k] = step[k] /\ call'[k] = call[k]
        BY <2>1, <3>1 DEF Arrive, JobsOK
      <4> QED  BY <2>1, <4>1, DistanceKept
    <3> QED  BY <3>1, OwnStepAdvances DEF Next
  <2> QED  BY <2>2, OwnStepAdvances DEF Advancing
<1> QED  BY <1>1, Invariance, PTL DEF Spec

\* A job that waits keeps its place until it gets a connection or gives up.
LEMMA PlaceKept ==
  ASSUME IInv, Next, NEW k \in Jobs, pc[k] = "waiting" => InSomeLine(k), pc'[k] = "waiting"
  PROVE  InSomeLine(k)'
<1>1. JobsOK
  BY DEF IInv
<1>2. ASSUME NEW j \in Jobs, Arrive(j) \/ Resume(j) \/ Suspend(j) \/ SetInstance(j)
                             \/ Borrow(j) \/ Read(j)
      PROVE  InSomeLine(k)'
  <2>1. /\ queue' = queue
        /\ \/ pc' = pc
           \/ \E state \in {"suspended", "running"} : pc' = [pc EXCEPT ![j] = state]
    <3>1. ASSUME Arrive(j)
          PROVE  \E state \in {"suspended", "running"} : pc' = [pc EXCEPT ![j] = state]
      BY <3>1 DEF Arrive
    <3> QED  BY <1>2, <3>1 DEF Arrive, Resume, Suspend, SetInstance, Borrow, Read
  <2>2. pc[k] = "waiting"
    BY <1>1, <2>1 DEF JobsOK
  <2> QED  BY <2>1, <2>2 DEF InSomeLine
<1>3. ASSUME NEW j \in Jobs, Wait(j)
      PROVE  InSomeLine(k)'
  <2>1. PICK i \in Instances : i = Target(j)
    BY <1>1 DEF JobsOK, Target
  <2>2. /\ queue[i] \in Seq(Jobs)
        /\ queue'[i] = Append(queue[i], j)
        /\ \A l \in Instances \ {i} : queue'[l] = queue[l]
        /\ pc' = [pc EXCEPT ![j] = "waiting"]
    BY <1>1, <1>3, <2>1 DEF Wait, JobsOK
  <2>3. /\ Len(queue[i]) \in Nat
        /\ DOMAIN queue[i] = 1 .. Len(queue[i])
        /\ DOMAIN queue'[i] = 1 .. Len(queue[i]) + 1
        /\ queue'[i][Len(queue[i]) + 1] = j
        /\ \A n \in 1 .. Len(queue[i]) : queue'[i][n] = queue[i][n]
    BY <2>2
  <2>4. CASE k = j
    <3>1. Len(queue[i]) + 1 \in DOMAIN queue'[i]
      BY <2>3
    <3> QED  BY <2>3, <2>4, <3>1 DEF InSomeLine
  <2>5. CASE k # j
    <3>1. InSomeLine(k)
      BY <1>1, <2>2, <2>5 DEF JobsOK
    <3>2. PICK l \in Instances : \E n \in DOMAIN queue[l] : queue[l][n] = k
      BY <3>1 DEF InSomeLine
    <3>3. PICK n \in DOMAIN queue[l] : queue[l][n] = k
      BY <3>2
    <3>4. n \in DOMAIN queue'[l] /\ queue'[l][n] = k
      <4>1. CASE l = i
        BY <2>3, <3>3, <4>1
      <4>2. CASE l # i
        BY <2>2, <3>3, <4>2
      <4> QED  BY <4>1, <4>2
    <3> QED  BY <3>4 DEF InSomeLine
  <2> QED  BY <2>4, <2>5
<1>4. ASSUME NEW j \in Jobs, Release(j)
      PROVE  InSomeLine(k)'
  <2>1. k # j /\ pc[k] = "waiting"
    BY <1>4, ReleaseEffect
  <2> QED  BY <1>4, <2>1, ReleaseEffect
<1>5. ASSUME NEW j \in Jobs, WaitTimesOut(j)
      PROVE  InSomeLine(k)'
  <2>1. PICK i \in Instances : \E m \in DOMAIN queue[i] :
          queue[i][m] = j /\ queue' = [queue EXCEPT ![i] = Without(@, m)]
    BY <1>5 DEF WaitTimesOut, StopsWaiting, LeavesLine
  <2>2. PICK m \in DOMAIN queue[i] :
          queue[i][m] = j /\ queue' = [queue EXCEPT ![i] = Without(@, m)]
    BY <2>1
  <2>3. k # j /\ pc[k] = "waiting"
    BY <1>1, <1>5 DEF WaitTimesOut, StopsWaiting, JobsOK
  <2>4. PICK l \in Instances : \E n \in DOMAIN queue[l] : queue[l][n] = k
    BY <2>3 DEF InSomeLine
  <2>5. PICK n \in DOMAIN queue[l] : queue[l][n] = k
    BY <2>4
  <2>6. CASE l = i
    <3> DEFINE N == Len(queue[i])
    <3>1. N \in Nat /\ m \in 1 .. N /\ n \in 1 .. N /\ n # m
      BY <1>1, <2>2, <2>3, <2>5, <2>6 DEF JobsOK
    <3>2. queue'[i] = [o \in 1 .. N - 1 |-> IF o < m THEN queue[i][o] ELSE queue[i][o + 1]]
      BY <1>1, <2>2 DEF JobsOK, Without
    <3> HIDE DEF N
    <3>3. CASE n < m
      <4>1. n \in 1 .. N - 1
        BY <3>1, <3>3
      <4>2. n \in DOMAIN queue'[i] /\ queue'[i][n] = k
        BY <2>5, <2>6, <3>2, <3>3, <4>1
      <4> QED  BY <4>2 DEF InSomeLine
    <3>4. CASE ~ (n < m)
      <4>1. n - 1 \in 1 .. N - 1 /\ ~ (n - 1 < m) /\ (n - 1) + 1 = n
        BY <3>1, <3>4
      <4>2. n - 1 \in DOMAIN queue'[i] /\ queue'[i][n - 1] = k
        BY <2>5, <2>6, <3>2, <4>1
      <4> QED  BY <4>2 DEF InSomeLine
    <3> QED  BY <3>3, <3>4
  <2>7. CASE l # i
    <3>1. queue'[l] = queue[l]
      BY <1>1, <2>2, <2>7 DEF JobsOK
    <3> QED  BY <2>5, <3>1 DEF InSomeLine
  <2> QED  BY <2>6, <2>7
<1> QED  BY <1>2, <1>3, <1>4, <1>5
         DEF Next, Work, Unconfigured, StatementFails, Return, Cancelled

\* Nobody is forgotten: a call in line can always time out, so the thread it waits
\* on, the loop's included, always comes back.
THEOREM AlwaysReady == Spec => []Ready
<1> DEFINE Placed == \A j \in Jobs : pc[j] = "waiting" => InSomeLine(j)
<1>1. Init => Placed
  BY DEF Init
<1>2. IInv /\ Placed /\ [Next]_vars => Placed'
  <2> SUFFICES ASSUME IInv, Placed, [Next]_vars, NEW j \in Jobs, pc'[j] = "waiting"
               PROVE  InSomeLine(j)'
    OBVIOUS
  <2>1. CASE Next
    BY <2>1, PlaceKept
  <2>2. CASE UNCHANGED vars
    BY <2>2 DEF vars, InSomeLine
  <2> QED  BY <2>1, <2>2
<1>3. IInv /\ Placed => Ready
  BY DEF Ready, IInv, JobsOK, JobInv
<1> HIDE DEF Placed
<1> QED  BY <1>1, <1>2, <1>3, Invariance, PTL DEF Spec

-------------------------------------------------------------------------------
(* The stall *)

\* Whom a stalled loop waits with: a job in a line, to which it belongs.
LEMMA Waiter ==
  ASSUME IInv, NEW group \in SUBSET Loops, NEW l \in group, NEW i \in Instances,
         NEW n \in DOMAIN queue[i], queue[i][n] = loop[l]
  PROVE  /\ l \in Loops /\ loop[l] \in Jobs /\ loop[l] # Nobody
         /\ pc[loop[l]] = "waiting" /\ context[loop[l]] = i /\ LoopOf(loop[l]) = l
         /\ queue[i] # <<>> /\ ~ Available(i)
<1>1. /\ loop[l] \in Jobs /\ loop[l] # Nobody
      /\ pc[loop[l]] = "waiting" /\ context[loop[l]] = i
  BY InLine, LoopAssumption DEF IInv, LineInv
<1>2. LoopOf(loop[l]) = l
  BY <1>1 DEF IInv, JobInv
<1>3. queue[i] # <<>>
  BY DEF IInv, JobsOK
<1>4. Cardinality(Holders(i)) = PoolSize /\ PoolSize \in Nat
  BY <1>3, LoopAssumption DEF IInv, PoolInv
<1> QED  BY <1>1, <1>2, <1>3, <1>4 DEF Available

\* While loops stall, their coroutines take no step.
LEMMA CoroutinesHeld ==
  ASSUME IInv, NEW group \in SUBSET Loops, Stalled(group), NEW j \in Jobs,
         Resume(j) \/ Cancelled(j) \/ Work(j)
  PROVE  LoopOf(j) \notin group
<1> SUFFICES ASSUME LoopOf(j) \in group PROVE FALSE
  OBVIOUS
<1>1. PICK i \in Instances : \E n \in DOMAIN queue[i] : queue[i][n] = loop[LoopOf(j)]
  BY DEF Stalled
<1>2. PICK n \in DOMAIN queue[i] : queue[i][n] = loop[LoopOf(j)]
  BY <1>1
<1>3. LoopOf(j) \in Loops /\ loop[LoopOf(j)] # Nobody /\ pc[loop[LoopOf(j)]] = "waiting"
  BY <1>2, Waiter
<1>4. CASE Resume(j) \/ Cancelled(j)
  BY <1>3, <1>4 DEF Resume, Cancelled
<1>5. CASE Work(j)
  <2>1. pc[j] = "running"
    BY <1>5
       DEF Work, Suspend, SetInstance, Borrow, Wait, Unconfigured, Read, StatementFails, Return, At
  <2>2. loop[LoopOf(j)] = j
    BY <1>3, <2>1 DEF IInv, JobInv
  <2> QED  BY <1>3, <2>1, <2>2
<1> QED  BY <1>4, <1>5

\* Nobody gets or gives back a connection of a pool that is empty and that only held
\* coroutines have.
LEMMA HoldersStay ==
  ASSUME IInv, NEW group \in SUBSET Loops, NEW i \in Instances, ~ Available(i),
         \A k \in Holders(i) : LoopOf(k) \in group,
         NEW j \in Jobs,
         \/ Arrive(j) \/ WaitTimesOut(j)
         \/ LoopOf(j) \notin group /\ (Resume(j) \/ Cancelled(j) \/ Work(j))
  PROVE  \A k \in Holders(i)' : k \in Holders(i) /\ k # j /\ LoopOf(k)' = LoopOf(k)
<1>1. CASE Arrive(j)
  <2>1. j \notin Holders(i)
    BY <1>1 DEF Arrive, Holders, IInv, JobInv, Passed, Instances
  <2>2. \A k \in Jobs \ {j} : call'[k] = call[k]
    BY <1>1 DEF Arrive, IInv, JobsOK
  <2>3. Holders(i)' = Holders(i) /\ setup' = setup
    BY <1>1 DEF Arrive, Holders
  <2> QED  BY <2>1, <2>2, <2>3, Homes DEF Holders
<1>2. CASE WaitTimesOut(j)
  <2>1. pc[j] = "waiting" /\ holds' = holds /\ Over(j)
    BY <1>2 DEF WaitTimesOut, StopsWaiting
  <2>2. j \notin Holders(i)
    BY <2>1, AtBorrow DEF IInv, JobInv, Holders, Instances
  <2>3. setup' = setup /\ \A k \in Jobs \ {j} : call'[k] = call[k]
    BY <2>1 DEF Over, IInv, JobsOK
  <2> QED  BY <2>1, <2>2, <2>3, Homes DEF Holders
<1>3. CASE LoopOf(j) \notin group /\ (Resume(j) \/ Cancelled(j) \/ Work(j))
  <2>1. j \notin Holders(i)
    BY <1>3
  <2>2. CASE Resume(j) \/ Suspend(j) \/ SetInstance(j) \/ Read(j) \/ Wait(j)
    <3>1. UNCHANGED <<setup, call, holds>>
      BY <2>2 DEF Resume, Suspend, SetInstance, Read, Wait, jobVars
    <3> QED  BY <2>1, <3>1, Homes DEF Holders
  <2>3. CASE Borrow(j)
    <3>1. /\ UNCHANGED <<setup, call>>
          /\ Target(j) # i /\ holds' = [holds EXCEPT ![j] = Target(j)]
      BY <2>3 DEF Borrow
    <3>2. Holders(i)' = Holders(i)
      BY <2>1, <3>1 DEF Holders, IInv, JobsOK
    <3> QED  BY <2>1, <3>1, <3>2, Homes DEF Holders
  <2>4. CASE Unconfigured(j) \/ StatementFails(j) \/ Return(j) \/ Cancelled(j)
    <3>1. Release(j) /\ Over(j) /\ holds[j] # i
      BY <2>1, <2>4 DEF Unconfigured, StatementFails, Return, Cancelled, Release, Holders
    <3>2. setup' = setup /\ \A k \in Jobs \ {j} : call'[k] = call[k]
      BY <3>1 DEF Over, IInv, JobsOK
    <3>3. \A k \in Jobs : holds'[k] = i => holds[k] = i /\ k # j
      BY <2>1, <3>1 DEF Release, Holders, Instances
    <3> QED  BY <3>2, <3>3, Homes DEF Holders
  <2> QED  BY <1>3, <2>2, <2>3, <2>4 DEF Work
<1> QED  BY <1>1, <1>2, <1>3

\* The job a loop waits with goes on waiting, unless a connection is handed to it or
\* its time is up.
LEMMA WaiterStays ==
  ASSUME IInv, NEW w \in Jobs, pc[w] = "waiting", NEW j \in Jobs,
         \/ Arrive(j) \/ Resume(j) \/ Cancelled(j) \/ Work(j)
         \/ WaitTimesOut(j) /\ j # w,
         holds[j] # context[w]
  PROVE  /\ pc'[w] = "waiting" /\ context'[w] = context[w]
         /\ \A l \in Loops : loop[l] = w => loop'[l] = w
<1>0. holds[w] = "none" /\ context[w] \in Instances
  BY AtBorrow DEF IInv, JobInv, JobsOK
<1>1. CASE Arrive(j) \/ Suspend(j) \/ SetInstance(j) \/ Read(j) \/ Borrow(j) \/ Wait(j)
  <2>1. pc[j] # "waiting"
    BY <1>1 DEF Arrive, Suspend, SetInstance, Read, Borrow, Wait, At
  <2>2. \A k \in Jobs \ {j} : pc'[k] = pc[k] /\ context'[k] = context[k]
    BY <1>1
       DEF Arrive, Suspend, SetInstance, Read, Borrow, Wait, jobVars, IInv, JobsOK
  <2>3. CASE Suspend(j)
    <3>1. call[j].home \in Loops /\ pc[j] = "running"
      BY <2>3, LoopAssumption DEF Suspend, At, Fitting, IInv, JobsOK
    <3>2. loop[LoopOf(j)] = j /\ loop' = [loop EXCEPT ![LoopOf(j)] = Nobody]
      BY <2>3, <3>1, Homes DEF Suspend, IInv, JobInv
    <3> QED  BY <2>1, <2>2, <3>2 DEF IInv, JobsOK
  <2>4. CASE ~ Suspend(j)
    BY <1>1, <2>1, <2>2, <2>4 DEF Arrive, SetInstance, Read, Borrow, Wait
  <2> QED  BY <2>3, <2>4
<1>2. CASE Resume(j)
  <2>1. /\ pc[j] = "suspended" /\ loop[LoopOf(j)] = Nobody
        /\ loop' = [loop EXCEPT ![LoopOf(j)] = j] /\ pc' = [pc EXCEPT ![j] = "running"]
        /\ context' = context
    BY <1>2 DEF Resume, jobVars
  <2> QED  BY <2>1, LoopAssumption DEF IInv, JobsOK
<1>3. CASE Unconfigured(j) \/ StatementFails(j) \/ Return(j) \/ Cancelled(j)
  <2>0. Release(j) /\ pc[j] # "waiting"
    BY <1>3 DEF Unconfigured, StatementFails, Return, Cancelled, At
  <2>1. Release(j) /\ Over(j) /\ j # w
    BY <2>0 DEF Release
  <2>2. context'[w] = context[w] /\ \A l \in Loops : loop[l] = w => loop'[l] = w
    BY <2>1 DEF Over, IInv, JobsOK
  <2>3. pc'[w] = "waiting"
    <3>1. CASE holds[j] # "none" => queue[holds[j]] = <<>>
      BY <2>1, <3>1 DEF Release
    <3>2. CASE holds[j] # "none" /\ queue[holds[j]] # <<>>
      <4>1. PICK i \in Instances : i = holds[j]
        BY <3>2 DEF IInv, JobsOK
      <4>2. queue[i] \in Seq(Jobs) /\ queue[i] # <<>>
        BY <3>2, <4>1 DEF IInv, JobsOK
      <4>3. 1 \in DOMAIN queue[i] /\ Head(queue[i]) = queue[i][1]
        BY <4>2
      <4>4. Head(queue[i]) # w
        BY <4>1, <4>3 DEF IInv, LineInv
      <4> QED  BY <2>1, <4>1, <4>4 DEF Release
    <3> QED  BY <3>1, <3>2
  <2> QED  BY <2>2, <2>3
<1>4. CASE WaitTimesOut(j) /\ j # w
  BY <1>4 DEF WaitTimesOut, StopsWaiting, Over, IInv, JobsOK
<1> QED  BY <1>1, <1>2, <1>3, <1>4 DEF Work

\* A stall outlasts every step but the end of one of its waits.
LEMMA StallStays ==
  ASSUME IInv, IInv', Next, NEW group \in SUBSET Loops, Stalled(group),
         ~ \E l \in group : WaitTimesOut(loop[l])
  PROVE  Stalled(group)'
<1>1. PICK j \in Jobs : Arrive(j) \/ Resume(j) \/ Work(j) \/ Cancelled(j) \/ WaitTimesOut(j)
  BY DEF Next
<1>2. Resume(j) \/ Cancelled(j) \/ Work(j) => LoopOf(j) \notin group
  BY CoroutinesHeld
<1>3. SUFFICES ASSUME NEW l \in group
               PROVE  \E i \in Instances :
                         /\ \E n \in DOMAIN queue'[i] : queue'[i][n] = loop'[l]
                         /\ \A k \in Holders(i)' : LoopOf(k)' \in group
  BY DEF Stalled
<1>4. PICK i \in Instances : /\ \E n \in DOMAIN queue[i] : queue[i][n] = loop[l]
                             /\ \A k \in Holders(i) : LoopOf(k) \in group
  BY DEF Stalled
<1>5. PICK n \in DOMAIN queue[i] : queue[i][n] = loop[l]
  BY <1>4
<1>6. PICK w \in Jobs : w = loop[l]
  BY <1>5, Waiter
<1>7. l \in Loops /\ pc[w] = "waiting" /\ context[w] = i /\ ~ Available(i)
  BY <1>5, <1>6, Waiter
<1>8. WaitTimesOut(j) => j # w
  BY <1>6
<1>9. \A k \in Holders(i)' : LoopOf(k)' \in group
  BY <1>1, <1>2, <1>4, <1>7, HoldersStay
<1>10. holds[j] # i
  <2>1. CASE Arrive(j)
    BY <2>1 DEF Arrive, IInv, JobInv, Passed, Instances
  <2>2. CASE WaitTimesOut(j)
    BY <2>2, AtBorrow DEF WaitTimesOut, IInv, JobInv, Instances
  <2>3. CASE Resume(j) \/ Cancelled(j) \/ Work(j)
    BY <1>2, <1>4, <2>3 DEF Holders
  <2> QED  BY <1>1, <2>1, <2>2, <2>3
<1>11. pc'[w] = "waiting" /\ context'[w] = i /\ loop'[l] = w
  BY <1>1, <1>6, <1>7, <1>8, <1>10, WaiterStays
<1>12. InSomeLine(w)
  BY <1>5, <1>6 DEF InSomeLine
<1>13. InSomeLine(w)'
  BY <1>11, <1>12, PlaceKept
<1>14. PICK h \in Instances : \E m \in DOMAIN queue'[h] : queue'[h][m] = w
  BY <1>13 DEF InSomeLine
<1>15. h = i
  BY <1>11, <1>14 DEF IInv, LineInv
<1> QED  BY <1>9, <1>11, <1>14, <1>15

\* While one loop, or both, wait for what only their own coroutines can give back,
\* nothing but the pool's timeout ends one of the waits.
THEOREM StallEndsByTimeout == Spec => StallHoldsLoop
<1>1. IInv /\ IInv' /\ [Next]_vars
        => [\A group \in SUBSET Loops :
               Stalled(group) => Stalled(group)' \/ \E l \in group : WaitTimesOut(loop[l])]_vars
  BY StallStays
<1> QED  BY <1>1, Invariance, PTL DEF Spec, StallHoldsLoop
===============================================================================
