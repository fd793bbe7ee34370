-------------------------- MODULE ToolExecutionProofs --------------------------
(***************************************************************************)
(* Safety of the execution of tool calls for every number of worker        *)
(* threads and of connections, every bound on the waiting line, and every  *)
(* set of tools whose scripts are well-formed.                             *)
(*                                                                         *)
(* What the properties rest on is what a connection's transaction contains *)
(* at each step of its owner's script: Transactions.  A write is in the    *)
(* database only after the COMMIT at the end, so a call that is not over   *)
(* has nothing there (Pending), and what COMMIT brings there is all of it, *)
(* because the script has no write behind its end.                         *)
(***************************************************************************)
EXTENDS ToolExecution, TLAPS

Here(c) == call[c].script[step[c]]

\* The writes of its script that the call has executed.
Behind(c) == {i \in Writes(c) : i < step[c]}

\* The pool, and where those who wait for it are in their scripts.
PoolInv ==
    /\ PoolConsistent
    /\ \A c \in Callers : phase[c] = "waiting" => Here(c) = "borrow"

\* What each connection's transaction contains.
Transactions ==
    \A k \in Conns :
        /\ owner[k] = Nobody => uncommitted[k] = {} /\ ~ broken[k]
        /\ broken[k] => uncommitted[k] = {}
        /\ \A c \in Callers : owner[k] = c /\ ~ broken[k]
              => uncommitted[k] = {<<c, i>> : i \in Behind(c)}

\* A call that is not over has changed nothing, beyond doubt, and has not been
\* answered.
Pending ==
    \A c \in Callers :
        phase[c] # "settled" => /\ Landed(c) = {}
                                /\ ~ doubt[c]
                                /\ answer[c] \in {"none", "timeout"}

\* A call that is past its audit record has made it, or need not.
Recorded ==
    \A c \in Callers :
        Passed(c, {"audit"}) => audit[c] = "kept" \/ (audit[c] = "lost" /\ ~ AuditRequired)

IInv ==
    /\ TypeOK
    /\ PoolInv
    /\ Transactions
    /\ Pending
    /\ AllOrNothing
    /\ AnswerTruthful
    /\ Recorded

-------------------------------------------------------------------------------
(* Scripts *)

\* A caller is at a step of a well-formed script.
LEMMA ScriptShape ==
    ASSUME TypeOK, NEW c \in Callers
    PROVE  /\ WellFormed(call[c].script)
           /\ call[c].script \in Seq(Kinds)
           /\ Len(call[c].script) \in Nat
           /\ DOMAIN call[c].script = 1 .. Len(call[c].script)
           /\ step[c] \in 1 .. Len(call[c].script)
<1>1. WellFormed(call[c].script)
  BY ExecutionAssumption DEF TypeOK
<1>2. call[c].script \in Seq(Kinds)
  BY <1>1 DEF WellFormed
<1> QED
  BY <1>1, <1>2 DEF TypeOK

\* Unless it is at its end, there is a next step.
LEMMA NextStep ==
    ASSUME TypeOK, NEW c \in Callers, Here(c) \notin Ending
    PROVE  step[c] + 1 \in DOMAIN call[c].script
<1>1. step[c] # Len(call[c].script)
  BY ScriptShape DEF WellFormed, Here
<1> QED
  BY <1>1, ScriptShape

\* Before the `with` block there is no connection and nothing has been written.
LEMMA BeforeBlock ==
    ASSUME TypeOK, NEW c \in Callers, Here(c) \in {"borrow", "audit"}
    PROVE  /\ ~ Passed(c, {"borrow"})
           /\ Behind(c) = {}
<1>1. \A i \in 1 .. step[c] - 1 : call[c].script[i] # "borrow"
  <2>1. \A j \in 1 .. step[c] - 1 :
          /\ ~ (Here(c) = "borrow" /\ call[c].script[j] = "borrow")
          /\ ~ (Here(c) = "audit" /\ call[c].script[j] \in {"audit", "borrow"})
    BY ScriptShape DEF WellFormed, Here
  <2> QED
    BY <2>1
<1>2. \A i \in 1 .. step[c] - 1 : call[c].script[i] \notin Changing
  <2> SUFFICES ASSUME NEW i \in 1 .. step[c] - 1, call[c].script[i] \in Changing
               PROVE  FALSE
    OBVIOUS
  <2>1. PICK j \in 1 .. i - 1 : call[c].script[j] = "borrow"
    BY ScriptShape DEF WellFormed, Changing, Statements
  <2> QED
    BY <1>1, <2>1, ScriptShape
<1> QED
  BY <1>1, <1>2, ScriptShape DEF Passed, Behind, Writes

\* Statements and answers are inside the block.
LEMMA InsideBlock ==
    ASSUME TypeOK, NEW c \in Callers, Here(c) \in Statements \cup {"return", "sorry"}
    PROVE  Passed(c, {"borrow"})
  BY ScriptShape DEF WellFormed, Here, Passed

\* At its end a call has executed all of its writes.
LEMMA AllBehind ==
    ASSUME TypeOK, NEW c \in Callers, Here(c) \in Ending
    PROVE  Behind(c) = Writes(c)
<1>1. step[c] = Len(call[c].script) /\ Here(c) \notin Changing
  BY ScriptShape DEF WellFormed, Here, Ending, Changing
<1> QED
  BY <1>1, ScriptShape DEF Behind, Writes, Here

\* A fallback query, which rolls back first, has no write to lose.
LEMMA NothingBehindFallback ==
    ASSUME TypeOK, NEW c \in Callers, Here(c) = "fallback"
    PROVE  Behind(c) = {}
  BY ScriptShape DEF WellFormed, Here, Behind, Writes

\* What moving on by one step puts behind a caller.
LEMMA MovingOn ==
    ASSUME TypeOK, NEW c \in Callers, step'[c] = step[c] + 1, call' = call
    PROVE  /\ \A kinds : Passed(c, kinds)' <=> Passed(c, kinds) \/ Here(c) \in kinds
           /\ Behind(c)' = Behind(c) \cup (IF Here(c) \in Changing THEN {step[c]} ELSE {})
           /\ Writes(c)' = Writes(c)
<1>1. /\ step[c] \in Nat \ {0}
      /\ 1 .. step'[c] - 1 = (1 .. step[c] - 1) \cup {step[c]}
  BY ScriptShape
<1>2. \A kinds : Passed(c, kinds)' <=> Passed(c, kinds) \/ Here(c) \in kinds
  BY <1>1 DEF Passed, Here
<1>3. Writes(c)' = Writes(c) /\ Writes(c) \subseteq Nat
  BY ScriptShape DEF Writes
<1>4. step[c] \in Writes(c) <=> Here(c) \in Changing
  BY ScriptShape DEF Writes, Here
<1>5. \A i \in Nat : i < step'[c] <=> i < step[c] \/ i = step[c]
  BY <1>1
<1>6. Behind(c)' = Behind(c) \cup (IF Here(c) \in Changing THEN {step[c]} ELSE {})
  BY <1>3, <1>4, <1>5 DEF Behind
<1> QED
  BY <1>2, <1>3, <1>6

\* A caller that stays where it is has the same behind it.
LEMMA StayingPut ==
    ASSUME NEW c \in Callers, step'[c] = step[c], call' = call
    PROVE  /\ \A kinds : Passed(c, kinds)' <=> Passed(c, kinds)
           /\ Behind(c)' = Behind(c)
           /\ Writes(c)' = Writes(c)
           /\ Here(c)' = Here(c)
  BY DEF Passed, Behind, Writes, Here

-------------------------------------------------------------------------------
(* The pool *)

\* Types that a step of a script keeps.
LEMMA ProceedTyped ==
    ASSUME TypeOK, NEW c \in Callers, Here(c) \notin Ending, Proceed(c), call' = call
    PROVE  /\ step' \in [Callers -> Nat]
           /\ \A d \in Callers : step'[d] \in DOMAIN call'[d].script
           /\ step'[c] = step[c] + 1
           /\ \A d \in Callers \ {c} : step'[d] = step[d]
<1>1. step'[c] = step[c] + 1 /\ \A d \in Callers \ {c} : step'[d] = step[d]
  BY DEF Proceed, TypeOK
<1>2. step' \in [Callers -> Nat]
  BY DEF Proceed, TypeOK
<1>3. \A d \in Callers : step'[d] \in DOMAIN call'[d].script
  BY <1>1, NextStep DEF TypeOK
<1> QED
  BY <1>1, <1>2, <1>3

\* A step inside or before the block, other than the start of the block, does
\* not move connections.
LEMMA ProceedKeepsPool ==
    ASSUME TypeOK, PoolInv, NEW c \in Callers, phase[c] = "running",
           Here(c) \notin Ending \cup {"borrow"}, Proceed(c),
           UNCHANGED <<phase, call, owner, queue>>
    PROVE  PoolInv'
<1>1. \A d \in Callers : Passed(d, {"borrow"})' <=> Passed(d, {"borrow"})
  BY ProceedTyped, MovingOn, StayingPut
<1>2. \A d \in Callers : Holds(d)' <=> Holds(d)
  BY DEF Holds
<1>3. \A d \in Callers : phase[d] = "waiting" => Here(d)' = Here(d)
  BY ProceedTyped, StayingPut
<1>4. PoolConsistent'
  BY <1>1, <1>2 DEF PoolInv, PoolConsistent, AllOut
<1> QED
  BY <1>3, <1>4 DEF PoolInv

\* Nor does the end of a call that has none.
LEMMA SettleKeepsPool ==
    ASSUME TypeOK, PoolInv, NEW c \in Callers, phase[c] = "running", ~ Holds(c),
           phase' = [phase EXCEPT ![c] = "settled"],
           UNCHANGED <<call, step, owner, queue>>
    PROVE  PoolInv'
<1>1. \A d \in Callers : /\ Passed(d, {"borrow"})' <=> Passed(d, {"borrow"})
                         /\ Here(d)' = Here(d)
  BY StayingPut
<1>2. \A d \in Callers : Holds(d)' <=> Holds(d)
  BY DEF Holds
<1>3. phase'[c] = "settled" /\ \A d \in Callers \ {c} : phase'[d] = phase[d]
  BY DEF TypeOK
<1>4. PoolConsistent'
  BY <1>1, <1>2, <1>3 DEF PoolInv, PoolConsistent, AllOut
<1> QED
  BY <1>1, <1>3, <1>4 DEF PoolInv

\* Who is where when c's connection goes to the next in line.
LEMMA HandOverEffect ==
    ASSUME TypeOK, PoolInv, NEW c \in Callers, phase[c] = "running",
           NEW k \in Conns, owner[k] = c, GiveBack(k), HandOver(c), call' = call
    PROVE  /\ phase'[c] = "settled" /\ step'[c] = step[c]
           /\ \A d \in Callers \ {c} : owner'[k] # d
                 => phase'[d] = phase[d] /\ step'[d] = step[d]
           /\ owner'[k] # c
           /\ owner'[k] # Nobody =>
                 LET d == owner'[k] IN
                 /\ d \in Callers
                 /\ phase[d] = "waiting" /\ Here(d) = "borrow"
                 /\ phase'[d] = "running" /\ step'[d] = step[d] + 1
                 /\ queue # <<>> /\ d = Head(queue)
           /\ \A l \in Conns \ {k} : owner'[l] = owner[l]
           /\ queue = <<>> => owner'[k] = Nobody
<1>1. queue # <<>> => /\ Head(queue) \in Callers /\ Head(queue) = queue[1]
                      /\ 1 \in DOMAIN queue
  BY DEF TypeOK
<1>2. queue # <<>> => phase[Head(queue)] = "waiting" /\ Head(queue) # c
  BY <1>1 DEF PoolInv, PoolConsistent
<1>3. /\ owner'[k] = IF queue = <<>> THEN Nobody ELSE Head(queue)
      /\ \A l \in Conns \ {k} : owner'[l] = owner[l]
  BY DEF GiveBack, TypeOK
<1>4. \A d \in Callers :
        /\ phase'[d] = IF d = c THEN "settled"
                       ELSE IF queue # <<>> /\ d = Head(queue) THEN "running"
                       ELSE phase[d]
        /\ step'[d] = IF queue # <<>> /\ d = Head(queue) THEN step[d] + 1 ELSE step[d]
  BY DEF HandOver
<1> QED
  BY <1>1, <1>2, <1>3, <1>4, ExecutionAssumption DEF PoolInv

\* The line behind the first in line.
LEMMA TailOfLine ==
    ASSUME TypeOK, queue # <<>>
    PROVE  /\ Tail(queue) \in Seq(Callers)
           /\ Len(Tail(queue)) = Len(queue) - 1
           /\ DOMAIN Tail(queue) = 1 .. Len(queue) - 1
           /\ \A i \in 1 .. Len(queue) - 1 : Tail(queue)[i] = queue[i + 1]
           /\ Len(queue) \in Nat \ {0} /\ DOMAIN queue = 1 .. Len(queue)
           /\ Head(queue) = queue[1]
  BY DEF TypeOK

\* Handing a connection over leaves the pool and its line consistent.
LEMMA HandOverKeepsPool ==
    ASSUME TypeOK, PoolInv, NEW c \in Callers, phase[c] = "running",
           NEW k \in Conns, owner[k] = c, GiveBack(k), HandOver(c), call' = call
    PROVE  PoolInv'
<1> DEFINE next == owner'[k]
<1>0. /\ phase'[c] = "settled" /\ step'[c] = step[c]
      /\ \A d \in Callers \ {c} : next # d => phase'[d] = phase[d] /\ step'[d] = step[d]
      /\ next # c
      /\ next # Nobody => /\ next \in Callers /\ phase[next] = "waiting"
                         /\ Here(next) = "borrow" /\ phase'[next] = "running"
                         /\ step'[next] = step[next] + 1
                         /\ queue # <<>> /\ next = Head(queue)
      /\ \A l \in Conns \ {k} : owner'[l] = owner[l]
      /\ queue = <<>> => next = Nobody
  BY HandOverEffect
<1>1. queue' = IF queue = <<>> THEN <<>> ELSE Tail(queue)
  BY DEF GiveBack
<1>2. queue # <<>> => next = Head(queue) /\ next # Nobody
  <2>1. next = IF queue = <<>> THEN Nobody ELSE Head(queue)
    BY DEF GiveBack, TypeOK
  <2>2. queue # <<>> => Head(queue) \in Callers
    BY DEF TypeOK
  <2> QED
    BY <2>1, <2>2, ExecutionAssumption
<1> HIDE DEF next
<1>3. \A d \in Callers : next # d =>
        (Passed(d, {"borrow"})' <=> Passed(d, {"borrow"})) /\ Here(d)' = Here(d)
  BY <1>0, StayingPut
<1>4. ASSUME NEW d \in Callers, next = d
      PROVE  Passed(d, {"borrow"})' /\ Holds(d)' /\ phase'[d] = "running"
  <2>1. /\ step'[d] = step[d] + 1 /\ Here(d) = "borrow" /\ phase'[d] = "running"
    BY <1>0, <1>4, ExecutionAssumption
  <2>2. Passed(d, {"borrow"})'
    BY <2>1, MovingOn
  <2> QED
    BY <1>4, <2>1, <2>2 DEF Holds, next
<1>5. ~ Holds(c)'
  BY <1>0, ExecutionAssumption DEF Holds, PoolInv, PoolConsistent, next
<1>6. \A d \in Callers \ {c} : Holds(d)' <=> Holds(d) \/ next = d
  BY <1>0 DEF Holds, next
<1>7. \A d \in Callers : Holds(d)' <=> phase'[d] = "running" /\ Passed(d, {"borrow"})'
  <2> TAKE d \in Callers
  <2>1. CASE d = c
    BY <1>0, <1>5, <2>1
  <2>2. CASE d = next
    BY <1>4, <2>2
  <2>3. CASE d # c /\ d # next
    <3>1. Holds(d) <=> phase[d] = "running" /\ Passed(d, {"borrow"})
      BY DEF PoolInv, PoolConsistent
    <3> QED
      BY <1>0, <1>3, <1>6, <2>3, <3>1
  <2> QED
    BY <2>1, <2>2, <2>3
<1>8. \A d \in Callers : phase'[d] = "waiting" <=> \E i \in DOMAIN queue' : queue'[i] = d
  <2>1. CASE queue = <<>>
    <3>1. \A d \in Callers : phase[d] # "waiting"
      BY <2>1 DEF PoolInv, PoolConsistent
    <3>2. DOMAIN queue' = {}
      BY <1>1, <2>1
    <3> QED
      BY <1>0, <2>1, <3>1, <3>2, ExecutionAssumption
  <2>2. CASE queue # <<>>
    <3>1. \A d \in Callers :
            (\E i \in DOMAIN queue' : queue'[i] = d)
              <=> d # next /\ \E i \in DOMAIN queue : queue[i] = d
      <4>1. \A i \in 2 .. Len(queue) : queue[i] # next
        BY <1>2, <2>2, TailOfLine DEF PoolInv, PoolConsistent
      <4>2. \A i \in 2 .. Len(queue) :
              i - 1 \in 1 .. Len(queue) - 1 /\ Tail(queue)[i - 1] = queue[i]
        BY <2>2, TailOfLine
      <4>3. ASSUME NEW d \in Callers, NEW i \in DOMAIN queue', queue'[i] = d
            PROVE  d # next /\ \E j \in DOMAIN queue : queue[j] = d
        BY <1>1, <2>2, <4>1, <4>3, TailOfLine
      <4>4. ASSUME NEW d \in Callers, d # next, NEW i \in DOMAIN queue, queue[i] = d
            PROVE  \E j \in DOMAIN queue' : queue'[j] = d
        <5>1. i \in 2 .. Len(queue)
          BY <1>2, <2>2, <4>4, TailOfLine
        <5> QED
          BY <1>1, <2>2, <4>2, <4>4, <5>1, TailOfLine
      <4> QED
        BY <4>3, <4>4
    <3>2. phase[c] # "waiting"
      OBVIOUS
    <3> QED
      BY <1>0, <1>2, <2>2, <3>1 DEF PoolInv, PoolConsistent
  <2> QED
    BY <2>1, <2>2
<1>9. \A l, m \in Conns : owner'[l] = owner'[m] /\ owner'[l] # Nobody => l = m
  BY <1>0 DEF PoolInv, PoolConsistent, Holds, next
<1>10. queue' # <<>> => AllOut'
  BY <1>0, <1>1, <1>2 DEF PoolInv, PoolConsistent, AllOut, next
<1>11. Len(queue') <= MaxWaiting
  BY <1>1, TailOfLine, ExecutionAssumption DEF PoolInv, PoolConsistent
<1>12. \A i, j \in DOMAIN queue' : queue'[i] = queue'[j] => i = j
  <2>1. CASE queue = <<>>
    BY <1>1, <2>1
  <2>2. CASE queue # <<>>
    <3> SUFFICES ASSUME NEW i \in 1 .. Len(queue) - 1, NEW j \in 1 .. Len(queue) - 1,
                        queue[i + 1] = queue[j + 1]
                 PROVE  i = j
      BY <1>1, <2>2, TailOfLine
    <3>1. i + 1 \in DOMAIN queue /\ j + 1 \in DOMAIN queue
      BY <2>2, TailOfLine
    <3>2. i + 1 = j + 1
      BY <3>1 DEF PoolInv, PoolConsistent
    <3> QED
      BY <3>2
  <2> QED
    BY <2>1, <2>2
<1>13. \A d \in Callers : phase'[d] = "waiting" => Here(d)' = "borrow"
  BY <1>0, <1>3, ExecutionAssumption DEF PoolInv
<1> QED
  BY <1>7, <1>8, <1>9, <1>10, <1>11, <1>12, <1>13 DEF PoolInv, PoolConsistent

\* A caller that borrows a connection nobody has.
LEMMA BorrowKeepsPool ==
    ASSUME TypeOK, PoolInv, NEW c \in Callers, Borrow(c)
    PROVE  PoolInv'
<1>1. PICK k \in Conns : owner[k] = Nobody /\ owner' = [owner EXCEPT ![k] = c]
  BY DEF Borrow
<1>2. phase[c] = "running" /\ Here(c) = "borrow" /\ Proceed(c)
      /\ UNCHANGED <<phase, call, queue>>
  BY DEF Borrow, At, Here, poolVars
<1>3. owner'[k] = c /\ \A l \in Conns \ {k} : owner'[l] = owner[l]
  BY <1>1 DEF TypeOK
<1>4. ~ Passed(c, {"borrow"}) /\ ~ Holds(c)
  BY <1>2, BeforeBlock DEF PoolInv, PoolConsistent
<1>5. step'[c] = step[c] + 1 /\ \A d \in Callers \ {c} : step'[d] = step[d]
  BY <1>2, ProceedTyped DEF Ending
<1>6. Passed(c, {"borrow"})' /\ Holds(c)'
  BY <1>2, <1>3, <1>5, MovingOn DEF Holds
<1>7. \A d \in Callers \ {c} :
        /\ Passed(d, {"borrow"})' <=> Passed(d, {"borrow"})
        /\ Holds(d)' <=> Holds(d)
        /\ Here(d)' = Here(d)
  BY <1>1, <1>2, <1>3, <1>5, StayingPut, ExecutionAssumption DEF Holds
<1>8. \A d \in Callers : Holds(d)' <=> phase'[d] = "running" /\ Passed(d, {"borrow"})'
  BY <1>2, <1>6, <1>7 DEF PoolInv, PoolConsistent
<1>9. \A l, m \in Conns : owner'[l] = owner'[m] /\ owner'[l] # Nobody => l = m
  BY <1>3, <1>4 DEF PoolInv, PoolConsistent, Holds
<1>10. queue = <<>>
  BY <1>1 DEF PoolInv, PoolConsistent, AllOut
<1> QED
  BY <1>2, <1>7, <1>8, <1>9, <1>10 DEF PoolInv, PoolConsistent

\* A caller that joins the line.
LEMMA EnqueueKeepsPool ==
    ASSUME TypeOK, PoolInv, NEW c \in Callers, Enqueue(c)
    PROVE  PoolInv' /\ queue' \in Seq(Callers)
<1>1. /\ phase[c] = "running" /\ Here(c) = "borrow" /\ AllOut
      /\ Len(queue) < MaxWaiting
      /\ queue' = Append(queue, c)
      /\ phase' = [phase EXCEPT ![c] = "waiting"]
      /\ UNCHANGED <<call, step, owner>>
  BY DEF Enqueue, At, Here
<1>2. /\ Len(queue) \in Nat /\ DOMAIN queue = 1 .. Len(queue)
      /\ queue' \in Seq(Callers) /\ Len(queue') = Len(queue) + 1
      /\ DOMAIN queue' = 1 .. Len(queue) + 1
      /\ \A i \in 1 .. Len(queue) : queue'[i] = queue[i]
      /\ queue'[Len(queue) + 1] = c
  BY <1>1 DEF TypeOK
<1>3. ~ Holds(c) /\ \A i \in DOMAIN queue : queue[i] # c
  BY <1>1, BeforeBlock DEF PoolInv, PoolConsistent
<1>4. \A d \in Callers : /\ Passed(d, {"borrow"})' <=> Passed(d, {"borrow"})
                         /\ Here(d)' = Here(d)
                         /\ Holds(d)' <=> Holds(d)
  BY <1>1, StayingPut DEF Holds
<1>5. phase'[c] = "waiting" /\ \A d \in Callers \ {c} : phase'[d] = phase[d]
  BY <1>1 DEF TypeOK
<1>6. \A d \in Callers : Holds(d)' <=> phase'[d] = "running" /\ Passed(d, {"borrow"})'
  BY <1>3, <1>4, <1>5 DEF PoolInv, PoolConsistent
<1>7. \A d \in Callers : phase'[d] = "waiting" <=> \E i \in DOMAIN queue' : queue'[i] = d
  <2> TAKE d \in Callers
  <2>1. CASE d = c
    BY <1>2, <1>5, <2>1
  <2>2. CASE d # c
    <3>1. phase[d] = "waiting" <=> \E i \in 1 .. Len(queue) : queue[i] = d
      BY <1>2 DEF PoolInv, PoolConsistent
    <3>2. (\E i \in 1 .. Len(queue) : queue[i] = d)
            <=> \E i \in 1 .. Len(queue) + 1 : queue'[i] = d
      BY <1>2, <2>2
    <3> QED
      BY <1>2, <1>5, <2>2, <3>1, <3>2
  <2> QED
    BY <2>1, <2>2
<1>8. \A i, j \in DOMAIN queue' : queue'[i] = queue'[j] => i = j
  BY <1>2, <1>3 DEF PoolInv, PoolConsistent
<1>9. AllOut' /\ Len(queue') <= MaxWaiting
  BY <1>1, <1>2, ExecutionAssumption DEF AllOut
<1>10. \A k, l \in Conns : owner'[k] = owner'[l] /\ owner'[k] # Nobody => k = l
  BY <1>1 DEF PoolInv, PoolConsistent
<1>11. \A d \in Callers : phase'[d] = "waiting" => Here(d)' = "borrow"
  BY <1>1, <1>4, <1>5 DEF PoolInv
<1> QED
  BY <1>2, <1>6, <1>7, <1>8, <1>9, <1>10, <1>11 DEF PoolInv, PoolConsistent

\* A caller that gives up waiting: the others keep their places.
LEMMA WaitTimesOutKeepsPool ==
    ASSUME TypeOK, PoolInv, NEW c \in Callers, WaitTimesOut(c)
    PROVE  PoolInv' /\ queue' \in Seq(Callers)
<1>1. /\ phase[c] = "waiting"
      /\ phase' = [phase EXCEPT ![c] = "settled"]
      /\ UNCHANGED <<call, step, owner>>
  BY DEF WaitTimesOut, Settle
<1>2. PICK i \in DOMAIN queue : queue[i] = c /\ queue' = Without(queue, i)
  BY DEF WaitTimesOut
<1> DEFINE N == Len(queue)
<1>3. /\ N \in Nat /\ DOMAIN queue = 1 .. N /\ i \in 1 .. N
      /\ \A j \in 1 .. N : queue[j] \in Callers
      /\ \A j, m \in 1 .. N : queue[j] = queue[m] => j = m
  <2>1. queue \in Seq(Callers)
    BY DEF TypeOK
  <2>2. \A j, m \in DOMAIN queue : queue[j] = queue[m] => j = m
    BY DEF PoolInv, PoolConsistent
  <2> QED
    BY <2>1, <2>2
<1>4. queue' = [j \in 1 .. N - 1 |-> IF j < i THEN queue[j] ELSE queue[j + 1]]
  BY <1>2 DEF Without
<1>5. N - 1 \in Nat
  BY <1>3
<1>6. queue' \in Seq(Callers) /\ Len(queue') = N - 1 /\ DOMAIN queue' = 1 .. N - 1
  <2>1. queue' \in [1 .. N - 1 -> Callers]
    BY <1>3, <1>4
  <2> QED
    BY <1>5, <2>1
<1> HIDE DEF N
<1>7. \A j \in 1 .. N - 1 :
        LET m == IF j < i THEN j ELSE j + 1
        IN  m \in 1 .. N /\ m # i /\ queue'[j] = queue[m]
  BY <1>3, <1>4
<1>8. phase'[c] = "settled" /\ \A d \in Callers \ {c} : phase'[d] = phase[d]
  BY <1>1 DEF TypeOK
<1>9. \A d \in Callers : phase'[d] = "waiting" <=> \E j \in DOMAIN queue' : queue'[j] = d
  <2> TAKE d \in Callers
  <2>1. phase[d] = "waiting" <=> \E j \in 1 .. N : queue[j] = d
    BY <1>3 DEF PoolInv, PoolConsistent
  <2>2. ASSUME NEW j \in 1 .. N - 1, queue'[j] = d
        PROVE  d # c /\ \E m \in 1 .. N : queue[m] = d
    BY <1>2, <1>3, <1>7, <2>2
  <2>3. ASSUME d # c, NEW m \in 1 .. N, queue[m] = d
        PROVE  \E j \in 1 .. N - 1 : queue'[j] = d
    <3>1. CASE m < i
      <4>1. m \in 1 .. N - 1
        BY <1>3, <3>1
      <4> QED
        BY <1>4, <2>3, <3>1, <4>1
    <3>2. CASE m > i
      <4>1. m - 1 \in 1 .. N - 1 /\ ~ (m - 1 < i) /\ (m - 1) + 1 = m
        BY <1>3, <3>2
      <4> QED
        BY <1>4, <2>3, <4>1
    <3>3. m # i
      BY <1>2, <2>3
    <3> QED
      BY <1>3, <3>1, <3>2, <3>3
  <2> QED
    BY <1>6, <1>8, <2>1, <2>2, <2>3
<1>10. \A j, m \in DOMAIN queue' : queue'[j] = queue'[m] => j = m
  BY <1>3, <1>6, <1>7
<1>11. \A d \in Callers : /\ Passed(d, {"borrow"})' <=> Passed(d, {"borrow"})
                          /\ Here(d)' = Here(d)
                          /\ Holds(d)' <=> Holds(d)
  BY <1>1, StayingPut DEF Holds
<1>12. \A d \in Callers : Holds(d)' <=> phase'[d] = "running" /\ Passed(d, {"borrow"})'
  BY <1>1, <1>8, <1>11 DEF PoolInv, PoolConsistent
<1>13. AllOut' /\ Len(queue') <= MaxWaiting
  <2>1. queue # <<>> /\ Len(queue) <= MaxWaiting
    BY <1>2 DEF PoolInv, PoolConsistent
  <2> QED
    BY <1>1, <1>3, <1>6, <2>1, ExecutionAssumption DEF PoolInv, PoolConsistent, AllOut, N
<1>14. \A k, l \in Conns : owner'[k] = owner'[l] /\ owner'[k] # Nobody => k = l
  BY <1>1 DEF PoolInv, PoolConsistent
<1>15. \A d \in Callers : phase'[d] = "waiting" => Here(d)' = "borrow"
  BY <1>1, <1>8, <1>11 DEF PoolInv
<1> QED
  BY <1>6, <1>9, <1>10, <1>12, <1>13, <1>14, <1>15 DEF PoolInv, PoolConsistent

\* A new call starts without a connection.
LEMMA StartKeepsPool ==
    ASSUME TypeOK, PoolInv, NEW c \in Callers, Start(c)
    PROVE  PoolInv'
<1>1. /\ phase[c] \in {"idle", "settled"}
      /\ phase'[c] = "running" /\ step'[c] = 1
      /\ \A d \in Callers \ {c} : /\ phase'[d] = phase[d] /\ step'[d] = step[d]
                                  /\ call'[d] = call[d]
      /\ UNCHANGED <<owner, queue>>
  BY DEF Start, TypeOK, poolVars
<1>2. ~ Passed(c, {"borrow"})'
  BY <1>1 DEF Passed
<1>3. \A d \in Callers \ {c} : /\ Passed(d, {"borrow"})' <=> Passed(d, {"borrow"})
                              /\ Here(d)' = Here(d)
  BY <1>1 DEF Passed, Here
<1>4. \A d \in Callers : Holds(d)' <=> Holds(d)
  BY <1>1 DEF Holds
<1>5. ~ Holds(c)
  BY <1>1 DEF PoolInv, PoolConsistent
<1>6. PoolConsistent'
  BY <1>1, <1>2, <1>3, <1>4, <1>5 DEF PoolInv, PoolConsistent, AllOut
<1> QED
  BY <1>1, <1>3, <1>6 DEF PoolInv

-------------------------------------------------------------------------------
(* Transactions *)

\* A read, a signal or an audit record moves its caller on and writes nothing.
LEMMA ReadKeepsTransactions ==
    ASSUME TypeOK, Transactions, NEW c \in Callers, Here(c) \notin Ending \cup Changing,
           Proceed(c), UNCHANGED <<call, owner, broken, uncommitted>>
    PROVE  Transactions'
<1>1. step'[c] = step[c] + 1 /\ \A d \in Callers \ {c} : step'[d] = step[d]
  BY ProceedTyped
<1>2. Behind(c)' = Behind(c)
  BY <1>1, MovingOn
<1>3. \A d \in Callers \ {c} : Behind(d)' = Behind(d)
  BY <1>1, StayingPut
<1>4. \A d \in Callers : Behind(d)' = Behind(d)
  BY <1>2, <1>3
<1> QED
  BY <1>4 DEF Transactions

\* A step after which every caller has the same behind it, and every transaction
\* is as it was.
LEMMA NothingWritten ==
    ASSUME TypeOK, Transactions, UNCHANGED <<call, step, owner, broken, uncommitted>>
    PROVE  Transactions'
  BY DEF Transactions, Behind, Writes

\* A write adds its step to its caller's transaction.
LEMMA WriteKeepsTransactions ==
    ASSUME TypeOK, PoolInv, Transactions, NEW c \in Callers, ExecuteWrite(c)
    PROVE  Transactions'
<1>1. PICK k \in Conns :
        /\ owner[k] = c /\ ~ broken[k]
        /\ uncommitted' = [uncommitted EXCEPT ![k] = @ \cup {<<c, step[c]>>}]
  BY DEF ExecuteWrite
<1>2. /\ Here(c) \in Changing /\ Proceed(c) /\ UNCHANGED <<call, owner, broken>>
  BY DEF ExecuteWrite, At, Here, poolVars
<1>3. step'[c] = step[c] + 1 /\ \A d \in Callers \ {c} : step'[d] = step[d]
  BY <1>2, ProceedTyped DEF Changing, Ending
<1>4. Behind(c)' = Behind(c) \cup {step[c]} /\ \A d \in Callers \ {c} : Behind(d)' = Behind(d)
  BY <1>2, <1>3, MovingOn, StayingPut
<1>5. uncommitted'[k] = {<<c, i>> : i \in Behind(c)'}
  <2>1. uncommitted[k] = {<<c, i>> : i \in Behind(c)}
    BY <1>1 DEF Transactions
  <2>2. uncommitted'[k] = uncommitted[k] \cup {<<c, step[c]>>}
    BY <1>1 DEF TypeOK
  <2> QED
    BY <1>4, <2>1, <2>2
<1>6. \A l \in Conns \ {k} : uncommitted'[l] = uncommitted[l] /\ owner[l] # c
  BY <1>1, ExecutionAssumption DEF TypeOK, PoolInv, PoolConsistent
<1>7. owner[k] # Nobody
  BY <1>1, ExecutionAssumption
<1> QED
  BY <1>1, <1>2, <1>4, <1>5, <1>6, <1>7 DEF Transactions

\* A fallback query begins a new transaction where nothing was written.
LEMMA FallBackKeepsTransactions ==
    ASSUME TypeOK, PoolInv, Transactions, NEW c \in Callers, FallBack(c)
    PROVE  Transactions'
<1>1. PICK k \in Conns :
        /\ owner[k] = c /\ ~ broken[k]
        /\ uncommitted' = [uncommitted EXCEPT ![k] = {}]
  BY DEF FallBack
<1>2. Here(c) = "fallback" /\ Proceed(c) /\ UNCHANGED <<call, owner, broken>>
  BY DEF FallBack, At, Here, poolVars
<1>3. uncommitted[k] = {}
  BY <1>1, <1>2, NothingBehindFallback DEF Transactions
<1>4. uncommitted' = uncommitted
  BY <1>1, <1>3 DEF TypeOK
<1> QED
  BY <1>2, <1>4, ReadKeepsTransactions DEF Ending, Changing

\* A connection that changes hands has an empty transaction, and so has its new
\* owner, which is only at the start of its block.
LEMMA HandOverKeepsTransactions ==
    ASSUME TypeOK, PoolInv, Transactions, NEW c \in Callers, phase[c] = "running",
           NEW k \in Conns, owner[k] = c, GiveBack(k), HandOver(c), call' = call,
           uncommitted' = [uncommitted EXCEPT ![k] = {}]
    PROVE  Transactions'
<1>1. /\ uncommitted'[k] = {} /\ ~ broken'[k]
      /\ \A l \in Conns \ {k} : uncommitted'[l] = uncommitted[l] /\ broken'[l] = broken[l]
  BY DEF GiveBack, TypeOK
<1>2. ASSUME NEW d \in Callers, owner'[k] = d
      PROVE  uncommitted'[k] = {<<d, i>> : i \in Behind(d)'}
  <2>1. Here(d) = "borrow" /\ step'[d] = step[d] + 1
    BY <1>2, HandOverEffect, ExecutionAssumption
  <2>2. Behind(d)' = {}
    BY <2>1, BeforeBlock, MovingOn DEF Changing
  <2> QED
    BY <1>1, <2>2
<1>3. ASSUME NEW l \in Conns \ {k}, NEW d \in Callers, owner'[l] = d
      PROVE  owner[l] = d /\ Behind(d)' = Behind(d)
  <2>1. owner[l] = d /\ d # c
    BY <1>3, HandOverEffect, ExecutionAssumption DEF PoolInv, PoolConsistent
  <2>2. owner'[k] # d
    <3>1. phase[d] = "running"
      BY <2>1 DEF PoolInv, PoolConsistent, Holds
    <3> QED
      BY <3>1, HandOverEffect, ExecutionAssumption
  <2>3. step'[d] = step[d]
    BY <2>1, <2>2, HandOverEffect
  <2> QED
    BY <2>1, <2>3, StayingPut
<1>4. \A l \in Conns \ {k} : owner'[l] = owner[l]
  BY HandOverEffect
<1> QED
  BY <1>1, <1>2, <1>3, <1>4 DEF Transactions

-------------------------------------------------------------------------------
(* Effects and answers *)

Told == Pending /\ AllOrNothing /\ AnswerTruthful

\* A step without a COMMIT changes nothing in the database, and may answer a call
\* that is not over with anything but "ok".
LEMMA NothingCommitted ==
    ASSUME TypeOK, Told, NEW c \in Callers, phase[c] # "settled", call' = call,
           \A d \in Callers : Landed(d)' = Landed(d),
           \A d \in Callers \ {c} :
              answer'[d] = answer[d] /\ (phase'[d] = "settled" <=> phase[d] = "settled"),
           doubt' = doubt,
           answer'[c] \in {answer[c], "error", "timeout"},
           phase'[c] # "settled" => answer'[c] \in {"none", "timeout"}
    PROVE  Told'
<1>1. \A d \in Callers : Writes(d)' = Writes(d)
  BY DEF Writes
<1>2. Landed(c)' = {} /\ answer'[c] # "ok"
  BY DEF Told, Pending
<1>3. Pending'
  BY <1>2 DEF Told, Pending
<1>4. AllOrNothing'
  BY <1>1 DEF Told, AllOrNothing
<1>5. AnswerTruthful'
  BY <1>1, <1>2 DEF Told, AnswerTruthful
<1> QED
  BY <1>3, <1>4, <1>5 DEF Told

\* What has landed is what it was when neither the calls nor the database change.
LEMMA SameLanded ==
    ASSUME NEW d \in Callers, call' = call, durable' = durable
    PROVE  Landed(d)' = Landed(d) /\ Writes(d)' = Writes(d)
  BY DEF Landed, Writes

\* A signal is not a write.
LEMMA SignalLandsNothing ==
    ASSUME TypeOK, NEW c \in Callers, Here(c) \in AtOnce, call' = call,
           durable' = durable \cup {<<c, step[c]>>}, NEW d \in Callers
    PROVE  Landed(d)' = Landed(d)
  BY DEF Landed, Writes, Here, Changing, AtOnce

\* The reply to the client of a call that is running.
LEMMA Replied ==
    ASSUME TypeOK, Told, NEW c \in Callers, phase[c] # "settled",
           NEW what, Reply(c, what)
    PROVE  /\ answer'[c] \in {what, "timeout"}
           /\ answer'[c] = "timeout" => answer[c] = "timeout" \/ what = "timeout"
           /\ \A d \in Callers \ {c} : answer'[d] = answer[d]
  BY DEF Reply, TypeOK, Told, Pending

\* COMMIT: everything the script has written lands, and nothing of others.
LEMMA AllLands ==
    ASSUME TypeOK, PoolInv, Transactions, Told, NEW c \in Callers,
           phase[c] = "running", Here(c) \in Ending, NEW k \in Conns, owner[k] = c,
           durable' = durable \cup uncommitted[k], call' = call
    PROVE  /\ ~ broken[k] => Landed(c)' = Writes(c)
           /\ uncommitted[k] = {} => Landed(c)' = {}
           /\ broken[k] => uncommitted[k] = {}
           /\ \A d \in Callers \ {c} : Landed(d)' = Landed(d)
           /\ \A d \in Callers : Writes(d)' = Writes(d)
<1>1. ~ broken[k] => uncommitted[k] = {<<c, i>> : i \in Writes(c)}
  BY AllBehind DEF Transactions
<1>2. \A d \in Callers : Writes(d)' = Writes(d)
  BY DEF Writes
<1>3. Landed(c) = {}
  BY DEF Told, Pending
<1>4. broken[k] => uncommitted[k] = {}
  BY DEF Transactions
<1>5. ASSUME ~ broken[k] PROVE Landed(c)' = Writes(c)
  BY <1>1, <1>2, <1>5 DEF Landed
<1>6. ASSUME uncommitted[k] = {} PROVE Landed(c)' = {}
  <2>1. durable' = durable
    BY <1>6
  <2> QED
    BY <1>3, <2>1, SameLanded
<1>7. ASSUME NEW d \in Callers \ {c} PROVE Landed(d)' = Landed(d)
  <2>1. \A i : <<d, i>> \in durable' <=> <<d, i>> \in durable
    BY <1>1, <1>4
  <2> QED
    BY <1>2, <2>1 DEF Landed
<1> QED
  BY <1>2, <1>4, <1>5, <1>6, <1>7

\* A call whose COMMIT is acknowledged is answered truthfully.
LEMMA ReturnTells ==
    ASSUME TypeOK, PoolInv, Transactions, Told, NEW c \in Callers, Return(c)
    PROVE  Told'
<1>1. PICK k \in Conns :
        /\ owner[k] = c /\ ~ broken[k] /\ durable' = durable \cup uncommitted[k]
        /\ GiveBack(k)
  BY DEF Return
<1>2. /\ phase[c] = "running" /\ Here(c) \in {"return", "sorry"} /\ call' = call
      /\ doubt' = doubt /\ HandOver(c) /\ Reply(c, Outcome(c))
  BY DEF Return, At, Here
<1>3. /\ Landed(c)' = Writes(c)
      /\ \A d \in Callers \ {c} : Landed(d)' = Landed(d)
      /\ \A d \in Callers : Writes(d)' = Writes(d)
  BY <1>1, <1>2, AllLands DEF Ending
<1>4. /\ answer'[c] \in {"ok", "sorry", "timeout"}
      /\ \A d \in Callers \ {c} : answer'[d] = answer[d]
  <2>1. Outcome(c) \in {"ok", "sorry"}
    BY DEF Outcome
  <2>2. phase[c] # "settled"
    BY <1>2
  <2> QED
    BY <1>2, <2>1, <2>2, Replied
<1>5. phase'[c] = "settled" /\ \A d \in Callers \ {c} :
        phase'[d] = "settled" <=> phase[d] = "settled"
  BY <1>1, <1>2, HandOverEffect, ExecutionAssumption
<1>6. Pending'
  BY <1>2, <1>3, <1>4, <1>5 DEF Told, Pending
<1>7. AllOrNothing'
  BY <1>3 DEF Told, AllOrNothing
<1>8. AnswerTruthful'
  BY <1>2, <1>3, <1>4 DEF Told, AnswerTruthful
<1> QED
  BY <1>6, <1>7, <1>8 DEF Told

\* A call whose COMMIT is not acknowledged is told of an error; if it wrote
\* anything, whether that has landed is in doubt.
LEMMA CommitFailsTells ==
    ASSUME TypeOK, PoolInv, Transactions, Told, NEW c \in Callers, CommitFails(c)
    PROVE  Told'
<1>1. PICK k \in Conns :
        /\ owner[k] = c
        /\ durable' \in {durable, durable \cup uncommitted[k]}
        /\ doubt' = [doubt EXCEPT ![c] = uncommitted[k] # {}]
        /\ Abandon(c, k)
  BY DEF CommitFails
<1>2. /\ phase[c] = "running" /\ Here(c) \in {"return", "sorry"} /\ call' = call
      /\ GiveBack(k) /\ HandOver(c) /\ Reply(c, "error")
  BY <1>1 DEF CommitFails, At, Here, Abandon
<1>3. /\ Landed(c)' \in {{}, Writes(c)}
      /\ uncommitted[k] = {} => Landed(c)' = {}
      /\ \A d \in Callers \ {c} : Landed(d)' = Landed(d)
      /\ \A d \in Callers : Writes(d)' = Writes(d)
  <2>1. CASE durable' = durable
    BY <1>2, <2>1, SameLanded DEF Told, Pending
  <2>2. CASE durable' = durable \cup uncommitted[k]
    BY <1>1, <1>2, <2>2, AllLands DEF Ending
  <2> QED
    BY <1>1, <2>1, <2>2
<1>4. /\ answer'[c] \in {"error", "timeout"}
      /\ \A d \in Callers \ {c} : answer'[d] = answer[d]
  <2>1. phase[c] # "settled"
    BY <1>2
  <2> QED
    BY <1>2, <2>1, Replied
<1>5. phase'[c] = "settled" /\ \A d \in Callers \ {c} :
        phase'[d] = "settled" <=> phase[d] = "settled"
  BY <1>1, <1>2, HandOverEffect, ExecutionAssumption
<1>6. /\ doubt'[c] = (uncommitted[k] # {})
      /\ \A d \in Callers \ {c} : doubt'[d] = doubt[d]
  BY <1>1 DEF TypeOK
<1>7. Pending'
  BY <1>3, <1>4, <1>5, <1>6 DEF Told, Pending
<1>8. AllOrNothing'
  BY <1>3 DEF Told, AllOrNothing
<1>9. ~ doubt'[c] => Landed(c)' = {}
  BY <1>3, <1>6
<1>10. AnswerTruthful'
  BY <1>3, <1>4, <1>6, <1>9 DEF Told, AnswerTruthful
<1> QED
  BY <1>7, <1>8, <1>10 DEF Told

\* A new call has changed nothing yet.
LEMMA StartTells ==
    ASSUME TypeOK, Told, NEW c \in Callers, Start(c)
    PROVE  Told'
<1>1. /\ phase'[c] = "running" /\ answer'[c] = "none" /\ ~ doubt'[c]
      /\ \A d \in Callers \ {c} :
            /\ phase'[d] = phase[d] /\ answer'[d] = answer[d]
            /\ doubt'[d] = doubt[d] /\ call'[d] = call[d]
  BY DEF Start, TypeOK
<1>2. durable' = {w \in durable : w[1] # c}
  BY DEF Start
<1>3. Landed(c)' = {}
  BY <1>2 DEF Landed
<1>4. \A d \in Callers \ {c} : Landed(d)' = Landed(d) /\ Writes(d)' = Writes(d)
  BY <1>1, <1>2 DEF Landed, Writes
<1>5. Pending'
  BY <1>1, <1>3, <1>4 DEF Told, Pending
<1>6. AllOrNothing'
  BY <1>3, <1>4 DEF Told, AllOrNothing
<1>7. AnswerTruthful'
  BY <1>1, <1>4 DEF Told, AnswerTruthful
<1> QED
  BY <1>5, <1>6, <1>7 DEF Told

-------------------------------------------------------------------------------
(* Audit records *)

\* A step that is not an audit record puts none behind its caller.
LEMMA ProceedKeepsRecords ==
    ASSUME TypeOK, Recorded, NEW c \in Callers, Here(c) \notin Ending \cup {"audit"},
           Proceed(c), UNCHANGED <<call, audit>>
    PROVE  Recorded'
<1>1. step'[c] = step[c] + 1 /\ \A d \in Callers \ {c} : step'[d] = step[d]
  BY ProceedTyped
<1>2. Passed(c, {"audit"})' <=> Passed(c, {"audit"})
  BY <1>1, MovingOn
<1>3. \A d \in Callers \ {c} : Passed(d, {"audit"})' <=> Passed(d, {"audit"})
  BY <1>1, StayingPut
<1> QED
  BY <1>2, <1>3 DEF Recorded

\* A caller that stays where it is has the records it had.
LEMMA StayingKeepsRecords ==
    ASSUME Recorded, UNCHANGED <<call, step, audit>>
    PROVE  Recorded'
  BY DEF Recorded, Passed

\* The caller that gets a connection is at the start of its block.
LEMMA HandOverKeepsRecords ==
    ASSUME TypeOK, PoolInv, Recorded, NEW c \in Callers, phase[c] = "running",
           NEW k \in Conns, owner[k] = c, GiveBack(k), HandOver(c),
           UNCHANGED <<call, audit>>
    PROVE  Recorded'
<1>1. ASSUME NEW d \in Callers
      PROVE  Passed(d, {"audit"})' <=> Passed(d, {"audit"})
  <2>1. CASE owner'[k] = d
    <3>1. step'[d] = step[d] + 1 /\ Here(d) = "borrow"
      BY <2>1, HandOverEffect, ExecutionAssumption
    <3> QED
      BY <3>1, MovingOn
  <2>2. CASE owner'[k] # d
    <3>1. step'[d] = step[d]
      BY <2>2, HandOverEffect
    <3> QED
      BY <3>1, StayingPut
  <2> QED
    BY <2>1, <2>2
<1> QED
  BY <1>1 DEF Recorded

-------------------------------------------------------------------------------
(* The inductive invariant *)

\* The server starts with all of its connections in the pool.
LEMMA InitEstablishes == Init => IInv
<1> SUFFICES ASSUME Init PROVE IInv
  OBVIOUS
<1> USE ExecutionAssumption
<1>1. \A c \in Callers : /\ call[c] \in Calls[c] /\ step[c] = 1 /\ phase[c] = "idle"
                         /\ WellFormed(call[c].script)
  BY DEF Init
<1>2. \A c \in Callers : 1 \in DOMAIN call[c].script
  <2> TAKE c \in Callers
  <2>1. call[c].script \in Seq(Kinds) /\ call[c].script # <<>>
    BY <1>1 DEF WellFormed
  <2> QED
    BY <2>1
<1>3. call \in [Callers -> UNION {Calls[c] : c \in Callers}]
  BY <1>1 DEF Init
<1>4. TypeOK
  BY <1>1, <1>2, <1>3 DEF Init, TypeOK
<1>5. \A c \in Callers : \A kinds : ~ Passed(c, kinds)
  BY <1>1 DEF Passed
<1>6. \A c \in Callers : ~ Holds(c)
  BY DEF Init, Holds
<1>7. PoolInv
  BY <1>1, <1>6 DEF Init, PoolInv, PoolConsistent
<1>8. Transactions
  BY DEF Init, Transactions
<1>9. Told
  BY DEF Init, Told, Pending, AllOrNothing, AnswerTruthful, Landed
<1>10. Recorded
  BY <1>5 DEF Recorded
<1> QED
  BY <1>4, <1>7, <1>8, <1>9, <1>10 DEF IInv, Told

\* Reads and signals.
LEMMA ReadPreserves ==
    ASSUME IInv, NEW c \in Callers, ExecuteRead(c) \/ ExecuteSignal(c)
    PROVE  IInv'
<1>1. /\ phase[c] = "running" /\ Here(c) \in {"read", "raw", "fallback", "query"} \cup AtOnce
      /\ Proceed(c)
      /\ UNCHANGED <<phase, call, audit, faulted, doubt, answer, poolVars, uncommitted>>
  BY DEF ExecuteRead, ExecuteSignal, At, Here, dbVars
<1>2. /\ TypeOK /\ PoolInv /\ Transactions /\ Told /\ Recorded
  BY DEF IInv, Told
<1>3. durable' \in SUBSET (Callers \X Nat)
  BY <1>2 DEF ExecuteRead, ExecuteSignal, dbVars, TypeOK
<1>4. TypeOK'
  BY <1>1, <1>2, <1>3, ProceedTyped DEF TypeOK, poolVars, Ending, AtOnce
<1>5. PoolInv'
  BY <1>1, <1>2, ProceedKeepsPool DEF poolVars, Ending, AtOnce
<1>6. Transactions'
  BY <1>1, <1>2, ReadKeepsTransactions DEF poolVars, Ending, Changing, AtOnce
<1>7. \A d \in Callers : Landed(d)' = Landed(d)
  <2>1. CASE ExecuteRead(c)
    BY <1>1, <2>1, SameLanded DEF ExecuteRead, dbVars
  <2>2. CASE ExecuteSignal(c)
    BY <1>1, <1>2, <2>2, SignalLandsNothing DEF ExecuteSignal, At, Here
  <2> QED
    BY <2>1, <2>2
<1>8. Told'
  BY <1>1, <1>2, <1>7, NothingCommitted DEF Told, Pending
<1>9. Recorded'
  BY <1>1, <1>2, ProceedKeepsRecords DEF Ending, AtOnce
<1> QED
  BY <1>4, <1>5, <1>6, <1>8, <1>9 DEF IInv, Told

\* Writes and fallback queries.
LEMMA WritePreserves ==
    ASSUME IInv, NEW c \in Callers, ExecuteWrite(c) \/ FallBack(c)
    PROVE  IInv'
<1>1. /\ phase[c] = "running" /\ Here(c) \in Changing \cup {"fallback"} /\ Proceed(c)
      /\ UNCHANGED <<phase, call, audit, faulted, doubt, answer, poolVars, durable>>
  BY DEF ExecuteWrite, FallBack, At, Here
<1>2. /\ TypeOK /\ PoolInv /\ Transactions /\ Told /\ Recorded
  BY DEF IInv, Told
<1>3. uncommitted' \in [Conns -> SUBSET (Callers \X Nat)]
  <2>1. <<c, step[c]>> \in Callers \X Nat
    BY <1>2 DEF TypeOK
  <2>2. CASE ExecuteWrite(c)
    BY <1>2, <2>1, <2>2 DEF ExecuteWrite, TypeOK
  <2>3. CASE FallBack(c)
    BY <1>2, <2>3 DEF FallBack, TypeOK
  <2> QED
    BY <2>2, <2>3
<1>4. TypeOK'
  BY <1>1, <1>2, <1>3, ProceedTyped DEF TypeOK, poolVars, Ending, Changing
<1>5. PoolInv'
  BY <1>1, <1>2, ProceedKeepsPool DEF poolVars, Ending, Changing
<1>6. Transactions'
  BY <1>2, WriteKeepsTransactions, FallBackKeepsTransactions
<1>7. \A d \in Callers : Landed(d)' = Landed(d)
  BY <1>1, SameLanded
<1>8. Told'
  BY <1>1, <1>2, <1>7, NothingCommitted DEF Told, Pending
<1>9. Recorded'
  BY <1>1, <1>2, ProceedKeepsRecords DEF Ending, Changing
<1> QED
  BY <1>4, <1>5, <1>6, <1>8, <1>9 DEF IInv, Told

\* Audit records, kept or lost.
LEMMA AuditPreserves ==
    ASSUME IInv, NEW c \in Callers, AuditKept(c) \/ AuditLost(c)
    PROVE  IInv'
<1> USE ExecutionAssumption
<1>1. /\ phase[c] = "running" /\ Here(c) = "audit"
      /\ UNCHANGED <<call, doubt, poolVars, dbVars>>
  BY DEF AuditKept, AuditLost, At, Here
<1>2. /\ TypeOK /\ PoolInv /\ Transactions /\ Told /\ Recorded
  BY DEF IInv, Told
<1>3. ~ Holds(c)
  BY <1>1, <1>2, BeforeBlock DEF PoolInv, PoolConsistent
<1>4. \A d \in Callers : Landed(d)' = Landed(d)
  BY <1>1, SameLanded DEF dbVars
<1>5. CASE Proceed(c) /\ UNCHANGED <<phase, answer>>
           /\ (AuditKept(c) \/ (AuditLost(c) /\ ~ AuditRequired))
  <2>1. /\ audit'[c] = "kept" \/ (audit'[c] = "lost" /\ ~ AuditRequired)
        /\ \A d \in Callers \ {c} : audit'[d] = audit[d]
        /\ audit' \in [Callers -> {"none", "kept", "lost"}]
        /\ faulted' \in [Callers -> BOOLEAN]
    BY <1>2, <1>5 DEF AuditKept, AuditLost, Fault, TypeOK
  <2>2. TypeOK'
    BY <1>1, <1>2, <1>5, <2>1, ProceedTyped DEF TypeOK, poolVars, dbVars, Ending
  <2>3. PoolInv'
    BY <1>1, <1>2, <1>5, ProceedKeepsPool DEF poolVars, Ending
  <2>4. Transactions'
    BY <1>1, <1>2, <1>5, ReadKeepsTransactions DEF poolVars, dbVars, Ending, Changing
  <2>5. Told'
    BY <1>1, <1>2, <1>4, <1>5, NothingCommitted DEF Told, Pending
  <2>6. \A d \in Callers \ {c} : Passed(d, {"audit"})' <=> Passed(d, {"audit"})
    BY <1>1, <1>2, <1>5, ProceedTyped, StayingPut DEF Ending
  <2>7. Recorded'
    BY <1>2, <2>1, <2>6 DEF Recorded
  <2> QED
    BY <2>2, <2>3, <2>4, <2>5, <2>7 DEF IInv, Told
<1>6. CASE AuditLost(c) /\ Settle(c, "error") /\ UNCHANGED step
  <2>1. /\ audit' = [audit EXCEPT ![c] = "lost"]
        /\ faulted' = [faulted EXCEPT ![c] = TRUE]
        /\ phase' = [phase EXCEPT ![c] = "settled"]
        /\ Reply(c, "error")
    BY <1>6 DEF AuditLost, Fault, Settle
  <2>2. TypeOK'
    BY <1>1, <1>2, <1>6, <2>1 DEF TypeOK, poolVars, dbVars, Reply
  <2>3. PoolInv'
    BY <1>1, <1>2, <1>3, <1>6, <2>1, SettleKeepsPool DEF poolVars
  <2>4. Transactions'
    BY <1>1, <1>2, <1>6, NothingWritten DEF poolVars, dbVars
  <2>5. /\ phase'[c] = "settled" /\ \A d \in Callers \ {c} : phase'[d] = phase[d]
        /\ answer'[c] \in {"error", "timeout"}
        /\ \A d \in Callers \ {c} : answer'[d] = answer[d]
    BY <1>1, <1>2, <2>1, Replied DEF TypeOK
  <2>6. Told'
    BY <1>1, <1>2, <1>4, <2>5, NothingCommitted
  <2>7. ~ Passed(c, {"audit"})
    BY <1>1, <1>2, ScriptShape DEF WellFormed, Here, Passed
  <2>8. \A d \in Callers : Passed(d, {"audit"})' <=> Passed(d, {"audit"})
    BY <1>1, <1>6, StayingPut
  <2>9. Recorded'
    BY <1>2, <2>1, <2>7, <2>8 DEF Recorded, TypeOK
  <2> QED
    BY <2>2, <2>3, <2>4, <2>6, <2>9 DEF IInv, Told
<1> QED
  BY <1>5, <1>6 DEF AuditKept, AuditLost

\* The end of a call that has no connection: it is turned away, gives up waiting,
\* or raises before its block.
LEMMA SettlePreserves ==
    ASSUME IInv, NEW c \in Callers,
           TurnedAway(c) \/ WaitTimesOut(c) \/ RaiseUnconnected(c)
    PROVE  IInv'
<1> USE ExecutionAssumption
<1>1. /\ phase[c] \in {"running", "waiting"} /\ Settle(c, "error")
      /\ UNCHANGED <<call, step, audit, doubt, owner, broken, uncommitted, durable>>
      /\ faulted' \in {faulted, [faulted EXCEPT ![c] = TRUE]}
  BY DEF TurnedAway, WaitTimesOut, RaiseUnconnected, At, Fault, poolVars, dbVars
<1>2. /\ TypeOK /\ PoolInv /\ Transactions /\ Told /\ Recorded
  BY DEF IInv, Told
<1>3. PoolInv' /\ queue' \in Seq(Callers)
  <2>1. CASE WaitTimesOut(c)
    BY <1>2, <2>1, WaitTimesOutKeepsPool
  <2>2. CASE TurnedAway(c) \/ RaiseUnconnected(c)
    <3>1. phase[c] = "running" /\ UNCHANGED queue
      BY <2>2 DEF TurnedAway, RaiseUnconnected, At, poolVars
    <3>2. ~ Holds(c)
      <4>1. CASE TurnedAway(c)
        BY <1>2, <4>1, BeforeBlock DEF TurnedAway, At, Here, PoolInv, PoolConsistent
      <4> QED
        BY <2>2, <4>1 DEF RaiseUnconnected
    <3> QED
      BY <1>1, <1>2, <3>1, <3>2, SettleKeepsPool DEF Settle, TypeOK
  <2> QED
    BY <2>1, <2>2
<1>4. TypeOK'
  BY <1>1, <1>2, <1>3 DEF TypeOK, Settle, Reply
<1>5. Transactions'
  BY <1>1, <1>2, NothingWritten
<1>6. /\ phase'[c] = "settled" /\ \A d \in Callers \ {c} : phase'[d] = phase[d]
      /\ answer'[c] \in {"error", "timeout"}
      /\ \A d \in Callers \ {c} : answer'[d] = answer[d]
  BY <1>1, <1>2, Replied DEF TypeOK, Settle
<1>7. Told'
  <2>1. \A d \in Callers : Landed(d)' = Landed(d)
    BY <1>1, SameLanded
  <2>2. phase[c] # "settled"
    BY <1>1
  <2> QED
    BY <1>1, <1>2, <1>6, <2>1, <2>2, NothingCommitted
<1>8. Recorded'
  BY <1>1, <1>2, StayingKeepsRecords
<1> QED
  BY <1>3, <1>4, <1>5, <1>7, <1>8 DEF IInv, Told

\* Types when a connection changes hands.
LEMMA HandOverTyped ==
    ASSUME TypeOK, PoolInv, NEW c \in Callers, phase[c] = "running",
           NEW k \in Conns, owner[k] = c, GiveBack(k), HandOver(c), call' = call
    PROVE  /\ phase' \in [Callers -> {"idle", "running", "waiting", "settled"}]
           /\ step' \in [Callers -> Nat]
           /\ \A d \in Callers : step'[d] \in DOMAIN call'[d].script
           /\ owner' \in [Conns -> Callers \cup {Nobody}]
           /\ broken' \in [Conns -> BOOLEAN]
           /\ queue' \in Seq(Callers)
<1>1. phase' \in [Callers -> {"idle", "running", "waiting", "settled"}]
  <2>1. phase \in [Callers -> {"idle", "running", "waiting", "settled"}]
    BY DEF TypeOK
  <2>2. phase' = [d \in Callers |->
                    IF d = c THEN "settled"
                    ELSE IF queue # <<>> /\ d = Head(queue) THEN "running"
                    ELSE phase[d]]
    BY DEF HandOver
  <2> QED
    BY <2>1, <2>2
<1>2. step' \in [Callers -> Nat]
  <2>1. step' = [d \in Callers |->
                   IF queue # <<>> /\ d = Head(queue) THEN step[d] + 1 ELSE step[d]]
    BY DEF HandOver
  <2>2. \A d \in Callers : step[d] \in Nat /\ step[d] + 1 \in Nat
    BY DEF TypeOK
  <2> QED
    BY <2>1, <2>2
<1>3. ASSUME NEW d \in Callers PROVE step'[d] \in DOMAIN call'[d].script
  <2>1. CASE owner'[k] = d
    <3>1. step'[d] = step[d] + 1 /\ Here(d) = "borrow"
      BY <2>1, HandOverEffect, ExecutionAssumption
    <3> QED
      BY <3>1, NextStep DEF Ending
  <2>2. CASE owner'[k] # d
    <3>1. step'[d] = step[d]
      BY <2>2, HandOverEffect
    <3> QED
      BY <3>1 DEF TypeOK
  <2> QED
    BY <2>1, <2>2
<1>4. broken' \in [Conns -> BOOLEAN]
  BY DEF GiveBack, TypeOK
<1>5. queue # <<>> => Head(queue) \in Callers /\ Tail(queue) \in Seq(Callers)
  BY DEF TypeOK
<1>6. owner' \in [Conns -> Callers \cup {Nobody}] /\ queue' \in Seq(Callers)
  BY <1>5 DEF GiveBack, TypeOK
<1> QED
  BY <1>1, <1>2, <1>3, <1>4, <1>6

\* The end of a call that has a connection: a statement or the COMMIT fails, it
\* raises, or it returns.
LEMMA GiveBackPreserves ==
    ASSUME IInv, NEW c \in Callers,
           StatementFails(c) \/ SoloRefused(c) \/ RaiseConnected(c) \/ Return(c) \/ CommitFails(c)
    PROVE  IInv'
<1> USE ExecutionAssumption
<1>1. PICK k \in Conns :
        /\ owner[k] = c
        /\ uncommitted' = [uncommitted EXCEPT ![k] = {}]
        /\ GiveBack(k)
        /\ HandOver(c)
        /\ durable' \in {durable, durable \cup uncommitted[k]}
  BY DEF StatementFails, SoloRefused, RaiseConnected, Return, CommitFails, Abandon
<1>2. /\ phase[c] = "running" /\ UNCHANGED <<call, audit>>
      /\ \E what \in {"error", "ok", "sorry"} : Reply(c, what)
  BY DEF StatementFails, SoloRefused, RaiseConnected, Return, CommitFails, Abandon, At,
         Outcome
<1>3. /\ TypeOK /\ PoolInv /\ Transactions /\ Told /\ Recorded
  BY DEF IInv, Told
<1>4. TypeOK'
  <2>1. /\ answer' \in [Callers -> {"none", "ok", "sorry", "error", "timeout"}]
    BY <1>2, <1>3 DEF Reply, TypeOK
  <2>2. faulted' \in [Callers -> BOOLEAN]
    BY <1>3 DEF StatementFails, SoloRefused, RaiseConnected, Return, CommitFails, Fault, TypeOK
  <2>3. doubt' \in [Callers -> BOOLEAN]
    <3>1. CASE CommitFails(c)
      BY <1>3, <3>1 DEF CommitFails, TypeOK
    <3>2. CASE ~ CommitFails(c)
      BY <1>3, <3>2 DEF StatementFails, SoloRefused, RaiseConnected, Return, TypeOK
    <3> QED
      BY <3>1, <3>2
  <2>4. /\ uncommitted' \in [Conns -> SUBSET (Callers \X Nat)]
        /\ durable' \in SUBSET (Callers \X Nat)
    BY <1>1, <1>3 DEF TypeOK
  <2>5. /\ phase' \in [Callers -> {"idle", "running", "waiting", "settled"}]
        /\ step' \in [Callers -> Nat]
        /\ \A d \in Callers : step'[d] \in DOMAIN call'[d].script
        /\ owner' \in [Conns -> Callers \cup {Nobody}]
        /\ broken' \in [Conns -> BOOLEAN]
        /\ queue' \in Seq(Callers)
    BY <1>1, <1>2, <1>3, HandOverTyped
  <2> QED
    BY <1>2, <1>3, <2>1, <2>2, <2>3, <2>4, <2>5 DEF TypeOK
<1>5. PoolInv'
  BY <1>1, <1>2, <1>3, HandOverKeepsPool
<1>6. Transactions'
  BY <1>1, <1>2, <1>3, HandOverKeepsTransactions
<1>7. Recorded'
  BY <1>1, <1>2, <1>3, HandOverKeepsRecords
<1>8. Told'
  <2>1. CASE Return(c)
    BY <1>3, <2>1, ReturnTells
  <2>2. CASE CommitFails(c)
    BY <1>3, <2>2, CommitFailsTells
  <2>3. CASE StatementFails(c) \/ SoloRefused(c) \/ RaiseConnected(c)
    <3>1. durable' = durable /\ doubt' = doubt /\ Reply(c, "error")
      BY <2>3 DEF StatementFails, SoloRefused, RaiseConnected, Abandon
    <3>2. \A d \in Callers : Landed(d)' = Landed(d)
      BY <1>2, <3>1, SameLanded
    <3>3. phase'[c] = "settled" /\ \A d \in Callers \ {c} :
            phase'[d] = "settled" <=> phase[d] = "settled"
      BY <1>1, <1>2, <1>3, HandOverEffect
    <3>4. phase[c] # "settled"
      BY <1>2
    <3>5. /\ answer'[c] \in {"error", "timeout"}
          /\ \A d \in Callers \ {c} : answer'[d] = answer[d]
      BY <1>3, <3>1, <3>4, Replied
    <3> QED
      BY <1>2, <1>3, <3>1, <3>2, <3>3, <3>4, <3>5, NothingCommitted
  <2> QED
    BY <2>1, <2>2, <2>3
<1> QED
  BY <1>4, <1>5, <1>6, <1>7, <1>8 DEF IInv, Told

\* A call that gets its connection at once.
LEMMA BorrowPreserves == ASSUME IInv, NEW c \in Callers, Borrow(c) PROVE IInv'
<1>1. PICK k \in Conns : owner[k] = Nobody /\ owner' = [owner EXCEPT ![k] = c]
  BY DEF Borrow
<1>2. /\ phase[c] = "running" /\ Here(c) = "borrow" /\ Proceed(c)
      /\ UNCHANGED <<phase, call, audit, faulted, doubt, answer, broken, queue, dbVars>>
  BY DEF Borrow, At, Here
<1>3. /\ TypeOK /\ PoolInv /\ Transactions /\ Told /\ Recorded
  BY DEF IInv, Told
<1>4. owner' \in [Conns -> Callers \cup {Nobody}]
  BY <1>1, <1>3 DEF TypeOK
<1>5. TypeOK'
  BY <1>2, <1>3, <1>4, ProceedTyped DEF TypeOK, dbVars, Ending
<1>6. PoolInv'
  BY <1>3, BorrowKeepsPool
<1>7. Transactions'
  <2>1. /\ owner'[k] = c /\ \A l \in Conns \ {k} : owner'[l] = owner[l]
        /\ UNCHANGED <<broken, uncommitted>>
    BY <1>1, <1>2, <1>3 DEF TypeOK, dbVars
  <2>2. step'[c] = step[c] + 1 /\ \A d \in Callers \ {c} : step'[d] = step[d]
    BY <1>2, <1>3, ProceedTyped DEF Ending
  <2>3. Behind(c)' = {}
    BY <1>2, <1>3, <2>2, BeforeBlock, MovingOn DEF Changing
  <2>4. \A d \in Callers \ {c} : Behind(d)' = Behind(d)
    BY <1>2, <2>2, StayingPut
  <2>5. uncommitted[k] = {} /\ ~ broken[k]
    BY <1>1, <1>3 DEF Transactions
  <2>6. \A l \in Conns \ {k} : owner[l] # c
    BY <1>2, <1>3, BeforeBlock DEF PoolInv, PoolConsistent, Holds
  <2> QED
    BY <1>3, <2>1, <2>3, <2>4, <2>5, <2>6, ExecutionAssumption DEF Transactions
<1>8. Told'
  <2>1. \A d \in Callers : Landed(d)' = Landed(d)
    BY <1>2, SameLanded DEF dbVars
  <2> QED
    BY <1>2, <1>3, <2>1, NothingCommitted DEF Told, Pending
<1>9. Recorded'
  BY <1>2, <1>3, ProceedKeepsRecords DEF Ending
<1> QED
  BY <1>5, <1>6, <1>7, <1>8, <1>9 DEF IInv, Told

\* A call that has to wait, and a client that no longer does.
LEMMA WaitPreserves ==
    ASSUME IInv, NEW c \in Callers, Enqueue(c) \/ StopWaiting(c)
    PROVE  IInv'
<1>1. /\ phase[c] \in {"running", "waiting"}
      /\ UNCHANGED <<call, step, audit, faulted, doubt, owner, broken, dbVars>>
  BY DEF Enqueue, StopWaiting, At, poolVars
<1>2. /\ TypeOK /\ PoolInv /\ Transactions /\ Told /\ Recorded
  BY DEF IInv, Told
<1>3. PoolInv' /\ queue' \in Seq(Callers)
  <2>1. CASE Enqueue(c)
    BY <1>2, <2>1, EnqueueKeepsPool
  <2>2. CASE StopWaiting(c)
    <3>1. UNCHANGED <<phase, call, step, owner, queue>>
      BY <2>2 DEF StopWaiting, poolVars
    <3> QED
      BY <1>2, <3>1
      DEF PoolInv, PoolConsistent, Holds, Passed, AllOut, Here, TypeOK
  <2> QED
    BY <2>1, <2>2
<1>4. /\ phase' \in [Callers -> {"idle", "running", "waiting", "settled"}]
      /\ answer' \in [Callers -> {"none", "ok", "sorry", "error", "timeout"}]
      /\ phase'[c] # "settled" /\ answer'[c] \in {answer[c], "timeout"}
      /\ \A d \in Callers \ {c} : phase'[d] = phase[d] /\ answer'[d] = answer[d]
  BY <1>1, <1>2 DEF Enqueue, StopWaiting, TypeOK
<1>5. TypeOK'
  BY <1>1, <1>2, <1>3, <1>4 DEF TypeOK, dbVars
<1>6. Transactions'
  BY <1>1, <1>2, NothingWritten DEF dbVars
<1>7. Told'
  <2>1. \A d \in Callers : Landed(d)' = Landed(d)
    BY <1>1, SameLanded DEF dbVars
  <2>2. phase[c] # "settled" /\ answer[c] \in {"none", "timeout"}
    BY <1>1, <1>2 DEF Told, Pending
  <2> QED
    BY <1>1, <1>2, <1>4, <2>1, <2>2, NothingCommitted
<1>8. Recorded'
  BY <1>1, <1>2, StayingKeepsRecords
<1> QED
  BY <1>3, <1>5, <1>6, <1>7, <1>8 DEF IInv, Told

\* The next call of a client.
LEMMA StartPreserves == ASSUME IInv, NEW c \in Callers, Start(c) PROVE IInv'
<1> USE ExecutionAssumption
<1>1. /\ TypeOK /\ PoolInv /\ Transactions /\ Told /\ Recorded
  BY DEF IInv, Told
<1>2. PICK what \in Calls[c] : call' = [call EXCEPT ![c] = what]
  BY DEF Start
<1>3. /\ phase[c] \in {"idle", "settled"}
      /\ step'[c] = 1 /\ call'[c] = what
      /\ \A d \in Callers \ {c} : step'[d] = step[d] /\ call'[d] = call[d] /\ audit'[d] = audit[d]
      /\ UNCHANGED <<poolVars, uncommitted>>
  BY <1>1, <1>2 DEF Start, TypeOK
<1>4. TypeOK'
  <2>1. what.script \in Seq(Kinds) /\ what.script # <<>>
    BY DEF WellFormed
  <2>2. 1 \in DOMAIN what.script
    BY <2>1
  <2>3. \A d \in Callers : call'[d] \in Calls[d] /\ step'[d] \in DOMAIN call'[d].script
    BY <1>1, <1>3, <2>2 DEF TypeOK
  <2>4. call' \in [Callers -> UNION {Calls[d] : d \in Callers}]
    BY <1>1, <1>2 DEF TypeOK
  <2> QED
    BY <1>1, <2>3, <2>4 DEF Start, TypeOK, poolVars
<1>5. PoolInv'
  BY <1>1, StartKeepsPool
<1>6. \A k \in Conns : owner[k] # c
  BY <1>1, <1>3 DEF PoolInv, PoolConsistent, Holds
<1>7. \A d \in Callers \ {c} : Behind(d)' = Behind(d)
  BY <1>3 DEF Behind, Writes
<1>8. Transactions'
  BY <1>1, <1>3, <1>6, <1>7 DEF Transactions, poolVars
<1>9. Told'
  BY <1>1, StartTells
<1>10. Recorded'
  <2>1. ~ Passed(c, {"audit"})'
    BY <1>3 DEF Passed
  <2>2. \A d \in Callers \ {c} : Passed(d, {"audit"})' <=> Passed(d, {"audit"})
    BY <1>3 DEF Passed
  <2> QED
    BY <1>1, <1>3, <2>1, <2>2 DEF Recorded
<1> QED
  BY <1>4, <1>5, <1>8, <1>9, <1>10 DEF IInv, Told

\* The server drops a connection, and the transaction on it.
LEMMA DropPreserves == ASSUME IInv, NEW k \in Conns, ConnectionDrops(k) PROVE IInv'
<1>1. /\ owner[k] # Nobody
      /\ broken' = [broken EXCEPT ![k] = TRUE]
      /\ uncommitted' = [uncommitted EXCEPT ![k] = {}]
      /\ UNCHANGED <<phase, call, step, audit, faulted, doubt, answer, owner, queue, durable>>
  BY DEF ConnectionDrops, callVars
<1>2. TypeOK'
  BY <1>1 DEF IInv, TypeOK
<1>3. PoolInv'
  BY <1>1 DEF IInv, PoolInv, PoolConsistent, Holds, Passed, AllOut, Here
<1>4. /\ broken'[k] /\ uncommitted'[k] = {}
      /\ \A l \in Conns \ {k} : broken'[l] = broken[l] /\ uncommitted'[l] = uncommitted[l]
  BY <1>1 DEF IInv, TypeOK
<1>5. Transactions'
  BY <1>1, <1>4 DEF IInv, Transactions, Behind, Writes
<1>6. Pending' /\ AllOrNothing' /\ AnswerTruthful' /\ Recorded'
  BY <1>1
  DEF IInv, Pending, AllOrNothing, AnswerTruthful, Recorded, Landed, Writes, Passed
<1> QED
  BY <1>2, <1>3, <1>5, <1>6 DEF IInv

\* No step of a caller, of its client, of the pool or of the server breaks it.
LEMMA StepPreserves == IInv /\ [Next]_vars => IInv'
<1> SUFFICES ASSUME IInv, [Next]_vars PROVE IInv'
  OBVIOUS
<1>1. ASSUME NEW c \in Callers, Work(c) PROVE IInv'
  BY <1>1, BorrowPreserves, WaitPreserves, SettlePreserves, AuditPreserves, ReadPreserves,
     WritePreserves, GiveBackPreserves
  DEF Work, Execute, Finish
<1>2. ASSUME NEW c \in Callers, Start(c) \/ WaitTimesOut(c) \/ StopWaiting(c) PROVE IInv'
  BY <1>2, StartPreserves, SettlePreserves, WaitPreserves
<1>3. ASSUME NEW k \in Conns, ConnectionDrops(k) PROVE IInv'
  BY <1>3, DropPreserves
<1>4. CASE UNCHANGED vars
  <2>1. TypeOK'
    BY <1>4 DEF vars, callVars, poolVars, dbVars, IInv, TypeOK
  <2>2. PoolInv'
    BY <1>4
    DEF vars, callVars, poolVars, IInv, PoolInv, PoolConsistent, Holds, Passed, AllOut, Here
  <2>3. Transactions'
    BY <1>4, NothingWritten DEF vars, callVars, poolVars, dbVars, IInv
  <2>4. Pending' /\ AllOrNothing' /\ AnswerTruthful' /\ Recorded'
    BY <1>4
    DEF vars, callVars, dbVars, IInv, Pending, AllOrNothing, AnswerTruthful, Recorded,
        Landed, Writes, Passed
  <2> QED
    BY <2>1, <2>2, <2>3, <2>4 DEF IInv
<1> QED
  BY <1>1, <1>2, <1>3, <1>4 DEF Next

\* The inductive invariant holds in every state the server reaches.
THEOREM Invariance == Spec => []IInv
  BY InitEstablishes, StepPreserves, PTL DEF Spec

-------------------------------------------------------------------------------
(* The properties *)

\* The state of calls, pool and database has its type; in particular no call
\* runs off the end of its script.
THEOREM TypeCorrect == Spec => []TypeOK
  BY Invariance, PTL DEF IInv

\* Connections and waiting line are consistent: none leaks, none is lent twice,
\* nobody waits without need or is forgotten.
THEOREM PoolAlwaysConsistent == Spec => []PoolConsistent
  BY Invariance, PTL DEF IInv, PoolInv

\* A tool's writes reach the database all together or not at all.
THEOREM NoPartialEffects == Spec => []AllOrNothing
  BY Invariance, PTL DEF IInv

\* What a client is told is what has happened, unless a COMMIT was not
\* acknowledged.
THEOREM AnswersTruthful == Spec => []AnswerTruthful
  BY Invariance, PTL DEF IInv

\* Nothing of one call is left on a connection for the next.
THEOREM HandoversClean == Spec => []CleanHandover
<1>1. IInv => CleanHandover
  <2> SUFFICES ASSUME IInv, NEW k \in Conns, NEW w \in uncommitted[k]
               PROVE  owner[k] = w[1]
    BY DEF CleanHandover
  <2>1. owner[k] \in Callers /\ ~ broken[k]
    BY DEF IInv, Transactions, TypeOK
  <2>2. uncommitted[k] = {<<owner[k], i>> : i \in Behind(owner[k])}
    BY <2>1 DEF IInv, Transactions
  <2> QED
    BY <2>2
<1> QED
  BY <1>1, Invariance, PTL

\* A call that is over has no effects any more.
THEOREM NothingLate == Spec => NoLateEffects
<1> DEFINE Over ==
      \A c \in Callers : phase[c] = "settled" /\ phase'[c] = "settled"
                          => Landed(c)' = Landed(c)
<1>1. IInv /\ [Next]_vars => [Over]_vars
  <2> SUFFICES ASSUME IInv, Next, NEW c \in Callers, phase[c] = "settled", phase'[c] = "settled"
               PROVE  Landed(c)' = Landed(c)
    OBVIOUS
  <2>1. /\ TypeOK /\ PoolInv /\ Transactions /\ Told
    BY DEF IInv, Told
  <2>2. ASSUME NEW d \in Callers, Start(d) PROVE Landed(c)' = Landed(c)
    <3>1. d # c
      BY <2>1, <2>2 DEF Start, TypeOK
    <3> QED
      BY <2>1, <2>2, <3>1 DEF Start, TypeOK, Landed, Writes
  <2>3. ASSUME NEW d \in Callers, Return(d) \/ CommitFails(d) PROVE Landed(c)' = Landed(c)
    <3>1. /\ d # c /\ phase[d] = "running" /\ Here(d) \in Ending /\ call' = call
      BY <2>3 DEF Return, CommitFails, At, Here, Ending
    <3>2. PICK k \in Conns : owner[k] = d /\ durable' \in {durable, durable \cup uncommitted[k]}
      BY <2>3 DEF Return, CommitFails
    <3> QED
      BY <2>1, <3>1, <3>2, AllLands, SameLanded
  <2>4. ASSUME NEW d \in Callers, ExecuteSignal(d) PROVE Landed(c)' = Landed(c)
    BY <2>1, <2>4, SignalLandsNothing DEF ExecuteSignal, At, Here
  <2>5. CASE call' = call /\ durable' = durable
    BY <2>5, SameLanded
  <2> QED
    BY <2>2, <2>3, <2>4, <2>5
    DEF Next, Work, Execute, Finish, Borrow, Enqueue, TurnedAway, WaitTimesOut, StopWaiting,
        ExecuteRead, ExecuteWrite, StatementFails, FallBack, SoloRefused, ConnectionDrops,
        AuditKept, AuditLost, RaiseUnconnected, RaiseConnected, callVars, dbVars
<1> QED
  BY <1>1, Invariance, PTL DEF Spec, NoLateEffects

-------------------------------------------------------------------------------
(* Refinement *)

Open(c) == phase[c] \in {"running", "waiting"}

\* What a call is there to write is known by place in its script.
LEMMA WorkTyped ==
    ASSUME TypeOK
    PROVE  [c \in Callers |-> Writes(c)] \in [Callers -> SUBSET Nat]
<1>1. ASSUME NEW c \in Callers PROVE Writes(c) \subseteq Nat
  BY ScriptShape DEF Writes
<1> QED
  BY <1>1

\* A step after which the same calls are open, with the same effects, doubts and
\* answers, is one that clients do not see.
LEMMA UnseenMaps ==
    ASSUME TypeOK, call' = call, doubt' = doubt, answer' = answer,
           \A d \in Callers : /\ Landed(d)' = Landed(d)
                              /\ Open(d)' <=> Open(d)
    PROVE  UNCHANGED Promise!vars
<1>1. \A d \in Callers : Writes(d)' = Writes(d)
  BY DEF Writes
<1>2. [d \in Callers |-> Writes(d)'] = [d \in Callers |-> Writes(d)]
  BY <1>1
<1>3. [d \in Callers |-> Landed(d)'] = [d \in Callers |-> Landed(d)]
  OBVIOUS
<1>4. {d \in Callers : phase'[d] \in {"running", "waiting"}}
        = {d \in Callers : phase[d] \in {"running", "waiting"}}
  BY DEF Open
<1> QED
  BY <1>2, <1>3, <1>4 DEF Promise!vars

\* The end of a call and the answer to its client.
LEMMA EndMaps ==
    ASSUME TypeOK, NEW c \in Callers, NEW what, Open(c), ~ Open(c)', Reply(c, what), call' = call,
           \A d \in Callers \ {c} : Open(d)' <=> Open(d)
    PROVE  Promise!End(c, what)
<1>1. \A d \in Callers : Writes(d)' = Writes(d)
  BY DEF Writes
<1>2. [d \in Callers |-> Writes(d)'] = [d \in Callers |-> Writes(d)]
  BY <1>1
<1>3. {d \in Callers : phase'[d] \in {"running", "waiting"}}
        = {d \in Callers : phase[d] \in {"running", "waiting"}} \ {c}
  BY DEF Open
<1>4. c \in {d \in Callers : phase[d] \in {"running", "waiting"}}
  BY DEF Open
<1> QED
  BY <1>2, <1>3, <1>4 DEF Promise!End, Reply

\* What the abstract specification sees of a change to what one call has done.
LEMMA LandedMaps ==
    ASSUME NEW c \in Callers, \A d \in Callers \ {c} : Landed(d)' = Landed(d)
    PROVE  [d \in Callers |-> Landed(d)']
             = [[d \in Callers |-> Landed(d)] EXCEPT ![c] = Landed(c)']
  OBVIOUS

\* Who is open after a connection changes hands.
LEMMA HandOverMaps ==
    ASSUME TypeOK, PoolInv, NEW c \in Callers, phase[c] = "running",
           NEW k \in Conns, owner[k] = c, GiveBack(k), HandOver(c), call' = call
    PROVE  /\ Open(c) /\ ~ Open(c)'
           /\ \A d \in Callers \ {c} : Open(d)' <=> Open(d)
<1>1. phase'[c] = "settled"
  BY HandOverEffect
<1>2. ASSUME NEW d \in Callers \ {c} PROVE Open(d)' <=> Open(d)
  <2>1. CASE owner'[k] = d
    BY <2>1, HandOverEffect, ExecutionAssumption DEF Open
  <2>2. CASE owner'[k] # d
    BY <2>2, HandOverEffect DEF Open
  <2> QED
    BY <2>1, <2>2
<1> QED
  BY <1>1, <1>2 DEF Open

\* COMMIT, acknowledged: everything lands and the client is told so.
LEMMA ReturnMaps == ASSUME IInv, NEW c \in Callers, Return(c) PROVE Promise!Succeed(c)
<1>1. PICK k \in Conns :
        /\ owner[k] = c /\ ~ broken[k] /\ durable' = durable \cup uncommitted[k]
        /\ GiveBack(k)
  BY DEF Return
<1>2. /\ phase[c] = "running" /\ Here(c) \in {"return", "sorry"} /\ call' = call
      /\ doubt' = doubt /\ HandOver(c)
  BY DEF Return, At, Here
<1>3. PICK what \in {"ok", "sorry"} : Reply(c, what)
  BY DEF Return, Reply, Outcome
<1>4. TypeOK /\ PoolInv /\ Transactions /\ Told
  BY DEF IInv, Told
<1>5. Landed(c)' = Writes(c) /\ \A d \in Callers \ {c} : Landed(d)' = Landed(d)
  BY <1>1, <1>2, <1>4, AllLands DEF Ending
<1>6. Promise!End(c, what)
  <2>1. /\ Open(c) /\ ~ Open(c)'
        /\ \A d \in Callers \ {c} : Open(d)' <=> Open(d)
    BY <1>1, <1>2, <1>4, HandOverMaps
  <2> QED
    BY <1>2, <1>3, <1>4, <2>1, EndMaps
<1>7. [d \in Callers |-> Landed(d)']
        = [[d \in Callers |-> Landed(d)] EXCEPT ![c] = [d \in Callers |-> Writes(d)][c]]
  <2>1. [d \in Callers |-> Writes(d)][c] = Landed(c)'
    BY <1>5
  <2> QED
    BY <1>5, <2>1, LandedMaps
<1> QED
  BY <1>2, <1>3, <1>6, <1>7 DEF Promise!Succeed

\* COMMIT, not acknowledged: a failure if there was nothing to commit.
LEMMA CommitFailsMaps ==
    ASSUME IInv, NEW c \in Callers, CommitFails(c)
    PROVE  Promise!Fail(c) \/ Promise!Break(c)
<1>1. PICK k \in Conns :
        /\ owner[k] = c
        /\ durable' \in {durable, durable \cup uncommitted[k]}
        /\ doubt' = [doubt EXCEPT ![c] = uncommitted[k] # {}]
        /\ Abandon(c, k)
  BY DEF CommitFails
<1>2. /\ phase[c] = "running" /\ Here(c) \in {"return", "sorry"} /\ call' = call
      /\ GiveBack(k) /\ HandOver(c) /\ Reply(c, "error")
  BY <1>1 DEF CommitFails, At, Here, Abandon
<1>3. TypeOK /\ PoolInv /\ Transactions /\ Told
  BY DEF IInv, Told
<1>4. Promise!End(c, "error")
  BY <1>1, <1>2, <1>3, HandOverMaps, EndMaps
<1>5. CASE uncommitted[k] = {}
  <2>1. durable' = durable
    BY <1>1, <1>5
  <2>2. [d \in Callers |-> Landed(d)'] = [d \in Callers |-> Landed(d)]
    BY <1>2, <2>1, SameLanded
  <2>3. ~ doubt[c]
    BY <1>2, <1>3 DEF Told, Pending
  <2>4. doubt' = doubt
    BY <1>1, <1>3, <1>5, <2>3 DEF TypeOK
  <2> QED
    BY <1>4, <2>2, <2>4 DEF Promise!Fail
<1>6. CASE uncommitted[k] # {}
  <2>1. doubt' = [doubt EXCEPT ![c] = TRUE]
    BY <1>1, <1>6
  <2>2. CASE durable' = durable
    <3>1. [d \in Callers |-> Landed(d)'] = [d \in Callers |-> Landed(d)]
      BY <1>2, <2>2, SameLanded
    <3> QED
      BY <1>4, <2>1, <3>1 DEF Promise!Break
  <2>3. CASE durable' = durable \cup uncommitted[k]
    <3>1. ~ broken[k]
      BY <1>3, <1>6 DEF Transactions
    <3>2. Landed(c)' = Writes(c) /\ \A d \in Callers \ {c} : Landed(d)' = Landed(d)
      BY <1>1, <1>2, <1>3, <2>3, <3>1, AllLands DEF Ending
    <3>3. [d \in Callers |-> Writes(d)][c] = Landed(c)'
      BY <3>2
    <3>4. [d \in Callers |-> Landed(d)']
            = [[d \in Callers |-> Landed(d)] EXCEPT ![c] = [d \in Callers |-> Writes(d)][c]]
      BY <3>2, <3>3, LandedMaps
    <3> QED
      BY <1>4, <2>1, <3>4 DEF Promise!Break
  <2> QED
    BY <1>1, <2>2, <2>3
<1> QED
  BY <1>5, <1>6

\* Every other end of a call: nothing has landed and the client gets an error.
LEMMA FailMaps ==
    ASSUME IInv, NEW c \in Callers,
           StatementFails(c) \/ SoloRefused(c) \/ RaiseConnected(c) \/ RaiseUnconnected(c)
             \/ TurnedAway(c) \/ WaitTimesOut(c) \/ (AuditLost(c) /\ Settle(c, "error"))
    PROVE  Promise!Fail(c)
<1>1. TypeOK /\ PoolInv
  BY DEF IInv
<1>2. /\ phase[c] \in {"running", "waiting"}
      /\ Reply(c, "error")
      /\ UNCHANGED <<call, doubt, durable>>
  BY DEF StatementFails, SoloRefused, RaiseConnected, RaiseUnconnected, TurnedAway,
         WaitTimesOut, AuditLost, Abandon, Settle, At, dbVars
<1>3. /\ Open(c) /\ ~ Open(c)'
      /\ \A d \in Callers \ {c} : Open(d)' <=> Open(d)
  <2>1. CASE StatementFails(c) \/ SoloRefused(c) \/ RaiseConnected(c)
    <3>1. \E k \in Conns : Abandon(c, k)
      BY <2>1 DEF StatementFails, SoloRefused, RaiseConnected
    <3>2. phase[c] = "running"
      BY <2>1 DEF StatementFails, SoloRefused, RaiseConnected, At
    <3> QED
      BY <1>1, <1>2, <3>1, <3>2, HandOverMaps DEF Abandon
  <2>2. CASE Settle(c, "error")
    BY <1>1, <1>2, <2>2 DEF Settle, Open, TypeOK
  <2> QED
    BY <2>1, <2>2 DEF RaiseUnconnected, TurnedAway, WaitTimesOut
<1>4. Promise!End(c, "error")
  BY <1>1, <1>2, <1>3, EndMaps
<1>5. [d \in Callers |-> Landed(d)'] = [d \in Callers |-> Landed(d)]
  BY <1>2, SameLanded
<1> QED
  BY <1>2, <1>4, <1>5 DEF Promise!Fail

\* Before its end a call does nothing that clients see.
LEMMA WithinMaps ==
    ASSUME IInv, NEW c \in Callers,
           Borrow(c) \/ Enqueue(c) \/ AuditKept(c) \/ (AuditLost(c) /\ Proceed(c))
             \/ ExecuteRead(c) \/ ExecuteWrite(c) \/ ExecuteSignal(c) \/ FallBack(c)
    PROVE  UNCHANGED Promise!vars
<1>1. TypeOK
  BY DEF IInv
<1>2. /\ phase[c] = "running" /\ UNCHANGED <<call, doubt, answer>>
      /\ phase' = phase \/ phase' = [phase EXCEPT ![c] = "waiting"]
  <2>1. CASE Borrow(c) \/ Enqueue(c) \/ AuditKept(c)
    BY <2>1 DEF Borrow, Enqueue, AuditKept, At
  <2>2. CASE AuditLost(c) /\ Proceed(c)
    <3>1. step'[c] # step[c]
      BY <1>1, <2>2 DEF Proceed, TypeOK
    <3> QED
      BY <2>2, <3>1 DEF AuditLost, At
  <2>3. CASE ExecuteRead(c) \/ ExecuteWrite(c) \/ ExecuteSignal(c) \/ FallBack(c)
    BY <2>3 DEF ExecuteRead, ExecuteWrite, ExecuteSignal, FallBack, At
  <2> QED
    BY <2>1, <2>2, <2>3
<1>3. \A d \in Callers : Open(d)' <=> Open(d)
  BY <1>1, <1>2 DEF Open, TypeOK
<1>4. \A d \in Callers : Landed(d)' = Landed(d)
  <2>1. CASE ExecuteSignal(c)
    BY <1>1, <1>2, <2>1, SignalLandsNothing DEF ExecuteSignal, At, Here
  <2>2. CASE ~ ExecuteSignal(c)
    <3>1. durable' = durable
      BY <2>2 DEF Borrow, Enqueue, AuditKept, AuditLost, ExecuteRead, ExecuteWrite, FallBack,
                  dbVars
    <3> QED
      BY <1>2, <3>1, SameLanded
  <2> QED
    BY <2>1, <2>2
<1> QED
  BY <1>1, <1>2, <1>3, <1>4, UnseenMaps

\* The next call of a client.
LEMMA StartMaps == ASSUME IInv, NEW c \in Callers, Start(c) PROVE Promise!Begin(c)
<1>1. TypeOK
  BY DEF IInv
<1>2. /\ phase[c] \in {"idle", "settled"} /\ phase'[c] = "running"
      /\ \A d \in Callers \ {c} : phase'[d] = phase[d] /\ call'[d] = call[d]
      /\ durable' = {w \in durable : w[1] # c}
      /\ doubt' = [doubt EXCEPT ![c] = FALSE]
      /\ answer' = [answer EXCEPT ![c] = "none"]
  BY <1>1 DEF Start, TypeOK
<1>3. c \notin {d \in Callers : phase[d] \in {"running", "waiting"}}
  BY <1>2
<1>4. {d \in Callers : phase'[d] \in {"running", "waiting"}}
        = {d \in Callers : phase[d] \in {"running", "waiting"}} \cup {c}
  BY <1>2
<1>5. [d \in Callers |-> Writes(d)'] \in [Callers -> SUBSET Nat]
  <2>1. WellFormed(call'[c].script)
    BY <1>1, ExecutionAssumption DEF Start, TypeOK
  <2>2. call'[c].script \in Seq(Kinds)
    BY <2>1 DEF WellFormed
  <2>3. Writes(c)' \subseteq Nat
    BY <2>2 DEF Writes
  <2>4. ASSUME NEW d \in Callers \ {c} PROVE Writes(d)' \subseteq Nat
    BY <1>1, <1>2, ScriptShape DEF Writes
  <2> QED
    BY <2>3, <2>4
<1>6. \A d \in Callers \ {c} : Writes(d)' = Writes(d)
  BY <1>2 DEF Writes
<1>7. \A d \in Callers \ {c} : Landed(d)' = Landed(d)
  BY <1>2, <1>6 DEF Landed
<1>8. Landed(c)' = {}
  BY <1>2 DEF Landed
<1>9. [d \in Callers |-> Landed(d)'] = [[d \in Callers |-> Landed(d)] EXCEPT ![c] = {}]
  BY <1>7, <1>8
<1>10. \A d \in Callers \ {c} :
         [e \in Callers |-> Writes(e)'][d] = [e \in Callers |-> Writes(e)][d]
  BY <1>6
<1> QED
  BY <1>2, <1>3, <1>4, <1>5, <1>9, <1>10 DEF Promise!Begin

\* The client's patience ends before the call.
LEMMA StopWaitingMaps ==
    ASSUME IInv, NEW c \in Callers, StopWaiting(c)
    PROVE  Promise!StopWaiting(c)
<1>1. /\ phase[c] \in {"running", "waiting"} /\ answer[c] = "none"
      /\ answer' = [answer EXCEPT ![c] = "timeout"]
      /\ UNCHANGED <<phase, call, doubt, durable>>
  BY DEF StopWaiting, dbVars
<1>2. /\ [d \in Callers |-> Landed(d)'] = [d \in Callers |-> Landed(d)]
      /\ [d \in Callers |-> Writes(d)'] = [d \in Callers |-> Writes(d)]
  BY <1>1, SameLanded
<1> QED
  BY <1>1, <1>2 DEF Promise!StopWaiting

\* In the beginning no call is open.
LEMMA InitMaps == Init => Promise!Init
<1> SUFFICES ASSUME Init PROVE Promise!Init
  OBVIOUS
<1>1. TypeOK
  BY InitEstablishes DEF IInv
<1>2. {c \in Callers : phase[c] \in {"running", "waiting"}} = {}
  BY DEF Init
<1>3. [c \in Callers |-> Landed(c)] = [c \in Callers |-> {}]
  BY DEF Init, Landed
<1> QED
  BY <1>1, <1>2, <1>3, WorkTyped DEF Init, Promise!Init

\* Every step is one of a call that takes effect at one moment, or one that
\* clients do not see.
LEMMA StepMaps == IInv /\ [Next]_vars => [Promise!Next]_(Promise!vars)
<1> SUFFICES ASSUME IInv, [Next]_vars PROVE [Promise!Next]_(Promise!vars)
  OBVIOUS
<1>1. ASSUME NEW c \in Callers, Start(c) \/ StopWaiting(c) \/ WaitTimesOut(c)
      PROVE  Promise!Next
  BY <1>1, StartMaps, StopWaitingMaps, FailMaps DEF Promise!Next
<1>2. ASSUME NEW c \in Callers, Work(c) PROVE [Promise!Next]_(Promise!vars)
  <2>1. CASE Finish(c)
    BY <2>1, ReturnMaps, CommitFailsMaps, FailMaps DEF Finish, Promise!Next
  <2>2. CASE TurnedAway(c) \/ StatementFails(c) \/ SoloRefused(c)
             \/ (AuditLost(c) /\ Settle(c, "error"))
    BY <2>2, FailMaps DEF Promise!Next
  <2>3. CASE Borrow(c) \/ Enqueue(c) \/ AuditKept(c) \/ (AuditLost(c) /\ Proceed(c))
             \/ ExecuteRead(c) \/ ExecuteWrite(c) \/ ExecuteSignal(c) \/ FallBack(c)
    BY <2>3, WithinMaps
  <2>4. AuditLost(c) => Settle(c, "error") \/ Proceed(c)
    BY DEF AuditLost
  <2> QED
    BY <1>2, <2>1, <2>2, <2>3, <2>4 DEF Work, Execute
<1>3. ASSUME NEW k \in Conns, ConnectionDrops(k) PROVE UNCHANGED Promise!vars
  BY <1>3, SameLanded, UnseenMaps DEF IInv, ConnectionDrops, callVars, Open
<1>4. CASE UNCHANGED vars
  BY <1>4, SameLanded, UnseenMaps DEF IInv, vars, callVars, dbVars, Open
<1> QED
  BY <1>1, <1>2, <1>3, <1>4 DEF Next

\* Clients may reason about tool calls as AtomicCalls describes them.
THEOREM Atomicity == Spec => ImplementsAtomicCalls
<1>1. Promise!Init /\ [][Promise!Next]_(Promise!vars) => ImplementsAtomicCalls
  BY DEF ImplementsAtomicCalls, Promise!Spec
<1> QED
  BY <1>1, InitMaps, StepMaps, Invariance, PTL DEF Spec

-------------------------------------------------------------------------------
(* Progress *)

\* How far a call is from its end: two for each step that is left, the one it is at
\* included, one less while it waits in line.
Distance(c) ==
    IF ~ Open(c) THEN 0
    ELSE 2 * (Len(call[c].script) - step[c]) + (IF phase[c] = "running" THEN 2 ELSE 1)

\* Every step of a caller's own brings it nearer to its end, and no step of others
\* takes it further away.
Advancing ==
    \A c \in Callers :
        /\ Work(c) \/ WaitTimesOut(c) => Distance(c)' < Distance(c)
        /\ Distance(c)' <= Distance(c) \/ Start(c)

\* What a caller needs for its next step it has: a running one is at a step that
\* needs no connection or has one, a waiting one is in line.
Ready ==
    \A c \in Callers :
        /\ phase[c] = "running" => Here(c) \in {"borrow", "audit", "raise"} \/ Holds(c)
        /\ phase[c] = "waiting" => \E i \in DOMAIN queue : queue[i] = c

\* The distance is a natural number, and an open call is not there yet.
LEMMA DistanceTyped ==
    ASSUME TypeOK, NEW c \in Callers
    PROVE  /\ Distance(c) \in Nat
           /\ Open(c) => Distance(c) > 0
           /\ Open(c) => Distance(c) = 2 * (Len(call[c].script) - step[c])
                                         + (IF phase[c] = "running" THEN 2 ELSE 1)
<1>1. Len(call[c].script) - step[c] \in Nat
  BY ScriptShape
<1> QED
  BY <1>1 DEF Distance

\* A caller that does not move, and one whose call is over.
LEMMA DistanceKept ==
    ASSUME NEW c \in Callers, phase'[c] = phase[c], step'[c] = step[c], call'[c] = call[c]
    PROVE  Distance(c)' = Distance(c)
  BY DEF Distance, Open

\* A call that is over has no way to go.
LEMMA DistanceGone ==
    ASSUME NEW c \in Callers, ~ Open(c)'
    PROVE  Distance(c)' = 0
  BY DEF Distance

\* One that goes on to its next step, out of the line or not.
LEMMA DistanceFalls ==
    ASSUME TypeOK, NEW c \in Callers, Open(c), phase'[c] = "running",
           step'[c] = step[c] + 1, call'[c] = call[c]
    PROVE  Distance(c)' < Distance(c) /\ Distance(c)' <= Distance(c)
<1>1. Len(call[c].script) - step[c] \in Nat /\ step[c] \in Nat /\ Len(call[c].script) \in Nat
  BY ScriptShape
<1>2. Distance(c)' = 2 * (Len(call[c].script) - (step[c] + 1)) + 2
  BY DEF Distance, Open
<1>3. 2 * (Len(call[c].script) - (step[c] + 1)) + 2 = 2 * (Len(call[c].script) - step[c])
  BY <1>1
<1>4. Distance(c) \in {2 * (Len(call[c].script) - step[c]) + 1,
                       2 * (Len(call[c].script) - step[c]) + 2}
  BY DistanceTyped
<1> QED
  BY <1>1, <1>2, <1>3, <1>4

\* A step within a call.
LEMMA ProceedAdvances ==
    ASSUME TypeOK, NEW c \in Callers, phase[c] = "running", Proceed(c),
           UNCHANGED <<phase, call>>
    PROVE  /\ Distance(c)' < Distance(c)
           /\ \A d \in Callers : Distance(d)' <= Distance(d)
<1>1. step'[c] = step[c] + 1 /\ \A d \in Callers \ {c} : step'[d] = step[d]
  BY DEF Proceed, TypeOK
<1>2. Distance(c)' < Distance(c) /\ Distance(c)' <= Distance(c)
  BY <1>1, DistanceFalls DEF Open
<1>3. ASSUME NEW d \in Callers \ {c} PROVE Distance(d)' <= Distance(d)
  BY <1>1, DistanceKept, DistanceTyped
<1> QED
  BY <1>2, <1>3

\* The end of a call without a connection.
LEMMA SettleAdvances ==
    ASSUME TypeOK, NEW c \in Callers, Open(c), Settle(c, "error"), UNCHANGED <<call, step>>
    PROVE  /\ Distance(c)' < Distance(c)
           /\ \A d \in Callers : Distance(d)' <= Distance(d)
<1>1. phase'[c] = "settled" /\ \A d \in Callers \ {c} : phase'[d] = phase[d]
  BY DEF Settle, TypeOK
<1>2. Distance(c)' = 0
  BY <1>1, DistanceGone DEF Open
<1>3. ASSUME NEW d \in Callers \ {c} PROVE Distance(d)' <= Distance(d)
  BY <1>1, DistanceKept, DistanceTyped
<1> QED
  BY <1>2, <1>3, DistanceTyped

\* The end of a call with one: the next in line gets on, too.
LEMMA HandOverAdvances ==
    ASSUME TypeOK, PoolInv, NEW c \in Callers, phase[c] = "running",
           NEW k \in Conns, owner[k] = c, GiveBack(k), HandOver(c), call' = call
    PROVE  /\ Distance(c)' < Distance(c)
           /\ \A d \in Callers : Distance(d)' <= Distance(d)
<1>1. Distance(c)' = 0 /\ Distance(c) > 0
  BY HandOverMaps, DistanceGone, DistanceTyped
<1>2. ASSUME NEW d \in Callers \ {c} PROVE Distance(d)' <= Distance(d)
  <2>1. CASE owner'[k] = d
    <3>1. phase[d] = "waiting" /\ phase'[d] = "running" /\ step'[d] = step[d] + 1
      BY <2>1, HandOverEffect, ExecutionAssumption
    <3> QED
      BY <3>1, DistanceFalls DEF Open
  <2>2. CASE owner'[k] # d
    <3>1. Distance(d)' = Distance(d)
      BY <2>2, HandOverEffect, DistanceKept
    <3> QED
      BY <3>1, DistanceTyped
  <2> QED
    BY <2>1, <2>2
<1> QED
  BY <1>1, <1>2, DistanceTyped

\* Any step that a caller takes by itself.
LEMMA WorkAdvances ==
    ASSUME IInv, NEW c \in Callers, Work(c) \/ WaitTimesOut(c)
    PROVE  /\ Distance(c)' < Distance(c)
           /\ \A d \in Callers : Distance(d)' <= Distance(d)
<1>1. TypeOK /\ PoolInv
  BY DEF IInv
<1>2. \A d \in Callers : Distance(d) \in Nat
  BY <1>1, DistanceTyped
<1>3. CASE Borrow(c) \/ AuditKept(c) \/ (AuditLost(c) /\ Proceed(c)) \/ ExecuteRead(c)
             \/ ExecuteWrite(c) \/ ExecuteSignal(c) \/ FallBack(c)
  <2>1. /\ phase[c] = "running" /\ Proceed(c) /\ call' = call
    BY <1>3 DEF Borrow, AuditKept, AuditLost, ExecuteRead, ExecuteWrite, ExecuteSignal,
                FallBack, At
  <2>2. phase' = phase
    <3>1. step'[c] # step[c]
      BY <1>1, <2>1 DEF Proceed, TypeOK
    <3> QED
      BY <1>3, <3>1
      DEF Borrow, AuditKept, AuditLost, ExecuteRead, ExecuteWrite, ExecuteSignal, FallBack
  <2> QED
    BY <1>1, <1>2, <2>1, <2>2, ProceedAdvances
<1>4. CASE TurnedAway(c) \/ WaitTimesOut(c) \/ RaiseUnconnected(c)
             \/ (AuditLost(c) /\ Settle(c, "error") /\ UNCHANGED step)
  <2>1. Open(c) /\ Settle(c, "error") /\ UNCHANGED <<call, step>>
    BY <1>4 DEF TurnedAway, WaitTimesOut, RaiseUnconnected, AuditLost, At, Open
  <2> QED
    BY <1>1, <1>2, <2>1, SettleAdvances
<1>5. CASE StatementFails(c) \/ SoloRefused(c) \/ RaiseConnected(c) \/ Return(c)
             \/ CommitFails(c)
  <2>1. phase[c] = "running" /\ call' = call
    BY <1>5 DEF StatementFails, SoloRefused, RaiseConnected, Return, CommitFails, At
  <2>2. \E k \in Conns : owner[k] = c /\ GiveBack(k) /\ HandOver(c)
    BY <1>5 DEF StatementFails, SoloRefused, RaiseConnected, Return, CommitFails, Abandon
  <2> QED
    BY <1>1, <2>1, <2>2, HandOverAdvances
<1>6. CASE Enqueue(c)
  <2>1. /\ phase[c] = "running" /\ phase'[c] = "waiting" /\ UNCHANGED <<call, step>>
        /\ \A d \in Callers \ {c} : phase'[d] = phase[d]
    BY <1>1, <1>6 DEF Enqueue, At, TypeOK
  <2>2. Distance(c)' = 2 * (Len(call[c].script) - step[c]) + 1
    BY <2>1 DEF Distance, Open
  <2>3. Distance(c) = 2 * (Len(call[c].script) - step[c]) + 2
    BY <2>1 DEF Distance, Open
  <2>4. Len(call[c].script) - step[c] \in Nat
    BY <1>1, ScriptShape
  <2> QED
    BY <1>2, <2>1, <2>2, <2>3, <2>4, DistanceKept
<1>7. AuditLost(c) => Proceed(c) \/ (Settle(c, "error") /\ UNCHANGED step)
  BY DEF AuditLost
<1> QED
  BY <1>3, <1>4, <1>5, <1>6, <1>7 DEF Work, Execute, Finish

\* No call goes in circles or is set back: it ends after at most twice as many of
\* its own steps as its script is long.  With fairness, this and AlwaysReady are
\* why every call ends.
THEOREM CallsAdvance == Spec => [][Advancing]_vars
<1>1. IInv /\ [Next]_vars => [Advancing]_vars
  <2> SUFFICES ASSUME IInv, Next PROVE Advancing
    OBVIOUS
  <2>1. TypeOK
    BY DEF IInv
  <2>2. \A c \in Callers : Distance(c) \in Nat
    BY <2>1, DistanceTyped
  <2>3. ASSUME NEW c \in Callers PROVE Work(c) \/ WaitTimesOut(c) => Distance(c)' < Distance(c)
    BY WorkAdvances
  <2>4. ASSUME NEW c \in Callers PROVE Distance(c)' <= Distance(c) \/ Start(c)
    <3>1. ASSUME NEW d \in Callers, Work(d) \/ WaitTimesOut(d)
          PROVE  Distance(c)' <= Distance(c)
      BY <3>1, WorkAdvances
    <3>2. ASSUME NEW d \in Callers, StopWaiting(d) PROVE Distance(c)' <= Distance(c)
      <4>1. Distance(c)' = Distance(c)
        BY <3>2, DistanceKept DEF StopWaiting
      <4> QED
        BY <2>2, <4>1
    <3>3. ASSUME NEW d \in Callers, Start(d), d # c PROVE Distance(c)' <= Distance(c)
      <4>1. Distance(c)' = Distance(c)
        BY <2>1, <3>3, DistanceKept DEF Start, TypeOK
      <4> QED
        BY <2>2, <4>1
    <3>4. ASSUME NEW k \in Conns, ConnectionDrops(k) PROVE Distance(c)' <= Distance(c)
      <4>1. Distance(c)' = Distance(c)
        BY <3>4, DistanceKept DEF ConnectionDrops, callVars
      <4> QED
        BY <2>2, <4>1
    <3> QED
      BY <3>1, <3>2, <3>3, <3>4 DEF Next
  <2> QED
    BY <2>3, <2>4 DEF Advancing
<1> QED
  BY <1>1, Invariance, PTL DEF Spec

\* No call is stuck: at a statement or at its answer it has its connection, and in
\* line it can time out.
THEOREM AlwaysReady == Spec => []Ready
<1>1. IInv => Ready
  <2> SUFFICES ASSUME IInv, NEW c \in Callers
               PROVE  /\ phase[c] = "running"
                           => Here(c) \in {"borrow", "audit", "raise"} \/ Holds(c)
                      /\ phase[c] = "waiting" => \E i \in DOMAIN queue : queue[i] = c
    BY DEF Ready
  <2>1. TypeOK /\ PoolInv
    BY DEF IInv
  <2>2. ASSUME phase[c] = "running", Here(c) \notin {"borrow", "audit", "raise"}
        PROVE  Holds(c)
    <3>1. Here(c) \in Statements \cup {"return", "sorry"}
      <4>1. Here(c) \in Kinds
        BY <2>1, ScriptShape DEF Here
      <4> QED
        BY <2>2, <4>1 DEF Kinds, Ending
    <3> QED
      BY <2>1, <2>2, <3>1, InsideBlock DEF PoolInv, PoolConsistent
  <2> QED
    BY <2>1, <2>2 DEF PoolInv, PoolConsistent
<1> QED
  BY <1>1, Invariance, PTL
===============================================================================
