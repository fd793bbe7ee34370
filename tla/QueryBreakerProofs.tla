-------------------------- MODULE QueryBreakerProofs --------------------------
(***************************************************************************)
(* Safety of the query limiter for every number of threads, every setting  *)
(* of its environment variables and every clock bound.                     *)
(*                                                                         *)
(* AdmissionBound is not inductive: it says nothing of the tokens still in *)
(* the bucket.  Accounting is the conservation law behind it, and it needs *)
(* to know that no clock stamp is ahead of real time.                      *)
(***************************************************************************)
EXTENDS QueryBreaker, TLAPS

\* The inductive invariant: what a caller between ReadClock and its critical
\* section may count on, whatever the others do in between.
IInv ==
    /\ TypeOK
    /\ StampsInPast
    /\ LockoutBounded
    /\ Accounting

-------------------------------------------------------------------------------
(* Arithmetic *)

\* The derived parameters are positive whatever the environment sets, which is
\* what the max(1, ...) of the constructor is for.
LEMMA ParametersPositive ==
    /\ Rate \in Nat /\ Rate >= 1
    /\ Trip \in Nat /\ Trip >= 1
    /\ Open \in Nat /\ Open >= 1
    /\ Minute \in Nat /\ Minute >= 1
    /\ Capacity \in Nat /\ Capacity = Rate * Minute
    /\ Minute <= Capacity
  BY BreakerAssumption DEF Rate, Trip, Open, Capacity, AtLeastOne

\* Multiplication by a natural number preserves order.
LEMMA TimesMonotone ==
    ASSUME NEW r \in Nat, NEW a \in Int, NEW b \in Int, a <= b
    PROVE  r * a <= r * b
  OBVIOUS

\* Multiplication distributes over addition.
LEMMA TimesDistributes ==
    ASSUME NEW r \in Int, NEW a \in Int, NEW b \in Int
    PROVE  r * (a + b) = r * a + r * b
  OBVIOUS

\* What a refill yields: never less than the bucket held, never more than it
\* can hold, and never more than the time since last_refill is worth.
LEMMA RefilledRange ==
    ASSUME TypeOK, NEW t \in Threads
    PROVE  /\ Elapsed(t) \in Nat
           /\ Refilled(t) \in 0 .. Capacity
           /\ Refilled(t) <= tokens + Rate * Elapsed(t)
<1>1. now[t] \in Nat /\ lastRefill \in Nat /\ tokens \in 0 .. Capacity
  BY DEF TypeOK
<1>2. Elapsed(t) \in Nat
  BY <1>1 DEF Elapsed
<1>3. Rate * Elapsed(t) \in Nat /\ Elapsed(t) * Rate = Rate * Elapsed(t)
  BY <1>2, ParametersPositive
<1> QED
  BY <1>1, <1>2, <1>3, ParametersPositive DEF Refilled, Least

\* The stamp a caller leaves in last_refill, together with the rewinding it
\* causes, pays for exactly the time the caller credited.
LEMMA RestampPays ==
    ASSUME TypeOK, NEW t \in Threads, Restamp(t)
    PROVE  /\ lastRefill' \in Nat /\ rewound' \in Nat
           /\ lastRefill' = now[t]
           /\ rewound <= rewound' /\ rewound' <= rewound + lastRefill
           /\ Rate * (lastRefill' + rewound')
                = Rate * (lastRefill + rewound) + Rate * Elapsed(t)
<1>1. now[t] \in Nat /\ lastRefill \in Nat /\ rewound \in Nat
  BY DEF TypeOK
<1>2. lastRefill' + rewound' = (lastRefill + rewound) + Elapsed(t)
  BY <1>1 DEF Restamp, Elapsed
<1>3. Elapsed(t) \in Nat
  BY RefilledRange
<1>4. Rate * ((lastRefill + rewound) + Elapsed(t))
        = Rate * (lastRefill + rewound) + Rate * Elapsed(t)
  BY <1>1, <1>3, TimesDistributes, ParametersPositive
<1> QED
  BY <1>1, <1>2, <1>4 DEF Restamp

-------------------------------------------------------------------------------
(* The inductive invariant *)

\* The constructor of the limiter establishes the inductive invariant.
LEMMA InitEstablishes == Init => IInv
<1> SUFFICES ASSUME Init PROVE IInv
  OBVIOUS
<1>1. TypeOK
  BY ParametersPositive, BreakerAssumption DEF Init, TypeOK
<1>2. StampsInPast /\ LockoutBounded
  BY ParametersPositive DEF Init, StampsInPast, LockoutBounded
<1>3. Accounting
  <2>1. Minute * 0 = 0 /\ Rate * (0 + 0) = 0
    BY ParametersPositive
  <2> QED
    BY <2>1, ParametersPositive DEF Init, Accounting
<1> QED
  BY <1>1, <1>2, <1>3 DEF IInv

\* What every caller that gets past the open check has in common.
LEMMA CriticalSection ==
    ASSUME IInv, NEW t \in Threads, pc[t] = "stamped", Closed(t),
           Restamp(t), Leave(t)
    PROVE  /\ clock' \in 0 .. MaxClock
           /\ lastRefill' \in Nat
           /\ rewound' \in Nat
           /\ pc' \in [Threads -> {"idle", "stamped"}]
           /\ now' \in [Threads -> Nat]
           /\ StampsInPast'
           /\ now[t] \in Nat /\ openUntil <= now[t] /\ now[t] <= clock
  BY RestampPays, BreakerAssumption
  DEF IInv, TypeOK, StampsInPast, Closed, Leave

\* No clock tick, clock reading or critical section of acquire breaks it.
LEMMA StepPreserves == IInv /\ [Next]_vars => IInv'
<1> SUFFICES ASSUME IInv, [Next]_vars PROVE IInv'
  OBVIOUS
<1> USE BreakerAssumption DEF IInv
<1>1. CASE Tick
  BY <1>1, ParametersPositive
  DEF Tick, TypeOK, StampsInPast, LockoutBounded, Accounting, breakerVars
<1>2. ASSUME NEW t \in Threads, ReadClock(t) PROVE IInv'
  BY <1>2
  DEF ReadClock, TypeOK, StampsInPast, LockoutBounded, Accounting, breakerVars
<1>3. ASSUME NEW t \in Threads, RejectOpen(t) PROVE IInv'
  BY <1>3
  DEF RejectOpen, Leave, TypeOK, StampsInPast, LockoutBounded, Accounting,
      breakerVars
<1>4. ASSUME NEW t \in Threads, Admit(t) PROVE IInv'
  <2>1. StampsInPast' /\ Restamp(t)
    BY <1>4, CriticalSection DEF Admit
  <2>2. TypeOK'
    BY <1>4, CriticalSection, RefilledRange, ParametersPositive DEF Admit, TypeOK
  <2>3. LockoutBounded'
    BY <1>4 DEF Admit, Leave, LockoutBounded
  <2>4. Accounting'
    <3>1. Minute * (admitted + 1) = Minute * admitted + Minute
      BY ParametersPositive DEF TypeOK
    <3>2. tokens' <= tokens + Rate * Elapsed(t) - Minute
      BY <1>4, RefilledRange, ParametersPositive DEF Admit, TypeOK
    <3> QED
      BY <1>4, <2>1, <3>1, <3>2, RestampPays, RefilledRange, ParametersPositive
      DEF Admit, Accounting, TypeOK
  <2> QED
    BY <2>1, <2>2, <2>3, <2>4
<1>5. ASSUME NEW t \in Threads, Throttle(t) PROVE IInv'
  <2>1. StampsInPast' /\ Restamp(t)
    BY <1>5, CriticalSection DEF Throttle
  <2>2. TypeOK'
    BY <1>5, CriticalSection, RefilledRange, ParametersPositive
    DEF Throttle, TypeOK
  <2>3. LockoutBounded'
    BY <1>5 DEF Throttle, Leave, LockoutBounded
  <2>4. Accounting'
    BY <1>5, <2>1, RestampPays, RefilledRange, ParametersPositive
    DEF Throttle, Accounting, TypeOK
  <2> QED
    BY <2>1, <2>2, <2>3, <2>4
<1>6. ASSUME NEW t \in Threads, TripBreaker(t) PROVE IInv'
  <2>1. StampsInPast' /\ Restamp(t)
    BY <1>6, CriticalSection DEF TripBreaker
  <2>2. TypeOK'
    BY <1>6, CriticalSection, RefilledRange, ParametersPositive
    DEF TripBreaker, TypeOK
  <2>3. LockoutBounded'
    <3>1. openUntil' = now[t] + Open /\ clock' = clock
      BY <1>6 DEF TripBreaker, Leave
    <3>2. now[t] <= clock /\ now[t] \in Nat /\ clock \in Nat
      BY DEF TypeOK, StampsInPast
    <3> QED
      BY <3>1, <3>2, ParametersPositive DEF LockoutBounded
  <2>4. Accounting'
    BY <1>6, <2>1, RestampPays, RefilledRange, ParametersPositive
    DEF TripBreaker, Accounting, TypeOK
  <2> QED
    BY <2>1, <2>2, <2>3, <2>4
<1>7. CASE UNCHANGED vars
  BY <1>7
  DEF vars, breakerVars, TypeOK, StampsInPast, LockoutBounded, Accounting
<1> QED
  BY <1>1, <1>2, <1>3, <1>4, <1>5, <1>6, <1>7 DEF Next, Acquire

\* The inductive invariant holds in every state the limiter reaches.
THEOREM Invariance == Spec => []IInv
  BY InitEstablishes, StepPreserves, PTL DEF Spec

-------------------------------------------------------------------------------
(* The properties *)

\* The limiter's state has its type: the bucket never overflows or goes
\* negative, and fewer throttles are pending than trip the breaker.
THEOREM TypeCorrect == Spec => []TypeOK
  BY Invariance, PTL DEF IInv

\* No statement is admitted on a token that was not in the bucket at the start
\* or credited for time since.
THEOREM TokensAccounted == Spec => []Accounting
  BY Invariance, PTL DEF IInv

\* The limiter admits no more than a full bucket and the time that passed
\* allow, up to the time that stale stamps let it credit twice.
THEOREM AdmissionsBounded == Spec => []AdmissionBound
<1>1. IInv => AdmissionBound
  <2> SUFFICES ASSUME IInv PROVE AdmissionBound
    OBVIOUS
  <2>1. Rate * (lastRefill + rewound) <= Rate * (clock + rewound)
    BY TimesMonotone, ParametersPositive DEF IInv, TypeOK, StampsInPast
  <2> QED
    BY <2>1, ParametersPositive
    DEF IInv, TypeOK, Accounting, AdmissionBound
<1> QED
  BY <1>1, Invariance, PTL

\* The breaker locks callers out for at most one open period after it trips.
THEOREM LockoutsBounded == Spec => []LockoutBounded
  BY Invariance, PTL DEF IInv

\* Nothing is admitted while the breaker is open in real time.
THEOREM OpenMeansClosed == Spec => NoAdmissionWhileOpen
<1>1. IInv /\ [Next]_vars => [admitted' # admitted => openUntil <= clock]_vars
  <2> SUFFICES ASSUME IInv, Next, admitted' # admitted PROVE openUntil <= clock
    OBVIOUS
  <2>1. PICK t \in Threads : Admit(t)
    BY DEF Next, Tick, ReadClock, Acquire, RejectOpen, Throttle, TripBreaker
  <2> QED
    BY <2>1 DEF Admit, Closed, IInv, TypeOK, StampsInPast
<1> QED
  BY <1>1, Invariance, PTL DEF Spec, NoAdmissionWhileOpen

\* No caller, however old its stamp, shortens an open period.
THEOREM TripsApart == Spec => TripsSpaced
<1>1. IInv /\ [Next]_vars
        => [openUntil' # openUntil => openUntil' >= openUntil + Open]_vars
  <2> SUFFICES ASSUME IInv, Next, openUntil' # openUntil
               PROVE  openUntil' >= openUntil + Open
    OBVIOUS
  <2>1. PICK t \in Threads : TripBreaker(t)
    BY DEF Next, Tick, ReadClock, Acquire, RejectOpen, Admit, Throttle, breakerVars
  <2> QED
    BY <2>1, ParametersPositive DEF TripBreaker, Closed, IInv, TypeOK
<1> QED
  BY <1>1, Invariance, PTL DEF Spec, TripsSpaced

-------------------------------------------------------------------------------
(* Refinement *)

\* A new limiter is a new AdmissionControl.
LEMMA InitMaps == Init => Promise!Init
  BY DEF Init, Promise!Init

\* An admission is an abstract admission, a throttle or a trip an abstract
\* refusal, and reading the clock or being rejected by the open breaker changes
\* nothing the abstract specification sees.
LEMMA StepMaps == IInv /\ [Next]_vars => [Promise!Next]_(Promise!vars)
<1> SUFFICES ASSUME IInv, [Next]_vars PROVE [Promise!Next]_(Promise!vars)
  OBVIOUS
<1> USE BreakerAssumption DEF IInv
<1>1. CASE Tick
  BY <1>1 DEF Tick, breakerVars, Promise!Next, Promise!Advance
<1>2. ASSUME NEW t \in Threads, ReadClock(t) \/ RejectOpen(t)
      PROVE UNCHANGED Promise!vars
  BY <1>2 DEF ReadClock, RejectOpen, Leave, breakerVars, Promise!vars
<1>3. ASSUME NEW t \in Threads, Restamp(t)
      PROVE  rewound' \in rewound .. rewound + clock
  BY <1>3, RestampPays DEF TypeOK, StampsInPast
<1>4. ASSUME NEW t \in Threads, Admit(t) PROVE Promise!Admit
  <2>1. openUntil <= clock
    BY <1>4 DEF Admit, Closed, TypeOK, StampsInPast
  <2>2. Minute * (admitted + 1) <= Promise!Allowance
    <3>1. Minute * (admitted + 1) = Minute * admitted + Minute
      BY ParametersPositive DEF TypeOK
    <3>2. Minute <= tokens + Rate * Elapsed(t)
      BY <1>4, RefilledRange, ParametersPositive DEF Admit, TypeOK
    <3>3. Rate * (lastRefill + rewound) + Rate * Elapsed(t)
            = Rate * ((lastRefill + rewound) + Elapsed(t))
      BY RefilledRange, TimesDistributes, ParametersPositive DEF TypeOK
    <3>4. (lastRefill + rewound) + Elapsed(t) <= clock + rewound
      BY DEF Elapsed, TypeOK, StampsInPast
    <3>5. Rate * ((lastRefill + rewound) + Elapsed(t)) <= Rate * (clock + rewound)
      BY <3>4, TimesMonotone, RefilledRange, ParametersPositive DEF TypeOK
    <3> QED
      BY <3>1, <3>2, <3>3, <3>5, RefilledRange, ParametersPositive
      DEF Accounting, TypeOK, Promise!Allowance
  <2> QED
    BY <1>3, <1>4, <2>1, <2>2 DEF Admit, Leave, Promise!Admit
<1>5. ASSUME NEW t \in Threads, Throttle(t) PROVE Promise!Refuse
  BY <1>3, <1>5 DEF Throttle, Leave, Promise!Refuse
<1>6. ASSUME NEW t \in Threads, TripBreaker(t) PROVE Promise!Refuse
  <2>1. openUntil' \in openUntil + Open .. clock + Open
    BY <1>6, ParametersPositive
    DEF TripBreaker, Closed, TypeOK, StampsInPast
  <2> QED
    BY <1>3, <1>6, <2>1 DEF TripBreaker, Leave, Promise!Refuse
<1>7. CASE UNCHANGED vars
  BY <1>7 DEF vars, breakerVars, Promise!vars
<1> QED
  BY <1>1, <1>2, <1>4, <1>5, <1>6, <1>7 DEF Next, Acquire, Promise!Next

\* Callers may reason about the limiter as AdmissionControl describes it.
THEOREM Refinement == Spec => Implements
<1>1. Promise!Init /\ [][Promise!Next]_(Promise!vars) => Implements
  BY DEF Implements, Promise!Spec
<1> QED
  BY <1>1, InitMaps, StepMaps, Invariance, PTL DEF Spec
-------------------------------------------------------------------------------
(* Stamps that are not overtaken *)

\* No thread that waits for the lock has been overtaken by one with a newer stamp.
InOrder == \A t \in Threads : pc[t] = "stamped" => lastRefill <= now[t]

\* TokenBucketBound is violated because a thread with an old stamp may get the lock
\* after one with a newer stamp, and for no other reason: if none is overtaken, the
\* limiter is the token bucket that the README calls it.
THEOREM OvertakingAlone == Spec /\ []InOrder => []TokenBucketBound
<1> DEFINE Straight == rewound = 0
<1>1. Init => Straight
  BY DEF Init
<1>2. Straight /\ IInv /\ InOrder /\ [Next]_vars => Straight'
  <2> SUFFICES ASSUME Straight, IInv, InOrder, [Next]_vars PROVE Straight'
    OBVIOUS
  <2>1. ASSUME NEW t \in Threads, pc[t] = "stamped", Restamp(t) PROVE Straight'
    BY <2>1 DEF InOrder, Restamp, IInv, TypeOK
  <2>2. CASE UNCHANGED rewound
    BY <2>2
  <2> QED
    BY <2>1, <2>2
    DEF Next, Tick, Acquire, ReadClock, RejectOpen, Admit, Throttle, TripBreaker, vars
<1>3. Straight /\ AdmissionBound /\ IInv => TokenBucketBound
  BY DEF AdmissionBound, TokenBucketBound, IInv, TypeOK
<1> HIDE DEF Straight
<1> QED
  BY <1>1, <1>2, <1>3, Invariance, AdmissionsBounded, PTL DEF Spec

\* At most one thread is between its clock and the lock: what holding the lock
\* while the clock is read would achieve.
OneAtATime ==
    \A t, u \in Threads : pc[t] = "stamped" /\ pc[u] = "stamped" => t = u

\* With that, the bound of a token bucket holds.
THEOREM OneAtATimeKeepsRate == Spec /\ []OneAtATime => []TokenBucketBound
<1>1. Init => InOrder
  BY DEF Init, InOrder
<1>2. InOrder /\ OneAtATime /\ IInv /\ [Next]_vars => InOrder'
  <2> SUFFICES ASSUME InOrder, OneAtATime, IInv, [Next]_vars PROVE InOrder'
    OBVIOUS
  <2>1. ASSUME NEW t \in Threads, ReadClock(t) PROVE InOrder'
    BY <2>1 DEF ReadClock, breakerVars, InOrder, IInv, TypeOK, StampsInPast
  <2>2. ASSUME NEW t \in Threads, Acquire(t) PROVE InOrder'
    <3>1. pc[t] = "stamped" /\ pc' = [pc EXCEPT ![t] = "idle"]
      BY <2>2 DEF Acquire, RejectOpen, Admit, Throttle, TripBreaker, Leave
    <3>2. \A u \in Threads : pc'[u] # "stamped"
      BY <3>1 DEF OneAtATime, IInv, TypeOK
    <3> QED  BY <3>2 DEF InOrder
  <2>3. CASE Tick \/ UNCHANGED vars
    BY <2>3 DEF Tick, vars, breakerVars, InOrder
  <2> QED  BY <2>1, <2>2, <2>3 DEF Next
<1> QED
  BY <1>1, <1>2, Invariance, OvertakingAlone, PTL DEF Spec
-------------------------------------------------------------------------------
(* Recovery *)

\* What the bucket has for a caller that comes now, before it is capped.
Credit == tokens + Rate * (clock - lastRefill)

\* No refusal, trip or open period costs a caller what was earned by then, up to a full
\* bucket; every tick earns more; and when there is a token's worth, the next caller
\* that finds the breaker closed, with a stamp of this moment, gets it.
Recovering ==
    /\ admitted' = admitted => Credit' >= Least(Capacity, Credit)
    /\ Tick => Credit' = Credit + Rate
    /\ \A t \in Threads :
          Acquire(t) /\ Closed(t) /\ now[t] = clock /\ Credit >= Minute => Admit(t)

\* The time a caller restamps for is in the tokens it leaves, unless they are full.
LEMMA RefusalKeepsCredit ==
    ASSUME IInv, NEW t \in Threads, Restamp(t), Leave(t), tokens' = Refilled(t)
    PROVE  Credit' >= Least(Capacity, Credit)
<1>1. /\ now[t] \in Nat /\ lastRefill \in Nat /\ tokens \in Nat /\ clock \in Nat
      /\ now[t] <= clock
  BY ParametersPositive DEF IInv, TypeOK, StampsInPast
<1>2. lastRefill' = now[t] /\ clock' = clock
  BY DEF Restamp, Leave
<1>3. PICK e \in Nat : e = Elapsed(t) /\ now[t] - lastRefill <= e
  BY <1>1 DEF Elapsed
<1>4. PICK a \in Nat, b \in Int : a = clock - now[t] /\ b = clock - lastRefill
  BY <1>1
<1>5. b <= e + a
  BY <1>1, <1>3, <1>4
<1>6. Rate * b <= Rate * (e + a) /\ Rate * (e + a) = Rate * e + Rate * a
  BY <1>3, <1>4, <1>5, TimesMonotone, TimesDistributes, ParametersPositive
<1>7. PICK rb \in Int, re \in Nat, ra \in Nat :
         rb = Rate * b /\ re = Rate * e /\ ra = Rate * a /\ e * Rate = re
  BY <1>3, <1>4, ParametersPositive
<1>8. rb <= re + ra
  BY <1>6, <1>7
<1>9. Credit = tokens + rb /\ Credit' = Refilled(t) + ra
  BY <1>2, <1>4, <1>7 DEF Credit
<1>10. Refilled(t) = Capacity \/ Refilled(t) = tokens + re
  BY <1>3, <1>7 DEF Refilled, Least
<1> QED
  BY <1>1, <1>7, <1>8, <1>9, <1>10, ParametersPositive DEF Least

\* A stamp of this moment is credited with all there is.
LEMMA FreshStampTakesAll ==
    ASSUME IInv, NEW t \in Threads, now[t] = clock
    PROVE  Refilled(t) = Least(Capacity, Credit)
<1>1. Elapsed(t) = clock - lastRefill
  BY DEF Elapsed, IInv, TypeOK, StampsInPast
<1>2. Elapsed(t) * Rate = Rate * (clock - lastRefill)
  BY <1>1, ParametersPositive DEF IInv, TypeOK
<1> QED
  BY <1>2 DEF Refilled, Credit

\* Time, refusals, trips and admissions, one by one.
LEMMA StepRecovers ==
    ASSUME IInv, Next
    PROVE  Recovering
<1>1. Credit \in Int
  BY ParametersPositive DEF Credit, IInv, TypeOK
<1>2. Tick => Credit' = Credit + Rate
  <2> SUFFICES ASSUME Tick PROVE Credit' = Credit + Rate
    OBVIOUS
  <2>1. /\ clock' - lastRefill' = (clock - lastRefill) + 1 /\ clock - lastRefill \in Int
        /\ tokens' = tokens
    BY DEF Tick, breakerVars, IInv, TypeOK
  <2>2. Rate * ((clock - lastRefill) + 1) = Rate * (clock - lastRefill) + Rate * 1
    BY <2>1, TimesDistributes, ParametersPositive
  <2>3. Rate * 1 = Rate /\ Rate * (clock - lastRefill) \in Int /\ tokens \in Int
    BY <2>1, ParametersPositive DEF IInv, TypeOK
  <2> QED
    BY <2>1, <2>2, <2>3, ParametersPositive DEF Credit
<1>3. ASSUME NEW t \in Threads, Acquire(t), Closed(t), now[t] = clock, Credit >= Minute
      PROVE  Admit(t)
  <2>1. Refilled(t) >= Minute
    BY <1>1, <1>3, FreshStampTakesAll, ParametersPositive DEF Least
  <2>2. Refilled(t) \in Nat
    BY RefilledRange, ParametersPositive DEF IInv
  <2> QED
    BY <1>3, <2>1, <2>2, ParametersPositive DEF Acquire, RejectOpen, Throttle, TripBreaker
<1>4. ASSUME admitted' = admitted
      PROVE  Credit' >= Least(Capacity, Credit)
  <2>1. CASE Tick
    BY <1>1, <1>2, <2>1, ParametersPositive DEF Least
  <2>2. ASSUME NEW t \in Threads, ReadClock(t) \/ RejectOpen(t)
        PROVE  Credit' >= Least(Capacity, Credit)
    <3>1. Credit' = Credit
      BY <2>2 DEF ReadClock, RejectOpen, Leave, breakerVars, Credit
    <3> QED
      BY <1>1, <3>1, ParametersPositive DEF Least
  <2>3. ASSUME NEW t \in Threads, Throttle(t) \/ TripBreaker(t)
        PROVE  Credit' >= Least(Capacity, Credit)
    <3>1. Restamp(t) /\ Leave(t) /\ tokens' = Refilled(t)
      BY <2>3 DEF Throttle, TripBreaker
    <3> QED
      BY <3>1, RefusalKeepsCredit
  <2>4. ASSUME NEW t \in Threads
        PROVE  ~ Admit(t)
    BY <1>4 DEF Admit, IInv, TypeOK
  <2> QED
    BY <2>1, <2>2, <2>3, <2>4 DEF Next, Acquire
<1> QED
  BY <1>2, <1>3, <1>4 DEF Recovering

\* The safety part of BreakerRecovers: callers that keep retrying, and the breaker that
\* they trip, cannot keep the bucket empty.  A caller that finds the breaker closed a
\* token's time after the last admission gets through, and LockoutBounded says how
\* long it may find it open.
THEOREM RefusalsCostNothing == Spec => [][Recovering]_vars
<1> QED
  BY StepRecovers, Invariance, PTL DEF Spec
===============================================================================
