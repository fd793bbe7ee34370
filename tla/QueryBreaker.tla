----------------------------- MODULE QueryBreaker -----------------------------
(***************************************************************************)
(* `_QueryRateCircuitBreaker` of src/server.py: a token bucket with a      *)
(* circuit breaker behind it, one instance shared by every tool thread of  *)
(* the process.                                                            *)
(*                                                                         *)
(* `acquire` reads time.monotonic() before it takes the lock.  A caller is *)
(* therefore two steps: ReadClock, and the critical section, which is one  *)
(* of RejectOpen, Admit, Throttle and TripBreaker.  Between them the clock *)
(* moves and other threads run their critical sections, so the stamp a     *)
(* thread brings into the lock may be older than `last_refill`.            *)
(*                                                                         *)
(* Tokens are counted in units of 1/Minute of a token: a statement costs   *)
(* Minute units and a tick adds Rate units, which keeps the code's         *)
(* rate_per_minute / 60.0 in integers.                                     *)
(***************************************************************************)
EXTENDS Integers, FiniteSets

CONSTANTS
    Threads,          \* the threads that run tools
    RatePerMinute,    \* MCP_RATE_LIMIT_PER_MINUTE
    TripRejections,   \* MCP_BREAKER_TRIP_REJECTIONS
    OpenSeconds,      \* MCP_BREAKER_OPEN_SECONDS, in ticks
    Minute,           \* ticks in a minute
    MaxClock          \* bound: the clock stops here

ASSUME BreakerAssumption ==
    /\ RatePerMinute \in Int
    /\ TripRejections \in Int
    /\ OpenSeconds \in Int
    /\ Minute \in Nat \ {0}
    /\ MaxClock \in Nat

VARIABLES
    clock,        \* time.monotonic()
    tokens,       \* self.tokens, in units of 1/Minute
    lastRefill,   \* self.last_refill
    openUntil,    \* self.open_until
    rejections,   \* self.rejections
    pc,           \* where each thread is: "idle" or "stamped"
    now,          \* the local variable `now` of each thread (0 outside acquire)
    admitted,     \* history: statements admitted
    rewound       \* history: ticks by which last_refill was moved back

breakerVars == <<tokens, lastRefill, openUntil, rejections>>
vars == <<clock, breakerVars, pc, now, admitted, rewound>>

AtLeastOne(n) == IF n < 1 THEN 1 ELSE n
Least(a, b) == IF a <= b THEN a ELSE b

Rate == AtLeastOne(RatePerMinute)
Trip == AtLeastOne(TripRejections)
Open == AtLeastOne(OpenSeconds)
Capacity == Rate * Minute

Init ==
    /\ clock = 0
    /\ tokens = Capacity
    /\ lastRefill = 0
    /\ openUntil = 0
    /\ rejections = 0
    /\ pc = [t \in Threads |-> "idle"]
    /\ now = [t \in Threads |-> 0]
    /\ admitted = 0
    /\ rewound = 0

-------------------------------------------------------------------------------
Tick ==
    /\ clock < MaxClock
    /\ clock' = clock + 1
    /\ UNCHANGED <<breakerVars, pc, now, admitted, rewound>>

ReadClock(t) ==
    /\ pc[t] = "idle"
    /\ pc' = [pc EXCEPT ![t] = "stamped"]
    /\ now' = [now EXCEPT ![t] = clock]
    /\ UNCHANGED <<clock, breakerVars, admitted, rewound>>

\* Mutation of Elapsed: the absolute value instead of max(0, ...).
ElapsedAbsolute(t) ==
    IF now[t] > lastRefill THEN now[t] - lastRefill ELSE lastRefill - now[t]

\* elapsed = max(0.0, now - self.last_refill)
Elapsed(t) == IF now[t] > lastRefill THEN now[t] - lastRefill ELSE 0

\* Mutation of Refilled: the bucket has no capacity.
RefilledUncapped(t) == tokens + Elapsed(t) * Rate

Refilled(t) == Least(Capacity, tokens + Elapsed(t) * Rate)

\* Mutation of Restamp: last_refill is not assigned.
RestampForgotten(t) == UNCHANGED <<lastRefill, rewound>>

\* Every caller that gets past the open check assigns last_refill, also when
\* its stamp is the older one.
Restamp(t) ==
    /\ lastRefill' = now[t]
    /\ rewound' = rewound + (IF now[t] < lastRefill THEN lastRefill - now[t] ELSE 0)

Leave(t) ==
    /\ pc' = [pc EXCEPT ![t] = "idle"]
    /\ now' = [now EXCEPT ![t] = 0]
    /\ UNCHANGED clock

\* Mutations of Closed: latched; one tick too early; not looked at.
ClosedLatched(t) == openUntil = 0
ClosedEarly(t) == openUntil <= now[t] + 1
ClosedIgnored(t) == TRUE

Closed(t) == openUntil <= now[t]

\* Mutation of RejectOpen: a rejected caller prolongs the open period.
RejectOpenProlongs(t) ==
    /\ pc[t] = "stamped"
    /\ ~ Closed(t)
    /\ openUntil' = openUntil + Open
    /\ Leave(t)
    /\ UNCHANGED <<tokens, lastRefill, rejections, admitted, rewound>>

RejectOpen(t) ==
    /\ pc[t] = "stamped"
    /\ ~ Closed(t)
    /\ Leave(t)
    /\ UNCHANGED <<breakerVars, admitted, rewound>>

\* Mutation of Admit: the token is not taken.
AdmitUnpaid(t) ==
    /\ pc[t] = "stamped"
    /\ Closed(t)
    /\ Refilled(t) >= Minute
    /\ tokens' = Refilled(t)
    /\ rejections' = 0
    /\ admitted' = admitted + 1
    /\ Restamp(t)
    /\ Leave(t)
    /\ UNCHANGED openUntil

Admit(t) ==
    /\ pc[t] = "stamped"
    /\ Closed(t)
    /\ Refilled(t) >= Minute
    /\ tokens' = Refilled(t) - Minute
    /\ rejections' = 0
    /\ admitted' = admitted + 1
    /\ Restamp(t)
    /\ Leave(t)
    /\ UNCHANGED openUntil

Throttle(t) ==
    /\ pc[t] = "stamped"
    /\ Closed(t)
    /\ Refilled(t) < Minute
    /\ rejections + 1 < Trip
    /\ tokens' = Refilled(t)
    /\ rejections' = rejections + 1
    /\ Restamp(t)
    /\ Leave(t)
    /\ UNCHANGED <<openUntil, admitted>>

TripBreaker(t) ==
    /\ pc[t] = "stamped"
    /\ Closed(t)
    /\ Refilled(t) < Minute
    /\ rejections + 1 >= Trip
    /\ tokens' = Refilled(t)
    /\ openUntil' = now[t] + Open
    /\ rejections' = 0
    /\ Restamp(t)
    /\ Leave(t)
    /\ UNCHANGED admitted

Acquire(t) == RejectOpen(t) \/ Admit(t) \/ Throttle(t) \/ TripBreaker(t)

Next ==
    \/ Tick
    \/ \E t \in Threads : ReadClock(t) \/ Acquire(t)

Spec == Init /\ [][Next]_vars

\* Time passes, a thread that runs reaches its next statement, and the lock
\* is only ever held for a bounded critical section.
Fairness ==
    /\ WF_vars(Tick)
    /\ \A t \in Threads : WF_vars(ReadClock(t)) /\ WF_vars(Acquire(t))

FairSpec == Spec /\ Fairness

-------------------------------------------------------------------------------
(* Properties *)

\* The bucket never holds more than a minute's worth and never goes negative,
\* and the count of throttles stays below the one that trips the breaker.
TypeOK ==
    /\ clock \in 0 .. MaxClock
    /\ tokens \in 0 .. Capacity
    /\ lastRefill \in Nat
    /\ openUntil \in Nat
    /\ rejections \in 0 .. Trip - 1
    /\ pc \in [Threads -> {"idle", "stamped"}]
    /\ now \in [Threads -> Nat]
    /\ admitted \in Nat
    /\ rewound \in Nat

\* No stamp, neither a thread's nor the bucket's, is ahead of real time.
StampsInPast ==
    /\ lastRefill <= clock
    /\ \A t \in Threads : now[t] <= clock

\* Conservation: what was spent and what is left was in the bucket at the
\* start or was credited for time, where time that last_refill was moved back
\* over counts twice.
Accounting ==
    Minute * admitted + tokens <= Capacity + Rate * (lastRefill + rewound)

\* The limiter as a limiter: what it admitted is bounded by a full bucket and
\* the time that passed, up to the time credited twice.
AdmissionBound ==
    Minute * admitted <= Capacity + Rate * (clock + rewound)

\* Once it trips, the breaker rejects callers for at most one open period of
\* real time, however old the stamp of the caller that tripped it.
LockoutBounded == openUntil <= clock + Open

\* No caller is admitted while the breaker is open in real time, even one that
\* read the clock before the breaker opened.
NoAdmissionWhileOpen ==
    [][admitted' # admitted => openUntil <= clock]_vars

\* A caller with an old stamp cannot shorten an open period that another
\* caller began: two trips are at least one open period apart.
TripsSpaced ==
    [][openUntil' # openUntil => openUntil' >= openUntil + Open]_vars

\* README: "query-level token-bucket rate limiting".  A token bucket admits
\* at most what it held at the start and what it gained in the time since.
TokenBucketBound == Minute * admitted <= Capacity + Rate * clock

\* An open breaker is not a permanent one: threads that keep retrying get a
\* statement through once the open period is over and one token has been
\* earned, at worst after one more open period, if all of that fits before the
\* clock's bound.
RecoveryTime == openUntil + Minute + Open
BreakerRecovers ==
    \A n \in 0 .. MaxClock + Rate :
        (clock < openUntil /\ RecoveryTime <= MaxClock /\ admitted = n)
            ~> admitted > n

-------------------------------------------------------------------------------
(* The limiter implements what its callers rely on. *)

Promise == INSTANCE AdmissionControl WITH slack <- rewound

Implements == Promise!Spec
===============================================================================
