\* The bucket holds one statement, so two threads that keep calling empty it and
\* trip the breaker; the clock runs long enough for a trip, its open period, a
\* second trip by a thread with an old stamp, and the recovery after it.
CONSTANTS
    Threads = {t1, t2}
    RatePerMinute = 1
    TripRejections = 2
    OpenSeconds = 2
    Minute = 2
    MaxClock = 7
SPECIFICATION FairSpec
INVARIANTS
    TypeOK
    Accounting
    AdmissionBound
    LockoutBounded
PROPERTIES
    NoAdmissionWhileOpen
    TripsSpaced
    Implements
    BreakerRecovers
