\* The bound of a token bucket, without the slack: expected to be violated.
CONSTANTS
    Threads = {t1, t2}
    RatePerMinute = 1
    TripRejections = 3
    OpenSeconds = 1
    Minute = 2
    MaxClock = 8
SPECIFICATION Spec
INVARIANTS
    TokenBucketBound
