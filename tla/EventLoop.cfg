\* Three jobs of every kind over pools of one connection, with and without a
\* second instance.
CONSTANTS
    Jobs = {j1, j2, j3}
    Nobody = Nobody
    PoolSize = 1
    Calls <- SomeCalls
SPECIFICATION FairSpec
INVARIANTS
    TypeOK
    RoutedRight
    NothingLeftBehind
    PoolsUsed
PROPERTIES
    StallHoldsLoop
    JobsEnd
