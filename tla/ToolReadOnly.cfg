\* Read-only mode: two callers compete for one connection, with every tool whose
\* script is short.
CONSTANTS
    Callers = {c1, c2}
    Conns = {k1}
    Nobody = Nobody
    MaxWaiting = 1
    AuditRequired = FALSE
    AllowWrite = FALSE
    MaxItems = 1
    Calls <- ShortCalls
SPECIFICATION FairSpec
INVARIANTS
    ReadOnlyHolds
PROPERTIES
    CallsSettle
