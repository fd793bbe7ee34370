\* Three candidates make six sets, three of them pairs; the cut-off leaves the
\* first two pairs.  Limits below, at and above a multiple of the batch, results
\* that end within, at and behind the limit.  The connection serves any number
\* of calls.
CONSTANTS
    MaxCandidates = 3
    MaxTables = 1
    MaxSets = 5
    Times = {1, 2, 3}
    Batch = 2
    MaxRows = 6
    Limits <- SomeLimits
SPECIFICATION FairSession
INVARIANTS
    SessionTypeOK
    MeasuredInIsolation
    BestIsBest
PROPERTIES
    RowsExact
    FailureKeepsSettings
    SearchEnds
    QueriesEnd
