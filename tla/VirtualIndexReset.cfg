\* "Always resets HypoPG state": expected to be violated when the limiter
\* refuses the final reset.
CONSTANTS
    MaxCandidates = 2
    MaxTables = 1
    MaxSets = 3
    Times = {1, 2}
SPECIFICATION Spec
INVARIANTS
    AlwaysReset
