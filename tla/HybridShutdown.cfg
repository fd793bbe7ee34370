\* "graceful shutdown": expected to be violated under stdio, where the join of
\* the HTTP thread never ends.
CONSTANTS
    Tables = {orders}
    MaxPolls = 3
    MaxSignals = 1
SPECIFICATION FairSpec
PROPERTIES
    SignalStops
