\* Every transport and setup, failures at every step, up to three signals.
CONSTANTS
    Tables = {orders}
    MaxPolls = 3
    MaxSignals = 3
SPECIFICATION FairSpec
INVARIANTS
    TypeOK
    TunnelNotForgotten
    ScopeBeforeService
PROPERTIES
    StartupEnds
    HttpStopsOnSignal
    SignalEndsJoin
