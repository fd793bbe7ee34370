\* Write mode, one connection, one waiting place: one caller runs every script of
\* the catalogue, the two others contend for its connection.  Each way a tool
\* can fail between two of its statements, with waiting, hand-over, refusals
\* and time-outs in between.
CONSTANTS
    Callers = {c1, c2, c3}
    Conns = {k1}
    Nobody = Nobody
    MaxWaiting = 1
    AuditRequired = TRUE
    AllowWrite = TRUE
    MaxItems = 1
    Calls <- MixedCalls
SPECIFICATION Spec
INVARIANTS
    TypeOK
    AllOrNothing
    AnswerTruthful
    AuditedBeforeRun
    CleanHandover
    PoolConsistent
PROPERTIES
    ImplementsAtomicCalls
