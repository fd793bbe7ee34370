\* Two polls that overlap, one change of each instance's sessions between old
\* and new answers, a chart of up to two points.
CONSTANTS
    Polls = {p1, p2}
    MaxChanges = 1
    Window = 1
SPECIFICATION FairSpec
INVARIANTS
    TypeOK
    ShowsItsInstance
    PartsAgree
PROPERTIES
    CatchesUp
