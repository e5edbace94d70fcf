CONSTANTS
    MaxTasks = 2
    Posters = {0, 1, 2}
    Posts = 3
    Limit = 1
    Timed = {TRUE, FALSE}
    Spurious = 1
SPECIFICATION EngineFairSpec
INVARIANTS
    NoneLost
    FlagIsRight
    QuitHandlesAll
    AtMostOneSkip
PROPERTIES
    StopReturns
    KeepsWorker
    EventsHandled
    QuitEnds
    NextPostRescues
CHECK_DEADLOCK FALSE
