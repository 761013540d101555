CONSTANTS
    HasChecker = FALSE
    Tasks = {x1}
    NoTask = NoTask
    Threads = {t1}
SPECIFICATION FairLifeSpec
CHECK_DEADLOCK FALSE
PROPERTY
    RunReturnsAfterStop
