CONSTANTS
    HasChecker = FALSE
    Tasks = {x1}
    NoTask = NoTask
    Threads = {t1}
SPECIFICATION LifeSpec
CHECK_DEADLOCK FALSE
INVARIANT
    HandlersUseLiveMembers
