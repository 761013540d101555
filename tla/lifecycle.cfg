CONSTANTS
    HasChecker = TRUE
    Tasks = {x1, x2, x3}
    NoTask = NoTask
    Threads = {t1, t2, t3}
SPECIFICATION FairLifeSpec
CHECK_DEADLOCK FALSE
INVARIANTS
    PoolTypeOK
    LifeTypeOK
    StopHasOneCaller
    NoThreadOutlivesServer
    NoLostWakeup
    DrainedOnDestruction
PROPERTIES
    SignalEndsServing
    ImplementsExecutor
    EveryTaskRuns
    DestructorReturns
