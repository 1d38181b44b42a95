SPECIFICATION FairContextPoolSpec
CONSTANTS
    Num = 2
    Tasks = {t1, t2, t3}
    StopTask = halt
    NoTask = none
INVARIANTS
    BuiltBeforeUse
PROPERTIES
    QueuedTaskStarts
    StartedDestroyReturns
CHECK_DEADLOCK FALSE
