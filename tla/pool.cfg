SPECIFICATION FairPoolSpec
CONSTANTS
    Workers = {w1, w2}
    Callers = {c1, c2}
    Owner = c1
    Tasks = {t1, t2, t3}
    NoTask = none
    Nested = TRUE
INVARIANTS
    NoSleepingOnWork
    UsesAllWorkers
PROPERTIES
    ImplementsExecutor
    NoneDropped
    TaskStarts
    DrainedDestroyReturns
CHECK_DEADLOCK FALSE
