SPECIFICATION FairPoolSpec
CONSTANTS
    Workers = {w1, w2}
    Callers = {c1}
    Owner = c1
    Tasks = {t1, t2}
    NoTask = none
    Nested = TRUE
PROPERTY DestroyReturns
CHECK_DEADLOCK FALSE
