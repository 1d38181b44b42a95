SPECIFICATION ContextSpec
CONSTANTS
    Ops = {o1}
    MsgOps = {}
    Cancels = {k1}
    Wake = wake
    Entries = 3
    Timers = {e1, e2}
    Tasks = {t1, t2}
    Producers = {p1}
    MaxDepth = 2
INVARIANTS
    IoNumExact
    NoLostWakeup
    NeverBothVerdicts
    NoneForgotten
PROPERTIES
    ImplementsExecutor
CHECK_DEADLOCK FALSE
