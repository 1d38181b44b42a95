SPECIFICATION FairContextSpec
CONSTANTS
    Ops = {o1}
    MsgOps = {}
    Cancels = {k1}
    Wake = wake
    Entries = 2
    Timers = {e1}
    Tasks = {t1}
    Producers = {p1}
    MaxDepth = 2
PROPERTIES
    TaskRuns
    CompletionDelivered
    TimerAnswered
    StopLeaves
CHECK_DEADLOCK FALSE
