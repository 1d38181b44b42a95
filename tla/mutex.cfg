SPECIFICATION FairMutexSpec
CONSTANTS
    c1 = c1
    c2 = c2
    c3 = c3
    x1 = x1
    x2 = x2
    Coros = {c1, c2, c3}
    Contexts = {x1, x2}
    Home <- MCHome
    PlainWaiters = {c1}
    Nobody = nobody
INVARIANTS
    MutualExclusion
    ResumesSuspended
    NoMissedSignal
PROPERTIES
    ImplementsFairLock
    LockGranted
CHECK_DEADLOCK FALSE
