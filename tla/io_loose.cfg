SPECIFICATION HandlesSpec
CONSTANTS
    Contexts = {x1, x2}
    Sleepers = {x1}
    MaxHandles = 2
    Ops = {o1}
    Wake = wake
    None = none
    Batch = 1
    Files = {f1, f2}
    RandomFiles = {}
    Sockets = {s1}
    Acceptors = {a1}
    MaxBytes = 0
    MaxFailures = 0
    Careful = FALSE
INVARIANTS
    ClosedOnce
    CompletesAtHome
    IoNumCovers
CHECK_DEADLOCK FALSE
