SPECIFICATION HandlesSpec
CONSTANTS
    Contexts = {x1, x2}
    Sleepers = {x1}
    MaxHandles = 2
    Ops = {o1, o2}
    Wake = wake
    None = none
    Batch = 1
    Files = {f1, f2}
    RandomFiles = {}
    Sockets = {s1}
    Acceptors = {a1}
    MaxBytes = 1
    MaxFailures = 0
    Careful = TRUE
INVARIANTS
    HandlesTypeOK
    IoNumCovers
    CompletesAtHome
    OwnedOnce
    OffsetsTrue
CHECK_DEADLOCK FALSE
