SPECIFICATION RingSpec
CONSTANTS
    Ops = {o1, o2}
    MsgOps = {o1}
    Cancels = {k1}
    Wake = wake
    Entries = 4
INVARIANT CallbackGetsUserPtr
CHECK_DEADLOCK FALSE
