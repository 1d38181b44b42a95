SPECIFICATION FairAsyncLogSpec
CONSTANTS
    Capacity = 4
    Lengths = {1, 2, 3}
    MaxWrites = 8
INVARIANTS
    BuffersGoRound
    QuietStopLosesNothing
PROPERTIES
    ImplementsLog
    MessagePrinted
CHECK_DEADLOCK FALSE
