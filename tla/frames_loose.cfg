SPECIFICATION FrameSpec
CONSTANTS
    Contexts = {x1, x2}
    MaxFrames = 4
    Remote = TRUE
    Migrate = TRUE
    Outlive = TRUE
    Overwrite = FALSE
    JoinNothing = FALSE
INVARIANTS
    OneResumer
    NoFrameLeaks
PROPERTIES
    JoinComplete
    OnlyKnownFaults
CHECK_DEADLOCK FALSE
