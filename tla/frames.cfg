SPECIFICATION FairFrameSpec
CONSTANTS
    Contexts = {x1}
    MaxFrames = 4
    Remote = FALSE
    Migrate = FALSE
    Outlive = FALSE
    Overwrite = FALSE
    JoinNothing = FALSE
INVARIANTS
    OneResumer
    NoUseAfterDestroy
    NoFrameLeaks
PROPERTIES
    JoinComplete
    SuspensionEnds
CHECK_DEADLOCK FALSE
