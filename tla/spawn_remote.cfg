SPECIFICATION FrameSpec
CONSTANTS
    Contexts = {x1, x2}
    MaxFrames = 2
    Remote = TRUE
    Migrate = FALSE
    Outlive = FALSE
    Overwrite = FALSE
    JoinNothing = FALSE
INVARIANT NoUseAfterDestroy
CHECK_DEADLOCK FALSE
