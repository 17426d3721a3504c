SPECIFICATION Spec
CONSTANTS
    u = u
    v = v
    w = w
    Proc <- Users
    Foreign = {}
    MaxSocket = 2
    MaxFd = 3
    To <- AnyTo
    Serial = TRUE
    MayCrash = FALSE
    MayRestart = FALSE
    UseClose = FALSE
INVARIANTS OnlyBoundDestination
CHECK_DEADLOCK FALSE
