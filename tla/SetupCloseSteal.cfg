SPECIFICATION Spec
CONSTANTS
    u = u
    v = v
    w = w
    Proc <- Crowd
    Foreign = {}
    MaxSocket = 3
    MaxFd = 3
    To <- Right
    Serial = TRUE
    MayCrash = FALSE
    MayRestart = TRUE
    UseClose = TRUE
INVARIANTS OwnDescriptor
CHECK_DEADLOCK FALSE
