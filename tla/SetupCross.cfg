SPECIFICATION Spec
CONSTANTS
    u = u
    v = v
    w = w
    Proc <- Users
    Foreign = {}
    MaxSocket = 2
    MaxFd = 3
    To <- Right
    Serial = FALSE
    MayCrash = FALSE
    MayRestart = FALSE
    UseClose = FALSE
INVARIANTS OwnDescriptor
CHECK_DEADLOCK FALSE
