SPECIFICATION Spec
CONSTANTS
    u = u
    v = v
    w = w
    Proc <- Users
    Foreign = {}
    MaxSocket = 2
    MaxFd = 3
    To <- Right
    Serial = TRUE
    MayCrash = FALSE
    MayRestart = FALSE
    UseClose = FALSE
INVARIANTS PortsInUse
CHECK_DEADLOCK FALSE
