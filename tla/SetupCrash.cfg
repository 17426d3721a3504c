SPECIFICATION FairSpec
CONSTANTS
    u = u
    v = v
    w = w
    Proc <- Users
    Foreign = {}
    MaxSocket = 2
    MaxFd = 3
    To <- Right
    Serial = TRUE
    MayCrash = TRUE
    MayRestart = FALSE
    UseClose = FALSE
PROPERTIES CleansUp
CHECK_DEADLOCK FALSE
