SPECIFICATION FairSpec
CONSTANTS
    u = u
    v = v
    w = w
    Proc <- Crowd
    Foreign = {}
    MaxSocket = 3
    MaxFd = 3
    To <- Right
    Serial = TRUE
    MayCrash = FALSE
    MayRestart = TRUE
    UseClose = FALSE
INVARIANTS OwnDescriptor LockHeld
PROPERTIES CallReturns CleansUp
CHECK_DEADLOCK FALSE
