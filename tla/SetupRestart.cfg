SPECIFICATION Spec
CONSTANTS
    u = u
    v = v
    w = w
    Proc <- Crowd
    Foreign = {}
    MaxSocket = 2
    MaxFd = 1
    To <- NoTo
    Serial = FALSE
    MayCrash = FALSE
    MayRestart = TRUE
    UseClose = FALSE
INVARIANTS EntryExclusive
SYMMETRY Alike
CHECK_DEADLOCK FALSE
