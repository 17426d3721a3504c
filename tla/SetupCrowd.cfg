SPECIFICATION Spec
CONSTANTS
    u = u
    v = v
    w = w
    Proc <- Crowd
    Foreign = {}
    MaxSocket = 2
    MaxFd = 1
    To <- NoTo
    Serial = FALSE
    MayCrash = TRUE
    MayRestart = FALSE
    UseClose = TRUE
INVARIANTS TypeOK EntryExclusive NoStrayWakeup
SYMMETRY Alike
CHECK_DEADLOCK FALSE
