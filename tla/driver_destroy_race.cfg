SPECIFICATION Spec
CONSTANTS
    t1 = t1
    t2 = t2
    t3 = t3
    o1 = o1
    Threads = {t1, t2, t3}
    Objs = {o1}
    Ueids = {1}
    NoThread = NoThread
    NoObj = NoObj
    Faults = {"alloc", "args", "load", "sbi", "user"}
    Ocalls = {"write", "user", "other"}
    SingleRunner = TRUE
    SharedDestroy = TRUE
    KeepHandles = TRUE
SYMMETRY Symmetry
INVARIANT RunningFlagCovers
INVARIANT NoOrphan
INVARIANT RegistrySound
INVARIANT NoUseAfterFree
CHECK_DEADLOCK FALSE
