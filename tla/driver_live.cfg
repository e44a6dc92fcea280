SPECIFICATION LiveSpec
CONSTANTS
    t1 = t1
    t2 = t2
    o1 = o1
    Threads = {t1, t2}
    Objs = {o1}
    Ueids = {1}
    NoThread = NoThread
    NoObj = NoObj
    Faults = {"args", "load", "sbi"}
    Ocalls = {"write", "other"}
    SingleRunner = TRUE
    SharedDestroy = TRUE
    KeepHandles = FALSE
INVARIANT LoopExitsOnlyWhenEnded
PROPERTY BigLockReleased
PROPERTY DestroyReclaims
