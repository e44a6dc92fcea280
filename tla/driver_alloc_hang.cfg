SPECIFICATION LiveSpec
CONSTANTS
    t1 = t1
    t2 = t2
    o1 = o1
    Threads = {t1, t2}
    Objs = {o1}
    Ueids = {1}
    NoThread = NoThread
    NoObj = NoObj
    Faults = {"alloc"}
    Ocalls = {"write"}
    SingleRunner = TRUE
    SharedDestroy = TRUE
    KeepHandles = FALSE
PROPERTY BigLockReleased
CHECK_DEADLOCK FALSE
