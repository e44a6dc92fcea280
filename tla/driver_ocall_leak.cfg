SPECIFICATION LiveSpec
CONSTANTS
    t1 = t1
    t2 = t2
    o1 = o1
    Threads = {t1, t2}
    Objs = {o1}
    Ueids = {1}
    NoThread = NoThread
    NoObj = NoObj
    Faults = {}
    Ocalls = {"write", "user", "other"}
    SingleRunner = TRUE
    SharedDestroy = FALSE
    KeepHandles = FALSE
PROPERTY DestroyReclaims
