SPECIFICATION Spec
CONSTANTS
    t1 = t1
    t2 = t2
    t3 = t3
    o1 = o1
    o2 = o2
    o3 = o3
    Threads = {t1, t2, t3}
    Objs = {o1, o2, o3}
    Ueids = {1, 2}
    NoThread = NoThread
    NoObj = NoObj
    Faults = {"load", "user"}
    Ocalls = {"write", "user"}
    SingleRunner = TRUE
    SharedDestroy = FALSE
    KeepHandles = FALSE
SYMMETRY Symmetry
INVARIANT TypeOK
INVARIANT OwnerInv
INVARIANT FinishesOwnEntry
PROPERTY FreeIsExclusive
PROPERTY ImplementsLifecycle
