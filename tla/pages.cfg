SPECIFICATION PagesSpec
CONSTANTS
    u1 = u1
    Unmapped = Unmapped
    Idx = {0, 1}
    Sizes = {0, 1, 2, 4, 6, 8}
    Frames = {u1}
INVARIANT PagesTypeOK
INVARIANT OneUse
INVARIANT Walkable
PROPERTY TablesStable
CHECK_DEADLOCK FALSE
