SPECIFICATION LSpec
CONSTANTS
    Unmapped = Unmapped
    PgSize = 4
    Fan = 4
    Idx <- Idx4
    Frames <- SmallFrames
    Sizes <- GrantedSizes
    Requests <- BssRequests
    UntrustedPtr = 64
    StackPoint = 192
    Kbuffer = 192
    MaxElf = 24
    MaxStack = 16
    MaxUntrusted = 16
INVARIANT ImageFaithful
CHECK_DEADLOCK FALSE
