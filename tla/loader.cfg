SPECIFICATION LSpec
CONSTANTS
    Unmapped = Unmapped
    PgSize = 4
    Fan = 4
    Idx <- Idx4
    Frames <- SmallFrames
    Sizes <- GrantedSizes
    Requests <- AlignedRequests
    UntrustedPtr = 64
    StackPoint = 192
    Kbuffer = 192
    MaxElf = 24
    MaxStack = 16
    MaxUntrusted = 16
INVARIANT ImageFaithful
INVARIANT PartialLoadSound
INVARIANT NoExhaustion
CHECK_DEADLOCK FALSE
