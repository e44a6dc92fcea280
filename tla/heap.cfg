SPECIFICATION LiveSpec
CONSTANTS
    Arena = 10
    Page = 2
    BrkStart = 1
    BrkLimit = 3
    Start = 8
    Wrap = 64
    Growth <- MCGrowth
    Data <- MCData
    Programs <- MCPrograms
    MaxHeap = 3
INVARIANT HeapTypeOK
INVARIANT NoOverlap
INVARIANT HeadersIntact
PROPERTY FailChangesNothing
PROPERTY FailsOnlyWhenFull
PROPERTY MmapReturns
