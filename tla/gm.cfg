SPECIFICATION GmSpec
CONSTANTS
    B = 2
    BlockBytes = 8
    LenAt = 4
    WordBytes = 4
    Base = 16
    FirstByte = 200
    MaxMsg = 20
    MaxHashes = 2
    Rounds = 6
    N = 7
    XCoord <- MCXCoord
    Programs <- MCPrograms
    Requests <- MCRequests
    CbcTexts = {1, 2, 3, 5}
    Header = 5
    UintMax = 31
    ByteMod = 8
    Boxes <- MCBoxes
    Words <- MCWords
    MaxLives = 2
    MaxDraws = 1
    MaxFresh = 2
INVARIANT CryptoTypeOK
INVARIANT IntactOpens
INVARIANT OpensAsSealed
INVARIANT SizeExact
INVARIANT TableFits
INVARIANT KeysFresh
INVARIANT DecryptionInverts
INVARIANT SignedVerifies
INVARIANT HashesPadded
CHECK_DEADLOCK FALSE
