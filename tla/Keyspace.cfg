CONSTANTS
    c = c
    b = b
    d = d
    Keys = {c, b, d}
    Counters = {c}
    Bitmaps = {b, d}
    Lists = {c}
    Temporary = {c, b}
    Width = 2
    IntHalf = 1
    DurHalf = 2
    Nums = {0}
    Texts <- SomeTexts
    PxArgs = {0, 3}
    Offsets = {1, 2}
    BitOpArgs <- SomeBitOps
    maxBitOffset = 2
    MaxTime = 1
    MaxLen = 1
SPECIFICATION FairSpec
INVARIANTS
    BitsAreASet
    
PROPERTIES
    
    SweepReclaims
CHECK_DEADLOCK FALSE
