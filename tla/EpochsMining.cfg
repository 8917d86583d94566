SPECIFICATION Spec
INVARIANT TemplateSeedIsRight
CHECK_DEADLOCK FALSE
CONSTANTS
    Zero <- MCZero
    Block <- MCBlock
    Parent <- MCParent
    Height <- MCHeight
    HashRank <- MCHashRank
    Path <- MCPath
    Time <- MCTime
    SeedFrom <- MCSeedFrom
    Digest <- MCDigest
    EpochBlocks = 3
    Timespan = 20
    InitialTarget = 16
    MinTarget = 2
    BaseBits = 2
    Digits = 3
    SpanDigits = 4
    Tree <- WideTree
    Order <- WideOrder
    Gap <- WideGap
    OwnSeed <- WideSeed
    Hard <- WideHard
