CONSTANTS
    Block <- MCBlock
    Zero <- MCZero
    Parent <- MCParent
    Height <- MCHeight
    HashRank <- MCHashRank
    Path <- MCPath
    Account = {"s"}
    Worker = {"w"}
    BaseSubsidy = 4
    Halving = 2
    NetHalving = 2
    FeePct = 25
    KnownMax = 2
    Addr = {"none", "valid"}
    MinPayouts = {5}
    Amounts = {0, 2}
    MaxEvents = 1
    MaxFound = 3
SPECIFICATION FairSpec
INVARIANTS PoolTypeOK SessionBooks CreditedOnce  StreamInOrder
PROPERTY EventuallyShown
