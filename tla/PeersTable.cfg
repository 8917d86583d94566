SPECIFICATION FairSyncSpec
INVARIANTS TableIsThreads  NoSelfPeer ParentsFirst
PROPERTY EventuallyPeers EventuallySynced 
CHECK_DEADLOCK FALSE
CONSTANTS
    Node = {"A", "B", "C"}
    Conn <- Network
    Fragile <- MayFail
    MaxPeers = 2
    MaxErrors = 1
    Zero <- MCZero
    Block <- MCBlock
    Parent <- MCParent
    Height <- MCHeight
    HashRank <- MCHashRank
    Path <- MCPath
    Work <- MCWork
    Tree <- ForkTree
    Order <- ForkOrder
    Miner <- Finder
    MaxSyncInv = 4
    PeerBlockLimit = 3
    Starts <- Situations
