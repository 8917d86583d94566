SPECIFICATION RestartSpec
INVARIANT ActiveChainIsKnown
CHECK_DEADLOCK FALSE
CONSTANTS
    Zero <- MCZero
    Block <- MCBlock
    Parent <- MCParent
    Height <- MCHeight
    HashRank <- MCHashRank
    Path <- MCPath
    BlockWork <- MCWork
    Coin <- MCCoin
    Spends <- MCSpends
    Creates <- MCCoinbaseOf
    CoinbaseOf <- MCCoinbaseOf
    ValueOK <- NotX
    Committed <- AllTrue
    Ledger <- MCLedger
    Maturity = 1
    Checkpoint <- Pinned
    Tree <- ForkTree
    Order <- ForkOrder
    TxSpends <- ForkSpends
    KeepDepth = 2
