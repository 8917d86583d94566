CONSTANTS
    Tree <- WorldTree
    Order <- WorldOrder
    TxSpends <- None
    TxCreates <- None
    Bad <- None
    Claimed <- OddHeights
    SameCoinbase <- None
    Block <- MCBlock
    Zero <- MCZero
    Parent <- MCParent
    Height <- MCHeight
    BlockWork <- StepWork
    HashRank <- MCHashRank
    Coin <- WorldCoin
    Spends <- WorldSpends
    Creates <- WorldCreates
    CoinbaseOf <- WorldCoinbase
    ValueOK <- WorldValueOK
    TxList <- WorldTxs
    Value <- WorldValue
    BaseSubsidy = 8
    HalvingInterval = 3
    AmountBits = 4
    Committed <- AllTrue
    Maturity = 2
    Checkpoint <- Pinned
    Path <- MCPath
    Ledger <- MCLedger
SPECIFICATION Spec
INVARIANT LedgerIsReplay
