CONSTANTS
    Contents <- ForkContents
    Depth = 2
    Block <- MCBlock
    Zero <- MCZero
    Parent <- MCParent
    Height <- MCHeight
    BlockWork <- MCWork
    HashRank <- MCHashRank
    Coin <- MCCoin
    Spends <- MCSpends
    Creates <- MCCreates
    CoinbaseOf <- MCCoinbaseOf
    ValueOK <- MCValueOK
    Committed <- MCCommitted
    Maturity = 1
    Checkpoint = {}
    Path <- MCPath
    Ledger <- MCLedger
    Tx <- MCTx
    Inputs <- MCInputs
    TxsOf <- MCTxsOf
    LocalTx <- MCLocalTx
    Assembled <- MCAssembled
    NetBlocks <- ForkBlocks
    MaxMempool = 2
    KnownMax = 2
SPECIFICATION NodeSpec
INVARIANTS NodeTypeOK TemplateIsValid LostOnlyToABlock
