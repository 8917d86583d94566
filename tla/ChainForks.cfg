CONSTANTS
    Tree <- ForkTree
    Order <- ForkOrder
    TxSpends <- ForkSpends
    TxCreates <- ForkCreates
    Bad = {}
    Claimed <- None
    SameCoinbase <- None
    Block <- MCBlock
    Zero <- MCZero
    Parent <- MCParent
    Height <- MCHeight
    BlockWork <- StepWork
    HashRank <- MCHashRank
    Coin <- MCCoin
    Spends <- MCSpends
    Creates <- MCCreates
    CoinbaseOf <- MCCoinbaseOf
    ValueOK <- NotBad
    Committed <- AllTrue
    Maturity = 2
    Checkpoint = {}
    Path <- MCPath
    Ledger <- MCLedger
SPECIFICATION FairSpec
INVARIANTS TypeOK LedgerIsReplay AppliedIsActiveChain TipIsBest
PROPERTIES TipOnlyImproves EventuallyBest AdoptsHeaviest
