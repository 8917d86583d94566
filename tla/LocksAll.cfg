CONSTANTS
    Thread <- MCThread
    Handlers <- OneOfEach
    Miner = "miner"
SPECIFICATION FairSpec
INVARIANTS  OnlyVersionBlocks
 
CHECK_DEADLOCK FALSE
