---------------------------- MODULE MCChainState ----------------------------
(***************************************************************************)
(* Small worlds of blocks for ChainState.  A world is a tree of blocks,    *)
(* their order by hash, and what they spend and create.  Every block also  *)
(* has a coinbase outpoint <<b, 0>>, unless the world gives it another.    *)
(***************************************************************************)
EXTENDS ChainState, Sequences, TLC

CONSTANTS Tree,         \* [Block -> Block \cup {Zero}]: the parents
          Order,        \* the blocks by ascending hash
          TxSpends,     \* [some blocks -> SUBSET Coin]
          TxCreates,    \* [some blocks -> SUBSET Coin]
          Bad,          \* the blocks that break a value rule
          Claimed,      \* [some blocks -> Nat]: heights not their parent's plus 1
          SameCoinbase  \* [some blocks -> Block]: whose coinbase it repeats

None == <<>>

\* The function as a table, which TLC computes once.
Table(f) == f @@ None

MCZero == "zero"
MCBlock == DOMAIN Tree
MCParent == Tree
HeightOf[b \in MCBlock] ==
    IF b \in DOMAIN Claimed THEN Claimed[b]
    ELSE IF Tree[b] = MCZero THEN 0 ELSE HeightOf[Tree[b]] + 1
MCHeight == Table(HeightOf)
MCHashRank == [b \in MCBlock |-> CHOOSE i \in DOMAIN Order : Order[i] = b]
MCSpends == [b \in MCBlock |-> IF b \in DOMAIN TxSpends THEN TxSpends[b] ELSE {}]
MCCoinbaseOf == [b \in MCBlock |->
    {<<IF b \in DOMAIN SameCoinbase THEN SameCoinbase[b] ELSE b, 0>>}]
MCCreates == [b \in MCBlock |->
    MCCoinbaseOf[b] \cup IF b \in DOMAIN TxCreates THEN TxCreates[b] ELSE {}]
MCCoin == UNION {MCCreates[b] : b \in MCBlock}
PathOf[b \in MCBlock \cup {MCZero}] ==
    IF b = MCZero THEN {} ELSE PathOf[Tree[b]] \cup {b}
MCPath == Table(PathOf)
LedgerOf[b \in MCBlock \cup {MCZero}] ==
    IF b = MCZero THEN EmptyState ELSE ApplyTo(LedgerOf[Tree[b]], b)
MCLedger == Table(LedgerOf)

\* A block of an odd height has twice the work of one of an even height.
StepWork == [b \in MCBlock |-> 1 + (MCHeight[b] % 2)]
NotBad == [b \in MCBlock |-> b \notin Bad]
AllTrue == [b \in MCBlock |-> TRUE]
=============================================================================
