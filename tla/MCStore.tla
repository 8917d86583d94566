------------------------------ MODULE MCStore ------------------------------
(* Small worlds of blocks for FileStore; every block has a coinbase output. *)
EXTENDS FileStore, TLC

CONSTANTS Tree,         \* [Block -> Block \cup {Zero}]: the parents
          Order,        \* the blocks by ascending hash
          TxSpends      \* [some blocks -> SUBSET Coin]

None == <<>>

MCZero == "zero"
MCBlock == DOMAIN Tree
MCParent == Tree
MCHeight[b \in MCBlock] == IF Tree[b] = MCZero THEN 0 ELSE MCHeight[Tree[b]] + 1
MCHashRank == [b \in MCBlock |-> CHOOSE i \in DOMAIN Order : Order[i] = b]
MCPath[b \in MCBlock \cup {MCZero}] == IF b = MCZero THEN {} ELSE MCPath[Tree[b]] \cup {b}
MCWork == [b \in MCBlock |-> 1]
MCSpends == [b \in MCBlock |-> IF b \in DOMAIN TxSpends THEN TxSpends[b] ELSE {}]
MCCoinbaseOf == [b \in MCBlock |-> {<<b, 0>>}]
MCCoin == UNION {MCCoinbaseOf[b] : b \in MCBlock}
MCLedger[b \in MCBlock \cup {MCZero}] ==
    IF b = MCZero THEN EmptyState ELSE ApplyTo(MCLedger[Tree[b]], b)
AllTrue == [b \in MCBlock |-> TRUE]
NotX == [b \in MCBlock |-> b # "x3"]

\* Branches over the checkpoint a1 that overtake each other, no deeper than two
\* blocks; x3 breaks a value rule, and only the tip a2 can be asked to connect
\* it, so that nothing has been disconnected when it fails (module ChainState
\* has the other case).
ForkTree == "g" :> "zero" @@ "a1" :> "g" @@ "a2" :> "a1" @@ "a3" :> "a2" @@ "a4" :> "a3"
    @@ "b2" :> "a1" @@ "b3" :> "b2" @@ "c3" :> "a2" @@ "x3" :> "a2"
ForkOrder == <<"a2", "g", "b3", "a3", "a1", "c3", "a4", "b2", "x3">>
ForkSpends == "a1" :> {<<"g", 0>>} @@ "a2" :> {<<"a1", 0>>} @@ "b3" :> {<<"a1", 0>>}
    @@ "a4" :> {<<"a2", 0>>} @@ "c3" :> {<<"a2", 0>>}
Pinned == {"a1"}

\* What the theorems about FileStore ask of the tree holds in this world, but for
\* the invalid block x3.
ASSUME HeightZeroIsGenesis /\ FreshCoins /\ ShallowForks /\ SettledSnapshots
       /\ HigherIsHeavier
=============================================================================
