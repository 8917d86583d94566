------------------------------- MODULE MCNode -------------------------------
(***************************************************************************)
(* Worlds for NodeChain.  A block is the sequence of the transaction sets  *)
(* of its chain, so that every set the miner may choose has a block; t1    *)
(* and t2 spend the same output, t3 spends what t1 creates, t4 is alone.   *)
(***************************************************************************)
EXTENDS NodeChain, SequencesExt

CONSTANTS Contents,   \* the transaction sets a block may have
          Depth       \* the number of blocks above the genesis

MCZero == <<>>
Genesis == <<{}>>
MCBlock == {Genesis \o s : s \in UNION {[1..n -> Contents] : n \in 0..Depth}}
MCParent == [b \in MCBlock |-> Front(b)]
MCHeight == [b \in MCBlock |-> Len(b) - 1]
MCWork == [b \in MCBlock |-> 1]
\* Any order will do: the contents along the chain as digits of a number.
Digit(c) == FoldSet(LAMBDA t, n : n + 2 ^ (CHOOSE i \in 0..3 : <<"t1", "t2", "t3", "t4">>[i + 1] = t), 0, c)
MCHashRank == [b \in MCBlock |-> FoldLeft(LAMBDA n, c : 16 * n + Digit(c), 1, b)]

MCTx == {"t1", "t2", "t3", "t4"}
TxOutput(t) == [of |-> t, blk |-> MCZero]
CoinbaseOutput(b) == [of |-> "coinbase", blk |-> b]
MCInputs == [t \in MCTx |->
    IF t = "t3" THEN {TxOutput("t1")}
    ELSE IF t = "t4" THEN {CoinbaseOutput(Genesis \o <<{}>>)}
    ELSE {CoinbaseOutput(Genesis)}]
MCTxsOf == [b \in MCBlock |-> Last(b)]
\* Every block but two comes from this code base.
MCAssembled == MCBlock \ {Genesis, Genesis \o <<{}>>}
MCLocalTx == {"t4"}
MCSpends == [b \in MCBlock |-> UNION {MCInputs[t] : t \in Last(b)}]
MCCoinbaseOf == [b \in MCBlock |-> {CoinbaseOutput(b)}]
MCCreates == [b \in MCBlock |-> MCCoinbaseOf[b] \cup {TxOutput(t) : t \in Last(b)}]
MCCoin == UNION {MCCreates[b] : b \in MCBlock}
\* Transactions of one block do not spend the same output.
MCValueOK == [b \in MCBlock |->
    /\ \A t, u \in Last(b) : t # u => MCInputs[t] \cap MCInputs[u] = {}
    /\ \A c \in MCSpends[b] : ScriptLen[c] = 20]
MCCommitted == [b \in MCBlock |-> b # Genesis]
MCPath == [b \in MCBlock \cup {MCZero} |-> {SubSeq(b, 1, n) : n \in 1..Len(b)}]
MCLedger[b \in MCBlock \cup {MCZero}] ==
    IF b = MCZero THEN EmptyState ELSE ApplyTo(MCLedger[Front(b)], b)

\* The blocks that are valid on their own chain with all their ancestors.
ValidBlocks ==
    {b \in MCBlock : \A a \in MCPath[b] :
        /\ MCValueOK[a]
        /\ MCSpends[a] \subseteq MCLedger[Front(a)].utxo
        /\ \A e \in MCLedger[Front(a)].coinbase : e[1] \in MCSpends[a] => Len(a) - 1 >= e[2] + Maturity}

\* What peers send competes with what the miner finds.
ForkContents == {{}, {"t1"}, {"t2"}, {"t3"}, {"t4"}, {"t1", "t2"}, {"t1", "t3"}, {"t1", "t4"}, {"t2", "t4"}}
ForkBlocks == {<<{}>>, <<{}, {}>>, <<{}, {"t2"}>>}

\* A network of this code base only, whose wallets spend what they have mined.
OwnContents == {{}, {"t1"}}
OwnBlocks == {<<{}>>, <<{}, {}>>}
OwnTx == {"t1"}

\* What peers send is valid, down to the genesis.
ASSUME NetBlocks \subseteq ValidBlocks

\* What the proofs ask of the world.
ASSUME FreshCoins
ASSUME PeersSendValid
ASSUME AssembleKeepsRules
=============================================================================
