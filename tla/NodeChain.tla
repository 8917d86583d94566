----------------------------- MODULE NodeChain -----------------------------
(***************************************************************************)
(* litc-node's use of the chain: accept_block with its whole effect on the *)
(* node, the mempool, the directory of transaction files that feeds it,    *)
(* and the miner thread that works on a template while the node lock is    *)
(* free.                                                                   *)
(*                                                                         *)
(* Every handler holds the node lock from its start to its end; serving    *)
(* names the block whose accept_block holds it.  A block or transaction    *)
(* over its rate limit is one that does not arrive (Sync has the limit of  *)
(* blocks).  Epoch seeds and targets are modelled in module Epochs.        *)
(***************************************************************************)
EXTENDS ChainState, Sequences, Selection

CONSTANTS
    Tx,         \* transactions that are not coinbases
    Inputs,     \* [Tx -> SUBSET Coin]
    TxsOf,      \* [Block -> SUBSET Tx]: the transactions of a block
    NetBlocks,  \* the blocks that peers send
    LocalTx,    \* the transactions that wallets bring to this node
    Assembled,  \* the blocks that assemble_block has put together
    MaxMempool, \* MAX_MEMPOOL
    KnownMax    \* KNOWN_MAX

NoBlock == Zero

\* The length of an output's script: HASH160 of a key, which assemble_block
\* follows with the height in the coinbase.
ScriptLen == [c \in Coin |-> IF \E b \in Assembled : c \in CoinbaseOf[b] THEN 28 ELSE 20]

ASSUME NodeAssumption ==
    /\ Inputs \in [Tx -> SUBSET Coin]
    /\ TxsOf \in [Block -> SUBSET Tx]
    /\ NetBlocks \subseteq Block
    /\ LocalTx \subseteq Tx
    /\ MaxMempool \in Nat
    /\ \A b \in Block : ValueOK[b] => \A c \in Spends[b] : ScriptLen[c] = 20

\* What peers send is valid on its own chain.
PeersSendValid == \A b \in NetBlocks : Valid(Ledger[Parent[b]], b)

\* A block that assemble_block puts together spends the inputs of the
\* transactions it is given, and keeps the rules that read no other block when
\* they spend commitments to keys and no output twice.
AssembleKeepsRules ==
    \A b \in Assembled :
        /\ Spends[b] = UNION {Inputs[t] : t \in TxsOf[b]}
        /\ /\ \A t, u \in TxsOf[b] : t # u => Inputs[t] \cap Inputs[u] = {}
           /\ \A c \in Spends[b] : ScriptLen[c] = 20
           => ValueOK[b]

NoTemplate == [prev |-> Zero, height |-> 0, txs |-> {}, set |-> FALSE]

VARIABLES
    knownBlocks,    \* Node.known_blocks
    knownTxs,       \* Node.known_txs
    mempool,        \* Node.mempool
    nodeTip,        \* Node.tip
    serving,        \* the block whose accept_block is running
    template,       \* the template the miner thread works on
    txFiles,        \* <data_dir>/mempool/*.tx
    sweeping,       \* the files load_mempool has had accepted, not yet deleted
    sent            \* history: what wallets have handed to this node

pool == <<knownTxs, mempool>>
dir == <<txFiles, sweeping, sent>>
nodeVars == <<store, pc, loop, knownBlocks, pool, nodeTip, serving, template, dir>>

NodeInit ==
    /\ Init
    /\ knownBlocks = {}
    /\ knownTxs = {}
    /\ mempool = <<>>
    /\ nodeTip = Zero
    /\ serving = NoBlock
    /\ template = NoTemplate
    /\ txFiles = {}
    /\ sweeping = {}
    /\ sent = {}

Unlocked == serving = NoBlock

\* Node::best_height: the height of the next block.
NextHeight == IF nodeTip = Zero THEN 0 ELSE Height[nodeTip] + 1

\* validate_tx against the store: every input is there, commits to a key and
\* is mature enough.
TxOK(t) ==
    /\ Inputs[t] \subseteq ledger.utxo
    /\ \A c \in Inputs[t] : ScriptLen[c] = 20
    /\ \A e \in EntriesOf(Inputs[t], ledger.coinbase) : NextHeight >= e[2] + Maturity

\* Mutant of TemplateTxs: conflicts inside the mempool are not looked for.
TemplateTxsUnclaimed == {t \in Range(mempool) : TxOK(t)}

\* A transaction is kept when it validates and claims no outpoint that one
\* kept before has claimed.
Keep(kept, t) ==
    kept \cup {u \in {t} : TxOK(u) /\ \A v \in kept : Inputs[u] \cap Inputs[v] = {}}

\* valid_mempool_txs: the transactions kept, in mempool order.
TemplateTxs ==
    LET Kept[i \in 0..Len(mempool)] ==
            IF i = 0 THEN {} ELSE Keep(Kept[i - 1], mempool[i])
    IN  Kept[Len(mempool)]

\* An insert into known_blocks or known_txs, cleared when it is full.
Remember(known, x) == (IF Cardinality(known) >= KnownMax THEN {} ELSE known) \cup {x}

-----------------------------------------------------------------------------

\* accept_block up to the call of reorg.
AcceptBlock(b) ==
    /\ Unlocked
    /\ b \notin knownBlocks
    /\ Submit(b)
    /\ serving' = b
    /\ UNCHANGED <<knownBlocks, pool, nodeTip, template, dir>>

\* The call of reorg.
Reorganise ==
    /\ ReorgStep
    /\ UNCHANGED <<knownBlocks, pool, nodeTip, serving, template, dir>>

\* Mutant of AcceptReturn: the accepted block is taken for the tip.
AcceptReturnAsTip ==
    /\ serving # NoBlock
    /\ pc = "idle"
    /\ knownBlocks' = Remember(knownBlocks, serving)
    /\ nodeTip' = serving
    /\ mempool' = Selected(mempool, Tx \ TxsOf[serving])
    /\ serving' = NoBlock
    /\ UNCHANGED <<store, pc, loop, knownTxs, template, dir>>

\* accept_block after the call: remember the block, take over the store's tip,
\* drop the block's transactions from the mempool.
AcceptReturn ==
    /\ serving # NoBlock
    /\ pc = "idle"
    /\ knownBlocks' = Remember(knownBlocks, serving)
    /\ nodeTip' = tip
    /\ mempool' = Selected(mempool, Tx \ TxsOf[serving])
    /\ serving' = NoBlock
    /\ UNCHANGED <<store, pc, loop, knownTxs, template, dir>>

\* A peer relays a block.
RelayBlock == \E b \in NetBlocks : AcceptBlock(b)

\* accept_tx.
AcceptTx(t) ==
    /\ Unlocked
    /\ t \notin knownTxs
    /\ Len(mempool) < MaxMempool
    /\ TxOK(t)
    /\ knownTxs' = Remember(knownTxs, t)
    /\ mempool' = Append(mempool, t)
    /\ UNCHANGED <<store, pc, loop, knownBlocks, nodeTip, serving, template>>

\* A peer relays a transaction.
RelayTx(t) == AcceptTx(t) /\ UNCHANGED dir

\* Wallet::spend_from signs a spend of any unspent output of its address, be
\* it mature or not, whatever its script holds after the commitment.
CanSign(t) == Inputs[t] \subseteq ledger.utxo

\* handle_send, and wallet send of the command line: sign a transaction and
\* write it to the directory.
SendTx(t) ==
    /\ Unlocked
    /\ CanSign(t)
    /\ txFiles' = txFiles \cup {t}
    /\ sent' = sent \cup {t}
    /\ UNCHANGED <<store, pc, loop, knownBlocks, pool, nodeTip, serving, template, sweeping>>

\* handle_broadcast_raw_tx: the transaction is accepted first, then written.
BroadcastRawTx(t) ==
    /\ AcceptTx(t)
    /\ txFiles' = txFiles \cup {t}
    /\ sent' = sent \cup {t}
    /\ UNCHANGED sweeping

\* Mutant of LoadTx: load_mempool deletes a file that was not accepted, too.
LoadTxAndForget(t) ==
    /\ Unlocked
    /\ sweeping = {}
    /\ t \in txFiles
    /\ sweeping' = {t}
    /\ UNCHANGED <<store, pc, loop, knownBlocks, pool, nodeTip, serving, template, txFiles, sent>>

\* load_mempool: accept_tx of a file's transaction, under the lock.
LoadTx(t) ==
    /\ sweeping = {}
    /\ t \in txFiles
    /\ AcceptTx(t)
    /\ sweeping' = {t}
    /\ UNCHANGED <<txFiles, sent>>

\* load_mempool after the inv is broadcast, without the lock: delete the file.
DeleteTxFile ==
    /\ sweeping # {}
    /\ txFiles' = txFiles \ sweeping
    /\ sweeping' = {}
    /\ UNCHANGED <<store, pc, loop, knownBlocks, pool, nodeTip, serving, template, sent>>

\* miner_loop takes a template under the lock and then releases it.
MakeTemplate ==
    /\ Unlocked
    /\ ~template.set
    /\ template' = [prev |-> nodeTip, height |-> NextHeight, txs |-> TemplateTxs, set |-> TRUE]
    /\ UNCHANGED <<store, pc, loop, knownBlocks, pool, nodeTip, serving, dir>>

\* The block that mining the template t gives.
IsMined(b, t) ==
    b \in Assembled /\ Parent[b] = t.prev /\ Height[b] = t.height /\ TxsOf[b] = t.txs

\* miner_loop has found a nonce and hands the block to accept_block; by now
\* the tip may be another one.
SubmitMined(b) ==
    /\ template.set
    /\ IsMined(b, template)
    /\ Unlocked
    /\ b \notin knownBlocks
    /\ Submit(b)
    /\ serving' = b
    /\ template' = NoTemplate
    /\ UNCHANGED <<knownBlocks, pool, nodeTip, dir>>

\* The search space is exhausted, or accept_block refuses the mined block.
DropTemplate ==
    /\ Unlocked
    /\ template.set
    /\ template' = NoTemplate
    /\ UNCHANGED <<store, pc, loop, knownBlocks, pool, nodeTip, serving, dir>>

NodeNext ==
    \/ RelayBlock
    \/ Reorganise
    \/ AcceptReturn
    \/ \E t \in Tx : RelayTx(t)
    \/ \E t \in LocalTx : SendTx(t) \/ BroadcastRawTx(t) \/ LoadTx(t)
    \/ DeleteTxFile
    \/ MakeTemplate
    \/ \E b \in Block : SubmitMined(b)
    \/ DropTemplate

NodeSpec == NodeInit /\ [][NodeNext]_nodeVars

-----------------------------------------------------------------------------
(* Properties.                                                             *)

\* Every variable of the node has its type, and its tip is the store's.
NodeTypeOK ==
    /\ TypeOK
    /\ knownBlocks \subseteq blocks
    /\ knownTxs \subseteq Tx
    /\ mempool \in Seq(Tx) /\ Len(mempool) <= MaxMempool
    /\ serving \in blocks \cup {NoBlock}
    /\ Unlocked => nodeTip = tip
    /\ template \in [prev : blocks \cup {Zero}, height : Nat, txs : SUBSET Tx, set : BOOLEAN]
    /\ txFiles \subseteq LocalTx
    /\ sweeping \subseteq txFiles /\ Cardinality(sweeping) <= 1
    /\ sent \subseteq LocalTx

\* Whatever transactions peers sent, and wherever the chain has moved since,
\* the block the miner is working on passes full validation on its own chain.
TemplateIsValid ==
    template.set =>
        \A b \in Block : IsMined(b, template) => Valid(Ledger[Parent[b]], b)

\* A transaction the node has accepted, or a wallet has handed to it, is in the
\* mempool or waits in its file.  Otherwise a block has it: one of the active
\* chain, one of a branch that lost, or one that was disconnected.
LostOnlyToABlock ==
    \A t \in knownTxs \cup sent :
        t \notin Range(mempool) \cup txFiles => \E b \in blocks : t \in TxsOf[b]

\* A mature output can be spent: accept_tx takes what the wallet signs over it.
MatureCoinsSpend ==
    \A t \in LocalTx :
        /\ CanSign(t)
        /\ \A e \in EntriesOf(Inputs[t], ledger.coinbase) : NextHeight >= e[2] + Maturity
        => TxOK(t)
=============================================================================
