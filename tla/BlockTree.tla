----------------------------- MODULE BlockTree -----------------------------
(***************************************************************************)
(* The ledger rules of litc-core and litc-store over the world of blocks:  *)
(* what a block does to the unspent outputs, what undoes it, and when it   *)
(* is valid.  Hashing, signatures and Proof-of-Work are not modelled here: *)
(* every block has a valid nonce, merkle root, epoch seed and timestamp    *)
(* (module Epochs has the seeds and the retargeting).                      *)
(***************************************************************************)
EXTENDS Blocks, FiniteSets, Functions

CONSTANTS
    BlockWork,    \* [Block -> Nat \ {0}]: block_work(target_for(height))
    Coin,         \* outpoints
    Spends,       \* [Block -> SUBSET Coin]: prevouts of all inputs
    Creates,      \* [Block -> SUBSET Coin]: outpoints of all outputs
    CoinbaseOf,   \* [Block -> SUBSET Coin]: those of the coinbase transaction
    ValueOK,      \* [Block -> BOOLEAN]: the rules that read no other block
    Committed,    \* [Block -> BOOLEAN]: the header has a non-zero state_root,
                  \* the one that block_state_root gave for its parent's chain
    Maturity,     \* COINBASE_MATURITY
    Checkpoint,   \* the blocks pinned by ChainParams.checkpoints
    Ledger        \* the state a block's chain leads to, computed from nothing

ASSUME BlockAssumption ==
    /\ BlockWork \in [Block -> Nat \ {0}]
    /\ Spends \in [Block -> SUBSET Coin]
    /\ Creates \in [Block -> SUBSET Coin]
    /\ CoinbaseOf \in [Block -> SUBSET Coin]
    /\ \A b \in Block : CoinbaseOf[b] \subseteq Creates[b]
    /\ ValueOK \in [Block -> BOOLEAN]
    /\ Committed \in [Block -> BOOLEAN]
    /\ Maturity \in Nat
    /\ Checkpoint \subseteq Block

-----------------------------------------------------------------------------
(* The state of the chain: the unspent outputs (MemoryStore.utxos) and the *)
(* creation heights of the live coinbase outputs (MemoryStore.coinbase).   *)

State == [utxo : SUBSET Coin, coinbase : SUBSET (Coin \X Nat)]

EmptyState == [utxo |-> {}, coinbase |-> {}]

\* The entries of a height index that belong to a set of outpoints.
EntriesOf(coins, index) == {e \in index : e[1] \in coins}

\* The entries mark_coinbase makes for the coinbase of b.
CoinbaseEntries(b) == CoinbaseOf[b] \X {Height[b]}

\* apply_tx for every transaction of b: inputs leave, outputs enter.
ApplyTo(s, b) ==
    [utxo     |-> (s.utxo \ Spends[b]) \cup Creates[b],
     coinbase |-> (s.coinbase \ EntriesOf(Spends[b] \cup CoinbaseOf[b], s.coinbase))
                     \cup CoinbaseEntries(b)]

\* The UndoData recorded between begin_block and end_block while b is applied
\* to s: spend_utxo records an output only when it was there to be removed.
\* (The heights in coinbase_created are never read.)
UndoOf(s, b) ==
    [created         |-> Creates[b],
     spent           |-> Spends[b] \cap s.utxo,
     coinbaseCreated |-> CoinbaseOf[b],
     coinbaseSpent   |-> EntriesOf(Spends[b] \cap s.utxo, s.coinbase)]

UndoData == [created : SUBSET Coin, spent : SUBSET Coin,
             coinbaseCreated : SUBSET Coin,
             coinbaseSpent : SUBSET (Coin \X Nat)]

\* Mutant of Rollback: the maturity index is not restored.
RollbackUtxoOnly(s, u) ==
    [utxo |-> (s.utxo \ u.created) \cup u.spent,
     coinbase |-> s.coinbase \ EntriesOf(u.coinbaseCreated, s.coinbase)]

\* MemoryStore::disconnect, when the undo data u of the block is there.
Rollback(s, u) ==
    [utxo     |-> (s.utxo \ u.created) \cup u.spent,
     coinbase |-> (s.coinbase \ EntriesOf(u.coinbaseCreated, s.coinbase))
                     \cup u.coinbaseSpent]

-----------------------------------------------------------------------------
(* What the chain of blocks that ends in b leads to, from nothing.         *)

ASSUME LedgerAssumption ==
    /\ Ledger \in [Block \cup {Zero} -> State]
    /\ Ledger[Zero] = EmptyState
    /\ \A b \in Block : Ledger[b] = ApplyTo(Ledger[Parent[b]], b)

\* Every coinbase output that b spends is deep enough when b is mined.
Mature(s, b) ==
    \A e \in EntriesOf(Spends[b], s.coinbase) : Height[b] >= e[2] + Maturity

\* The leaves of the tree of a state: an output with its creation height if
\* it is of a coinbase.  The root is computed from the leaves alone, and
\* taken to be the same for no others.
Leaf(coin, index) == <<coin, {e[2] : e \in EntriesOf({coin}, index)}>>
Leaves(s) == {Leaf(c, s.coinbase) : c \in s.utxo}

\* OverlayState: what b puts and removes is kept apart from the state below.
PutsOf(b) == {Leaf(c, CoinbaseEntries(b)) : c \in Creates[b]}
RemovesOf(b) == Spends[b] \ Creates[b]
Merged(s, b) ==
    {l \in Leaves(s) : l[1] \notin RemovesOf(b) \cup Creates[b]} \cup PutsOf(b)

\* The root in the header of b: that of its overlay on its parent's chain.
BlockStateRoot(b) == Merged(Ledger[Parent[b]], b)

\* Mutant of RootMatches: the root is not compared.
RootIgnored(s, b) == s.utxo \subseteq Coin /\ b \in Block

\* The header's state_root, when set, is the root that the overlay has here.
RootMatches(s, b) == Committed[b] => Merged(s, b) = BlockStateRoot(b)

\* The validation that apply_block does before it changes anything.
Valid(s, b) ==
    /\ ValueOK[b]
    /\ Spends[b] \subseteq s.utxo
    /\ Mature(s, b)
    /\ RootMatches(s, b)

\* Mutant of CheckpointOK: no checkpoint is enforced.
CheckpointIgnored(b) == b \in Block

\* validate_checkpoint: at a pinned height only the pinned block passes.
CheckpointOK(b) == \A c \in Checkpoint : Height[c] = Height[b] => c = b

-----------------------------------------------------------------------------
(* Assumptions on the blocks that only some of the results need.           *)

\* The work of a whole chain, added up from its blocks.
ChainWork == [b \in Block |-> SumFunctionOnSet(BlockWork, Path[b])]

\* No chain is shorter than one that ends in a pinned block and has its work.
LighterBelowPins ==
    \A c \in Checkpoint, b \in Block : Height[b] < Height[c] => ChainWork[b] < ChainWork[c]

\* Every block spends what its own chain left unspent and keeps every rule.
AllBlocksValid == \A b \in Block : Valid(Ledger[Parent[b]], b)

\* On a valid chain no block creates an outpoint that is still unspent: a txid
\* is a hash of the inputs, and the miner's coinbase holds the block's height.
FreshCoins ==
    \A b \in Block :
        (\A a \in Path[b] : Valid(Ledger[Parent[a]], a)) =>
            /\ Creates[b] \cap Ledger[Parent[b]].utxo = {}
            /\ EntriesOf(Creates[b], Ledger[Parent[b]].coinbase) = {}

\* Every header commits to a state root, as those that assemble_block makes do.
AllCommitted == \A b \in Block : Committed[b]

\* The outpoints of the coinbase of b that no other block creates, and that each
\* block with a child has one: no two blocks of one height pay the same amount to
\* the same address and nobody else.
OwnCoins(b) == {c \in CoinbaseOf[b] : \A a \in Block \ {b} : c \notin Creates[a]}
OwnCoinbases == \A b \in Block : Parent[b] # Zero => OwnCoins(Parent[b]) # {}

\* A chain that breaks a rule goes no further than Maturity blocks from one that has
\* as much work.
ShallowFaults ==
    \A b \in Block : ~Valid(Ledger[Parent[b]], b) =>
        \A n \in Block : ChainWork[b] <= ChainWork[n] =>
            \A c \in Path[b] \ Path[n] : Height[b] <= Height[c] + Maturity
=============================================================================
