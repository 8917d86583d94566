------------------------- MODULE ChainState_proofs -------------------------
(***************************************************************************)
(* Proofs about ChainState, for every world of blocks.                     *)
(***************************************************************************)
EXTENDS ChainRefinement, BlockValue, DataTheorems

(***************************************************************************)
(* Facts about the block tree.                                             *)
(***************************************************************************)

\* Applying a block to a state gives a state.
LEMMA ApplyToType ==
    ASSUME NEW s \in State, NEW b \in Block
    PROVE  ApplyTo(s, b) \in State
  BY TreeAssumption, BlockAssumption DEF ApplyTo, State, CoinbaseEntries, EntriesOf

\* The undo data of a block has its type.
LEMMA UndoOfType ==
    ASSUME NEW s \in State, NEW b \in Block
    PROVE  UndoOf(s, b) \in UndoData
  BY BlockAssumption DEF UndoOf, UndoData, State, CoinbaseEntries, EntriesOf

\* Rolling a block back gives a state, whatever the state before.
LEMMA RollbackType ==
    ASSUME NEW s \in State, NEW u \in UndoData
    PROVE  Rollback(s, u) \in State
  BY DEF Rollback, State, UndoData, EntriesOf

\* The root that apply_block computes through the overlay, before it changes
\* anything, is the root of the state that applying the block then leaves:
\* a block that commits to the one commits to the other.
THEOREM OverlayAgrees ==
    ASSUME NEW s \in State, NEW b \in Block,
           Creates[b] \cap s.utxo = {},
           EntriesOf(Creates[b], s.coinbase) = {}
    PROVE  Merged(s, b) = Leaves(ApplyTo(s, b))
  <1> DEFINE t == ApplyTo(s, b)
  <1>1. t.utxo = (s.utxo \ Spends[b]) \cup Creates[b]
    BY DEF ApplyTo
  <1>2. t.coinbase = (s.coinbase \ EntriesOf(Spends[b] \cup CoinbaseOf[b], s.coinbase))
                         \cup CoinbaseEntries(b)
    BY DEF ApplyTo
  <1>3. \A e \in CoinbaseEntries(b) : e[1] \in Creates[b]
    BY BlockAssumption DEF CoinbaseEntries
  <1>4. \A e \in s.coinbase : e[1] \notin Creates[b]
    BY DEF EntriesOf
  <1>5. ASSUME NEW c \in s.utxo \ (Spends[b] \cup Creates[b])
        PROVE  Leaf(c, t.coinbase) = Leaf(c, s.coinbase)
    <2>1. EntriesOf({c}, t.coinbase) = EntriesOf({c}, s.coinbase)
      BY <1>2, <1>3, <1>5, BlockAssumption DEF EntriesOf
    <2> QED
      BY <2>1 DEF Leaf
  <1>6. ASSUME NEW c \in Creates[b]
        PROVE  Leaf(c, t.coinbase) = Leaf(c, CoinbaseEntries(b))
    <2>1. EntriesOf({c}, t.coinbase) = EntriesOf({c}, CoinbaseEntries(b))
      BY <1>2, <1>4, <1>6 DEF EntriesOf
    <2> QED
      BY <2>1 DEF Leaf
  <1> DEFINE kept == s.utxo \ (Spends[b] \cup Creates[b])
  <1>7. {l \in Leaves(s) : l[1] \notin RemovesOf(b) \cup Creates[b]}
            = {Leaf(c, s.coinbase) : c \in kept}
    <2>1. \A c \in s.utxo : Leaf(c, s.coinbase)[1] = c
      BY DEF Leaf
    <2>2. \A c \in s.utxo : c \in kept <=> c \notin RemovesOf(b) \cup Creates[b]
      BY DEF RemovesOf
    <2> HIDE DEF kept
    <2> QED
      BY <2>1, <2>2 DEF Leaves, kept
  <1>8. t.utxo = kept \cup Creates[b]
    BY <1>1
  <1>9. Leaves(t) = {Leaf(c, t.coinbase) : c \in kept} \cup {Leaf(c, t.coinbase) : c \in Creates[b]}
    BY <1>8 DEF Leaves
  <1>10. {Leaf(c, t.coinbase) : c \in kept} = {Leaf(c, s.coinbase) : c \in kept}
    BY <1>5
  <1>11. {Leaf(c, t.coinbase) : c \in Creates[b]} = PutsOf(b)
    BY <1>6 DEF PutsOf
  <1> QED
    BY <1>7, <1>9, <1>10, <1>11 DEF Merged

\* disconnect is the inverse of apply_tx over a block: rolling back with the
\* UndoData recorded while the block was applied restores the state, both the
\* unspent outputs and the maturity index, when the block spent only what was
\* there and created only what was not.
LEMMA RollbackUndoesApply ==
    ASSUME NEW s \in State, NEW b \in Block,
           Spends[b] \subseteq s.utxo,
           Creates[b] \cap s.utxo = {},
           EntriesOf(Creates[b], s.coinbase) = {}
    PROVE  Rollback(ApplyTo(s, b), UndoOf(s, b)) = s
  <1> DEFINE t == ApplyTo(s, b)
             u == UndoOf(s, b)
             r == Rollback(t, u)
  <1>1. r.utxo = s.utxo
    BY DEF ApplyTo, UndoOf, Rollback
  <1>2. r.coinbase = s.coinbase
    <2>1. u.coinbaseCreated = CoinbaseOf[b]
      BY DEF UndoOf
    <2>2. u.coinbaseSpent = EntriesOf(Spends[b], s.coinbase)
      BY DEF UndoOf, EntriesOf
    <2>3. t.coinbase = (s.coinbase \ EntriesOf(Spends[b] \cup CoinbaseOf[b], s.coinbase))
                           \cup CoinbaseEntries(b)
      BY DEF ApplyTo
    <2>4. \A e \in s.coinbase : e[1] \notin CoinbaseOf[b]
      BY BlockAssumption DEF EntriesOf
    <2>5. \A e \in CoinbaseEntries(b) : e[1] \in CoinbaseOf[b]
      BY DEF CoinbaseEntries
    <2>6. t.coinbase \ EntriesOf(CoinbaseOf[b], t.coinbase)
            = s.coinbase \ EntriesOf(Spends[b], s.coinbase)
      BY <2>3, <2>4, <2>5 DEF EntriesOf
    <2>7. r.coinbase = (t.coinbase \ EntriesOf(CoinbaseOf[b], t.coinbase))
                           \cup EntriesOf(Spends[b], s.coinbase)
      BY <2>1, <2>2 DEF Rollback
    <2> QED
      BY <2>6, <2>7 DEF EntriesOf
  <1>3. r = [utxo |-> r.utxo, coinbase |-> r.coinbase]
    BY DEF Rollback
  <1>4. s = [utxo |-> s.utxo, coinbase |-> s.coinbase]
    BY DEF State
  <1> QED
    BY <1>1, <1>2, <1>3, <1>4

(***************************************************************************)
(* Types.  The store keeps a block only after its parent, so the ancestors *)
(* of a block it has are there; and while it disconnects, reorganize has   *)
(* its ancestor still below the block it stands on.                        *)
(***************************************************************************)

PathsInStore == \A b \in blocks : Path[b] \subseteq blocks

AncestorBelow ==
    pc = "disconnect" => cur # ancestor /\ ancestor \in Path[cur] \cup {Zero}

TInv == TypeOK /\ PathsInStore /\ AncestorBelow

\* Where disconnect stands is a block, never the zero hash.
LEMMA DisconnectsBlock ==
    ASSUME TypeOK, AncestorBelow, pc = "disconnect"
    PROVE  /\ cur \in blocks /\ cur \in Block
           /\ ancestor \in Path[Parent[cur]] \cup {Zero}
  BY TreeAssumption, PathAssumption DEF TypeOK, AncestorBelow

\* Every step keeps TInv.
LEMMA TInvStep == TInv /\ [Next]_vars => TInv'
  <1> SUFFICES ASSUME TInv, [Next]_vars PROVE TInv'
    OBVIOUS
  <1> USE DEF TInv
  <1>1. ASSUME NEW b \in Block, Submit(b) PROVE TInv'
    <2> PICK best \in blocks', c \in blocks' \cup {Zero} :
          IsBest(work', best) /\ StartReorg(best, c)
      BY <1>1 DEF Submit
    <2>1. blocks' = blocks \cup {b} /\ undo' = undo /\ ledger' = ledger /\ tip' = tip
      BY <1>1 DEF Submit, Record
    <2>2. DOMAIN work' = blocks' /\ \A a \in blocks' : work'[a] \in Nat \ {0}
      <3>1. WorkOf(Parent[b]) \in Nat
        BY TreeAssumption, BlockAssumption DEF TypeOK, WorkOf
      <3>2. BlockWork[b] \in Nat \ {0}
        BY TreeAssumption, BlockAssumption
      <3> QED
        BY <1>1, <3>1, <3>2 DEF Submit, Record, TypeOK
    <2>3. TypeOK'
      BY <2>1, <2>2, <1>1, TreeAssumption DEF TypeOK, StartReorg
    <2>4. PathsInStore'
      <3>1. Path[Parent[b]] \subseteq blocks
        BY <1>1, PathAssumption DEF Submit, PathsInStore
      <3>2. Path[b] = Path[Parent[b]] \cup {b}
        BY PathAssumption
      <3> QED
        BY <2>1, <3>1, <3>2 DEF PathsInStore
    <2>5. AncestorBelow'
      <3>1. c \in Path[tip] \cup {Zero}
        BY DEF StartReorg, IsCommonAncestor
      <3> QED
        BY <3>1 DEF StartReorg, AncestorBelow
    <2> QED
      BY <2>3, <2>4, <2>5
  <1>2. ASSUME Disconnect PROVE TInv'
    <2>1. /\ cur \in blocks /\ cur \in Block
          /\ ancestor \in Path[Parent[cur]] \cup {Zero}
      BY <1>2, DisconnectsBlock DEF Disconnect
    <2>2. Parent[cur] \in blocks \cup {Zero}
      <3>1. Parent[cur] # Zero => Parent[cur] \in Path[cur]
        BY <2>1, TreeAssumption, PathAssumption
      <3> QED
        BY <2>1, <3>1 DEF PathsInStore
    <2>3. ledger' \in State
      BY <1>2, <2>1, RollbackType DEF Disconnect, TypeOK
    <2>4. DOMAIN undo' \subseteq Block /\ \A b \in DOMAIN undo' : undo'[b] \in UndoData
      BY <1>2 DEF Disconnect, Restrict, TypeOK
    <2>5. TypeOK'
      BY <1>2, <2>2, <2>3, <2>4 DEF Disconnect, TypeOK
    <2> QED
      BY <1>2, <2>1, <2>5 DEF Disconnect, PathsInStore, AncestorBelow
  <1>3. ASSUME NEW b \in Block, Connect(b) PROVE TInv'
    <2>1. b \in blocks
      BY <1>3, PathAssumption DEF Connect, ApplyBlock, OnBranch, TypeOK, PathsInStore
    <2>2. ledger' \in State
      BY <1>3, ApplyToType DEF Connect, ApplyBlock, TypeOK
    <2>3. DOMAIN undo' \subseteq Block /\ \A a \in DOMAIN undo' : undo'[a] \in UndoData
      BY <1>3, UndoOfType DEF Connect, ApplyBlock, TypeOK
    <2>4. TypeOK'
      BY <1>3, <2>1, <2>2, <2>3 DEF Connect, ApplyBlock, TypeOK
    <2> QED
      BY <1>3, <2>4 DEF Connect, ApplyBlock, PathsInStore, AncestorBelow
  <1>4. ASSUME NEW b \in Block, SkipApplied(b) PROVE TInv'
    <2>1. b \in blocks
      BY <1>4, PathAssumption DEF SkipApplied, OnBranch, TypeOK, PathsInStore
    <2> QED
      BY <1>4, <2>1 DEF SkipApplied, store, TypeOK, PathsInStore, AncestorBelow
  <1>5. ASSUME NEW b \in Block, Abort(b) PROVE TInv'
    BY <1>5 DEF Abort, store, loop, TypeOK, PathsInStore, AncestorBelow
  <1>6. ASSUME Finish PROVE TInv'
    BY <1>6 DEF Finish, loop, TypeOK, PathsInStore, AncestorBelow
  <1>7. CASE UNCHANGED vars
    BY <1>7 DEF vars, store, loop, TypeOK, PathsInStore, AncestorBelow
  <1> QED
    BY <1>1, <1>2, <1>3, <1>4, <1>5, <1>6, <1>7 DEF Next, ReorgStep

\* The store starts empty.
LEMMA TInvInit == Init => TInv
  BY TreeAssumption, PathAssumption
  DEF Init, TInv, TypeOK, PathsInStore, AncestorBelow, EmptyState, State

\* The variables always have their types, whatever blocks there are: valid or
\* not, with fresh outpoints or not.
THEOREM TypeCorrect == Spec => []TypeOK
  <1>1. Spec => []TInv
    BY TInvInit, TInvStep, PTL DEF Spec
  <1>2. TInv => TypeOK
    BY DEF TInv
  <1> QED
    BY <1>1, <1>2, PTL

(***************************************************************************)
(* The ledger.  While reorganize runs, the ledger is the replay of the     *)
(* chain that ends where reorganize stands (cur), exactly the blocks of    *)
(* that chain are applied, and each of them has the undo data of its own   *)
(* place in that chain.  Between two runs reorganize stands on the tip.    *)
(***************************************************************************)

LInv ==
    /\ ledger = Ledger[cur]
    /\ applied \ {Zero} = Path[cur]
    /\ DOMAIN undo = Path[cur]
    /\ \A b \in Path[cur] : undo[b] = UndoOf(Ledger[Parent[b]], b)
    /\ pc = "idle" => cur = tip

\* The parent of a block is a place in the tree, with a ledger of its own.
LEMMA ParentLedger ==
    ASSUME NEW b \in Block
    PROVE  /\ Parent[b] \in Block \cup {Zero}
           /\ Ledger[Parent[b]] \in State
           /\ Ledger[b] = ApplyTo(Ledger[Parent[b]], b)
  BY TreeAssumption, BlockAssumption, LedgerAssumption

\* Every block that was recorded is valid on its own chain.
RecordedValid == \A b \in blocks : Valid(Ledger[Parent[b]], b)

\* It is so when there are no others.
LEMMA AllRecordedValid == AllBlocksValid /\ TInv => RecordedValid
  BY DEF AllBlocksValid, TInv, TypeOK, RecordedValid

\* While the ledger is the replay of the chain that ends in cur, the next
\* block of the branch is neither applied already nor refused: if every block
\* is valid, connect_branch does not stop half-way.
LEMMA NextBlockConnects ==
    ASSUME TInv, RecordedValid, LInv, NEW b \in Block, OnBranch(b)
    PROVE  b \notin applied /\ Valid(ledger, b)
  <1>1. ledger = Ledger[Parent[b]]
    BY DEF LInv, OnBranch
  <1>2. b \notin Path[cur]
    BY PathAssumption DEF OnBranch
  <1>3. b \in blocks
    BY PathAssumption DEF OnBranch, TInv, TypeOK, PathsInStore
  <1> QED
    BY <1>1, <1>2, <1>3, TreeAssumption DEF RecordedValid, LInv

\* Every step keeps LInv, if every block that is recorded is valid and blocks
\* create fresh outpoints.
LEMMA LInvStep ==
    ASSUME FreshCoins
    PROVE  TInv /\ RecordedValid /\ LInv /\ [Next]_vars => LInv'
  <1> SUFFICES ASSUME TInv, RecordedValid, LInv, [Next]_vars PROVE LInv'
    OBVIOUS
  <1>1. ASSUME NEW b \in Block, Submit(b) PROVE LInv'
    <2>1. PICK best \in blocks', c \in blocks' \cup {Zero} :
            IsBest(work', best) /\ StartReorg(best, c)
      BY <1>1 DEF Submit
    <2>2. cur = tip
      BY <1>1 DEF Submit, LInv
    <2> QED
      BY <1>1, <2>1, <2>2 DEF Submit, StartReorg, LInv
  <1>2. ASSUME Disconnect PROVE LInv'
    <2>1. cur \in Block /\ cur \in blocks
      BY <1>2, DisconnectsBlock DEF Disconnect, TInv
    <2>2. cur \in Path[cur] /\ Path[Parent[cur]] = Path[cur] \ {cur}
      BY <2>1, PathAssumption
    <2> DEFINE before == Ledger[Parent[cur]]
    <2>3. Rollback(ApplyTo(before, cur), UndoOf(before, cur)) = before
      <3>1. before \in State
        BY <2>1, ParentLedger
      <3>2. /\ Spends[cur] \subseteq before.utxo
            /\ Creates[cur] \cap before.utxo = {}
            /\ EntriesOf(Creates[cur], before.coinbase) = {}
        <4>1. \A a \in Path[cur] : Valid(Ledger[Parent[a]], a)
          BY <2>1 DEF RecordedValid, TInv, PathsInStore
        <4> QED
          BY <2>1, <4>1 DEF RecordedValid, Valid, FreshCoins
      <3> QED
        BY <2>1, <3>1, <3>2, RollbackUndoesApply
    <2>4. ledger' = Ledger[cur']
      <3>1. cur \in DOMAIN undo /\ undo[cur] = UndoOf(before, cur)
        BY <2>2 DEF LInv
      <3>2. ledger = ApplyTo(before, cur)
        BY <2>1, ParentLedger DEF LInv
      <3> QED
        BY <1>2, <2>3, <3>1, <3>2 DEF Disconnect
    <2>5. /\ DOMAIN undo' = Path[cur']
          /\ \A b \in Path[cur'] : undo'[b] = undo[b]
      BY <1>2, <2>2 DEF Disconnect, Restrict, LInv
    <2>6. applied' \ {Zero} = Path[cur']
      BY <1>2, <2>2 DEF Disconnect, LInv
    <2> QED
      BY <1>2, <2>2, <2>4, <2>5, <2>6 DEF Disconnect, LInv
  <1>3. ASSUME NEW b \in Block, Connect(b) PROVE LInv'
    <2>1. Parent[b] = cur /\ Path[b] = Path[cur] \cup {b} /\ b \notin Path[cur]
      BY <1>3, PathAssumption DEF Connect, ApplyBlock, OnBranch
    <2>2. ledger' = Ledger[b]
      BY <1>3, <2>1, ParentLedger DEF Connect, ApplyBlock, LInv
    <2>3. applied' \ {Zero} = Path[b]
      BY <1>3, <2>1, TreeAssumption, BlockAssumption DEF Connect, ApplyBlock, LInv
    <2>4. DOMAIN undo' = Path[b]
      BY <1>3, <2>1 DEF Connect, ApplyBlock, LInv
    <2>5. \A a \in Path[b] : undo'[a] = UndoOf(Ledger[Parent[a]], a)
      BY <1>3, <2>1 DEF Connect, ApplyBlock, LInv
    <2> QED
      BY <1>3, <2>2, <2>3, <2>4, <2>5 DEF Connect, ApplyBlock, LInv
  <1>4. ASSUME NEW b \in Block, SkipApplied(b) PROVE FALSE
    BY <1>4, NextBlockConnects DEF SkipApplied
  <1>5. ASSUME NEW b \in Block, Abort(b) PROVE FALSE
    BY <1>5, NextBlockConnects DEF Abort
  <1>6. ASSUME Finish PROVE LInv'
    BY <1>6 DEF Finish, loop, LInv
  <1>7. CASE UNCHANGED vars
    BY <1>7 DEF vars, store, loop, LInv
  <1> QED
    BY <1>1, <1>2, <1>3, <1>4, <1>5, <1>6, <1>7 DEF Next, ReorgStep

\* The empty store is the replay of the empty chain.
LEMMA LInvInit == Init => LInv
  BY PathAssumption, LedgerAssumption DEF Init, LInv

\* Both invariants hold in every state.
LEMMA Invariants ==
    ASSUME AllBlocksValid, FreshCoins
    PROVE  Spec => [](TInv /\ LInv)
  <1>1. Init => TInv /\ LInv
    BY TInvInit, LInvInit
  <1>2. TInv /\ LInv /\ [Next]_vars => (TInv /\ LInv)'
    BY TInvStep, LInvStep, AllRecordedValid
  <1> QED
    BY <1>1, <1>2, PTL DEF Spec

\* After any number of forks and reorganisations the unspent outputs and the
\* maturity index are those of the active chain.
THEOREM LedgerCorrect ==
    ASSUME AllBlocksValid, FreshCoins
    PROVE  Spec => []LedgerIsReplay
  <1>1. TInv /\ LInv => LedgerIsReplay
    BY DEF LInv, LedgerIsReplay
  <1> QED
    BY <1>1, Invariants, PTL

\* The blocks that are marked as applied and that can be rolled back are those
\* of the active chain: no undo data outlives its block or goes missing.
THEOREM AppliedCorrect ==
    ASSUME AllBlocksValid, FreshCoins
    PROVE  Spec => []AppliedIsActiveChain
  <1>1. TInv /\ LInv => AppliedIsActiveChain
    BY DEF LInv, AppliedIsActiveChain
  <1> QED
    BY <1>1, Invariants, PTL

(***************************************************************************)
(* The choice of the tip.  reorganize heads for the best recorded block,   *)
(* and nothing is recorded before it gets there.                           *)
(***************************************************************************)

BInv == IF pc = "idle" THEN blocks # {} => IsBest(work, tip)
                       ELSE IsBest(work, target)

\* Every step keeps BInv, if no branch fails half-way.
LEMMA BInvStep ==
    TInv /\ RecordedValid /\ LInv /\ BInv /\ [Next]_vars => BInv'
  <1> SUFFICES ASSUME TInv, RecordedValid, LInv, BInv, [Next]_vars PROVE BInv'
    OBVIOUS
  <1>1. ASSUME NEW b \in Block, Submit(b) PROVE BInv'
    BY <1>1 DEF Submit, StartReorg, BInv
  <1>2. ASSUME Disconnect PROVE BInv'
    BY <1>2 DEF Disconnect, BInv
  <1>3. ASSUME NEW b \in Block, Connect(b) PROVE BInv'
    BY <1>3 DEF Connect, ApplyBlock, BInv
  <1>4. ASSUME NEW b \in Block, SkipApplied(b) PROVE BInv'
    BY <1>4 DEF SkipApplied, store, BInv
  <1>5. ASSUME NEW b \in Block, Abort(b) PROVE FALSE
    BY <1>5, NextBlockConnects DEF Abort
  <1>6. ASSUME Finish PROVE BInv'
    BY <1>6 DEF Finish, BInv
  <1>7. CASE UNCHANGED vars
    BY <1>7 DEF vars, store, loop, BInv
  <1> QED
    BY <1>1, <1>2, <1>3, <1>4, <1>5, <1>6, <1>7 DEF Next, ReorgStep

\* All three invariants hold in every state.
LEMMA AllInvariants ==
    ASSUME AllBlocksValid, FreshCoins
    PROVE  Spec => [](TInv /\ LInv /\ BInv)
  <1>1. Init => BInv
    BY DEF Init, BInv
  <1>2. TInv /\ LInv /\ BInv /\ [Next]_vars => BInv'
    BY BInvStep, AllRecordedValid
  <1> QED
    BY <1>1, <1>2, Invariants, PTL DEF Spec

\* Between two runs of reorganize the tip is the best block ever recorded: by
\* work, then by height, then by hash.
THEOREM TipCorrect ==
    ASSUME AllBlocksValid, FreshCoins
    PROVE  Spec => []TipIsBest
  <1>1. TInv /\ LInv /\ BInv => TipIsBest
    BY DEF BInv, TipIsBest
  <1> QED
    BY <1>1, AllInvariants, PTL

\* The tip only moves to a better block, and only once its whole branch is
\* applied.
THEOREM TipImproves ==
    ASSUME AllBlocksValid, FreshCoins
    PROVE  Spec => TipOnlyImproves
  <1> DEFINE Improves == tip' # tip => /\ tip' = cur
                                       /\ Path[tip'] \subseteq applied
                                       /\ tip # Zero => Better(work, tip', tip)
  <1>1. TInv /\ LInv /\ BInv /\ [Next]_vars => [Improves]_vars
    <2> SUFFICES ASSUME TInv, LInv, BInv, Next, tip' # tip
                 PROVE  /\ tip' = cur
                        /\ Path[tip'] \subseteq applied
                        /\ tip # Zero => Better(work, tip', tip)
      OBVIOUS
    <2>1. Finish
      BY DEF Next, ReorgStep, Submit, Disconnect, Connect, ApplyBlock, SkipApplied, Abort, store
    <2>2. tip' = target /\ tip' = cur
      BY <2>1 DEF Finish
    <2>3. Path[tip'] \subseteq applied
      BY <2>2 DEF LInv
    <2>4. tip # Zero => tip \in DOMAIN work \ {target}
      BY <2>2 DEF TInv, TypeOK
    <2>5. IsBest(work, target)
      BY <2>1 DEF Finish, BInv
    <2> QED
      BY <2>2, <2>3, <2>4, <2>5 DEF IsBest
  <1> QED
    BY <1>1, AllInvariants, PTL DEF Spec, TipOnlyImproves

(***************************************************************************)
(* Heights.  The header check makes heights follow each other for every    *)
(* block but those of height 0; when these are geneses, it does so along   *)
(* every path, hence along the active chain.                               *)
(***************************************************************************)

HeightOK(b) == Height[b] = IF Parent[b] = Zero THEN 0 ELSE Height[Parent[b]] + 1

HInv == \A b \in blocks : HeightOK(b)

\* Every step keeps them, when those of height 0 are geneses.
LEMMA HInvStep ==
    ASSUME HeightZeroIsGenesis
    PROVE  TInv /\ HInv /\ [Next]_vars => HInv'
  <1> SUFFICES ASSUME TInv, HInv, [Next]_vars, blocks' # blocks PROVE HInv'
    BY DEF HInv
  <1>1. PICK b \in Block : Submit(b)
    BY DEF Next, ReorgStep, vars, store, Disconnect, Connect, SkipApplied, Abort, Finish
  <1>2. HeightOK(b)
    BY <1>1, TreeAssumption DEF Submit, HeaderOK, HeightZeroIsGenesis, HeightOK, TInv, TypeOK
  <1>3. blocks' = blocks \cup {b}
    BY <1>1 DEF Submit, Record
  <1> QED
    BY <1>2, <1>3 DEF HInv

\* Heights along the active chain follow each other, whether or not blocks are
\* valid in their transactions.
THEOREM HeightsCorrect ==
    ASSUME HeightZeroIsGenesis
    PROVE  Spec => []HeightsFollow
  <1>1. Init => HInv
    BY DEF Init, HInv
  <1>2. TInv /\ HInv => HeightsFollow
    <2> SUFFICES ASSUME TInv, HInv PROVE HeightsFollow
      OBVIOUS
    <2>1. Path[tip] \subseteq blocks
      BY PathAssumption DEF TInv, TypeOK, PathsInStore
    <2> QED
      BY <2>1 DEF HInv, HeightsFollow, HeightOK
  <1> QED
    BY <1>1, <1>2, HInvStep, TInvInit, TInvStep, PTL DEF Spec

(***************************************************************************)
(* Cumulative work.  set_work adds the work of a block to that of its      *)
(* parent, and what is recorded is the sum over the whole chain.           *)
(***************************************************************************)

WInv == \A b \in blocks : IsFiniteSet(Path[b]) /\ work[b] = ChainWork[b]

\* The work of a chain is that of its last block and the rest.
LEMMA ChainWorkStep ==
    ASSUME NEW b \in Block, IsFiniteSet(Path[Parent[b]])
    PROVE  /\ IsFiniteSet(Path[b])
           /\ ChainWork[b] = BlockWork[b] + (IF Parent[b] = Zero THEN 0 ELSE ChainWork[Parent[b]])
  <1> DEFINE p == Path[Parent[b]]
  <1>1. Path[b] = p \cup {b} /\ b \notin p /\ Parent[b] \in Block \cup {Zero}
    BY TreeAssumption, PathAssumption
  <1>2. p \subseteq Block
    BY <1>1, PathAssumption
  <1>3. BlockWork[b] \in Int /\ \A a \in p : BlockWork[a] \in Int
    BY <1>2, BlockAssumption
  <1>4. ChainWork[b] = SumFunctionOnSet(BlockWork, Path[b])
    BY DEF ChainWork
  <1>5. Parent[b] = Zero => p = {}
    BY PathAssumption
  <1>6. Parent[b] # Zero => ChainWork[Parent[b]] = SumFunctionOnSet(BlockWork, p)
    BY <1>1 DEF ChainWork
  <1> HIDE DEF p
  <1>7. IsFiniteSet(p)
    BY DEF p
  <1>8. IsFiniteSet(p \cup {b})
    BY <1>7, FS_AddElement
  <1>9. SumFunctionOnSet(BlockWork, p \cup {b}) = SumFunctionOnSet(BlockWork, p) + BlockWork[b]
    BY <1>1, <1>3, <1>7, SumAddElement
  <1>10. p = {} => SumFunctionOnSet(BlockWork, p) = 0
    BY SumEmpty
  <1>11. SumFunctionOnSet(BlockWork, p) \in Int
    BY <1>3, <1>7, SumInt
  <1> QED
    BY <1>1, <1>3, <1>4, <1>5, <1>6, <1>8, <1>9, <1>10, <1>11

\* Every step keeps WInv.
LEMMA WInvStep == TInv /\ WInv /\ [Next]_vars => WInv'
  <1> SUFFICES ASSUME TInv, WInv, [Next]_vars PROVE WInv'
    OBVIOUS
  <1>1. ASSUME NEW b \in Block, Submit(b) PROVE WInv'
    <2>1. /\ blocks' = blocks \cup {b} /\ Parent[b] \in blocks \cup {Zero}
          /\ work' = [a \in DOMAIN work \cup {b} |->
                         IF a = b THEN WorkOf(Parent[b]) + BlockWork[b] ELSE work[a]]
      BY <1>1 DEF Submit, Record
    <2>2. DOMAIN work = blocks /\ Zero \notin blocks
      BY TreeAssumption DEF TInv, TypeOK
    <2>3. IsFiniteSet(Path[Parent[b]])
      BY <2>1, PathAssumption, FS_EmptySet DEF WInv
    <2>4. WorkOf(Parent[b]) = IF Parent[b] = Zero THEN 0 ELSE ChainWork[Parent[b]]
      BY <2>1, <2>2 DEF WorkOf, WInv
    <2>5. IsFiniteSet(Path[b])
          /\ ChainWork[b] = BlockWork[b] + WorkOf(Parent[b])
      BY <2>3, <2>4, ChainWorkStep
    <2>6. WorkOf(Parent[b]) \in Int /\ BlockWork[b] \in Int
      BY <2>1, <2>2, BlockAssumption DEF WorkOf, TInv, TypeOK
    <2>7. ChainWork[b] = WorkOf(Parent[b]) + BlockWork[b]
      BY <2>5, <2>6
    <2>8. \A a \in blocks' : IsFiniteSet(Path[a]) /\ work'[a] = ChainWork[a]
      BY <2>1, <2>2, <2>5, <2>7 DEF WInv
    <2> QED
      BY <2>8 DEF WInv
  <1>2. ASSUME UNCHANGED <<blocks, work>> PROVE WInv'
    BY <1>2 DEF WInv
  <1> QED
    BY <1>1, <1>2 DEF Next, ReorgStep, Disconnect, Connect, ApplyBlock, SkipApplied, Abort, Finish,
               vars, store

(***************************************************************************)
(* The refinement.  Seen from outside, the steps of a reorganisation do    *)
(* nothing, and the last one adopts the heaviest chain.                    *)
(***************************************************************************)

\* Better in the words of the promise.
LEMMA PromiseWords ==
    /\ \A w, a, b : Promise!Better(w, a, b) <=> Better(w, a, b)
    /\ Promise!EmptyState = EmptyState
  BY DEF Promise!Better, Better, Promise!EmptyState, EmptyState

\* A reorganisation that is done has adopted the best chain by its whole work.
LEMMA FinishAdopts ==
    ASSUME TInv, LInv, BInv, WInv, Finish, tip # target
    PROVE  Promise!Adopt(target)
  <1>1. /\ pc = "connect" /\ cur = target /\ tip' = target /\ pc' = "idle"
        /\ UNCHANGED <<blocks, ledger>>
    BY DEF Finish
  <1>2. IsBest(work, target) /\ DOMAIN work = blocks
    BY <1>1 DEF BInv, TInv, TypeOK
  <1>3. target \in blocks \ {tip} /\ blocks \subseteq Block
    BY <1>2 DEF IsBest, TInv, TypeOK
  <1>4. \A a \in blocks \ {target} : Better(ChainWork, target, a)
    BY <1>2, <1>3 DEF IsBest, Better, WInv
  <1>5. ledger = Ledger[target]
    BY <1>1 DEF LInv
  <1>6. Promise!ChainWork = ChainWork
    BY DEF Promise!ChainWork, ChainWork, Promise!SumFunctionOnSet, SumFunctionOnSet,
           Promise!FoldFunctionOnSet, FoldFunctionOnSet, Promise!MapThenFoldSet, MapThenFoldSet
  <1>7. \A a \in blocks \ {target} : Promise!Better(Promise!ChainWork, target, a)
    BY <1>4, <1>6, PromiseWords
  <1> DEFINE state == IF pc = "idle" THEN ledger ELSE Ledger[tip]
  <1>8. state' = Ledger[target]
    BY <1>1, <1>5
  <1> QED
    BY <1>1, <1>3, <1>7, <1>8 DEF Promise!Adopt

\* Every step is a step of the promise, or nothing that it tells.
LEMMA PromiseStep ==
    TInv /\ RecordedValid /\ LInv /\ BInv /\ WInv /\ [Next]_vars => [Promise!Next]_(Promise!vars)
  <1> SUFFICES ASSUME TInv, RecordedValid, LInv, BInv, WInv, [Next]_vars
               PROVE  Promise!Next \/ UNCHANGED Promise!vars
    OBVIOUS
  <1> DEFINE state == IF pc = "idle" THEN ledger ELSE Ledger[tip]
  <1>1. state = Ledger[tip]
    BY DEF LInv
  <1>2. ASSUME NEW b \in Block, Submit(b) PROVE Promise!Next \/ UNCHANGED Promise!vars
    <2>1. /\ pc = "idle" /\ blocks' = blocks \cup {b} /\ Parent[b] \in blocks \cup {Zero}
          /\ UNCHANGED <<ledger, tip>>
      BY <1>2 DEF Submit, Record
    <2>2. state' = state
      BY <1>1, <2>1
    <2>3. CASE b \in blocks
      BY <2>1, <2>2, <2>3 DEF Promise!vars
    <2>4. CASE b \notin blocks
      BY <2>1, <2>2, <2>4 DEF Promise!Next, Promise!Learn
    <2> QED
      BY <2>3, <2>4
  <1>3. ASSUME pc # "idle", pc' # "idle", UNCHANGED <<blocks, tip>>
        PROVE  UNCHANGED Promise!vars
    BY <1>3 DEF Promise!vars
  <1>4. ASSUME Disconnect PROVE UNCHANGED Promise!vars
    BY <1>3, <1>4 DEF Disconnect
  <1>5. ASSUME NEW b \in Block, Connect(b) PROVE UNCHANGED Promise!vars
    BY <1>3, <1>5 DEF Connect
  <1>6. ASSUME NEW b \in Block, SkipApplied(b) \/ Abort(b) PROVE FALSE
    BY <1>6, NextBlockConnects DEF SkipApplied, Abort
  <1>7. ASSUME Finish PROVE Promise!Next \/ UNCHANGED Promise!vars
    <2>1. CASE tip = target
      BY <1>1, <1>7, <2>1 DEF Finish, LInv, Promise!vars
    <2>2. CASE tip # target
      <3>1. target \in Block
        BY <1>7 DEF Finish, BInv, IsBest, TInv, TypeOK
      <3> QED
        BY <1>7, <2>2, <3>1, FinishAdopts DEF Promise!Next
    <2> QED
      BY <2>1, <2>2
  <1>8. CASE UNCHANGED vars
    BY <1>8 DEF vars, store, Promise!vars
  <1> QED
    BY <1>2, <1>4, <1>5, <1>6, <1>7, <1>8 DEF Next, ReorgStep

\* reorganize implements HeaviestChain: a node knows blocks, parents first, and
\* adopts in one step the known block with the most work behind it together
\* with the unspent outputs of its chain.
THEOREM Refinement ==
    ASSUME AllBlocksValid, FreshCoins
    PROVE  Spec => Promise!Spec
  <1>1. Init => WInv /\ Promise!Init
    BY PromiseWords DEF Init, WInv, Promise!Init
  <1>2. TInv /\ WInv /\ [Next]_vars => WInv'
    BY WInvStep
  <1>3. TInv /\ LInv /\ BInv /\ WInv /\ [Next]_vars => [Promise!Next]_(Promise!vars)
    BY PromiseStep, AllRecordedValid
  <1> QED
    BY <1>1, <1>2, <1>3, AllInvariants, PTL DEF Spec, Promise!Spec

(***************************************************************************)
(* Checkpoints.  A pinned height is only ever passed through the pinned    *)
(* block.  That alone does not make it final: a chain that never gets as   *)
(* high but has more work would still be adopted.                          *)
(***************************************************************************)

PinnedOnly ==
    \A b \in blocks : \A c \in Checkpoint : Height[c] <= Height[b] => c \in Path[b]

\* Every step keeps it.
LEMMA PinnedStep == TInv /\ PinnedOnly /\ [Next]_vars => PinnedOnly'
  <1> SUFFICES ASSUME TInv, PinnedOnly, [Next]_vars, blocks' # blocks PROVE PinnedOnly'
    BY DEF PinnedOnly
  <1>1. PICK b \in Block : Submit(b)
    BY DEF Next, ReorgStep, vars, store, Disconnect, Connect, SkipApplied, Abort, Finish
  <1>2. blocks' = blocks \cup {b} /\ CheckpointOK(b) /\ HeaderOK(blocks, b)
    BY <1>1 DEF Submit, Record
  <1>3. b \in Path[b] /\ Path[Parent[b]] \subseteq Path[b]
    BY PathAssumption
  <1>4. ASSUME NEW c \in Checkpoint, Height[c] <= Height[b], Height[c] # Height[b]
        PROVE  c \in Path[b]
    <2>1. Height[c] \in Nat /\ Height[b] \in Nat /\ Height[b] # 0
      BY <1>4, TreeAssumption, BlockAssumption
    <2>2. Parent[b] \in blocks /\ Height[b] = Height[Parent[b]] + 1 /\ Height[Parent[b]] \in Nat
      BY <1>2, <2>1, TreeAssumption DEF HeaderOK, TInv, TypeOK
    <2>3. Height[c] <= Height[Parent[b]]
      BY <1>4, <2>1, <2>2
    <2> QED
      BY <1>3, <2>2, <2>3 DEF PinnedOnly
  <1>5. \A c \in Checkpoint : Height[c] = Height[b] => c \in Path[b]
    BY <1>2, <1>3 DEF CheckpointOK
  <1> QED
    BY <1>2, <1>4, <1>5 DEF PinnedOnly

\* While reorganize runs it heads for the best recorded block, whether or not a
\* branch has failed before.
HeadsForBest == pc # "idle" => IsBest(work, target)

\* Every step keeps it.
LEMMA HeadsForBestStep == HeadsForBest /\ [Next]_vars => HeadsForBest'
  <1> SUFFICES ASSUME HeadsForBest, [Next]_vars, pc' # "idle" PROVE IsBest(work', target')
    BY DEF HeadsForBest
  <1>1. ASSUME NEW b \in Block, Submit(b) PROVE IsBest(work', target')
    BY <1>1 DEF Submit, StartReorg
  <1>2. ASSUME pc # "idle", UNCHANGED <<work, target>> PROVE IsBest(work', target')
    BY <1>2 DEF HeadsForBest
  <1>3. ASSUME Disconnect PROVE IsBest(work', target')
    BY <1>2, <1>3 DEF Disconnect
  <1>4. ASSUME NEW b \in Block, Connect(b) \/ SkipApplied(b) \/ Abort(b)
        PROVE  IsBest(work', target')
    BY <1>2, <1>4 DEF Connect, SkipApplied, Abort, store, loop
  <1>5. CASE UNCHANGED vars
    BY <1>2, <1>5 DEF vars, store, loop
  <1> QED
    BY <1>1, <1>3, <1>4, <1>5 DEF Next, ReorgStep, Finish

\* A pinned block that is on the active chain never leaves it again, whatever
\* blocks arrive, valid or not, and however reorganisations fail, as long as no
\* chain that ends below the pinned height has as much work.
THEOREM CheckpointCorrect ==
    ASSUME LighterBelowPins
    PROVE  Spec => CheckpointIsFinal
  <1> DEFINE Stays == \A c \in Checkpoint : c \in Path[tip] => c \in Path[tip']
  <1>1. Init => WInv /\ PinnedOnly /\ HeadsForBest
    BY DEF Init, WInv, PinnedOnly, HeadsForBest
  <1>2. TInv /\ WInv /\ PinnedOnly /\ HeadsForBest /\ [Next]_vars =>
            WInv' /\ PinnedOnly' /\ HeadsForBest'
    BY WInvStep, PinnedStep, HeadsForBestStep
  <1>3. TInv /\ WInv /\ PinnedOnly /\ HeadsForBest /\ [Next]_vars => [Stays]_vars
    <2> SUFFICES ASSUME TInv, WInv, PinnedOnly, HeadsForBest, Next, tip' # tip,
                        NEW c \in Checkpoint, c \in Path[tip]
                 PROVE  c \in Path[tip']
      BY DEF vars, store
    <2>1. Finish
      BY DEF Next, ReorgStep, Submit, Disconnect, Connect, ApplyBlock, SkipApplied, Abort, store
    <2>2. tip' = target /\ IsBest(work, target) /\ DOMAIN work = blocks /\ target \in blocks
      BY <2>1 DEF Finish, HeadsForBest, TInv, TypeOK, IsBest
    <2>3. c \in blocks /\ blocks \subseteq Block
      BY PathAssumption DEF TInv, TypeOK, PathsInStore
    <2>4. work[target] = ChainWork[target] /\ work[c] = ChainWork[c]
          /\ work[target] \in Nat /\ work[c] \in Nat
      BY <2>2, <2>3 DEF WInv, TInv, TypeOK
    <2>5. ~(work[target] < work[c])
      BY <2>2, <2>3, <2>4 DEF IsBest, Better
    <2>6. ~(Height[target] < Height[c])
      BY <2>2, <2>3, <2>4, <2>5 DEF LighterBelowPins
    <2>7. Height[c] <= Height[target]
      BY <2>2, <2>3, <2>6, TreeAssumption
    <2> QED
      BY <2>2, <2>7 DEF PinnedOnly
  <1> QED
    BY <1>1, <1>2, <1>3, TInvInit, TInvStep, PTL DEF Spec, CheckpointIsFinal
(***************************************************************************)
(* The supply.  A block creates at most its subsidy more than it spends,   *)
(* so that a chain of valid blocks leaves at most its subsidies unspent.   *)
(***************************************************************************)

\* The values of a list of outpoints, added up one by one.
Listed(coins) == SumFunction([k \in DOMAIN coins |-> Value[coins[k]]])
ValueOf(coins) == SumFunctionOnSet(Value, coins)

\* Amounts and subsidies are natural numbers.
LEMMA AmountsAreNat ==
    /\ TooMuch \in Nat \ {0}
    /\ \A c \in Coin : Value[c] \in Nat
    /\ \A h \in Nat : Subsidy(h) \in Nat
  <1>1. TooMuch \in Nat \ {0}
    BY ValueAssumption, TwoToValues DEF TooMuch
  <1>2. ASSUME NEW h \in Nat PROVE Subsidy(h) \in Nat
    <2> DEFINE epoch == h \div HalvingInterval
    <2>0. \A x \in Nat, y \in Nat \ {0} : x \div y \in Nat
      OBVIOUS
    <2>1. epoch \in Nat
      <3>1. HalvingInterval \in Nat \ {0}
        BY ValueAssumption
      <3> QED
        BY <2>0, <3>1
    <2>2. TwoTo[epoch] \in Nat \ {0}
      BY <2>1, TwoToValues
    <2> HIDE DEF epoch
    <2>3. BaseSubsidy \div TwoTo[epoch] \in Nat
      <3>1. BaseSubsidy \in Nat
        BY ValueAssumption
      <3> QED
        BY <2>0, <2>2, <3>1
    <2> QED
      BY <2>3 DEF Subsidy, epoch
  <1> QED
    BY <1>1, <1>2, ValueAssumption

\* A list of outpoints is worth at least what its outpoints are, and no more
\* when none is there twice.
LEMMA ListWorth ==
    ASSUME NEW coins \in Seq(Coin)
    PROVE  /\ IsFiniteSet(Range(coins)) /\ Range(coins) \subseteq Coin
           /\ Listed(coins) \in Nat
           /\ ValueOf(Range(coins)) <= Listed(coins)
           /\ IsInjective(coins) => ValueOf(Range(coins)) = Listed(coins)
  <1> DEFINE I == DOMAIN coins
             g == [k \in I |-> Value[coins[k]]]
  <1>1. IsFiniteSet(I) /\ \A k \in I : coins[k] \in Coin
    <2>1. I = 1..Len(coins) /\ Len(coins) \in Nat
      OBVIOUS
    <2> QED
      BY <2>1, FS_Interval
  <1>2. Range(coins) = Image(coins, I)
    BY DEF Range, Image
  <1>3. \A k \in I : Value[coins[k]] \in Nat /\ g[k] = Value[coins[k]]
    BY <1>1, AmountsAreNat
  <1>4. Listed(coins) = SumFunctionOnSet(g, I)
    BY DEF Listed, SumFunction
  <1>5. Range(coins) \subseteq Coin
    BY <1>1 DEF Range
  <1>6. IsInjective(coins) => \A i, j \in I : coins[i] = coins[j] => i = j
    BY DEF IsInjective
  <1> HIDE DEF g, I
  <1>7. IsFiniteSet(Image(coins, I))
    BY <1>1, ImageFinite
  <1>8. SumFunctionOnSet(g, I) \in Nat
    BY <1>1, <1>3, SumNat
  <1>9. /\ SumFunctionOnSet(Value, Image(coins, I)) <= SumFunctionOnSet(g, I)
        /\ (\A i, j \in I : coins[i] = coins[j] => i = j) =>
               SumFunctionOnSet(Value, Image(coins, I)) = SumFunctionOnSet(g, I)
    BY <1>1, <1>3, SumImage
  <1> QED
    BY <1>2, <1>4, <1>5, <1>6, <1>7, <1>8, <1>9 DEF ValueOf

\* The transactions of a block.
LEMMA BlockTxs ==
    ASSUME NEW b \in Block
    PROVE  LET txs == TxList[b]
           IN  /\ IsFiniteSet(DOMAIN txs)
               /\ \A i \in DOMAIN txs : txs[i].inputs \in Seq(Coin) /\ txs[i].outputs \in Seq(Coin)
  <1>1. TxList[b] \in Seq(Transaction)
    BY ValueAssumption
  <1>2. DOMAIN TxList[b] = 1..Len(TxList[b]) /\ Len(TxList[b]) \in Nat
    BY <1>1
  <1>3. \A i \in DOMAIN TxList[b] : TxList[b][i] \in Transaction
    BY <1>1
  <1>4. IsFiniteSet(DOMAIN TxList[b])
    BY <1>2, FS_Interval
  <1> QED
    BY <1>3, <1>4 DEF Transaction

\* A transaction of plain transactions is worth what its lists are.
LEMMA PlainWorth ==
    ASSUME PlainTxs, NEW b \in Block, NEW i \in DOMAIN TxList[b]
    PROVE  LET tx == TxList[b][i]
           IN  /\ ValueIn(tx) = ValueOf(Range(tx.inputs)) /\ ValueIn(tx) \in Nat
               /\ ValueOf(Range(tx.outputs)) <= ValueOut(tx) /\ ValueOut(tx) \in Nat
  <1> DEFINE tx == TxList[b][i]
  <1>1. tx.inputs \in Seq(Coin) /\ tx.outputs \in Seq(Coin)
    BY BlockTxs
  <1>2. IsInjective(tx.inputs) /\ Listed(tx.outputs) < TooMuch
    BY DEF PlainTxs, Listed
  <1>3. ValueIn(tx) = Listed(tx.inputs) /\ ValueOut(tx) = Listed(tx.outputs) % TooMuch
    BY DEF ValueIn, ValueOut, Listed
  <1>4. Listed(tx.inputs) \in Nat /\ Listed(tx.inputs) = ValueOf(Range(tx.inputs))
    BY <1>1, <1>2, ListWorth
  <1>5. Listed(tx.outputs) \in Nat /\ ValueOf(Range(tx.outputs)) <= Listed(tx.outputs)
    BY <1>1, ListWorth
  <1> HIDE DEF tx
  <1>6. \A x, y \in Nat : x < y => x % y = x
    OBVIOUS
  <1>7. Listed(tx.outputs) % TooMuch = Listed(tx.outputs)
    BY <1>2, <1>5, <1>6, AmountsAreNat
  <1> QED
    BY <1>3, <1>4, <1>5, <1>7 DEF tx

\* What a valid block creates is worth at most its subsidy more than what it
\* spends.
LEMMA BlockWorth ==
    ASSUME BlocksAreTheirTxs, PlainTxs, NEW b \in Block, ValueOK[b]
    PROVE  /\ IsFiniteSet(Spends[b]) /\ IsFiniteSet(Creates[b])
           /\ ValueOf(Creates[b]) <= ValueOf(Spends[b]) + Subsidy(Height[b])
  <1> DEFINE txs == TxList[b]
             D == DOMAIN txs
             P == Payments(txs)
             ins == [i \in D |-> Range(txs[i].inputs)]
             outs == [i \in D |-> Range(txs[i].outputs)]
             paid == [i \in D |-> ValueIn(txs[i])]
             made == [i \in D |-> ValueOut(txs[i])]
             worth == [i \in D |-> ValueOf(outs[i])]
             fee == [i \in P |-> ValueIn(txs[i]) - ValueOut(txs[i])]
  <1>1. IsFiniteSet(D) /\ P \subseteq D /\ IsFiniteSet(P)
    BY BlockTxs, FS_Subset DEF Payments
  <1>2. \A i \in D : /\ IsFiniteSet(ins[i]) /\ ins[i] \subseteq Coin
                      /\ IsFiniteSet(outs[i]) /\ outs[i] \subseteq Coin
    BY BlockTxs, ListWorth
  <1>3. \A i \in D : /\ paid[i] = ValueOf(ins[i]) /\ paid[i] \in Nat
                      /\ worth[i] <= made[i] /\ made[i] \in Nat
    BY PlainWorth
  <1>4. BlockValueOK(b) /\ Spends[b] = UNION Image(ins, D) /\ Creates[b] = UNION Image(outs, D)
    BY DEF BlocksAreTheirTxs, Image
  <1>5. \A i \in D \ P : ins[i] = {}
    BY DEF Payments, Coinbases, Range
  <1>6. Spends[b] = UNION Image(ins, P)
    <2> HIDE DEF ins, P
    <2> QED
      BY <1>1, <1>4, <1>5 DEF Image
  <1>7. Disjoint(ins, P)
    <2> SUFFICES ASSUME NEW i \in P, NEW j \in P, i # j PROVE ins[i] \cap ins[j] = {}
      BY DEF Disjoint
    <2>1. i \in Nat /\ j \in Nat
      BY <1>1, ValueAssumption
    <2>2. i < j \/ j < i
      BY <2>1
    <2>3. NoDoubleSpend(txs)
      BY <1>4 DEF BlockValueOK
    <2> QED
      BY <1>1, <2>2, <2>3 DEF NoDoubleSpend
  <1>8. \A i \in P : made[i] <= paid[i] /\ fee[i] = paid[i] - made[i]
    BY <1>1, <1>4 DEF BlockValueOK, TxValueOK
  <1>9. Fees(txs) = SumFunctionOnSet(fee, P)
    BY DEF Fees, SumFunction
  <1>10. /\ Coinbases(txs) = D \ P /\ D \ P \subseteq {1}
         /\ D \ P # {} => 1 \in D /\ made[1] <= Subsidy(Height[b]) + Fees(txs)
    BY <1>4 DEF BlockValueOK, CoinbaseValueOK, Payments, Coinbases
  <1>11. Subsidy(Height[b]) \in Nat
    BY TreeAssumption, AmountsAreNat
  <1> HIDE DEF ins, outs, paid, made, worth, fee, P, D
  <1>12. /\ IsFiniteSet(Spends[b]) /\ IsFiniteSet(Creates[b])
    BY <1>1, <1>2, <1>4, UnionsFinite
  <1>13. ValueOf(Spends[b]) = SumFunctionOnSet(paid, P)
    <2>1. /\ \A i \in P : IsFiniteSet(ins[i])
          /\ \A i \in P : \A x \in ins[i] : Value[x] \in Nat
          /\ \A i \in P : paid[i] = SumFunctionOnSet(Value, ins[i])
      BY <1>1, <1>2, <1>3, AmountsAreNat DEF ValueOf
    <2>2. Disjoint(ins, P) =>
              SumFunctionOnSet(Value, UNION Image(ins, P)) = SumFunctionOnSet(paid, P)
      BY <1>1, <2>1, SumUnions
    <2> QED
      BY <1>6, <1>7, <2>2 DEF ValueOf
  <1>14. ValueOf(Creates[b]) <= SumFunctionOnSet(made, D)
    <2>1. /\ \A i \in D : \A x \in outs[i] : Value[x] \in Nat
          /\ \A i \in D : worth[i] = SumFunctionOnSet(Value, outs[i])
      BY <1>2, AmountsAreNat DEF ValueOf, worth
    <2>2. ValueOf(Creates[b]) <= SumFunctionOnSet(worth, D)
      BY <1>1, <1>2, <1>4, <2>1, SumUnions DEF ValueOf
    <2>3. \A i \in D : worth[i] \in Nat
      BY <1>2, <2>1, SumNat
    <2>4. \A i \in D : worth[i] \in Int /\ made[i] \in Int /\ worth[i] <= made[i]
      BY <1>3, <2>3
    <2>5. SumFunctionOnSet(worth, D) <= SumFunctionOnSet(made, D)
      BY <1>1, <2>4, SumAtMost
    <2>6. SumFunctionOnSet(worth, D) \in Nat /\ SumFunctionOnSet(made, D) \in Nat
      BY <1>1, <1>3, <2>3, SumNat
    <2>7. ValueOf(Creates[b]) \in Nat
      <3>1. \A x \in Creates[b] : Value[x] \in Nat
        BY BlockAssumption, AmountsAreNat
      <3> QED
        BY <1>12, <3>1, SumNat DEF ValueOf
    <2> QED
      BY <2>2, <2>5, <2>6, <2>7
  <1>15. SumFunctionOnSet(made, D) <= SumFunctionOnSet(made, P) + Subsidy(Height[b]) + Fees(txs)
    <2> DEFINE rest == SumFunctionOnSet(made, D \ P)
               all == SumFunctionOnSet(made, D)
               part == SumFunctionOnSet(made, P)
               zero == [i \in P |-> 0]
    <2>1. all = part + rest
      <3>1. IsFiniteSet(D \ P) /\ P \cap (D \ P) = {} /\ P \cup (D \ P) = D
        BY <1>1, FS_Subset
      <3>2. \A i \in P \cup (D \ P) : made[i] \in Int
        BY <1>3, <3>1
      <3> QED
        BY <1>1, <3>1, <3>2, SumDisjoint
    <2>2. Fees(txs) \in Nat
      <3>1. \A i \in P : fee[i] \in Nat
        BY <1>1, <1>3, <1>8
      <3> QED
        BY <1>1, <1>9, <3>1, SumNat
    <2>3. rest <= Subsidy(Height[b]) + Fees(txs)
      <3>1. CASE D \ P = {}
        <4>1. rest = 0
          BY <3>1, SumEmpty
        <4> HIDE DEF rest
        <4> QED
          BY <1>11, <2>2, <4>1
      <3>2. CASE D \ P # {}
        <4>1. D \ P = {} \cup {1}
          BY <1>10, <3>2
        <4>2. SumFunctionOnSet(made, {} \cup {1}) = SumFunctionOnSet(made, {}) + made[1]
          <5>1. made[1] \in Int
            BY <1>3, <1>10, <3>2
          <5> QED
            BY <5>1, SumAddElement, FS_EmptySet
        <4>3. rest = 0 + made[1]
          BY <4>1, <4>2, SumEmpty
        <4>4. made[1] \in Nat
          BY <1>3, <1>10, <3>2
        <4> QED
          BY <1>10, <3>2, <4>3, <4>4
      <3> QED
        BY <3>1, <3>2
    <2>4. all \in Nat /\ part \in Nat /\ rest \in Nat
      <3>1. IsFiniteSet(D \ P) /\ (\A i \in D \ P : made[i] \in Nat) /\ \A i \in P : made[i] \in Nat
        BY <1>1, <1>3, FS_Subset
      <3> QED
        BY <1>1, <1>3, <3>1, SumNat
    <2> HIDE DEF all, part, rest
    <2>5. all <= part + Subsidy(Height[b]) + Fees(txs)
      BY <1>11, <2>1, <2>2, <2>3, <2>4
    <2> QED
      BY <2>5 DEF all, part
  <1>16. SumFunctionOnSet(paid, P) = SumFunctionOnSet(made, P) + Fees(txs)
    <2>1. \A i \in P : made[i] \in Int /\ fee[i] \in Int /\ paid[i] = made[i] + fee[i]
      BY <1>1, <1>3, <1>8
    <2> QED
      BY <1>1, <1>9, <2>1, SumPlus
  <1>17. ValueOf(Creates[b]) <= ValueOf(Spends[b]) + Subsidy(Height[b])
    <2> DEFINE created == ValueOf(Creates[b])
               all == SumFunctionOnSet(made, D)
               part == SumFunctionOnSet(made, P)
               in == SumFunctionOnSet(paid, P)
    <2>1. created \in Int /\ all \in Int /\ part \in Int /\ in \in Int /\ Fees(txs) \in Int
      <3>1. \A x \in Creates[b] : Value[x] \in Int
        BY BlockAssumption, AmountsAreNat
      <3>2. /\ \A i \in D : made[i] \in Int
            /\ \A i \in P : made[i] \in Int /\ paid[i] \in Int /\ fee[i] \in Int
        BY <1>1, <1>3, <1>8
      <3> QED
        BY <1>1, <1>9, <1>12, <3>1, <3>2, SumInt DEF ValueOf
    <2>2. created <= all /\ all <= part + Subsidy(Height[b]) + Fees(txs) /\ in = part + Fees(txs)
      BY <1>14, <1>15, <1>16
    <2> HIDE DEF created, all, part, in
    <2>3. created <= in + Subsidy(Height[b])
      BY <1>11, <2>1, <2>2
    <2> QED
      BY <1>13, <2>3 DEF created, in
  <1> QED
    BY <1>12, <1>17

\* The subsidies of the blocks of a chain.
SubsidyOf == [b \in Block |-> Subsidy(Height[b])]

\* What is unspent after a chain, and the subsidies of its blocks.
Bounded(b) ==
    /\ IsFiniteSet(Ledger[b].utxo)
    /\ ValueOf(Ledger[b].utxo) <= SumFunctionOnSet(SubsidyOf, Path[b])

\* A valid block on a chain that is bounded.
LEMMA BoundedStep ==
    ASSUME BlocksAreTheirTxs, PlainTxs, NEW b \in Block, IsFiniteSet(Path[b]),
           Bounded(Parent[b]), Valid(Ledger[Parent[b]], b)
    PROVE  Bounded(b)
  <1> DEFINE s == Ledger[Parent[b]].utxo
             kept == s \ Spends[b]
             below == Path[Parent[b]]
  <1>1. ValueOK[b] /\ Spends[b] \subseteq s
    BY DEF Valid
  <1>2. /\ IsFiniteSet(Spends[b]) /\ IsFiniteSet(Creates[b])
        /\ ValueOf(Creates[b]) <= ValueOf(Spends[b]) + Subsidy(Height[b])
    BY <1>1, BlockWorth
  <1>3. Ledger[b].utxo = kept \cup Creates[b]
    <2>1. Ledger[b] = ApplyTo(Ledger[Parent[b]], b)
      BY ParentLedger
    <2> QED
      BY <2>1 DEF ApplyTo
  <1>4. s \subseteq Coin /\ Creates[b] \subseteq Coin
    BY ParentLedger, BlockAssumption DEF State
  <1>5. IsFiniteSet(s) /\ ValueOf(s) <= SumFunctionOnSet(SubsidyOf, below)
    BY DEF Bounded
  <1>6. IsFiniteSet(kept) /\ kept \cap Spends[b] = {} /\ kept \cup Spends[b] = s
    BY <1>1, <1>5, FS_Subset
  <1>7. Path[b] = below \cup {b} /\ b \notin below /\ below \subseteq Block /\ IsFiniteSet(below)
    <2>1. Path[b] = below \cup {b} /\ b \notin below /\ below \subseteq Block
      BY TreeAssumption, PathAssumption
    <2>2. below \subseteq Path[b]
      BY <2>1
    <2> QED
      BY <2>1, <2>2, FS_Subset
  <1> HIDE DEF s, kept, below
  <1>8. /\ \A c \in s : Value[c] \in Nat
        /\ \A c \in Creates[b] : Value[c] \in Nat
        /\ \A c \in kept \cup Spends[b] : Value[c] \in Int
        /\ \A c \in kept \cup Creates[b] : Value[c] \in Nat
    BY <1>4, <1>6, AmountsAreNat
  <1>9. ValueOf(s) = ValueOf(kept) + ValueOf(Spends[b])
    BY <1>2, <1>6, <1>8, SumDisjoint DEF ValueOf
  <1>10. ValueOf(kept \cup Creates[b]) <= ValueOf(kept) + ValueOf(Creates[b])
    BY <1>2, <1>6, <1>8, SumUnion DEF ValueOf
  <1>11. \A a \in Path[b] : SubsidyOf[a] \in Int
    <2> SUFFICES ASSUME NEW a \in Path[b] PROVE SubsidyOf[a] \in Int
      OBVIOUS
    <2>1. a \in Block
      BY <1>7
    <2>2. Subsidy(Height[a]) \in Nat
      BY <2>1, TreeAssumption, AmountsAreNat
    <2> QED
      BY <2>1, <2>2 DEF SubsidyOf
  <1>12. SumFunctionOnSet(SubsidyOf, Path[b])
            = SumFunctionOnSet(SubsidyOf, below) + Subsidy(Height[b])
    <2>1. SubsidyOf[b] = Subsidy(Height[b])
      BY DEF SubsidyOf
    <2>2. SubsidyOf[b] \in Int /\ \A a \in below : SubsidyOf[a] \in Int
      BY <1>7, <1>11
    <2> QED
      BY <1>7, <2>1, <2>2, SumAddElement
  <1>13. IsFiniteSet(kept \cup Creates[b])
    BY <1>2, <1>6, FS_Union
  <1>14. /\ ValueOf(kept) \in Int /\ ValueOf(Spends[b]) \in Int /\ ValueOf(Creates[b]) \in Int
         /\ ValueOf(s) \in Int /\ ValueOf(kept \cup Creates[b]) \in Int
         /\ SumFunctionOnSet(SubsidyOf, below) \in Int /\ Subsidy(Height[b]) \in Int
    <2>1. /\ \A c \in kept : Value[c] \in Int
          /\ \A c \in Spends[b] : Value[c] \in Int
          /\ \A c \in Creates[b] : Value[c] \in Int
          /\ \A c \in s : Value[c] \in Int
          /\ \A c \in kept \cup Creates[b] : Value[c] \in Int
      BY <1>8
    <2>2. \A a \in below : SubsidyOf[a] \in Int
      BY <1>7, <1>11
    <2>3. Subsidy(Height[b]) \in Int
      BY TreeAssumption, AmountsAreNat
    <2> QED
      BY <1>2, <1>5, <1>6, <1>7, <1>13, <2>1, <2>2, <2>3, SumInt DEF ValueOf
  <1> DEFINE vk == ValueOf(kept)
             vs == ValueOf(Spends[b])
             vc == ValueOf(Creates[b])
             v == ValueOf(s)
             vn == ValueOf(kept \cup Creates[b])
             old == SumFunctionOnSet(SubsidyOf, below)
             new == Subsidy(Height[b])
  <1>15. /\ vk \in Int /\ vs \in Int /\ vc \in Int /\ v \in Int /\ vn \in Int
         /\ old \in Int /\ new \in Int
         /\ vc <= vs + new /\ v <= old /\ v = vk + vs /\ vn <= vk + vc
    BY <1>2, <1>5, <1>9, <1>10, <1>14
  <1> HIDE DEF vk, vs, vc, v, vn, old, new
  <1>16. vn <= old + new
    BY <1>15
  <1>17. ValueOf(Ledger[b].utxo) <= SumFunctionOnSet(SubsidyOf, Path[b])
    BY <1>3, <1>12, <1>16 DEF vn, old, new
  <1> QED
    BY <1>3, <1>13, <1>17 DEF Bounded

\* A finite chain of valid blocks leaves at most its subsidies unspent.
LEMMA ChainBounded ==
    ASSUME BlocksAreTheirTxs, PlainTxs, NEW t \in Block \cup {Zero}, IsFiniteSet(Path[t]),
           \A a \in Path[t] : Valid(Ledger[Parent[a]], a)
    PROVE  Bounded(t)
  <1>1. Bounded(Zero)
    <2>1. Ledger[Zero].utxo = {} /\ Path[Zero] = {}
      BY LedgerAssumption, PathAssumption DEF EmptyState
    <2> QED
      BY <2>1, SumEmpty, FS_EmptySet DEF Bounded, ValueOf
  <1> DEFINE Good == {T \in SUBSET Path[t] : \A b \in Block : Path[b] = T => Bounded(b)}
  <1>2. ASSUME NEW T \in SUBSET Path[t], \A x \in T : T \ {x} \in Good
        PROVE  T \in Good
    <2> SUFFICES ASSUME NEW b \in Block, Path[b] = T PROVE Bounded(b)
      OBVIOUS
    <2>1. b \in T /\ Path[Parent[b]] = T \ {b} /\ Parent[b] \in Block \cup {Zero}
      BY TreeAssumption, PathAssumption
    <2>2. T \ {b} \in Good
      BY <1>2, <2>1
    <2>3. Bounded(Parent[b])
      BY <1>1, <2>1, <2>2
    <2>4. Valid(Ledger[Parent[b]], b) /\ IsFiniteSet(Path[b])
      BY <2>1, FS_Subset
    <2> HIDE DEF Good
    <2> QED
      BY <2>3, <2>4, BoundedStep
  <1> HIDE DEF Good
  <1>3. Path[t] \in Good
    BY <1>2, SetInduction
  <1>4. t \in Block => Bounded(t)
    BY <1>3 DEF Good
  <1> QED
    BY <1>1, <1>4

\* Whatever blocks arrive and whatever reorganisations fail: as long as the
\* blocks of the active chain are valid on it, no more is unspent on it than
\* its subsidies.
THEOREM SupplyBounded ==
    ASSUME BlocksAreTheirTxs, PlainTxs
    PROVE  Spec /\ []TipChainIsValid => []Supply
  <1>1. TInv /\ WInv /\ TipChainIsValid => Supply
    <2> SUFFICES ASSUME TInv, WInv, TipChainIsValid PROVE Supply
      OBVIOUS
    <2>1. tip \in blocks \cup {Zero} /\ blocks \subseteq Block
      BY DEF TInv, TypeOK
    <2>2. IsFiniteSet(Path[tip])
      BY <2>1, PathAssumption, FS_EmptySet DEF WInv
    <2>3. Bounded(tip)
      BY <2>1, <2>2, ChainBounded DEF TipChainIsValid
    <2> QED
      BY <2>3 DEF Supply, Bounded, ValueOf, SubsidyOf
  <1>2. Init => WInv
    BY DEF Init, WInv
  <1> QED
    BY <1>1, <1>2, TInvInit, TInvStep, WInvStep, PTL DEF Spec

\* So it is when every block is valid.
THEOREM SupplyCorrect ==
    ASSUME BlocksAreTheirTxs, PlainTxs, AllBlocksValid
    PROVE  Spec => []Supply
  <1>1. TInv => TipChainIsValid
    <2> SUFFICES ASSUME TInv PROVE Path[tip] \subseteq Block
      BY DEF AllBlocksValid, TipChainIsValid
    <2> QED
      BY PathAssumption DEF TInv, TypeOK
  <1> QED
    BY <1>1, SupplyBounded, TInvInit, TInvStep, PTL DEF Spec

(***************************************************************************)
(* A branch that fails half-way.  What it leaves applied is either a whole *)
(* chain or a chain that lacks some of its lower blocks; and connect_branch*)
(* does not get past the first block that is not applied on the latter,    *)
(* for the state root in its header is that of the whole chain.            *)
(***************************************************************************)

\* What the tree says of a block.
LEMMA PathOf ==
    ASSUME NEW b \in Block
    PROVE  /\ Parent[b] \in Block \cup {Zero} /\ Height[b] \in Nat /\ b # Zero
           /\ Path[b] = Path[Parent[b]] \cup {b} /\ b \notin Path[Parent[b]]
           /\ Path[b] \subseteq Block /\ b \in Path[b] /\ Path[Zero] = {}
           /\ Path[Parent[b]] = Path[b] \ {b}
  BY TreeAssumption, PathAssumption

\* The ancestors of an ancestor are ancestors, and of two ancestors one is
\* above the other.
LEMMA PathIsChain ==
    ASSUME NEW n \in Block, IsFiniteSet(Path[n])
    PROVE  /\ \A x \in Path[n] : Path[x] \subseteq Path[n]
           /\ \A x, y \in Path[n] : x \in Path[y] \/ y \in Path[x]
  <1> DEFINE Linear(m) == /\ \A x \in Path[m] : Path[x] \subseteq Path[m]
                          /\ \A x, y \in Path[m] : x \in Path[y] \/ y \in Path[x]
             Good == {T \in SUBSET Path[n] : \A m \in Block : Path[m] = T => Linear(m)}
  <1>1. ASSUME NEW T \in SUBSET Path[n], \A x \in T : T \ {x} \in Good
        PROVE  T \in Good
    <2> SUFFICES ASSUME NEW m \in Block, Path[m] = T PROVE Linear(m)
      OBVIOUS
    <2>1. m \in T /\ Path[Parent[m]] = T \ {m} /\ Parent[m] \in Block \cup {Zero}
          /\ Path[Zero] = {}
      BY PathOf
    <2>2. T \ {m} \in Good
      BY <1>1, <2>1
    <2>3. Linear(Parent[m])
      BY <2>1, <2>2
    <2> QED
      BY <2>1, <2>3
  <1> HIDE DEF Good
  <1>2. Path[n] \in Good
    BY <1>1, SetInduction
  <1> QED
    BY <1>2 DEF Good

\* No two blocks are above each other.
LEMMA PathOrder ==
    ASSUME NEW x \in Block, NEW y \in Block, x \in Path[y], y \in Path[x],
           IsFiniteSet(Path[x]), IsFiniteSet(Path[y])
    PROVE  x = y
  <1>1. SUFFICES ASSUME x # y PROVE FALSE
    OBVIOUS
  <1>2. x \in Path[Parent[y]] /\ Path[Parent[y]] \subseteq Path[y] /\ y \notin Path[Parent[y]]
    BY <1>1, PathOf
  <1>3. Parent[y] \in Block
    BY <1>2, PathOf
  <1>4. IsFiniteSet(Path[Parent[y]])
    BY <1>2, FS_Subset
  <1>5. Path[x] \subseteq Path[Parent[y]]
    BY <1>2, <1>3, <1>4, PathIsChain
  <1> QED
    BY <1>2, <1>5

\* The work of a chain is a natural number.
LEMMA ChainWorkNat ==
    ASSUME NEW b \in Block, IsFiniteSet(Path[b])
    PROVE  ChainWork[b] \in Nat
  <1>1. Path[b] \subseteq Block
    BY PathOf
  <1>2. \A a \in Path[b] : BlockWork[a] \in Nat
    BY <1>1, BlockAssumption
  <1> QED
    BY <1>2, SumNat DEF ChainWork

\* A chain has more work than what it stands on.
LEMMA WorkGrows ==
    ASSUME NEW n \in Block, IsFiniteSet(Path[n]), NEW a \in Path[n], a # n
    PROVE  ChainWork[a] < ChainWork[n]
  <1> DEFINE Goal(m) == \A x \in Path[m] : x # m => ChainWork[x] < ChainWork[m]
             Good == {T \in SUBSET Path[n] : \A m \in Block : Path[m] = T => Goal(m)}
  <1>1. ASSUME NEW T \in SUBSET Path[n], \A x \in T : T \ {x} \in Good
        PROVE  T \in Good
    <2> SUFFICES ASSUME NEW m \in Block, Path[m] = T, NEW x \in Path[m], x # m
                 PROVE  ChainWork[x] < ChainWork[m]
      OBVIOUS
    <2> DEFINE p == Parent[m]
    <2>1. m \in T /\ Path[p] = T \ {m} /\ p \in Block \cup {Zero} /\ x \in Path[p] /\ p # Zero
      BY PathOf
    <2>2. IsFiniteSet(Path[p]) /\ IsFiniteSet(Path[m])
      BY <2>1, FS_Subset
    <2>3. x = p \/ ChainWork[x] < ChainWork[p]
      BY <1>1, <2>1
    <2>4. ChainWork[m] = BlockWork[m] + ChainWork[p]
      BY <2>1, <2>2, ChainWorkStep
    <2>5. x \in Block /\ IsFiniteSet(Path[x])
      <3>1. Path[x] \subseteq Path[m] /\ x \in Block
        BY <2>2, PathIsChain, PathOf
      <3> QED
        BY <2>2, <3>1, FS_Subset
    <2>6. ChainWork[p] \in Nat /\ ChainWork[x] \in Nat /\ BlockWork[m] \in Nat \ {0}
      BY <2>1, <2>2, <2>5, ChainWorkNat, BlockAssumption
    <2> HIDE DEF p
    <2> QED
      BY <2>3, <2>4, <2>6
  <1> HIDE DEF Good
  <1>2. Path[n] \in Good
    BY <1>1, SetInduction
  <1> QED
    BY <1>2 DEF Good

\* The heights of the blocks of the store grow along their chains.
LEMMA HeightsGrow ==
    ASSUME NEW c \in Block, IsFiniteSet(Path[c]), \A a \in Path[c] : HeightOK(a)
    PROVE  \A x \in Path[c] : x = c \/ Height[x] < Height[c]
  <1> DEFINE Goal(m) == \A x \in Path[m] : x = m \/ Height[x] < Height[m]
             Good == {T \in SUBSET Path[c] : \A m \in Block : Path[m] = T => Goal(m)}
  <1>1. ASSUME NEW T \in SUBSET Path[c], \A x \in T : T \ {x} \in Good
        PROVE  T \in Good
    <2> SUFFICES ASSUME NEW m \in Block, Path[m] = T, NEW x \in Path[m], x # m
                 PROVE  Height[x] < Height[m]
      OBVIOUS
    <2> DEFINE p == Parent[m]
    <2>1. m \in T /\ Path[p] = T \ {m} /\ p \in Block \cup {Zero} /\ x \in Path[p] /\ p # Zero
      BY PathOf
    <2>2. x = p \/ Height[x] < Height[p]
      BY <1>1, <2>1
    <2>3. Height[m] = Height[p] + 1
      BY <2>1 DEF HeightOK
    <2>4. Height[m] \in Nat /\ Height[p] \in Nat /\ Height[x] \in Nat
      BY <2>1, PathOf, TreeAssumption
    <2> HIDE DEF p
    <2> QED
      BY <2>2, <2>3, <2>4
  <1> HIDE DEF Good
  <1>2. Path[c] \in Good
    BY <1>1, SetInduction
  <1> QED
    BY <1>2 DEF Good

\* A block below another has a child on the way to it.
LEMMA ChildOnPath ==
    ASSUME NEW n \in Block, IsFiniteSet(Path[n]), NEW c \in Path[n], c # n
    PROVE  \E d \in Path[n] : Parent[d] = c
  <1> DEFINE Goal(m) == c \in Path[m] /\ c # m => \E d \in Path[m] : Parent[d] = c
             Good == {T \in SUBSET Path[n] : \A m \in Block : Path[m] = T => Goal(m)}
  <1>1. ASSUME NEW T \in SUBSET Path[n], \A x \in T : T \ {x} \in Good
        PROVE  T \in Good
    <2> SUFFICES ASSUME NEW m \in Block, Path[m] = T, c \in Path[m], c # m
                 PROVE  \E d \in Path[m] : Parent[d] = c
      OBVIOUS
    <2>1. /\ m \in T /\ Path[Parent[m]] = T \ {m} /\ Parent[m] \in Block
          /\ c \in Path[Parent[m]]
      BY PathOf
    <2>2. Goal(Parent[m])
      BY <1>1, <2>1
    <2> QED
      BY <2>1, <2>2
  <1> HIDE DEF Good
  <1>2. Path[n] \in Good
    BY <1>1, SetInduction
  <1> QED
    BY <1>2 DEF Good

\* The chain that two blocks share is that of their common ancestor.
LEMMA SharedPath ==
    ASSUME NEW a \in Block \cup {Zero}, NEW b \in Block \cup {Zero}, NEW c,
           IsFiniteSet(Path[a]), IsFiniteSet(Path[b]), IsCommonAncestor(a, b, c)
    PROVE  Path[a] \cap Path[b] = Path[c] /\ c \in Path[a] \cup {Zero}
  <1>1. CASE Path[a] \cap Path[b] = {}
    BY <1>1, PathAssumption DEF IsCommonAncestor
  <1>2. CASE Path[a] \cap Path[b] # {}
    <2>1. c \in Path[a] \cap Path[b] /\ Path[a] \cap Path[b] \subseteq Path[c]
      BY <1>2 DEF IsCommonAncestor
    <2>2. a \in Block /\ b \in Block
      BY <2>1, PathAssumption
    <2>3. Path[c] \subseteq Path[a] /\ Path[c] \subseteq Path[b]
      BY <2>1, <2>2, PathIsChain
    <2> QED
      BY <2>1, <2>3
  <1> QED
    BY <1>1, <1>2

\* The blocks that are marked as applied.
Applied == applied \ {Zero}

\* The chain of x keeps every rule.
ValidPath(x) == \A a \in Path[x] : Valid(Ledger[Parent[a]], a)

\* A recorded block on top of x breaks one.
Fails(x) == \E b \in blocks : Parent[b] = x /\ ~Valid(Ledger[x], b)

\* What is applied is the chain of x, and the ledger its replay: x is on the
\* active chain, or where a branch failed, or where connect_branch stands.
Clean(x) ==
    /\ ledger = Ledger[x]
    /\ Applied = Path[x]
    /\ x \in Path[tip] \cup {Zero} \/ Fails(x) \/ (pc = "connect" /\ x = cur)

\* What is applied is a part of the chain of x, off the active chain, where a
\* branch failed: a block too young for its coinbase to be spent in it has been
\* rolled back underneath.
Mixed(x) ==
    /\ x \in Applied /\ Applied \subseteq Path[x]
    /\ x \notin Path[tip] /\ Fails(x)
    /\ \E c \in Path[x] \ Applied : Height[x] < Height[c] + Maturity
    /\ \A o \in OwnCoins(x) : o \in ledger.utxo /\ <<o, Height[x]>> \in ledger.coinbase
    /\ \A y \in Path[tip] \cap Applied : Path[y] \subseteq Applied

\* The undo data of the applied blocks is that of their own chains.
UndoKept ==
    /\ Applied \subseteq blocks /\ DOMAIN undo = Applied
    /\ \A b \in Applied : undo[b] = UndoOf(Ledger[Parent[b]], b)

\* An outpoint of its own is unspent only where its block is applied.
OwnKept == \A b \in Block : \A o \in OwnCoins(b) : o \in ledger.utxo => b \in Applied

\* A call connects the branch from the common ancestor on, and has rolled the
\* active chain back to it before.
OnItsWay ==
    /\ pc # "idle" => IsCommonAncestor(tip, target, ancestor) /\ target # tip
    /\ pc = "disconnect" => cur \in Path[tip] /\ Path[tip] \cap Applied \subseteq Path[cur]
    /\ pc = "connect" => /\ ancestor \in Path[cur] \cup {Zero}
                         /\ Path[cur] \ Path[ancestor] \subseteq Applied
                         /\ Path[tip] \cap Applied \subseteq Path[ancestor]

Whole == \E x \in blocks \cup {Zero} : ValidPath(x) /\ (Clean(x) \/ Mixed(x))

FailInv == UndoKept /\ OwnKept /\ OnItsWay /\ Whole /\ TipChainIsValid

\* What holds of the tree of the store without them.
StoreTree == TInv /\ HInv /\ WInv /\ HeadsForBest

\* Nothing is unspent on a chain but what one of its blocks created.
LEMMA OnlyCreated ==
    ASSUME NEW n \in Block, IsFiniteSet(Path[n])
    PROVE  \A o \in Ledger[n].utxo : \E z \in Path[n] : o \in Creates[z]
  <1> DEFINE Goal(m) == \A o \in Ledger[m].utxo : \E z \in Path[m] : o \in Creates[z]
             Good == {T \in SUBSET Path[n] : \A m \in Block : Path[m] = T => Goal(m)}
  <1>1. ASSUME NEW T \in SUBSET Path[n], \A x \in T : T \ {x} \in Good
        PROVE  T \in Good
    <2> SUFFICES ASSUME NEW m \in Block, Path[m] = T, NEW o \in Ledger[m].utxo
                 PROVE  \E z \in Path[m] : o \in Creates[z]
      OBVIOUS
    <2>1. m \in T /\ Path[Parent[m]] = T \ {m} /\ Parent[m] \in Block \cup {Zero}
      BY PathOf
    <2>2. o \in Ledger[Parent[m]].utxo \/ o \in Creates[m]
      <3>1. Ledger[m] = ApplyTo(Ledger[Parent[m]], m)
        BY ParentLedger
      <3> QED
        BY <3>1 DEF ApplyTo
    <2>3. CASE Parent[m] = Zero
      BY <2>1, <2>2, <2>3, LedgerAssumption DEF EmptyState
    <2>4. CASE Parent[m] # Zero
      <3>1. Goal(Parent[m])
        BY <1>1, <2>1, <2>4
      <3> QED
        BY <2>1, <2>2, <3>1
    <2> QED
      BY <2>3, <2>4
  <1> HIDE DEF Good
  <1>2. Path[n] \in Good
    BY <1>1, SetInduction
  <1> QED
    BY <1>2 DEF Good

\* An outpoint of its own gives a block away: where it is unspent, the block is
\* on the chain.
LEMMA OwnTells ==
    ASSUME NEW n \in Block \cup {Zero}, IsFiniteSet(Path[n]), NEW y \in Block,
           NEW o \in OwnCoins(y), o \in Ledger[n].utxo
    PROVE  y \in Path[n]
  <1>1. n \in Block
    BY LedgerAssumption DEF EmptyState
  <1>2. PICK z \in Path[n] : o \in Creates[z]
    BY <1>1, OnlyCreated
  <1> QED
    BY <1>1, <1>2, PathOf DEF OwnCoins

\* A block's own outpoints are unspent on it, with its height.
LEMMA OwnCreated ==
    ASSUME NEW y \in Block, NEW o \in OwnCoins(y)
    PROVE  /\ o \in Creates[y] /\ o \in CoinbaseOf[y]
           /\ o \in Ledger[y].utxo /\ <<o, Height[y]>> \in Ledger[y].coinbase
  <1>1. o \in CoinbaseOf[y] /\ o \in Creates[y]
    BY BlockAssumption DEF OwnCoins
  <1>2. Ledger[y] = ApplyTo(Ledger[Parent[y]], y)
    BY ParentLedger
  <1> QED
    BY <1>1, <1>2 DEF ApplyTo, CoinbaseEntries

\* No other block creates them.
LEMMA OwnAlone ==
    ASSUME NEW y \in Block, NEW o \in OwnCoins(y), NEW b \in Block, b # y
    PROVE  o \notin Creates[b] /\ o \notin CoinbaseOf[b]
  BY BlockAssumption DEF OwnCoins

\* What an unspent output of its coinbase lets a block be refused for.
LEMMA TooYoung ==
    ASSUME NEW s, NEW b \in Block, Mature(s, b), NEW o, NEW h, <<o, h>> \in s.coinbase,
           ~(Height[b] >= h + Maturity)
    PROVE  o \notin Spends[b]
  BY DEF Mature, EntriesOf

\* As long as a coinbase is too young to be spent, its outputs stay unspent.
LEMMA Immature ==
    ASSUME NEW x \in Block, IsFiniteSet(Path[x]), ValidPath(x),
           \A a \in Path[x] : HeightOK(a),
           NEW c \in Path[x], Height[x] < Height[c] + Maturity, NEW o \in OwnCoins(c)
    PROVE  o \in Ledger[x].utxo /\ <<o, Height[c]>> \in Ledger[x].coinbase
  <1> DEFINE Goal(m) == c \in Path[m] =>
                 o \in Ledger[m].utxo /\ <<o, Height[c]>> \in Ledger[m].coinbase
             Good == {T \in SUBSET Path[x] : \A m \in Block : Path[m] = T => Goal(m)}
  <1>1. ASSUME NEW T \in SUBSET Path[x], \A y \in T : T \ {y} \in Good
        PROVE  T \in Good
    <2> SUFFICES ASSUME NEW m \in Block, Path[m] = T, c \in Path[m]
                 PROVE  o \in Ledger[m].utxo /\ <<o, Height[c]>> \in Ledger[m].coinbase
      OBVIOUS
    <2>1. m \in T /\ Path[Parent[m]] = T \ {m} /\ c \in Block
      BY PathOf
    <2>2. CASE m = c
      BY <2>1, <2>2, OwnCreated
    <2>3. CASE m # c
      <3> DEFINE s == Ledger[Parent[m]]
      <3>1. Parent[m] \in Block /\ c \in Path[Parent[m]]
        BY <2>1, <2>3, PathOf
      <3>2. o \in s.utxo /\ <<o, Height[c]>> \in s.coinbase
        BY <1>1, <2>1, <3>1
      <3>3. Height[m] < Height[c] + Maturity
        <4>1. m = x \/ Height[m] < Height[x]
          BY <2>1, HeightsGrow
        <4>2. Height[m] \in Nat /\ Height[x] \in Nat /\ Height[c] \in Nat /\ Maturity \in Nat
          BY <2>1, PathOf, BlockAssumption
        <4> QED
          BY <4>1, <4>2
      <3>4. Mature(s, m)
        BY <2>1 DEF ValidPath, Valid
      <3>5. o \notin Spends[m]
        <4>1. ~(Height[m] >= Height[c] + Maturity)
          <5>1. Height[m] \in Nat /\ Height[c] \in Nat /\ Maturity \in Nat
            BY <2>1, PathOf, BlockAssumption
          <5> QED
            BY <3>3, <5>1
        <4> QED
          BY <3>2, <3>4, <4>1, TooYoung
      <3>6. o \notin CoinbaseOf[m]
        BY <2>1, <2>3, OwnAlone
      <3>7. Ledger[m] = ApplyTo(s, m)
        BY ParentLedger
      <3> HIDE DEF s
      <3> QED
        BY <3>2, <3>5, <3>6, <3>7 DEF ApplyTo, EntriesOf
    <2> QED
      BY <2>2, <2>3
  <1> HIDE DEF Good
  <1>2. Path[x] \in Good
    BY <1>1, SetInduction
  <1> QED
    BY <1>2 DEF Good

\* A state root that matches tells, of every outpoint the block leaves alone,
\* that it is unspent exactly when it is so on the chain of the block's parent.
LEMMA RootTells ==
    ASSUME NEW s, NEW b \in Block, Committed[b], Valid(s, b),
           NEW o, o \notin Spends[b], o \notin Creates[b]
    PROVE  o \in s.utxo <=> o \in Ledger[Parent[b]].utxo
  <1>1. \A c, index : Leaf(c, index)[1] = c
    BY DEF Leaf
  <1>2. ASSUME NEW t PROVE o \in t.utxo <=> \E l \in Merged(t, b) : l[1] = o
    <2>1. \A l \in PutsOf(b) : l[1] # o
      BY <1>1 DEF PutsOf
    <2>2. o \in t.utxo <=> \E l \in Leaves(t) : l[1] = o
      BY <1>1 DEF Leaves
    <2> QED
      BY <2>1, <2>2 DEF Merged, RemovesOf
  <1>3. Merged(s, b) = Merged(Ledger[Parent[b]], b)
    BY DEF Valid, RootMatches, BlockStateRoot
  <1> QED
    BY <1>2, <1>3

\* The chains of the blocks of the store.
LEMMA StoreChains ==
    ASSUME StoreTree, NEW x \in blocks \cup {Zero}
    PROVE  /\ x \in Block \cup {Zero} /\ IsFiniteSet(Path[x]) /\ Path[x] \subseteq blocks
           /\ \A a \in Path[x] : HeightOK(a)
           /\ \A a \in Path[x] : Path[a] \subseteq Path[x]
  <1>1. x \in Block \cup {Zero} /\ blocks \subseteq Block /\ Path[Zero] = {}
    BY PathAssumption DEF StoreTree, TInv, TypeOK
  <1>2. Path[x] \subseteq blocks
    BY <1>1 DEF StoreTree, TInv, PathsInStore
  <1>3. IsFiniteSet(Path[x])
    BY <1>1, FS_EmptySet DEF StoreTree, WInv
  <1>4. \A a \in Path[x] : HeightOK(a)
    BY <1>2 DEF StoreTree, HInv
  <1>5. x \in Block => \A a \in Path[x] : Path[a] \subseteq Path[x]
    BY <1>3, PathIsChain
  <1> QED
    BY <1>1, <1>2, <1>3, <1>4, <1>5

\* Of two blocks of the store, one is above the other only if it is the same.
LEMMA StoreOrder ==
    ASSUME StoreTree, NEW x \in blocks, NEW y \in Path[x], x \in Path[y]
    PROVE  x = y
  <1>1. y \in blocks /\ y \in Block /\ x \in Block
    <2>1. Path[x] \subseteq blocks /\ blocks \subseteq Block
      BY StoreChains DEF StoreTree, TInv, TypeOK
    <2> QED
      BY <2>1
  <1>2. IsFiniteSet(Path[x]) /\ IsFiniteSet(Path[y])
    BY <1>1, StoreChains
  <1> QED
    BY <1>1, <1>2, PathOrder

\* Where a part of a chain is applied, the chain ends in a block with a child.
LEMMA EndHasOwn ==
    ASSUME OwnCoinbases, StoreTree, NEW x \in blocks, Fails(x)
    PROVE  OwnCoins(x) # {}
  <1>1. PICK b \in blocks : Parent[b] = x
    BY DEF Fails
  <1>2. b \in Block /\ x # Zero
    BY TreeAssumption DEF StoreTree, TInv, TypeOK
  <1> QED
    BY <1>1, <1>2 DEF OwnCoinbases

\* An outpoint of an applied block that stands above the next block's parent: it
\* is unspent and the next block cannot spend it, but it is not on its chain.
LEMMA AboveTells ==
    ASSUME AllCommitted, StoreTree, Maturity # 0,
           NEW b \in blocks, NEW x \in blocks, b # x,
           Parent[b] \in Path[x] \cup {Zero}, Parent[b] # x,
           NEW o \in OwnCoins(x), o \in ledger.utxo, <<o, Height[x]>> \in ledger.coinbase
    PROVE  ~Valid(ledger, b)
  <1> SUFFICES ASSUME Valid(ledger, b) PROVE FALSE
    OBVIOUS
  <1> DEFINE p == Parent[b]
  <1>1. b \in Block /\ x \in Block /\ p \in blocks \cup {Zero} /\ IsFiniteSet(Path[x])
    <2>1. blocks \subseteq Block
      BY DEF StoreTree, TInv, TypeOK
    <2>2. Path[x] \subseteq blocks /\ IsFiniteSet(Path[x])
      BY StoreChains
    <2> QED
      BY <2>1, <2>2
  <1>2. Height[b] \in Nat /\ Height[x] \in Nat /\ Maturity \in Nat
    BY <1>1, PathOf, BlockAssumption
  <1>3. Height[b] <= Height[x]
    <2>1. HeightOK(b)
      BY DEF StoreTree, HInv
    <2>2. CASE p = Zero
      BY <1>2, <2>1, <2>2 DEF HeightOK
    <2>3. CASE p # Zero
      <3>1. Height[b] = Height[p] + 1
        BY <2>1, <2>3 DEF HeightOK
      <3>2. p \in Path[x] /\ Height[p] \in Nat
        BY <1>1, <2>3, PathOf
      <3>3. Height[p] < Height[x]
        BY <1>1, <3>2, StoreChains, HeightsGrow
      <3> HIDE DEF p
      <3> QED
        BY <1>2, <3>1, <3>2, <3>3
    <2> QED
      BY <2>2, <2>3
  <1>4. ~(Height[b] >= Height[x] + Maturity)
    BY <1>2, <1>3
  <1>5. o \notin Spends[b]
    BY <1>1, <1>4, TooYoung DEF Valid
  <1>6. o \notin Creates[b]
    BY <1>1, OwnAlone
  <1>7. o \in Ledger[p].utxo
    BY <1>1, <1>5, <1>6, RootTells DEF AllCommitted
  <1>8. x \in Path[p]
    BY <1>1, <1>7, StoreChains, OwnTells
  <1>9. p \in Path[x]
    BY <1>8, PathAssumption
  <1> HIDE DEF p
  <1> QED
    BY <1>1, <1>8, <1>9, StoreOrder DEF p

\* An outpoint that the chain of the next block's parent left unspent and the
\* ledger does not have.
LEMMA MissingTells ==
    ASSUME AllCommitted, NEW b \in Block, NEW y \in Block, b # y, NEW o \in OwnCoins(y),
           o \in Ledger[Parent[b]].utxo, o \notin ledger.utxo
    PROVE  ~Valid(ledger, b)
  <1> SUFFICES ASSUME Valid(ledger, b) PROVE FALSE
    OBVIOUS
  <1>1. o \notin Spends[b]
    BY DEF Valid
  <1>2. o \notin Creates[b]
    BY OwnAlone
  <1> QED
    BY <1>1, <1>2, RootTells DEF AllCommitted

\* connect_branch goes on only from a whole chain that ends where it stands.
LEMMA ConnectsWhole ==
    ASSUME AllCommitted, OwnCoinbases, Maturity # 0, StoreTree, FailInv,
           pc = "connect", NEW b \in Block, OnBranch(b), b \notin applied, Valid(ledger, b),
           NEW x \in blocks \cup {Zero}, ValidPath(x), Clean(x) \/ Mixed(x)
    PROVE  x = cur /\ Clean(x)
  <1>1. /\ b \in blocks /\ Parent[b] = cur /\ b \notin Path[cur] /\ b \notin Applied
        /\ cur \in blocks \cup {Zero} /\ b # cur
    <2>1. target \in blocks \cup {Zero} /\ cur \in blocks \cup {Zero}
      BY DEF StoreTree, TInv, TypeOK
    <2> QED
      BY <2>1, StoreChains, PathOf DEF OnBranch, Applied
  <1>2. Applied \subseteq Path[x] /\ Zero \notin Applied /\ Applied \subseteq blocks
    BY DEF Clean, Mixed, Applied, FailInv, UndoKept
  <1>3. cur \in Applied \cup {Zero}
    <2> SUFFICES ASSUME cur # Zero, cur \notin Applied PROVE FALSE
      OBVIOUS
    <2>1. cur \in Block
      BY <1>1, StoreChains
    <2>2. PICK o \in OwnCoins(cur) : TRUE
      BY <1>1 DEF OwnCoinbases
    <2>3. o \notin ledger.utxo
      BY <2>1 DEF FailInv, OwnKept
    <2>4. o \in Ledger[cur].utxo
      BY <2>1, OwnCreated
    <2> QED
      BY <1>1, <2>1, <2>3, <2>4, MissingTells
  <1>4. ASSUME x # cur PROVE FALSE
    <2>1. cur \in Path[x] \cup {Zero}
      BY <1>2, <1>3
    <2>2. x \in Applied /\ x \in Block
      <3>1. x # Zero
        BY <1>4, <2>1, PathAssumption
      <3>2. x \in Block
        BY <3>1, StoreChains
      <3> QED
        BY <3>2, PathOf DEF Clean, Mixed
    <2>3. Fails(x)
      <3>1. CASE Clean(x)
        <4>1. x \notin Path[tip]
          <5> SUFFICES ASSUME x \in Path[tip] PROVE FALSE
            OBVIOUS
          <5>1. x \in Path[ancestor]
            BY <2>2 DEF FailInv, OnItsWay
          <5>2. ancestor # Zero /\ ancestor \in Path[cur]
            BY <5>1, PathAssumption DEF FailInv, OnItsWay
          <5>3. x \in Path[cur]
            BY <1>1, <5>1, <5>2, StoreChains
          <5>4. cur \in Path[x] /\ x \in blocks
            BY <1>2, <2>1, <2>2, <5>3, PathAssumption
          <5> QED
            BY <1>4, <5>3, <5>4, StoreOrder
        <4>2. x # Zero
          BY <1>2, <2>2
        <4> QED
          BY <1>4, <3>1, <4>1, <4>2 DEF Clean
      <3> QED
        BY <3>1 DEF Mixed
    <2>4. PICK o \in OwnCoins(x) : TRUE
      BY <1>2, <2>2, <2>3, EndHasOwn
    <2>5. o \in ledger.utxo /\ <<o, Height[x]>> \in ledger.coinbase
      <3>1. CASE Clean(x)
        BY <2>2, <3>1, OwnCreated DEF Clean
      <3> QED
        BY <3>1 DEF Mixed
    <2>6. b # x
      BY <1>1, <2>2
    <2> QED
      BY <1>1, <1>2, <1>4, <2>1, <2>2, <2>5, <2>6, AboveTells
  <1>5. ASSUME x = cur, Mixed(x) PROVE FALSE
    <2>1. PICK c \in Path[x] \ Applied : Height[x] < Height[c] + Maturity
      BY <1>5 DEF Mixed
    <2>2. x \in blocks /\ x \in Block /\ c \in Block /\ c # x
      BY <1>2, <1>5, <2>1, StoreChains, PathOf DEF Mixed
    <2>3. PICK d \in Path[x] : Parent[d] = c
      BY <2>1, <2>2, StoreChains, ChildOnPath
    <2>4. PICK o \in OwnCoins(c) : TRUE
      BY <2>2, <2>3, PathOf DEF OwnCoinbases
    <2>5. o \in Ledger[x].utxo
      BY <2>1, <2>2, StoreChains, Immature
    <2>6. o \notin ledger.utxo
      BY <2>1, <2>2 DEF FailInv, OwnKept
    <2>7. b # c
      BY <1>1, <1>5, <2>1
    <2> QED
      BY <1>1, <1>5, <2>2, <2>5, <2>6, <2>7, MissingTells
  <1> QED
    BY <1>4, <1>5

\* A call that sets out leaves the ledger and the marks as they are.
LEMMA FailSubmit ==
    ASSUME StoreTree, FailInv, NEW b \in Block, Submit(b)
    PROVE  FailInv'
  <1>1. PICK best \in blocks', c \in blocks' \cup {Zero} :
          IsBest(work', best) /\ StartReorg(best, c)
    BY DEF Submit
  <1>2. /\ pc = "idle" /\ blocks' = blocks \cup {b}
        /\ undo' = undo /\ ledger' = ledger /\ tip' = tip
    BY DEF Submit, Record
  <1>3. Applied' = Applied
    BY <1>1 DEF StartReorg, Applied
  <1>4. UndoKept' /\ OwnKept' /\ TipChainIsValid'
    BY <1>2, <1>3 DEF FailInv, UndoKept, OwnKept, TipChainIsValid
  <1>5. Whole'
    <2>1. PICK x \in blocks \cup {Zero} : ValidPath(x) /\ (Clean(x) \/ Mixed(x))
      BY DEF FailInv, Whole
    <2>2. Fails(x) => Fails(x)'
      BY <1>2 DEF Fails
    <2>3. Clean(x) => Clean(x)'
      BY <1>2, <1>3, <2>2 DEF Clean
    <2>4. Mixed(x) => Mixed(x)'
      BY <1>2, <1>3, <2>2 DEF Mixed
    <2>5. ValidPath(x)'
      BY <2>1 DEF ValidPath
    <2> QED
      BY <1>2, <2>1, <2>3, <2>4, <2>5 DEF Whole
  <1>6. OnItsWay'
    <2>1. cur' = tip /\ target' = best /\ ancestor' = c /\ IsCommonAncestor(tip, best, c)
      BY <1>1 DEF StartReorg
    <2>2. pc' # "idle" => best # tip
      BY <1>1 DEF StartReorg
    <2>3. ASSUME pc' = "connect"
          PROVE  /\ c \in Path[tip] \cup {Zero}
                 /\ Path[tip] \ Path[c] \subseteq Applied
                 /\ Path[tip] \cap Applied \subseteq Path[c]
      <3>1. tip = c
        BY <1>1, <2>3 DEF StartReorg
      <3>2. c \in Path[c] \cup {Zero}
        BY <3>1, PathOf DEF StoreTree, TInv, TypeOK
      <3> QED
        BY <3>1, <3>2
    <2>4. ASSUME pc' = "disconnect" PROVE tip \in Path[tip]
      <3>1. tip # c
        BY <1>1, <2>4 DEF StartReorg
      <3>2. tip # Zero
        BY <2>1, <3>1, PathAssumption DEF IsCommonAncestor
      <3> QED
        BY <3>2, PathOf DEF StoreTree, TInv, TypeOK
    <2> QED
      BY <1>2, <1>3, <2>1, <2>2, <2>3, <2>4 DEF OnItsWay
  <1> QED
    BY <1>4, <1>5, <1>6 DEF FailInv

\* A refused block is the witness that the chain it was to extend fails.
LEMMA FailAbort ==
    ASSUME StoreTree, FailInv, NEW b \in Block, Abort(b)
    PROVE  FailInv'
  <1>1. /\ pc = "connect" /\ pc' = "idle" /\ UNCHANGED <<store, loop>> /\ OnBranch(b)
        /\ ~Valid(ledger, b)
    BY DEF Abort
  <1>2. Applied' = Applied
    BY <1>1 DEF store, Applied
  <1>3. UndoKept' /\ OwnKept' /\ TipChainIsValid' /\ OnItsWay'
    BY <1>1, <1>2 DEF FailInv, UndoKept, OwnKept, TipChainIsValid, OnItsWay, store
  <1>4. Whole'
    <2>1. PICK x \in blocks \cup {Zero} : ValidPath(x) /\ (Clean(x) \/ Mixed(x))
      BY DEF FailInv, Whole
    <2>2. Fails(x)' <=> Fails(x)
      BY <1>1 DEF Fails, store
    <2>3. ASSUME Clean(x) PROVE Clean(x)'
      <3>1. CASE x = cur
        <4>1. b \in blocks
          <5>1. target \in blocks \cup {Zero}
            BY DEF StoreTree, TInv, TypeOK
          <5> QED
            BY <1>1, <5>1, StoreChains DEF OnBranch
        <4>2. Fails(x)
          BY <1>1, <2>3, <3>1, <4>1 DEF Fails, Clean, OnBranch
        <4> QED
          BY <1>1, <1>2, <2>2, <2>3, <4>2 DEF Clean, store
      <3>2. CASE x # cur
        BY <1>1, <1>2, <2>2, <2>3, <3>2 DEF Clean, store
      <3> QED
        BY <3>1, <3>2
    <2>4. Mixed(x) => Mixed(x)'
      BY <1>1, <1>2, <2>2 DEF Mixed, store
    <2>5. ValidPath(x)'
      BY <2>1 DEF ValidPath
    <2> QED
      BY <1>1, <2>1, <2>3, <2>4, <2>5 DEF Whole, store
  <1> QED
    BY <1>3, <1>4 DEF FailInv

\* A block that is applied already is not next on a whole chain.
LEMMA FailSkip ==
    ASSUME StoreTree, FailInv, NEW b \in Block, SkipApplied(b)
    PROVE  FailInv'
  <1>1. /\ pc = "connect" /\ cur' = b /\ UNCHANGED <<store, pc, target, ancestor>>
        /\ Parent[b] = cur /\ b \in Applied
    BY TreeAssumption DEF SkipApplied, OnBranch, Applied
  <1>2. Applied' = Applied
    BY <1>1 DEF store, Applied
  <1>3. UndoKept' /\ OwnKept' /\ TipChainIsValid'
    BY <1>1, <1>2 DEF FailInv, UndoKept, OwnKept, TipChainIsValid, store
  <1>4. Path[b] = Path[cur] \cup {b} /\ b \notin Path[cur]
    BY <1>1, PathOf
  <1>5. OnItsWay'
    <2>1. /\ ancestor \in Path[cur] \cup {Zero}
          /\ Path[cur] \ Path[ancestor] \subseteq Applied
          /\ Path[tip] \cap Applied \subseteq Path[ancestor]
          /\ IsCommonAncestor(tip, target, ancestor) /\ target # tip
      BY <1>1 DEF FailInv, OnItsWay
    <2> QED
      BY <1>1, <1>2, <1>4, <2>1 DEF OnItsWay, store
  <1>6. Whole'
    <2>1. PICK x \in blocks \cup {Zero} : ValidPath(x) /\ (Clean(x) \/ Mixed(x))
      BY DEF FailInv, Whole
    <2>2. Fails(x)' <=> Fails(x)
      BY <1>1 DEF Fails, store
    <2>3. Clean(x) => x # cur
      BY <1>1, <1>4 DEF Clean
    <2>4. Clean(x) => Clean(x)'
      BY <1>1, <1>2, <2>2, <2>3 DEF Clean, store
    <2>5. Mixed(x) => Mixed(x)'
      BY <1>1, <1>2, <2>2 DEF Mixed, store
    <2>6. ValidPath(x)'
      BY <2>1 DEF ValidPath
    <2> QED
      BY <1>1, <2>1, <2>4, <2>5, <2>6 DEF Whole, store
  <1> QED
    BY <1>3, <1>5, <1>6 DEF FailInv

\* A block that is connected makes a whole chain one longer.
LEMMA FailConnect ==
    ASSUME AllCommitted, OwnCoinbases, Maturity # 0, StoreTree, FailInv,
           NEW b \in Block, Connect(b)
    PROVE  FailInv'
  <1>1. /\ pc = "connect" /\ pc' = "connect" /\ OnBranch(b) /\ Parent[b] = cur
        /\ b \notin applied /\ Valid(ledger, b) /\ cur' = b
        /\ ledger' = ApplyTo(ledger, b) /\ applied' = applied \cup {b}
        /\ undo' = [a \in DOMAIN undo \cup {b} |->
                       IF a = b THEN UndoOf(ledger, b) ELSE undo[a]]
        /\ UNCHANGED <<blocks, tip, target, ancestor>>
    BY DEF Connect, ApplyBlock, OnBranch
  <1>2. PICK x \in blocks \cup {Zero} : ValidPath(x) /\ (Clean(x) \/ Mixed(x))
    BY DEF FailInv, Whole
  <1>3. x = cur /\ Clean(x)
    BY <1>1, <1>2, ConnectsWhole
  <1>4. ledger = Ledger[cur] /\ Applied = Path[cur]
    BY <1>3 DEF Clean
  <1>5. Path[b] = Path[cur] \cup {b} /\ b \notin Path[cur]
    BY <1>1, PathOf
  <1>6. b \in blocks
    <2>1. target \in blocks \cup {Zero}
      BY DEF StoreTree, TInv, TypeOK
    <2> QED
      BY <1>1, <2>1, StoreChains DEF OnBranch
  <1>7. Applied' = Path[b]
    BY <1>1, <1>4, <1>5, TreeAssumption DEF Applied
  <1>8. ledger' = Ledger[b]
    BY <1>1, <1>4, ParentLedger
  <1>9. ValidPath(b)
    BY <1>1, <1>2, <1>3, <1>4, <1>5 DEF ValidPath
  <1>10. UndoKept'
    <2>1. Applied' \subseteq blocks'
      BY <1>1, <1>6, <1>7, StoreChains
    <2>2. DOMAIN undo' = Applied'
      BY <1>1, <1>4, <1>5, <1>7 DEF FailInv, UndoKept
    <2>3. \A a \in Applied' : undo'[a] = UndoOf(Ledger[Parent[a]], a)
      BY <1>1, <1>4, <1>5, <1>7 DEF FailInv, UndoKept
    <2> QED
      BY <2>1, <2>2, <2>3 DEF UndoKept
  <1>11. OwnKept'
    <2> SUFFICES ASSUME NEW y \in Block, NEW o \in OwnCoins(y), o \in Ledger[b].utxo
                 PROVE  y \in Path[b]
      BY <1>7, <1>8 DEF OwnKept
    <2> QED
      BY <1>6, StoreChains, OwnTells
  <1>12. OnItsWay'
    <2>1. /\ ancestor \in Path[cur] \cup {Zero}
          /\ Path[cur] \ Path[ancestor] \subseteq Applied
          /\ Path[tip] \cap Applied \subseteq Path[ancestor]
          /\ IsCommonAncestor(tip, target, ancestor) /\ target # tip
      BY <1>1 DEF FailInv, OnItsWay
    <2>2. b \notin Path[tip]
      <3> SUFFICES ASSUME b \in Path[tip] PROVE FALSE
        OBVIOUS
      <3>1. tip \in blocks \cup {Zero} /\ target \in blocks \cup {Zero}
        BY DEF StoreTree, TInv, TypeOK
      <3>2. Path[tip] \cap Path[target] = Path[ancestor]
        BY <2>1, <3>1, StoreChains, SharedPath
      <3>3. b \in Path[ancestor]
        BY <1>1, <3>2 DEF OnBranch
      <3>4. cur \in blocks \cup {Zero}
        BY DEF StoreTree, TInv, TypeOK
      <3>5. Path[ancestor] \subseteq Path[cur]
        BY <2>1, <3>4, StoreChains, PathAssumption
      <3> QED
        BY <1>5, <3>3, <3>5
    <2>3. Path[b] \ Path[ancestor] \subseteq Path[b] /\ ancestor \in Path[b] \cup {Zero}
      BY <1>5, <2>1
    <2>4. Path[tip] \cap Path[b] \subseteq Path[ancestor]
      BY <1>4, <1>5, <2>1, <2>2
    <2> QED
      BY <1>1, <1>7, <2>1, <2>3, <2>4 DEF OnItsWay
  <1>13. Whole'
    <2>1. Clean(b)'
      BY <1>1, <1>7, <1>8 DEF Clean
    <2>2. ValidPath(b)'
      BY <1>9 DEF ValidPath
    <2> QED
      BY <1>1, <1>6, <2>1, <2>2 DEF Whole
  <1>14. TipChainIsValid'
    BY <1>1 DEF FailInv, TipChainIsValid
  <1> QED
    BY <1>10, <1>11, <1>12, <1>13, <1>14 DEF FailInv

\* No block of the store has more work than the one a call heads for.
LEMMA HeadsForMostWork ==
    ASSUME StoreTree, pc # "idle"
    PROVE  /\ target \in blocks
           /\ \A b \in blocks : ChainWork[b] <= ChainWork[target]
           /\ \A b \in blocks : target \in Path[b] => b = target
  <1>1. target \in DOMAIN work /\ \A a \in DOMAIN work \ {target} : Better(work, target, a)
    BY DEF StoreTree, HeadsForBest, IsBest
  <1>2. target \in blocks /\ DOMAIN work = blocks /\ blocks \subseteq Block
    BY <1>1 DEF StoreTree, TInv, TypeOK
  <1>3. ASSUME NEW b \in blocks PROVE ChainWork[b] <= ChainWork[target]
    <2>1. work[b] = ChainWork[b] /\ work[target] = ChainWork[target]
      BY <1>2 DEF StoreTree, WInv
    <2>2. ChainWork[b] \in Nat /\ ChainWork[target] \in Nat
      BY <1>2, StoreChains, ChainWorkNat
    <2>3. b = target \/ work[target] > work[b] \/ work[target] = work[b]
      BY <1>1, <1>2 DEF Better
    <2> QED
      BY <2>1, <2>2, <2>3
  <1>4. ASSUME NEW b \in blocks, target \in Path[b], b # target PROVE FALSE
    <2>1. ChainWork[target] < ChainWork[b]
      BY <1>2, <1>4, StoreChains, WorkGrows
    <2>2. ChainWork[b] \in Nat /\ ChainWork[target] \in Nat
      BY <1>2, StoreChains, ChainWorkNat
    <2> QED
      BY <1>3, <2>1, <2>2
  <1> QED
    BY <1>2, <1>3, <1>4

\* When the whole branch is connected, what is applied is the chain of the block
\* the call headed for, and it is valid.
LEMMA FinishesWhole ==
    ASSUME StoreTree, FailInv, Finish
    PROVE  ValidPath(target) /\ ledger = Ledger[target] /\ Applied = Path[target]
  <1>1. pc = "connect" /\ cur = target
    BY DEF Finish
  <1>2. PICK x \in blocks \cup {Zero} : ValidPath(x) /\ (Clean(x) \/ Mixed(x))
    BY DEF FailInv, Whole
  <1>3. target \in blocks /\ \A b \in blocks : target \in Path[b] => b = target
    BY <1>1, HeadsForMostWork
  <1>4. tip \in blocks \cup {Zero} /\ target # tip /\ target \in Block /\ Path[Zero] = {}
    BY <1>1, <1>3, PathOf DEF StoreTree, TInv, TypeOK, FailInv, OnItsWay
  <1>5. target \notin Path[tip]
    BY <1>3, <1>4
  <1>6. target \in Applied
    <2>1. IsCommonAncestor(tip, target, ancestor) /\ Path[target] \ Path[ancestor] \subseteq Applied
      BY <1>1 DEF FailInv, OnItsWay
    <2>2. Path[tip] \cap Path[target] = Path[ancestor]
      BY <1>3, <1>4, <2>1, StoreChains, SharedPath
    <2> QED
      BY <1>4, <1>5, <2>1, <2>2, PathOf
  <1>7. target \in Path[x] /\ x \in blocks
    BY <1>2, <1>4, <1>6 DEF Clean, Mixed
  <1>8. x = target
    BY <1>3, <1>7
  <1>9. ~Fails(x)
    <2> SUFFICES ASSUME NEW b \in blocks, Parent[b] = x PROVE FALSE
      BY DEF Fails
    <2>1. b \in Block
      BY DEF StoreTree, TInv, TypeOK
    <2>2. x \in Path[b] /\ b # x
      BY <1>4, <1>8, <2>1, PathOf
    <2> QED
      BY <1>3, <1>8, <2>2
  <1> QED
    BY <1>2, <1>8, <1>9 DEF Clean, Mixed

\* The tip that is set then is that of a whole and valid chain.
LEMMA FailFinish ==
    ASSUME StoreTree, FailInv, Finish
    PROVE  FailInv'
  <1>1. /\ pc = "connect" /\ pc' = "idle" /\ tip' = target
        /\ UNCHANGED <<blocks, applied, undo, ledger>>
    BY DEF Finish
  <1>2. ValidPath(target) /\ ledger = Ledger[target] /\ Applied = Path[target]
    BY FinishesWhole
  <1>3. Applied' = Applied
    BY <1>1 DEF Applied
  <1>4. UndoKept' /\ OwnKept' /\ OnItsWay'
    BY <1>1, <1>3 DEF FailInv, UndoKept, OwnKept, OnItsWay
  <1>5. TipChainIsValid'
    BY <1>1, <1>2 DEF ValidPath, TipChainIsValid
  <1>6. Whole'
    <2>1. PICK t : t = target
      OBVIOUS
    <2>2. t \in blocks /\ t \in Path[t]
      BY <1>1, <2>1, HeadsForMostWork, PathOf DEF StoreTree, TInv, TypeOK
    <2>3. Clean(t)'
      BY <1>1, <1>2, <1>3, <2>1, <2>2 DEF Clean
    <2>4. ValidPath(t)'
      BY <1>2, <2>1 DEF ValidPath
    <2> QED
      BY <1>1, <2>2, <2>3, <2>4 DEF Whole
  <1> QED
    BY <1>4, <1>5, <1>6 DEF FailInv

\* A turn of the loop that rolls back leaves the other marks and undo data.
LEMMA UndoneOne ==
    ASSUME StoreTree, FailInv, Disconnect
    PROVE  /\ Applied' = Applied \ {cur} /\ UndoKept'
           /\ cur \in blocks /\ cur \in Path[tip]
  <1>1. Applied' = Applied \ {cur}
    BY DEF Disconnect, Applied
  <1>2. DOMAIN undo' = Applied' /\ \A b \in Applied' : undo'[b] = undo[b]
    BY <1>1 DEF Disconnect, Restrict, FailInv, UndoKept
  <1>3. UndoKept'
    <2>1. blocks' = blocks
      BY DEF Disconnect
    <2>2. \A b \in Applied' : undo'[b] = UndoOf(Ledger[Parent[b]], b)
      BY <1>1, <1>2 DEF FailInv, UndoKept
    <2> QED
      BY <1>1, <1>2, <2>1, <2>2 DEF FailInv, UndoKept
  <1>4. cur \in blocks /\ cur \in Path[tip]
    BY DisconnectsBlock DEF Disconnect, StoreTree, TInv, FailInv, OnItsWay
  <1> QED
    BY <1>1, <1>3, <1>4

\* What is applied of the active chain is below where reorganize stands.
LEMMA StandsHighest ==
    ASSUME StoreTree, FailInv, pc = "disconnect", NEW y \in Path[tip] \cap Applied, y # cur
    PROVE  y \in Path[Parent[cur]] /\ cur \notin Path[y]
  <1>1. cur \in blocks /\ cur \in Block
    BY DisconnectsBlock DEF StoreTree, TInv
  <1>2. y \in Path[cur]
    BY DEF FailInv, OnItsWay
  <1>3. y \in Path[Parent[cur]]
    BY <1>1, <1>2, PathOf
  <1>4. cur \notin Path[y]
    BY <1>1, <1>2, StoreOrder
  <1> QED
    BY <1>3, <1>4

\* The call stays on its way, one block further down.
LEMMA DownTheChain ==
    ASSUME StoreTree, FailInv, Disconnect
    PROVE  OnItsWay'
  <1> DEFINE p == Parent[cur]
  <1>1. /\ pc = "disconnect" /\ cur' = p /\ UNCHANGED <<tip, target, ancestor>>
        /\ pc' = IF p = ancestor THEN "connect" ELSE "disconnect"
    BY DEF Disconnect
  <1>2. Applied' = Applied \ {cur} /\ cur \in blocks /\ cur \in Path[tip]
    BY UndoneOne
  <1>3. /\ cur \in Block /\ ancestor \in Path[p] \cup {Zero}
    BY <1>1, DisconnectsBlock DEF StoreTree, TInv
  <1>4. p \in Path[p] \cup {Zero} /\ Path[p] \subseteq Path[cur] /\ Path[Zero] = {}
    BY <1>3, PathOf
  <1>5. IsCommonAncestor(tip, target, ancestor) /\ target # tip
    BY <1>1 DEF FailInv, OnItsWay
  <1>6. Path[tip] \cap Applied' \subseteq Path[p]
    BY <1>1, <1>2, StandsHighest
  <1>7. p # ancestor => p \in Path[tip]
    <2>1. Path[cur] \subseteq Path[tip]
      BY <1>2, StoreChains DEF StoreTree, TInv, TypeOK
    <2> QED
      BY <1>3, <1>4, <2>1
  <1> HIDE DEF p
  <1> QED
    BY <1>1, <1>4, <1>5, <1>6, <1>7 DEF OnItsWay

\* Where reorganize stands was rolled back before.
LEMMA FailPassed ==
    ASSUME StoreTree, FailInv, Disconnect, cur \notin Applied
    PROVE  OwnKept' /\ Whole'
  <1>1. Applied' = Applied /\ ledger' = ledger
    BY UndoneOne DEF Disconnect, FailInv, UndoKept
  <1>2. pc = "disconnect" /\ UNCHANGED <<blocks, tip>>
    BY DEF Disconnect
  <1>3. OwnKept'
    BY <1>1 DEF FailInv, OwnKept
  <1>4. Whole'
    <2>1. PICK x \in blocks \cup {Zero} : ValidPath(x) /\ (Clean(x) \/ Mixed(x))
      BY DEF FailInv, Whole
    <2>2. Fails(x)' <=> Fails(x)
      BY <1>2 DEF Fails
    <2>3. Clean(x) => Clean(x)'
      BY <1>1, <1>2, <2>2 DEF Clean
    <2>4. Mixed(x) => Mixed(x)'
      BY <1>1, <1>2, <2>2 DEF Mixed
    <2>5. ValidPath(x)'
      BY <2>1 DEF ValidPath
    <2> QED
      BY <1>2, <2>1, <2>3, <2>4, <2>5 DEF Whole
  <1> QED
    BY <1>3, <1>4

\* What rolling back an applied block does to the outpoints of others: it takes
\* what the block created and puts back what its own chain left unspent.
LEMMA RolledBack ==
    ASSUME StoreTree, FailInv, Disconnect, cur \in Applied
    PROVE  /\ ledger' = Rollback(ledger, UndoOf(Ledger[Parent[cur]], cur))
           /\ ledger'.utxo \subseteq (ledger.utxo \ Creates[cur]) \cup Ledger[Parent[cur]].utxo
           /\ ledger.utxo \ Creates[cur] \subseteq ledger'.utxo
           /\ \A e \in ledger.coinbase : e[1] \notin CoinbaseOf[cur] => e \in ledger'.coinbase
  <1>1. ledger' = Rollback(ledger, UndoOf(Ledger[Parent[cur]], cur))
    BY DEF Disconnect, FailInv, UndoKept
  <1> QED
    BY <1>1 DEF Rollback, UndoOf, EntriesOf

\* On a whole chain, or a part of one that keeps what is below the active chain.
LEMMA BelowApplied ==
    ASSUME StoreTree, FailInv, Disconnect, cur \in Applied,
           NEW x \in blocks \cup {Zero}, Clean(x) \/ Mixed(x)
    PROVE  Path[cur] \subseteq Applied
  <1>1. cur \in Path[tip]
    BY UndoneOne
  <1>2. CASE Clean(x)
    BY <1>2, StoreChains DEF Clean
  <1>3. CASE Mixed(x)
    BY <1>1, <1>3 DEF Mixed
  <1> QED
    BY <1>2, <1>3

\* An outpoint of its own goes with its block.
LEMMA FailOwn ==
    ASSUME StoreTree, FailInv, Disconnect, cur \in Applied
    PROVE  OwnKept'
  <1>1. PICK x \in blocks \cup {Zero} : Clean(x) \/ Mixed(x)
    BY DEF FailInv, Whole
  <1>2. Path[cur] \subseteq Applied
    BY <1>1, BelowApplied
  <1>3. /\ cur \in blocks /\ cur \in Block /\ Parent[cur] \in Block \cup {Zero}
        /\ Path[Parent[cur]] = Path[cur] \ {cur} /\ IsFiniteSet(Path[Parent[cur]])
    <2>1. cur \in blocks /\ cur \in Block
      BY UndoneOne DEF StoreTree, TInv, TypeOK
    <2>2. Path[Parent[cur]] \subseteq Path[cur] /\ IsFiniteSet(Path[cur])
      BY <2>1, PathOf, StoreChains
    <2> QED
      BY <2>1, <2>2, PathOf, FS_Subset
  <1> SUFFICES ASSUME NEW y \in Block, NEW o \in OwnCoins(y), o \in ledger'.utxo
               PROVE  y \in Applied \ {cur}
    BY UndoneOne DEF OwnKept
  <1>4. CASE o \in Ledger[Parent[cur]].utxo
    <2>1. y \in Path[Parent[cur]]
      BY <1>3, <1>4, OwnTells
    <2> QED
      BY <1>2, <1>3, <2>1
  <1>5. CASE o \in ledger.utxo /\ o \notin Creates[cur]
    <2>1. y \in Applied
      BY <1>5 DEF FailInv, OwnKept
    <2>2. y # cur
      BY <1>5, OwnCreated
    <2> QED
      BY <2>1, <2>2
  <1> QED
    BY <1>4, <1>5, RolledBack

\* A whole chain, rolled back from its end, is the whole chain below.
LEMMA FailEnd ==
    ASSUME FreshCoins, StoreTree, FailInv, Disconnect, cur \in Applied,
           ValidPath(cur), Clean(cur)
    PROVE  Whole'
  <1> DEFINE p == Parent[cur]
  <1>1. cur \in blocks /\ cur \in Path[tip] /\ Applied' = Applied \ {cur}
    BY UndoneOne
  <1>2. cur \in Block /\ cur \in Path[cur] /\ tip \in blocks \cup {Zero}
    BY <1>1, PathOf DEF StoreTree, TInv, TypeOK
  <1>3. p \in Block \cup {Zero} /\ Path[p] = Path[cur] \ {cur}
    BY <1>2, PathOf
  <1>4. ledger' = Ledger[p]
    <2> DEFINE s == Ledger[p]
    <2>1. Valid(s, cur)
      BY <1>2 DEF ValidPath
    <2>2. s \in State /\ Ledger[cur] = ApplyTo(s, cur)
      BY <1>2, ParentLedger
    <2>3. /\ Spends[cur] \subseteq s.utxo
          /\ Creates[cur] \cap s.utxo = {}
          /\ EntriesOf(Creates[cur], s.coinbase) = {}
      BY <1>2, <2>1 DEF ValidPath, FreshCoins, Valid
    <2>4. Rollback(ApplyTo(s, cur), UndoOf(s, cur)) = s
      BY <1>2, <2>2, <2>3, RollbackUndoesApply
    <2>5. ledger' = Rollback(ledger, UndoOf(s, cur))
      BY RolledBack
    <2> QED
      BY <2>2, <2>4, <2>5 DEF Clean
  <1>5. Applied' = Path[p]
    BY <1>1, <1>3 DEF Clean
  <1>6. p \in Path[tip] \cup {Zero} /\ p \in blocks \cup {Zero}
    <2>1. Path[cur] \subseteq Path[tip] /\ Path[tip] \subseteq blocks
      BY <1>1, <1>2, StoreChains
    <2>2. p = Zero \/ p \in Path[p]
      BY <1>3, PathOf
    <2> QED
      BY <1>3, <2>1, <2>2
  <1>7. PICK x : x = p
    OBVIOUS
  <1> HIDE DEF p
  <1>8. blocks' = blocks /\ tip' = tip
    BY DEF Disconnect
  <1>9. Clean(x)'
    BY <1>4, <1>5, <1>6, <1>7, <1>8 DEF Clean
  <1>10. ValidPath(x)'
    BY <1>3, <1>7 DEF ValidPath
  <1> QED
    BY <1>6, <1>7, <1>8, <1>9, <1>10 DEF Whole

\* The block of the active chain that is rolled back under a chain that failed is
\* too young for its coinbase to have been spent there.
LEMMA YoungOne ==
    ASSUME ShallowFaults, StoreTree, FailInv, Disconnect,
           NEW x \in blocks, cur \in Path[x], Fails(x)
    PROVE  Height[x] < Height[cur] + Maturity
  <1>1. PICK b \in blocks : Parent[b] = x /\ ~Valid(Ledger[x], b)
    BY DEF Fails
  <1>2. /\ pc = "disconnect" /\ cur \in blocks /\ cur \in Path[tip]
        /\ blocks \subseteq Block /\ tip \in blocks \cup {Zero}
    BY UndoneOne DEF Disconnect, StoreTree, TInv, TypeOK
  <1>3. target \in blocks /\ ChainWork[b] <= ChainWork[target]
    BY <1>1, <1>2, HeadsForMostWork
  <1>4. cur \notin Path[target]
    <2>1. IsCommonAncestor(tip, target, ancestor)
      BY <1>2 DEF FailInv, OnItsWay
    <2>2. Path[tip] \cap Path[target] = Path[ancestor]
      BY <1>2, <1>3, <2>1, StoreChains, SharedPath
    <2>3. cur # ancestor /\ ancestor \in Path[cur] \cup {Zero}
      BY <1>2 DEF StoreTree, TInv, AncestorBelow
    <2>4. cur \notin Path[ancestor]
      BY <1>2, <2>3, StoreOrder, PathAssumption
    <2> QED
      BY <1>2, <2>2, <2>4
  <1>5. cur \in Path[b]
    BY <1>1, <1>2, PathOf
  <1>6. Height[b] <= Height[cur] + Maturity
    BY <1>1, <1>2, <1>3, <1>4, <1>5 DEF ShallowFaults
  <1>7. Height[b] = Height[x] + 1
    <2>1. HeightOK(b) /\ x # Zero
      BY <1>1, <1>2, TreeAssumption DEF StoreTree, HInv
    <2> QED
      BY <1>1, <2>1 DEF HeightOK
  <1>8. Height[x] \in Nat /\ Height[cur] \in Nat /\ Maturity \in Nat
    BY <1>2, TreeAssumption, BlockAssumption
  <1> QED
    BY <1>6, <1>7, <1>8

\* What is left of a chain that failed, when a block of the active chain under it
\* is rolled back.
LEMMA FailUnder ==
    ASSUME ShallowFaults, StoreTree, FailInv, Disconnect, cur \in Applied,
           NEW x \in blocks \cup {Zero}, x # cur, ValidPath(x), Clean(x) \/ Mixed(x)
    PROVE  Mixed(x)'
  <1>1. /\ cur \in blocks /\ cur \in Path[tip] /\ Applied' = Applied \ {cur}
        /\ pc = "disconnect" /\ UNCHANGED <<blocks, tip>>
    BY UndoneOne DEF Disconnect
  <1>2. Applied \subseteq Path[x] /\ cur \in Path[x]
    BY DEF Clean, Mixed
  <1>3. x \in blocks /\ x \in Block /\ x \in Path[x]
    BY <1>2, PathAssumption, StoreChains
  <1>4. x \in Applied
    BY <1>3 DEF Clean, Mixed
  <1>5. x \notin Path[tip] /\ Fails(x)
    <2>1. x \in Path[tip] => x \in Path[cur]
      BY <1>1, <1>4 DEF FailInv, OnItsWay
    <2>2. x \notin Path[tip]
      BY <1>1, <1>2, <1>3, <2>1, StoreOrder
    <2>3. x # Zero
      BY <1>3, TreeAssumption
    <2> QED
      BY <1>1, <2>2, <2>3 DEF Clean, Mixed
  <1>6. Fails(x)'
    BY <1>1, <1>5 DEF Fails
  <1>7. \E c \in Path[x] \ Applied' : Height[x] < Height[c] + Maturity
    BY <1>1, <1>2, <1>3, <1>5, YoungOne
  <1>8. ASSUME NEW o \in OwnCoins(x)
        PROVE  o \in ledger'.utxo /\ <<o, Height[x]>> \in ledger'.coinbase
    <2>1. o \in ledger.utxo /\ <<o, Height[x]>> \in ledger.coinbase
      BY <1>3, OwnCreated DEF Clean, Mixed
    <2>2. o \notin Creates[cur] /\ o \notin CoinbaseOf[cur]
      <3>1. cur \in Block
        BY <1>1 DEF StoreTree, TInv, TypeOK
      <3> QED
        BY <1>3, <3>1, OwnAlone
    <2>3. <<o, Height[x]>>[1] = o
      OBVIOUS
    <2>4. \A e \in ledger.coinbase : e[1] \notin CoinbaseOf[cur] => e \in ledger'.coinbase
      BY RolledBack
    <2>5. ledger.utxo \ Creates[cur] \subseteq ledger'.utxo
      BY RolledBack
    <2> QED
      BY <2>1, <2>2, <2>3, <2>4, <2>5
  <1>9. ASSUME NEW y \in Path[tip] \cap Applied, y # cur
        PROVE  Path[y] \subseteq Applied \ {cur}
    <2>1. y \in Path[Parent[cur]] /\ cur \notin Path[y]
      BY <1>1, <1>9, StandsHighest
    <2>2. y \in Path[cur]
      BY <1>1, <1>9 DEF FailInv, OnItsWay
    <2>3. Path[y] \subseteq Path[cur]
      BY <1>1, <2>2, StoreChains
    <2>4. Path[cur] \subseteq Applied
      BY BelowApplied
    <2> QED
      BY <2>1, <2>3, <2>4
  <1> QED
    BY <1>1, <1>2, <1>4, <1>5, <1>6, <1>7, <1>8, <1>9 DEF Mixed

\* Every turn of the loop that rolls back keeps the invariant.
LEMMA FailDisconnect ==
    ASSUME FreshCoins, ShallowFaults, StoreTree, FailInv, Disconnect
    PROVE  FailInv'
  <1>1. UndoKept' /\ OnItsWay'
    BY UndoneOne, DownTheChain
  <1>2. TipChainIsValid'
    BY DEF Disconnect, FailInv, TipChainIsValid
  <1>3. CASE cur \notin Applied
    BY <1>1, <1>2, <1>3, FailPassed DEF FailInv
  <1>4. CASE cur \in Applied
    <2>1. OwnKept'
      BY <1>4, FailOwn
    <2>2. PICK x \in blocks \cup {Zero} : ValidPath(x) /\ (Clean(x) \/ Mixed(x))
      BY DEF FailInv, Whole
    <2>3. CASE x = cur
      <3>1. ~Mixed(x)
        BY <2>3, UndoneOne DEF Mixed
      <3>2. ValidPath(cur) /\ Clean(cur)
        BY <2>2, <2>3, <3>1
      <3>3. Whole'
        BY <1>4, <3>2, FailEnd
      <3> QED
        BY <1>1, <1>2, <2>1, <3>3 DEF FailInv
    <2>4. CASE x # cur
      <3>1. Mixed(x)'
        BY <1>4, <2>2, <2>4, FailUnder
      <3>2. ValidPath(x)'
        BY <2>2 DEF ValidPath
      <3>3. blocks' = blocks
        BY DEF Disconnect
      <3>4. Whole'
        BY <3>1, <3>2, <3>3 DEF Whole
      <3> QED
        BY <1>1, <1>2, <2>1, <3>4 DEF FailInv
    <2> QED
      BY <2>3, <2>4
  <1> QED
    BY <1>3, <1>4

\* Every step keeps the invariant.
LEMMA FailInvStep ==
    ASSUME FreshCoins, AllCommitted, OwnCoinbases, ShallowFaults, Maturity # 0
    PROVE  StoreTree /\ FailInv /\ [Next]_vars => FailInv'
  <1> SUFFICES ASSUME StoreTree, FailInv, [Next]_vars PROVE FailInv'
    OBVIOUS
  <1>1. ASSUME NEW b \in Block, Submit(b) PROVE FailInv'
    BY <1>1, FailSubmit
  <1>2. ASSUME Disconnect PROVE FailInv'
    BY <1>2, FailDisconnect
  <1>3. ASSUME NEW b \in Block, Connect(b) PROVE FailInv'
    BY <1>3, FailConnect
  <1>4. ASSUME NEW b \in Block, SkipApplied(b) PROVE FailInv'
    BY <1>4, FailSkip
  <1>5. ASSUME NEW b \in Block, Abort(b) PROVE FailInv'
    BY <1>5, FailAbort
  <1>6. ASSUME Finish PROVE FailInv'
    BY <1>6, FailFinish
  <1>7. ASSUME UNCHANGED vars PROVE FailInv'
    <2>1. UNCHANGED <<blocks, applied, undo, ledger, tip, pc, cur, target, ancestor>>
      BY <1>7 DEF vars, store, loop
    <2> QED
      BY <2>1 DEF FailInv, UndoKept, OwnKept, OnItsWay, Whole, TipChainIsValid, ValidPath,
                  Clean, Mixed, Fails, Applied
  <1> QED
    BY <1>1, <1>2, <1>3, <1>4, <1>5, <1>6, <1>7 DEF Next, ReorgStep

\* The empty store is the whole empty chain.
LEMMA FailInvInit == Init => FailInv
  <1> SUFFICES ASSUME Init PROVE FailInv
    OBVIOUS
  <1>1. /\ ledger = EmptyState /\ Applied = {} /\ DOMAIN undo = {} /\ tip = Zero /\ pc = "idle"
    BY DEF Init, Applied
  <1>2. Path[Zero] = {} /\ Ledger[Zero] = EmptyState
    BY PathAssumption, LedgerAssumption
  <1>3. ValidPath(Zero) /\ Clean(Zero)
    BY <1>1, <1>2 DEF ValidPath, Clean
  <1>4. Whole
    BY <1>3 DEF Whole
  <1>5. OwnKept
    BY <1>1 DEF OwnKept, EmptyState
  <1> QED
    BY <1>1, <1>2, <1>4, <1>5 DEF FailInv, UndoKept, OnItsWay, TipChainIsValid

\* The two invariants hold in every state.
LEMMA FailInvariants ==
    ASSUME HeightZeroIsGenesis, FreshCoins, AllCommitted, OwnCoinbases, ShallowFaults,
           Maturity # 0
    PROVE  Spec => [](StoreTree /\ FailInv)
  <1>1. Init => StoreTree
    BY TInvInit DEF Init, StoreTree, HInv, WInv, HeadsForBest
  <1>2. StoreTree /\ [Next]_vars => StoreTree'
    BY TInvStep, HInvStep, WInvStep, HeadsForBestStep DEF StoreTree
  <1> QED
    BY <1>1, <1>2, FailInvInit, FailInvStep, PTL DEF Spec

\* Whatever invalid blocks arrive, and wherever a reorganisation onto them fails
\* and is never undone: every block of the active chain spends only what its own
\* chain left unspent and mature.  What keeps a later branch off the remains of
\* a failed one is the state root of its first block, as long as every header has
\* one, and as long as the remains are not so deep that nothing tells them from
\* the chain they are taken for.
THEOREM TipChainCorrect ==
    ASSUME HeightZeroIsGenesis, FreshCoins, AllCommitted, OwnCoinbases, ShallowFaults,
           Maturity # 0
    PROVE  Spec => []TipChainIsValid
  <1>1. FailInv => TipChainIsValid
    BY DEF FailInv
  <1> QED
    BY <1>1, FailInvariants, PTL

\* So does the tip move only to a better block whose whole chain is applied,
\* however many branches failed before.
THEOREM TipImprovesAnyway ==
    ASSUME HeightZeroIsGenesis, FreshCoins, AllCommitted, OwnCoinbases, ShallowFaults,
           Maturity # 0
    PROVE  Spec => TipOnlyImproves
  <1> DEFINE Improves == tip' # tip => /\ tip' = cur
                                       /\ Path[tip'] \subseteq applied
                                       /\ tip # Zero => Better(work, tip', tip)
  <1>1. StoreTree /\ FailInv /\ [Next]_vars => [Improves]_vars
    <2> SUFFICES ASSUME StoreTree, FailInv, Next, tip' # tip
                 PROVE  /\ tip' = cur
                        /\ Path[tip'] \subseteq applied
                        /\ tip # Zero => Better(work, tip', tip)
      OBVIOUS
    <2>1. Finish
      BY DEF Next, ReorgStep, Submit, Disconnect, Connect, ApplyBlock, SkipApplied, Abort, store
    <2>2. tip' = target /\ tip' = cur /\ pc # "idle"
      BY <2>1 DEF Finish
    <2>3. Path[tip'] \subseteq applied
      BY <2>1, <2>2, FinishesWhole DEF Applied
    <2>4. tip # Zero => tip \in DOMAIN work \ {target}
      BY <2>2 DEF StoreTree, TInv, TypeOK
    <2>5. IsBest(work, target)
      BY <2>2 DEF StoreTree, HeadsForBest
    <2> QED
      BY <2>2, <2>3, <2>4, <2>5 DEF IsBest
  <1> QED
    BY <1>1, FailInvariants, PTL DEF Spec, TipOnlyImproves

\* And when it moves, the unspent outputs and the maturity index are those of the
\* new chain again, and nothing else is marked as applied: a reorganisation that
\* succeeds repairs what a failed one left.
THEOREM SuccessRepairs ==
    ASSUME HeightZeroIsGenesis, FreshCoins, AllCommitted, OwnCoinbases, ShallowFaults,
           Maturity # 0
    PROVE  Spec => [][tip' # tip => /\ ledger' = Ledger[tip']
                                    /\ applied' \ {Zero} = Path[tip']]_vars
  <1> DEFINE Repairs == tip' # tip => /\ ledger' = Ledger[tip']
                                      /\ applied' \ {Zero} = Path[tip']
  <1>1. StoreTree /\ FailInv /\ [Next]_vars => [Repairs]_vars
    <2> SUFFICES ASSUME StoreTree, FailInv, Next, tip' # tip
                 PROVE  ledger' = Ledger[tip'] /\ applied' \ {Zero} = Path[tip']
      OBVIOUS
    <2>1. Finish
      BY DEF Next, ReorgStep, Submit, Disconnect, Connect, ApplyBlock, SkipApplied, Abort, store
    <2>2. tip' = target /\ ledger' = ledger /\ applied' = applied
      BY <2>1 DEF Finish
    <2> QED
      BY <2>1, <2>2, FinishesWhole DEF Applied
  <1> QED
    BY <1>1, FailInvariants, PTL DEF Spec

\* So no more is unspent on the active chain than its subsidies, with invalid
\* blocks and failed reorganisations too.
THEOREM SupplyAnyway ==
    ASSUME BlocksAreTheirTxs, PlainTxs,
           HeightZeroIsGenesis, FreshCoins, AllCommitted, OwnCoinbases, ShallowFaults,
           Maturity # 0
    PROVE  Spec => []Supply
  BY TipChainCorrect, SupplyBounded, PTL

(***************************************************************************)
(* A call of reorganize comes to its end, whatever blocks there are: it is *)
(* never without a step to take, and has fewer left after each one.        *)
(***************************************************************************)

\* The block that a call connects to, and what it has connected, are on the branch.
OnBranchInv ==
    pc # "idle" => /\ target \in blocks /\ ancestor \in Path[target] \cup {Zero}
                   /\ pc = "connect" => cur \in Path[target] \cup {Zero}

EndInv == TInv /\ WInv /\ OnBranchInv

\* The blocks still to roll back and those still to connect.
StepsLeft ==
    IF pc = "disconnect"
    THEN Cardinality(Path[cur] \ Path[ancestor]) + Cardinality(Path[target] \ Path[ancestor])
    ELSE Cardinality(Path[target] \ Path[cur])

\* Every chain has a first block.
LEMMA FirstOnPath ==
    ASSUME NEW n \in Block, IsFiniteSet(Path[n])
    PROVE  \E d \in Path[n] : Parent[d] = Zero
  <1> DEFINE Goal(m) == \E d \in Path[m] : Parent[d] = Zero
             Good == {T \in SUBSET Path[n] : \A m \in Block : Path[m] = T => Goal(m)}
  <1>1. ASSUME NEW T \in SUBSET Path[n], \A x \in T : T \ {x} \in Good
        PROVE  T \in Good
    <2> SUFFICES ASSUME NEW m \in Block, Path[m] = T
                 PROVE  \E d \in Path[m] : Parent[d] = Zero
      OBVIOUS
    <2>1. m \in T /\ Path[Parent[m]] = T \ {m} /\ Parent[m] \in Block \cup {Zero}
      BY PathOf
    <2>2. Parent[m] # Zero => Goal(Parent[m])
      BY <1>1, <2>1
    <2> QED
      BY <2>1, <2>2
  <1> HIDE DEF Good
  <1>2. Path[n] \in Good
    BY <1>1, SetInduction
  <1> QED
    BY <1>2 DEF Good

\* The chains of the store are finite.
LEMMA FiniteChains ==
    ASSUME EndInv, NEW x \in blocks \cup {Zero}
    PROVE  /\ x \in Block \cup {Zero} /\ IsFiniteSet(Path[x])
           /\ \A a \in Path[x] : a \in blocks
  <1>1. x \in Block \cup {Zero} /\ Path[Zero] = {}
    BY PathAssumption DEF EndInv, TInv, TypeOK
  <1> QED
    BY <1>1, FS_EmptySet DEF EndInv, TInv, PathsInStore, WInv

\* Every step keeps the call on the branch.
LEMMA OnBranchStep == EndInv /\ [Next]_vars => OnBranchInv'
  <1> SUFFICES ASSUME EndInv, [Next]_vars PROVE OnBranchInv'
    OBVIOUS
  <1>1. ASSUME NEW b \in Block, Submit(b) PROVE OnBranchInv'
    <2>1. PICK best \in blocks', c \in blocks' \cup {Zero} :
            IsBest(work', best) /\ StartReorg(best, c)
      BY <1>1 DEF Submit
    <2>2. c \in Path[best] \cup {Zero}
      BY <2>1 DEF StartReorg, IsCommonAncestor
    <2> QED
      BY <2>1, <2>2 DEF StartReorg, OnBranchInv
  <1>2. ASSUME Disconnect PROVE OnBranchInv'
    BY <1>2 DEF Disconnect, EndInv, OnBranchInv
  <1>3. ASSUME NEW b \in Block, Connect(b) PROVE OnBranchInv'
    BY <1>3 DEF Connect, ApplyBlock, OnBranch, EndInv, OnBranchInv
  <1>4. ASSUME NEW b \in Block, SkipApplied(b) PROVE OnBranchInv'
    BY <1>4 DEF SkipApplied, store, OnBranch, EndInv, OnBranchInv
  <1>5. ASSUME NEW b \in Block, Abort(b) PROVE OnBranchInv'
    BY <1>5 DEF Abort, OnBranchInv
  <1>6. ASSUME Finish PROVE OnBranchInv'
    BY <1>6 DEF Finish, OnBranchInv
  <1>7. CASE UNCHANGED vars
    BY <1>7 DEF vars, store, loop, EndInv, OnBranchInv
  <1> QED
    BY <1>1, <1>2, <1>3, <1>4, <1>5, <1>6, <1>7 DEF Next, ReorgStep

\* It holds in every state.
LEMMA EndInvariant == Spec => []EndInv
  <1>1. Init => EndInv
    BY TInvInit DEF Init, EndInv, WInv, OnBranchInv
  <1>2. EndInv /\ [Next]_vars => EndInv'
    BY TInvStep, WInvStep, OnBranchStep DEF EndInv
  <1> QED
    BY <1>1, <1>2, PTL DEF Spec

\* Between its first step and its last a call has always a next one: a block to
\* roll back, a block of the branch on top of where it stands, or the tip to set.
THEOREM ReorgGoesOn ==
    Spec => [](pc # "idle" => \/ pc = "disconnect" /\ cur \in Block
                              \/ pc = "connect" /\ cur = target
                              \/ pc = "connect" /\ \E b \in Block : OnBranch(b))
  <1> DEFINE GoesOn == \/ pc = "disconnect" /\ cur \in Block
                       \/ pc = "connect" /\ cur = target
                       \/ pc = "connect" /\ \E b \in Block : OnBranch(b)
  <1>1. EndInv => (pc # "idle" => GoesOn)
    <2> SUFFICES ASSUME EndInv, pc # "idle" PROVE GoesOn
      OBVIOUS
    <2>1. CASE pc = "disconnect"
      BY <2>1, DisconnectsBlock DEF EndInv, TInv
    <2>2. CASE pc = "connect" /\ cur # target
      <3>1. target \in blocks /\ cur \in Path[target] \cup {Zero}
        BY <2>2 DEF EndInv, OnBranchInv
      <3>2. target \in Block /\ IsFiniteSet(Path[target]) /\ Path[target] \subseteq Block
        BY <3>1, FiniteChains, PathOf DEF EndInv, TInv, TypeOK
      <3>3. \E b \in Path[target] : Parent[b] = cur
        BY <2>2, <3>1, <3>2, ChildOnPath, FirstOnPath
      <3> QED
        BY <2>2, <3>2, <3>3 DEF OnBranch
    <2> QED
      BY <2>1, <2>2 DEF EndInv, TInv, TypeOK
  <1> QED
    BY <1>1, EndInvariant, PTL

\* A block that is connected, or passed over, is one less to connect.
LEMMA OneLessToConnect ==
    ASSUME EndInv, pc = "connect", NEW b \in Block, OnBranch(b)
    PROVE  /\ Cardinality(Path[target] \ Path[cur]) \in Nat
           /\ Cardinality(Path[target] \ Path[b]) < Cardinality(Path[target] \ Path[cur])
  <1> DEFINE S == Path[target] \ Path[cur]
  <1>1. target \in blocks
    BY DEF EndInv, OnBranchInv
  <1>2. IsFiniteSet(S)
    BY <1>1, FiniteChains, FS_Subset
  <1>3. b \in S /\ Path[target] \ Path[b] = S \ {b}
    BY PathOf DEF OnBranch
  <1> HIDE DEF S
  <1>4. Cardinality(S) \in Nat /\ Cardinality(S \ {b}) = Cardinality(S) - 1
    BY <1>2, <1>3, FS_CardinalityType, FS_RemoveElement
  <1>5. Cardinality(S \ {b}) < Cardinality(S)
    BY <1>4
  <1> QED
    BY <1>3, <1>4, <1>5 DEF S

\* A block that is rolled back is one less to roll back.
LEMMA OneLessToRollBack ==
    ASSUME EndInv, pc = "disconnect"
    PROVE  /\ Cardinality(Path[cur] \ Path[ancestor]) \in Nat
           /\ Cardinality(Path[target] \ Path[ancestor]) \in Nat
           /\ Cardinality(Path[Parent[cur]] \ Path[ancestor]) \in Nat
           /\ Cardinality(Path[Parent[cur]] \ Path[ancestor])
                  < Cardinality(Path[cur] \ Path[ancestor])
  <1> DEFINE S == Path[cur] \ Path[ancestor]
             R == Path[target] \ Path[ancestor]
  <1>1. cur \in blocks /\ cur \in Block /\ target \in blocks
        /\ cur # ancestor /\ ancestor \in Path[cur] \cup {Zero}
    BY DisconnectsBlock DEF EndInv, TInv, OnBranchInv, AncestorBelow
  <1>2. IsFiniteSet(S) /\ IsFiniteSet(R)
    BY <1>1, FiniteChains, FS_Subset
  <1>3. cur \notin Path[ancestor]
    <2> SUFFICES ASSUME cur \in Path[ancestor] PROVE FALSE
      OBVIOUS
    <2>1. ancestor \in blocks /\ ancestor \in Path[cur]
      BY <1>1, FiniteChains, PathAssumption
    <2>2. IsFiniteSet(Path[cur]) /\ IsFiniteSet(Path[ancestor]) /\ ancestor \in Block
      BY <1>1, <2>1, FiniteChains, PathOf
    <2> QED
      BY <1>1, <2>1, <2>2, PathOrder
  <1>4. cur \in S /\ Path[Parent[cur]] \ Path[ancestor] = S \ {cur}
    BY <1>1, <1>3, PathOf
  <1> HIDE DEF S, R
  <1>5. /\ Cardinality(S) \in Nat /\ Cardinality(R) \in Nat
        /\ Cardinality(S \ {cur}) = Cardinality(S) - 1
    BY <1>2, <1>4, FS_CardinalityType, FS_RemoveElement
  <1>6. IsFiniteSet(S \ {cur})
    BY <1>2, FS_Subset
  <1>7. Cardinality(S \ {cur}) < Cardinality(S) /\ Cardinality(S \ {cur}) \in Nat
    BY <1>5, <1>6, FS_CardinalityType
  <1> QED
    BY <1>4, <1>5, <1>7 DEF S, R

\* Every step of a call is its last, or leaves it fewer: with ReorgGoesOn it ends, and
\* the node's lock is free again, whatever blocks there are.
THEOREM ReorgEnds ==
    Spec => [][pc # "idle" => \/ pc' = "idle"
                              \/ StepsLeft \in Nat /\ StepsLeft' < StepsLeft]_vars
  <1> DEFINE Ends == pc # "idle" => \/ pc' = "idle"
                                    \/ StepsLeft \in Nat /\ StepsLeft' < StepsLeft
  <1>1. EndInv /\ [Next]_vars => [Ends]_vars
    <2> SUFFICES ASSUME EndInv, Next, pc # "idle", pc' # "idle"
                 PROVE  StepsLeft \in Nat /\ StepsLeft' < StepsLeft
      OBVIOUS
    <2>1. ASSUME NEW b \in Block, Connect(b) \/ SkipApplied(b)
          PROVE  StepsLeft \in Nat /\ StepsLeft' < StepsLeft
      <3>1. /\ pc = "connect" /\ pc' = "connect" /\ OnBranch(b)
            /\ cur' = b /\ target' = target
        BY <2>1 DEF Connect, ApplyBlock, SkipApplied
      <3>2. /\ StepsLeft = Cardinality(Path[target] \ Path[cur])
            /\ StepsLeft' = Cardinality(Path[target] \ Path[b])
        BY <3>1 DEF StepsLeft
      <3> QED
        BY <3>1, <3>2, OneLessToConnect
    <2>2. ASSUME Disconnect PROVE StepsLeft \in Nat /\ StepsLeft' < StepsLeft
      <3> DEFINE here == Cardinality(Path[cur] \ Path[ancestor])
                 below == Cardinality(Path[Parent[cur]] \ Path[ancestor])
                 rest == Cardinality(Path[target] \ Path[ancestor])
      <3>1. /\ pc = "disconnect" /\ cur' = Parent[cur]
            /\ target' = target /\ ancestor' = ancestor
            /\ pc' = IF Parent[cur] = ancestor THEN "connect" ELSE "disconnect"
        BY <2>2 DEF Disconnect
      <3>2. here \in Nat /\ below \in Nat /\ rest \in Nat /\ below < here
        BY <3>1, OneLessToRollBack
      <3>3. StepsLeft = here + rest
        BY <3>1 DEF StepsLeft
      <3>4. Parent[cur] = ancestor => StepsLeft' = rest
        BY <3>1 DEF StepsLeft
      <3>5. Parent[cur] # ancestor => StepsLeft' = below + rest
        BY <3>1 DEF StepsLeft
      <3> HIDE DEF here, below, rest
      <3> QED
        BY <3>2, <3>3, <3>4, <3>5
    <2> QED
      BY <2>1, <2>2 DEF Next, ReorgStep, Submit, Abort, Finish
  <1> QED
    BY <1>1, EndInvariant, PTL DEF Spec

=============================================================================
