-------------------------- MODULE NodeChain_proofs --------------------------
(***************************************************************************)
(* Proofs about NodeChain: the node's variables, what happens to the       *)
(* transactions it is handed, and what its miner works on, for every world *)
(* of blocks and transactions.                                             *)
(***************************************************************************)
EXTENDS NodeChain, ChainState_proofs

(***************************************************************************)
(* The transactions that valid_mempool_txs keeps.                          *)
(***************************************************************************)

\* The function by which TemplateTxs is defined, on 0..n.
KeepsTo(g, n) == g = [i \in 0..n |-> IF i = 0 THEN {} ELSE Keep(g[i - 1], mempool[i])]

\* It exists.
LEMMA KeepsExist == \A n \in Nat : \E g : KeepsTo(g, n)
  <1> DEFINE Good == {n \in Nat : \E g : KeepsTo(g, n)}
  <1>1. 0 \in Good
    <2>1. KeepsTo([i \in 0..0 |-> {}], 0)
      BY DEF KeepsTo
    <2> QED
      BY <2>1
  <1>2. ASSUME NEW n \in Nat, n \in Good PROVE n + 1 \in Good
    <2>1. PICK g : KeepsTo(g, n)
      BY <1>2
    <2> DEFINE last == Keep(g[n], mempool[n + 1])
               h == [i \in 0..(n + 1) |-> IF i = n + 1 THEN last ELSE g[i]]
    <2>2. ASSUME NEW i \in 0..(n + 1)
          PROVE  h[i] = IF i = 0 THEN {} ELSE Keep(h[i - 1], mempool[i])
      <3>1. \A j \in 0..n : /\ h[j] = g[j]
                            /\ g[j] = IF j = 0 THEN {} ELSE Keep(g[j - 1], mempool[j])
        <4>1. \A j \in 0..n : g[j] = IF j = 0 THEN {} ELSE Keep(g[j - 1], mempool[j])
          BY <2>1 DEF KeepsTo
        <4>2. \A j \in 0..n : j \in 0..(n + 1) /\ j # n + 1
          OBVIOUS
        <4> HIDE DEF last
        <4>3. \A j \in 0..n : h[j] = g[j]
          BY <4>2
        <4> HIDE DEF h
        <4> QED
          BY <4>1, <4>3
      <3>2. h[n + 1] = Keep(h[n], mempool[n + 1])
        BY <3>1
      <3>3. (n + 1) - 1 = n /\ n + 1 # 0
        OBVIOUS
      <3>4. i = n + 1 \/ (i \in 0..n /\ (i = 0 \/ i - 1 \in 0..n))
        OBVIOUS
      <3> HIDE DEF h
      <3> QED
        BY <3>1, <3>2, <3>3, <3>4
    <2>3. KeepsTo(h, n + 1)
      <3>1. h = [i \in 0..(n + 1) |-> h[i]]
        OBVIOUS
      <3> HIDE DEF h
      <3> QED
        BY <2>2, <3>1 DEF KeepsTo
    <2> QED
      BY <2>3
  <1> HIDE DEF Good
  <1>3. \A n \in Nat : n \in Good
    BY <1>1, <1>2, NatSetInduction
  <1> QED
    BY <1>3 DEF Good

\* Transactions that validate and claim no output twice.
Compatible(kept) ==
    /\ kept \subseteq Tx
    /\ \A t \in kept : TxOK(t)
    /\ \A t, u \in kept : t # u => Inputs[t] \cap Inputs[u] = {}

\* One more transaction of the mempool leaves them so.
LEMMA KeepCompatible ==
    ASSUME NEW kept, Compatible(kept), NEW t \in Tx
    PROVE  Compatible(Keep(kept, t))
  BY DEF Compatible, Keep

\* A template holds transactions of the mempool that validate and claim no
\* output twice.
THEOREM TemplateCompatible ==
    ASSUME mempool \in Seq(Tx)
    PROVE  Compatible(TemplateTxs)
  <1> DEFINE g == CHOOSE h : KeepsTo(h, Len(mempool))
             Good == {n \in Nat : n <= Len(mempool) => Compatible(g[n])}
  <1>1. Len(mempool) \in Nat
    OBVIOUS
  <1>2. KeepsTo(g, Len(mempool))
    BY <1>1, KeepsExist
  <1>3. TemplateTxs = g[Len(mempool)]
    BY DEF TemplateTxs, KeepsTo
  <1> HIDE DEF g
  <1>4. 0 \in Good
    <2>1. g[0] = {}
      BY <1>1, <1>2 DEF KeepsTo
    <2> QED
      BY <2>1 DEF Compatible
  <1>5. ASSUME NEW n \in Nat, n \in Good PROVE n + 1 \in Good
    <2>1. SUFFICES ASSUME n + 1 <= Len(mempool) PROVE Compatible(g[n + 1])
      OBVIOUS
    <2>2. n <= Len(mempool) /\ n + 1 \in 0..Len(mempool) /\ n + 1 # 0 /\ (n + 1) - 1 = n
      BY <1>1, <2>1
    <2>3. g[n + 1] = Keep(g[n], mempool[n + 1])
      BY <1>2, <2>2 DEF KeepsTo
    <2>4. mempool[n + 1] \in Tx
      BY <1>1, <2>1
    <2> QED
      BY <1>5, <2>2, <2>3, <2>4, KeepCompatible
  <1> HIDE DEF Good
  <1>6. Len(mempool) \in Good
    BY <1>1, <1>4, <1>5, NatSetInduction
  <1> QED
    BY <1>1, <1>3, <1>6 DEF Good

(***************************************************************************)
(* The steps of the node are steps of the chain, or leave it alone.        *)
(***************************************************************************)

\* The node's steps, with those that touch the chain apart.
LEMMA NodeSteps ==
    [NodeNext]_nodeVars =>
        \/ \E b \in Block : Submit(b) /\ (b \in NetBlocks \/ SubmitMined(b))
        \/ ReorgStep
        \/ UNCHANGED vars
  <1> SUFFICES ASSUME [NodeNext]_nodeVars
               PROVE  \/ \E b \in Block : Submit(b) /\ (b \in NetBlocks \/ SubmitMined(b))
                      \/ ReorgStep
                      \/ UNCHANGED vars
    OBVIOUS
  <1>1. CASE RelayBlock
    BY <1>1, NodeAssumption DEF RelayBlock, AcceptBlock
  <1>2. CASE Reorganise
    BY <1>2 DEF Reorganise
  <1>3. CASE AcceptReturn
    BY <1>3 DEF AcceptReturn, vars
  <1>4. CASE \E t \in Tx : RelayTx(t)
    BY <1>4 DEF RelayTx, AcceptTx, vars
  <1>5. CASE \E t \in LocalTx : SendTx(t) \/ BroadcastRawTx(t) \/ LoadTx(t)
    BY <1>5 DEF SendTx, BroadcastRawTx, LoadTx, AcceptTx, vars
  <1>6. CASE DeleteTxFile \/ MakeTemplate \/ DropTemplate
    BY <1>6 DEF DeleteTxFile, MakeTemplate, DropTemplate, vars
  <1>7. CASE \E b \in Block : SubmitMined(b)
    BY <1>7 DEF SubmitMined
  <1>8. CASE UNCHANGED nodeVars
    BY <1>8 DEF nodeVars, vars
  <1> QED
    BY <1>1, <1>2, <1>3, <1>4, <1>5, <1>6, <1>7, <1>8 DEF NodeNext

\* Every step of the node is one of the chain, or none.
LEMMA NodeStepsChain == [NodeNext]_nodeVars => [Next]_vars
  BY NodeSteps DEF Next

(***************************************************************************)
(* Types.  reorganize only runs while an accept_block holds the lock, so   *)
(* the node's tip is the store's whenever the lock is free.                *)
(***************************************************************************)

ReorgHoldsLock == Unlocked => pc = "idle"

\* The template in its type, with the blocks it may name.
Templates(known) == [prev : known \cup {Zero}, height : Nat, txs : SUBSET Tx, set : BOOLEAN]

\* The parts of NodeTypeOK that are not the chain's, over their values.
PoolTypes == knownTxs \subseteq Tx /\ mempool \in Seq(Tx) /\ Len(mempool) <= MaxMempool
DirTypes ==
    /\ txFiles \subseteq LocalTx
    /\ sweeping \subseteq txFiles /\ Cardinality(sweeping) <= 1
    /\ sent \subseteq LocalTx
TipTypes ==
    /\ knownBlocks \subseteq blocks
    /\ serving \in blocks \cup {NoBlock}
    /\ Unlocked => nodeTip = tip
    /\ template \in Templates(blocks)

NodeTypes == PoolTypes /\ DirTypes /\ TipTypes /\ ReorgHoldsLock

\* With the chain's they are NodeTypeOK.
LEMMA NodeTypesAreTypes == TypeOK /\ NodeTypes => NodeTypeOK
  BY DEF NodeTypes, PoolTypes, DirTypes, TipTypes, Templates, NodeTypeOK

\* More blocks allow more templates.
LEMMA TemplatesGrow ==
    \A known, more : known \subseteq more => Templates(known) \subseteq Templates(more)
  BY DEF Templates

\* A filter over the mempool keeps it a mempool.
LEMMA SelectedPool ==
    ASSUME PoolTypes, NEW S
    PROVE  Selected(mempool, S) \in Seq(Tx) /\ Len(Selected(mempool, S)) <= MaxMempool
  <1>1. Selected(mempool, S) \in Seq(Tx) /\ Len(Selected(mempool, S)) <= Len(mempool)
    BY SelectedProperties DEF PoolTypes
  <1>2. Len(Selected(mempool, S)) \in Nat /\ Len(mempool) \in Nat
    BY <1>1 DEF PoolTypes
  <1> QED
    BY <1>1, <1>2, NodeAssumption DEF PoolTypes

\* An accepted transaction joins the mempool at its end, and not a full one.
LEMMA AcceptTxPool ==
    ASSUME PoolTypes, NEW t \in Tx, AcceptTx(t)
    PROVE  PoolTypes'
  <1>1. knownTxs' \subseteq Tx
    BY DEF AcceptTx, PoolTypes, Remember
  <1>2. mempool' \in Seq(Tx) /\ Len(mempool') = Len(mempool) + 1 /\ Len(mempool) \in Nat
    BY DEF AcceptTx, PoolTypes
  <1>3. Len(mempool) < MaxMempool
    BY DEF AcceptTx
  <1> QED
    BY <1>1, <1>2, <1>3, NodeAssumption DEF PoolTypes

\* Every step keeps the types of the mempool.
LEMMA PoolTypesStep == PoolTypes /\ [NodeNext]_nodeVars => PoolTypes'
  <1> SUFFICES ASSUME PoolTypes, [NodeNext]_nodeVars PROVE PoolTypes'
    OBVIOUS
  <1>1. CASE UNCHANGED pool
    BY <1>1 DEF pool, PoolTypes
  <1>2. ASSUME NEW t \in Tx, AcceptTx(t) PROVE PoolTypes'
    BY <1>2, AcceptTxPool
  <1>3. CASE AcceptReturn
    BY <1>3, SelectedPool DEF AcceptReturn, PoolTypes
  <1>4. CASE \E t \in LocalTx : SendTx(t) \/ BroadcastRawTx(t) \/ LoadTx(t)
    BY <1>1, <1>2, <1>4, NodeAssumption DEF SendTx, BroadcastRawTx, LoadTx
  <1>5. CASE \E t \in Tx : RelayTx(t)
    BY <1>2, <1>5 DEF RelayTx
  <1>6. CASE RelayBlock \/ Reorganise \/ DeleteTxFile \/ MakeTemplate \/ DropTemplate
    BY <1>1, <1>6 DEF RelayBlock, AcceptBlock, Reorganise, DeleteTxFile, MakeTemplate, DropTemplate
  <1>7. CASE \E b \in Block : SubmitMined(b)
    BY <1>1, <1>7 DEF SubmitMined
  <1>8. CASE UNCHANGED nodeVars
    BY <1>1, <1>8 DEF nodeVars
  <1> QED
    BY <1>3, <1>4, <1>5, <1>6, <1>7, <1>8 DEF NodeNext

\* Every step keeps the types of the directory.
LEMMA DirTypesStep == DirTypes /\ [NodeNext]_nodeVars => DirTypes'
  <1> SUFFICES ASSUME DirTypes, [NodeNext]_nodeVars PROVE DirTypes'
    OBVIOUS
  <1>0. /\ Cardinality({}) <= 1
        /\ \A t \in LocalTx : Cardinality({t}) <= 1
    BY FS_EmptySet, FS_Singleton
  <1>1. CASE UNCHANGED dir
    BY <1>1 DEF dir, DirTypes
  <1>2. ASSUME NEW t \in LocalTx, SendTx(t) \/ BroadcastRawTx(t) \/ LoadTx(t) PROVE DirTypes'
    BY <1>0, <1>2 DEF SendTx, BroadcastRawTx, LoadTx, DirTypes
  <1>3. CASE DeleteTxFile
    BY <1>0, <1>3 DEF DeleteTxFile, DirTypes
  <1>4. CASE RelayBlock \/ Reorganise \/ AcceptReturn \/ MakeTemplate \/ DropTemplate
    BY <1>1, <1>4 DEF RelayBlock, AcceptBlock, Reorganise, AcceptReturn, MakeTemplate, DropTemplate
  <1>5. CASE \E t \in Tx : RelayTx(t)
    BY <1>1, <1>5 DEF RelayTx
  <1>6. CASE \E b \in Block : SubmitMined(b)
    BY <1>1, <1>6 DEF SubmitMined
  <1>7. CASE UNCHANGED nodeVars
    BY <1>1, <1>7 DEF nodeVars
  <1> QED
    BY <1>2, <1>3, <1>4, <1>5, <1>6, <1>7 DEF NodeNext

\* A handler that runs with the lock and leaves the chain alone.
Handler ==
    \/ \E t \in Tx : RelayTx(t)
    \/ \E t \in LocalTx : SendTx(t) \/ BroadcastRawTx(t) \/ LoadTx(t)
    \/ DeleteTxFile

\* What none of them touches.
LEMMA HandlerKeeps ==
    Handler => UNCHANGED <<store, pc, loop, knownBlocks, nodeTip, serving, template>>
  BY DEF Handler, RelayTx, SendTx, BroadcastRawTx, LoadTx, AcceptTx, DeleteTxFile

\* A step of reorganize leaves the recorded blocks alone, and runs until pc is
\* idle again.
LEMMA ReorgKeeps == ReorgStep => blocks' = blocks /\ pc # "idle"
  BY DEF ReorgStep, Disconnect, Connect, SkipApplied, Abort, Finish, store

\* A submitted block is recorded, and the tip stays for now.
LEMMA SubmitKeeps ==
    \A b \in Block : Submit(b) => /\ blocks' = blocks \cup {b} /\ tip' = tip
                                  /\ ledger' = ledger /\ pc = "idle"
  BY DEF Submit, Record

\* Every step keeps the types of the tips, of the template and of the lock.
LEMMA TipTypesStep ==
    TInv /\ NodeTypes /\ [NodeNext]_nodeVars => TipTypes' /\ ReorgHoldsLock'
  <1> SUFFICES ASSUME TInv, NodeTypes, [NodeNext]_nodeVars PROVE TipTypes' /\ ReorgHoldsLock'
    OBVIOUS
  <1> USE DEF NodeTypes
  <1>1. ASSUME NEW b \in Block, Submit(b), serving' = b, UNCHANGED <<knownBlocks, nodeTip>>,
               template' \in {template, NoTemplate}
        PROVE  TipTypes' /\ ReorgHoldsLock'
    <2>1. blocks \subseteq blocks' /\ b \in blocks'
      BY <1>1, SubmitKeeps
    <2>2. b # NoBlock
      BY <1>1, TreeAssumption DEF NoBlock
    <2>3. template' \in Templates(blocks')
      <3>1. NoTemplate \in Templates(blocks)
        BY DEF NoTemplate, Templates
      <3>2. template' \in Templates(blocks)
        BY <1>1, <3>1 DEF TipTypes
      <3> QED
        BY <2>1, <3>2, TemplatesGrow
    <2> QED
      BY <1>1, <2>1, <2>2, <2>3 DEF TipTypes, ReorgHoldsLock, Unlocked
  <1>2. CASE RelayBlock
    BY <1>1, <1>2, NodeAssumption DEF RelayBlock, AcceptBlock
  <1>3. CASE \E b \in Block : SubmitMined(b)
    BY <1>1, <1>3 DEF SubmitMined
  <1>4. CASE Reorganise
    BY <1>4, ReorgKeeps DEF Reorganise, TipTypes, ReorgHoldsLock, Unlocked
  <1>5. CASE AcceptReturn
    BY <1>5 DEF AcceptReturn, store, TipTypes, ReorgHoldsLock, Unlocked, Remember
  <1>6. CASE Handler
    BY <1>6, HandlerKeeps DEF store, TipTypes, ReorgHoldsLock, Unlocked
  <1>7. CASE MakeTemplate
    <2>1. nodeTip \in blocks \cup {Zero} /\ NextHeight \in Nat
      BY <1>7, TreeAssumption DEF MakeTemplate, TipTypes, TInv, TypeOK, NextHeight
    <2>2. TemplateTxs \in SUBSET Tx
      BY TemplateCompatible DEF Compatible, PoolTypes
    <2>3. template' \in Templates(blocks)
      BY <1>7, <2>1, <2>2 DEF MakeTemplate, Templates
    <2> QED
      BY <1>7, <2>3 DEF MakeTemplate, store, TipTypes, ReorgHoldsLock, Unlocked
  <1>8. CASE DropTemplate
    <2>1. template' \in Templates(blocks)
      BY <1>8 DEF DropTemplate, NoTemplate, Templates
    <2> QED
      BY <1>8, <2>1 DEF DropTemplate, store, TipTypes, ReorgHoldsLock, Unlocked
  <1>9. CASE UNCHANGED nodeVars
    BY <1>9 DEF nodeVars, store, TipTypes, ReorgHoldsLock, Unlocked
  <1> QED
    BY <1>2, <1>3, <1>4, <1>5, <1>6, <1>7, <1>8, <1>9 DEF NodeNext, Handler

\* The chain's invariant of types and the node's own.
NInv == TInv /\ NodeTypes

\* It holds at the start.
LEMMA NInvInit == NodeInit => NInv
  <1> SUFFICES ASSUME NodeInit PROVE NInv
    OBVIOUS
  <1>1. TInv /\ blocks = {} /\ tip = Zero /\ pc = "idle"
    BY TInvInit DEF NodeInit, Init
  <1>2. Cardinality({}) <= 1
    BY FS_EmptySet
  <1>3. PoolTypes
    BY NodeAssumption DEF NodeInit, PoolTypes
  <1> QED
    BY <1>1, <1>2, <1>3
    DEF NodeInit, NInv, NodeTypes, DirTypes, TipTypes, ReorgHoldsLock, Templates, NoTemplate,
        NoBlock

\* Every step keeps it.
LEMMA NInvStep == NInv /\ [NodeNext]_nodeVars => NInv'
  BY TInvStep, NodeStepsChain, PoolTypesStep, DirTypesStep, TipTypesStep DEF NInv, NodeTypes

\* The node's variables have their types, and its tip is the store's whenever
\* the lock is free: whatever blocks and transactions there are.
THEOREM NodeTypesCorrect == NodeSpec => []NodeTypeOK
  <1>1. NInv => NodeTypeOK
    BY NodeTypesAreTypes DEF NInv, TInv
  <1> QED
    BY <1>1, NInvInit, NInvStep, PTL DEF NodeSpec

(***************************************************************************)
(* What the miner works on.  The ledger is the replay of the tip's chain   *)
(* while the lock is free, because every recorded block is valid: a peer's *)
(* is by assumption, a mined one because its template was.                 *)
(***************************************************************************)

\* What the mempool offers for a block on the tip is what a block may hold.
LEMMA TemplateKeepsRules ==
    ASSUME NInv, LInv, AssembleKeepsRules, Unlocked,
           NEW b \in Assembled \cap Block,
           Parent[b] = nodeTip, Height[b] = NextHeight, TxsOf[b] = TemplateTxs
    PROVE  Valid(Ledger[Parent[b]], b)
  <1>1. Compatible(TxsOf[b])
    BY TemplateCompatible DEF NInv, NodeTypes, PoolTypes
  <1>2. ledger = Ledger[Parent[b]]
    BY DEF NInv, NodeTypes, TipTypes, ReorgHoldsLock, LInv
  <1>3. Spends[b] = UNION {Inputs[t] : t \in TxsOf[b]}
    BY DEF AssembleKeepsRules
  <1>4. \A c \in Spends[b] : \E t \in TxsOf[b] : c \in Inputs[t] /\ TxOK(t)
    BY <1>1, <1>3 DEF Compatible
  <1>5. ValueOK[b]
    <2>1. \A c \in Spends[b] : ScriptLen[c] = 20
      BY <1>4 DEF TxOK
    <2> QED
      BY <1>1, <2>1 DEF Compatible, AssembleKeepsRules
  <1>6. Spends[b] \subseteq ledger.utxo
    BY <1>4 DEF TxOK
  <1>7. Mature(ledger, b)
    <2> SUFFICES ASSUME NEW e \in EntriesOf(Spends[b], ledger.coinbase)
                 PROVE  Height[b] >= e[2] + Maturity
      BY DEF Mature
    <2>1. PICK t \in TxsOf[b] : e[1] \in Inputs[t] /\ TxOK(t)
      BY <1>4 DEF EntriesOf
    <2>2. e \in EntriesOf(Inputs[t], ledger.coinbase)
      BY <2>1 DEF EntriesOf
    <2> QED
      BY <2>1, <2>2 DEF TxOK
  <1>8. RootMatches(Ledger[Parent[b]], b)
    BY DEF RootMatches, BlockStateRoot
  <1> QED
    BY <1>2, <1>5, <1>6, <1>7, <1>8 DEF Valid

\* The invariant: the chain's, and the template's.
MInv == NInv /\ LInv /\ RecordedValid /\ TemplateIsValid

\* Every step keeps the recorded blocks valid.
LEMMA RecordedValidStep ==
    ASSUME PeersSendValid
    PROVE  MInv /\ [NodeNext]_nodeVars => RecordedValid'
  <1> SUFFICES ASSUME MInv, [NodeNext]_nodeVars PROVE RecordedValid'
    OBVIOUS
  <1>1. CASE \E b \in Block : Submit(b) /\ (b \in NetBlocks \/ SubmitMined(b))
    <2>1. PICK b \in Block : Submit(b) /\ (b \in NetBlocks \/ SubmitMined(b))
      BY <1>1
    <2>2. Valid(Ledger[Parent[b]], b)
      BY <2>1 DEF PeersSendValid, SubmitMined, MInv, TemplateIsValid
    <2> QED
      BY <2>1, <2>2, SubmitKeeps DEF MInv, RecordedValid
  <1>2. CASE ReorgStep
    BY <1>2, ReorgKeeps DEF MInv, RecordedValid
  <1>3. CASE UNCHANGED vars
    BY <1>3 DEF MInv, RecordedValid, vars, store
  <1> QED
    BY <1>1, <1>2, <1>3, NodeSteps

\* Every step keeps the template valid.
LEMMA TemplateValidStep ==
    ASSUME AssembleKeepsRules
    PROVE  MInv /\ [NodeNext]_nodeVars => TemplateIsValid'
  <1> SUFFICES ASSUME MInv, [NodeNext]_nodeVars PROVE TemplateIsValid'
    OBVIOUS
  <1>1. CASE UNCHANGED template
    BY <1>1 DEF MInv, TemplateIsValid
  <1>2. CASE template' = NoTemplate
    BY <1>2 DEF TemplateIsValid, NoTemplate
  <1>3. CASE MakeTemplate
    <2> SUFFICES ASSUME NEW b \in Block, IsMined(b, template') PROVE Valid(Ledger[Parent[b]], b)
      BY DEF TemplateIsValid
    <2>1. /\ b \in Assembled /\ Parent[b] = nodeTip /\ Height[b] = NextHeight
          /\ TxsOf[b] = TemplateTxs
      BY <1>3 DEF MakeTemplate, IsMined
    <2> QED
      BY <1>3, <2>1, TemplateKeepsRules DEF MakeTemplate, MInv
  <1>4. CASE RelayBlock \/ Reorganise \/ AcceptReturn
    BY <1>1, <1>4 DEF RelayBlock, AcceptBlock, Reorganise, AcceptReturn
  <1>5. CASE Handler
    BY <1>1, <1>5, HandlerKeeps
  <1>6. CASE DropTemplate \/ \E b \in Block : SubmitMined(b)
    BY <1>2, <1>6 DEF DropTemplate, SubmitMined
  <1>7. CASE UNCHANGED nodeVars
    BY <1>1, <1>7 DEF nodeVars
  <1> QED
    BY <1>3, <1>4, <1>5, <1>6, <1>7 DEF NodeNext, Handler

\* The invariant holds in every state.
LEMMA MInvariant ==
    ASSUME FreshCoins, PeersSendValid, AssembleKeepsRules
    PROVE  NodeSpec => []MInv
  <1>1. NodeInit => MInv
    <2>1. NodeInit => LInv /\ RecordedValid /\ TemplateIsValid
      BY LInvInit DEF NodeInit, Init, RecordedValid, TemplateIsValid, NoTemplate
    <2> QED
      BY <2>1, NInvInit DEF MInv
  <1>2. MInv /\ [NodeNext]_nodeVars => LInv'
    BY LInvStep, NodeStepsChain DEF MInv, NInv
  <1>3. MInv /\ [NodeNext]_nodeVars => MInv'
    BY <1>2, NInvStep, RecordedValidStep, TemplateValidStep DEF MInv
  <1> QED
    BY <1>1, <1>3, PTL DEF NodeSpec

\* Whatever the mempool holds and wherever the chain has moved since, the block
\* the miner works on is valid on its own chain: valid_mempool_txs leaves out
\* what conflicts, what is spent and what is not mature.
THEOREM MinedBlockIsValid ==
    ASSUME FreshCoins, PeersSendValid, AssembleKeepsRules
    PROVE  NodeSpec => []TemplateIsValid
  <1>1. MInv => TemplateIsValid
    BY DEF MInv
  <1> QED
    BY <1>1, MInvariant, PTL

(***************************************************************************)
(* What becomes of a transaction.  A file is deleted only while its        *)
(* transaction is in the mempool or in a block already, and the mempool    *)
(* lets go only of what the block that was just accepted has.              *)
(***************************************************************************)

\* A recorded block has it.
InABlock(t) == \E b \in blocks : t \in TxsOf[b]

Accounted ==
    /\ \A t \in knownTxs \cup sent : t \in Range(mempool) \cup txFiles \/ InABlock(t)
    /\ \A t \in sweeping : t \in Range(mempool) \/ InABlock(t)

\* The elements that a filter lets through are still there.
LEMMA SelectedRange ==
    ASSUME NEW X, NEW s \in Seq(X), NEW S
    PROVE  \A t \in Range(s) \cap S : t \in Range(Selected(s, S))
  <1> DEFINE kept == Selected(s, S)
  <1>1. kept \in Seq(X) /\ Covers(kept, s, S, Len(s))
    BY SelectedProperties
  <1> HIDE DEF kept
  <1> SUFFICES ASSUME NEW t \in Range(s) \cap S PROVE t \in Range(kept)
    BY DEF kept
  <1>2. PICK i \in 1..Len(s) : s[i] = t
    BY DEF Range
  <1>3. PICK k \in 1..Len(kept) : kept[k] = t
    BY <1>1, <1>2 DEF Covers
  <1> QED
    BY <1>1, <1>3 DEF Range

\* An accepted transaction is in the mempool, with the ones before it.
LEMMA AcceptTxKeeps ==
    ASSUME NInv, NEW t \in Tx, AcceptTx(t)
    PROVE  /\ Range(mempool') = Range(mempool) \cup {t}
           /\ knownTxs' \subseteq knownTxs \cup {t}
           /\ blocks' = blocks
  <1>1. mempool \in Seq(Tx)
    BY DEF NInv, NodeTypes, PoolTypes
  <1>2. /\ Len(mempool') = Len(mempool) + 1 /\ mempool'[Len(mempool) + 1] = t
        /\ \A i \in 1..Len(mempool) : mempool'[i] = mempool[i]
        /\ mempool' \in Seq(Tx) /\ Len(mempool) \in Nat
    BY <1>1 DEF AcceptTx
  <1>3. \A i \in 1..(Len(mempool) + 1) : i \in 1..Len(mempool) \/ i = Len(mempool) + 1
    BY <1>2
  <1>4. Range(mempool') = Range(mempool) \cup {t}
    BY <1>1, <1>2, <1>3 DEF Range
  <1> QED
    BY <1>4 DEF AcceptTx, Remember, store

\* Every step keeps every transaction accounted for.
LEMMA AccountedStep == NInv /\ Accounted /\ [NodeNext]_nodeVars => Accounted'
  <1> SUFFICES ASSUME NInv, Accounted, [NodeNext]_nodeVars PROVE Accounted'
    OBVIOUS
  <1>1. ASSUME blocks \subseteq blocks', UNCHANGED <<pool, dir>> PROVE Accounted'
    BY <1>1 DEF Accounted, InABlock, pool, dir
  <1>2. CASE RelayBlock \/ \E b \in Block : SubmitMined(b)
    BY <1>1, <1>2, SubmitKeeps, NodeAssumption DEF RelayBlock, AcceptBlock, SubmitMined
  <1>3. CASE Reorganise
    BY <1>1, <1>3, ReorgKeeps DEF Reorganise
  <1>4. CASE MakeTemplate \/ DropTemplate
    BY <1>1, <1>4 DEF MakeTemplate, DropTemplate, store
  <1>5. CASE AcceptReturn
    <2>1. /\ serving \in blocks /\ blocks' = blocks /\ UNCHANGED <<knownTxs, dir>>
          /\ mempool' = Selected(mempool, Tx \ TxsOf[serving])
      BY <1>5 DEF AcceptReturn, NInv, NodeTypes, TipTypes, store
    <2>2. mempool \in Seq(Tx)
      BY DEF NInv, NodeTypes, PoolTypes
    <2>3. \A t \in Range(mempool) : t \in Tx
      BY <2>2 DEF Range
    <2>4. \A t \in Range(mempool) : t \in Range(mempool') \/ InABlock(t)'
      BY <2>1, <2>2, <2>3, SelectedRange DEF InABlock
    <2>5. \A t : InABlock(t) <=> InABlock(t)'
      BY <2>1 DEF InABlock
    <2> QED
      BY <2>1, <2>4, <2>5 DEF Accounted, dir
  <1>6. ASSUME NEW t \in Tx, AcceptTx(t),
               txFiles \subseteq txFiles',
               sent' \subseteq sent \cup {t}, sweeping' \subseteq sweeping \cup {t}
        PROVE  Accounted'
    <2>1. \A u : InABlock(u) <=> InABlock(u)'
      BY <1>6, AcceptTxKeeps DEF InABlock
    <2> QED
      BY <1>6, <2>1, AcceptTxKeeps DEF Accounted
  <1>7. ASSUME NEW t \in LocalTx, SendTx(t) PROVE Accounted'
    BY <1>7 DEF SendTx, Accounted, InABlock, pool, store
  <1>8. ASSUME NEW t \in LocalTx, BroadcastRawTx(t) \/ LoadTx(t) PROVE Accounted'
    BY <1>6, <1>8, NodeAssumption DEF BroadcastRawTx, LoadTx
  <1>9. ASSUME NEW t \in Tx, RelayTx(t) PROVE Accounted'
    BY <1>6, <1>9 DEF RelayTx, dir
  <1>10. CASE DeleteTxFile
    BY <1>10 DEF DeleteTxFile, Accounted, InABlock, pool, store
  <1>11. CASE UNCHANGED nodeVars
    BY <1>1, <1>11 DEF nodeVars, store
  <1> QED
    BY <1>2, <1>3, <1>4, <1>5, <1>7, <1>8, <1>9, <1>10, <1>11 DEF NodeNext

\* A transaction that the node has accepted, or a wallet has handed to it, is
\* in the mempool or in its file, or a block that the node has recorded has it:
\* whatever blocks come, and whatever comes between a sweep's accepting a
\* file's transaction and its deleting the file.
THEOREM TransactionsKept == NodeSpec => []LostOnlyToABlock
  <1>1. NodeInit => Accounted
    BY DEF NodeInit, Accounted
  <1>2. Accounted => LostOnlyToABlock
    BY DEF Accounted, InABlock, LostOnlyToABlock
  <1> QED
    BY <1>1, <1>2, NInvInit, NInvStep, AccountedStep, PTL DEF NodeSpec
=============================================================================
