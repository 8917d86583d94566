--------------------------- MODULE FileStore_proofs ---------------------------
(***************************************************************************)
(* Theorems about FileStore, for every set of blocks and every tree.       *)
(***************************************************************************)
EXTENDS FileStore, DataTheorems

(***************************************************************************)
(* Paths.                                                                  *)
(***************************************************************************)

\* What the tree says of a block.
LEMMA PathOf ==
    ASSUME NEW b \in Block
    PROVE  /\ Parent[b] \in Block \cup {Zero} /\ Height[b] \in Nat /\ b # Zero
           /\ Path[b] = Path[Parent[b]] \cup {b} /\ b \notin Path[Parent[b]]
           /\ Path[b] \subseteq Block /\ b \in Path[b] /\ Path[Zero] = {}
           /\ Path[Parent[b]] = Path[b] \ {b}
  BY TreeAssumption, PathAssumption

\* The ancestors of an ancestor are ancestors, and of two ancestors one is
\* above the other.
LEMMA PathIsChain ==
    ASSUME NEW n \in Block, IsFiniteSet(Path[n])
    PROVE  /\ \A x \in Path[n] : Path[x] \subseteq Path[n]
           /\ \A x, y \in Path[n] : x \in Path[y] \/ y \in Path[x]
  <1> DEFINE Linear(m) == /\ \A x \in Path[m] : Path[x] \subseteq Path[m]
                          /\ \A x, y \in Path[m] : x \in Path[y] \/ y \in Path[x]
             Good == {T \in SUBSET Path[n] : \A m \in Block : Path[m] = T => Linear(m)}
  <1>1. ASSUME NEW T \in SUBSET Path[n], \A x \in T : T \ {x} \in Good
        PROVE  T \in Good
    <2> SUFFICES ASSUME NEW m \in Block, Path[m] = T PROVE Linear(m)
      OBVIOUS
    <2>1. m \in T /\ Path[Parent[m]] = T \ {m} /\ Parent[m] \in Block \cup {Zero}
          /\ Path[Zero] = {}
      BY PathOf
    <2>2. T \ {m} \in Good
      BY <1>1, <2>1
    <2>3. Linear(Parent[m])
      BY <2>1, <2>2
    <2> QED
      BY <2>1, <2>3
  <1> HIDE DEF Good
  <1>2. Path[n] \in Good
    BY <1>1, SetInduction
  <1> QED
    BY <1>2 DEF Good

\* No two blocks are above each other.
LEMMA PathOrder ==
    ASSUME NEW x \in Block, NEW y \in Block, x \in Path[y], y \in Path[x],
           IsFiniteSet(Path[x]), IsFiniteSet(Path[y])
    PROVE  x = y
  <1>1. SUFFICES ASSUME x # y PROVE FALSE
    OBVIOUS
  <1>2. x \in Path[Parent[y]] /\ Path[Parent[y]] \subseteq Path[y] /\ y \notin Path[Parent[y]]
    BY <1>1, PathOf
  <1>3. Parent[y] \in Block
    BY <1>2, PathOf
  <1>4. IsFiniteSet(Path[Parent[y]])
    BY <1>2, FS_Subset
  <1>5. Path[x] \subseteq Path[Parent[y]]
    BY <1>2, <1>3, <1>4, PathIsChain
  <1> QED
    BY <1>2, <1>5

(***************************************************************************)
(* Work.                                                                   *)
(***************************************************************************)

\* The work of a chain is that of its last block and the rest.
LEMMA ChainWorkStep ==
    ASSUME NEW b \in Block, IsFiniteSet(Path[Parent[b]])
    PROVE  /\ IsFiniteSet(Path[b])
           /\ ChainWork[b] = BlockWork[b] + (IF Parent[b] = Zero THEN 0 ELSE ChainWork[Parent[b]])
  <1> DEFINE p == Path[Parent[b]]
  <1>1. Path[b] = p \cup {b} /\ b \notin p /\ Parent[b] \in Block \cup {Zero}
    BY TreeAssumption, PathAssumption
  <1>2. p \subseteq Block
    BY <1>1, PathAssumption
  <1>3. BlockWork[b] \in Int /\ \A a \in p : BlockWork[a] \in Int
    BY <1>2, BlockAssumption
  <1>4. ChainWork[b] = SumFunctionOnSet(BlockWork, Path[b])
    BY DEF ChainWork
  <1>5. Parent[b] = Zero => p = {}
    BY PathAssumption
  <1>6. Parent[b] # Zero => ChainWork[Parent[b]] = SumFunctionOnSet(BlockWork, p)
    BY <1>1 DEF ChainWork
  <1> HIDE DEF p
  <1>7. IsFiniteSet(p)
    BY DEF p
  <1>8. IsFiniteSet(p \cup {b})
    BY <1>7, FS_AddElement
  <1>9. SumFunctionOnSet(BlockWork, p \cup {b}) = SumFunctionOnSet(BlockWork, p) + BlockWork[b]
    BY <1>1, <1>3, <1>7, SumAddElement
  <1>10. p = {} => SumFunctionOnSet(BlockWork, p) = 0
    BY SumEmpty
  <1>11. SumFunctionOnSet(BlockWork, p) \in Int
    BY <1>3, <1>7, SumInt
  <1> QED
    BY <1>1, <1>3, <1>4, <1>5, <1>6, <1>8, <1>9, <1>10, <1>11

\* The work of a chain is a natural number.
LEMMA ChainWorkNat ==
    ASSUME NEW b \in Block, IsFiniteSet(Path[b])
    PROVE  ChainWork[b] \in Nat
  <1>1. Path[b] \subseteq Block
    BY PathOf
  <1>2. \A a \in Path[b] : BlockWork[a] \in Nat
    BY <1>1, BlockAssumption
  <1> QED
    BY <1>2, SumNat DEF ChainWork

\* A chain has more work than what it stands on.
LEMMA WorkGrows ==
    ASSUME NEW n \in Block, IsFiniteSet(Path[n]), NEW a \in Path[n], a # n
    PROVE  ChainWork[a] < ChainWork[n]
  <1> DEFINE Goal(m) == \A x \in Path[m] : x # m => ChainWork[x] < ChainWork[m]
             Good == {T \in SUBSET Path[n] : \A m \in Block : Path[m] = T => Goal(m)}
  <1>1. ASSUME NEW T \in SUBSET Path[n], \A x \in T : T \ {x} \in Good
        PROVE  T \in Good
    <2> SUFFICES ASSUME NEW m \in Block, Path[m] = T, NEW x \in Path[m], x # m
                 PROVE  ChainWork[x] < ChainWork[m]
      OBVIOUS
    <2> DEFINE p == Parent[m]
    <2>1. m \in T /\ Path[p] = T \ {m} /\ p \in Block \cup {Zero} /\ x \in Path[p] /\ p # Zero
      BY PathOf
    <2>2. IsFiniteSet(Path[p]) /\ IsFiniteSet(Path[m])
      BY <2>1, FS_Subset
    <2>3. x = p \/ ChainWork[x] < ChainWork[p]
      BY <1>1, <2>1
    <2>4. ChainWork[m] = BlockWork[m] + ChainWork[p]
      BY <2>1, <2>2, ChainWorkStep
    <2>5. x \in Block /\ IsFiniteSet(Path[x])
      <3>1. Path[x] \subseteq Path[m] /\ x \in Block
        BY <2>2, PathIsChain, PathOf
      <3> QED
        BY <2>2, <3>1, FS_Subset
    <2>6. ChainWork[p] \in Nat /\ ChainWork[x] \in Nat /\ BlockWork[m] \in Nat \ {0}
      BY <2>1, <2>2, <2>5, ChainWorkNat, BlockAssumption
    <2> HIDE DEF p
    <2> QED
      BY <2>3, <2>4, <2>6
  <1> HIDE DEF Good
  <1>2. Path[n] \in Good
    BY <1>1, SetInduction
  <1> QED
    BY <1>2 DEF Good

(***************************************************************************)
(* The best tip.                                                           *)
(***************************************************************************)

\* best_tip_by_work finds a block with work that beats all others with work.
LEMMA BestTipBeats ==
    ASSUME NEW m, IsFiniteSet(DOMAIN m.work), DOMAIN m.work # {}, DOMAIN m.work \subseteq Block,
           \A a \in DOMAIN m.work : m.work[a] \in Nat
    PROVE  /\ BestTip(m) \in DOMAIN m.work
           /\ \A a \in DOMAIN m.work \ {BestTip(m)} : Beats(m, BestTip(m), a)
  <1> DEFINE W == DOMAIN m.work
             Tops(T, b) == \A a \in T \ {b} : Beats(m, b, a)
             Good == {T \in SUBSET W : T # {} => \E b \in T : Tops(T, b)}
  <1>1. /\ \A a \in W : m.work[a] \in Nat /\ HeightIn(m, a) \in Nat /\ HashRank[a] \in Nat
        /\ \A a, b \in W : HashRank[a] = HashRank[b] => a = b
    BY TreeAssumption DEF HeightIn
  <1>2. ASSUME NEW a \in W, NEW b \in W, a # b PROVE Beats(m, a, b) \/ Beats(m, b, a)
    BY <1>1, <1>2 DEF Beats
  <1>3. ASSUME NEW a \in W, NEW b \in W, NEW c \in W, Beats(m, a, b), Beats(m, b, c)
        PROVE  Beats(m, a, c)
    <2>1. /\ m.work[a] \in Nat /\ m.work[b] \in Nat /\ m.work[c] \in Nat
          /\ HeightIn(m, a) \in Nat /\ HeightIn(m, b) \in Nat /\ HeightIn(m, c) \in Nat
          /\ HashRank[a] \in Nat /\ HashRank[b] \in Nat /\ HashRank[c] \in Nat
      BY <1>1
    <2> QED
      BY <1>3, <2>1 DEF Beats
  <1>4. ASSUME NEW T \in SUBSET W, \A x \in T : T \ {x} \in Good
        PROVE  T \in Good
    <2> SUFFICES ASSUME T # {} PROVE \E b \in T : Tops(T, b)
      OBVIOUS
    <2>1. PICK x \in T : TRUE
      OBVIOUS
    <2>2. CASE T \ {x} = {}
      BY <2>1, <2>2
    <2>3. CASE T \ {x} # {}
      <3>1. T \ {x} \in Good
        BY <1>4
      <3>2. PICK b \in T \ {x} : Tops(T \ {x}, b)
        BY <2>3, <3>1
      <3>3. CASE Beats(m, b, x)
        <4>1. Tops(T, b)
          BY <3>2, <3>3
        <4> QED
          BY <4>1
      <3>4. CASE Beats(m, x, b)
        <4>1. \A a \in T \ {x} : a = b \/ Beats(m, b, a)
          BY <3>2
        <4>2. \A a \in T \ {x} : Beats(m, x, a)
          BY <1>3, <3>4, <4>1
        <4> QED
          BY <4>2
      <3> QED
        BY <1>2, <3>2, <3>3, <3>4
    <2> QED
      BY <2>2, <2>3
  <1> HIDE DEF Good
  <1>5. W \in Good
    BY <1>4, SetInduction
  <1>6. \E b \in W : Tops(W, b)
    BY <1>5 DEF Good
  <1> QED
    BY <1>6 DEF BestTip

\* Of two blocks with work only one beats the other.
LEMMA BeatsOne ==
    ASSUME NEW m, NEW a \in Block, NEW b \in Block, m.work[a] \in Nat, m.work[b] \in Nat,
           Beats(m, a, b), Beats(m, b, a)
    PROVE  FALSE
  <1>1. /\ HeightIn(m, a) \in Nat /\ HeightIn(m, b) \in Nat
        /\ HashRank[a] \in Nat /\ HashRank[b] \in Nat
    BY TreeAssumption DEF HeightIn
  <1> QED
    BY <1>1 DEF Beats

(***************************************************************************)
(* The work on record, and the calls that are still to be made.            *)
(***************************************************************************)

\* The fields of the store in memory.
IsStore(m) ==
    m = [idx |-> m.idx, work |-> m.work, applied |-> m.applied, undo |-> m.undo,
         ledger |-> m.ledger, tip |-> m.tip, blocks |-> m.blocks, bodies |-> m.bodies,
         compacted |-> m.compacted]

\* What put_block of b makes of the store m.
IsPut(m, b, new) ==
    /\ IsStore(new) /\ new.blocks = m.blocks \cup {b}
    /\ new.work = m.work /\ new.applied = m.applied /\ new.undo = m.undo
    /\ new.ledger = m.ledger /\ new.tip = m.tip

\* Only the blocks and their place on the disk change when one is put.
LEMMA PutsKeep ==
    ASSUME NEW m, IsStore(m), NEW b, NEW body, NEW put \in Puts(m, b, body)
    PROVE  IsPut(m, b, put.mem)
  <1> USE DEF IsPut
  <1> DEFINE new == [m EXCEPT !.blocks = @ \cup {b},
                              !.bodies = IF body THEN @ \cup {b} ELSE @ \ {b},
                              !.idx = [h \in DOMAIN @ \cup {Height[b]} |->
                                           IF h = Height[b] THEN 0 ELSE @[h]]]
             files == <<<<"append", Rec(b, body)>>, <<"index", new.idx>>>>
  <1>1. \E x, y, z : new = [m EXCEPT !.blocks = x, !.bodies = y, !.idx = z]
    OBVIOUS
  <1>2. put \in Compactions(new, files) \/ put = [mem |-> new, writes |-> files]
    BY DEF Puts
  <1> HIDE DEF new, files
  <1>3. ASSUME NEW x, NEW y, NEW z, new = [m EXCEPT !.blocks = x, !.bodies = y, !.idx = z]
        PROVE  /\ IsStore(new) /\ new.blocks = x
               /\ new.work = m.work /\ new.applied = m.applied /\ new.undo = m.undo
               /\ new.ledger = m.ledger /\ new.tip = m.tip
    BY <1>3 DEF IsStore
  <1>4. new.blocks = m.blocks \cup {b}
    BY DEF new, IsStore
  <1>5. ASSUME put \in Compactions(new, files)
        PROVE  \E i, j, k : put.mem = [new EXCEPT !.idx = i, !.bodies = j, !.compacted = k]
    <2>1. PICK S \in OnePerHeight(new) :
              put = [mem |-> Compacted(new, S, IndexOf(Records(new, S))),
                     writes |-> files \o <<<<"rewrite", Records(new, S)>>,
                                           <<"index", IndexOf(Records(new, S))>>>>]
      BY <1>5, Zenon DEF Compactions
    <2>2. put.mem = Compacted(new, S, IndexOf(Records(new, S)))
      BY <2>1
    <2> QED
      BY <2>2 DEF Compacted
  <1>6. /\ IsStore(new) /\ new.work = m.work /\ new.applied = m.applied
        /\ new.undo = m.undo /\ new.ledger = m.ledger /\ new.tip = m.tip
    BY <1>1, <1>3
  <1>7. CASE put = [mem |-> new, writes |-> files]
    BY <1>4, <1>6, <1>7
  <1>8. CASE put \in Compactions(new, files)
    <2>1. PICK i, j, k : put.mem = [new EXCEPT !.idx = i, !.bodies = j, !.compacted = k]
      BY <1>5, <1>8
    <2>2. /\ IsStore(put.mem) /\ put.mem.blocks = new.blocks
          /\ put.mem.work = new.work /\ put.mem.applied = new.applied
          /\ put.mem.undo = new.undo /\ put.mem.ledger = new.ledger
          /\ put.mem.tip = new.tip
      BY <1>6, <2>1 DEF IsStore
    <2> QED
      BY <1>4, <1>6, <2>2
  <1> QED
    BY <1>2, <1>7, <1>8

\* The calls of accept_block before reorganize.
FromPow(b) ==
    <<<<"remember_pow", {b}>>, <<"put_block", {b}>>, <<"set_work", {b}>>, <<"reorganize", {b}>>>>
FromPut(b) == <<<<"put_block", {b}>>, <<"set_work", {b}>>, <<"reorganize", {b}>>>>
FromWork(b) == <<<<"set_work", {b}>>, <<"reorganize", {b}>>>>
FromReorg(b) == <<<<"reorganize", {b}>>>>

\* The calls that reorganize makes, when the blocks of W have work.
Turns(W) == ({"disconnect", "connect", "mark_applied"} \X SUBSET (Block \cup {Zero}))
                \cup ({"set_tip"} \X SUBSET W)

\* The blocks in memory have work, but for the one that is being recorded.
CallsInv ==
    \/ calls \in Seq(Turns(DOMAIN mem.work)) /\ mem.blocks \subseteq DOMAIN mem.work
    \/ \E b \in Block :
           /\ Parent[b] \in DOMAIN mem.work \cup {Zero}
           /\ \/ calls \in {FromPow(b), FromPut(b)} /\ mem.blocks \subseteq DOMAIN mem.work
              \/ calls = FromWork(b) /\ mem.blocks \subseteq DOMAIN mem.work \cup {b}
              \/ /\ calls = FromReorg(b)
                 /\ mem.blocks \subseteq DOMAIN mem.work /\ b \in DOMAIN mem.work

\* The work on record is that of whole chains.
WorkIsTotal ==
    /\ IsFiniteSet(DOMAIN mem.work) /\ DOMAIN mem.work \subseteq Block
    /\ \A b \in DOMAIN mem.work : IsFiniteSet(Path[b]) /\ mem.work[b] = ChainWork[b]
    /\ mem.tip \in DOMAIN mem.work \cup {Zero}

WInv == IsStore(mem) /\ WorkIsTotal /\ CallsInv

\* The calls after the one for b, when b is the only block of it.
LEMMA AfterOne ==
    ASSUME NEW b, NEW n, Call(n, b), Head(calls)[2] = {b}
    PROVE  After(b) = <<>> \o Tail(calls)
  BY DEF Call, After, Rest

\* The calls after one that reorganize makes are such calls.
LEMMA AfterTurn ==
    ASSUME NEW b, NEW n, NEW W, calls \in Seq(Turns(W)), Call(n, b)
    PROVE  /\ After(b) \in Seq(Turns(W)) /\ Tail(calls) \in Seq(Turns(W))
           /\ n \in {"disconnect", "connect", "mark_applied", "set_tip"}
           /\ Head(calls)[2] \subseteq Block \cup {Zero}  \/ n = "set_tip"
           /\ n = "set_tip" => b \in W
  <1>1. calls # <<>> /\ Head(calls)[1] = n /\ b \in Head(calls)[2]
    BY DEF Call
  <1>2. Head(calls) \in Turns(W) /\ Tail(calls) \in Seq(Turns(W))
    BY <1>1
  <1>3. <<Head(calls)[1], Head(calls)[2] \ {b}>> \in Turns(W)
    BY <1>2 DEF Turns
  <1>4. Rest(Head(calls)[1], Head(calls)[2] \ {b}) \in Seq(Turns(W))
    BY <1>3 DEF Rest
  <1>5. After(b) \in Seq(Turns(W))
    BY <1>2, <1>4 DEF After
  <1> QED
    BY <1>1, <1>2, <1>5 DEF Turns

\* More blocks with work, more calls that can be made.
LEMMA TurnsGrow ==
    ASSUME NEW W, NEW V, W \subseteq V, NEW s \in Seq(Turns(W))
    PROVE  s \in Seq(Turns(V))
  <1>1. Turns(W) \subseteq Turns(V)
    BY DEF Turns
  <1> QED
    BY <1>1

\* The store starts empty.
LEMMA WInvInit == Init => WInv
  <1> SUFFICES ASSUME Init PROVE WInv
    OBVIOUS
  <1>1. mem = Load(EmptyDisk) /\ calls = <<>>
    BY DEF Init
  <1>2. Found(EmptyDisk) = {}
    BY DEF Found, EmptyDisk
  <1>3. IsStore(mem) /\ mem.work = Empty /\ mem.blocks = {} /\ mem.tip = Zero
    BY <1>1, <1>2 DEF Load, IsStore, EmptyDisk
  <1>4. DOMAIN mem.work = {}
    BY <1>3 DEF Empty
  <1>5. WorkIsTotal
    BY <1>3, <1>4, FS_EmptySet DEF WorkIsTotal
  <1>6. CallsInv
    BY <1>1, <1>3, <1>4 DEF CallsInv
  <1> QED
    BY <1>3, <1>5, <1>6 DEF WInv

\* What a call leaves of the store keeps its shape and its work.
SameWork == /\ IsStore(mem') /\ mem'.work = mem.work
            /\ mem'.tip \in DOMAIN mem.work \cup {Zero}

\* The work stays total while none is recorded.
LEMMA SameWorkKeeps ==
    ASSUME WInv, SameWork
    PROVE  IsStore(mem') /\ WorkIsTotal'
  BY DEF WInv, SameWork, WorkIsTotal

\* The next call of accept_block is for its block.
LEMMA FromCalls ==
    ASSUME NEW c, calls \in {FromPow(c), FromPut(c), FromWork(c), FromReorg(c)},
           NEW b, NEW n, Call(n, b)
    PROVE  /\ c = b
           /\ calls = FromPow(b) => n = "remember_pow" /\ After(b) = FromPut(b)
           /\ calls = FromPut(b) => n = "put_block" /\ After(b) = FromWork(b)
           /\ calls = FromWork(b) => n = "set_work" /\ After(b) = FromReorg(b)
           /\ calls = FromReorg(b) => n = "reorganize"
  <1>1. calls # <<>> /\ Head(calls)[1] = n /\ b \in Head(calls)[2]
    BY DEF Call
  <1>2. c = b /\ Head(calls)[2] = {b}
    BY <1>1 DEF FromPow, FromPut, FromWork, FromReorg
  <1>3. After(b) = <<>> \o Tail(calls)
    BY <1>2, AfterOne
  <1>4. /\ Tail(FromPow(b)) = FromPut(b) /\ Tail(FromPut(b)) = FromWork(b)
        /\ Tail(FromWork(b)) = FromReorg(b)
    BY DEF FromPow, FromPut, FromWork, FromReorg
  <1>5. /\ FromPut(b) = <<>> \o FromPut(b) /\ FromWork(b) = <<>> \o FromWork(b)
        /\ FromReorg(b) = <<>> \o FromReorg(b)
    BY DEF FromPut, FromWork, FromReorg
  <1>6. /\ Head(FromPow(b))[1] = "remember_pow" /\ Head(FromPut(b))[1] = "put_block"
        /\ Head(FromWork(b))[1] = "set_work" /\ Head(FromReorg(b))[1] = "reorganize"
    BY DEF FromPow, FromPut, FromWork, FromReorg
  <1> QED
    BY <1>1, <1>2, <1>3, <1>4, <1>5, <1>6

\* The calls are those of reorganize, or those that accept_block makes first.
LEMMA CallsSplit ==
    ASSUME CallsInv, NEW b, NEW n, Call(n, b)
    PROVE  \/ /\ calls \in Seq(Turns(DOMAIN mem.work)) /\ mem.blocks \subseteq DOMAIN mem.work
              /\ n \notin {"remember_pow", "put_block", "set_work", "reorganize"}
           \/ /\ b \in Block /\ Parent[b] \in DOMAIN mem.work \cup {Zero}
              /\ \/ /\ n = "remember_pow" /\ mem.blocks \subseteq DOMAIN mem.work
                    /\ After(b) = FromPut(b)
                 \/ /\ n = "put_block" /\ mem.blocks \subseteq DOMAIN mem.work
                    /\ After(b) = FromWork(b)
                 \/ /\ n = "set_work" /\ mem.blocks \subseteq DOMAIN mem.work \cup {b}
                    /\ After(b) = FromReorg(b)
                 \/ /\ n = "reorganize" /\ mem.blocks \subseteq DOMAIN mem.work
                    /\ b \in DOMAIN mem.work
  <1>1. ASSUME calls \in Seq(Turns(DOMAIN mem.work))
        PROVE  n \notin {"remember_pow", "put_block", "set_work", "reorganize"}
    BY <1>1, AfterTurn
  <1> QED
    BY <1>1, FromCalls DEF CallsInv

\* The plan of reorganize is of its calls.
LEMMA PlanIsTurns ==
    ASSUME NEW m, IsFiniteSet(DOMAIN m.work), DOMAIN m.work # {}, DOMAIN m.work \subseteq Block,
           \A a \in DOMAIN m.work : m.work[a] \in Nat, m.tip \in DOMAIN m.work \cup {Zero}
    PROVE  Plan(m) \in Seq(Turns(DOMAIN m.work))
  <1> DEFINE W == DOMAIN m.work
             T == Turns(W)
             new == BestTip(m)
             left == IF m.tip = Zero THEN {} ELSE Walk(m, m.tip) \ Walk(m, new)
             joined == IF m.tip = Zero THEN Walk(m, new) ELSE Walk(m, new) \ Walk(m, m.tip)
  <1>1. new \in W
    BY BestTipBeats
  <1>2. Walk(m, new) \subseteq Block \cup {Zero} /\ Walk(m, m.tip) \subseteq Block \cup {Zero}
    BY <1>1, PathOf, PathAssumption DEF Walk
  <1>3. left \subseteq Block \cup {Zero} /\ joined \subseteq Block \cup {Zero}
    BY <1>2
  <1>4. Plan(m) = IF new = m.tip THEN <<>>
                  ELSE Rest("disconnect", left) \o Rest("connect", joined)
                            \o <<<<"set_tip", {new}>>>>
    BY DEF Plan
  <1> HIDE DEF left, joined, new, W
  <1>5. <<"disconnect", left>> \in T /\ <<"connect", joined>> \in T /\ <<"set_tip", {new}>> \in T
    BY <1>1, <1>3 DEF Turns
  <1> HIDE DEF T
  <1>6. Rest("disconnect", left) \in Seq(T) /\ Rest("connect", joined) \in Seq(T)
    BY <1>5 DEF Rest
  <1>7. <<<<"set_tip", {new}>>>> \in Seq(T)
    BY <1>5
  <1>8. Plan(m) \in Seq(T)
    BY <1>4, <1>6, <1>7
  <1> QED
    BY <1>8 DEF T, W

\* Every step keeps WInv, when no block of height 0 stands on another one.
LEMMA WInvStep ==
    ASSUME HeightZeroIsGenesis
    PROVE  WInv /\ [Next]_storeVars => WInv'
  <1> SUFFICES ASSUME WInv, [Next]_storeVars PROVE WInv'
    OBVIOUS
  <1> DEFINE W == DOMAIN mem.work
  <1>0. IsStore(mem) /\ WorkIsTotal /\ CallsInv
    BY DEF WInv
  <1>1. ASSUME SameWork, \/ calls' \in Seq(Turns(W)) /\ mem'.blocks \subseteq W
                         \/ \E b \in Block :
                               /\ Parent[b] \in W \cup {Zero}
                               /\ \/ calls' \in {FromPow(b), FromPut(b)} /\ mem'.blocks \subseteq W
                                  \/ calls' = FromWork(b) /\ mem'.blocks \subseteq W \cup {b}
                                  \/ calls' = FromReorg(b) /\ mem'.blocks \subseteq W /\ b \in W
        PROVE  WInv'
    <2>1. DOMAIN mem'.work = W
      BY <1>1 DEF SameWork
    <2>2. CallsInv'
      BY <1>1, <2>1 DEF CallsInv
    <2> QED
      BY <1>1, <2>2, SameWorkKeeps DEF WInv
  <1>2. ASSUME NEW b, NEW n, Call(n, b), n \in {"disconnect", "connect", "mark_applied", "set_tip"}
        PROVE  /\ calls \in Seq(Turns(W)) /\ mem.blocks \subseteq W
               /\ After(b) \in Seq(Turns(W)) /\ (n = "set_tip" => b \in W)
    BY <1>0, <1>2, CallsSplit, AfterTurn
  <1>3. ASSUME NEW b \in Block, Accept(b) PROVE WInv'
    <2>1. calls = <<>> /\ mem' = mem /\ HeaderOK(mem.blocks, b) /\ calls' = FromPow(b)
      BY <1>3 DEF Accept, Idle, FromPow
    <2>2. mem.blocks \subseteq W
      BY <1>0, <2>1 DEF CallsInv, FromPow, FromPut, FromWork, FromReorg
    <2>3. Parent[b] \in W \cup {Zero}
      BY <2>1, <2>2 DEF HeaderOK, HeightZeroIsGenesis
    <2>4. SameWork
      BY <1>0, <2>1 DEF SameWork, WorkIsTotal
    <2> QED
      BY <1>1, <2>1, <2>2, <2>3, <2>4
  <1>4. ASSUME NEW b, RememberPow(b) PROVE WInv'
    <2>1. Call("remember_pow", b) /\ mem' = mem /\ calls' = After(b)
      BY <1>4 DEF RememberPow
    <2>2. /\ b \in Block /\ Parent[b] \in W \cup {Zero} /\ mem.blocks \subseteq W
          /\ After(b) = FromPut(b)
      BY <1>0, <2>1, CallsSplit
    <2>3. SameWork
      BY <1>0, <2>1 DEF SameWork, WorkIsTotal
    <2> QED
      BY <1>1, <2>1, <2>2, <2>3
  <1>5. ASSUME NEW b, PutBlock(b) PROVE WInv'
    <2>1. Call("put_block", b) /\ calls' = After(b)
      BY <1>5 DEF PutBlock
    <2>2. PICK put \in Puts(mem, b, TRUE) : mem' = put.mem
      BY <1>5 DEF PutBlock
    <2>3. /\ b \in Block /\ Parent[b] \in W \cup {Zero} /\ mem.blocks \subseteq W
          /\ After(b) = FromWork(b)
      BY <1>0, <2>1, CallsSplit
    <2>4. SameWork /\ mem'.blocks = mem.blocks \cup {b}
      <3>1. IsPut(mem, b, put.mem)
        BY <1>0, PutsKeep
      <3> QED
        BY <1>0, <2>2, <3>1 DEF SameWork, WorkIsTotal, IsPut
    <2> QED
      BY <1>1, <2>1, <2>3, <2>4
  <1>6. ASSUME NEW b, SetWork(b) PROVE WInv'
    <2>1. Call("set_work", b) /\ calls' = After(b)
      BY <1>6 DEF SetWork
    <2>2. /\ b \in Block /\ Parent[b] \in W \cup {Zero} /\ mem.blocks \subseteq W \cup {b}
          /\ After(b) = FromReorg(b)
      BY <1>0, <2>1, CallsSplit
    <2>3. /\ IsStore(mem') /\ mem'.blocks = mem.blocks /\ mem'.tip = mem.tip
          /\ mem'.work = [a \in W \cup {b} |->
                             IF a = b THEN WorkIn(mem, Parent[b]) + BlockWork[b] ELSE mem.work[a]]
      BY <1>0, <1>6 DEF SetWork, IsStore
    <2>4. DOMAIN mem'.work = W \cup {b}
      BY <2>3
    <2>5. IsFiniteSet(Path[Parent[b]])
      BY <1>0, <2>2, PathAssumption, FS_EmptySet DEF WorkIsTotal
    <2>6. WorkIn(mem, Parent[b]) = IF Parent[b] = Zero THEN 0 ELSE ChainWork[Parent[b]]
      BY <1>0, <2>2, TreeAssumption DEF WorkIsTotal, WorkIn
    <2>7. IsFiniteSet(Path[b]) /\ mem'.work[b] = ChainWork[b]
      <3>1. WorkIn(mem, Parent[b]) \in Nat
        <4>1. Parent[b] \in Block \cup {Zero}
          BY <2>2, TreeAssumption
        <4>2. Parent[b] # Zero => ChainWork[Parent[b]] \in Nat
          BY <2>5, <4>1, ChainWorkNat
        <4> QED
          BY <2>6, <4>2
      <3>2. BlockWork[b] \in Nat
        BY <2>2, BlockAssumption
      <3>3. mem'.work[b] = WorkIn(mem, Parent[b]) + BlockWork[b]
        BY <2>3
      <3>4. /\ IsFiniteSet(Path[b])
            /\ ChainWork[b] = BlockWork[b] + (IF Parent[b] = Zero THEN 0 ELSE ChainWork[Parent[b]])
        BY <2>2, <2>5, ChainWorkStep
      <3> QED
        BY <2>6, <3>1, <3>2, <3>3, <3>4
    <2>8. WorkIsTotal'
      BY <1>0, <2>2, <2>3, <2>4, <2>7, FS_AddElement DEF WorkIsTotal
    <2>9. CallsInv'
      BY <2>1, <2>2, <2>3, <2>4 DEF CallsInv
    <2> QED
      BY <2>3, <2>8, <2>9 DEF WInv
  <1>7. ASSUME NEW b, Reorganize(b) PROVE WInv'
    <2>1. Call("reorganize", b) /\ mem' = mem /\ calls' = Plan(mem)
      BY <1>7 DEF Reorganize
    <2>2. mem.blocks \subseteq W /\ b \in W
      BY <1>0, <2>1, CallsSplit
    <2>3. \A a \in W : mem.work[a] \in Nat
      BY <1>0, ChainWorkNat DEF WorkIsTotal
    <2>4. Plan(mem) \in Seq(Turns(W))
      BY <1>0, <2>2, <2>3, PlanIsTurns DEF WorkIsTotal
    <2>5. SameWork
      BY <1>0, <2>1 DEF SameWork, WorkIsTotal
    <2> QED
      BY <1>1, <2>1, <2>2, <2>4, <2>5
  <1>8. ASSUME NEW b, Disconnect(b) PROVE WInv'
    <2>1. Call("disconnect", b) /\ calls' = After(b)
      BY <1>8 DEF Disconnect
    <2>2. SameWork /\ mem'.blocks = mem.blocks
      BY <1>0, <1>8 DEF Disconnect, SameWork, IsStore, WorkIsTotal
    <2> QED
      BY <1>1, <1>2, <2>1, <2>2
  <1>9. ASSUME NEW b, Connect(b) PROVE WInv'
    <2>1. Call("connect", b) /\ calls' = <<<<"mark_applied", {b}>>>> \o After(b)
          /\ b \in mem.blocks
      BY <1>9 DEF Connect, CallConnect
    <2>2. PICK put \in Puts(Applied(mem, b), b, b \in mem.bodies) : mem' = put.mem
      BY <1>9 DEF Connect
    <2>3. calls \in Seq(Turns(W)) /\ mem.blocks \subseteq W /\ After(b) \in Seq(Turns(W))
      BY <1>2, <2>1
    <2>4. <<"mark_applied", {b}>> \in Turns(W)
      BY <1>0, <2>1, <2>3 DEF Turns, WorkIsTotal
    <2>5. calls' \in Seq(Turns(W))
      BY <2>1, <2>3, <2>4
    <2>6. /\ IsStore(Applied(mem, b)) /\ Applied(mem, b).blocks = mem.blocks
          /\ Applied(mem, b).work = mem.work /\ Applied(mem, b).tip = mem.tip
      <3>1. PICK x, y : Applied(mem, b) = [mem EXCEPT !.ledger = x, !.undo = y]
        BY DEF Applied
      <3> QED
        BY <1>0, <3>1 DEF IsStore
    <2>7. SameWork /\ mem'.blocks = mem.blocks \cup {b}
      <3>1. IsPut(Applied(mem, b), b, put.mem)
        BY <2>6, PutsKeep
      <3> QED
        BY <1>0, <2>2, <2>6, <3>1 DEF SameWork, WorkIsTotal, IsPut
    <2> QED
      BY <1>1, <2>1, <2>3, <2>5, <2>7
  <1>10. ASSUME NEW b \in Block \cup {Zero}, ConnectSkips(b) PROVE WInv'
    <2>1. Call("connect", b) /\ calls' = <<<<"mark_applied", {b}>>>> \o After(b) /\ mem' = mem
      BY <1>10 DEF ConnectSkips, CallConnect
    <2>2. calls \in Seq(Turns(W)) /\ mem.blocks \subseteq W /\ After(b) \in Seq(Turns(W))
      BY <1>2, <2>1
    <2>3. <<"mark_applied", {b}>> \in Turns(W)
      BY DEF Turns
    <2>4. calls' \in Seq(Turns(W))
      BY <2>1, <2>2, <2>3
    <2>5. SameWork
      BY <1>0, <2>1 DEF SameWork, WorkIsTotal
    <2> QED
      BY <1>1, <2>1, <2>2, <2>4, <2>5
  <1>11. ASSUME NEW b, ConnectAborts(b) PROVE WInv'
    <2>1. Call("connect", b) /\ calls' = <<>> /\ mem' = mem
      BY <1>11 DEF ConnectAborts, CallConnect
    <2>2. mem.blocks \subseteq W
      BY <1>2, <2>1
    <2>3. SameWork
      BY <1>0, <2>1 DEF SameWork, WorkIsTotal
    <2> QED
      BY <1>1, <2>1, <2>2, <2>3
  <1>12. ASSUME NEW b, MarkApplied(b) PROVE WInv'
    <2>1. Call("mark_applied", b) /\ calls' = After(b)
      BY <1>12 DEF MarkApplied
    <2>2. SameWork /\ mem'.blocks = mem.blocks
      BY <1>0, <1>12 DEF MarkApplied, SameWork, IsStore, WorkIsTotal
    <2> QED
      BY <1>1, <1>2, <2>1, <2>2
  <1>13. ASSUME NEW b, SetTip(b) PROVE WInv'
    <2>1. Call("set_tip", b) /\ calls' = After(b)
      BY <1>13 DEF SetTip
    <2>2. b \in W
      BY <1>2, <2>1
    <2>3. SameWork /\ mem'.blocks = mem.blocks
      BY <1>0, <1>13, <2>2 DEF SetTip, SameWork, IsStore
    <2> QED
      BY <1>1, <1>2, <2>1, <2>3
  <1>14. ASSUME FastSync PROVE WInv'
    <2>1. mem' = Load(Snapshot(mem)) /\ calls = <<>> /\ calls' = calls /\ mem.tip # Zero
      BY <1>14 DEF FastSync, Idle
    <2>2. Snapshot(mem).work = mem.work /\ Snapshot(mem).tip = mem.tip
          /\ \A k \in DOMAIN Snapshot(mem).dat.recs : Snapshot(mem).dat.recs[k].block = mem.tip
      BY DEF Snapshot, Rec
    <2>3. /\ IsStore(mem') /\ mem'.work = mem.work /\ mem'.tip = mem.tip
          /\ mem'.blocks \subseteq {mem.tip}
      BY <2>1, <2>2 DEF Load, IsStore, Found
    <2>4. SameWork /\ mem'.blocks \subseteq W
      BY <1>0, <2>1, <2>3 DEF SameWork, WorkIsTotal
    <2> QED
      BY <1>1, <2>1, <2>4
  <1>15. ASSUME mem' = mem, calls' = calls PROVE WInv'
    BY <1>0, <1>15 DEF WInv, WorkIsTotal, CallsInv
  <1> QED
    BY <1>3, <1>4, <1>5, <1>6, <1>7, <1>8, <1>9, <1>10, <1>11, <1>12, <1>13, <1>14, <1>15
    DEF Next, BlockNext, StoreStep, Write, storeVars

\* The work that the store has on record for its tip, and for every other block,
\* is the work of the whole chain below: whatever blocks arrive, valid or not,
\* and however reorganize fails, on a node that started from a snapshot too.
THEOREM WorkRecorded ==
    ASSUME HeightZeroIsGenesis
    PROVE  Spec => []TipWorkIsTotal
  <1>1. WInv /\ [Next]_storeVars => WInv'
    BY WInvStep
  <1>2. Spec => []WInv
    BY <1>1, WInvInit, PTL DEF Spec
  <1>3. WInv => TipWorkIsTotal
    BY TreeAssumption DEF WInv, WorkIsTotal, TipWorkIsTotal, WorkIn
  <1> QED
    BY <1>2, <1>3, PTL

(***************************************************************************)
(* The files.  Between two calls each of them says what memory says, and   *)
(* while a call still has files to write, those that do not are among      *)
(* them; only the marks of the blocks that reorganize takes back wait for  *)
(* the next block that it connects.                                        *)
(***************************************************************************)

FileNames == {"append", "rewrite", "index", "meta", "utxo", "coinbase", "undo", "tip"}

\* The fields of the files.
IsDisk(d) ==
    d = [dat |-> d.dat, idx |-> d.idx, work |-> d.work, applied |-> d.applied, undo |-> d.undo,
         ledger |-> [utxo |-> d.ledger.utxo, coinbase |-> d.ledger.coinbase], tip |-> d.tip]

IsWrites(w) == (\E S : w \in Seq(S)) /\ \A i \in DOMAIN w : w[i][1] \in FileNames

\* A file named n is still to be written.
Pending(n) == \E i \in DOMAIN writes : writes[i][1] = n

\* The last file still to be written is the index of memory, or none of them is.
IndexInv ==
    \/ disk.idx = mem.idx /\ ~Pending("index")
    \/ Len(writes) \in DOMAIN writes /\ writes[Len(writes)] = <<"index", mem.idx>>

\* late: what reorganize has still to connect or to mark.
DInv(late) ==
    /\ IsDisk(disk) /\ IsWrites(writes)
    /\ disk.work = mem.work \/ Pending("meta")
    /\ disk.applied = mem.applied \/ Pending("meta") \/ late # {}
    /\ disk.ledger.utxo = mem.ledger.utxo \/ Pending("utxo")
    /\ disk.ledger.coinbase = mem.ledger.coinbase \/ Pending("coinbase")
    /\ disk.undo = mem.undo \/ Pending("undo")
    /\ disk.tip = mem.tip \/ Pending("tip")
    /\ IndexInv

\* MetaFile changes two fields.
LEMMA MetaFields ==
    ASSUME NEW d, NEW m, IsDisk(d)
    PROVE  /\ IsDisk(MetaFile(d, m))
           /\ MetaFile(d, m).work = m.work /\ MetaFile(d, m).applied = m.applied
           /\ MetaFile(d, m).dat = d.dat /\ MetaFile(d, m).idx = d.idx
           /\ MetaFile(d, m).undo = d.undo /\ MetaFile(d, m).tip = d.tip
           /\ MetaFile(d, m).ledger = d.ledger
  <1> DEFINE q == [d EXCEPT !.work = m.work]
             r == [q EXCEPT !.applied = m.applied]
  <1>1. /\ IsDisk(q) /\ q.work = m.work /\ q.applied = d.applied /\ q.dat = d.dat
        /\ q.idx = d.idx /\ q.undo = d.undo /\ q.tip = d.tip /\ q.ledger = d.ledger
    BY DEF IsDisk
  <1> HIDE DEF q
  <1>2. /\ IsDisk(r) /\ r.work = q.work /\ r.applied = m.applied /\ r.dat = q.dat
        /\ r.idx = q.idx /\ r.undo = q.undo /\ r.tip = q.tip /\ r.ledger = q.ledger
    BY <1>1 DEF IsDisk
  <1> HIDE DEF r
  <1>3. MetaFile(d, m) = r
    BY DEF MetaFile, q, r
  <1> QED
    BY <1>1, <1>2, <1>3

\* What is written no longer waits, and nothing else changes.
LEMMA WriteKeeps ==
    ASSUME NEW late, DInv(late), Write
    PROVE  DInv(late)'
  <1> DEFINE f == Head(writes)
  <1>0. /\ writes # <<>> /\ disk' = Flushed(f) /\ writes' = Tail(writes) /\ mem' = mem
    BY DEF Write
  <1>1. PICK S : writes \in Seq(S)
    BY DEF DInv, IsWrites
  <1>2. /\ Tail(writes) \in Seq(S) /\ Len(Tail(writes)) = Len(writes) - 1
        /\ Len(writes) \in Nat \ {0}
        /\ DOMAIN writes = 1 .. Len(writes) /\ DOMAIN Tail(writes) = 1 .. Len(writes) - 1
        /\ \A i \in 1 .. Len(writes) - 1 : Tail(writes)[i] = writes[i + 1]
        /\ f = writes[1]
    BY <1>0, <1>1
  <1>3. f[1] \in FileNames
    BY <1>2 DEF DInv, IsWrites
  <1>4. IsWrites(writes')
    BY <1>0, <1>2 DEF DInv, IsWrites
  <1>5. ASSUME NEW n, Pending(n) PROVE n = f[1] \/ Pending(n)'
    <2>1. PICK i \in 1 .. Len(writes) : writes[i][1] = n
      BY <1>2, <1>5 DEF Pending
    <2>2. CASE i = 1
      BY <1>2, <2>1, <2>2
    <2>3. CASE i # 1
      <3>1. i - 1 \in 1 .. Len(writes) - 1 /\ writes[(i - 1) + 1] = writes[i]
        BY <2>3
      <3>2. Tail(writes)[i - 1][1] = n
        BY <1>2, <2>1, <3>1
      <3> QED
        BY <1>0, <1>2, <3>1, <3>2 DEF Pending
    <2> QED
      BY <2>2, <2>3
  <1>6. ASSUME NEW n, Pending(n)' PROVE Pending(n)
    BY <1>0, <1>2, <1>6 DEF Pending
  <1>7. /\ IsDisk(disk')
        /\ disk'.work = IF f[1] = "meta" THEN mem.work ELSE disk.work
        /\ disk'.applied = IF f[1] = "meta" THEN mem.applied ELSE disk.applied
        /\ disk'.ledger.utxo = IF f[1] = "utxo" THEN mem.ledger.utxo ELSE disk.ledger.utxo
        /\ disk'.ledger.coinbase = (IF f[1] = "coinbase" THEN mem.ledger.coinbase
                                                         ELSE disk.ledger.coinbase)
        /\ disk'.undo = IF f[1] = "undo" THEN mem.undo ELSE disk.undo
        /\ disk'.tip = IF f[1] = "tip" THEN mem.tip ELSE disk.tip
        /\ disk'.idx = IF f[1] = "index" THEN f[2] ELSE disk.idx
    <2>0. IsDisk(disk)
      BY DEF DInv
    <2>1. CASE f[1] \in {"append", "rewrite"}
      <3>1. PICK x : disk' = [disk EXCEPT !.dat = x]
        BY <1>0, <2>1 DEF Flushed, Appended, Rewritten
      <3> QED
        BY <2>0, <2>1, <3>1 DEF IsDisk
    <2>2. CASE f[1] = "index"
      <3>1. disk' = [disk EXCEPT !.idx = f[2]]
        BY <1>0, <2>2 DEF Flushed, IndexFile
      <3> QED
        BY <2>0, <2>2, <3>1 DEF IsDisk
    <2>3. CASE f[1] = "meta"
      <3>1. disk' = MetaFile(disk, mem)
        BY <1>0, <2>3 DEF Flushed
      <3> QED
        BY <2>0, <2>3, <3>1, MetaFields
    <2>4. CASE f[1] = "utxo"
      <3>1. disk' = [disk EXCEPT !.ledger.utxo = mem.ledger.utxo]
        BY <1>0, <2>4 DEF Flushed, UtxoFile
      <3> QED
        BY <2>0, <2>4, <3>1 DEF IsDisk
    <2>5. CASE f[1] = "coinbase"
      <3>1. disk' = [disk EXCEPT !.ledger.coinbase = mem.ledger.coinbase]
        BY <1>0, <2>5 DEF Flushed, CoinbaseFile
      <3> QED
        BY <2>0, <2>5, <3>1 DEF IsDisk
    <2>6. CASE f[1] = "undo"
      <3>1. disk' = [disk EXCEPT !.undo = mem.undo]
        BY <1>0, <2>6 DEF Flushed, UndoFile
      <3> QED
        BY <2>0, <2>6, <3>1 DEF IsDisk
    <2>7. CASE f[1] = "tip"
      <3>1. disk' = [disk EXCEPT !.tip = mem.tip]
        BY <1>0, <2>7 DEF Flushed, TipFile
      <3> QED
        BY <2>0, <2>7, <3>1 DEF IsDisk
    <2> QED
      BY <1>3, <2>1, <2>2, <2>3, <2>4, <2>5, <2>6, <2>7 DEF FileNames
  <1>8. IndexInv'
    <2>1. CASE writes[Len(writes)] = <<"index", mem.idx>>
      <3>1. CASE Len(writes) = 1
        <4>1. disk'.idx = mem.idx
          BY <1>2, <1>7, <2>1, <3>1
        <4>2. ~Pending("index")'
          BY <1>0, <1>2, <3>1 DEF Pending
        <4> QED
          BY <1>0, <4>1, <4>2 DEF IndexInv
      <3>2. CASE Len(writes) # 1
        <4>1. Len(writes) - 1 \in 1 .. Len(writes) - 1
          BY <1>2, <3>2
        <4>2. Tail(writes)[Len(writes) - 1] = writes[(Len(writes) - 1) + 1]
          BY <1>2, <4>1
        <4>3. (Len(writes) - 1) + 1 = Len(writes)
          BY <1>2
        <4> QED
          BY <1>0, <1>2, <2>1, <4>1, <4>2, <4>3 DEF IndexInv
      <3> QED
        BY <3>1, <3>2
    <2>2. CASE disk.idx = mem.idx /\ ~Pending("index")
      <3>1. f[1] # "index"
        BY <1>2, <2>2 DEF Pending
      <3>2. disk'.idx = mem.idx /\ ~Pending("index")'
        BY <1>6, <1>7, <2>2, <3>1
      <3> QED
        BY <1>0, <3>2 DEF IndexInv
    <2> QED
      BY <2>1, <2>2 DEF DInv, IndexInv
  <1> QED
    BY <1>0, <1>4, <1>5, <1>7, <1>8 DEF DInv

\* A call changes in memory what it then writes.
LEMMA CallKeeps ==
    ASSUME NEW X, NEW Y, DInv(X), writes = <<>>, disk' = disk, IsWrites(writes'),
           mem'.work = mem.work \/ Pending("meta")',
           \/ mem'.applied = mem.applied /\ (Y = {} => X = {})
           \/ Pending("meta")' \/ Y # {},
           mem'.ledger.utxo = mem.ledger.utxo \/ Pending("utxo")',
           mem'.ledger.coinbase = mem.ledger.coinbase \/ Pending("coinbase")',
           mem'.undo = mem.undo \/ Pending("undo")',
           mem'.tip = mem.tip \/ Pending("tip")',
           \/ mem'.idx = mem.idx /\ ~Pending("index")'
           \/ /\ Len(writes') \in DOMAIN writes'
              /\ writes'[Len(writes')] = <<"index", mem'.idx>>
    PROVE  DInv(Y)'
  <1>1. \A n : ~Pending(n)
    BY DEF Pending
  <1>2. /\ disk.work = mem.work /\ (disk.applied = mem.applied \/ X # {})
        /\ disk.ledger.utxo = mem.ledger.utxo /\ disk.ledger.coinbase = mem.ledger.coinbase
        /\ disk.undo = mem.undo /\ disk.tip = mem.tip /\ disk.idx = mem.idx
        /\ IsDisk(disk)
    BY <1>1 DEF DInv, IndexInv
  <1>3. IndexInv'
    BY <1>2 DEF IndexInv
  <1> QED
    BY <1>2, <1>3 DEF DInv

\* Two sequences of files, one after the other.
LEMMA WritesConcat ==
    ASSUME NEW v, NEW w, IsWrites(v), IsWrites(w)
    PROVE  /\ IsWrites(v \o w)
           /\ Len(w) \in DOMAIN w => /\ Len(v \o w) \in DOMAIN (v \o w)
                                     /\ (v \o w)[Len(v \o w)] = w[Len(w)]
           /\ \A i \in DOMAIN v : i \in DOMAIN (v \o w) /\ (v \o w)[i] = v[i]
           /\ \A i \in DOMAIN (v \o w) : \/ \E j \in DOMAIN v : (v \o w)[i] = v[j]
                                         \/ \E j \in DOMAIN w : (v \o w)[i] = w[j]
  <1>1. PICK S : v \in Seq(S)
    BY DEF IsWrites
  <1>2. PICK T : w \in Seq(T)
    BY DEF IsWrites
  <1>3. v \in Seq(S \cup T) /\ w \in Seq(S \cup T)
    BY <1>1, <1>2
  <1>4. /\ v \o w \in Seq(S \cup T) /\ Len(v \o w) = Len(v) + Len(w)
        /\ Len(v) \in Nat /\ Len(w) \in Nat
        /\ DOMAIN v = 1 .. Len(v) /\ DOMAIN w = 1 .. Len(w)
        /\ DOMAIN (v \o w) = 1 .. Len(v) + Len(w)
        /\ \A i \in 1 .. Len(v) + Len(w) : (v \o w)[i] = IF i <= Len(v) THEN v[i] ELSE w[i - Len(v)]
    BY <1>3
  <1>5. \A i \in DOMAIN (v \o w) : \/ \E j \in DOMAIN v : (v \o w)[i] = v[j]
                                   \/ \E j \in DOMAIN w : (v \o w)[i] = w[j]
    <2> SUFFICES ASSUME NEW i \in 1 .. Len(v) + Len(w)
                 PROVE  \/ \E j \in DOMAIN v : (v \o w)[i] = v[j]
                        \/ \E j \in DOMAIN w : (v \o w)[i] = w[j]
      BY <1>4
    <2>1. CASE i <= Len(v)
      BY <1>4, <2>1
    <2>2. CASE i > Len(v)
      <3>1. i - Len(v) \in 1 .. Len(w)
        BY <1>4, <2>2
      <3> QED
        BY <1>4, <2>2, <3>1
    <2> QED
      BY <1>4, <2>1, <2>2
  <1>6. IsWrites(v \o w)
    BY <1>4, <1>5 DEF IsWrites
  <1>7. \A i \in DOMAIN v : i \in DOMAIN (v \o w) /\ (v \o w)[i] = v[i]
    BY <1>4
  <1>8. ASSUME Len(w) \in DOMAIN w
        PROVE  /\ Len(v \o w) \in DOMAIN (v \o w)
               /\ (v \o w)[Len(v \o w)] = w[Len(w)]
    <2>1. Len(w) \in 1 .. Len(w)
      BY <1>4, <1>8
    <2>2. Len(v) + Len(w) \in 1 .. Len(v) + Len(w) /\ (Len(v) + Len(w)) - Len(v) = Len(w)
          /\ ~(Len(v) + Len(w) <= Len(v))
      BY <1>4, <2>1
    <2> QED
      BY <1>4, <2>2
  <1> QED
    BY <1>5, <1>6, <1>7, <1>8

\* One file.
LEMMA OneWrite ==
    ASSUME NEW n \in {"meta", "tip"}
    PROVE  /\ IsWrites(<<<<n>>>>) /\ DOMAIN <<<<n>>>> = {1} /\ <<<<n>>>>[1][1] = n
  <1> DEFINE f == <<n>>
             w == <<f>>
  <1>1. w \in Seq({f}) /\ DOMAIN w = 1 .. 1 /\ w[1] = f /\ f[1] = n
    OBVIOUS
  <1> HIDE DEF w, f
  <1>2. IsWrites(w) /\ DOMAIN w = {1} /\ w[1][1] = n
    BY <1>1 DEF IsWrites, FileNames
  <1> QED
    BY <1>2 DEF w, f

\* The three files of the ledger.
LedgerFiles == <<<<"utxo">>, <<"coinbase">>, <<"undo">>>>

\* Their names.
LEMMA LedgerWrites ==
    /\ IsWrites(LedgerFiles) /\ DOMAIN LedgerFiles = 1 .. 3
    /\ LedgerFiles[1][1] = "utxo" /\ LedgerFiles[2][1] = "coinbase" /\ LedgerFiles[3][1] = "undo"
  <1>1. LedgerFiles \in Seq({<<"utxo">>, <<"coinbase">>, <<"undo">>})
    BY DEF LedgerFiles
  <1>2. /\ DOMAIN LedgerFiles = 1 .. 3 /\ LedgerFiles[1][1] = "utxo"
        /\ LedgerFiles[2][1] = "coinbase" /\ LedgerFiles[3][1] = "undo"
    BY DEF LedgerFiles
  <1> QED
    BY <1>1, <1>2 DEF IsWrites, FileNames

\* put_block ends with the index of memory.
LEMMA PutWrites ==
    ASSUME NEW m, IsStore(m), NEW b, NEW body, NEW put \in Puts(m, b, body)
    PROVE  /\ IsWrites(put.writes) /\ Len(put.writes) \in DOMAIN put.writes
           /\ put.writes[Len(put.writes)] = <<"index", put.mem.idx>>
  <1> DEFINE new == [m EXCEPT !.blocks = @ \cup {b},
                              !.bodies = IF body THEN @ \cup {b} ELSE @ \ {b},
                              !.idx = [h \in DOMAIN @ \cup {Height[b]} |->
                                           IF h = Height[b] THEN 0 ELSE @[h]]]
             rec == <<"append", Rec(b, body)>>
             files == <<rec, <<"index", new.idx>>>>
  <1>1. IsWrites(files) /\ Len(files) \in DOMAIN files /\ files[Len(files)] = <<"index", new.idx>>
    <2> HIDE DEF new
    <2>1. files \in Seq({rec, <<"index", new.idx>>})
      OBVIOUS
    <2>2. DOMAIN files = 1 .. 2 /\ Len(files) = 2 /\ files[1] = rec
          /\ files[2] = <<"index", new.idx>> /\ rec[1] = "append"
      OBVIOUS
    <2> HIDE DEF files, rec
    <2> QED
      BY <2>1, <2>2 DEF IsWrites, FileNames
  <1>2. put \in Compactions(new, files) \/ put = [mem |-> new, writes |-> files]
    BY DEF Puts
  <1>3. \E x, y, z : new = [m EXCEPT !.blocks = x, !.bodies = y, !.idx = z]
    OBVIOUS
  <1> HIDE DEF new, files, rec
  <1>4. IsStore(new)
    BY <1>3 DEF IsStore
  <1>5. CASE put = [mem |-> new, writes |-> files]
    BY <1>1, <1>5
  <1>6. CASE put \in Compactions(new, files)
    <2>1. PICK S \in OnePerHeight(new) :
              put = [mem |-> Compacted(new, S, IndexOf(Records(new, S))),
                     writes |-> files \o <<<<"rewrite", Records(new, S)>>,
                                           <<"index", IndexOf(Records(new, S))>>>>]
      BY <1>6, Zenon DEF Compactions
    <2> DEFINE r == <<"rewrite", Records(new, S)>>
               x == IndexOf(Records(new, S))
               w == <<r, <<"index", x>>>>
    <2>2. put.mem = Compacted(new, S, x) /\ put.writes = files \o w
      BY <2>1
    <2> HIDE DEF x
    <2>3. put.mem.idx = x
      BY <1>4, <2>2 DEF Compacted, IsStore
    <2>4. IsWrites(w) /\ Len(w) \in DOMAIN w /\ w[Len(w)] = <<"index", x>>
      <3>1. w \in Seq({r, <<"index", x>>})
        OBVIOUS
      <3>2. DOMAIN w = 1 .. 2 /\ Len(w) = 2 /\ w[1] = r /\ w[2] = <<"index", x>> /\ r[1] = "rewrite"
        OBVIOUS
      <3> HIDE DEF w, r
      <3> QED
        BY <3>1, <3>2 DEF IsWrites, FileNames
    <2> HIDE DEF w
    <2> QED
      BY <1>1, <2>2, <2>3, <2>4, WritesConcat
  <1> QED
    BY <1>2, <1>5, <1>6

(***************************************************************************)
(* The ledger.  s is the block of the snapshot that the store started      *)
(* from, or Zero.  Whatever stands on s is in memory down to s, and no     *)
(* other block has the work to replace it.  While reorganize runs, the     *)
(* ledger is the replay of the chain that ends in cur.                     *)
(***************************************************************************)

\* A place that is s or stands on it, with all blocks between.
Stands(s, b) ==
    \/ b = s
    \/ b \in mem.blocks /\ (s = Zero \/ s \in Path[b]) /\ Path[b] \ Path[s] \subseteq mem.blocks

BlocksInv(s) ==
    /\ mem.blocks \subseteq Block /\ s \in mem.blocks \cup {Zero}
    /\ s # Zero => Settled(s) /\ s \in DOMAIN mem.work
    /\ \A b \in mem.blocks : CheckpointOK(b) /\ (b = s \/ HeaderOK(mem.blocks, b))
    /\ \A b \in mem.blocks : Stands(s, b) \/ (s # Zero /\ Height[b] < Height[s])
    /\ \A a \in DOMAIN mem.work : a \in mem.blocks \/ (s # Zero /\ Beats(mem, s, a))

\* A body is gone only where a chain of no more work than the active one has it
\* KeepDepth blocks below its end.
Buried(m, b) ==
    /\ KeepDepth > 0 /\ m.tip # Zero
    /\ \E c \in DOMAIN m.work : /\ Height[b] + KeepDepth <= Height[c]
                                 /\ m.work[c] <= m.work[m.tip]

BodiesInv(m) ==
    /\ \A b \in m.blocks \ m.bodies : Buried(m, b)
    /\ m.compacted \in Nat
    /\ KeepDepth > 0 /\ m.compacted > 0 => \A b \in Block : Height[b] = 0 => Buried(m, b)

\* The ledger, the undo data and the marks, when the block in M has still to be
\* marked.
LedgerInv(s, cur, M) ==
    /\ mem.ledger = Ledger[cur] /\ IsFiniteSet(Path[cur])
    /\ DOMAIN mem.undo = Path[cur] \ Path[s]
    /\ \A b \in DOMAIN mem.undo : mem.undo[b] = UndoOf(Ledger[Parent[b]], b)
    /\ mem.applied \ {Zero} = Path[cur] \ M

IsBestTip(n) ==
    n \in DOMAIN mem.work /\ \A a \in DOMAIN mem.work \ {n} : Beats(mem, n, a)

\* accept_block has made some calls before reorganize, or is not running.
Accepting(s) ==
    /\ LedgerInv(s, mem.tip, {})
    /\ \/ calls = <<>> /\ (mem.tip # Zero => IsBestTip(mem.tip))
       \/ \E b \in Block : /\ calls \in {FromPow(b), FromPut(b)}
                           /\ HeaderOK(mem.blocks, b) /\ CheckpointOK(b)
       \/ \E b \in mem.blocks : calls \in {FromWork(b), FromReorg(b)}

\* The calls of reorganize: what is to be marked, disconnected and connected, and
\* then the tip n.
CallsOf(M, L, J, n) ==
    Rest("mark_applied", M)
        \o (Rest("disconnect", L) \o (Rest("connect", J) \o <<<<"set_tip", {n}>>>>))

Reorging(s, cur, n, M, L, J) ==
    /\ calls = CallsOf(M, L, J, n)
    /\ LedgerInv(s, cur, M)
    /\ M \subseteq {cur} /\ (M # {} => L = {})
    /\ L = Path[cur] \ Path[n] /\ J \subseteq Block \cup {Zero} /\ J \ {Zero} = Path[n] \ Path[cur]
    /\ (L # {} => J # {}) /\ (Zero \in J => cur = Zero)
    /\ Stands(s, n) /\ Path[s] \subseteq Path[cur] /\ IsBestTip(n) /\ mem.tip # n
    /\ \A b \in J \ {Zero} : mem.tip # Zero => b \notin Path[mem.tip]

Stored(s) == BlocksInv(s) /\ BodiesInv(mem) /\ Stands(s, mem.tip)

Phases(s) ==
    \/ Accepting(s) /\ DInv({})
    \/ \E cur \in Block \cup {Zero}, n \in Block : \E M, L, J \in SUBSET (Block \cup {Zero}) :
           Reorging(s, cur, n, M, L, J) /\ DInv(M \cup J)

SInv == WInv /\ \E s \in Block \cup {Zero} : Stored(s) /\ Phases(s)

\* Rolling a valid block back restores the ledger of its parent.
LEMMA BlockUndone ==
    ASSUME AllBlocksValid, FreshCoins, NEW b \in Block
    PROVE  Rollback(Ledger[b], UndoOf(Ledger[Parent[b]], b)) = Ledger[Parent[b]]
  <1> DEFINE s == Ledger[Parent[b]]
             t == ApplyTo(s, b)
             u == UndoOf(s, b)
             r == Rollback(t, u)
  <1>1. s \in State /\ Ledger[b] = t /\ CoinbaseOf[b] \subseteq Creates[b]
    BY TreeAssumption, BlockAssumption, LedgerAssumption
  <1>2. Path[b] \subseteq Block
    BY PathOf
  <1>3. /\ Spends[b] \subseteq s.utxo /\ Creates[b] \cap s.utxo = {}
        /\ EntriesOf(Creates[b], s.coinbase) = {}
    BY <1>2 DEF AllBlocksValid, Valid, FreshCoins
  <1>4. s = [utxo |-> s.utxo, coinbase |-> s.coinbase]
    BY <1>1 DEF State
  <1> HIDE DEF s
  <1>5. r.utxo = s.utxo
    BY <1>3 DEF ApplyTo, UndoOf, Rollback
  <1>6. r.coinbase = s.coinbase
    <2>1. u.coinbaseCreated = CoinbaseOf[b] /\ u.coinbaseSpent = EntriesOf(Spends[b], s.coinbase)
      BY <1>3 DEF UndoOf, EntriesOf
    <2>2. t.coinbase = (s.coinbase \ EntriesOf(Spends[b] \cup CoinbaseOf[b], s.coinbase))
                           \cup CoinbaseEntries(b)
      BY DEF ApplyTo
    <2>3. /\ \A e \in s.coinbase : e[1] \notin CoinbaseOf[b]
          /\ \A e \in CoinbaseEntries(b) : e[1] \in CoinbaseOf[b]
      BY <1>1, <1>3 DEF EntriesOf, CoinbaseEntries
    <2>4. r.coinbase = (t.coinbase \ EntriesOf(u.coinbaseCreated, t.coinbase))
                           \cup u.coinbaseSpent
      BY DEF Rollback
    <2> HIDE DEF r, t, u
    <2> QED
      BY <2>1, <2>2, <2>3, <2>4 DEF EntriesOf
  <1>7. r = [utxo |-> r.utxo, coinbase |-> r.coinbase]
    BY DEF Rollback
  <1> HIDE DEF r
  <1>8. r = s
    BY <1>4, <1>5, <1>6, <1>7
  <1> QED
    BY <1>1, <1>8 DEF r, s

\* Where everything that is to be connected stands.
LEMMA NextUp ==
    ASSUME NEW n \in Block, NEW cur \in Block \cup {Zero}, IsFiniteSet(Path[n]),
           Path[cur] \subseteq Path[n], NEW b \in Path[n] \ Path[cur],
           \A a \in Path[n] \ Path[cur] : b \in Path[a]
    PROVE  b \in Block /\ Parent[b] = cur
  <1>1. b \in Block /\ Path[n] \subseteq Block
    BY PathOf
  <1>2. \A x \in Path[n] : Path[x] \subseteq Path[n] /\ x \in Block /\ IsFiniteSet(Path[x])
    BY <1>1, PathIsChain, FS_Subset
  <1>3. Path[Parent[b]] = Path[b] \ {b}
    BY <1>1, PathOf
  <1>4. \A x \in Path[b] \ {b} : x \in Path[cur]
    BY <1>1, <1>2, PathOrder
  <1>5. \A y \in Path[cur] : y \in Path[b] \ {b}
    <2> SUFFICES ASSUME NEW y \in Path[cur] PROVE y \in Path[b] \ {b}
      OBVIOUS
    <2>1. b \in Path[y] \/ y \in Path[b]
      BY PathIsChain
    <2>2. cur \in Block /\ IsFiniteSet(Path[cur])
      BY PathAssumption, FS_Subset
    <2>3. Path[y] \subseteq Path[cur]
      BY <2>2, PathIsChain
    <2> QED
      BY <2>1, <2>3
  <1>6. Path[Parent[b]] = Path[cur]
    BY <1>3, <1>4, <1>5
  <1>7. Parent[b] \in Block \cup {Zero}
    BY <1>1, PathOf
  <1>8. ASSUME cur # Zero, Parent[b] # Zero PROVE Parent[b] = cur
    <2>1. cur \in Path[cur] /\ Parent[b] \in Path[Parent[b]]
      BY <1>7, <1>8, PathOf
    <2> QED
      BY <1>2, <1>6, <1>7, <1>8, <2>1, PathOrder
  <1> QED
    BY <1>1, <1>6, <1>7, <1>8, PathOf

\* What a place that stands on s has below it.
LEMMA StandsOn ==
    ASSUME NEW s \in Block \cup {Zero}, NEW t \in Block, Stands(s, t), IsFiniteSet(Path[t])
    PROVE  Path[s] \subseteq Path[t] /\ Path[t] \ Path[s] \subseteq mem.blocks
  <1>1. CASE s = t
    BY <1>1
  <1>2. CASE s = Zero
    BY <1>2, PathOf DEF Stands
  <1>3. CASE s # t /\ s # Zero
    <2>1. s \in Path[t]
      BY <1>3 DEF Stands
    <2> QED
      BY <1>3, <2>1, PathIsChain DEF Stands
  <1> QED
    BY <1>1, <1>2, <1>3

\* While two places stand on s, reorganize leaves and joins what only one of
\* them stands on, whatever is in memory below s.
LEMMA WalkDiff ==
    ASSUME NEW s \in Block \cup {Zero}, NEW t \in Block, NEW n \in Block,
           Stands(s, t), Stands(s, n), IsFiniteSet(Path[t]), IsFiniteSet(Path[n])
    PROVE  Walk(mem, t) \ Walk(mem, n) = Path[t] \ Path[n]
  <1>1. Path[s] \subseteq Path[t] /\ Path[s] \subseteq Path[n]
        /\ Path[t] \ Path[s] \subseteq mem.blocks /\ Path[n] \ Path[s] \subseteq mem.blocks
    BY StandsOn
  <1>2. ASSUME NEW a \in Path[t] \ Path[n] PROVE Path[t] \ Path[a] \subseteq mem.blocks
    <2>1. Path[s] \subseteq Path[a]
      <3>1. CASE s = Zero
        BY <3>1, PathAssumption
      <3>2. CASE s # Zero
        <4>1. s \in Path[t] /\ a \notin Path[s] /\ a \in Block
          BY <1>1, <3>2, PathOf
        <4>2. s \in Path[a] /\ IsFiniteSet(Path[a])
          BY <4>1, PathIsChain, FS_Subset
        <4> QED
          BY <4>1, <4>2, PathIsChain
      <3> QED
        BY <3>1, <3>2
    <2> QED
      BY <1>1, <2>1
  <1>3. ASSUME NEW a \in Walk(mem, t), a \notin Walk(mem, n) PROVE a \in Path[t] \ Path[n]
    <2>1. a \in Path[t] \cup {Zero} /\ Path[t] \ Path[a] \subseteq mem.blocks
      BY DEF Walk
    <2>2. a \notin Path[n] \cup {Zero}
      BY <1>1, <1>3, <2>1 DEF Walk
    <2> QED
      BY <2>1, <2>2
  <1>4. ASSUME NEW a \in Path[t] \ Path[n] PROVE a \in Walk(mem, t) \ Walk(mem, n)
    <2>1. a # Zero
      BY PathOf, TreeAssumption
    <2> QED
      BY <1>2, <2>1 DEF Walk
  <1> QED
    BY <1>3, <1>4

(***************************************************************************)
(* The calls that reorganize has still to make.                            *)
(***************************************************************************)

Places == Block \cup {Zero}
CallsOfAll == {"mark_applied", "disconnect", "connect", "set_tip"} \X SUBSET Places

\* What comes after the calls of a name.
LEMMA RestHead ==
    ASSUME NEW x \in {"mark_applied", "disconnect", "connect"}, NEW S \in SUBSET Places,
           NEW q \in Seq(CallsOfAll)
    PROVE  /\ Rest(x, S) \o q \in Seq(CallsOfAll)
           /\ S = {} => Rest(x, S) \o q = q
           /\ S # {} => Head(Rest(x, S) \o q) = <<x, S>> /\ Tail(Rest(x, S) \o q) = q
  <1> DEFINE c == <<x, S>>
  <1>1. c \in CallsOfAll
    BY DEF CallsOfAll
  <1>2. CASE S = {}
    BY <1>2 DEF Rest
  <1>3. CASE S # {}
    <2>1. Rest(x, S) = <<c>>
      BY <1>3 DEF Rest
    <2> HIDE DEF c
    <2>2. <<c>> \o q \in Seq(CallsOfAll) /\ Head(<<c>> \o q) = c /\ Tail(<<c>> \o q) = q
      BY <1>1
    <2> QED
      BY <1>3, <2>1, <2>2 DEF c
  <1> QED
    BY <1>2, <1>3

\* The next call of reorganize, and the calls after it.
NextCall(M, L, J, n, x, b) ==
    \/ /\ x = "mark_applied" /\ b \in M /\ Head(calls)[2] = M
       /\ After(b) = CallsOf(M \ {b}, L, J, n)
    \/ /\ x = "disconnect" /\ M = {} /\ b \in L /\ Head(calls)[2] = L
       /\ After(b) = CallsOf({}, L \ {b}, J, n)
    \/ /\ x = "connect" /\ M = {} /\ L = {} /\ b \in J /\ Head(calls)[2] = J
       /\ <<<<"mark_applied", {b}>>>> \o After(b) = CallsOf({b}, {}, J \ {b}, n)
    \/ /\ x = "set_tip" /\ M = {} /\ L = {} /\ J = {} /\ b = n
       /\ After(b) = <<>>

\* Its head is the first that is left: marks, blocks to leave, to join, the tip.
LEMMA CallsHead ==
    ASSUME NEW M \in SUBSET Places, NEW L \in SUBSET Places, NEW J \in SUBSET Places,
           NEW n \in Block, calls = CallsOf(M, L, J, n), NEW x, NEW b, Call(x, b)
    PROVE  NextCall(M, L, J, n, x, b)
  <1> DEFINE c3 == <<"set_tip", {n}>>
             q3 == <<c3>>
             q2 == Rest("connect", J) \o q3
             q1 == Rest("disconnect", L) \o q2
             q0 == Rest("mark_applied", M) \o q1
  <1>1. calls = q0 /\ CallsOf({}, L, J, n) = Rest("mark_applied", {}) \o q1
    BY DEF CallsOf
  <1>2. Head(calls)[1] = x /\ b \in Head(calls)[2] /\ b \in Head(calls)[2]
        /\ After(b) = Rest(x, Head(calls)[2] \ {b}) \o Tail(calls)
    BY DEF Call, After
  <1>3. /\ q3 \in Seq(CallsOfAll) /\ Head(q3) = c3 /\ Tail(q3) = <<>>
        /\ c3[1] = "set_tip" /\ c3[2] = {n}
    <2>1. c3 \in CallsOfAll /\ c3[1] = "set_tip" /\ c3[2] = {n}
      BY DEF CallsOfAll, Places
    <2> HIDE DEF c3
    <2> QED
      BY <2>1
  <1>4. \A S : CallsOf(S, L, J, n) = Rest("mark_applied", S) \o q1
    BY DEF CallsOf
  <1>5. \A S : CallsOf({}, S, J, n) = Rest("mark_applied", {}) \o (Rest("disconnect", S) \o q2)
    BY DEF CallsOf
  <1>6. \A R, S : CallsOf(R, {}, S, n)
                      = Rest("mark_applied", R)
                            \o (Rest("disconnect", {}) \o (Rest("connect", S) \o q3))
    BY DEF CallsOf
  <1> HIDE DEF c3, q3
  <1>7. /\ q2 \in Seq(CallsOfAll) /\ (J = {} => q2 = q3)
        /\ J # {} => Head(q2) = <<"connect", J>> /\ Tail(q2) = q3
    BY <1>3, RestHead
  <1> HIDE DEF q2
  <1>8. /\ q1 \in Seq(CallsOfAll) /\ (L = {} => q1 = q2)
        /\ L # {} => Head(q1) = <<"disconnect", L>> /\ Tail(q1) = q2
    BY <1>7, RestHead
  <1> HIDE DEF q1
  <1>9. /\ M = {} => q0 = q1
        /\ M # {} => Head(q0) = <<"mark_applied", M>> /\ Tail(q0) = q1
    BY <1>8, RestHead
  <1> HIDE DEF q0
  <1>10. CASE M # {}
    <2>1. x = "mark_applied" /\ b \in M /\ Head(calls)[2] = M /\ Tail(calls) = q1
      BY <1>1, <1>2, <1>9, <1>10
    <2>2. After(b) = CallsOf(M \ {b}, L, J, n)
      BY <1>2, <1>4, <2>1
    <2> QED
      BY <2>1, <2>2 DEF NextCall
  <1>11. CASE M = {} /\ L # {}
    <2>1. x = "disconnect" /\ b \in L /\ Head(calls)[2] = L /\ Tail(calls) = q2
      BY <1>1, <1>2, <1>8, <1>9, <1>11
    <2> DEFINE r == Rest("disconnect", L \ {b}) \o q2
    <2>2. After(b) = r
      BY <1>2, <2>1
    <2>3. r \in Seq(CallsOfAll)
      BY <1>7, RestHead
    <2>4. CallsOf({}, L \ {b}, J, n) = Rest("mark_applied", {}) \o r
      BY <1>5
    <2> HIDE DEF r
    <2>5. Rest("mark_applied", {}) \o r = r
      BY <2>3, RestHead
    <2> QED
      BY <1>11, <2>1, <2>2, <2>4, <2>5 DEF NextCall
  <1>12. CASE M = {} /\ L = {} /\ J # {}
    <2>1. x = "connect" /\ b \in J /\ Head(calls)[2] = J /\ Tail(calls) = q3
      BY <1>1, <1>2, <1>7, <1>8, <1>9, <1>12
    <2> DEFINE r == Rest("connect", J \ {b}) \o q3
    <2>2. After(b) = r
      BY <1>2, <2>1
    <2>3. r \in Seq(CallsOfAll)
      BY <1>3, RestHead
    <2>4. CallsOf({b}, {}, J \ {b}, n) = Rest("mark_applied", {b}) \o (Rest("disconnect", {}) \o r)
      BY <1>6
    <2> HIDE DEF r
    <2>5. Rest("disconnect", {}) \o r = r
      BY <2>3, RestHead
    <2>6. Rest("mark_applied", {b}) = <<<<"mark_applied", {b}>>>>
      BY DEF Rest
    <2> QED
      BY <1>12, <2>1, <2>2, <2>4, <2>5, <2>6 DEF NextCall
  <1>13. CASE M = {} /\ L = {} /\ J = {}
    <2>1. x = "set_tip" /\ b = n /\ Tail(calls) = <<>> /\ Head(calls)[2] = {b}
      BY <1>1, <1>2, <1>3, <1>7, <1>8, <1>9, <1>13
    <2>2. Rest(x, {}) = <<>>
      BY DEF Rest
    <2>3. After(b) = Rest(x, {}) \o <<>>
      BY <1>2, <2>1
    <2>4. After(b) = <<>>
      BY <2>2, <2>3
    <2> QED
      BY <1>13, <2>1, <2>4 DEF NextCall
  <1> QED
    BY <1>10, <1>11, <1>12, <1>13

(***************************************************************************)
(* What the calls keep of the blocks in memory.                            *)
(***************************************************************************)

\* A call that changes neither the blocks nor the work.
LEMMA SameBlocks ==
    ASSUME NEW s, mem'.blocks = mem.blocks, mem'.work = mem.work
    PROVE  /\ BlocksInv(s) => BlocksInv(s)'
           /\ \A b : Stands(s, b) => Stands(s, b)'
           /\ \A n : IsBestTip(n) => IsBestTip(n)'
  <1>1. \A a, b : Beats(mem, a, b)' <=> Beats(mem, a, b)
    BY DEF Beats, HeightIn
  <1>2. \A b : Stands(s, b)' <=> Stands(s, b)
    BY DEF Stands
  <1>3. BlocksInv(s) => BlocksInv(s)'
    BY <1>1, <1>2 DEF BlocksInv
  <1>4. \A n : IsBestTip(n) => IsBestTip(n)'
    BY <1>1 DEF IsBestTip
  <1> QED
    BY <1>2, <1>3, <1>4

\* put_block of a block that was accepted.
LEMMA PutKeepsBlocks ==
    ASSUME NEW s \in Block \cup {Zero}, BlocksInv(s), NEW b \in Block, HeightZeroIsGenesis,
           HeaderOK(mem.blocks, b), CheckpointOK(b),
           mem'.blocks = mem.blocks \cup {b}, mem'.work = mem.work,
           \A a \in mem.blocks \cup {b} : IsFiniteSet(Path[a])
    PROVE  BlocksInv(s)' /\ \A c : Stands(s, c) => Stands(s, c)'
  <1>1. \A c : Stands(s, c) => Stands(s, c)'
    BY DEF Stands
  <1>2. \A a \in mem.blocks : CheckpointOK(a) /\ (a = s \/ HeaderOK(mem'.blocks, a))
    BY DEF BlocksInv, HeaderOK
  <1>3. HeaderOK(mem'.blocks, b)
    BY DEF HeaderOK
  <1>4. Stands(s, b)' \/ (s # Zero /\ Height[b] < Height[s])
    <2>1. /\ Parent[b] \in Block \cup {Zero} /\ Path[b] = Path[Parent[b]] \cup {b} /\ b \in Block
          /\ Path[Zero] = {} /\ Height[b] \in Nat
      BY PathOf
    <2>2. ASSUME s # Zero, s # b, Height[b] <= Height[s] PROVE Height[b] < Height[s]
      BY <2>2 DEF BlocksInv, Settled
    <2>3. s # Zero => Height[s] \in Nat
      BY TreeAssumption
    <2>4. CASE Height[b] = 0
      <3>1. Parent[b] = Zero
        BY <2>4 DEF HeightZeroIsGenesis
      <3>2. s = Zero \/ s = b \/ Height[b] < Height[s]
        BY <2>2, <2>3, <2>4
      <3> QED
        BY <2>1, <2>3, <3>1, <3>2 DEF Stands
    <2>5. CASE Parent[b] \in mem.blocks /\ Height[b] = Height[Parent[b]] + 1
      <3>1. Parent[b] \in Block /\ Height[Parent[b]] \in Nat
        BY <2>5, TreeAssumption DEF BlocksInv
      <3>2. CASE Stands(s, Parent[b])
        <4>1. Path[s] \subseteq Path[Parent[b]] /\ Path[Parent[b]] \ Path[s] \subseteq mem.blocks
          BY <2>5, <3>1, <3>2, StandsOn
        <4>2. s = Zero \/ s \in Path[b]
          BY <2>1, <3>1, <3>2, PathOf DEF Stands
        <4> QED
          BY <2>1, <4>1, <4>2 DEF Stands
      <3>3. CASE s # Zero /\ Height[Parent[b]] < Height[s]
        <4>1. Height[b] <= Height[s]
          BY <2>3, <2>5, <3>1, <3>3
        <4> QED
          BY <2>2, <3>3, <4>1 DEF Stands
      <3> QED
        BY <2>5, <3>2, <3>3 DEF BlocksInv
    <2> QED
      BY <2>4, <2>5 DEF HeaderOK
  <1>5. \A a \in mem.blocks : Stands(s, a)' \/ (s # Zero /\ Height[a] < Height[s])
    BY <1>1 DEF BlocksInv
  <1>6. ASSUME NEW a \in DOMAIN mem.work, a \notin mem'.blocks
        PROVE  s # Zero /\ Beats(mem, s, a)'
    <2>1. s # Zero /\ Beats(mem, s, a) /\ s \in mem.blocks
      BY <1>6 DEF BlocksInv
    <2> QED
      BY <1>6, <2>1 DEF Beats, HeightIn
  <1> QED
    BY <1>1, <1>2, <1>3, <1>4, <1>5, <1>6 DEF BlocksInv

\* set_work of a block in memory: every number is that of its chain.
LEMMA WorkKeepsBlocks ==
    ASSUME NEW s \in Block \cup {Zero}, BlocksInv(s), NEW b \in mem.blocks,
           mem'.blocks = mem.blocks,
           DOMAIN mem'.work = DOMAIN mem.work \cup {b},
           \A a \in DOMAIN mem.work : mem'.work[a] = mem.work[a]
    PROVE  BlocksInv(s)' /\ \A c : Stands(s, c) => Stands(s, c)'
  <1>1. \A c : Stands(s, c)' <=> Stands(s, c)
    BY DEF Stands
  <1>2. ASSUME NEW a \in DOMAIN mem'.work, a \notin mem'.blocks
        PROVE  s # Zero /\ Beats(mem, s, a)'
    <2>1. a \in DOMAIN mem.work /\ s # Zero /\ Beats(mem, s, a) /\ s \in DOMAIN mem.work
      BY <1>2 DEF BlocksInv
    <2> QED
      BY <2>1 DEF Beats, HeightIn
  <1>3. s # Zero => s \in DOMAIN mem'.work
    BY DEF BlocksInv
  <1> QED
    BY <1>1, <1>2, <1>3 DEF BlocksInv

(***************************************************************************)
(* What the calls keep of the bodies.                                      *)
(***************************************************************************)

\* compact drops bodies of buried blocks only.
LEMMA CompactionKeepsBodies ==
    ASSUME NEW m, IsStore(m), BodiesInv(m), m.blocks \subseteq Block,
           m.tip \in DOMAIN m.work \cup {Zero},
           \A a \in DOMAIN m.work : m.work[a] \in Nat,
           CompactionDue(m), NEW S \in SUBSET m.blocks, NEW index
    PROVE  BodiesInv(Compacted(m, S, index))
  <1> DEFINE new == Compacted(m, S, index)
             best == HeightIn(m, m.tip)
             gone == {b \in S : Height[b] <= Cutoff(m)}
  <1>1. /\ KeepDepth > 0 /\ best > 0 /\ KeepDepth \in Nat
        /\ best < m.compacted \/ best - m.compacted >= KeepDepth
    BY StoreAssumption DEF CompactionDue
  <1>2. /\ m.tip \in m.blocks /\ m.tip \in Block /\ m.tip # Zero
        /\ best = Height[m.tip] /\ best \in Nat
        /\ m.tip \in DOMAIN m.work /\ m.work[m.tip] \in Nat
    BY <1>1, TreeAssumption DEF HeightIn
  <1>3. Cutoff(m) = (IF best > KeepDepth THEN best - KeepDepth ELSE 0)
    BY DEF Cutoff, Minus
  <1>4. Cutoff(m) \in Nat /\ m.compacted \in Nat
    BY <1>1, <1>2, <1>3 DEF BodiesInv
  <1>5. ASSUME NEW b \in Block, Height[b] <= Cutoff(m), best >= KeepDepth PROVE Buried(m, b)
    <2>1. Height[b] \in Nat
      BY TreeAssumption
    <2>2. Height[b] + KeepDepth <= best
      BY <1>1, <1>2, <1>3, <1>5, <2>1
    <2> QED
      BY <1>1, <1>2, <2>2 DEF Buried
  <1>6. ASSUME NEW b \in Block, Height[b] <= Cutoff(m), best < KeepDepth PROVE Buried(m, b)
    <2>1. Height[b] \in Nat
      BY TreeAssumption
    <2>2. m.compacted > 0 /\ Height[b] = 0
      BY <1>1, <1>2, <1>3, <1>4, <1>6, <2>1
    <2> QED
      BY <1>1, <2>2 DEF BodiesInv
  <1>7. \A b \in Block : Height[b] <= Cutoff(m) => Buried(m, b)
    BY <1>1, <1>2, <1>5, <1>6
  <1>8. /\ new.blocks = m.blocks /\ new.work = m.work /\ new.tip = m.tip
        /\ new.bodies = m.bodies \ gone /\ new.compacted = Cutoff(m)
    <2>1. \A x, y, z : LET k == [m EXCEPT !.idx = x, !.bodies = y, !.compacted = z]
                       IN  /\ k.blocks = m.blocks /\ k.work = m.work /\ k.tip = m.tip
                           /\ k.bodies = y /\ k.compacted = z
      BY DEF IsStore
    <2> QED
      BY <2>1 DEF Compacted
  <1>9. \A b : Buried(new, b) <=> Buried(m, b)
    BY <1>8 DEF Buried
  <1>10. \A b \in new.blocks \ new.bodies : Buried(new, b)
    <2> SUFFICES ASSUME NEW b \in new.blocks \ new.bodies PROVE Buried(m, b)
      BY <1>9
    <2>1. b \in m.blocks \ m.bodies \/ (b \in Block /\ Height[b] <= Cutoff(m))
      BY <1>8
    <2> QED
      BY <1>7, <2>1 DEF BodiesInv
  <1>11. \A b \in Block : Height[b] = 0 => Buried(new, b)
    BY <1>4, <1>7, <1>9
  <1> QED
    BY <1>4, <1>8, <1>10, <1>11 DEF BodiesInv

\* put_block with a body.
LEMMA PutKeepsBodies ==
    ASSUME NEW m, IsStore(m), BodiesInv(m), m.blocks \subseteq Block,
           m.tip \in DOMAIN m.work \cup {Zero},
           \A a \in DOMAIN m.work : m.work[a] \in Nat,
           NEW b \in Block, NEW body, body, NEW put \in Puts(m, b, body)
    PROVE  BodiesInv(put.mem)
  <1> DEFINE new == [m EXCEPT !.blocks = @ \cup {b},
                              !.bodies = IF body THEN @ \cup {b} ELSE @ \ {b},
                              !.idx = [h \in DOMAIN @ \cup {Height[b]} |->
                                           IF h = Height[b] THEN 0 ELSE @[h]]]
             files == <<<<"append", Rec(b, body)>>, <<"index", new.idx>>>>
  <1>1. \/ CompactionDue(new) /\ put \in Compactions(new, files)
        \/ put = [mem |-> new, writes |-> files]
    BY DEF Puts
  <1>2. \E x : new = [m EXCEPT !.blocks = m.blocks \cup {b}, !.bodies = m.bodies \cup {b},
                          !.idx = x]
    OBVIOUS
  <1> HIDE DEF new, files
  <1>3. /\ IsStore(new) /\ new.blocks = m.blocks \cup {b} /\ new.bodies = m.bodies \cup {b}
        /\ new.work = m.work /\ new.tip = m.tip /\ new.compacted = m.compacted
    BY <1>2 DEF IsStore
  <1>4. \A a : Buried(new, a) <=> Buried(m, a)
    BY <1>3 DEF Buried
  <1>5. BodiesInv(new)
    BY <1>3, <1>4 DEF BodiesInv
  <1>6. CASE put = [mem |-> new, writes |-> files]
    BY <1>5, <1>6
  <1>7. CASE CompactionDue(new) /\ put \in Compactions(new, files)
    <2>1. PICK S \in OnePerHeight(new) :
              put = [mem |-> Compacted(new, S, IndexOf(Records(new, S))),
                     writes |-> files \o <<<<"rewrite", Records(new, S)>>,
                                           <<"index", IndexOf(Records(new, S))>>>>]
      BY <1>7, Zenon DEF Compactions
    <2> DEFINE x == IndexOf(Records(new, S))
    <2>2. put.mem = Compacted(new, S, x)
      BY <2>1
    <2>3. S \in SUBSET new.blocks
      BY DEF OnePerHeight
    <2> HIDE DEF x
    <2> QED
      BY <1>3, <1>5, <1>7, <2>2, <2>3, CompactionKeepsBodies
  <1> QED
    BY <1>1, <1>6, <1>7

(***************************************************************************)
(* The steps of accept_block before reorganize.                            *)
(***************************************************************************)

\* A call that changes nothing of the ledger.
LEMMA SameLedger ==
    ASSUME NEW s, NEW c, NEW M, LedgerInv(s, c, M), mem'.ledger = mem.ledger,
           mem'.undo = mem.undo, mem'.applied = mem.applied
    PROVE  LedgerInv(s, c, M)'
  BY DEF LedgerInv

\* What accept_block calls next.
LEMMA AcceptingCall ==
    ASSUME NEW s, Accepting(s), NEW x, NEW b, Call(x, b)
    PROVE  \/ /\ x \in {"remember_pow", "put_block"} /\ b \in Block
              /\ After(b) = IF x = "put_block" THEN FromWork(b) ELSE FromPut(b)
              /\ HeaderOK(mem.blocks, b) /\ CheckpointOK(b)
           \/ x = "set_work" /\ b \in mem.blocks /\ After(b) = FromReorg(b)
           \/ x = "reorganize" /\ b \in mem.blocks
  <1>1. calls # <<>>
    BY DEF Call
  <1> QED
    BY <1>1, FromCalls DEF Accepting

\* accept_block up to its first call.
LEMMA AcceptStep ==
    ASSUME NEW s \in Block \cup {Zero}, Stored(s), Accepting(s), DInv({}),
           NEW b \in Block, Accept(b)
    PROVE  Stored(s)' /\ Accepting(s)' /\ DInv({})'
  <1>1. /\ mem' = mem /\ disk' = disk /\ writes' = writes /\ writes = <<>>
        /\ HeaderOK(mem.blocks, b) /\ CheckpointOK(b) /\ calls' = FromPow(b)
    BY DEF Accept, Idle, FromPow
  <1>2. Stored(s)'
    BY <1>1, SameBlocks DEF Stored
  <1>3. LedgerInv(s, mem.tip, {})'
    BY <1>1, SameLedger DEF Accepting
  <1>4. Accepting(s)'
    BY <1>1, <1>3 DEF Accepting
  <1>5. DInv({})'
    BY <1>1 DEF DInv, IsWrites, Pending, IndexInv
  <1> QED
    BY <1>2, <1>4, <1>5

\* remember_pow.
LEMMA RememberPowStep ==
    ASSUME NEW s \in Block \cup {Zero}, Stored(s), Accepting(s), DInv({}), NEW b, RememberPow(b)
    PROVE  Stored(s)' /\ Accepting(s)' /\ DInv({})'
  <1>1. /\ Call("remember_pow", b) /\ calls' = After(b) /\ mem' = mem /\ disk' = disk
        /\ writes = <<>> /\ writes' = <<<<"meta">>>>
    BY DEF RememberPow, Call
  <1>2. b \in Block /\ After(b) = FromPut(b) /\ HeaderOK(mem.blocks, b) /\ CheckpointOK(b)
    BY <1>1, AcceptingCall
  <1>3. Stored(s)'
    BY <1>1, SameBlocks DEF Stored
  <1>4. LedgerInv(s, mem.tip, {})'
    BY <1>1, SameLedger DEF Accepting
  <1>5. Accepting(s)'
    BY <1>1, <1>2, <1>4 DEF Accepting
  <1>6. IsWrites(writes') /\ Pending("meta")' /\ ~Pending("index")'
    BY <1>1, OneWrite DEF Pending
  <1>7. DInv({})'
    BY <1>1, <1>6, CallKeeps
  <1> QED
    BY <1>3, <1>5, <1>7

\* The work of every block is a number.
LEMMA WorkIsNat ==
    ASSUME WInv
    PROVE  /\ IsStore(mem) /\ mem.tip \in DOMAIN mem.work \cup {Zero}
           /\ DOMAIN mem.work \subseteq Block
           /\ \A a \in DOMAIN mem.work : /\ IsFiniteSet(Path[a]) /\ mem.work[a] = ChainWork[a]
                                         /\ mem.work[a] \in Nat
  BY ChainWorkNat DEF WInv, WorkIsTotal

\* put_block.
LEMMA PutBlockStep ==
    ASSUME NEW s \in Block \cup {Zero}, Stored(s), Accepting(s), DInv({}), NEW b, PutBlock(b),
           WInv, HeightZeroIsGenesis
    PROVE  Stored(s)' /\ Accepting(s)' /\ DInv({})'
  <1>1. Call("put_block", b) /\ calls' = After(b) /\ disk' = disk /\ writes = <<>>
    BY DEF PutBlock, Call
  <1>2. b \in Block /\ After(b) = FromWork(b) /\ HeaderOK(mem.blocks, b) /\ CheckpointOK(b)
    BY <1>1, AcceptingCall
  <1>3. /\ IsStore(mem) /\ mem.tip \in DOMAIN mem.work \cup {Zero}
        /\ DOMAIN mem.work \subseteq Block
        /\ \A a \in DOMAIN mem.work : IsFiniteSet(Path[a]) /\ mem.work[a] \in Nat
    BY WorkIsNat
  <1>4. mem.blocks \subseteq DOMAIN mem.work /\ Parent[b] \in DOMAIN mem.work \cup {Zero}
    BY <1>1, CallsSplit DEF WInv
  <1>5. PICK body : body /\ \E put \in Puts(mem, b, body) : mem' = put.mem /\ writes' = put.writes
    BY DEF PutBlock
  <1>6. PICK put \in Puts(mem, b, body) : mem' = put.mem /\ writes' = put.writes
    BY <1>5
  <1>7. IsPut(mem, b, put.mem)
    BY <1>3, PutsKeep
  <1>8. /\ mem'.blocks = mem.blocks \cup {b} /\ mem'.work = mem.work /\ mem'.tip = mem.tip
        /\ mem'.ledger = mem.ledger /\ mem'.undo = mem.undo /\ mem'.applied = mem.applied
    BY <1>6, <1>7 DEF IsPut
  <1>9. \A a \in mem.blocks \cup {b} : IsFiniteSet(Path[a])
    <2>1. IsFiniteSet(Path[Parent[b]])
      BY <1>3, <1>4, PathAssumption, FS_EmptySet
    <2>2. IsFiniteSet(Path[b])
      BY <1>2, <2>1, ChainWorkStep
    <2> QED
      BY <1>3, <1>4, <2>2
  <1>10. BlocksInv(s)' /\ \A c : Stands(s, c) => Stands(s, c)'
    BY <1>2, <1>8, <1>9, PutKeepsBlocks DEF Stored
  <1>11. BodiesInv(put.mem)
    <2>1. BodiesInv(mem) /\ mem.blocks \subseteq Block
      BY DEF Stored, BlocksInv
    <2> QED
      BY <1>2, <1>3, <1>5, <2>1, PutKeepsBodies
  <1>12. Stored(s)'
    BY <1>6, <1>8, <1>10, <1>11 DEF Stored
  <1>13. LedgerInv(s, mem.tip, {})'
    BY <1>8, SameLedger DEF Accepting
  <1>14. Accepting(s)'
    BY <1>1, <1>2, <1>8, <1>13 DEF Accepting
  <1>15. /\ IsWrites(put.writes) /\ Len(put.writes) \in DOMAIN put.writes
         /\ put.writes[Len(put.writes)] = <<"index", put.mem.idx>>
    BY <1>3, PutWrites
  <1>16. DInv({})'
    BY <1>1, <1>6, <1>8, <1>15, CallKeeps
  <1> QED
    BY <1>12, <1>14, <1>16

\* set_work.
LEMMA SetWorkStep ==
    ASSUME NEW s \in Block \cup {Zero}, Stored(s), Accepting(s), DInv({}), NEW b, SetWork(b),
           WInv, WInv'
    PROVE  Stored(s)' /\ Accepting(s)' /\ DInv({})'
  <1>1. /\ Call("set_work", b) /\ calls' = After(b) /\ disk' = disk /\ writes = <<>>
        /\ writes' = <<<<"meta">>>>
    BY DEF SetWork, Call
  <1>2. b \in mem.blocks /\ b \in Block /\ After(b) = FromReorg(b)
    BY <1>1, AcceptingCall DEF Stored, BlocksInv
  <1>3. /\ IsStore(mem) /\ mem.tip \in DOMAIN mem.work \cup {Zero}
        /\ DOMAIN mem.work \subseteq Block
        /\ \A a \in DOMAIN mem.work : mem.work[a] = ChainWork[a] /\ mem.work[a] \in Nat
    BY WorkIsNat
  <1> DEFINE f == [a \in DOMAIN mem.work \cup {b} |->
                      IF a = b THEN WorkIn(mem, Parent[b]) + BlockWork[b] ELSE mem.work[a]]
  <1>4. mem' = [mem EXCEPT !.work = f] /\ DOMAIN f = DOMAIN mem.work \cup {b}
    BY DEF SetWork
  <1> HIDE DEF f
  <1>5. /\ mem'.blocks = mem.blocks /\ mem'.tip = mem.tip /\ mem'.bodies = mem.bodies
        /\ mem'.compacted = mem.compacted /\ mem'.idx = mem.idx
        /\ mem'.ledger = mem.ledger /\ mem'.undo = mem.undo /\ mem'.applied = mem.applied
        /\ DOMAIN mem'.work = DOMAIN mem.work \cup {b}
    BY <1>3, <1>4 DEF IsStore
  <1>6. \A a \in DOMAIN mem'.work : mem'.work[a] = ChainWork[a]
    BY DEF WInv, WorkIsTotal
  <1>7. \A a \in DOMAIN mem.work : mem'.work[a] = mem.work[a]
    BY <1>3, <1>5, <1>6
  <1>8. BlocksInv(s)' /\ \A c : Stands(s, c) => Stands(s, c)'
    BY <1>2, <1>5, <1>7, WorkKeepsBlocks DEF Stored
  <1>9. BodiesInv(mem')
    <2>1. \A a : Buried(mem, a) => Buried(mem', a)
      BY <1>3, <1>5, <1>7 DEF Buried
    <2> QED
      BY <1>5, <2>1 DEF Stored, BodiesInv
  <1>10. Stored(s)'
    BY <1>5, <1>8, <1>9 DEF Stored
  <1>11. LedgerInv(s, mem.tip, {})'
    BY <1>5, SameLedger DEF Accepting
  <1>12. Accepting(s)'
    BY <1>1, <1>2, <1>5, <1>11 DEF Accepting
  <1>13. IsWrites(writes') /\ Pending("meta")' /\ ~Pending("index")'
    BY <1>1, OneWrite DEF Pending
  <1>14. DInv({})'
    BY <1>1, <1>5, <1>13, CallKeeps
  <1> QED
    BY <1>10, <1>12, <1>14

(***************************************************************************)
(* The plan of reorganize.                                                 *)
(***************************************************************************)

\* The plan is such calls.
LEMMA PlanIsCalls ==
    ASSUME NEW L \in SUBSET Places, NEW J \in SUBSET Places, NEW n \in Block
    PROVE  Rest("disconnect", L) \o Rest("connect", J) \o <<<<"set_tip", {n}>>>>
               = CallsOf({}, L, J, n)
  <1> DEFINE c1 == <<"disconnect", L>>
             c2 == <<"connect", J>>
             c3 == <<"set_tip", {n}>>
             r1 == Rest("disconnect", L)
             r2 == Rest("connect", J)
             q == <<c3>>
  <1>1. c1 \in CallsOfAll /\ c2 \in CallsOfAll /\ c3 \in CallsOfAll
    BY DEF CallsOfAll, Places
  <1>2. (r1 = <<>> \/ r1 = <<c1>>) /\ (r2 = <<>> \/ r2 = <<c2>>)
    BY DEF Rest
  <1>3. CallsOf({}, L, J, n) = Rest("mark_applied", {}) \o (r1 \o (r2 \o q))
    BY DEF CallsOf
  <1>4. Rest("mark_applied", {}) = <<>>
    BY DEF Rest
  <1> HIDE DEF r1, r2, c1, c2, c3
  <1>5. r1 \in Seq(CallsOfAll) /\ r2 \in Seq(CallsOfAll) /\ q \in Seq(CallsOfAll)
    <2>1. <<c1>> \in Seq(CallsOfAll) /\ <<c2>> \in Seq(CallsOfAll) /\ <<c3>> \in Seq(CallsOfAll)
      BY <1>1
    <2>2. <<>> \in Seq(CallsOfAll)
      OBVIOUS
    <2> HIDE DEF q
    <2>3. q \in Seq(CallsOfAll)
      BY <2>1 DEF q
    <2> QED
      BY <1>2, <2>1, <2>2, <2>3
  <1> HIDE DEF q
  <1>6. r1 \o (r2 \o q) = (r1 \o r2) \o q
    BY <1>5
  <1>7. <<>> \o (r1 \o (r2 \o q)) = r1 \o (r2 \o q)
    BY <1>5
  <1> QED
    BY <1>3, <1>4, <1>6, <1>7 DEF r1, r2, q, c3

\* The heaviest block on record stands on s, in memory.
LEMMA BestStands ==
    ASSUME NEW s \in Block \cup {Zero}, WInv, BlocksInv(s), NEW n \in Block, IsBestTip(n),
           mem.blocks \subseteq DOMAIN mem.work
    PROVE  n \in mem.blocks /\ Stands(s, n)
  <1>1. /\ DOMAIN mem.work \subseteq Block /\ n \in DOMAIN mem.work
        /\ \A a \in DOMAIN mem.work : mem.work[a] = ChainWork[a] /\ mem.work[a] \in Nat
    BY WorkIsNat DEF IsBestTip
  <1>2. n \in mem.blocks
    <2> SUFFICES ASSUME n \notin mem.blocks PROVE FALSE
      OBVIOUS
    <2>1. s \in mem.blocks /\ Beats(mem, s, n) /\ s \in DOMAIN mem.work
      BY <1>1 DEF BlocksInv
    <2>2. s # n
      BY <2>1
    <2>3. Beats(mem, n, s)
      BY <2>1, <2>2 DEF IsBestTip
    <2> QED
      BY <1>1, <2>1, <2>3, BeatsOne
  <1>3. ASSUME s # Zero, Height[n] < Height[s] PROVE FALSE
    <2>1. s \in DOMAIN mem.work /\ Settled(s) /\ s \in Block
      BY <1>3 DEF BlocksInv
    <2>2. Height[n] \in Nat /\ Height[s] \in Nat
      BY <2>1, TreeAssumption
    <2>3. n # s /\ CheckpointOK(n) /\ Height[n] <= Height[s]
      BY <1>2, <1>3, <2>2 DEF BlocksInv
    <2>4. ChainWork[n] < ChainWork[s]
      BY <2>1, <2>3 DEF Settled
    <2>5. Beats(mem, n, s)
      BY <2>1, <2>3 DEF IsBestTip
    <2> QED
      BY <1>1, <2>1, <2>4, <2>5 DEF Beats
  <1> QED
    BY <1>2, <1>3 DEF BlocksInv

\* reorganize.
LEMMA ReorganizeStep ==
    ASSUME NEW s \in Block \cup {Zero}, Stored(s), Accepting(s), DInv({}),
           NEW b, Reorganize(b), WInv
    PROVE  Stored(s)' /\ Phases(s)'
  <1>a. PICK W, n, t : W = DOMAIN mem.work /\ n = BestTip(mem) /\ t = mem.tip
    OBVIOUS
  <1>b. PICK L, J : /\ L = IF t = Zero THEN {} ELSE Walk(mem, t) \ Walk(mem, n)
                    /\ J = IF t = Zero THEN Walk(mem, n) ELSE Walk(mem, n) \ Walk(mem, t)
    OBVIOUS
  <1>1. /\ Call("reorganize", b) /\ calls' = Plan(mem) /\ mem' = mem /\ writes' = writes
        /\ disk' = disk
    BY DEF Reorganize, Call
  <1>2. mem.blocks \subseteq W /\ b \in W
    BY <1>a, <1>1, CallsSplit DEF WInv
  <1>3. /\ IsFiniteSet(W) /\ t \in W \cup {Zero} /\ W \subseteq Block
        /\ \A a \in W : IsFiniteSet(Path[a]) /\ mem.work[a] = ChainWork[a] /\ mem.work[a] \in Nat
    BY <1>a, WorkIsNat DEF WInv, WorkIsTotal
  <1>4. IsBestTip(n) /\ n \in Block
    <2>1. n \in W /\ \A a \in W \ {n} : Beats(mem, n, a)
      BY <1>a, <1>2, <1>3, BestTipBeats
    <2> QED
      BY <1>a, <1>3, <2>1 DEF IsBestTip
  <1>5. Plan(mem) = IF n = t THEN <<>>
                    ELSE Rest("disconnect", L) \o Rest("connect", J) \o <<<<"set_tip", {n}>>>>
    BY <1>a, <1>b DEF Plan
  <1>6. BlocksInv(s) /\ Stands(s, t) /\ LedgerInv(s, t, {})
    BY <1>a DEF Stored, Accepting
  <1>7. n \in mem.blocks /\ Stands(s, n)
    BY <1>a, <1>2, <1>4, <1>6, BestStands
  <1>8. Stored(s)' /\ LedgerInv(s, t, {})'
    BY <1>a, <1>1, <1>6, SameBlocks, SameLedger DEF Stored
  <1>9. \A X : DInv(X)'
    BY <1>1 DEF DInv, IsWrites, Pending, IndexInv
  <1>10. CASE n = t
    <2>1. Accepting(s)'
      BY <1>1, <1>4, <1>5, <1>8, <1>10, <1>a, SameBlocks DEF Accepting
    <2> QED
      BY <1>8, <1>9, <2>1 DEF Phases
  <1>11. CASE n # t
    <2>1. /\ L = Path[t] \ Path[n] /\ J \ {Zero} = Path[n] \ Path[t] /\ (Zero \in J => t = Zero)
          /\ J \subseteq Block \cup {Zero} /\ Path[s] \subseteq Path[t]
      <3>1. CASE t = Zero
        <4>1. s = Zero /\ Path[Zero] = {}
          BY <1>6, <3>1, PathAssumption, TreeAssumption DEF Stands, BlocksInv
        <4>2. Path[n] \subseteq mem.blocks /\ Path[n] \subseteq Block
          BY <1>4, <1>7, <4>1, StandsOn, <1>3, <1>a, PathOf DEF IsBestTip
        <4>3. Walk(mem, n) = Path[n] \cup {Zero}
          BY <4>1, <4>2 DEF Walk
        <4>4. Zero \notin Path[n]
          BY <4>2, TreeAssumption
        <4> QED
          BY <3>1, <4>1, <4>2, <4>3, <4>4, <1>b
      <3>2. CASE t # Zero
        <4>1. t \in Block /\ IsFiniteSet(Path[t]) /\ IsFiniteSet(Path[n])
          BY <1>a, <1>3, <1>4, <3>2 DEF IsBestTip
        <4>2. L = Path[t] \ Path[n] /\ J = Path[n] \ Path[t]
          BY <1>4, <1>6, <1>7, <3>2, <4>1, WalkDiff, <1>b
        <4>3. Path[n] \subseteq Block /\ Path[s] \subseteq Path[t]
          BY <1>4, <1>6, <4>1, PathOf, StandsOn
        <4> QED
          BY <4>2, <4>3, TreeAssumption
      <3> QED
        BY <3>1, <3>2
    <2>2. L # {} => J # {}
      <3> SUFFICES ASSUME L # {}, J = {} PROVE FALSE
        OBVIOUS
      <3>1. t # Zero /\ t \in W /\ t \in Block /\ n \in W
        BY <1>a, <1>3, <1>4, <2>1, PathAssumption DEF IsBestTip
      <3>2. n \in Path[t]
        BY <1>4, <2>1, PathOf
      <3>3. ChainWork[n] < ChainWork[t]
        BY <1>3, <1>11, <3>1, <3>2, WorkGrows
      <3>4. Beats(mem, n, t)
        BY <1>a, <1>4, <1>11, <3>1 DEF IsBestTip
      <3> QED
        BY <1>3, <3>1, <3>3, <3>4 DEF Beats
    <2>3. t \in Block \cup {Zero} /\ L \in SUBSET Places /\ J \in SUBSET Places
      <3>1. t \in Block \cup {Zero}
        BY <1>3
      <3>2. Path[t] \subseteq Block
        BY <3>1, PathAssumption
      <3> QED
        BY <2>1, <3>1, <3>2 DEF Places
    <2>4. calls' = CallsOf({}, L, J, n)
      BY <1>1, <1>4, <1>5, <1>11, <2>3, PlanIsCalls
    <2>5. Stands(s, n)' /\ IsBestTip(n)' /\ mem'.tip = t
      BY <1>a, <1>1, <1>4, <1>7, SameBlocks
    <2>6. \A a \in J \ {Zero} : t # Zero => a \notin Path[t]
      BY <2>1
    <2>7. Reorging(s, t, n, {}, L, J)'
      BY <1>8, <1>11, <2>1, <2>2, <2>4, <2>5, <2>6 DEF Reorging
    <2>8. {} \in SUBSET (Block \cup {Zero}) /\ L \in SUBSET (Block \cup {Zero})
          /\ J \in SUBSET (Block \cup {Zero})
      BY <2>3 DEF Places
    <2>9. Phases(s)'
      BY <1>4, <1>9, <2>3, <2>7, <2>8 DEF Phases
    <2> QED
      BY <1>8, <2>9
  <1> QED
    BY <1>10, <1>11

(***************************************************************************)
(* The steps of reorganize.                                                *)
(***************************************************************************)

\* Only the ledger, the undo data and the marks have changed.
Relabelled(m, k, x, y, z) ==
    /\ IsStore(k) /\ k.ledger = x /\ k.undo = y /\ k.applied = z
    /\ k.idx = m.idx /\ k.work = m.work /\ k.tip = m.tip /\ k.blocks = m.blocks
    /\ k.bodies = m.bodies /\ k.compacted = m.compacted

\* What the calls of reorganize assign to.
LEMMA LedgerFields ==
    ASSUME NEW m, IsStore(m), NEW x, NEW y, NEW z
    PROVE  /\ Relabelled(m, [m EXCEPT !.ledger = x, !.undo = y], x, y, m.applied)
           /\ Relabelled(m, [m EXCEPT !.ledger = x, !.undo = y, !.applied = z], x, y, z)
           /\ Relabelled(m, [m EXCEPT !.applied = z], m.ledger, m.undo, z)
  <1> USE DEF Relabelled
  <1> DEFINE p == [m EXCEPT !.ledger = x]
             q == [p EXCEPT !.undo = y]
             r == [q EXCEPT !.applied = z]
  <1>1. Relabelled(m, p, x, m.undo, m.applied)
    BY DEF IsStore
  <1>2. /\ q = [m EXCEPT !.ledger = x, !.undo = y]
        /\ r = [m EXCEPT !.ledger = x, !.undo = y, !.applied = z]
    OBVIOUS
  <1> HIDE DEF p
  <1>3. Relabelled(m, q, x, y, m.applied)
    BY <1>1 DEF IsStore
  <1> HIDE DEF q
  <1>4. Relabelled(m, r, x, y, z)
    BY <1>3 DEF IsStore
  <1>5. Relabelled(m, [m EXCEPT !.applied = z], m.ledger, m.undo, z)
    BY DEF IsStore
  <1> HIDE DEF r, Relabelled
  <1> QED
    BY <1>2, <1>3, <1>4, <1>5

\* More blocks to connect or to mark, less that the files must say.
LEMMA LateGrows ==
    ASSUME NEW X, NEW Y, DInv(X), Y # {}
    PROVE  DInv(Y)
  BY DEF DInv

\* disconnect.
LEMMA DisconnectStep ==
    ASSUME NEW s \in Block \cup {Zero}, Stored(s), WInv, AllBlocksValid, FreshCoins,
           NEW cur \in Places, NEW n \in Block,
           NEW M \in SUBSET Places, NEW L \in SUBSET Places, NEW J \in SUBSET Places,
           Reorging(s, cur, n, M, L, J), DInv(M \cup J), NEW b, Disconnect(b)
    PROVE  /\ Stored(s)' /\ Parent[cur] \in Places
           /\ Reorging(s, Parent[cur], n, {}, L \ {b}, J)' /\ DInv({} \cup J)'
  <1>1. /\ Call("disconnect", b) /\ Head(calls)[2] \subseteq Path[b] \cup {Zero}
        /\ calls' = After(b) /\ writes = <<>> /\ writes' = LedgerFiles /\ disk' = disk
    BY DEF Disconnect, Call, LedgerFiles
  <1>2. M = {} /\ b \in L /\ Head(calls)[2] = L /\ calls' = CallsOf({}, L \ {b}, J, n)
    <2>1. NextCall(M, L, J, n, "disconnect", b)
      BY <1>1, CallsHead DEF Reorging
    <2> QED
      BY <1>1, <2>1 DEF NextCall
  <1>3. /\ L = Path[cur] \ Path[n] /\ J \ {Zero} = Path[n] \ Path[cur] /\ IsFiniteSet(Path[cur])
        /\ (Zero \in J => cur = Zero) /\ J # {} /\ Path[s] \subseteq Path[cur]
        /\ Stands(s, n) /\ IsBestTip(n) /\ mem.tip # n /\ n \in DOMAIN mem.work
    BY <1>2 DEF Reorging, LedgerInv, IsBestTip
  <1>4. /\ IsStore(mem) /\ IsFiniteSet(Path[n])
    BY <1>3, WorkIsNat
  <1>5. cur \in Block /\ b \in Path[cur] /\ b \notin Path[n] /\ b \in Block
    BY <1>2, <1>3, PathAssumption DEF Places
  <1>6. b = cur
    <2>1. cur \notin Path[n]
      BY <1>4, <1>5, PathIsChain
    <2>2. cur \in Path[b]
      BY <1>1, <1>2, <1>3, <1>5, <2>1, PathOf
    <2>3. IsFiniteSet(Path[b])
      BY <1>3, <1>5, PathIsChain, FS_Subset
    <2> QED
      BY <1>3, <1>5, <2>2, <2>3, PathOrder
  <1>7. /\ Parent[cur] \in Places /\ Path[Parent[cur]] = Path[cur] \ {cur}
        /\ IsFiniteSet(Path[Parent[cur]])
    BY <1>3, <1>5, PathOf, FS_Subset DEF Places
  <1>8. Path[s] \subseteq Path[n]
    BY <1>3, <1>4, StandsOn
  <1> DEFINE x == IF b \in DOMAIN mem.undo THEN Rollback(mem.ledger, mem.undo[b]) ELSE mem.ledger
             y == Restrict(mem.undo, DOMAIN mem.undo \ {b})
             z == mem.applied \ {b}
  <1>9. mem' = [mem EXCEPT !.ledger = x, !.undo = y, !.applied = z]
    BY DEF Disconnect
  <1>10. LedgerInv(s, cur, {})
    BY <1>2 DEF Reorging
  <1>11. x = Ledger[Parent[cur]]
    <2>1. /\ b \in DOMAIN mem.undo /\ mem.undo[b] = UndoOf(Ledger[Parent[b]], b)
          /\ mem.ledger = Ledger[b]
      BY <1>5, <1>6, <1>8, <1>10 DEF LedgerInv
    <2> QED
      BY <1>5, <1>6, <2>1, BlockUndone
  <1>12. /\ DOMAIN y = DOMAIN mem.undo \ {b}
         /\ \A a \in DOMAIN y : y[a] = mem.undo[a]
    BY DEF Restrict
  <1> HIDE DEF x, y, z
  <1>13. /\ mem'.ledger = x /\ mem'.undo = y /\ mem'.applied = z
         /\ mem'.idx = mem.idx /\ mem'.work = mem.work /\ mem'.tip = mem.tip
         /\ mem'.blocks = mem.blocks /\ mem'.bodies = mem.bodies /\ mem'.compacted = mem.compacted
    <2>1. Relabelled(mem, mem', x, y, z)
      BY <1>4, <1>9, LedgerFields
    <2> QED
      BY <2>1 DEF Relabelled
  <1>14. LedgerInv(s, Parent[cur], {})'
    <2>1. DOMAIN y = Path[Parent[cur]] \ Path[s]
      BY <1>6, <1>7, <1>10, <1>12 DEF LedgerInv
    <2>2. \A a \in DOMAIN y : y[a] = UndoOf(Ledger[Parent[a]], a)
      BY <1>10, <1>12 DEF LedgerInv
    <2>3. z \ {Zero} = Path[Parent[cur]] \ {}
      BY <1>6, <1>7, <1>10 DEF LedgerInv, z
    <2> QED
      BY <1>7, <1>11, <1>13, <2>1, <2>2, <2>3 DEF LedgerInv
  <1>15. Stands(s, n)' /\ IsBestTip(n)' /\ BlocksInv(s)' /\ Stands(s, mem.tip)'
    BY <1>3, <1>13, SameBlocks DEF Stored
  <1>16. BodiesInv(mem')
    <2>1. \A a : Buried(mem, a) => Buried(mem', a)
      BY <1>13 DEF Buried
    <2> QED
      BY <1>13, <2>1 DEF Stored, BodiesInv
  <1>17. Stored(s)'
    BY <1>15, <1>16 DEF Stored
  <1>18. /\ L \ {b} = Path[Parent[cur]] \ Path[n] /\ J \ {Zero} = Path[n] \ Path[Parent[cur]]
         /\ Zero \notin J /\ Path[s] \subseteq Path[Parent[cur]]
    BY <1>3, <1>5, <1>6, <1>7, <1>8, TreeAssumption
  <1>19. \A a \in J \ {Zero} : mem'.tip # Zero => a \notin Path[mem'.tip]
    BY <1>13 DEF Reorging
  <1>20. Reorging(s, Parent[cur], n, {}, L \ {b}, J)'
    BY <1>2, <1>3, <1>13, <1>14, <1>15, <1>18, <1>19 DEF Reorging, Places
  <1>21. IsWrites(writes') /\ Pending("utxo")' /\ Pending("coinbase")' /\ Pending("undo")'
         /\ ~Pending("index")'
    BY <1>1, LedgerWrites DEF Pending
  <1>22. DInv({} \cup J)'
    <2>1. {} \cup J # {} /\ DInv(M \cup J)
      BY <1>3
    <2> QED
      BY <1>1, <1>13, <1>21, <2>1, CallKeeps
  <1> QED
    BY <1>7, <1>17, <1>20, <1>22

\* The lowest block of those to be connected.
Lowest(b, J) == b \in J /\ \A a \in J : b \in Path[a] \cup {Zero}

\* A block that stands on cur and on the way to n, with its body in memory.
NextOn(s, cur, n, b) ==
    /\ b \in Block /\ Parent[b] = cur /\ Path[b] = Path[cur] \cup {b} /\ b \notin Path[cur]
    /\ b \in Path[n] /\ IsFiniteSet(Path[b]) /\ Path[b] \subseteq Path[n]
    /\ b # s /\ b \notin Path[s]
    /\ b \in mem.blocks /\ b \in mem.bodies

\* The block that connect_branch comes to stands on cur, and its body is there.
LEMMA ConnectsNext ==
    ASSUME NEW s \in Block \cup {Zero}, Stored(s), WInv, ShallowForks,
           NEW cur \in Places, NEW n \in Block,
           NEW M \in SUBSET Places, NEW J \in SUBSET Places,
           Reorging(s, cur, n, M, {}, J), NEW b, b # Zero, Lowest(b, J)
    PROVE  Zero \notin J /\ NextOn(s, cur, n, b)
  <1>1. /\ {} = Path[cur] \ Path[n]
        /\ J \ {Zero} = Path[n] \ Path[cur] /\ Path[s] \subseteq Path[cur]
        /\ Stands(s, n) /\ IsBestTip(n) /\ mem.tip # n /\ n \in DOMAIN mem.work
        /\ \A a \in J \ {Zero} : mem.tip # Zero => a \notin Path[mem.tip]
    BY DEF Reorging, IsBestTip
  <1>2. /\ IsFiniteSet(Path[n]) /\ mem.tip \in DOMAIN mem.work \cup {Zero}
        /\ DOMAIN mem.work \subseteq Block
        /\ \A a \in DOMAIN mem.work : mem.work[a] = ChainWork[a] /\ mem.work[a] \in Nat
    BY <1>1, WorkIsNat
  <1>0. b \in J /\ \A a \in J : b \in Path[a] \cup {Zero}
    BY DEF Lowest
  <1>3. Zero \notin J
    BY <1>0, PathAssumption
  <1>4. b \in Path[n] \ Path[cur] /\ \A a \in Path[n] \ Path[cur] : b \in Path[a]
    BY <1>0, <1>1, <1>3
  <1>5. b \in Block /\ Parent[b] = cur
    <2>1. Path[cur] \subseteq Path[n] /\ cur \in Block \cup {Zero}
      BY <1>1 DEF Places
    <2> QED
      BY <1>2, <1>4, <2>1, NextUp
  <1>6. Path[b] = Path[cur] \cup {b} /\ Path[b] \subseteq Path[n] /\ IsFiniteSet(Path[b])
    BY <1>1, <1>2, <1>4, <1>5, PathOf, FS_Subset
  <1>7. b \notin Path[s] /\ b # s
    BY <1>1, <1>4, <1>5, PathOf
  <1>8. b \in mem.blocks
    BY <1>1, <1>2, <1>4, <1>7, StandsOn
  <1>9. b \in mem.bodies
    <2> SUFFICES ASSUME b \notin mem.bodies PROVE FALSE
      OBVIOUS
    <2>1. Buried(mem, b)
      BY <1>8 DEF Stored, BodiesInv
    <2>2. PICK c \in DOMAIN mem.work : /\ Height[b] + KeepDepth <= Height[c]
                                       /\ mem.work[c] <= mem.work[mem.tip]
      BY <2>1 DEF Buried
    <2>3. KeepDepth > 0 /\ mem.tip \in DOMAIN mem.work
      BY <1>2, <2>1 DEF Buried
    <2>4. Beats(mem, n, mem.tip)
      BY <1>1, <2>3 DEF IsBestTip
    <2>5. ChainWork[c] <= ChainWork[mem.tip] /\ ChainWork[c] <= ChainWork[n]
      BY <1>1, <1>2, <2>2, <2>3, <2>4 DEF Beats
    <2>6. c \in Block /\ mem.tip \in Block
      BY <1>2, <2>3
    <2>7. b \in Path[mem.tip] <=> b \in Path[c]
      BY <1>5, <2>2, <2>3, <2>5, <2>6 DEF ShallowForks
    <2>8. b \in Path[n] <=> b \in Path[c]
      BY <1>5, <2>2, <2>3, <2>5, <2>6 DEF ShallowForks
    <2> QED
      BY <1>1, <1>4, <2>1, <2>7, <2>8 DEF Buried
  <1> QED
    BY <1>3, <1>4, <1>5, <1>6, <1>7, <1>8, <1>9 DEF NextOn

\* The block b is applied, when it is one.
Connects(b) == b # Zero => b \in mem.blocks \ mem.applied /\ Applies(mem, b)

\* A block that connect_branch comes to is applied, never skipped or refused.
LEMMA ConnectsApply ==
    ASSUME NEW s \in Block \cup {Zero}, Stored(s), WInv, ShallowForks, AllBlocksValid,
           NEW cur \in Places, NEW n \in Block,
           NEW M \in SUBSET Places, NEW L \in SUBSET Places, NEW J \in SUBSET Places,
           Reorging(s, cur, n, M, L, J), NEW b, CallConnect(b)
    PROVE  /\ M = {} /\ L = {} /\ b \in J
           /\ <<<<"mark_applied", {b}>>>> \o After(b) = CallsOf({b}, {}, J \ {b}, n)
           /\ b = Zero => cur = Zero /\ b \notin mem.blocks \ mem.applied
           /\ Connects(b)
  <1>1. Call("connect", b) /\ \A a \in Head(calls)[2] : b \in Path[a] \cup {Zero}
    BY DEF CallConnect
  <1>2. /\ M = {} /\ L = {} /\ b \in J /\ Head(calls)[2] = J
        /\ <<<<"mark_applied", {b}>>>> \o After(b) = CallsOf({b}, {}, J \ {b}, n)
    <2>1. NextCall(M, L, J, n, "connect", b)
      BY <1>1, CallsHead DEF Reorging
    <2> QED
      BY <2>1 DEF NextCall
  <1>3. b = Zero => cur = Zero /\ b \notin mem.blocks
    BY <1>2, TreeAssumption DEF Reorging, Stored, BlocksInv
  <1>4. ASSUME b # Zero PROVE b \in mem.blocks \ mem.applied /\ Applies(mem, b)
    <2>1. Reorging(s, cur, n, M, {}, J)
      BY <1>2
    <2>2. /\ b \in Block /\ Parent[b] = cur /\ b \notin Path[cur] /\ b # s
          /\ b \in mem.blocks /\ b \in mem.bodies
      <3>1. Lowest(b, J)
        BY <1>1, <1>2 DEF Lowest
      <3>2. NextOn(s, cur, n, b)
        BY <1>4, <2>1, <3>1, ConnectsNext
      <3> QED
        BY <3>2 DEF NextOn
    <2>3. b \notin mem.applied /\ mem.ledger = Ledger[Parent[b]]
      BY <1>2, <1>4, <2>1, <2>2 DEF Reorging, LedgerInv
    <2>4. HeaderOK(mem.blocks, b)
      BY <2>2 DEF Stored, BlocksInv
    <2>5. Valid(mem.ledger, b)
      BY <2>2, <2>3 DEF AllBlocksValid
    <2> QED
      BY <2>2, <2>3, <2>4, <2>5 DEF Applies
  <1> QED
    BY <1>2, <1>3, <1>4 DEF Connects

\* apply_block.
LEMMA ConnectStep ==
    ASSUME NEW s \in Block \cup {Zero}, Stored(s), WInv, ShallowForks, AllBlocksValid,
           NEW cur \in Places, NEW n \in Block,
           NEW M \in SUBSET Places, NEW L \in SUBSET Places, NEW J \in SUBSET Places,
           Reorging(s, cur, n, M, L, J), DInv(M \cup J), NEW b, Connect(b)
    PROVE  /\ Stored(s)' /\ b \in Places
           /\ Reorging(s, b, n, {b}, {}, J \ {b})' /\ DInv({b} \cup (J \ {b}))'
  <1>1. /\ CallConnect(b) /\ Call("connect", b) /\ disk' = disk /\ writes = <<>>
        /\ b \in mem.blocks \ mem.applied /\ calls' = <<<<"mark_applied", {b}>>>> \o After(b)
    BY DEF Connect, CallConnect, Call
  <1>2. /\ M = {} /\ L = {} /\ b \in J /\ calls' = CallsOf({b}, {}, J \ {b}, n) /\ b # Zero
    BY <1>1, ConnectsApply
  <1>3. Reorging(s, cur, n, {}, {}, J)
    BY <1>2
  <1>4. Lowest(b, J)
    <2>1. NextCall(M, L, J, n, "connect", b)
      BY <1>1, CallsHead DEF Reorging
    <2> QED
      BY <1>1, <1>2, <2>1 DEF NextCall, CallConnect, Lowest
  <1>5. /\ b \in Block /\ Parent[b] = cur /\ Path[b] = Path[cur] \cup {b} /\ b \notin Path[cur]
        /\ b \in Path[n] /\ IsFiniteSet(Path[b]) /\ Path[b] \subseteq Path[n]
        /\ Zero \notin J /\ b # s /\ b \notin Path[s]
        /\ b \in mem.blocks /\ b \in mem.bodies
    <2>1. {} \in SUBSET Places
      OBVIOUS
    <2>2. Zero \notin J /\ NextOn(s, cur, n, b)
      BY <1>2, <1>3, <1>4, <2>1, ConnectsNext
    <2> QED
      BY <2>2 DEF NextOn
  <1>6. /\ IsStore(mem) /\ mem.tip \in DOMAIN mem.work \cup {Zero}
        /\ DOMAIN mem.work \subseteq Block
        /\ \A a \in DOMAIN mem.work : mem.work[a] \in Nat
    BY WorkIsNat
  <1>7. PICK m : m = Applied(mem, b)
    OBVIOUS
  <1>8. PICK body : body /\ \E put \in Puts(m, b, body) :
                        mem' = put.mem /\ writes' = LedgerFiles \o put.writes
    BY <1>5, <1>7 DEF Connect, LedgerFiles
  <1>9. PICK put \in Puts(m, b, body) : mem' = put.mem /\ writes' = LedgerFiles \o put.writes
    BY <1>8
  <1>10. PICK x, y : /\ m = [mem EXCEPT !.ledger = x, !.undo = y]
                     /\ x = ApplyTo(mem.ledger, b)
                     /\ y = [a \in DOMAIN mem.undo \cup {b} |->
                                IF a # b THEN mem.undo[a] ELSE UndoOf(mem.ledger, b)]
    BY <1>5, <1>7 DEF Applied
  <1>11. Relabelled(mem, m, x, y, mem.applied)
    BY <1>6, <1>10, LedgerFields
  <1>12. IsPut(m, b, put.mem)
    BY <1>11, PutsKeep DEF Relabelled
  <1>13. /\ mem'.blocks = mem.blocks /\ mem'.work = mem.work /\ mem'.tip = mem.tip
         /\ mem'.ledger = x /\ mem'.undo = y /\ mem'.applied = mem.applied
    BY <1>5, <1>9, <1>11, <1>12 DEF IsPut, Relabelled
  <1>14. BodiesInv(m)
    <2>1. \A a : Buried(mem, a) => Buried(m, a)
      BY <1>11 DEF Buried, Relabelled
    <2> QED
      BY <1>11, <2>1 DEF Stored, BodiesInv, Relabelled
  <1>15. BodiesInv(put.mem)
    <2>1. /\ IsStore(m) /\ m.blocks \subseteq Block /\ m.tip \in DOMAIN m.work \cup {Zero}
          /\ \A a \in DOMAIN m.work : m.work[a] \in Nat
      BY <1>6, <1>11 DEF Relabelled, Stored, BlocksInv
    <2> QED
      BY <1>5, <1>8, <1>14, <2>1, PutKeepsBodies
  <1>16. Stands(s, n)' /\ IsBestTip(n)' /\ BlocksInv(s)' /\ Stands(s, mem.tip)'
    BY <1>3, <1>13, SameBlocks DEF Stored, Reorging
  <1>17. Stored(s)'
    BY <1>9, <1>15, <1>16 DEF Stored
  <1>18. LedgerInv(s, cur, {})
    BY <1>3 DEF Reorging
  <1>19. LedgerInv(s, b, {b})'
    <2>1. x = Ledger[b]
      BY <1>5, <1>10, <1>18, LedgerAssumption DEF LedgerInv
    <2>2. DOMAIN y = Path[b] \ Path[s]
      BY <1>5, <1>10, <1>18 DEF LedgerInv
    <2>3. \A a \in DOMAIN y : y[a] = UndoOf(Ledger[Parent[a]], a)
      BY <1>5, <1>10, <1>18 DEF LedgerInv
    <2>4. mem.applied \ {Zero} = Path[b] \ {b}
      BY <1>5, <1>18 DEF LedgerInv
    <2> QED
      BY <1>5, <1>13, <2>1, <2>2, <2>3, <2>4 DEF LedgerInv
  <1>20. /\ {} = Path[b] \ Path[n] /\ (J \ {b}) \ {Zero} = Path[n] \ Path[b]
         /\ Zero \notin J \ {b} /\ Path[s] \subseteq Path[b] /\ J \ {b} \subseteq Block \cup {Zero}
    BY <1>3, <1>5 DEF Reorging
  <1>21. \A a \in (J \ {b}) \ {Zero} : mem'.tip # Zero => a \notin Path[mem'.tip]
    BY <1>3, <1>13 DEF Reorging
  <1>22. mem'.tip # n
    BY <1>3, <1>13 DEF Reorging
  <1>23. Reorging(s, b, n, {b}, {}, J \ {b})'
    BY <1>1, <1>2, <1>16, <1>19, <1>20, <1>21, <1>22 DEF Reorging
  <1>24. /\ IsWrites(put.writes) /\ Len(put.writes) \in DOMAIN put.writes
         /\ put.writes[Len(put.writes)] = <<"index", put.mem.idx>>
    BY <1>11, PutWrites DEF Relabelled
  <1>25. /\ IsWrites(writes') /\ Len(writes') \in DOMAIN writes'
         /\ writes'[Len(writes')] = <<"index", mem'.idx>>
         /\ Pending("utxo")' /\ Pending("coinbase")' /\ Pending("undo")'
    <2>1. PICK w : w = put.writes
      OBVIOUS
    <2>2. IsWrites(w) /\ Len(w) \in DOMAIN w /\ w[Len(w)] = <<"index", mem'.idx>>
          /\ writes' = LedgerFiles \o w
      BY <1>9, <1>24, <2>1
    <2>3. /\ IsWrites(writes') /\ Len(writes') \in DOMAIN writes'
          /\ writes'[Len(writes')] = w[Len(w)]
          /\ \A i \in DOMAIN LedgerFiles : i \in DOMAIN writes' /\ writes'[i] = LedgerFiles[i]
      <3>1. IsWrites(LedgerFiles)
        BY LedgerWrites
      <3>2. /\ IsWrites(LedgerFiles \o w) /\ Len(LedgerFiles \o w) \in DOMAIN (LedgerFiles \o w)
            /\ (LedgerFiles \o w)[Len(LedgerFiles \o w)] = w[Len(w)]
            /\ \A i \in DOMAIN LedgerFiles : /\ i \in DOMAIN (LedgerFiles \o w)
                                             /\ (LedgerFiles \o w)[i] = LedgerFiles[i]
        BY <2>2, <3>1, WritesConcat
      <3> QED
        BY <2>2, <3>2
    <2>4. \A i \in {1, 2, 3} : i \in DOMAIN writes' /\ writes'[i] = LedgerFiles[i]
      BY <2>3, LedgerWrites
    <2> QED
      BY <2>2, <2>3, <2>4, LedgerWrites DEF Pending
  <1>26. DInv({b} \cup (J \ {b}))'
    <2>1. {b} \cup (J \ {b}) # {}
      OBVIOUS
    <2> QED
      BY <1>1, <1>13, <1>25, <2>1, CallKeeps
  <1> QED
    BY <1>5, <1>17, <1>23, <1>26 DEF Places

\* connect_branch passes the mark of nothing, once the store has no block.
LEMMA SkipStep ==
    ASSUME NEW s \in Block \cup {Zero}, Stored(s), WInv, ShallowForks, AllBlocksValid,
           NEW cur \in Places, NEW n \in Block,
           NEW M \in SUBSET Places, NEW L \in SUBSET Places, NEW J \in SUBSET Places,
           Reorging(s, cur, n, M, L, J), DInv(M \cup J), NEW b, ConnectSkips(b)
    PROVE  /\ Stored(s)' /\ b \in Places
           /\ Reorging(s, cur, n, {b}, {}, J \ {b})' /\ DInv({b} \cup (J \ {b}))'
  <1>1. /\ CallConnect(b) /\ b \notin mem.blocks \ mem.applied /\ disk' = disk /\ mem' = mem
        /\ writes' = writes /\ calls' = <<<<"mark_applied", {b}>>>> \o After(b)
    BY DEF ConnectSkips, CallConnect, Call
  <1>2. /\ M = {} /\ L = {} /\ b \in J /\ calls' = CallsOf({b}, {}, J \ {b}, n)
        /\ b = Zero /\ cur = Zero
    <2>1. CallConnect(b)
      BY <1>1
    <2>2. M = {} /\ L = {} /\ b \in J
      BY <2>1, ConnectsApply
    <2>3. <<<<"mark_applied", {b}>>>> \o After(b) = CallsOf({b}, {}, J \ {b}, n)
      BY <2>1, ConnectsApply
    <2>4. Connects(b)
      BY <2>1, ConnectsApply
    <2>5. b = Zero => cur = Zero
      BY <2>1, ConnectsApply
    <2> QED
      BY <1>1, <2>2, <2>3, <2>4, <2>5 DEF Connects
  <1>3. Stored(s)'
    BY <1>1, SameBlocks DEF Stored
  <1>4. LedgerInv(s, cur, {}) /\ Path[cur] = {}
    BY <1>2, PathAssumption DEF Reorging
  <1>5. LedgerInv(s, cur, {b})
    BY <1>4 DEF LedgerInv
  <1>6. LedgerInv(s, cur, {b})'
    BY <1>1, <1>5, SameLedger
  <1>7. Stands(s, n)' /\ IsBestTip(n)' /\ mem'.tip = mem.tip /\ mem'.tip # n
    BY <1>1, SameBlocks DEF Reorging
  <1>8. /\ {} = Path[cur] \ Path[n] /\ (J \ {b}) \ {Zero} = Path[n] \ Path[cur]
        /\ J \ {b} \subseteq Block \cup {Zero} /\ Zero \notin J \ {b} /\ Path[s] \subseteq Path[cur]
        /\ \A a \in (J \ {b}) \ {Zero} : mem'.tip # Zero => a \notin Path[mem'.tip]
    BY <1>2, <1>7 DEF Reorging
  <1>9. {b} \subseteq {cur} /\ ({b} # {} => {} = {}) /\ ({} # {} => J \ {b} # {})
    BY <1>2
  <1>10. Reorging(s, cur, n, {b}, {}, J \ {b})'
    BY <1>2, <1>6, <1>7, <1>8, <1>9 DEF Reorging
  <1>11. DInv({b} \cup (J \ {b}))'
    <2>1. {b} \cup (J \ {b}) # {}
      OBVIOUS
    <2>2. DInv({b} \cup (J \ {b}))
      BY <2>1, LateGrows
    <2> QED
      BY <1>1, <2>2 DEF DInv, IsWrites, Pending, IndexInv
  <1> QED
    BY <1>2, <1>3, <1>10, <1>11 DEF Places

\* mark_applied.
LEMMA MarkStep ==
    ASSUME NEW s \in Block \cup {Zero}, Stored(s), WInv,
           NEW cur \in Places, NEW n \in Block,
           NEW M \in SUBSET Places, NEW L \in SUBSET Places, NEW J \in SUBSET Places,
           Reorging(s, cur, n, M, L, J), DInv(M \cup J), NEW b, MarkApplied(b)
    PROVE  Stored(s)' /\ Reorging(s, cur, n, {}, L, J)' /\ DInv({} \cup J)'
  <1>1. /\ Call("mark_applied", b) /\ disk' = disk /\ writes = <<>> /\ writes' = <<<<"meta">>>>
        /\ calls' = After(b) /\ mem' = [mem EXCEPT !.applied = @ \cup {b}]
    BY DEF MarkApplied, Call
  <1>2. b \in M /\ calls' = CallsOf(M \ {b}, L, J, n)
    <2>1. NextCall(M, L, J, n, "mark_applied", b)
      BY <1>1, CallsHead DEF Reorging
    <2> QED
      BY <1>1, <2>1 DEF NextCall
  <1>3. M = {b} /\ b = cur /\ M \ {b} = {} /\ L = {}
    BY <1>2 DEF Reorging
  <1>4. LedgerInv(s, cur, {cur})
    BY <1>3 DEF Reorging
  <1>5. PICK z : z = mem.applied \cup {b}
    OBVIOUS
  <1>6. Relabelled(mem, mem', mem.ledger, mem.undo, z)
    BY <1>1, <1>5, WorkIsNat, LedgerFields
  <1>7. /\ mem'.ledger = mem.ledger /\ mem'.undo = mem.undo /\ mem'.applied = z
        /\ mem'.idx = mem.idx /\ mem'.work = mem.work /\ mem'.tip = mem.tip
        /\ mem'.blocks = mem.blocks /\ mem'.bodies = mem.bodies /\ mem'.compacted = mem.compacted
    BY <1>6 DEF Relabelled
  <1>8. z \ {Zero} = Path[cur] \ {}
    <2>1. mem.applied \ {Zero} = Path[cur] \ {cur}
      BY <1>4 DEF LedgerInv
    <2>2. CASE cur = Zero
      BY <1>3, <1>5, <2>1, <2>2, PathAssumption
    <2>3. CASE cur # Zero
      <3>1. cur \in Path[cur]
        BY <2>3, PathOf DEF Places
      <3> QED
        BY <1>3, <1>5, <2>1, <2>3, <3>1
    <2> QED
      BY <2>2, <2>3
  <1>9. LedgerInv(s, cur, {})'
    BY <1>4, <1>7, <1>8 DEF LedgerInv
  <1>10. Stands(s, n)' /\ IsBestTip(n)' /\ BlocksInv(s)' /\ Stands(s, mem.tip)'
    BY <1>7, SameBlocks DEF Stored, Reorging
  <1>11. BodiesInv(mem')
    <2>1. \A a : Buried(mem, a) => Buried(mem', a)
      BY <1>7 DEF Buried
    <2> QED
      BY <1>7, <2>1 DEF Stored, BodiesInv
  <1>12. Stored(s)'
    BY <1>10, <1>11 DEF Stored
  <1>13. /\ L = Path[cur] \ Path[n] /\ J \ {Zero} = Path[n] \ Path[cur]
         /\ J \subseteq Block \cup {Zero} /\ (Zero \in J => cur = Zero)
         /\ Path[s] \subseteq Path[cur]
         /\ mem'.tip # n /\ \A a \in J \ {Zero} : mem'.tip # Zero => a \notin Path[mem'.tip]
    BY <1>7 DEF Reorging
  <1>14. Reorging(s, cur, n, {}, L, J)'
    BY <1>2, <1>3, <1>9, <1>10, <1>13 DEF Reorging
  <1>15. IsWrites(writes') /\ Pending("meta")' /\ ~Pending("index")'
    BY <1>1, OneWrite DEF Pending
  <1>16. DInv({} \cup J)'
    BY <1>1, <1>7, <1>15, CallKeeps
  <1> QED
    BY <1>12, <1>14, <1>16

\* set_tip: all of the branch is connected.
LEMMA SetTipStep ==
    ASSUME NEW s \in Block \cup {Zero}, Stored(s), WInv,
           NEW cur \in Places, NEW n \in Block,
           NEW M \in SUBSET Places, NEW L \in SUBSET Places, NEW J \in SUBSET Places,
           Reorging(s, cur, n, M, L, J), DInv(M \cup J), NEW b, SetTip(b)
    PROVE  Stored(s)' /\ Accepting(s)' /\ DInv({})'
  <1>1. /\ Call("set_tip", b) /\ disk' = disk /\ writes = <<>> /\ writes' = <<<<"tip">>>>
        /\ calls' = After(b) /\ mem' = [mem EXCEPT !.tip = b]
    BY DEF SetTip, Call
  <1>2. M = {} /\ L = {} /\ J = {} /\ b = n /\ calls' = <<>>
    <2>1. NextCall(M, L, J, n, "set_tip", b)
      BY <1>1, CallsHead DEF Reorging
    <2> QED
      BY <1>1, <2>1 DEF NextCall
  <1>3. /\ LedgerInv(s, cur, {}) /\ IsFiniteSet(Path[cur]) /\ Path[cur] = Path[n]
        /\ Stands(s, n) /\ IsBestTip(n) /\ mem.tip # n /\ n \in DOMAIN mem.work
    <2>1. {} = Path[cur] \ Path[n] /\ {} \ {Zero} = Path[n] \ Path[cur]
      BY <1>2 DEF Reorging
    <2>2. Path[cur] = Path[n]
      BY <2>1
    <2> QED
      BY <1>2, <2>2 DEF Reorging, LedgerInv, IsBestTip
  <1>4. cur = n
    <2>1. n \in Path[cur]
      BY <1>3, PathOf
    <2>2. cur \in Block
      BY <2>1, PathAssumption DEF Places
    <2>3. cur \in Path[n]
      BY <1>3, <2>2, PathOf
    <2> QED
      BY <1>3, <2>1, <2>2, <2>3, PathOrder
  <1>5. /\ IsStore(mem) /\ mem.tip \in DOMAIN mem.work \cup {Zero}
        /\ \A a \in DOMAIN mem.work : mem.work[a] \in Nat
    BY WorkIsNat
  <1>6. /\ mem'.ledger = mem.ledger /\ mem'.undo = mem.undo /\ mem'.applied = mem.applied
        /\ mem'.idx = mem.idx /\ mem'.work = mem.work /\ mem'.tip = n
        /\ mem'.blocks = mem.blocks /\ mem'.bodies = mem.bodies /\ mem'.compacted = mem.compacted
    BY <1>1, <1>2, <1>5 DEF IsStore
  <1>7. Stands(s, n)' /\ IsBestTip(n)' /\ BlocksInv(s)'
    BY <1>3, <1>6, SameBlocks DEF Stored
  <1>8. BodiesInv(mem')
    <2>1. mem.tip # Zero => mem.work[mem.tip] <= mem.work[n]
      <3> SUFFICES ASSUME mem.tip # Zero PROVE mem.work[mem.tip] <= mem.work[n]
        OBVIOUS
      <3>1. mem.tip \in DOMAIN mem.work /\ mem.work[mem.tip] \in Nat /\ mem.work[n] \in Nat
        BY <1>3, <1>5
      <3>2. Beats(mem, n, mem.tip)
        BY <1>3, <3>1 DEF IsBestTip
      <3> QED
        BY <3>1, <3>2 DEF Beats
    <2>2. ASSUME NEW a, Buried(mem, a) PROVE Buried(mem', a)
      <3>1. PICK c \in DOMAIN mem.work : /\ Height[a] + KeepDepth <= Height[c]
                                         /\ mem.work[c] <= mem.work[mem.tip]
        BY <2>2 DEF Buried
      <3>2. mem.tip \in DOMAIN mem.work /\ mem.tip # Zero
        BY <1>5, <2>2 DEF Buried
      <3>3. /\ mem.work[c] \in Nat /\ mem.work[mem.tip] \in Nat /\ mem.work[n] \in Nat
        BY <1>3, <1>5, <3>1, <3>2
      <3>4. mem.work[c] <= mem.work[n]
        BY <2>1, <3>1, <3>2, <3>3
      <3> QED
        BY <1>6, <2>2, <3>1, <3>4, PathOf DEF Buried
    <2>3. BodiesInv(mem)
      BY DEF Stored
    <2> QED
      BY <1>6, <2>2, <2>3 DEF BodiesInv
  <1>9. Stored(s)'
    BY <1>6, <1>7, <1>8 DEF Stored
  <1>10. LedgerInv(s, n, {})'
    BY <1>3, <1>4, <1>6, SameLedger
  <1>11. Accepting(s)'
    BY <1>2, <1>6, <1>7, <1>10 DEF Accepting
  <1>12. IsWrites(writes') /\ Pending("tip")' /\ ~Pending("index")'
    BY <1>1, OneWrite DEF Pending
  <1>13. DInv({})'
    BY <1>1, <1>2, <1>6, <1>12, CallKeeps
  <1> QED
    BY <1>9, <1>11, <1>13

(***************************************************************************)
(* Files, snapshots and the start.                                         *)
(***************************************************************************)

\* reorganize still has a call to make.
LEMMA CallsRemain ==
    ASSUME NEW M \in SUBSET Places, NEW L \in SUBSET Places, NEW J \in SUBSET Places,
           NEW n \in Block
    PROVE  CallsOf(M, L, J, n) # <<>>
  <1> DEFINE c3 == <<"set_tip", {n}>>
             q3 == <<c3>>
             q2 == Rest("connect", J) \o q3
             q1 == Rest("disconnect", L) \o q2
  <1>1. q3 \in Seq(CallsOfAll) /\ q3 # <<>>
    <2>1. c3 \in CallsOfAll
      BY DEF CallsOfAll, Places
    <2> HIDE DEF c3
    <2> QED
      BY <2>1
  <1>2. ASSUME NEW x \in {"mark_applied", "disconnect", "connect"}, NEW S \in SUBSET Places,
               NEW q \in Seq(CallsOfAll), q # <<>>
        PROVE  Rest(x, S) \o q \in Seq(CallsOfAll) /\ Rest(x, S) \o q # <<>>
    <2>1. CASE S = {}
      BY <1>2, <2>1, RestHead
    <2>2. CASE S # {}
      <3>1. Rest(x, S) = <<<<x, S>>>>
        BY <2>2 DEF Rest
      <3> DEFINE c == <<x, S>>
      <3>2. c \in CallsOfAll
        BY DEF CallsOfAll
      <3> HIDE DEF c
      <3>3. <<c>> \o q \in Seq(CallsOfAll) /\ <<c>> \o q # <<>>
        BY <1>2, <3>2
      <3> QED
        BY <3>1, <3>3 DEF c
    <2> QED
      BY <2>1, <2>2
  <1> HIDE DEF q3
  <1>3. q2 \in Seq(CallsOfAll) /\ q2 # <<>>
    BY <1>1, <1>2
  <1> HIDE DEF q2
  <1>4. q1 \in Seq(CallsOfAll) /\ q1 # <<>>
    BY <1>2, <1>3
  <1> HIDE DEF q1
  <1>5. Rest("mark_applied", M) \o q1 # <<>>
    BY <1>2, <1>4
  <1>6. CallsOf(M, L, J, n) = Rest("mark_applied", M) \o q1
    BY DEF CallsOf, q1, q2, q3
  <1> QED
    BY <1>5, <1>6

\* Between two blocks reorganize is not running.
LEMMA IdlePhase ==
    ASSUME NEW s, Phases(s), calls = <<>>
    PROVE  Accepting(s) /\ DInv({}) /\ (mem.tip # Zero => IsBestTip(mem.tip))
  <1>1. ASSUME NEW cur \in Block \cup {Zero}, NEW n \in Block,
               NEW M \in SUBSET (Block \cup {Zero}), NEW L \in SUBSET (Block \cup {Zero}),
               NEW J \in SUBSET (Block \cup {Zero}), Reorging(s, cur, n, M, L, J)
        PROVE  FALSE
    <2>1. calls = CallsOf(M, L, J, n)
      BY <1>1 DEF Reorging
    <2>2. CallsOf(M, L, J, n) # <<>>
      BY CallsRemain DEF Places
    <2> QED
      BY <2>1, <2>2
  <1>2. Accepting(s) /\ DInv({})
    BY <1>1 DEF Phases
  <1>3. \A b : FromPow(b) # <<>> /\ FromPut(b) # <<>> /\ FromWork(b) # <<>> /\ FromReorg(b) # <<>>
    BY DEF FromPow, FromPut, FromWork, FromReorg
  <1> QED
    BY <1>2, <1>3 DEF Accepting

\* What a snapshot of the tip t holds, and what is read back from it.
LEMMA SnapshotFields ==
    ASSUME NEW m, NEW t, t = m.tip, t \in m.blocks,
           m.ledger = [utxo |-> m.ledger.utxo, coinbase |-> m.ledger.coinbase]
    PROVE  LET d == Snapshot(m)
               k == Load(d)
           IN  /\ IsDisk(d) /\ IsStore(k)
               /\ k.idx = d.idx /\ k.work = d.work /\ k.applied = d.applied /\ k.undo = d.undo
               /\ k.ledger = d.ledger /\ k.tip = d.tip
               /\ k.work = m.work /\ k.applied = m.applied /\ DOMAIN k.undo = {}
               /\ k.ledger = m.ledger /\ k.tip = t
               /\ k.blocks = {t} /\ k.bodies = {t} /\ k.compacted = Minus(Height[t], KeepDepth)
  <1> DEFINE d == Snapshot(m)
             k == Load(d)
             r == Rec(t, TRUE)
             dat == [recs |-> <<r>>, rest |-> {}]
             idx == [h \in {Height[t]} |-> 0]
  <1>1. r.block = t /\ r.body = TRUE
    BY DEF Rec
  <1> HIDE DEF r
  <1>2. /\ dat.recs = <<r>> /\ DOMAIN <<r>> = {1} /\ <<r>>[1] = r
        /\ DOMAIN idx = {Height[t]} /\ idx[Height[t]] = 0
    OBVIOUS
  <1>3. d = [dat |-> dat, idx |-> idx, work |-> m.work, applied |-> m.applied, undo |-> Empty,
             ledger |-> m.ledger, tip |-> t]
    BY DEF Snapshot, r
  <1> HIDE DEF dat, idx
  <1>4. /\ d.dat = dat /\ d.idx = idx /\ d.work = m.work /\ d.applied = m.applied
        /\ d.undo = Empty /\ d.ledger = m.ledger /\ d.tip = t
    BY <1>3
  <1>5. IsDisk(d)
    BY <1>3, <1>4 DEF IsDisk
  <1> HIDE DEF d
  <1>6. Offset(d.dat.recs, 1) = 0
    <2>1. 1 .. (1 - 1) = {}
      OBVIOUS
    <2> QED
      BY <2>1, SumEmpty DEF Offset
  <1>7. Found(d) = {1}
    BY <1>2, <1>4, <1>6 DEF Found
  <1>8. {d.dat.recs[i] : i \in Found(d)} = {r}
    BY <1>2, <1>4, <1>7
  <1>9. /\ k.blocks = {q.block : q \in {r}} /\ k.bodies = {q.block : q \in {p \in {r} : p.body}}
        /\ k.compacted = IF t \in {q.block : q \in {r}} THEN Minus(Height[t], KeepDepth) ELSE 0
        /\ k.idx = d.idx /\ k.work = d.work /\ k.applied = d.applied /\ k.undo = d.undo
        /\ k.ledger = d.ledger /\ k.tip = d.tip /\ IsStore(k)
    BY <1>4, <1>8 DEF Load, IsStore
  <1> HIDE DEF k
  <1>10. k.blocks = {t} /\ k.bodies = {t} /\ k.compacted = Minus(Height[t], KeepDepth)
    BY <1>1, <1>9
  <1>11. DOMAIN Empty = {}
    BY DEF Empty
  <1> QED
    BY <1>4, <1>5, <1>9, <1>10, <1>11 DEF k, d

\* The store k has the block t and the work of m: it ranks t first as m does.
SnapshotOf(m, k, t) ==
    /\ t \in m.blocks /\ k.blocks = {t} /\ k.work = m.work

\* Without the other blocks their heights count as 0, and t is still the best.
LEMMA SnapshotBeats ==
    ASSUME NEW m, NEW k, NEW t \in Block, SnapshotOf(m, k, t),
           NEW a \in Block, a # t, Beats(m, t, a),
           m.work[t] \in Nat, m.work[a] \in Nat
    PROVE  Beats(k, t, a)
  <1>1. HeightIn(m, t) = Height[t] /\ HeightIn(k, t) = Height[t] /\ HeightIn(k, a) = 0
    BY DEF SnapshotOf, HeightIn
  <1>2. HeightIn(m, a) \in Nat /\ Height[t] \in Nat
    BY TreeAssumption DEF HeightIn
  <1>3. CASE m.work[t] > m.work[a]
    BY <1>3 DEF Beats, SnapshotOf
  <1>4. CASE m.work[t] = m.work[a] /\ Height[t] > 0
    BY <1>1, <1>4 DEF Beats, SnapshotOf
  <1>5. CASE m.work[t] = m.work[a] /\ Height[t] = 0
    <2>1. HashRank[t] < HashRank[a]
      BY <1>1, <1>2, <1>5 DEF Beats
    <2> QED
      BY <1>1, <1>5, <2>1 DEF Beats, SnapshotOf
  <1> QED
    BY <1>1, <1>2, <1>3, <1>4, <1>5 DEF Beats

\* A new node that starts from a snapshot.
LEMMA FastSyncStep ==
    ASSUME NEW s \in Block \cup {Zero}, Stored(s), Phases(s), WInv, SettledSnapshots, FastSync
    PROVE  \E t \in Block : Stored(t)' /\ Accepting(t)' /\ DInv({})'
  <1>1. PICK t : t = mem.tip
    OBVIOUS
  <1>2. /\ calls = <<>> /\ calls' = <<>> /\ writes' = <<>> /\ t # Zero
        /\ disk' = Snapshot(mem) /\ mem' = Load(disk')
        /\ SnapshotLoads(Snapshot(mem), SnapshotMeta(mem))
    BY <1>1 DEF FastSync, Idle
  <1>3. Accepting(s) /\ IsBestTip(t)
    BY <1>1, <1>2, IdlePhase
  <1>4. /\ t \in DOMAIN mem.work /\ DOMAIN mem.work \subseteq Block /\ t \in Block
        /\ \A a \in DOMAIN mem.work : mem.work[a] \in Nat
    BY <1>3, WorkIsNat DEF IsBestTip
  <1>5. t \in mem.blocks
    <2>1. \A b : FromPow(b) # <<>> /\ FromPut(b) # <<>> /\ FromWork(b) # <<>> /\ FromReorg(b) # <<>>
      BY DEF FromPow, FromPut, FromWork, FromReorg
    <2>2. mem.blocks \subseteq DOMAIN mem.work
      BY <1>2, <2>1 DEF WInv, CallsInv
    <2> QED
      BY <1>3, <1>4, <2>2, BestStands DEF Stored
  <1>6. /\ mem.ledger = Ledger[t] /\ IsFiniteSet(Path[t]) /\ mem.applied \ {Zero} = Path[t]
        /\ mem.ledger = [utxo |-> mem.ledger.utxo, coinbase |-> mem.ledger.coinbase]
    <2>1. mem.ledger = Ledger[t] /\ IsFiniteSet(Path[t]) /\ mem.applied \ {Zero} = Path[t] \ {}
      BY <1>1, <1>3 DEF Accepting, LedgerInv
    <2>2. Ledger[t] \in State
      BY <1>4, LedgerAssumption
    <2> QED
      BY <2>1, <2>2 DEF State
  <1>7. /\ IsDisk(disk') /\ IsStore(mem')
        /\ mem'.idx = disk'.idx /\ mem'.work = disk'.work /\ mem'.applied = disk'.applied
        /\ mem'.undo = disk'.undo /\ mem'.ledger = disk'.ledger /\ mem'.tip = disk'.tip
        /\ mem'.work = mem.work /\ mem'.applied = mem.applied /\ DOMAIN mem'.undo = {}
        /\ mem'.ledger = mem.ledger /\ mem'.tip = t
        /\ mem'.blocks = {t} /\ mem'.bodies = {t} /\ mem'.compacted = Minus(Height[t], KeepDepth)
    BY <1>1, <1>2, <1>5, <1>6, SnapshotFields
  <1>8. \A a \in DOMAIN mem.work : a # t /\ Beats(mem, t, a) => Beats(mem', t, a)
    <2> SUFFICES ASSUME NEW a \in DOMAIN mem.work, a # t, Beats(mem, t, a)
                 PROVE  Beats(mem', t, a)
      OBVIOUS
    <2>1. SnapshotOf(mem, mem', t)
      BY <1>5, <1>7 DEF SnapshotOf
    <2>2. a \in Block /\ mem.work[t] \in Nat /\ mem.work[a] \in Nat
      BY <1>4
    <2> QED
      BY <1>4, <2>1, <2>2, SnapshotBeats
  <1>9. Settled(t)
    <2>1. Height[t] \in Nat /\ HeightIn(mem, t) = Height[t]
      BY <1>4, <1>5, TreeAssumption DEF HeightIn
    <2>2. (\E c \in Checkpoint : Height[c] <= Height[t]) => t \in Checkpoint
      <3>1. SnapshotMeta(mem).height = Height[t] /\ SnapshotMeta(mem).block = t
        BY <1>1, <2>1 DEF SnapshotMeta
      <3> QED
        BY <1>2, <3>1 DEF SnapshotLoads
    <2> QED
      BY <1>4, <2>2 DEF SettledSnapshots
  <1>10. BlocksInv(t)'
    <2>1. CheckpointOK(t)
      BY <1>5 DEF Stored, BlocksInv
    <2>2. \A a \in DOMAIN mem'.work : a = t \/ Beats(mem', t, a)
      BY <1>3, <1>4, <1>7, <1>8 DEF IsBestTip
    <2>3. Stands(t, t)'
      BY DEF Stands
    <2> QED
      BY <1>2, <1>4, <1>7, <1>9, <2>1, <2>2, <2>3 DEF BlocksInv
  <1>11. BodiesInv(mem')
    <2>1. Height[t] \in Nat /\ KeepDepth \in Nat
      BY <1>4, TreeAssumption, StoreAssumption
    <2>2. mem'.compacted \in Nat /\ (mem'.compacted > 0 => KeepDepth <= Height[t])
      BY <1>7, <2>1 DEF Minus
    <2>3. t \in DOMAIN mem'.work /\ mem'.work[t] <= mem'.work[t] /\ mem'.tip = t
      BY <1>4, <1>7
    <2>4. ASSUME KeepDepth > 0, mem'.compacted > 0, NEW b \in Block, Height[b] = 0
          PROVE  Buried(mem', b)
      <3>1. Height[b] + KeepDepth <= Height[t]
        BY <2>1, <2>2, <2>4
      <3> QED
        BY <1>2, <2>3, <2>4, <3>1 DEF Buried
    <2>5. mem'.blocks \ mem'.bodies = {}
      BY <1>7
    <2> QED
      BY <2>2, <2>4, <2>5 DEF BodiesInv
  <1>12. Stored(t)'
    <2>1. Stands(t, mem.tip)'
      BY <1>7 DEF Stands
    <2> QED
      BY <1>10, <1>11, <2>1 DEF Stored
  <1>13. LedgerInv(t, mem.tip, {})'
    <2>1. {} = Path[t] \ Path[t] /\ Path[t] \ {} = Path[t]
      OBVIOUS
    <2> QED
      BY <1>6, <1>7, <2>1 DEF LedgerInv
  <1>14. IsBestTip(mem.tip)'
    BY <1>3, <1>4, <1>7, <1>8 DEF IsBestTip
  <1>15. Accepting(t)'
    BY <1>2, <1>13, <1>14 DEF Accepting
  <1>16. DInv({})'
    <2>1. IsWrites(writes') /\ ~Pending("index")'
      BY <1>2 DEF IsWrites, Pending
    <2> QED
      BY <1>7, <2>1 DEF DInv, IndexInv
  <1> QED
    BY <1>4, <1>12, <1>15, <1>16

\* A file is written.
LEMMA WriteStep ==
    ASSUME NEW s \in Block \cup {Zero}, Stored(s), Phases(s), Write
    PROVE  Stored(s)' /\ Phases(s)'
  <1>1. mem' = mem /\ calls' = calls
    BY DEF Write
  <1>2. Stored(s)'
    BY <1>1, SameBlocks DEF Stored
  <1>3. \A c, M : LedgerInv(s, c, M) => LedgerInv(s, c, M)'
    BY <1>1, SameLedger
  <1>4. CASE Accepting(s) /\ DInv({})
    <2>1. Accepting(s)'
      BY <1>1, <1>3, <1>4, SameBlocks DEF Accepting
    <2>2. DInv({})'
      BY <1>4, WriteKeeps
    <2> QED
      BY <1>2, <2>1, <2>2 DEF Phases
  <1>5. ASSUME NEW cur \in Block \cup {Zero}, NEW n \in Block,
               NEW M \in SUBSET (Block \cup {Zero}), NEW L \in SUBSET (Block \cup {Zero}),
               NEW J \in SUBSET (Block \cup {Zero}), Reorging(s, cur, n, M, L, J), DInv(M \cup J)
        PROVE  Phases(s)'
    <2>1. Reorging(s, cur, n, M, L, J)'
      BY <1>1, <1>3, <1>5, SameBlocks DEF Reorging
    <2>2. DInv(M \cup J)'
      BY <1>5, WriteKeeps
    <2> QED
      BY <1>5, <2>1, <2>2 DEF Phases
  <1> QED
    BY <1>2, <1>4, <1>5 DEF Phases

(***************************************************************************)
(* Together.                                                               *)
(***************************************************************************)

\* A call of accept_block before reorganize, or reorganize itself.
LEMMA AcceptingCalls ==
    ASSUME NEW s \in Block \cup {Zero}, Stored(s), Accepting(s), DInv({}), WInv, WInv',
           HeightZeroIsGenesis, NEW b, StoreStep(b)
    PROVE  Stored(s)' /\ Phases(s)'
  <1>1. ASSUME RememberPow(b) \/ PutBlock(b) \/ SetWork(b) PROVE Stored(s)' /\ Phases(s)'
    <2>1. Stored(s)' /\ Accepting(s)' /\ DInv({})'
      BY <1>1, RememberPowStep, PutBlockStep, SetWorkStep
    <2> QED
      BY <2>1 DEF Phases
  <1>2. ASSUME NEW x \in {"disconnect", "connect", "mark_applied", "set_tip"}, Call(x, b)
        PROVE  FALSE
    BY <1>2, AcceptingCall
  <1> QED
    BY <1>1, <1>2, ReorganizeStep
    DEF StoreStep, Disconnect, Connect, ConnectSkips, ConnectAborts, CallConnect, MarkApplied,
        SetTip

\* A call that reorganize makes.
LEMMA ReorgingCalls ==
    ASSUME NEW s \in Block \cup {Zero}, Stored(s), WInv,
           ShallowForks, AllBlocksValid, FreshCoins,
           NEW cur \in Places, NEW n \in Block,
           NEW M \in SUBSET Places, NEW L \in SUBSET Places, NEW J \in SUBSET Places,
           Reorging(s, cur, n, M, L, J), DInv(M \cup J), NEW b, StoreStep(b)
    PROVE  Stored(s)' /\ Phases(s)'
  <1>1. ASSUME NEW c \in Places, NEW N \in SUBSET Places, NEW K \in SUBSET Places,
               NEW I \in SUBSET Places, Stored(s)', Reorging(s, c, n, N, K, I)', DInv(N \cup I)'
        PROVE  Stored(s)' /\ Phases(s)'
    BY <1>1 DEF Phases, Places
  <1>2. ASSUME NEW x \in {"remember_pow", "put_block", "set_work", "reorganize"}, Call(x, b)
        PROVE  FALSE
    <2>1. NextCall(M, L, J, n, x, b)
      BY <1>2, CallsHead DEF Reorging
    <2> QED
      BY <1>2, <2>1 DEF NextCall
  <1>3. {} \in SUBSET Places /\ L \ {b} \in SUBSET Places /\ J \ {b} \in SUBSET Places
    OBVIOUS
  <1>4. CASE Disconnect(b)
    <2>1. /\ Stored(s)' /\ Parent[cur] \in Places
          /\ Reorging(s, Parent[cur], n, {}, L \ {b}, J)' /\ DInv({} \cup J)'
      BY <1>4, DisconnectStep
    <2>2. PICK c : c = Parent[cur]
      OBVIOUS
    <2> QED
      BY <1>1, <1>3, <2>1, <2>2
  <1>5. CASE Connect(b)
    <2>1. /\ Stored(s)' /\ b \in Places
          /\ Reorging(s, b, n, {b}, {}, J \ {b})' /\ DInv({b} \cup (J \ {b}))'
      BY <1>5, ConnectStep
    <2>2. {b} \in SUBSET Places
      BY <2>1
    <2> QED
      BY <1>1, <1>3, <2>1, <2>2
  <1>6. CASE ConnectSkips(b)
    <2>1. /\ Stored(s)' /\ b \in Places
          /\ Reorging(s, cur, n, {b}, {}, J \ {b})' /\ DInv({b} \cup (J \ {b}))'
      BY <1>6, SkipStep
    <2>2. {b} \in SUBSET Places
      BY <2>1
    <2> QED
      BY <1>1, <1>3, <2>1, <2>2
  <1>7. CASE ConnectAborts(b)
    <2>1. CallConnect(b) /\ b \in mem.blocks \ mem.applied /\ ~Applies(mem, b)
      BY <1>7 DEF ConnectAborts
    <2>2. Connects(b)
      BY <2>1, ConnectsApply
    <2>3. b # Zero
      BY <2>1, TreeAssumption DEF Stored, BlocksInv
    <2> QED
      BY <2>1, <2>2, <2>3 DEF Connects
  <1>8. CASE MarkApplied(b)
    <2>1. Stored(s)' /\ Reorging(s, cur, n, {}, L, J)' /\ DInv({} \cup J)'
      BY <1>8, MarkStep
    <2> QED
      BY <1>1, <1>3, <2>1
  <1>9. CASE SetTip(b)
    <2>1. Stored(s)' /\ Accepting(s)' /\ DInv({})'
      BY <1>9, SetTipStep
    <2> QED
      BY <2>1 DEF Phases
  <1>10. ~(RememberPow(b) \/ PutBlock(b) \/ SetWork(b) \/ Reorganize(b))
    BY <1>2 DEF RememberPow, PutBlock, SetWork, Reorganize
  <1> QED
    BY <1>4, <1>5, <1>6, <1>7, <1>8, <1>9, <1>10 DEF StoreStep

\* Every block keeps the blocks, the bodies, the ledger and the files in order.
LEMMA StoredBlock ==
    ASSUME HeightZeroIsGenesis, AllBlocksValid, FreshCoins, ShallowForks, WInv,
           NEW s \in Block \cup {Zero}, Stored(s), Phases(s), [BlockNext]_storeVars
    PROVE  Stored(s)' /\ Phases(s)'
  <1>1. WInv /\ WInv'
    BY WInvStep DEF Next
  <1>2. Stored(s) /\ Phases(s)
    OBVIOUS
  <1>4. ASSUME NEW b \in Block, Accept(b) PROVE Stored(s)' /\ Phases(s)'
    <2>1. calls = <<>>
      BY <1>4 DEF Accept, Idle
    <2>2. Stored(s)' /\ Accepting(s)' /\ DInv({})'
      BY <1>2, <1>4, <2>1, IdlePhase, AcceptStep
    <2> QED
      BY <2>2 DEF Phases
  <1>5. ASSUME NEW b, StoreStep(b) PROVE Stored(s)' /\ Phases(s)'
    <2>1. CASE Accepting(s) /\ DInv({})
      BY <1>1, <1>2, <1>5, <2>1, AcceptingCalls
    <2>2. CASE ~(Accepting(s) /\ DInv({}))
      <3>1. PICK cur \in Block \cup {Zero}, n \in Block :
                \E M, L, J \in SUBSET (Block \cup {Zero}) :
                    Reorging(s, cur, n, M, L, J) /\ DInv(M \cup J)
        BY <1>2, <2>2 DEF Phases
      <3>2. PICK M, L, J \in SUBSET (Block \cup {Zero}) :
                Reorging(s, cur, n, M, L, J) /\ DInv(M \cup J)
        BY <3>1
      <3>3. cur \in Places /\ M \in SUBSET Places /\ L \in SUBSET Places /\ J \in SUBSET Places
        BY DEF Places
      <3> QED
        BY <1>1, <1>2, <1>5, <3>2, <3>3, ReorgingCalls
    <2> QED
      BY <2>1, <2>2
  <1>6. ASSUME Write PROVE Stored(s)' /\ Phases(s)'
    BY <1>2, <1>6, WriteStep
  <1>7. ASSUME UNCHANGED storeVars PROVE Stored(s)' /\ Phases(s)'
    <2>1. /\ mem' = mem /\ disk' = disk /\ calls' = calls /\ writes' = writes
      BY <1>7 DEF storeVars
    <2>2. Stored(s)' /\ \A c, M : LedgerInv(s, c, M) => LedgerInv(s, c, M)'
      BY <1>2, <2>1, SameBlocks, SameLedger DEF Stored
    <2>3. \A X : DInv(X) => DInv(X)'
      BY <2>1 DEF DInv, IsWrites, Pending, IndexInv
    <2>4. Accepting(s) => Accepting(s)'
      BY <2>1, <2>2, SameBlocks DEF Accepting
    <2>5. CASE Accepting(s) /\ DInv({})
      BY <2>2, <2>3, <2>4, <2>5 DEF Phases
    <2>6. ASSUME NEW cur \in Block \cup {Zero}, NEW n \in Block,
                 NEW M \in SUBSET (Block \cup {Zero}), NEW L \in SUBSET (Block \cup {Zero}),
                 NEW J \in SUBSET (Block \cup {Zero}),
                 Reorging(s, cur, n, M, L, J), DInv(M \cup J)
          PROVE  Phases(s)'
      <3>1. Reorging(s, cur, n, M, L, J)' /\ DInv(M \cup J)'
        BY <2>1, <2>2, <2>3, <2>6, SameBlocks DEF Reorging
      <3> QED
        BY <3>1 DEF Phases
    <2> QED
      BY <1>2, <2>2, <2>5, <2>6 DEF Phases
  <1> QED
    BY <1>4, <1>5, <1>6, <1>7 DEF BlockNext

\* So the invariant is kept.
LEMMA SInvBlock ==
    ASSUME HeightZeroIsGenesis, AllBlocksValid, FreshCoins, ShallowForks
    PROVE  SInv /\ [BlockNext]_storeVars => SInv'
  <1> SUFFICES ASSUME SInv, [BlockNext]_storeVars PROVE SInv'
    OBVIOUS
  <1>1. WInv /\ WInv'
    BY WInvStep DEF SInv, Next
  <1>2. PICK s \in Block \cup {Zero} : Stored(s) /\ Phases(s)
    BY DEF SInv
  <1> QED
    BY <1>1, <1>2, StoredBlock DEF SInv

\* A snapshot keeps them too.
LEMMA SInvStep ==
    ASSUME HeightZeroIsGenesis, AllBlocksValid, FreshCoins, ShallowForks, SettledSnapshots
    PROVE  SInv /\ [Next]_storeVars => SInv'
  <1> SUFFICES ASSUME SInv, [Next]_storeVars PROVE SInv'
    OBVIOUS
  <1>1. WInv /\ WInv'
    BY WInvStep DEF SInv
  <1>2. CASE [BlockNext]_storeVars
    BY <1>2, SInvBlock
  <1>3. CASE FastSync
    <2>1. PICK s \in Block \cup {Zero} : Stored(s) /\ Phases(s)
      BY DEF SInv
    <2>2. PICK t \in Block : Stored(t)' /\ Accepting(t)' /\ DInv({})'
      BY <1>1, <1>3, <2>1, FastSyncStep
    <2> QED
      BY <1>1, <2>2 DEF SInv, Phases
  <1> QED
    BY <1>2, <1>3 DEF Next

\* The store starts empty.
LEMMA StoredInit == Init => Stored(Zero) /\ Phases(Zero)
  <1> SUFFICES ASSUME Init PROVE Stored(Zero) /\ Phases(Zero)
    OBVIOUS
  <1>1. mem = Load(EmptyDisk) /\ disk = EmptyDisk /\ calls = <<>> /\ writes = <<>>
    BY DEF Init
  <1>2. Found(EmptyDisk) = {}
    BY DEF Found, EmptyDisk
  <1>3. /\ mem.work = Empty /\ mem.blocks = {} /\ mem.bodies = {} /\ mem.tip = Zero
        /\ mem.compacted = 0 /\ mem.undo = Empty /\ mem.applied = {} /\ mem.ledger = EmptyState
        /\ mem.idx = disk.idx /\ mem.work = disk.work /\ mem.applied = disk.applied
        /\ mem.undo = disk.undo /\ mem.ledger = disk.ledger /\ mem.tip = disk.tip
    BY <1>1, <1>2 DEF Load, EmptyDisk
  <1>4. DOMAIN mem.work = {} /\ DOMAIN mem.undo = {}
    BY <1>3 DEF Empty
  <1>5. Path[Zero] = {} /\ Ledger[Zero] = EmptyState
    BY PathAssumption, LedgerAssumption
  <1>6. Stored(Zero)
    <2>1. BlocksInv(Zero) /\ Stands(Zero, mem.tip)
      BY <1>3, <1>4 DEF BlocksInv, Stands
    <2>2. BodiesInv(mem)
      BY <1>3 DEF BodiesInv
    <2> QED
      BY <2>1, <2>2 DEF Stored
  <1>7. Accepting(Zero)
    <2>1. LedgerInv(Zero, mem.tip, {})
      BY <1>3, <1>4, <1>5, FS_EmptySet DEF LedgerInv
    <2> QED
      BY <1>1, <1>3, <2>1 DEF Accepting
  <1>8. DInv({})
    <2>1. IsDisk(disk)
      BY <1>1 DEF IsDisk, EmptyDisk, EmptyState
    <2>2. IsWrites(writes) /\ ~Pending("index")
      BY <1>1 DEF IsWrites, Pending
    <2> QED
      BY <1>3, <2>1, <2>2 DEF DInv, IndexInv
  <1> QED
    BY <1>6, <1>7, <1>8 DEF Phases

\* So the invariant holds at first.
LEMMA SInvInit == Init => SInv
  BY StoredInit, WInvInit DEF SInv

\* Between two blocks the ledger is that of the tip, and the files say what memory says.
LEMMA SInvIdle ==
    ASSUME SInv, Idle
    PROVE  /\ mem.ledger = Ledger[mem.tip]
           /\ disk.work = mem.work /\ disk.applied = mem.applied /\ disk.undo = mem.undo
           /\ disk.ledger = mem.ledger /\ disk.tip = mem.tip /\ disk.idx = mem.idx
  <1>1. PICK s \in Block \cup {Zero} : Stored(s) /\ Phases(s)
    BY DEF SInv
  <1>2. Accepting(s) /\ DInv({}) /\ writes = <<>>
    BY <1>1, IdlePhase DEF Idle
  <1>3. \A n : ~Pending(n)
    BY <1>2 DEF Pending
  <1>4. mem.ledger = Ledger[mem.tip] /\ mem.tip \in Block \cup {Zero}
    BY <1>2, WorkIsNat DEF Accepting, LedgerInv, SInv
  <1>5. mem.ledger = [utxo |-> mem.ledger.utxo, coinbase |-> mem.ledger.coinbase]
    <2>1. mem.ledger \in State
      BY <1>4, LedgerAssumption
    <2> QED
      BY <2>1 DEF State
  <1>6. /\ disk.work = mem.work /\ disk.applied = mem.applied /\ disk.undo = mem.undo
        /\ disk.tip = mem.tip /\ disk.idx = mem.idx
        /\ disk.ledger.utxo = mem.ledger.utxo /\ disk.ledger.coinbase = mem.ledger.coinbase
    BY <1>2, <1>3 DEF DInv, IndexInv
  <1>7. disk.ledger = [utxo |-> disk.ledger.utxo, coinbase |-> disk.ledger.coinbase]
    <2>1. PICK l : l = [utxo |-> disk.ledger.utxo, coinbase |-> disk.ledger.coinbase]
      OBVIOUS
    <2>2. disk.ledger = l
      BY <1>2, <2>1 DEF DInv, IsDisk
    <2> QED
      BY <2>1, <2>2
  <1> QED
    BY <1>4, <1>5, <1>6, <1>7

\* A store that only gets valid blocks has, between two blocks, the outputs and the
\* maturity index of its tip's chain, replayed from nothing: every disconnect restores
\* what its connect changed, across forks, pruning and a start from a snapshot.
THEOREM StoreLedgerCorrect ==
    ASSUME HeightZeroIsGenesis, AllBlocksValid, FreshCoins, ShallowForks, SettledSnapshots
    PROVE  Spec => []LedgerIsReplay
  <1>1. SInv /\ [Next]_storeVars => SInv'
    BY SInvStep
  <1>2. Spec => []SInv
    BY <1>1, SInvInit, PTL DEF Spec
  <1>3. SInv => LedgerIsReplay
    BY SInvIdle DEF LedgerIsReplay
  <1> QED
    BY <1>2, <1>3, PTL

\* Between two blocks the files say what memory says, although disconnect does not
\* write the marks that it takes back: reorganize always connects a block after it.
THEOREM FilesAgree ==
    ASSUME HeightZeroIsGenesis, AllBlocksValid, FreshCoins, ShallowForks, SettledSnapshots
    PROVE  Spec => []DiskIsMemory
  <1>1. SInv /\ [Next]_storeVars => SInv'
    BY SInvStep
  <1>2. Spec => []SInv
    BY <1>1, SInvInit, PTL DEF Spec
  <1>3. SInv => DiskIsMemory
    BY SInvIdle DEF DiskIsMemory
  <1> QED
    BY <1>2, <1>3, PTL

\* A node that synchronises block by block needs nothing of the checkpoints: whatever
\* forks its blocks have above the pruning depth, both properties hold.
THEOREM BlockByBlock ==
    ASSUME HeightZeroIsGenesis, AllBlocksValid, FreshCoins, ShallowForks
    PROVE  Init /\ [][BlockNext]_storeVars => [](LedgerIsReplay /\ DiskIsMemory)
  <1>1. SInv /\ [BlockNext]_storeVars => SInv'
    BY SInvBlock
  <1>2. Init /\ [][BlockNext]_storeVars => []SInv
    BY <1>1, SInvInit, PTL
  <1>3. SInv => LedgerIsReplay /\ DiskIsMemory
    BY SInvIdle DEF LedgerIsReplay, DiskIsMemory
  <1> QED
    BY <1>2, <1>3, PTL
(***************************************************************************)
(* Opening the store.  An offset of the index that is on disk is that of a *)
(* record of chain.dat, unless a file with a new index is still to be      *)
(* written; and each index that is, is the next file after the records     *)
(* that it points into.                                                    *)
(***************************************************************************)

\* The records of a file, in their order.
IsFile(recs) == \E n \in Nat : DOMAIN recs = 1 .. n /\ (n = 0 => recs = <<>>)

\* Every offset of the index is that of a record.
Opens(recs, idx) == \A h \in DOMAIN idx : \E k \in DOMAIN recs : idx[h] = Offset(recs, k)

\* What an index can point to once r is appended.
With(recs, r) == IF recs = <<>> THEN <<r>> ELSE recs

\* The index at i is written over the records that the file before it leaves.
IndexFollows(w, i, recs) ==
    /\ i > 1
    /\ \/ w[i - 1][1] = "append" /\ Opens(With(recs, w[i - 1][2]), w[i][2])
       \/ w[i - 1][1] = "rewrite" /\ Opens(w[i - 1][2], w[i][2])

\* New records are followed by their index, and appended to the file there is.
RecordsFollow(w, i) ==
    /\ w[i][1] \in {"append", "rewrite"} => i + 1 \in DOMAIN w /\ w[i + 1][1] = "index"
    /\ w[i][1] = "append" => \A j \in DOMAIN w : j < i => w[j][1] \notin {"append", "rewrite"}
    /\ w[i][1] = "rewrite" => IsFile(w[i][2])

\* The files w are in order, over the records of chain.dat; the first of them may be
\* the index of these.
InOrder(w, recs) ==
    \A i \in DOMAIN w :
        /\ RecordsFollow(w, i)
        /\ w[i][1] = "index" => \/ IndexFollows(w, i, recs)
                                \/ i = 1 /\ Opens(recs, w[i][2])

\* So are those of a call.
Chained(w, recs) ==
    \A i \in DOMAIN w : RecordsFollow(w, i) /\ (w[i][1] = "index" => IndexFollows(w, i, recs))

\* The fields of a ledger.
IsLedger(l) == l = [utxo |-> l.utxo, coinbase |-> l.coinbase]

OpenInv ==
    /\ IsStore(mem) /\ IsFiniteSet(mem.blocks) /\ IsLedger(mem.ledger)
    /\ IsDisk(disk) /\ disk.dat = [recs |-> disk.dat.recs, rest |-> disk.dat.rest]
    /\ IsFile(disk.dat.recs)
    /\ IsWrites(writes) /\ IndexInv /\ InOrder(writes, disk.dat.recs)
    /\ ~Pending("index") => Opens(disk.dat.recs, disk.idx)

\* The first record is at the beginning of the file.
LEMMA FirstOffset == ASSUME NEW recs PROVE Offset(recs, 1) = 0
  <1> DEFINE f == [i \in 1 .. 1 - 1 |-> RecLen(recs[i])]
  <1>1. Offset(recs, 1) = SumFunctionOnSet(f, 1 .. 1 - 1)
    BY DEF Offset
  <1>2. 1 .. 1 - 1 = {}
    OBVIOUS
  <1> HIDE DEF f
  <1> QED
    BY <1>1, <1>2, SumEmpty

\* A file that is not empty has a first record.
LEMMA FileFirst ==
    ASSUME NEW recs, IsFile(recs), recs # <<>>
    PROVE  1 \in DOMAIN recs
  BY DEF IsFile

\* Other files before those of a call leave them in order.
LEMMA ChainedAfter ==
    ASSUME NEW v, NEW w, IsWrites(v), IsWrites(w), NEW recs, Chained(w, recs),
           \A i \in DOMAIN v : v[i][1] \notin {"append", "rewrite", "index"}
    PROVE  Chained(v \o w, recs)
  <1>1. PICK S : v \in Seq(S)
    BY DEF IsWrites
  <1>2. PICK T : w \in Seq(T)
    BY DEF IsWrites
  <1>3. v \in Seq(S \cup T) /\ w \in Seq(S \cup T)
    BY <1>1, <1>2
  <1> DEFINE q == v \o w
             n == Len(v)
  <1>4. /\ n \in Nat /\ Len(w) \in Nat /\ DOMAIN v = 1 .. n /\ DOMAIN w = 1 .. Len(w)
        /\ DOMAIN q = 1 .. n + Len(w)
        /\ \A i \in 1 .. n + Len(w) : q[i] = IF i <= n THEN v[i] ELSE w[i - n]
    BY <1>3
  <1> HIDE DEF q, n
  <1>5. \A i \in 1 .. n : i \in DOMAIN q /\ q[i] = v[i]
    BY <1>4
  <1>6. \A i \in 1 .. Len(w) : i + n \in DOMAIN q /\ q[i + n] = w[i]
    BY <1>4
  <1>7. ASSUME NEW i \in DOMAIN q, q[i][1] \in {"append", "rewrite", "index"}
        PROVE  \E k \in 1 .. Len(w) : i = k + n
    <2>1. i \in 1 .. n + Len(w) /\ ~(i \in 1 .. n)
      BY <1>4, <1>5, <1>7
    <2>2. i - n \in 1 .. Len(w) /\ i = (i - n) + n
      BY <1>4, <2>1
    <2> QED
      BY <2>2
  <1>8. ASSUME NEW i \in DOMAIN q PROVE RecordsFollow(q, i)
    <2>1. CASE q[i][1] \notin {"append", "rewrite"}
      BY <2>1 DEF RecordsFollow
    <2>2. CASE q[i][1] \in {"append", "rewrite"}
      <3>1. PICK k \in 1 .. Len(w) : i = k + n
        BY <1>7, <2>2
      <3>2. q[i] = w[k] /\ RecordsFollow(w, k)
        BY <1>4, <1>6, <3>1 DEF Chained
      <3>3. k + 1 \in 1 .. Len(w) /\ w[k + 1][1] = "index"
        BY <1>4, <2>2, <3>2 DEF RecordsFollow
      <3>4. i + 1 \in DOMAIN q /\ q[i + 1][1] = "index"
        <4>1. i + 1 = (k + 1) + n
          BY <1>4, <3>1
        <4> QED
          BY <1>6, <3>3, <4>1
      <3>5. ASSUME NEW j \in DOMAIN q, j < i, q[i][1] = "append"
            PROVE  q[j][1] \notin {"append", "rewrite"}
        <4>1. SUFFICES ASSUME q[j][1] \in {"append", "rewrite"} PROVE FALSE
          OBVIOUS
        <4>2. PICK l \in 1 .. Len(w) : j = l + n
          BY <1>7, <4>1
        <4>3. q[j] = w[l] /\ l < k
          BY <1>4, <1>6, <3>1, <3>5, <4>2
        <4> QED
          BY <1>4, <3>2, <3>5, <4>1, <4>3 DEF RecordsFollow
      <3> QED
        BY <3>2, <3>4, <3>5 DEF RecordsFollow
    <2> QED
      BY <2>1, <2>2
  <1>9. ASSUME NEW i \in DOMAIN q, q[i][1] = "index" PROVE IndexFollows(q, i, recs)
    <2>1. PICK k \in 1 .. Len(w) : i = k + n
      BY <1>7, <1>9
    <2>2. q[i] = w[k] /\ IndexFollows(w, k, recs)
      BY <1>4, <1>6, <1>9, <2>1 DEF Chained
    <2>3. k - 1 \in 1 .. Len(w) /\ i - 1 = (k - 1) + n /\ i > 1
      BY <1>4, <2>1, <2>2 DEF IndexFollows
    <2>4. q[i - 1] = w[k - 1]
      BY <1>6, <2>3
    <2> QED
      BY <2>2, <2>3, <2>4 DEF IndexFollows
  <1>10. Chained(q, recs)
    BY <1>8, <1>9 DEF Chained
  <1> QED
    BY <1>10 DEF q

\* The files of put_block point into chain.dat.
LEMMA TwoFiles ==
    ASSUME NEW recs, NEW r, NEW x, Opens(With(recs, r), x)
    PROVE  Chained(<<<<"append", r>>, <<"index", x>>>>, recs)
  <1> DEFINE w == <<<<"append", r>>, <<"index", x>>>>
  <1>1. DOMAIN w = 1 .. 2 /\ w[1] = <<"append", r>> /\ w[2] = <<"index", x>>
    OBVIOUS
  <1>2. w[1][1] = "append" /\ w[1][2] = r /\ w[2][1] = "index" /\ w[2][2] = x
    BY <1>1
  <1> HIDE DEF w
  <1>3. RecordsFollow(w, 1) /\ RecordsFollow(w, 2)
    BY <1>1, <1>2 DEF RecordsFollow
  <1>4. IndexFollows(w, 2, recs)
    BY <1>2 DEF IndexFollows
  <1>5. \A i \in DOMAIN w : i = 1 \/ i = 2
    BY <1>1
  <1>6. Chained(w, recs)
    BY <1>2, <1>3, <1>4, <1>5 DEF Chained
  <1> QED
    BY <1>6 DEF w

\* They still do when chain.dat is then written anew.
LEMMA FourFiles ==
    ASSUME NEW recs, NEW r, NEW x, Opens(With(recs, r), x), NEW R, NEW y, IsFile(R), Opens(R, y)
    PROVE  Chained(<<<<"append", r>>, <<"index", x>>>> \o <<<<"rewrite", R>>, <<"index", y>>>>, recs)
  <1> DEFINE a == <<"append", r>>
             b == <<"index", x>>
             c == <<"rewrite", R>>
             d == <<"index", y>>
  <1>1. /\ a[1] = "append" /\ a[2] = r /\ b[1] = "index" /\ b[2] = x
        /\ c[1] = "rewrite" /\ c[2] = R /\ d[1] = "index" /\ d[2] = y
    OBVIOUS
  <1> HIDE DEF a, b, c, d
  <1> DEFINE w == <<a, b>> \o <<c, d>>
  <1>2. DOMAIN w = 1 .. 4 /\ w[1] = a /\ w[2] = b /\ w[3] = c /\ w[4] = d
    OBVIOUS
  <1> HIDE DEF w
  <1>3. /\ RecordsFollow(w, 1) /\ RecordsFollow(w, 2) /\ RecordsFollow(w, 3) /\ RecordsFollow(w, 4)
    BY <1>1, <1>2 DEF RecordsFollow
  <1>4. IndexFollows(w, 2, recs) /\ IndexFollows(w, 4, recs)
    BY <1>1, <1>2 DEF IndexFollows
  <1>5. \A i \in DOMAIN w : i = 1 \/ i = 2 \/ i = 3 \/ i = 4
    BY <1>2
  <1>6. Chained(w, recs)
    BY <1>1, <1>2, <1>3, <1>4, <1>5 DEF Chained
  <1> QED
    BY <1>6 DEF w, a, b, c, d

\* An index of the records of a compaction opens them.
LEMMA RecordsOpen ==
    ASSUME NEW m, NEW S
    PROVE  Opens(Records(m, S), IndexOf(Records(m, S)))
  <1> DEFINE r == Records(m, S)
  <1> HIDE DEF r
  <1>1. \A h \in DOMAIN IndexOf(r) : \E k \in DOMAIN r : Height[r[k].block] = h
    BY DEF IndexOf
  <1>2. \A h \in DOMAIN IndexOf(r) :
            IndexOf(r)[h] = Offset(r, CHOOSE k \in DOMAIN r : Height[r[k].block] = h)
    BY DEF IndexOf
  <1>3. Opens(r, IndexOf(r))
    BY <1>1, <1>2 DEF Opens
  <1> QED
    BY <1>3 DEF r

\* They are a file.
LEMMA RecordsFile ==
    ASSUME NEW m, NEW S, IsFiniteSet(S), S # {}
    PROVE  IsFile(Records(m, S)) /\ DOMAIN Records(m, S) = 1 .. Cardinality(S)
  <1>1. Cardinality(S) \in Nat /\ Cardinality(S) # 0
    BY FS_CardinalityType, FS_EmptySet
  <1>2. DOMAIN Records(m, S) = 1 .. Cardinality(S)
    BY DEF Records
  <1> QED
    BY <1>1, <1>2 DEF IsFile

\* The index that put_block gives the block opens the file with its record.
LEMMA PutOpens ==
    ASSUME NEW m, IsStore(m), IsFiniteSet(m.blocks), NEW recs, IsFile(recs), Opens(recs, m.idx),
           NEW b, NEW body, NEW put \in Puts(m, b, body)
    PROVE  Chained(put.writes, recs)
  <1> DEFINE x == [h \in DOMAIN m.idx \cup {Height[b]} |-> IF h = Height[b] THEN 0 ELSE m.idx[h]]
             new == [m EXCEPT !.blocks = @ \cup {b},
                              !.bodies = IF body THEN @ \cup {b} ELSE @ \ {b},
                              !.idx = [h \in DOMAIN @ \cup {Height[b]} |->
                                           IF h = Height[b] THEN 0 ELSE @[h]]]
             r == Rec(b, body)
             files == <<<<"append", r>>, <<"index", new.idx>>>>
  <1>1. new.idx = x /\ new.blocks = m.blocks \cup {b}
    BY DEF IsStore
  <1>2. put \in Compactions(new, files) \/ put = [mem |-> new, writes |-> files]
    BY DEF Puts
  <1>3. Opens(With(recs, r), x)
    <2>1. CASE recs = <<>>
      <3>1. DOMAIN m.idx = {}
        BY <2>1 DEF Opens
      <3>2. With(recs, r) = <<r>> /\ 1 \in DOMAIN <<r>>
        BY <2>1 DEF With
      <3>3. \A h \in DOMAIN x : x[h] = 0
        BY <3>1
      <3> HIDE DEF x, r
      <3> QED
        BY <3>2, <3>3, FirstOffset DEF Opens
    <2>2. CASE recs # <<>>
      <3>1. With(recs, r) = recs /\ 1 \in DOMAIN recs
        BY <2>2, FileFirst DEF With
      <3>2. \A h \in DOMAIN x : x[h] = 0 \/ (h \in DOMAIN m.idx /\ x[h] = m.idx[h])
        OBVIOUS
      <3> HIDE DEF x, r
      <3> QED
        BY <3>1, <3>2, FirstOffset DEF Opens
    <2> QED
      BY <2>1, <2>2
  <1> HIDE DEF new, r, x
  <1>4. CASE put = [mem |-> new, writes |-> files]
    <2>1. put.writes = files
      BY <1>4
    <2> QED
      BY <1>1, <1>3, <2>1, TwoFiles
  <1>5. CASE put \in Compactions(new, files)
    <2>1. PICK S \in OnePerHeight(new) :
              put = [mem |-> Compacted(new, S, IndexOf(Records(new, S))),
                     writes |-> files \o <<<<"rewrite", Records(new, S)>>,
                                           <<"index", IndexOf(Records(new, S))>>>>]
      BY <1>5, Zenon DEF Compactions
    <2>2. put.writes = files \o <<<<"rewrite", Records(new, S)>>,
                                   <<"index", IndexOf(Records(new, S))>>>>
      BY <2>1
    <2>3. IsFiniteSet(new.blocks) /\ S \subseteq new.blocks
      BY <1>1, FS_AddElement DEF OnePerHeight
    <2>4. IsFiniteSet(S)
      BY <2>3, FS_Subset
    <2>5. S # {}
      <3>1. Height[b] \in DOMAIN new.idx /\ b \in new.blocks
        BY <1>1 DEF x
      <3>2. Cardinality({a \in S : Height[a] = Height[b]}) = 1
        BY <3>1 DEF OnePerHeight
      <3>3. S = {} => {a \in S : Height[a] = Height[b]} = {}
        OBVIOUS
      <3> QED
        BY <3>2, <3>3, FS_EmptySet
    <2> QED
      BY <1>1, <1>3, <2>2, <2>4, <2>5, FourFiles, RecordsFile, RecordsOpen
  <1> QED
    BY <1>2, <1>4, <1>5

\* What is in the files d once f is written.
LEMMA FlushedFields ==
    ASSUME NEW f, f[1] \in FileNames, IsDisk(disk),
           disk.dat = [recs |-> disk.dat.recs, rest |-> disk.dat.rest],
           NEW d, d = Flushed(f)
    PROVE  /\ IsDisk(d) /\ d.dat = [recs |-> d.dat.recs, rest |-> d.dat.rest]
           /\ f[1] = "index" => d.idx = f[2]
           /\ f[1] # "index" => d.idx = disk.idx
           /\ f[1] = "meta" => d.applied = mem.applied
           /\ f[1] # "meta" => d.applied = disk.applied
           /\ f[1] = "tip" => d.tip = mem.tip
           /\ f[1] # "tip" => d.tip = disk.tip
           /\ f[1] = "append" => /\ d.dat.recs = With(disk.dat.recs, f[2])
                                 /\ DatBlocks(d.dat) = DatBlocks(disk.dat) \cup {f[2].block}
           /\ f[1] = "rewrite" => d.dat = [recs |-> f[2], rest |-> {}]
           /\ f[1] \notin {"append", "rewrite"} => d.dat = disk.dat
  <1>0. /\ IsDisk(disk) /\ disk.dat = [recs |-> disk.dat.recs, rest |-> disk.dat.rest]
    OBVIOUS
  <1>1. CASE f[1] = "append"
    <2>1. d = Appended(disk, f[2])
      BY <1>1 DEF Flushed
    <2>2. /\ IsDisk(d) /\ d.dat = [recs |-> d.dat.recs, rest |-> d.dat.rest]
          /\ d.idx = disk.idx /\ d.applied = disk.applied /\ d.tip = disk.tip
          /\ d.dat.recs = With(disk.dat.recs, f[2])
          /\ \/ disk.dat.recs = <<>> /\ d.dat.rest = disk.dat.rest
             \/ disk.dat.recs # <<>> /\ d.dat.rest = disk.dat.rest \cup {f[2].block}
      <3>1. CASE disk.dat.recs = <<>>
        <4>1. d = [disk EXCEPT !.dat.recs = <<f[2]>>]
          BY <2>1, <3>1 DEF Appended
        <4> DEFINE one == <<f[2]>>
        <4>2. With(disk.dat.recs, f[2]) = one
          BY <3>1 DEF With
        <4> HIDE DEF one
        <4>3. d = [disk EXCEPT !.dat.recs = one]
          BY <4>1 DEF one
        <4>4. /\ d.dat = [recs |-> one, rest |-> disk.dat.rest] /\ d.idx = disk.idx
              /\ d.applied = disk.applied /\ d.tip = disk.tip /\ IsDisk(d)
          BY <1>0, <4>3 DEF IsDisk
        <4> QED
          BY <3>1, <4>2, <4>4
      <3>2. CASE disk.dat.recs # <<>>
        <4> DEFINE more == disk.dat.rest \cup {f[2].block}
        <4>1. d = [disk EXCEPT !.dat.rest = more]
          BY <2>1, <3>2 DEF Appended
        <4>2. With(disk.dat.recs, f[2]) = disk.dat.recs
          BY <3>2 DEF With
        <4>3. more = disk.dat.rest \cup {f[2].block}
          OBVIOUS
        <4> HIDE DEF more
        <4>4. /\ d.dat = [recs |-> disk.dat.recs, rest |-> more] /\ d.idx = disk.idx
              /\ d.applied = disk.applied /\ d.tip = disk.tip /\ IsDisk(d)
          BY <1>0, <4>1 DEF IsDisk
        <4> QED
          BY <3>2, <4>2, <4>3, <4>4
      <3> QED
        BY <3>1, <3>2
    <2>3. DatBlocks(d.dat) = DatBlocks(disk.dat) \cup {f[2].block}
      <3>1. CASE disk.dat.recs = <<>>
        <4>1. Range(d.dat.recs) = {f[2]} /\ Range(disk.dat.recs) = {}
          <5>1. Range(<<f[2]>>) = {f[2]}
            <6>1. PICK o : o = <<f[2]>>
              OBVIOUS
            <6>2. DOMAIN o = {1} /\ o[1] = f[2]
              BY <6>1
            <6>3. Range(o) = {f[2]}
              BY <6>2 DEF Range
            <6> QED
              BY <6>1, <6>3
          <5>2. Range(<<>>) = {}
            BY DEF Range
          <5> QED
            BY <2>2, <3>1, <5>1, <5>2 DEF With
        <4> QED
          BY <2>2, <3>1, <4>1 DEF DatBlocks
      <3>2. CASE disk.dat.recs # <<>>
        BY <2>2, <3>2 DEF DatBlocks, With
      <3> QED
        BY <3>1, <3>2
    <2> QED
      BY <1>1, <2>2, <2>3
  <1>2. CASE f[1] = "rewrite"
    <2>1. d = [disk EXCEPT !.dat = [recs |-> f[2], rest |-> {}]]
      BY <1>2 DEF Flushed, Rewritten
    <2>2. /\ d.dat = [recs |-> f[2], rest |-> {}] /\ d.idx = disk.idx /\ IsDisk(d)
          /\ d.applied = disk.applied /\ d.tip = disk.tip
      BY <1>0, <2>1 DEF IsDisk
    <2>3. d.dat = [recs |-> d.dat.recs, rest |-> d.dat.rest]
      BY <2>2
    <2> QED
      BY <1>2, <2>2, <2>3
  <1>3. CASE f[1] = "index"
    <2>1. d = [disk EXCEPT !.idx = f[2]]
      BY <1>3 DEF Flushed, IndexFile
    <2>2. /\ d.dat = disk.dat /\ d.idx = f[2] /\ IsDisk(d)
          /\ d.applied = disk.applied /\ d.tip = disk.tip
      BY <1>0, <2>1 DEF IsDisk
    <2> QED
      BY <1>0, <1>3, <2>2
  <1>4. CASE f[1] = "meta"
    <2>1. d = MetaFile(disk, mem)
      BY <1>4 DEF Flushed
    <2>2. /\ d.dat = disk.dat /\ d.idx = disk.idx /\ IsDisk(d)
          /\ d.applied = mem.applied /\ d.tip = disk.tip
      BY <1>0, <2>1, MetaFields
    <2> QED
      BY <1>0, <1>4, <2>2
  <1>5. CASE f[1] \in {"utxo", "coinbase", "undo"}
    <2>1. PICK x : \/ d = [disk EXCEPT !.ledger.utxo = x]
                   \/ d = [disk EXCEPT !.ledger.coinbase = x]
                   \/ d = [disk EXCEPT !.undo = x]
      BY <1>5 DEF Flushed, UtxoFile, CoinbaseFile, UndoFile
    <2>2. /\ d.dat = disk.dat /\ d.idx = disk.idx /\ IsDisk(d)
          /\ d.applied = disk.applied /\ d.tip = disk.tip
      BY <1>0, <2>1 DEF IsDisk
    <2> QED
      BY <1>0, <1>5, <2>2
  <1>8. CASE f[1] = "tip"
    <2>1. d = [disk EXCEPT !.tip = mem.tip]
      BY <1>8 DEF Flushed, TipFile
    <2>2. /\ d.dat = disk.dat /\ d.idx = disk.idx /\ IsDisk(d)
          /\ d.applied = disk.applied /\ d.tip = mem.tip
      BY <1>0, <2>1 DEF IsDisk
    <2> QED
      BY <1>0, <1>8, <2>2
  <1> QED
    BY <1>1, <1>2, <1>3, <1>4, <1>5, <1>8 DEF FileNames

\* A file is written.
LEMMA WriteOpens ==
    ASSUME OpenInv, Write
    PROVE  OpenInv'
  <1> DEFINE f == Head(writes)
             n == Len(writes)
  <1>0. /\ writes # <<>> /\ disk' = Flushed(f) /\ writes' = Tail(writes) /\ mem' = mem
    BY DEF Write
  <1>1. PICK S : writes \in Seq(S)
    BY DEF OpenInv, IsWrites
  <1>2. /\ n \in Nat \ {0} /\ DOMAIN writes = 1 .. n /\ DOMAIN writes' = 1 .. n - 1
        /\ \A i \in 1 .. n - 1 : writes'[i] = writes[i + 1]
        /\ f = writes[1] /\ writes' \in Seq(S)
    BY <1>0, <1>1
  <1> HIDE DEF f, n
  <1>3. f[1] \in FileNames /\ IsWrites(writes')
    <2>1. \A i \in 1 .. n : writes[i][1] \in FileNames
      BY <1>2 DEF OpenInv, IsWrites
    <2>2. \A i \in 1 .. n - 1 : i + 1 \in 1 .. n
      BY <1>2
    <2>3. \A i \in 1 .. n - 1 : writes'[i][1] \in FileNames
      BY <1>2, <2>1, <2>2
    <2>4. 1 \in 1 .. n
      BY <1>2
    <2>5. f[1] \in FileNames
      BY <1>2, <2>1, <2>4
    <2>6. IsWrites(writes')
      BY <1>2, <2>3 DEF IsWrites
    <2> QED
      BY <2>5, <2>6
  <1>4. /\ IsDisk(disk') /\ disk'.dat = [recs |-> disk'.dat.recs, rest |-> disk'.dat.rest]
        /\ disk'.idx = IF f[1] = "index" THEN f[2] ELSE disk.idx
        /\ disk'.dat.recs = CASE f[1] = "append" -> With(disk.dat.recs, f[2])
                              [] f[1] = "rewrite" -> f[2]
                              [] OTHER -> disk.dat.recs
    <2>1. IsDisk(disk) /\ disk.dat = [recs |-> disk.dat.recs, rest |-> disk.dat.rest]
      BY DEF OpenInv
    <2>2. PICK d : d = Flushed(f)
      OBVIOUS
    <2>3. /\ IsDisk(d) /\ d.dat = [recs |-> d.dat.recs, rest |-> d.dat.rest]
          /\ f[1] = "index" => d.idx = f[2]
          /\ f[1] # "index" => d.idx = disk.idx
          /\ f[1] = "append" => d.dat.recs = With(disk.dat.recs, f[2])
          /\ f[1] = "rewrite" => d.dat = [recs |-> f[2], rest |-> {}]
          /\ f[1] \notin {"append", "rewrite"} => d.dat = disk.dat
      BY <1>3, <2>1, <2>2, FlushedFields
    <2> QED
      BY <1>0, <2>2, <2>3
  <1>5. IndexInv'
    <2>1. CASE n \in DOMAIN writes /\ writes[n] = <<"index", mem.idx>>
      <3>1. CASE n = 1
        <4>1. disk'.idx = mem.idx
          BY <1>2, <1>4, <2>1, <3>1
        <4>2. ~Pending("index")'
          BY <1>2, <3>1 DEF Pending
        <4> QED
          BY <1>0, <4>1, <4>2 DEF IndexInv
      <3>2. CASE n # 1
        <4>1. n - 1 \in 1 .. n - 1 /\ (n - 1) + 1 = n /\ Len(writes') = n - 1
          BY <1>0, <1>1, <1>2, <3>2 DEF n
        <4> QED
          BY <1>0, <1>2, <2>1, <4>1 DEF IndexInv
      <3> QED
        BY <3>1, <3>2
    <2>2. CASE disk.idx = mem.idx /\ ~Pending("index")
      <3>1. f[1] # "index"
        BY <1>2, <2>2 DEF Pending
      <3>2. ~Pending("index")'
        <4>1. \A i \in 1 .. n - 1 : i + 1 \in 1 .. n
          BY <1>2
        <4> QED
          BY <1>2, <2>2, <4>1 DEF Pending
      <3> QED
        BY <1>0, <1>4, <2>2, <3>1, <3>2 DEF IndexInv
    <2> QED
      BY <2>1, <2>2 DEF OpenInv, IndexInv, n
  <1> DEFINE old == disk.dat.recs
             recs == disk'.dat.recs
  <1>6. \A i \in 1 .. n : RecordsFollow(writes, i)
    BY <1>2 DEF OpenInv, InOrder
  <1>7. IsFile(recs)
    <2>1. f[1] = "rewrite" => IsFile(f[2])
      BY <1>2, <1>6 DEF RecordsFollow
    <2>2. IsFile(With(old, f[2]))
      <3>1. CASE old = <<>>
        <4>1. With(old, f[2]) = <<f[2]>> /\ DOMAIN <<f[2]>> = 1 .. 1
          BY <3>1 DEF With
        <4> QED
          BY <4>1 DEF IsFile
      <3>2. CASE old # <<>>
        BY <3>2 DEF With, OpenInv
      <3> QED
        BY <3>1, <3>2
    <2> QED
      BY <1>4, <2>1, <2>2 DEF OpenInv
  <1>8. ASSUME NEW i \in 1 .. n - 1 PROVE RecordsFollow(writes', i)
    <2>1. i + 1 \in 1 .. n /\ writes'[i] = writes[i + 1] /\ RecordsFollow(writes, i + 1)
      BY <1>2, <1>6, <1>8
    <2>2. ASSUME writes'[i][1] \in {"append", "rewrite"}
          PROVE  i + 1 \in 1 .. n - 1 /\ writes'[i + 1][1] = "index"
      <3>1. (i + 1) + 1 \in 1 .. n /\ writes[(i + 1) + 1][1] = "index"
        BY <1>2, <2>1, <2>2 DEF RecordsFollow
      <3>2. i + 1 \in 1 .. n - 1
        BY <1>2, <3>1
      <3> QED
        BY <1>2, <3>1, <3>2
    <2>3. ASSUME writes'[i][1] = "append", NEW j \in 1 .. n - 1, j < i
          PROVE  writes'[j][1] \notin {"append", "rewrite"}
      <3>1. j + 1 \in 1 .. n /\ j + 1 < i + 1 /\ writes'[j] = writes[j + 1]
        BY <1>2, <2>3
      <3> QED
        BY <1>2, <2>1, <2>3, <3>1 DEF RecordsFollow
    <2>4. writes'[i][1] = "rewrite" => IsFile(writes'[i][2])
      BY <2>1 DEF RecordsFollow
    <2> QED
      BY <1>2, <2>2, <2>3, <2>4 DEF RecordsFollow
  <1>9. ASSUME NEW i \in 1 .. n - 1, writes'[i][1] = "index"
        PROVE  \/ IndexFollows(writes', i, recs)
               \/ i = 1 /\ Opens(recs, writes'[i][2])
    <2>1. i + 1 \in 1 .. n /\ writes'[i] = writes[i + 1] /\ i + 1 > 1
          /\ (i + 1) - 1 = i /\ i \in 1 .. n
          /\ (i = 1 \/ (i > 1 /\ i - 1 \in 1 .. n - 1 /\ (i - 1) + 1 = i)) /\ i + 1 # 1
      BY <1>2
    <2>2. IndexFollows(writes, i + 1, old)
      BY <1>2, <1>9, <2>1 DEF OpenInv, InOrder
    <2>3. CASE writes[i][1] = "append" /\ Opens(With(old, writes[i][2]), writes'[i][2])
      <3>1. CASE i = 1
        BY <1>2, <1>4, <2>3, <3>1
      <3>2. CASE i > 1
        <4>1. 1 \in 1 .. n /\ 1 < i
          BY <1>2, <2>1, <3>2
        <4>2. f[1] \notin {"append", "rewrite"}
          BY <1>2, <1>6, <2>1, <2>3, <4>1 DEF RecordsFollow
        <4>3. recs = old
          BY <1>4, <4>2
        <4>4. writes'[i - 1] = writes[i]
          BY <1>2, <2>1, <3>2
        <4> QED
          BY <2>3, <3>2, <4>3, <4>4 DEF IndexFollows
      <3> QED
        BY <2>1, <3>1, <3>2
    <2>4. CASE writes[i][1] = "rewrite" /\ Opens(writes[i][2], writes'[i][2])
      <3>1. CASE i = 1
        BY <1>2, <1>4, <2>4, <3>1
      <3>2. CASE i > 1
        <4>1. writes'[i - 1] = writes[i]
          BY <1>2, <2>1, <3>2
        <4> QED
          BY <2>4, <3>2, <4>1 DEF IndexFollows
      <3> QED
        BY <2>1, <3>1, <3>2
    <2> QED
      BY <2>1, <2>2, <2>3, <2>4 DEF IndexFollows
  <1>10. InOrder(writes', recs)
    BY <1>2, <1>8, <1>9 DEF InOrder
  <1>11. ASSUME ~Pending("index")' PROVE Opens(recs, disk'.idx)
    <2>1. f[1] \notin {"append", "rewrite"}
      <3>1. SUFFICES ASSUME f[1] \in {"append", "rewrite"} PROVE FALSE
        OBVIOUS
      <3>2. 1 \in 1 .. n /\ RecordsFollow(writes, 1)
        BY <1>2, <1>6
      <3>3. 1 + 1 \in 1 .. n /\ writes[1 + 1][1] = "index"
        BY <1>2, <3>1, <3>2 DEF RecordsFollow
      <3>4. 1 \in 1 .. n - 1
        BY <1>2, <3>3
      <3> QED
        BY <1>2, <1>11, <3>3, <3>4 DEF Pending
    <2>2. recs = old
      BY <1>4, <2>1
    <2>3. CASE f[1] = "index"
      <3>1. 1 \in DOMAIN writes /\ ~(1 > 1)
        BY <1>2
      <3>2. Opens(old, f[2])
        BY <1>2, <2>3, <3>1 DEF OpenInv, InOrder, IndexFollows
      <3> QED
        BY <1>4, <2>2, <2>3, <3>2
    <2>4. CASE f[1] # "index"
      <3>1. ~Pending("index")
        <4>1. ASSUME NEW i \in 1 .. n PROVE writes[i][1] # "index"
          <5>1. i = 1 \/ (i - 1 \in 1 .. n - 1 /\ (i - 1) + 1 = i)
            BY <1>2
          <5> QED
            BY <1>2, <1>11, <2>4, <5>1 DEF Pending
        <4> QED
          BY <1>2, <4>1 DEF Pending
      <3> QED
        BY <1>4, <2>2, <2>4, <3>1 DEF OpenInv
    <2> QED
      BY <2>3, <2>4
  <1> QED
    BY <1>0, <1>3, <1>4, <1>5, <1>7, <1>10, <1>11 DEF OpenInv


\* A call that leaves the index alone, or ends with a new one.
LEMMA CallOpens ==
    ASSUME OpenInv, writes = <<>>, disk' = disk, IsStore(mem'), IsFiniteSet(mem'.blocks),
           IsLedger(mem'.ledger), IsWrites(writes'),
           \/ /\ mem'.idx = mem.idx
              /\ \A i \in DOMAIN writes' : writes'[i][1] \notin {"append", "rewrite", "index"}
           \/ /\ Chained(writes', disk.dat.recs)
              /\ Len(writes') \in DOMAIN writes'
              /\ writes'[Len(writes')] = <<"index", mem'.idx>>
    PROVE  OpenInv'
  <1>1. ~Pending("index") /\ Len(writes) \notin DOMAIN writes
    BY DEF Pending
  <1>2. disk.idx = mem.idx /\ Opens(disk.dat.recs, disk.idx)
    BY <1>1 DEF OpenInv, IndexInv
  <1>3. IndexInv'
    BY <1>2 DEF IndexInv, Pending
  <1>4. InOrder(writes', disk.dat.recs)
    <2>1. CASE \A i \in DOMAIN writes' : writes'[i][1] \notin {"append", "rewrite", "index"}
      BY <2>1 DEF InOrder, RecordsFollow
    <2>2. CASE Chained(writes', disk.dat.recs)
      BY <2>2 DEF InOrder, Chained
    <2> QED
      BY <2>1, <2>2
  <1> QED
    BY <1>2, <1>3, <1>4 DEF OpenInv

\* What OpenInv reads is the same.
LEMMA SameOpens ==
    ASSUME OpenInv, mem' = mem, disk' = disk, writes' = writes
    PROVE  OpenInv'
  BY DEF OpenInv, IndexInv, Pending

\* The names of the files of a call that writes no blocks.
LEMMA OtherWrites ==
    /\ \A n \in {"meta", "tip"} :
          /\ IsWrites(<<<<n>>>>)
          /\ \A i \in DOMAIN <<<<n>>>> : <<<<n>>>>[i][1] \notin {"append", "rewrite", "index"}
    /\ IsWrites(LedgerFiles)
    /\ \A i \in DOMAIN LedgerFiles : LedgerFiles[i][1] \notin {"append", "rewrite", "index"}
  <1>1. ASSUME NEW n \in {"meta", "tip"}
        PROVE  /\ IsWrites(<<<<n>>>>)
               /\ \A i \in DOMAIN <<<<n>>>> : <<<<n>>>>[i][1] \notin {"append", "rewrite", "index"}
    <2> DEFINE w == <<<<n>>>>
    <2>1. IsWrites(w) /\ DOMAIN w = {1} /\ w[1][1] = n
      BY OneWrite
    <2> HIDE DEF w
    <2>2. IsWrites(w) /\ \A i \in DOMAIN w : w[i][1] \notin {"append", "rewrite", "index"}
      BY <2>1
    <2> QED
      BY <2>2 DEF w
  <1>2. \A i \in DOMAIN LedgerFiles : i = 1 \/ i = 2 \/ i = 3
    BY LedgerWrites
  <1> QED
    BY <1>1, <1>2, LedgerWrites

\* A store read from files that open.
LEMMA LoadOpens ==
    ASSUME NEW d, IsFile(d.dat.recs)
    PROVE  /\ IsStore(Load(d)) /\ IsFiniteSet(Load(d).blocks) /\ Load(d).idx = d.idx
           /\ Load(d).ledger = d.ledger
  <1> DEFINE found == {r.block : r \in {d.dat.recs[k] : k \in Found(d)}}
             block == [k \in DOMAIN d.dat.recs |-> d.dat.recs[k].block]
  <1>1. /\ IsStore(Load(d)) /\ Load(d).idx = d.idx /\ Load(d).blocks = found
        /\ Load(d).ledger = d.ledger
    BY DEF Load, IsStore
  <1>2. found \subseteq {block[k] : k \in DOMAIN d.dat.recs}
    BY DEF Found
  <1>3. IsFiniteSet(DOMAIN d.dat.recs)
    BY FS_Interval DEF IsFile
  <1> HIDE DEF found, block
  <1>4. IsFiniteSet(Image(block, DOMAIN d.dat.recs))
    BY <1>3, ImageFinite
  <1>5. IsFiniteSet(found)
    BY <1>2, <1>4, FS_Subset DEF Image
  <1> QED
    BY <1>1, <1>5

\* Applying a block leaves the store one, with the blocks and the index it had.
LEMMA AppliedStore ==
    ASSUME NEW m, IsStore(m), NEW b
    PROVE  LET a == Applied(m, b)
           IN  /\ IsStore(a) /\ (IsLedger(m.ledger) => IsLedger(a.ledger))
               /\ a.blocks = m.blocks /\ a.idx = m.idx /\ a.work = m.work
               /\ a.tip = m.tip /\ a.applied = m.applied /\ a.bodies = m.bodies
               /\ a.compacted = m.compacted
  <1>1. PICK y : Applied(m, b) =
                     [m EXCEPT !.ledger = IF b \in m.bodies THEN ApplyTo(m.ledger, b) ELSE m.ledger,
                               !.undo = y]
    BY DEF Applied
  <1>2. IsLedger(ApplyTo(m.ledger, b))
    BY DEF IsLedger, ApplyTo
  <1> DEFINE x == IF b \in m.bodies THEN ApplyTo(m.ledger, b) ELSE m.ledger
  <1>3. Applied(m, b) = [m EXCEPT !.ledger = x, !.undo = y] /\ x \in {ApplyTo(m.ledger, b), m.ledger}
    BY <1>1
  <1> HIDE DEF x
  <1> QED
    BY <1>2, <1>3 DEF IsStore

\* Every step keeps OpenInv, a restart too.
LEMMA OpenInvStep == OpenInv /\ [Next \/ Restart]_storeVars => OpenInv'
  <1> SUFFICES ASSUME OpenInv, [Next \/ Restart]_storeVars PROVE OpenInv'
    OBVIOUS
  <1>0. /\ IsStore(mem) /\ IsFiniteSet(mem.blocks) /\ IsLedger(mem.ledger) /\ IsFile(disk.dat.recs)
        /\ writes = <<>> => Opens(disk.dat.recs, mem.idx)
    BY DEF OpenInv, IndexInv, Pending
  <1>1. ASSUME NEW b, NEW n, Call(n, b) PROVE writes = <<>> /\ disk' = disk
    BY <1>1 DEF Call
  <1>2. ASSUME NEW b \in Block, Accept(b) PROVE OpenInv'
    BY <1>2, SameOpens DEF Accept
  <1>3. ASSUME NEW b, RememberPow(b) PROVE OpenInv'
    BY <1>0, <1>1, <1>3, CallOpens, OtherWrites DEF RememberPow
  <1>4. ASSUME NEW b, NEW m, IsStore(m), m.blocks = mem.blocks, m.idx = mem.idx, IsLedger(m.ledger),
               NEW body,
               NEW put \in Puts(m, b, body), mem' = put.mem, writes = <<>>, disk' = disk,
               writes' = put.writes \/ writes' = LedgerFiles \o put.writes
        PROVE  OpenInv'
    <2>1. Chained(put.writes, disk.dat.recs)
      BY <1>0, <1>4, PutOpens
    <2>2. /\ IsWrites(put.writes) /\ Len(put.writes) \in DOMAIN put.writes
          /\ put.writes[Len(put.writes)] = <<"index", mem'.idx>>
      BY <1>4, PutWrites
    <2>3. IsStore(mem') /\ IsFiniteSet(mem'.blocks) /\ IsLedger(mem'.ledger)
      <3>1. IsPut(m, b, put.mem)
        BY <1>4, PutsKeep
      <3> QED
        BY <1>0, <1>4, <3>1, FS_AddElement DEF IsPut
    <2>4. CASE writes' = put.writes
      BY <1>4, <2>1, <2>2, <2>3, <2>4, CallOpens
    <2>5. CASE writes' = LedgerFiles \o put.writes
      <3>1. Chained(writes', disk.dat.recs)
        BY <2>1, <2>2, <2>5, OtherWrites, ChainedAfter
      <3>2. /\ IsWrites(writes') /\ Len(writes') \in DOMAIN writes'
            /\ writes'[Len(writes')] = <<"index", mem'.idx>>
        BY <2>2, <2>5, OtherWrites, WritesConcat
      <3> QED
        BY <1>4, <2>3, <3>1, <3>2, CallOpens
    <2> QED
      BY <1>4, <2>4, <2>5
  <1>5. ASSUME NEW b, PutBlock(b) PROVE OpenInv'
    <2>1. PICK put \in Puts(mem, b, TRUE) : mem' = put.mem /\ writes' = put.writes
      BY <1>5 DEF PutBlock
    <2>2. writes = <<>> /\ disk' = disk
      BY <1>1, <1>5 DEF PutBlock
    <2> QED
      BY <1>0, <1>4, <2>1, <2>2
  <1>6. ASSUME NEW b, SetWork(b) PROVE OpenInv'
    <2>1. /\ IsStore(mem') /\ mem'.idx = mem.idx /\ mem'.blocks = mem.blocks
          /\ mem'.ledger = mem.ledger
      BY <1>0, <1>6 DEF SetWork, IsStore
    <2> QED
      BY <1>0, <1>1, <1>6, <2>1, CallOpens, OtherWrites DEF SetWork
  <1>7. ASSUME NEW b, Reorganize(b) PROVE OpenInv'
    BY <1>7, SameOpens DEF Reorganize, Call
  <1>8. ASSUME NEW b, Disconnect(b) PROVE OpenInv'
    <2>0. PICK l, u, a : mem' = [mem EXCEPT !.ledger = l, !.undo = u, !.applied = a]
                         /\ (l = mem.ledger \/ \E v : l = Rollback(mem.ledger, v))
      BY <1>8 DEF Disconnect
    <2>1. /\ IsStore(mem') /\ mem'.idx = mem.idx /\ mem'.blocks = mem.blocks
          /\ IsLedger(mem'.ledger)
      <3>1. IsStore(mem') /\ mem'.idx = mem.idx /\ mem'.blocks = mem.blocks /\ mem'.ledger = l
        BY <1>0, <2>0 DEF IsStore
      <3>2. IsLedger(l)
        BY <1>0, <2>0 DEF IsLedger, Rollback
      <3> QED
        BY <3>1, <3>2
    <2>2. writes' = LedgerFiles
      BY <1>8 DEF Disconnect, LedgerFiles
    <2> QED
      BY <1>0, <1>1, <1>8, <2>1, <2>2, CallOpens, OtherWrites DEF Disconnect
  <1>9. ASSUME NEW b, Connect(b) PROVE OpenInv'
    <2>1. PICK put \in Puts(Applied(mem, b), b, b \in mem.bodies) :
              mem' = put.mem /\ writes' = LedgerFiles \o put.writes
      BY <1>9 DEF Connect, LedgerFiles
    <2>2. writes = <<>> /\ disk' = disk
      BY <1>1, <1>9 DEF Connect, CallConnect
    <2> QED
      BY <1>0, <1>4, <2>1, <2>2, AppliedStore
  <1>10. ASSUME NEW b, ConnectSkips(b) \/ ConnectAborts(b) PROVE OpenInv'
    BY <1>10, SameOpens DEF ConnectSkips, ConnectAborts, CallConnect, Call
  <1>11. ASSUME NEW b, MarkApplied(b) PROVE OpenInv'
    <2>1. /\ IsStore(mem') /\ mem'.idx = mem.idx /\ mem'.blocks = mem.blocks
          /\ mem'.ledger = mem.ledger
      BY <1>0, <1>11 DEF MarkApplied, IsStore
    <2> QED
      BY <1>0, <1>1, <1>11, <2>1, CallOpens, OtherWrites DEF MarkApplied
  <1>12. ASSUME NEW b, SetTip(b) PROVE OpenInv'
    <2>1. /\ IsStore(mem') /\ mem'.idx = mem.idx /\ mem'.blocks = mem.blocks
          /\ mem'.ledger = mem.ledger
      BY <1>0, <1>12 DEF SetTip, IsStore
    <2> QED
      BY <1>0, <1>1, <1>12, <2>1, CallOpens, OtherWrites DEF SetTip
  <1>13. ASSUME Restart PROVE OpenInv'
    <2>1. /\ mem' = Load(disk) /\ disk' = disk /\ writes' = writes /\ writes = <<>>
          /\ CanOpen(disk)
      BY <1>13 DEF Restart, Idle
    <2>2. /\ IsStore(mem') /\ IsFiniteSet(mem'.blocks) /\ mem'.idx = disk.idx
          /\ mem'.ledger = disk.ledger
      BY <1>0, <2>1, LoadOpens
    <2>3. IsLedger(disk.ledger)
      <3>1. PICK l : disk.ledger = [utxo |-> l.utxo, coinbase |-> l.coinbase]
        BY DEF OpenInv, IsDisk
      <3> QED
        BY <3>1 DEF IsLedger
    <2> QED
      BY <2>1, <2>2, <2>3 DEF OpenInv, IndexInv, Pending
  <1>14. ASSUME FastSync PROVE OpenInv'
    <2> DEFINE d == Snapshot(mem)
               one == <<Rec(mem.tip, TRUE)>>
    <2>1. /\ mem' = Load(disk') /\ disk' = d /\ writes' = <<>>
      BY <1>14 DEF FastSync, Idle
    <2>2. /\ d.idx = IF mem.tip \in mem.blocks THEN [h \in {Height[mem.tip]} |-> 0] ELSE Empty
          /\ d.dat = [recs |-> IF mem.tip \in mem.blocks THEN one ELSE <<>>, rest |-> {}]
          /\ d = [dat |-> d.dat, idx |-> d.idx, work |-> mem.work, applied |-> mem.applied,
                  undo |-> Empty, ledger |-> mem.ledger, tip |-> mem.tip]
      BY DEF Snapshot
    <2>3. IsLedger(mem.ledger)
      BY <1>0
    <2>4. IsDisk(d) /\ d.ledger = mem.ledger /\ d.dat = [recs |-> d.dat.recs, rest |-> d.dat.rest]
          /\ d.dat.recs = IF mem.tip \in mem.blocks THEN one ELSE <<>>
      <3>1. d.ledger = mem.ledger
        BY DEF Snapshot
      <3>2. d.dat = [recs |-> d.dat.recs, rest |-> d.dat.rest]
            /\ d.dat.recs = IF mem.tip \in mem.blocks THEN one ELSE <<>>
        BY <2>2
      <3>3. \E i, w, a, u, t, l, x : d = [dat |-> x, idx |-> i, work |-> w, applied |-> a, undo |-> u,
                                         ledger |-> l, tip |-> t]
        BY DEF Snapshot
      <3>4. d = [dat |-> d.dat, idx |-> d.idx, work |-> d.work, applied |-> d.applied,
                 undo |-> d.undo, ledger |-> d.ledger, tip |-> d.tip]
        BY <3>3
      <3> HIDE DEF d
      <3> QED
        BY <2>3, <3>1, <3>2, <3>4 DEF IsDisk, IsLedger
    <2>5. IsFile(d.dat.recs)
      <3>1. IsFile(one) /\ IsFile(<<>>)
        <4>1. DOMAIN one = 1 .. 1 /\ DOMAIN <<>> = 1 .. 0
          OBVIOUS
        <4> QED
          BY <4>1 DEF IsFile
      <3> QED
        BY <2>4, <3>1
    <2>6. Opens(d.dat.recs, d.idx)
      <3>1. CASE mem.tip \in mem.blocks
        <4>1. DOMAIN one = {1}
          OBVIOUS
        <4> HIDE DEF d, one
        <4>2. d.dat.recs = one /\ d.idx = [h \in {Height[mem.tip]} |-> 0]
          BY <2>2, <2>4, <3>1
        <4>3. 1 \in DOMAIN d.dat.recs /\ \A h \in DOMAIN d.idx : d.idx[h] = 0
          BY <4>1, <4>2
        <4> QED
          BY <4>3, FirstOffset DEF Opens
      <3>2. CASE mem.tip \notin mem.blocks
        BY <2>2, <3>2 DEF Opens, Empty
      <3> QED
        BY <3>1, <3>2
    <2> HIDE DEF d
    <2>7. /\ IsStore(mem') /\ IsFiniteSet(mem'.blocks) /\ mem'.idx = d.idx
          /\ mem'.ledger = d.ledger
      BY <2>1, <2>5, LoadOpens
    <2>8. IsWrites(writes') /\ InOrder(writes', d.dat.recs) /\ ~Pending("index")'
      <3>1. writes' \in Seq({}) /\ DOMAIN writes' = {}
        BY <2>1
      <3> QED
        BY <3>1 DEF IsWrites, InOrder, Pending
    <2> QED
      BY <2>1, <2>3, <2>4, <2>5, <2>6, <2>7, <2>8 DEF OpenInv, IndexInv
  <1>15. CASE UNCHANGED storeVars
    BY <1>15, SameOpens DEF storeVars
  <1>16. ASSUME Write PROVE OpenInv'
    BY <1>16, WriteOpens
  <1> QED
    BY <1>2, <1>3, <1>5, <1>6, <1>7, <1>8, <1>9, <1>10, <1>11, <1>12, <1>13, <1>14, <1>15, <1>16
    DEF Next, BlockNext, StoreStep

\* The store starts with no files.
LEMMA OpenInvInit == Init => OpenInv
  <1> SUFFICES ASSUME Init PROVE OpenInv
    OBVIOUS
  <1>1. mem = Load(EmptyDisk) /\ disk = EmptyDisk /\ writes = <<>>
    BY DEF Init
  <1>2. /\ disk = [dat |-> [recs |-> <<>>, rest |-> {}], idx |-> Empty, work |-> Empty,
                   applied |-> {}, undo |-> Empty, ledger |-> [utxo |-> {}, coinbase |-> {}],
                   tip |-> Zero]
    BY <1>1 DEF EmptyDisk, EmptyState
  <1>3. /\ disk.dat = [recs |-> <<>>, rest |-> {}] /\ disk.idx = Empty
        /\ disk.ledger = [utxo |-> {}, coinbase |-> {}]
    BY <1>2
  <1>4. IsDisk(disk) /\ disk.dat = [recs |-> disk.dat.recs, rest |-> disk.dat.rest]
        /\ disk.dat.recs = <<>> /\ IsLedger(disk.ledger)
    BY <1>2, <1>3 DEF IsDisk, IsLedger
  <1>5. IsFile(disk.dat.recs)
    <2>1. DOMAIN <<>> = 1 .. 0
      OBVIOUS
    <2> QED
      BY <1>4, <2>1 DEF IsFile
  <1>6. Opens(disk.dat.recs, disk.idx)
    BY <1>3 DEF Opens, Empty
  <1>7. /\ IsStore(mem) /\ IsFiniteSet(mem.blocks) /\ mem.idx = disk.idx
        /\ mem.ledger = disk.ledger
    BY <1>1, <1>5, LoadOpens
  <1>8. IsWrites(writes) /\ InOrder(writes, disk.dat.recs) /\ ~Pending("index")
    <2>1. writes \in Seq({}) /\ DOMAIN writes = {}
      BY <1>1
    <2> QED
      BY <2>1 DEF IsWrites, InOrder, Pending
  <1> QED
    BY <1>4, <1>5, <1>6, <1>7, <1>8 DEF OpenInv, IndexInv

\* The part of TipIsDurable that no fork disturbs: whatever blocks arrive, valid or
\* not, and however often the process stops, between any two files too, the store
\* opens again unless chain.dat is rewritten and chain.idx is not.  Nothing is asked
\* of the blocks, and a node may have started from a snapshot.
THEOREM StoreOpens ==
    Init /\ [][Next \/ Restart]_storeVars
        => []((\A i \in DOMAIN writes : writes[i][1] # "index") => CanOpen(disk))
  <1>1. OpenInv /\ [Next \/ Restart]_storeVars => OpenInv'
    BY OpenInvStep
  <1>2. OpenInv => ((\A i \in DOMAIN writes : writes[i][1] # "index") => CanOpen(disk))
    BY DEF OpenInv, Pending, Opens, CanOpen
  <1> QED
    BY <1>1, <1>2, OpenInvInit, PTL

(***************************************************************************)
(* A store that has seen one chain, and connects it from its genesis on.   *)
(***************************************************************************)

\* The heights of a chain whose headers were checked grow with it.
LEMMA HeightsGrow ==
    ASSUME HeightZeroIsGenesis, NEW c \in Block, IsFiniteSet(Path[c]),
           \A a \in Path[c] : Height[a] = 0 \/ Height[a] = Height[Parent[a]] + 1
    PROVE  \A y \in Path[c] : \A x \in Path[y] : x = y \/ Height[x] < Height[y]
  <1> DEFINE Goal(m) == \A x \in Path[m] : x = m \/ Height[x] < Height[m]
             Good == {T \in SUBSET Path[c] : \A m \in Path[c] : Path[m] = T => Goal(m)}
  <1>1. ASSUME NEW T \in SUBSET Path[c], \A x \in T : T \ {x} \in Good
        PROVE  T \in Good
    <2> SUFFICES ASSUME NEW m \in Path[c], Path[m] = T, NEW x \in Path[m], x # m
                 PROVE  Height[x] < Height[m]
      OBVIOUS
    <2> DEFINE p == Parent[m]
    <2>1. m \in Block /\ Path[c] \subseteq Block
      BY PathOf
    <2>2. m \in T /\ Path[p] = T \ {m} /\ p \in Block \cup {Zero} /\ x \in Path[p] /\ p # Zero
      BY <2>1, PathOf
    <2>3. p \in Path[c]
      BY <2>2, PathOf
    <2>4. x = p \/ Height[x] < Height[p]
      BY <1>1, <2>2, <2>3
    <2>5. Height[m] = Height[p] + 1
      BY <2>1, <2>2 DEF HeightZeroIsGenesis
    <2>6. Height[m] \in Nat /\ Height[p] \in Nat /\ Height[x] \in Nat
      BY <2>1, <2>2, <2>3, TreeAssumption
    <2> HIDE DEF p
    <2> QED
      BY <2>4, <2>5, <2>6
  <1> HIDE DEF Good
  <1>2. ASSUME NEW m \in Path[c] PROVE Goal(m)
    <2>1. Path[m] \subseteq Path[c]
      BY PathIsChain
    <2>2. IsFiniteSet(Path[m])
      BY <2>1, FS_Subset
    <2>3. \A T \in SUBSET Path[m] : (\A x \in T : T \ {x} \in Good \cap SUBSET Path[m])
                                        => T \in Good \cap SUBSET Path[m]
      BY <1>1, <2>1
    <2>4. Path[m] \in Good \cap SUBSET Path[m]
      BY <2>2, <2>3, SetInduction
    <2> QED
      BY <2>4 DEF Good
  <1> QED
    BY <1>2

\* The blocks of S all have different heights.
Distinct(S) == \A a, b \in S : Height[a] = Height[b] => a = b

\* So a chain has one block of each height.
LEMMA ChainIsDistinct ==
    ASSUME HeightZeroIsGenesis, NEW c \in Block \cup {Zero}, IsFiniteSet(Path[c]),
           \A a \in Path[c] : Height[a] = 0 \/ Height[a] = Height[Parent[a]] + 1
    PROVE  Distinct(Path[c])
  <1>1. CASE c = Zero
    BY <1>1, PathAssumption DEF Distinct
  <1>2. CASE c \in Block
    <2> SUFFICES ASSUME NEW a \in Path[c], NEW b \in Path[c], Height[a] = Height[b]
                 PROVE  a = b
      BY DEF Distinct
    <2>1. a \in Path[b] \/ b \in Path[a]
      BY <1>2, PathIsChain
    <2>2. \A y \in Path[c] : \A x \in Path[y] : x = y \/ Height[x] < Height[y]
      BY <1>2, HeightsGrow
    <2>3. Height[a] \in Nat /\ Height[b] \in Nat
      BY <1>2, PathOf, TreeAssumption
    <2> QED
      BY <2>1, <2>2, <2>3
  <1> QED
    BY <1>1, <1>2

\* Of blocks with different heights each is in its place in the records.
LEMMA BelowPlaces ==
    ASSUME NEW S \in SUBSET Block, IsFiniteSet(S), Distinct(S)
    PROVE  /\ \A b \in S : Below(S, b) \in 0 .. Cardinality(S) - 1
           /\ \A a, b \in S : Below(S, a) = Below(S, b) => a = b
  <1> DEFINE B(b) == {a \in S : Height[a] < Height[b]}
  <1>1. \A b : Below(S, b) = Cardinality(B(b)) /\ B(b) \subseteq S
    BY DEF Below
  <1>2. \A b \in S : Height[b] \in Nat
    BY TreeAssumption
  <1>3. ASSUME NEW b, NEW T, IsFiniteSet(T), NEW x \in T, B(b) \subseteq T \ {x}
        PROVE  Cardinality(B(b)) \in Nat /\ Cardinality(B(b)) <= Cardinality(T) - 1
    <2>1. IsFiniteSet(T \ {x}) /\ Cardinality(T \ {x}) = Cardinality(T) - 1
      BY <1>3, FS_RemoveElement
    <2>2. IsFiniteSet(B(b)) /\ Cardinality(B(b)) <= Cardinality(T \ {x})
      BY <1>3, <2>1, FS_Subset
    <2> QED
      BY <2>1, <2>2, FS_CardinalityType
  <1>4. Cardinality(S) \in Nat
    BY FS_CardinalityType
  <1>5. ASSUME NEW b \in S PROVE Below(S, b) \in 0 .. Cardinality(S) - 1
    <2>1. B(b) \subseteq S \ {b}
      BY <1>2
    <2> HIDE DEF B
    <2> QED
      BY <1>1, <1>3, <1>4, <2>1
  <1>6. ASSUME NEW a \in S, NEW b \in S, Height[a] < Height[b] PROVE Below(S, a) # Below(S, b)
    <2>1. a \in B(b) /\ B(a) \subseteq B(b) \ {a}
      BY <1>2, <1>6
    <2> HIDE DEF B
    <2>2. IsFiniteSet(B(b))
      BY <1>1, FS_Subset
    <2>3. Cardinality(B(b)) \in Nat
      BY <2>2, FS_CardinalityType
    <2>4. Cardinality(B(a)) \in Nat /\ Cardinality(B(a)) <= Cardinality(B(b)) - 1
      BY <1>3, <2>1, <2>2
    <2> QED
      BY <1>1, <2>3, <2>4
  <1>7. ASSUME NEW a \in S, NEW b \in S, Below(S, a) = Below(S, b) PROVE a = b
    <2>1. Height[a] < Height[b] \/ Height[b] < Height[a] \/ a = b
      BY <1>2 DEF Distinct
    <2> QED
      BY <1>6, <1>7, <2>1
  <1> QED
    BY <1>5, <1>7

\* compact writes every block of S.
LEMMA RecordsHold ==
    ASSUME NEW S \in SUBSET Block, IsFiniteSet(S), Distinct(S), NEW m, NEW b \in S
    PROVE  \E k \in DOMAIN Records(m, S) : Records(m, S)[k].block = b
  <1> DEFINE N == Cardinality(S)
             k == Below(S, b) + 1
             At(i) == CHOOSE a \in S : Below(S, a) = i - 1
  <1>1. N \in Nat /\ Below(S, b) \in 0 .. N - 1
        /\ \A a \in S : Below(S, a) = Below(S, b) => a = b
    BY BelowPlaces, FS_CardinalityType
  <1>2. k \in 1 .. N /\ k - 1 = Below(S, b)
    BY <1>1
  <1>3. At(k) = b
    BY <1>1, <1>2
  <1> HIDE DEF k
  <1>4. DOMAIN Records(m, S) = 1 .. N
    BY DEF Records
  <1>5. Records(m, S)[k].block = At(k)
    <2>1. \A x, y : Rec(x, y).block = x
      BY DEF Rec
    <2> HIDE DEF N
    <2> QED
      BY <1>2, <2>1 DEF Records, N
  <1> QED
    BY <1>2, <1>3, <1>4, <1>5

\* The files of q are those of v and w.
Parts(q, v, w) ==
    /\ \A i \in DOMAIN q : \/ \E j \in DOMAIN v : q[i] = v[j]
                           \/ \E j \in DOMAIN w : q[i] = w[j]
    /\ \A j \in DOMAIN v : \E i \in DOMAIN q : q[i] = v[j]
    /\ \A j \in DOMAIN w : \E i \in DOMAIN q : q[i] = w[j]

\* So it is with a concatenation.
LEMMA ConcatParts ==
    ASSUME NEW v, NEW w, IsWrites(v), IsWrites(w)
    PROVE  Parts(v \o w, v, w)
  <1>1. PICK S : v \in Seq(S)
    BY DEF IsWrites
  <1>2. PICK T : w \in Seq(T)
    BY DEF IsWrites
  <1>3. v \in Seq(S \cup T) /\ w \in Seq(S \cup T)
    BY <1>1, <1>2
  <1> DEFINE q == v \o w
             n == Len(v)
  <1>4. /\ n \in Nat /\ Len(w) \in Nat /\ DOMAIN v = 1 .. n /\ DOMAIN w = 1 .. Len(w)
        /\ DOMAIN q = 1 .. n + Len(w)
        /\ \A i \in 1 .. n + Len(w) : q[i] = IF i <= n THEN v[i] ELSE w[i - n]
    BY <1>3
  <1> HIDE DEF q, n
  <1>5. ASSUME NEW i \in 1 .. n PROVE i \in 1 .. n + Len(w) /\ q[i] = v[i]
    BY <1>4
  <1>6. ASSUME NEW i \in 1 .. Len(w) PROVE i + n \in 1 .. n + Len(w) /\ q[i + n] = w[i]
    BY <1>4
  <1>7. ASSUME NEW i \in 1 .. n + Len(w)
        PROVE  i \in 1 .. n \/ \E j \in 1 .. Len(w) : q[i] = w[j]
    <2>1. CASE i <= n
      BY <1>4, <2>1
    <2>2. CASE i > n
      <3>1. i - n \in 1 .. Len(w) /\ (i - n) + n = i
        BY <1>4, <2>2
      <3> QED
        BY <1>6, <3>1
    <2> QED
      BY <1>4, <2>1, <2>2
  <1>8. Parts(q, v, w)
    BY <1>4, <1>5, <1>6, <1>7 DEF Parts
  <1> QED
    BY <1>8 DEF q

\* The records written hold all the blocks of B.
HoldAll(w, B) ==
    \A i \in DOMAIN w : w[i][1] = "rewrite" => B \subseteq {r.block : r \in Range(w[i][2])}

\* A record of b is to be appended.
Appends(w, b) == \E i \in DOMAIN w : w[i][1] = "append" /\ w[i][2].block = b

\* A height that the index has, for each block.
Indexed(m) == \A a \in m.blocks : Height[a] \in DOMAIN m.idx

\* put_block on a chain: the block is appended, and a compaction keeps them all.
LEMMA PutOnChain ==
    ASSUME NEW m, IsStore(m), NEW b, m.blocks \cup {b} \subseteq Block, IsFiniteSet(m.blocks),
           Distinct(m.blocks \cup {b}), Indexed(m), NEW body, NEW put \in Puts(m, b, body)
    PROVE  Indexed(put.mem) /\ HoldAll(put.writes, put.mem.blocks) /\ Appends(put.writes, b)
  <1> DEFINE new == [m EXCEPT !.blocks = @ \cup {b},
                              !.bodies = IF body THEN @ \cup {b} ELSE @ \ {b},
                              !.idx = [h \in DOMAIN @ \cup {Height[b]} |->
                                           IF h = Height[b] THEN 0 ELSE @[h]]]
             r == Rec(b, body)
             f1 == <<"append", r>>
             f2 == <<"index", new.idx>>
             files == <<f1, f2>>
  <1>1. put \in Compactions(new, files) \/ put = [mem |-> new, writes |-> files]
    BY DEF Puts
  <1>2. new.blocks = m.blocks \cup {b} /\ DOMAIN new.idx = DOMAIN m.idx \cup {Height[b]}
    BY DEF IsStore
  <1>3. \E x, y, z : new = [m EXCEPT !.blocks = x, !.bodies = y, !.idx = z]
    OBVIOUS
  <1>4. r.block = b
    BY DEF Rec
  <1> HIDE DEF new, r
  <1>5. f1[1] = "append" /\ f1[2] = r /\ f2[1] = "index"
    OBVIOUS
  <1> HIDE DEF f1, f2
  <1>6. DOMAIN files = 1 .. 2 /\ files[1] = f1 /\ files[2] = f2 /\ files \in Seq({f1, f2})
        /\ Len(files) = 2
    OBVIOUS
  <1>7. \A i \in DOMAIN files : i = 1 \/ i = 2
    BY <1>6
  <1>f. files = <<<<"append", Rec(b, body)>>, <<"index", new.idx>>>>
    BY DEF f1, f2, r
  <1> HIDE DEF files
  <1>8. IsStore(new) /\ Indexed(new)
    BY <1>2, <1>3 DEF IsStore, Indexed
  <1>9. CASE put = [mem |-> new, writes |-> files]
    <2>1. put.mem = new /\ put.writes = files
      BY <1>9
    <2>2. HoldAll(files, new.blocks)
      BY <1>5, <1>6, <1>7 DEF HoldAll
    <2>3. Appends(files, b)
      BY <1>4, <1>5, <1>6 DEF Appends
    <2> QED
      BY <1>8, <2>1, <2>2, <2>3
  <1>10. CASE put \in Compactions(new, files)
    <2>1. PICK S \in OnePerHeight(new) :
              put = [mem |-> Compacted(new, S, IndexOf(Records(new, S))),
                     writes |-> files \o <<<<"rewrite", Records(new, S)>>,
                                           <<"index", IndexOf(Records(new, S))>>>>]
      BY <1>10, Zenon DEF Compactions
    <2> DEFINE R == Records(new, S)
               x == IndexOf(R)
               g1 == <<"rewrite", R>>
               g2 == <<"index", x>>
               w == <<g1, g2>>
    <2>2. S \in SUBSET new.blocks /\ IsFiniteSet(new.blocks)
      BY <1>2, FS_AddElement DEF OnePerHeight
    <2>3. ASSUME NEW a \in new.blocks PROVE a \in S
      <3>1. Height[a] \in DOMAIN new.idx
        BY <1>8 DEF Indexed
      <3>2. Cardinality({c \in S : Height[c] = Height[a]}) = 1
        BY <3>1 DEF OnePerHeight
      <3>3. {c \in S : Height[c] = Height[a]} # {}
        BY <3>2, FS_EmptySet
      <3>4. PICK c \in S : Height[c] = Height[a]
        BY <3>3
      <3> QED
        BY <1>2, <2>2, <3>4 DEF Distinct
    <2>4. S = new.blocks
      BY <2>2, <2>3
    <2>5. \A a \in S : \E k \in DOMAIN R : R[k].block = a
      <3>1. S \in SUBSET Block /\ IsFiniteSet(S) /\ Distinct(S)
        BY <1>2, <2>2, <2>4
      <3> QED
        BY <3>1, RecordsHold
    <2>6. DOMAIN x = {Height[R[k].block] : k \in DOMAIN R}
      <3> HIDE DEF R
      <3> QED
        BY DEF IndexOf
    <2> HIDE DEF R
    <2>7. \A a \in S : Height[a] \in DOMAIN x
      BY <2>5, <2>6
    <2>8. g1[1] = "rewrite" /\ g1[2] = R /\ g2[1] = "index"
      OBVIOUS
    <2>9. put.mem = Compacted(new, S, x) /\ put.writes = files \o w
      BY <2>1 DEF R
    <2> HIDE DEF x
    <2>10. put.mem.idx = x /\ put.mem.blocks = new.blocks
      BY <1>8, <2>9 DEF Compacted, IsStore
    <2> HIDE DEF g1, g2
    <2>11. DOMAIN w = 1 .. 2 /\ w[1] = g1 /\ w[2] = g2 /\ w \in Seq({g1, g2})
      OBVIOUS
    <2>12. \A i \in DOMAIN w : i = 1 \/ i = 2
      BY <2>11
    <2> HIDE DEF w
    <2>13. IsWrites(files) /\ IsWrites(w)
      BY <1>5, <1>6, <1>7, <2>8, <2>11, <2>12 DEF IsWrites, FileNames
    <2>14. Parts(put.writes, files, w)
      <3>1. PICK v : v = files
        OBVIOUS
      <3>2. PICK u : u = w
        OBVIOUS
      <3>3. PICK y : y = v \o u
        OBVIOUS
      <3>4. IsWrites(v) /\ IsWrites(u)
        BY <2>13, <3>1, <3>2
      <3>5. Parts(y, v, u)
        BY <3>3, <3>4, ConcatParts
      <3> QED
        BY <2>9, <3>1, <3>2, <3>3, <3>5
    <2>15. new.blocks \subseteq {q.block : q \in Range(R)}
      BY <2>4, <2>5 DEF Range
    <2>16. HoldAll(put.writes, put.mem.blocks)
      BY <1>5, <1>6, <1>7, <2>8, <2>10, <2>11, <2>12, <2>14, <2>15 DEF HoldAll, Parts
    <2>17. Appends(put.writes, b)
      BY <1>4, <1>5, <1>6, <2>14 DEF Appends, Parts
    <2>18. Indexed(put.mem)
      BY <2>4, <2>7, <2>10 DEF Indexed
    <2> QED
      BY <2>16, <2>17, <2>18
  <1>11. put \in Compactions(new, files) \/ put = [mem |-> new, writes |-> files]
    BY <1>1, <1>f
  <1> QED
    BY <1>9, <1>10, <1>11

\* Files before those of a call are no records.
LEMMA PutAfterLedger ==
    ASSUME NEW w, IsWrites(w), NEW B, HoldAll(w, B), NEW b, Appends(w, b)
    PROVE  HoldAll(LedgerFiles \o w, B) /\ Appends(LedgerFiles \o w, b)
  <1> DEFINE q == LedgerFiles \o w
  <1>3. /\ \A i \in DOMAIN q : \/ \E j \in DOMAIN LedgerFiles : q[i] = LedgerFiles[j]
                               \/ \E j \in DOMAIN w : q[i] = w[j]
        /\ \A j \in DOMAIN w : \E i \in DOMAIN q : q[i] = w[j]
    <2>1. PICK v : v = LedgerFiles
      OBVIOUS
    <2>2. IsWrites(v)
      BY <2>1, LedgerWrites
    <2>3. PICK y : y = v \o w
      OBVIOUS
    <2>4. Parts(y, v, w)
      BY <2>2, <2>3, ConcatParts
    <2> QED
      BY <2>1, <2>3, <2>4 DEF Parts
  <1> HIDE DEF q
  <1>5. \A j \in DOMAIN LedgerFiles : LedgerFiles[j][1] # "rewrite"
    BY OtherWrites
  <1>6. HoldAll(q, B)
    BY <1>3, <1>5 DEF HoldAll
  <1>7. Appends(q, b)
    BY <1>3 DEF Appends
  <1> QED
    BY <1>6, <1>7 DEF q

\* The next of the calls q is named n, and is for b.
NextIs(q, n, b) == q # <<>> /\ Head(q)[1] = n /\ b \in Head(q)[2]

\* Every block in memory is on a chain of blocks in memory, and those with work are
\* there.  So is the parent of the one that is put next, and that which is given work.
Grounded ==
    /\ mem.blocks \subseteq Block /\ DOMAIN mem.work \subseteq mem.blocks
    /\ \A b \in mem.blocks : /\ IsFiniteSet(Path[b]) /\ Path[b] \subseteq mem.blocks
                             /\ HeaderOK(mem.blocks, b)
    /\ \A b : /\ NextIs(calls, "remember_pow", b) \/ NextIs(calls, "put_block", b)
                     => HeaderOK(mem.blocks, b)
              /\ NextIs(calls, "set_work", b) => b \in mem.blocks

\* The first of the calls of accept_block.
LEMMA NextIsFrom ==
    ASSUME NEW c, NEW q, NEW n, NEW b, NextIs(q, n, b)
    PROVE  /\ q = FromPow(c) => n = "remember_pow" /\ b = c
           /\ q = FromPut(c) => n = "put_block" /\ b = c
           /\ q = FromWork(c) => n = "set_work" /\ b = c
           /\ q = FromReorg(c) => n = "reorganize" /\ b = c
  BY DEF NextIs, FromPow, FromPut, FromWork, FromReorg

\* The first of those of reorganize.
LEMMA NextIsTurn ==
    ASSUME NEW W, NEW q \in Seq(Turns(W)), NEW n, NEW b, NextIs(q, n, b)
    PROVE  n \in {"disconnect", "connect", "mark_applied", "set_tip"}
  <1>1. Head(q) \in Turns(W)
    BY DEF NextIs
  <1> QED
    BY <1>1 DEF NextIs, Turns

\* A call of reorganize leaves such calls.
LEMMA TurnsLeft ==
    ASSUME WInv, NEW b, NEW n, Call(n, b),
           n \in {"disconnect", "connect", "mark_applied", "set_tip"}
    PROVE  /\ After(b) \in Seq(Turns(DOMAIN mem.work))
           /\ b \in Block \cup {Zero}
              => <<<<"mark_applied", {b}>>>> \o After(b) \in Seq(Turns(DOMAIN mem.work))
           /\ mem.blocks \subseteq DOMAIN mem.work
  <1>1. /\ calls \in Seq(Turns(DOMAIN mem.work)) /\ mem.blocks \subseteq DOMAIN mem.work
    BY CallsSplit DEF WInv
  <1>2. After(b) \in Seq(Turns(DOMAIN mem.work))
    BY <1>1, AfterTurn
  <1>3. ASSUME b \in Block \cup {Zero}
        PROVE  <<<<"mark_applied", {b}>>>> \o After(b) \in Seq(Turns(DOMAIN mem.work))
    <2> DEFINE T == Turns(DOMAIN mem.work)
               c == <<"mark_applied", {b}>>
    <2>1. c \in T
      BY <1>3 DEF Turns
    <2> HIDE DEF T, c
    <2>2. <<c>> \in Seq(T)
      BY <2>1
    <2>3. After(b) \in Seq(T)
      BY <1>2 DEF T
    <2>4. <<c>> \o After(b) \in Seq(T)
      BY <2>2, <2>3
    <2> QED
      BY <2>4 DEF T, c
  <1> QED
    BY <1>1, <1>2, <1>3

\* The blocks in memory are the same, and so is what is asked of the next call.
LEMMA GroundedSame ==
    ASSUME Grounded, mem'.blocks = mem.blocks, DOMAIN mem'.work \subseteq mem.blocks,
           \A b : /\ NextIs(calls', "remember_pow", b) \/ NextIs(calls', "put_block", b)
                         => HeaderOK(mem.blocks, b)
                  /\ NextIs(calls', "set_work", b) => b \in mem.blocks
    PROVE  Grounded'
  BY DEF Grounded

\* A new block stands on the others.
LEMMA GroundedPut ==
    ASSUME HeightZeroIsGenesis, Grounded, NEW b \in Block, HeaderOK(mem.blocks, b)
    PROVE  /\ IsFiniteSet(Path[b]) /\ Path[b] \subseteq mem.blocks \cup {b}
           /\ \A a \in mem.blocks \cup {b} : HeaderOK(mem.blocks \cup {b}, a)
  <1>1. Path[b] = Path[Parent[b]] \cup {b} /\ Path[Zero] = {}
    BY PathOf
  <1>2. IsFiniteSet(Path[Parent[b]]) /\ Path[Parent[b]] \subseteq mem.blocks
    <2>1. CASE Height[b] = 0
      BY <1>1, <2>1, FS_EmptySet DEF HeightZeroIsGenesis
    <2>2. CASE Height[b] # 0
      BY <2>2 DEF HeaderOK, Grounded
    <2> QED
      BY <2>1, <2>2
  <1>3. IsFiniteSet(Path[b])
    BY <1>1, <1>2, FS_AddElement
  <1> QED
    BY <1>1, <1>2, <1>3 DEF HeaderOK, Grounded

\* Every step of a block keeps Grounded.
LEMMA GroundedStep ==
    ASSUME HeightZeroIsGenesis, WInv, Grounded, [BlockNext]_storeVars
    PROVE  Grounded'
  <1> DEFINE W == DOMAIN mem.work
  <1>0. IsStore(mem) /\ WorkIsTotal /\ CallsInv /\ W \subseteq mem.blocks
    BY DEF WInv, Grounded
  <1>1. ASSUME calls' \in Seq(Turns(W)), mem'.blocks = mem.blocks, mem'.work = mem.work
        PROVE  Grounded'
    <2>1. \A b : /\ ~NextIs(calls', "remember_pow", b) /\ ~NextIs(calls', "put_block", b)
                 /\ ~NextIs(calls', "set_work", b)
      BY <1>1, NextIsTurn
    <2> QED
      BY <1>0, <1>1, <2>1, GroundedSame
  <1>2. ASSUME NEW b \in Block, Accept(b) PROVE Grounded'
    <2>1. mem' = mem /\ HeaderOK(mem.blocks, b) /\ calls' = FromPow(b)
      BY <1>2 DEF Accept, FromPow
    <2>2. \A a, n : NextIs(calls', n, a) => n = "remember_pow" /\ a = b
      BY <2>1, NextIsFrom
    <2> QED
      BY <1>0, <2>1, <2>2, GroundedSame
  <1>3. ASSUME NEW b, RememberPow(b) PROVE Grounded'
    <2>1. Call("remember_pow", b) /\ mem' = mem /\ calls' = After(b)
      BY <1>3 DEF RememberPow
    <2>2. calls' = FromPut(b)
      BY <1>0, <2>1, CallsSplit
    <2>3. HeaderOK(mem.blocks, b)
      BY <2>1 DEF Grounded, NextIs, Call
    <2>4. \A a, n : NextIs(calls', n, a) => n = "put_block" /\ a = b
      BY <2>2, NextIsFrom
    <2> QED
      BY <1>0, <2>1, <2>3, <2>4, GroundedSame
  <1>4. ASSUME NEW b, PutBlock(b) PROVE Grounded'
    <2>1. Call("put_block", b) /\ calls' = After(b)
      BY <1>4 DEF PutBlock
    <2>2. PICK put \in Puts(mem, b, TRUE) : mem' = put.mem
      BY <1>4 DEF PutBlock
    <2>3. b \in Block /\ calls' = FromWork(b)
      BY <1>0, <2>1, CallsSplit
    <2>4. HeaderOK(mem.blocks, b)
      BY <2>1 DEF Grounded, NextIs, Call
    <2>5. mem'.blocks = mem.blocks \cup {b} /\ mem'.work = mem.work
      <3>1. IsPut(mem, b, put.mem)
        BY <1>0, PutsKeep
      <3> QED
        BY <2>2, <3>1 DEF IsPut
    <2>6. \A a, n : NextIs(calls', n, a) => n = "set_work" /\ a = b
      BY <2>3, NextIsFrom
    <2>7. \A a \in mem'.blocks : /\ IsFiniteSet(Path[a]) /\ Path[a] \subseteq mem'.blocks
                                 /\ HeaderOK(mem'.blocks, a)
      <3>1. /\ IsFiniteSet(Path[b]) /\ Path[b] \subseteq mem.blocks \cup {b}
            /\ \A a \in mem.blocks \cup {b} : HeaderOK(mem.blocks \cup {b}, a)
        BY <2>3, <2>4, GroundedPut
      <3>2. \A a \in mem.blocks : IsFiniteSet(Path[a]) /\ Path[a] \subseteq mem.blocks
        BY DEF Grounded
      <3> QED
        BY <2>5, <3>1, <3>2
    <2> QED
      BY <1>0, <2>3, <2>5, <2>6, <2>7 DEF Grounded
  <1>5. ASSUME NEW b, SetWork(b) PROVE Grounded'
    <2>1. Call("set_work", b) /\ calls' = After(b)
      BY <1>5 DEF SetWork
    <2>2. calls' = FromReorg(b)
      BY <1>0, <2>1, CallsSplit
    <2>3. b \in mem.blocks
      BY <2>1 DEF Grounded, NextIs, Call
    <2>4. mem'.blocks = mem.blocks /\ DOMAIN mem'.work = W \cup {b}
      BY <1>0, <1>5 DEF SetWork, IsStore
    <2>5. \A a, n : NextIs(calls', n, a) => n = "reorganize"
      BY <2>2, NextIsFrom
    <2> QED
      BY <1>0, <2>3, <2>4, <2>5, GroundedSame
  <1>6. ASSUME NEW b, Reorganize(b) PROVE Grounded'
    <2>1. Call("reorganize", b) /\ mem' = mem /\ calls' = Plan(mem)
      BY <1>6 DEF Reorganize
    <2>2. W # {}
      BY <1>0, <2>1, CallsSplit
    <2>3. \A a \in W : mem.work[a] \in Nat
      BY <1>0, ChainWorkNat DEF WorkIsTotal
    <2>4. Plan(mem) \in Seq(Turns(W))
      BY <1>0, <2>2, <2>3, PlanIsTurns DEF WorkIsTotal
    <2> QED
      BY <1>1, <2>1, <2>4
  <1>7. ASSUME NEW b, Disconnect(b) PROVE Grounded'
    <2>1. Call("disconnect", b) /\ calls' = After(b)
      BY <1>7 DEF Disconnect
    <2>2. mem'.blocks = mem.blocks /\ mem'.work = mem.work
      BY <1>0, <1>7 DEF Disconnect, IsStore
    <2> QED
      BY <1>1, <2>1, <2>2, TurnsLeft
  <1>8. ASSUME NEW b, Connect(b) PROVE Grounded'
    <2>1. Call("connect", b) /\ calls' = <<<<"mark_applied", {b}>>>> \o After(b)
          /\ b \in mem.blocks
      BY <1>8 DEF Connect, CallConnect
    <2>2. PICK put \in Puts(Applied(mem, b), b, b \in mem.bodies) : mem' = put.mem
      BY <1>8 DEF Connect
    <2>3. mem'.blocks = mem.blocks /\ mem'.work = mem.work
      <3>1. /\ IsStore(Applied(mem, b)) /\ Applied(mem, b).blocks = mem.blocks
            /\ Applied(mem, b).work = mem.work
        BY <1>0, AppliedStore
      <3>2. IsPut(Applied(mem, b), b, put.mem)
        BY <3>1, PutsKeep
      <3> QED
        BY <2>1, <2>2, <3>1, <3>2 DEF IsPut
    <2>4. b \in Block
      BY <2>1 DEF Grounded
    <2> QED
      BY <1>1, <2>1, <2>3, <2>4, TurnsLeft
  <1>9. ASSUME NEW b \in Block \cup {Zero}, ConnectSkips(b) PROVE Grounded'
    <2>1. Call("connect", b) /\ calls' = <<<<"mark_applied", {b}>>>> \o After(b) /\ mem' = mem
      BY <1>9 DEF ConnectSkips, CallConnect
    <2> QED
      BY <1>1, <2>1, TurnsLeft
  <1>10. ASSUME NEW b, ConnectAborts(b) PROVE Grounded'
    <2>1. calls' = <<>> /\ mem' = mem
      BY <1>10 DEF ConnectAborts
    <2> QED
      BY <1>1, <2>1
  <1>11. ASSUME NEW b, MarkApplied(b) PROVE Grounded'
    <2>1. Call("mark_applied", b) /\ calls' = After(b)
      BY <1>11 DEF MarkApplied
    <2>2. mem'.blocks = mem.blocks /\ mem'.work = mem.work
      BY <1>0, <1>11 DEF MarkApplied, IsStore
    <2> QED
      BY <1>1, <2>1, <2>2, TurnsLeft
  <1>12. ASSUME NEW b, SetTip(b) PROVE Grounded'
    <2>1. Call("set_tip", b) /\ calls' = After(b)
      BY <1>12 DEF SetTip
    <2>2. mem'.blocks = mem.blocks /\ mem'.work = mem.work
      BY <1>0, <1>12 DEF SetTip, IsStore
    <2> QED
      BY <1>1, <2>1, <2>2, TurnsLeft
  <1>13. ASSUME mem' = mem, calls' = calls PROVE Grounded'
    BY <1>0, <1>13 DEF Grounded
  <1> QED
    BY <1>2, <1>3, <1>4, <1>5, <1>6, <1>7, <1>8, <1>9, <1>10, <1>11, <1>12, <1>13
    DEF BlockNext, StoreStep, Write, storeVars

\* The store has seen one chain only.
OneSeen == \E c \in Block \cup {Zero} : mem.blocks = Path[c]

\* reorganize has still to mark M and to connect J, and then to set the tip n.
Connecting(n, M, J) ==
    /\ calls = CallsOf(M, {}, J, n)
    /\ Path[n] \ (M \cup J) \subseteq mem.applied

\* Nothing is disconnected.
ChainCalls ==
    \/ calls = <<>>
    \/ \E b \in Block : calls \in {FromPow(b), FromPut(b), FromWork(b), FromReorg(b)}
    \/ \E n \in mem.blocks : \E M, J \in SUBSET Places : Connecting(n, M, J)

\* The chain of t is in memory and on disk, and marked in both.
Durable(t) == Path[t] \subseteq mem.applied \cap disk.applied \cap mem.blocks \cap DatBlocks(disk.dat)

\* The chain of the tip is durable, that of the tip on disk too.  Every block in memory
\* is in chain.dat, or to be appended to it; and chain.dat is rewritten with all of them.
ChainFiles ==
    /\ Durable(mem.tip) /\ Durable(disk.tip)
    /\ disk.applied = mem.applied \/ Pending("meta")
    /\ Indexed(mem) /\ HoldAll(writes, mem.blocks)
    /\ \A b \in mem.blocks : b \in DatBlocks(disk.dat) \/ Appends(writes, b)

ChainInv == OneSeen => ChainCalls /\ ChainFiles

\* A store that has seen one chain saw one before.
LEMMA OneSeenBack ==
    ASSUME Grounded, OneSeen',
           mem'.blocks = mem.blocks \/ \E b \in Block : mem'.blocks = mem.blocks \cup {b}
    PROVE  OneSeen
  <1>1. PICK c \in Block \cup {Zero} : mem'.blocks = Path[c]
    BY DEF OneSeen
  <1>2. CASE mem'.blocks = mem.blocks
    BY <1>1, <1>2 DEF OneSeen
  <1>3. ASSUME NEW b \in Block, mem'.blocks = mem.blocks \cup {b}, b \notin mem.blocks
        PROVE  OneSeen
    <2>1. c # Zero /\ b \in Path[c]
      BY <1>1, <1>3, PathOf
    <2>2. c \in Path[c]
      BY <2>1, PathOf
    <2>3. c = b
      <3>1. SUFFICES ASSUME c # b PROVE FALSE
        OBVIOUS
      <3>2. c \in mem.blocks
        BY <1>1, <1>3, <2>2, <3>1
      <3>3. Path[c] \subseteq mem.blocks
        BY <3>2 DEF Grounded
      <3> QED
        BY <1>3, <2>1, <3>3
    <2>4. mem.blocks = Path[Parent[b]] /\ Parent[b] \in Block \cup {Zero}
      <3>1. Path[Parent[b]] = Path[b] \ {b} /\ Parent[b] \in Block \cup {Zero}
        BY PathOf
      <3>2. mem.blocks = Path[b] \ {b}
        BY <1>1, <1>3, <2>3
      <3> QED
        BY <3>1, <3>2
    <2> QED
      BY <2>4 DEF OneSeen
  <1> QED
    BY <1>2, <1>3

\* Its blocks have different heights.
LEMMA SeenIsDistinct ==
    ASSUME HeightZeroIsGenesis, NEW S \in SUBSET Block, \E c \in Block \cup {Zero} : S = Path[c],
           \A a \in S : IsFiniteSet(Path[a]) /\ HeaderOK(S, a)
    PROVE  Distinct(S)
  <1>1. PICK c \in Block \cup {Zero} : S = Path[c]
    OBVIOUS
  <1>2. IsFiniteSet(Path[c])
    <2>1. CASE c = Zero
      BY <2>1, PathAssumption, FS_EmptySet
    <2>2. CASE c # Zero
      BY <1>1, <2>2, PathOf
    <2> QED
      BY <2>1, <2>2
  <1>3. \A a \in Path[c] : Height[a] = 0 \/ Height[a] = Height[Parent[a]] + 1
    BY <1>1 DEF HeaderOK
  <1> QED
    BY <1>1, <1>2, <1>3, ChainIsDistinct

\* A call that adds blocks to chain.dat, and leaves no chain of a tip behind.
LEMMA CallFiles ==
    ASSUME ChainFiles, writes = <<>>, disk' = disk, mem.blocks \subseteq mem'.blocks,
           \A b \in mem'.blocks : b \in mem.blocks \/ Appends(writes', b),
           Indexed(mem'), HoldAll(writes', mem'.blocks),
           mem'.tip = mem.tip \/ Path[mem'.tip] \subseteq mem.applied \cap mem.blocks,
           \/ mem'.applied = mem.applied
           \/ mem.applied \subseteq mem'.applied /\ Pending("meta")'
    PROVE  ChainFiles'
  <1>1. disk.applied = mem.applied
    BY DEF ChainFiles, Pending
  <1>2. mem.blocks \subseteq DatBlocks(disk.dat)
    BY DEF ChainFiles, Appends
  <1>3. mem.applied \subseteq mem'.applied
    OBVIOUS
  <1>4. Durable(mem.tip) /\ Durable(disk.tip)
    BY DEF ChainFiles
  <1>5. Path[mem'.tip] \subseteq mem.applied \cap mem.blocks
    BY <1>4 DEF Durable
  <1>6. Durable(mem.tip)'
    BY <1>1, <1>2, <1>3, <1>5 DEF Durable
  <1>7. Durable(disk.tip)'
    BY <1>1, <1>3, <1>4 DEF Durable
  <1> QED
    BY <1>1, <1>2, <1>6, <1>7 DEF ChainFiles

\* A file is written.
LEMMA WriteFiles ==
    ASSUME OpenInv, ChainFiles, Write
    PROVE  ChainFiles'
  <1> DEFINE f == Head(writes)
             n == Len(writes)
  <1>0. /\ writes # <<>> /\ disk' = Flushed(f) /\ writes' = Tail(writes) /\ mem' = mem
    BY DEF Write
  <1>1. PICK S : writes \in Seq(S)
    BY DEF OpenInv, IsWrites
  <1>2. /\ n \in Nat \ {0} /\ DOMAIN writes = 1 .. n /\ DOMAIN writes' = 1 .. n - 1
        /\ \A i \in 1 .. n - 1 : writes'[i] = writes[i + 1]
        /\ f = writes[1] /\ writes' \in Seq(S)
    BY <1>0, <1>1
  <1> HIDE DEF f, n
  <1>3. \A i \in 1 .. n : writes[i] = f \/ \E j \in 1 .. n - 1 : writes'[j] = writes[i]
    <2> SUFFICES ASSUME NEW i \in 1 .. n, i # 1 PROVE \E j \in 1 .. n - 1 : writes'[j] = writes[i]
      BY <1>2
    <2>1. i - 1 \in 1 .. n - 1 /\ (i - 1) + 1 = i
      BY <1>2
    <2> QED
      BY <1>2, <2>1
  <1>4. \A i \in 1 .. n - 1 : i + 1 \in 1 .. n
    BY <1>2
  <1>5. 1 \in 1 .. n /\ f[1] \in FileNames
    BY <1>2 DEF OpenInv, IsWrites
  <1>6. PICK d : d = Flushed(f)
    OBVIOUS
  <1>7. /\ f[1] = "meta" => d.applied = mem.applied
        /\ f[1] # "meta" => d.applied = disk.applied
        /\ f[1] = "tip" => d.tip = mem.tip
        /\ f[1] # "tip" => d.tip = disk.tip
        /\ f[1] = "append" => DatBlocks(d.dat) = DatBlocks(disk.dat) \cup {f[2].block}
        /\ f[1] = "rewrite" => d.dat = [recs |-> f[2], rest |-> {}]
        /\ f[1] \notin {"append", "rewrite"} => d.dat = disk.dat
    BY <1>5, <1>6, FlushedFields DEF OpenInv
  <1>8. disk' = d
    BY <1>0, <1>6
  <1>9. HoldAll(writes', mem.blocks)
    BY <1>2, <1>4 DEF ChainFiles, HoldAll
  <1>10. d.applied = mem.applied \/ Pending("meta")'
    <2>1. CASE f[1] = "meta"
      BY <1>7, <2>1
    <2>2. CASE f[1] # "meta"
      <3>1. Pending("meta") => Pending("meta")'
        BY <1>2, <1>3, <2>2 DEF Pending
      <3> QED
        BY <1>7, <2>2, <3>1 DEF ChainFiles
    <2> QED
      BY <2>1, <2>2
  <1>11. \A b \in mem.blocks : b \in DatBlocks(d.dat) \/ Appends(writes', b)
    <2> SUFFICES ASSUME NEW b \in mem.blocks, ~Appends(writes', b) PROVE b \in DatBlocks(d.dat)
      OBVIOUS
    <2>1. Appends(writes, b) => f[1] = "append" /\ f[2].block = b
      BY <1>2, <1>3 DEF Appends
    <2>2. b \in DatBlocks(disk.dat) \/ (f[1] = "append" /\ f[2].block = b)
      BY <2>1 DEF ChainFiles
    <2>3. CASE f[1] = "rewrite"
      <3>1. mem.blocks \subseteq {r.block : r \in Range(f[2])}
        BY <1>2, <1>5, <2>3 DEF ChainFiles, HoldAll
      <3> QED
        BY <1>7, <2>3, <3>1 DEF DatBlocks
    <2>4. CASE f[1] = "append"
      BY <1>7, <2>2, <2>4
    <2>5. CASE f[1] \notin {"append", "rewrite"}
      BY <1>7, <2>2, <2>5
    <2> QED
      BY <2>3, <2>4, <2>5
  <1>12. ASSUME NEW t, Durable(t)
         PROVE  Path[t] \subseteq mem.applied \cap d.applied \cap mem.blocks \cap DatBlocks(d.dat)
    <2>1. Path[t] \subseteq mem.applied \cap disk.applied \cap mem.blocks \cap DatBlocks(disk.dat)
      BY <1>12 DEF Durable
    <2>2. d.applied = mem.applied \/ d.applied = disk.applied
      BY <1>7
    <2>3. CASE f[1] = "rewrite"
      <3>1. mem.blocks \subseteq {r.block : r \in Range(f[2])}
        BY <1>2, <1>5, <2>3 DEF ChainFiles, HoldAll
      <3>2. mem.blocks \subseteq DatBlocks(d.dat)
        BY <1>7, <2>3, <3>1 DEF DatBlocks
      <3> QED
        BY <2>1, <2>2, <3>2
    <2>4. CASE f[1] # "rewrite"
      <3>1. DatBlocks(disk.dat) \subseteq DatBlocks(d.dat)
        BY <1>7, <2>4
      <3> QED
        BY <2>1, <2>2, <3>1
    <2> QED
      BY <2>3, <2>4
  <1>13. Durable(mem.tip) /\ Durable(disk.tip)
    BY DEF ChainFiles
  <1>14. d.tip = mem.tip \/ d.tip = disk.tip
    BY <1>7
  <1>15. Durable(mem.tip)' /\ Durable(disk.tip)'
    BY <1>0, <1>8, <1>12, <1>13, <1>14 DEF Durable
  <1> QED
    BY <1>0, <1>8, <1>9, <1>10, <1>11, <1>15 DEF ChainFiles

\* A call that leaves the blocks where they are.
LEMMA PlainFiles ==
    ASSUME ChainFiles, writes = <<>>, disk' = disk, mem'.blocks = mem.blocks, mem'.idx = mem.idx,
           \A i \in DOMAIN writes' : writes'[i][1] # "rewrite",
           mem'.tip = mem.tip \/ Path[mem'.tip] \subseteq mem.applied \cap mem.blocks,
           \/ mem'.applied = mem.applied
           \/ mem.applied \subseteq mem'.applied /\ Pending("meta")'
    PROVE  ChainFiles'
  <1>1. Indexed(mem') /\ HoldAll(writes', mem'.blocks)
    BY DEF ChainFiles, Indexed, HoldAll
  <1> QED
    BY <1>1, CallFiles

\* A call that puts b, of the same marks and tip.
LEMMA PutFiles ==
    ASSUME ChainFiles, writes = <<>>, disk' = disk, NEW m, IsStore(m), m.blocks = mem.blocks,
           m.idx = mem.idx, m.tip = mem.tip, m.applied = mem.applied, IsFiniteSet(mem.blocks),
           NEW b \in Block, mem.blocks \subseteq Block, Distinct(mem.blocks \cup {b}),
           NEW body, NEW put \in Puts(m, b, body), mem' = put.mem,
           writes' = put.writes \/ writes' = LedgerFiles \o put.writes
    PROVE  ChainFiles'
  <1>1. Indexed(put.mem) /\ HoldAll(put.writes, put.mem.blocks) /\ Appends(put.writes, b)
    <2>1. Indexed(m)
      BY DEF ChainFiles, Indexed
    <2> QED
      BY <2>1, PutOnChain
  <1>2. HoldAll(writes', mem'.blocks) /\ Appends(writes', b)
    <2>1. IsWrites(put.writes)
      BY PutWrites
    <2>2. PICK w, B : w = put.writes /\ B = put.mem.blocks
      OBVIOUS
    <2>3. IsWrites(w) /\ HoldAll(w, B) /\ Appends(w, b)
      BY <1>1, <2>1, <2>2
    <2>4. PICK v : v = LedgerFiles \o w
      OBVIOUS
    <2>5. HoldAll(v, B) /\ Appends(v, b)
      BY <2>3, <2>4, PutAfterLedger
    <2>6. (writes' = w \/ writes' = v) /\ mem'.blocks = B
      BY <2>2, <2>4
    <2> QED
      BY <2>3, <2>5, <2>6
  <1>3. mem'.blocks = mem.blocks \cup {b} /\ mem'.tip = mem.tip /\ mem'.applied = mem.applied
    <2>1. IsPut(m, b, put.mem)
      BY PutsKeep
    <2> QED
      BY <2>1 DEF IsPut
  <1> QED
    BY <1>1, <1>2, <1>3, CallFiles

\* reorganize of such a store has nothing to disconnect.
LEMMA ReorganizeChain ==
    ASSUME WInv, Grounded, OneSeen, ChainFiles, NEW b, Reorganize(b)
    PROVE  ChainCalls'
  <1>a. PICK W, n, t : W = DOMAIN mem.work /\ n = BestTip(mem) /\ t = mem.tip
    OBVIOUS
  <1>b. PICK L, J : /\ L = IF t = Zero THEN {} ELSE Walk(mem, t) \ Walk(mem, n)
                    /\ J = IF t = Zero THEN Walk(mem, n) ELSE Walk(mem, n) \ Walk(mem, t)
    OBVIOUS
  <1>1. Call("reorganize", b) /\ calls' = Plan(mem) /\ mem' = mem
    BY DEF Reorganize
  <1>2. W # {} /\ W \subseteq mem.blocks /\ mem.blocks \subseteq Block
    BY <1>a, <1>1, CallsSplit DEF WInv, Grounded
  <1>3. /\ IsFiniteSet(W) /\ t \in W \cup {Zero}
        /\ \A a \in W : IsFiniteSet(Path[a]) /\ mem.work[a] = ChainWork[a] /\ mem.work[a] \in Nat
    BY <1>a, WorkIsNat DEF WInv, WorkIsTotal
  <1>4. n \in W /\ n \in Block /\ \A a \in W \ {n} : Beats(mem, n, a)
    BY <1>a, <1>2, <1>3, BestTipBeats
  <1>5. Plan(mem) = IF n = t THEN <<>>
                    ELSE Rest("disconnect", L) \o Rest("connect", J) \o <<<<"set_tip", {n}>>>>
    BY <1>a, <1>b DEF Plan
  <1>6. ASSUME NEW a \in W PROVE Walk(mem, a) = Path[a] \cup {Zero}
    <2>1. Path[a] \subseteq mem.blocks
      BY <1>2 DEF Grounded
    <2> QED
      BY <2>1 DEF Walk
  <1>7. CASE n = t
    BY <1>1, <1>5, <1>7 DEF ChainCalls
  <1>8. CASE n # t
    <2>1. ASSUME t # Zero PROVE Path[t] \subseteq Path[n]
      <3>1. t \in W /\ t \in Block
        BY <1>2, <1>3, <2>1
      <3>2. PICK c \in Block \cup {Zero} : mem.blocks = Path[c]
        BY DEF OneSeen
      <3>3. c \in Block
        BY <1>2, <3>1, <3>2, PathAssumption
      <3>4. IsFiniteSet(Path[c])
        BY <3>2, <3>3, PathOf DEF Grounded
      <3>5. n \in Path[t] \/ t \in Path[n]
        BY <1>2, <1>4, <3>1, <3>2, <3>3, <3>4, PathIsChain
      <3>6. n \notin Path[t]
        <4>1. SUFFICES ASSUME n \in Path[t] PROVE FALSE
          OBVIOUS
        <4>2. ChainWork[n] < ChainWork[t]
          BY <1>3, <1>8, <3>1, <4>1, WorkGrows
        <4>3. Beats(mem, n, t)
          BY <1>4, <1>8, <3>1
        <4> QED
          BY <1>3, <1>4, <3>1, <4>2, <4>3 DEF Beats
      <3> QED
        BY <1>3, <1>4, <3>5, <3>6, PathIsChain
    <2>2. L = {}
      BY <1>b, <1>3, <1>4, <1>6, <2>1
    <2>3. J \in SUBSET Places /\ Path[n] \ J \subseteq Path[t]
      <3>1. Path[n] \subseteq Block
        BY <1>4, PathOf
      <3>2. CASE t = Zero
        BY <1>b, <1>4, <1>6, <3>1, <3>2 DEF Places
      <3>3. CASE t # Zero
        <4>1. J = (Path[n] \cup {Zero}) \ (Path[t] \cup {Zero})
          BY <1>b, <1>3, <1>4, <1>6, <3>3
        <4>2. Zero \notin Path[n]
          BY <3>1, TreeAssumption
        <4> QED
          BY <3>1, <4>1, <4>2 DEF Places
      <3> QED
        BY <3>2, <3>3
    <2>4. Path[t] \subseteq mem.applied
      BY <1>a DEF ChainFiles, Durable
    <2>5. calls' = CallsOf({}, {}, J, n)
      <3>1. {} \in SUBSET Places
        OBVIOUS
      <3> QED
        BY <1>1, <1>4, <1>5, <1>8, <2>2, <2>3, <3>1, PlanIsCalls
    <2>6. Connecting(n, {}, J)'
      BY <1>1, <2>3, <2>4, <2>5 DEF Connecting
    <2>7. n \in mem'.blocks /\ {} \in SUBSET Places /\ J \in SUBSET Places
      BY <1>1, <1>2, <1>4, <2>3
    <2> QED
      BY <2>6, <2>7 DEF ChainCalls
  <1> QED
    BY <1>7, <1>8

\* The next call that it makes.
LEMMA ChainNext ==
    ASSUME Grounded, ChainCalls, NEW x, NEW b, Call(x, b),
           x \in {"disconnect", "connect", "mark_applied", "set_tip"}
    PROVE  \E n \in mem.blocks : \E M, J \in SUBSET Places :
               Connecting(n, M, J) /\ NextCall(M, {}, J, n, x, b)
  <1>1. calls # <<>>
    BY DEF Call
  <1>2. ASSUME NEW c \in Block, calls \in {FromPow(c), FromPut(c), FromWork(c), FromReorg(c)}
        PROVE  FALSE
    BY <1>2, FromCalls
  <1>3. PICK n \in mem.blocks : \E M, J \in SUBSET Places : Connecting(n, M, J)
    BY <1>1, <1>2 DEF ChainCalls
  <1>4. PICK M, J \in SUBSET Places : Connecting(n, M, J)
    BY <1>3
  <1>5. n \in Block /\ {} \in SUBSET Places
    BY DEF Grounded
  <1>6. NextCall(M, {}, J, n, x, b)
    BY <1>4, <1>5, CallsHead DEF Connecting
  <1> QED
    BY <1>4, <1>6

\* Every step of a block keeps a store that has seen one chain durable.
LEMMA ChainStep ==
    ASSUME HeightZeroIsGenesis, WInv, OpenInv, Grounded, ChainInv, [BlockNext]_storeVars
    PROVE  ChainInv'
  <1> SUFFICES ASSUME OneSeen' PROVE ChainCalls' /\ ChainFiles'
    BY DEF ChainInv
  <1>0. IsStore(mem) /\ CallsInv /\ Grounded' /\ mem.blocks \subseteq Block /\ IsFiniteSet(mem.blocks)
    BY GroundedStep DEF WInv, OpenInv, Grounded
  <1>1. ASSUME \/ mem'.blocks = mem.blocks
               \/ \E b \in Block : mem'.blocks = mem.blocks \cup {b}
        PROVE  OneSeen /\ ChainCalls /\ ChainFiles
    BY <1>1, OneSeenBack DEF ChainInv
  <1>2. ASSUME NEW b, NEW n, Call(n, b) PROVE writes = <<>> /\ disk' = disk
    BY <1>2 DEF Call
  <1>3. ASSUME mem' = mem, disk' = disk, writes' = writes
        PROVE  OneSeen /\ ChainCalls /\ ChainFiles'
    <2>1. OneSeen /\ ChainCalls /\ ChainFiles
      BY <1>1, <1>3
    <2> QED
      BY <1>3, <2>1 DEF ChainFiles, Durable, Pending
  <1>4. ASSUME NEW n \in {"meta", "tip"}, writes' = <<<<n>>>>
        PROVE  Pending(n)' /\ \A i \in DOMAIN writes' : writes'[i][1] # "rewrite"
    <2>1. PICK w : w = <<<<n>>>>
      OBVIOUS
    <2>2. DOMAIN w = {1} /\ w[1][1] = n
      BY <2>1, OneWrite
    <2> QED
      BY <1>4, <2>1, <2>2 DEF Pending
  <1>5. ASSUME NEW n \in mem.blocks, NEW M \in SUBSET Places, NEW J \in SUBSET Places,
               mem'.blocks = mem.blocks, calls' = CallsOf(M, {}, J, n),
               Path[n] \ (M \cup J) \subseteq mem'.applied
        PROVE  ChainCalls'
    BY <1>5 DEF ChainCalls, Connecting
  <1>6. ASSUME NEW b \in Block, Accept(b) PROVE ChainCalls' /\ ChainFiles'
    <2>1. mem' = mem /\ disk' = disk /\ writes' = writes /\ calls' = FromPow(b)
      BY <1>6 DEF Accept, FromPow
    <2> QED
      BY <1>3, <2>1 DEF ChainCalls
  <1>7. ASSUME NEW b, RememberPow(b) PROVE ChainCalls' /\ ChainFiles'
    <2>1. Call("remember_pow", b) /\ mem' = mem /\ calls' = After(b) /\ writes' = <<<<"meta">>>>
      BY <1>7 DEF RememberPow
    <2>2. b \in Block /\ calls' = FromPut(b)
      BY <1>0, <2>1, CallsSplit
    <2>3. ChainFiles'
      BY <1>1, <1>2, <1>4, <2>1, PlainFiles
    <2> QED
      BY <2>2, <2>3 DEF ChainCalls
  <1>8. ASSUME NEW b, PutBlock(b) PROVE ChainCalls' /\ ChainFiles'
    <2>1. Call("put_block", b) /\ calls' = After(b)
      BY <1>8 DEF PutBlock
    <2>2. PICK put \in Puts(mem, b, TRUE) : mem' = put.mem /\ writes' = put.writes
      BY <1>8 DEF PutBlock
    <2>3. b \in Block /\ calls' = FromWork(b)
      BY <1>0, <2>1, CallsSplit
    <2>4. mem'.blocks = mem.blocks \cup {b}
      <3>1. IsPut(mem, b, put.mem)
        BY <1>0, PutsKeep
      <3> QED
        BY <2>2, <3>1 DEF IsPut
    <2>5. Distinct(mem.blocks \cup {b})
      <3>1. Distinct(mem'.blocks)
        <4>1. Grounded' /\ OneSeen'
          BY <1>0
        <4>2. PICK S : S = mem'.blocks
          OBVIOUS
        <4>3. /\ S \subseteq Block /\ \E c \in Block \cup {Zero} : S = Path[c]
              /\ \A a \in S : IsFiniteSet(Path[a]) /\ HeaderOK(S, a)
          BY <4>1, <4>2 DEF Grounded, OneSeen
        <4>4. Distinct(S)
          BY <4>3, SeenIsDistinct
        <4> QED
          BY <4>2, <4>4
      <3> QED
        BY <2>4, <3>1
    <2>6. ChainFiles'
      BY <1>0, <1>1, <1>2, <2>1, <2>2, <2>3, <2>4, <2>5, PutFiles
    <2> QED
      BY <2>3, <2>6 DEF ChainCalls
  <1>9. ASSUME NEW b, SetWork(b) PROVE ChainCalls' /\ ChainFiles'
    <2>1. Call("set_work", b) /\ calls' = After(b) /\ writes' = <<<<"meta">>>>
      BY <1>9 DEF SetWork
    <2>2. b \in Block /\ calls' = FromReorg(b)
      BY <1>0, <2>1, CallsSplit
    <2>3. /\ mem'.blocks = mem.blocks /\ mem'.idx = mem.idx /\ mem'.tip = mem.tip
          /\ mem'.applied = mem.applied
      BY <1>0, <1>9 DEF SetWork, IsStore
    <2>4. ChainFiles'
      BY <1>1, <1>2, <1>4, <2>1, <2>3, PlainFiles
    <2> QED
      BY <2>2, <2>4 DEF ChainCalls
  <1>10. ASSUME NEW b, Reorganize(b) PROVE ChainCalls' /\ ChainFiles'
    <2>1. mem' = mem /\ disk' = disk /\ writes' = writes
      BY <1>2, <1>10 DEF Reorganize
    <2>2. OneSeen /\ ChainFiles /\ ChainFiles'
      BY <1>1, <1>3, <2>1
    <2> QED
      BY <1>10, <2>2, ReorganizeChain
  <1>11. ASSUME NEW b, Disconnect(b) PROVE FALSE
    <2>1. Call("disconnect", b) /\ mem'.blocks = mem.blocks
      BY <1>0, <1>11 DEF Disconnect, IsStore
    <2>2. PICK n \in mem.blocks, M \in SUBSET Places, J \in SUBSET Places :
              NextCall(M, {}, J, n, "disconnect", b)
      BY <1>1, <2>1, ChainNext
    <2> QED
      BY <2>2 DEF NextCall
  <1>12. ASSUME NEW b, Call("connect", b), mem'.blocks = mem.blocks, mem'.applied = mem.applied,
                calls' = <<<<"mark_applied", {b}>>>> \o After(b)
         PROVE  ChainCalls'
    <2>1. PICK n \in mem.blocks, M \in SUBSET Places, J \in SUBSET Places :
              Connecting(n, M, J) /\ NextCall(M, {}, J, n, "connect", b)
      BY <1>1, <1>12, ChainNext
    <2>2. M = {} /\ b \in J /\ calls' = CallsOf({b}, {}, J \ {b}, n)
      BY <1>12, <2>1 DEF NextCall
    <2>3. {b} \in SUBSET Places /\ J \ {b} \in SUBSET Places
          /\ Path[n] \ ({b} \cup (J \ {b})) \subseteq mem'.applied
      BY <1>12, <2>1, <2>2 DEF Connecting
    <2> QED
      BY <1>5, <1>12, <2>2, <2>3
  <1>13. ASSUME NEW b, Connect(b) PROVE ChainCalls' /\ ChainFiles'
    <2>1. Call("connect", b) /\ calls' = <<<<"mark_applied", {b}>>>> \o After(b)
          /\ b \in mem.blocks
      BY <1>13 DEF Connect, CallConnect
    <2>2. PICK put \in Puts(Applied(mem, b), b, b \in mem.bodies) :
              mem' = put.mem /\ writes' = LedgerFiles \o put.writes
      BY <1>13 DEF Connect, LedgerFiles
    <2>3. PICK m : m = Applied(mem, b)
      OBVIOUS
    <2>4. /\ IsStore(m) /\ m.blocks = mem.blocks /\ m.idx = mem.idx /\ m.tip = mem.tip
          /\ m.applied = mem.applied
      BY <1>0, <2>3, AppliedStore
    <2>5. mem'.blocks = mem.blocks /\ mem'.applied = mem.applied
      <3>1. IsPut(m, b, put.mem)
        BY <2>2, <2>3, <2>4, PutsKeep
      <3> QED
        BY <2>1, <2>2, <2>4, <3>1 DEF IsPut
    <2>6. OneSeen /\ ChainFiles
      BY <1>1, <2>5
    <2>7. Distinct(mem.blocks \cup {b})
      <3>1. Distinct(mem.blocks)
        BY <1>0, <2>6, SeenIsDistinct DEF Grounded, OneSeen
      <3> QED
        BY <2>1, <3>1 DEF Distinct
    <2>8. ChainFiles'
      BY <1>0, <1>2, <2>1, <2>2, <2>3, <2>4, <2>6, <2>7, PutFiles
    <2> QED
      BY <1>12, <2>1, <2>5, <2>8
  <1>14. ASSUME NEW b, ConnectSkips(b) PROVE ChainCalls' /\ ChainFiles'
    <2>1. /\ Call("connect", b) /\ calls' = <<<<"mark_applied", {b}>>>> \o After(b)
          /\ mem' = mem /\ writes' = writes
      BY <1>14 DEF ConnectSkips, CallConnect
    <2> QED
      BY <1>2, <1>3, <1>12, <2>1
  <1>15. ASSUME NEW b, ConnectAborts(b) PROVE ChainCalls' /\ ChainFiles'
    <2>1. Call("connect", b) /\ calls' = <<>> /\ mem' = mem /\ writes' = writes
      BY <1>15 DEF ConnectAborts, CallConnect
    <2> QED
      BY <1>2, <1>3, <2>1 DEF ChainCalls
  <1>16. ASSUME NEW b, MarkApplied(b) PROVE ChainCalls' /\ ChainFiles'
    <2>1. Call("mark_applied", b) /\ calls' = After(b) /\ writes' = <<<<"meta">>>>
      BY <1>16 DEF MarkApplied
    <2>2. /\ mem'.blocks = mem.blocks /\ mem'.idx = mem.idx /\ mem'.tip = mem.tip
          /\ mem'.applied = mem.applied \cup {b}
      BY <1>0, <1>16 DEF MarkApplied, IsStore
    <2>3. ChainFiles'
      BY <1>1, <1>2, <1>4, <2>1, <2>2, PlainFiles
    <2>4. PICK n \in mem.blocks, M \in SUBSET Places, J \in SUBSET Places :
              Connecting(n, M, J) /\ NextCall(M, {}, J, n, "mark_applied", b)
      BY <1>1, <2>1, <2>2, ChainNext
    <2>5. b \in M /\ calls' = CallsOf(M \ {b}, {}, J, n)
      BY <2>1, <2>4 DEF NextCall
    <2>6. M \ {b} \in SUBSET Places /\ Path[n] \ ((M \ {b}) \cup J) \subseteq mem'.applied
      BY <2>2, <2>4 DEF Connecting
    <2> QED
      BY <1>5, <2>2, <2>3, <2>5, <2>6
  <1>17. ASSUME NEW b, SetTip(b) PROVE ChainCalls' /\ ChainFiles'
    <2>1. Call("set_tip", b) /\ calls' = After(b) /\ writes' = <<<<"tip">>>>
      BY <1>17 DEF SetTip
    <2>2. /\ mem'.blocks = mem.blocks /\ mem'.idx = mem.idx /\ mem'.tip = b
          /\ mem'.applied = mem.applied
      BY <1>0, <1>17 DEF SetTip, IsStore
    <2>3. PICK n \in mem.blocks, M \in SUBSET Places, J \in SUBSET Places :
              Connecting(n, M, J) /\ NextCall(M, {}, J, n, "set_tip", b)
      BY <1>1, <2>1, <2>2, ChainNext
    <2>4. b = n /\ calls' = <<>> /\ Path[n] \subseteq mem.applied
      BY <2>1, <2>3 DEF NextCall, Connecting
    <2>5. Path[n] \subseteq mem.blocks
      BY DEF Grounded
    <2>6. ChainFiles'
      BY <1>1, <1>2, <1>4, <2>1, <2>2, <2>4, <2>5, PlainFiles
    <2> QED
      BY <2>4, <2>6 DEF ChainCalls
  <1>18. ASSUME Write PROVE ChainCalls' /\ ChainFiles'
    <2>1. mem' = mem /\ calls' = calls
      BY <1>18 DEF Write
    <2>2. ChainCalls /\ ChainFiles
      BY <1>1, <2>1
    <2>3. ChainCalls'
      BY <2>1, <2>2 DEF ChainCalls, Connecting
    <2> QED
      BY <1>18, <2>2, <2>3, WriteFiles
  <1>19. ASSUME UNCHANGED storeVars PROVE ChainCalls' /\ ChainFiles'
    <2>1. mem' = mem /\ disk' = disk /\ writes' = writes /\ calls' = calls
      BY <1>19 DEF storeVars
    <2>2. ChainCalls /\ ChainFiles'
      BY <1>3, <2>1
    <2> QED
      BY <2>1, <2>2 DEF ChainCalls, Connecting
  <1> QED
    BY <1>6, <1>7, <1>8, <1>9, <1>10, <1>11, <1>13, <1>14, <1>15, <1>16, <1>17, <1>18, <1>19
    DEF BlockNext, StoreStep

\* The store starts with no blocks and no files.
LEMMA ChainInit ==
    ASSUME Init
    PROVE  Grounded /\ ChainInv
  <1>1. mem = Load(EmptyDisk) /\ disk = EmptyDisk /\ calls = <<>> /\ writes = <<>>
    BY DEF Init
  <1>2. Found(EmptyDisk) = {}
    BY DEF Found, EmptyDisk
  <1>3. /\ mem.work = Empty /\ mem.blocks = {} /\ mem.tip = Zero /\ disk.tip = Zero
        /\ mem.applied = {} /\ disk.applied = {}
    BY <1>1, <1>2 DEF Load, EmptyDisk
  <1>4. DOMAIN mem.work = {} /\ Path[Zero] = {}
    BY <1>3, PathAssumption DEF Empty
  <1>5. Grounded
    BY <1>1, <1>3, <1>4 DEF Grounded, NextIs
  <1>6. ChainFiles
    BY <1>1, <1>3, <1>4 DEF ChainFiles, Durable, Indexed, HoldAll
  <1> QED
    BY <1>1, <1>5, <1>6 DEF ChainInv, ChainCalls

\* The chain of the tip on disk is there.
LEMMA ChainDurable ==
    ASSUME OpenInv, ChainInv
    PROVE  TipIsDurable
  <1>1. OneChain => Path[disk.tip] \subseteq DatBlocks(disk.dat) \cap disk.applied
    BY DEF OneChain, OneSeen, ChainInv, ChainFiles, Durable
  <1>2. (\A i \in DOMAIN writes : writes[i][1] # "index") => CanOpen(disk)
    BY DEF OpenInv, Pending, Opens, CanOpen
  <1> QED
    BY <1>1, <1>2 DEF TipIsDurable

\* A node that synchronises block by block may be stopped between any two files: as long
\* as it has seen one chain only, the chain of the tip on disk is there.  Nothing is
\* asked of the blocks but that none of height 0 has a parent: invalid ones may come
\* between the others.
THEOREM DurableBlockByBlock ==
    ASSUME HeightZeroIsGenesis
    PROVE  Init /\ [][BlockNext]_storeVars => []TipIsDurable
  <1> DEFINE I == WInv /\ OpenInv /\ Grounded /\ ChainInv
  <1>1. Init => I
    BY WInvInit, OpenInvInit, ChainInit
  <1>2. I /\ [BlockNext]_storeVars => I'
    <2> SUFFICES ASSUME I, [BlockNext]_storeVars PROVE I'
      OBVIOUS
    <2>1. [Next]_storeVars /\ [Next \/ Restart]_storeVars
      BY DEF Next
    <2> QED
      BY <2>1, WInvStep, OpenInvStep, GroundedStep, ChainStep
  <1>3. I => TipIsDurable
    BY ChainDurable
  <1> HIDE DEF I
  <1> QED
    BY <1>1, <1>2, <1>3, PTL

\* So it is with a node that starts from a snapshot, under the hypotheses of FilesAgree:
\* it has then no undo data of the block that it started from, and is not asked.
THEOREM DurableTip ==
    ASSUME HeightZeroIsGenesis, AllBlocksValid, FreshCoins, ShallowForks, SettledSnapshots
    PROVE  Spec => []TipIsDurable
  <1> DEFINE Seen(s) == s = Zero => Grounded /\ ChainInv
             I == /\ WInv /\ OpenInv
                  /\ \E s \in Block \cup {Zero} : Stored(s) /\ Phases(s) /\ Seen(s)
  <1>1. Init => I
    BY WInvInit, OpenInvInit, ChainInit, StoredInit
  <1>2. I /\ [Next]_storeVars => I'
    <2> SUFFICES ASSUME I, [Next]_storeVars PROVE I'
      OBVIOUS
    <2>1. PICK s \in Block \cup {Zero} : Stored(s) /\ Phases(s) /\ Seen(s)
      OBVIOUS
    <2>2. WInv' /\ OpenInv'
      BY WInvStep, OpenInvStep DEF Next
    <2>3. CASE [BlockNext]_storeVars
      <3>1. Stored(s)' /\ Phases(s)'
        BY <2>1, <2>2, <2>3, StoredBlock
      <3>2. Seen(s)'
        BY <2>1, <2>3, GroundedStep, ChainStep
      <3> QED
        BY <2>2, <3>1, <3>2
    <2>4. CASE FastSync
      <3>1. PICK t \in Block : Stored(t)' /\ Accepting(t)' /\ DInv({})'
        BY <2>1, <2>4, FastSyncStep
      <3>2. t # Zero
        BY PathOf
      <3>3. Seen(t)' /\ Phases(t)'
        BY <3>1, <3>2 DEF Phases
      <3> QED
        BY <2>2, <3>1, <3>3
    <2> QED
      BY <2>3, <2>4 DEF Next
  <1>3. I => TipIsDurable
    <2> SUFFICES ASSUME I PROVE TipIsDurable
      OBVIOUS
    <2>1. PICK s \in Block \cup {Zero} : Stored(s) /\ Phases(s) /\ Seen(s)
      OBVIOUS
    <2>2. CASE s = Zero
      BY <2>1, <2>2, ChainDurable
    <2>3. CASE s # Zero
      <3>1. s \in Path[s] /\ s \in Path[mem.tip]
        BY <2>1, <2>3, PathOf DEF Stored, Stands
      <3>2. PICK cur : DOMAIN mem.undo = Path[cur] \ Path[s]
        <4>1. Accepting(s) => LedgerInv(s, mem.tip, {})
          BY DEF Accepting
        <4>2. \A c, n, M, L, J : Reorging(s, c, n, M, L, J) => LedgerInv(s, c, M)
          BY DEF Reorging
        <4>3. \E c, M : LedgerInv(s, c, M)
          BY <2>1, <4>1, <4>2 DEF Phases
        <4> QED
          BY <4>3 DEF LedgerInv
      <3>3. ~OneChain
        BY <3>1, <3>2 DEF OneChain
      <3>4. (\A i \in DOMAIN writes : writes[i][1] # "index") => CanOpen(disk)
        BY DEF OpenInv, Pending, Opens, CanOpen
      <3> QED
        BY <3>3, <3>4 DEF TipIsDurable
    <2> QED
      BY <2>2, <2>3
  <1> HIDE DEF I
  <1> QED
    BY <1>1, <1>2, <1>3, PTL DEF Spec

(***************************************************************************)
(* The bodies of old blocks.  While pruning is on, chain.dat holds no body *)
(* that is too far below the tip, or is going to be written anew: every    *)
(* block that is stored above KeepDepth makes compact due, since no file   *)
(* was compacted up to more than KeepDepth below the tip.                  *)
(***************************************************************************)

\* The block of the running accept_block is not on record yet, or none is running.
Early == calls = <<>> \/ Head(calls)[1] \in {"remember_pow", "put_block", "set_work"}

\* The block of the running accept_block has been stored.
Late == calls # <<>> /\ Head(calls)[1] \notin {"remember_pow", "put_block"}

\* The records with a body are of blocks no lower than KeepDepth below h.
Recent(recs, h) ==
    \A r \in Range(recs) : r.body => r.block \in Block /\ Height[r.block] + KeepDepth >= h

\* Whatever of w writes chain.dat anew writes such records, and will if it is not so.
Tidy(dat, w, h) ==
    /\ \A i \in DOMAIN w : w[i][1] = "rewrite" => Recent(w[i][2], h)
    /\ \/ \E i \in DOMAIN w : w[i][1] = "rewrite"
       \/ /\ \A i \in DOMAIN w : w[i][1] # "append"
          /\ dat.rest = {} /\ Recent(dat.recs, h)

TipHeight == HeightIn(mem, mem.tip)

\* The bodies and the last cutoff in memory.
CutoffInv(m) ==
    /\ m.bodies \subseteq Block
    /\ m.compacted \in Nat /\ m.compacted <= Minus(HeightIn(m, m.tip), KeepDepth)

PruneInv ==
    /\ CutoffInv(mem)
    /\ \A a \in DOMAIN mem.work : /\ Height[a] <= TipHeight + 1
                                  /\ Early => Height[a] <= TipHeight
    /\ KeepDepth > 0 /\ KeepDepth <= TipHeight /\ Late => Tidy(disk.dat, writes, TipHeight + 1)
    /\ KeepDepth > 0 /\ KeepDepth < TipHeight => Tidy(disk.dat, writes, TipHeight)

\* compact keeps no body that is KeepDepth or more below the tip.
LEMMA RecordsRecent ==
    ASSUME NEW m, m.bodies \subseteq Block, NEW h \in Nat, h = HeightIn(m, m.tip), KeepDepth <= h,
           NEW S
    PROVE  Recent(Records(m, S), h + 1)
  <1>1. Cutoff(m) = h - KeepDepth
    BY StoreAssumption DEF Cutoff, Minus
  <1> SUFFICES ASSUME NEW r \in Range(Records(m, S)), r.body
               PROVE  r.block \in Block /\ Height[r.block] + KeepDepth >= h + 1
    BY DEF Recent
  <1>2. PICK k \in DOMAIN Records(m, S) : r = Records(m, S)[k]
    BY DEF Range
  <1>3. PICK b : r = Rec(b, Height[b] > Cutoff(m) /\ b \in m.bodies)
    BY <1>2 DEF Records
  <1>4. r.block = b /\ Height[b] > Cutoff(m) /\ b \in m.bodies
    BY <1>3 DEF Rec
  <1>5. b \in Block /\ Height[b] \in Nat /\ KeepDepth \in Nat
    BY <1>4, TreeAssumption, StoreAssumption
  <1> QED
    BY <1>1, <1>4, <1>5

\* What asks for less is still so.
LEMMA RecentLower ==
    ASSUME NEW h \in Nat, NEW k \in Nat, k <= h
    PROVE  /\ \A recs : Recent(recs, h) => Recent(recs, k)
           /\ \A dat, w : Tidy(dat, w, h) => Tidy(dat, w, k)
  <1>1. ASSUME NEW recs, Recent(recs, h)
        PROVE  Recent(recs, k)
    <2> SUFFICES ASSUME NEW r \in Range(recs), r.body
                 PROVE  r.block \in Block /\ Height[r.block] + KeepDepth >= k
      BY DEF Recent
    <2>1. r.block \in Block /\ Height[r.block] + KeepDepth >= h
      BY <1>1 DEF Recent
    <2>2. Height[r.block] \in Nat /\ KeepDepth \in Nat
      BY <2>1, TreeAssumption, StoreAssumption
    <2> QED
      BY <2>1, <2>2
  <1> QED
    BY <1>1 DEF Tidy

\* A call that does not write chain.dat leaves it in order.
LEMMA TidyPlain ==
    ASSUME NEW dat, NEW w, w = <<>>, NEW h, Tidy(dat, w, h), NEW v,
           \A i \in DOMAIN v : v[i][1] \notin {"append", "rewrite", "index"}
    PROVE  Tidy(dat, v, h)
  <1>1. DOMAIN w = {}
    OBVIOUS
  <1> QED
    BY <1>1 DEF Tidy

\* The files of a block that is put while compact is due.
Renews(w, h) ==
    /\ \A i \in DOMAIN w : w[i][1] = "rewrite" => Recent(w[i][2], h)
    /\ \E i \in DOMAIN w : w[i][1] = "rewrite"

\* Such files put any chain.dat in order.
LEMMA RenewsTidy ==
    ASSUME NEW w, IsWrites(w), NEW h, Renews(w, h)
    PROVE  \A dat : Tidy(dat, w, h) /\ Tidy(dat, LedgerFiles \o w, h)
  <1>1. PICK v : v = LedgerFiles \o w
    OBVIOUS
  <1>2. Parts(v, LedgerFiles, w)
    BY <1>1, ConcatParts, LedgerWrites
  <1>3. \A j \in DOMAIN LedgerFiles : LedgerFiles[j][1] # "rewrite"
    BY LedgerWrites
  <1>4. \A i \in DOMAIN v : v[i][1] = "rewrite" => Recent(v[i][2], h)
    BY <1>2, <1>3 DEF Parts, Renews
  <1>5. \E i \in DOMAIN v : v[i][1] = "rewrite"
    BY <1>2 DEF Parts, Renews
  <1>6. \A dat : Tidy(dat, v, h)
    BY <1>4, <1>5 DEF Tidy
  <1>7. \A dat : Tidy(dat, w, h)
    BY DEF Tidy, Renews
  <1> QED
    BY <1>1, <1>6, <1>7

\* A store compacts its bodies with every block that it puts above KeepDepth.
LEMMA PutPrunes ==
    ASSUME NEW m, IsStore(m), CutoffInv(m), m.blocks \subseteq Block, m.tip \in m.blocks \cup {Zero},
           NEW h, h = HeightIn(m, m.tip),
           NEW b \in Block, NEW body, NEW put \in Puts(m, b, body)
    PROVE  /\ CutoffInv(put.mem) /\ HeightIn(put.mem, put.mem.tip) = h /\ h \in Nat
           /\ KeepDepth > 0 /\ KeepDepth <= h => Renews(put.writes, h + 1)
  <1> DEFINE new == [m EXCEPT !.blocks = @ \cup {b},
                              !.bodies = IF body THEN @ \cup {b} ELSE @ \ {b},
                              !.idx = [g \in DOMAIN @ \cup {Height[b]} |->
                                           IF g = Height[b] THEN 0 ELSE @[g]]]
             f1 == <<"append", Rec(b, body)>>
             f2 == <<"index", new.idx>>
             files == <<f1, f2>>
  <1>1. /\ IsStore(new) /\ new.blocks = m.blocks \cup {b} /\ new.tip = m.tip
        /\ new.bodies \subseteq m.bodies \cup {b} /\ new.compacted = m.compacted
    <2>1. PICK B, x : /\ B = IF body THEN m.bodies \cup {b} ELSE m.bodies \ {b}
                      /\ new = [m EXCEPT !.blocks = m.blocks \cup {b}, !.bodies = B, !.idx = x]
      OBVIOUS
    <2>2. B \subseteq m.bodies \cup {b}
      BY <2>1
    <2> HIDE DEF new
    <2>3. /\ IsStore(new) /\ new.blocks = m.blocks \cup {b} /\ new.tip = m.tip
          /\ new.bodies = B /\ new.compacted = m.compacted
      BY <2>1 DEF IsStore
    <2> QED
      BY <2>2, <2>3
  <1>2. put \in Compactions(new, files) \/ put = [mem |-> new, writes |-> files]
    BY DEF Puts
  <1>3. CompactionDue(new) => put \in Compactions(new, files)
    BY DEF Puts
  <1> HIDE DEF new, f1, f2
  <1>4. h \in Nat /\ HeightIn(new, new.tip) = h
    <2>1. CASE m.tip \in m.blocks
      BY <1>1, <2>1, TreeAssumption DEF HeightIn
    <2>2. CASE m.tip = Zero
      <3>1. Zero \notin m.blocks /\ Zero \notin new.blocks
        BY <1>1, TreeAssumption
      <3> QED
        BY <1>1, <2>2, <3>1 DEF HeightIn
    <2> QED
      BY <2>1, <2>2
  <1>5. CutoffInv(new)
    BY <1>1, <1>4 DEF CutoffInv
  <1>6. KeepDepth > 0 /\ KeepDepth <= h => CompactionDue(new)
    <2>1. KeepDepth \in Nat /\ new.compacted \in Nat /\ new.compacted <= Minus(h, KeepDepth)
      BY <1>4, <1>5, StoreAssumption DEF CutoffInv
    <2>2. KeepDepth <= h => Minus(h, KeepDepth) = h - KeepDepth
      BY <1>4, StoreAssumption DEF Minus
    <2>3. KeepDepth > 0 /\ KeepDepth <= h => h > 0 /\ h - new.compacted >= KeepDepth
      BY <1>4, <2>1, <2>2
    <2> QED
      BY <1>4, <2>3 DEF CompactionDue
  <1>7. CASE put = [mem |-> new, writes |-> files] /\ ~CompactionDue(new)
    BY <1>4, <1>5, <1>6, <1>7
  <1>8. CASE put \in Compactions(new, files)
    <2>1. PICK S \in OnePerHeight(new) :
              put = [mem |-> Compacted(new, S, IndexOf(Records(new, S))),
                     writes |-> files \o <<<<"rewrite", Records(new, S)>>,
                                           <<"index", IndexOf(Records(new, S))>>>>]
      BY <1>8, Zenon DEF Compactions
    <2>2. PICK R, x : R = Records(new, S) /\ x = IndexOf(Records(new, S))
      OBVIOUS
    <2>3. put.mem = Compacted(new, S, x) /\ put.writes = files \o <<<<"rewrite", R>>, <<"index", x>>>>
      BY <2>1, <2>2
    <2>4. /\ put.mem.bodies \subseteq new.bodies /\ put.mem.compacted = Cutoff(new)
          /\ put.mem.blocks = new.blocks /\ put.mem.tip = new.tip
      <3>1. PICK k : k = put.mem
        OBVIOUS
      <3>2. k = [new EXCEPT !.idx = x, !.bodies = @ \ {a \in S : Height[a] <= Cutoff(new)},
                            !.compacted = Cutoff(new)]
        BY <2>3, <3>1 DEF Compacted
      <3>3. /\ k.bodies \subseteq new.bodies /\ k.compacted = Cutoff(new)
            /\ k.blocks = new.blocks /\ k.tip = new.tip
        BY <1>1, <3>2 DEF IsStore
      <3> QED
        BY <3>1, <3>3
    <2>5. HeightIn(put.mem, put.mem.tip) = h
      BY <1>4, <2>4 DEF HeightIn
    <2>6. Cutoff(new) = Minus(h, KeepDepth) /\ Cutoff(new) \in Nat
      BY <1>4, StoreAssumption DEF Cutoff, Minus
    <2>7. CutoffInv(put.mem)
      BY <1>5, <2>4, <2>5, <2>6 DEF CutoffInv
    <2>8. KeepDepth <= h => Renews(put.writes, h + 1)
      <3> SUFFICES ASSUME KeepDepth <= h PROVE Renews(put.writes, h + 1)
        OBVIOUS
      <3>1. Recent(R, h + 1)
        BY <1>4, <1>5, <2>2, RecordsRecent DEF CutoffInv
      <3> DEFINE c == <<"rewrite", R>>
                 d == <<"index", x>>
      <3>2. put.writes = <<f1, f2>> \o <<c, d>>
        BY <2>3
      <3>3. f1[1] = "append" /\ f2[1] = "index" /\ c[1] = "rewrite" /\ c[2] = R /\ d[1] = "index"
        BY DEF f1, f2
      <3> HIDE DEF c, d
      <3>4. PICK w : w = put.writes
        OBVIOUS
      <3>5. DOMAIN w = 1 .. 4 /\ w[1] = f1 /\ w[2] = f2 /\ w[3] = c /\ w[4] = d
        BY <3>2, <3>4
      <3>6. Renews(w, h + 1)
        BY <3>1, <3>3, <3>5 DEF Renews
      <3> QED
        BY <3>4, <3>6
    <2> QED
      BY <1>4, <2>5, <2>7, <2>8
  <1> QED
    BY <1>2, <1>3, <1>7, <1>8 DEF Puts

\* Writing a file keeps chain.dat in order: what is appended is not there for long.
LEMMA WriteTidies ==
    ASSUME OpenInv, Write, NEW h, Tidy(disk.dat, writes, h)
    PROVE  Tidy(disk.dat, writes, h)'
  <1> DEFINE n == Len(writes)
  <1>0. /\ writes # <<>> /\ disk' = Flushed(Head(writes)) /\ writes' = Tail(writes)
    BY DEF Write
  <1>1. PICK f : f = Head(writes)
    OBVIOUS
  <1>2. PICK S : writes \in Seq(S)
    BY DEF OpenInv, IsWrites
  <1>3. /\ n \in Nat \ {0} /\ DOMAIN writes = 1 .. n /\ DOMAIN writes' = 1 .. n - 1
        /\ \A i \in 1 .. n - 1 : writes'[i] = writes[i + 1]
        /\ f = writes[1]
    BY <1>0, <1>1, <1>2
  <1> HIDE DEF n
  <1>4. 1 \in DOMAIN writes /\ \A i \in DOMAIN writes' : i + 1 \in DOMAIN writes
    BY <1>3
  <1>5. /\ f[1] = "rewrite" => disk'.dat = [recs |-> f[2], rest |-> {}]
        /\ f[1] \notin {"append", "rewrite"} => disk'.dat = disk.dat
    <2>1. f[1] \in FileNames
      BY <1>3, <1>4 DEF OpenInv, IsWrites
    <2>2. PICK d : d = Flushed(f)
      OBVIOUS
    <2>3. /\ f[1] = "rewrite" => d.dat = [recs |-> f[2], rest |-> {}]
          /\ f[1] \notin {"append", "rewrite"} => d.dat = disk.dat
      BY <2>1, <2>2, FlushedFields DEF OpenInv
    <2> QED
      BY <1>0, <1>1, <2>2, <2>3
  <1>6. \A i \in DOMAIN writes' : writes'[i][1] = "rewrite" => Recent(writes'[i][2], h)
    BY <1>3, <1>4 DEF Tidy
  <1>7. ASSUME NEW i \in DOMAIN writes, i # 1
        PROVE  i - 1 \in DOMAIN writes' /\ writes'[i - 1] = writes[i]
    <2>1. i \in 1 .. n /\ i - 1 \in 1 .. n - 1 /\ (i - 1) + 1 = i
      BY <1>3, <1>7
    <2> QED
      BY <1>3, <2>1
  <1>8. CASE f[1] = "rewrite"
    <2>1. disk'.dat.rest = {} /\ disk'.dat.recs = f[2]
      BY <1>5, <1>8
    <2>2. Recent(disk'.dat.recs, h)
      BY <1>3, <1>4, <1>8, <2>1 DEF Tidy
    <2>3. \A i \in DOMAIN writes' : writes'[i][1] # "append"
      <3> SUFFICES ASSUME NEW i \in DOMAIN writes', writes'[i][1] = "append"
                   PROVE  FALSE
        OBVIOUS
      <3>1. i + 1 \in DOMAIN writes /\ writes[i + 1][1] = "append" /\ 1 < i + 1
        BY <1>3
      <3>2. RecordsFollow(writes, i + 1)
        BY <3>1 DEF OpenInv, InOrder
      <3> QED
        BY <1>3, <1>4, <1>8, <3>1, <3>2 DEF RecordsFollow
    <2> QED
      BY <1>6, <2>1, <2>2, <2>3 DEF Tidy
  <1>9. CASE \E i \in DOMAIN writes : i # 1 /\ writes[i][1] = "rewrite"
    <2>1. \E i \in DOMAIN writes' : writes'[i][1] = "rewrite"
      BY <1>7, <1>9
    <2> QED
      BY <1>6, <2>1 DEF Tidy
  <1>10. CASE ~\E i \in DOMAIN writes : writes[i][1] = "rewrite"
    <2>1. /\ \A i \in DOMAIN writes : writes[i][1] # "append"
          /\ disk.dat.rest = {} /\ Recent(disk.dat.recs, h)
      BY <1>10 DEF Tidy
    <2>2. f[1] \notin {"append", "rewrite"}
      BY <1>3, <1>4, <1>10, <2>1
    <2>3. disk'.dat = disk.dat
      BY <1>5, <2>2
    <2>4. \A i \in DOMAIN writes' : writes'[i][1] # "append"
      BY <1>3, <1>4, <2>1
    <2> QED
      BY <1>6, <2>1, <2>3, <2>4 DEF Tidy
  <1> QED
    BY <1>3, <1>8, <1>9, <1>10

\* A call that puts no block and leaves the tip alone.
LEMMA PrunePlain ==
    ASSUME PruneInv, writes = <<>>, disk' = disk, mem'.blocks = mem.blocks, mem'.tip = mem.tip,
           mem'.bodies = mem.bodies, mem'.compacted = mem.compacted,
           \/ mem'.work = mem.work /\ (Early' => Early)
           \/ \A a \in DOMAIN mem'.work : /\ Height[a] <= TipHeight + 1
                                          /\ Early' => Height[a] <= TipHeight,
           \A i \in DOMAIN writes' : writes'[i][1] \notin {"append", "rewrite", "index"},
           Late' => Late
    PROVE  PruneInv'
  <1>1. TipHeight' = TipHeight
    BY DEF TipHeight, HeightIn
  <1>2. CutoffInv(mem)'
    BY DEF PruneInv, CutoffInv, HeightIn
  <1>3. \A h : Tidy(disk.dat, writes, h) => Tidy(disk.dat, writes, h)'
    <2> SUFFICES ASSUME NEW h, Tidy(disk.dat, writes, h) PROVE Tidy(disk.dat, writes, h)'
      OBVIOUS
    <2>1. PICK v : v = writes'
      OBVIOUS
    <2>2. Tidy(disk.dat, v, h)
      BY <2>1, TidyPlain
    <2> QED
      BY <2>1, <2>2
  <1> QED
    BY <1>1, <1>2, <1>3 DEF PruneInv

\* A call that puts b.
LEMMA PrunePut ==
    ASSUME PruneInv, disk' = disk, NEW m, IsStore(m), m.blocks = mem.blocks, m.tip = mem.tip,
           m.bodies = mem.bodies, m.compacted = mem.compacted, m.work = mem.work,
           mem.blocks \subseteq Block, mem.tip \in mem.blocks \cup {Zero},
           DOMAIN mem.work \subseteq Block,
           NEW b \in Block, NEW body, NEW put \in Puts(m, b, body), mem' = put.mem,
           writes' = put.writes \/ writes' = LedgerFiles \o put.writes,
           Early' => Early
    PROVE  PruneInv'
  <1>1. PICK h : h = TipHeight
    OBVIOUS
  <1>2. h = HeightIn(m, m.tip) /\ CutoffInv(m)
    BY <1>1 DEF PruneInv, CutoffInv, TipHeight, HeightIn
  <1>3. /\ CutoffInv(put.mem) /\ HeightIn(put.mem, put.mem.tip) = h /\ h \in Nat
        /\ KeepDepth > 0 /\ KeepDepth <= h => Renews(put.writes, h + 1)
    BY <1>2, PutPrunes
  <1>4. mem'.work = mem.work
    <2>1. IsPut(m, b, put.mem)
      BY PutsKeep
    <2> QED
      BY <2>1 DEF IsPut
  <1>5. TipHeight' = h /\ CutoffInv(mem)'
    BY <1>3 DEF TipHeight
  <1>6. KeepDepth > 0 /\ KeepDepth <= h => Tidy(disk.dat, writes, h + 1)'
    <2> SUFFICES ASSUME KeepDepth > 0, KeepDepth <= h PROVE Tidy(disk.dat, writes, h + 1)'
      OBVIOUS
    <2>1. PICK w, v : w = put.writes /\ v = LedgerFiles \o w
      OBVIOUS
    <2>2. IsWrites(w) /\ Renews(w, h + 1)
      BY <1>3, <2>1, PutWrites
    <2>3. Tidy(disk.dat, w, h + 1) /\ Tidy(disk.dat, v, h + 1)
      BY <2>1, <2>2, RenewsTidy
    <2>4. writes' = w \/ writes' = v
      BY <2>1
    <2> QED
      BY <2>3, <2>4
  <1>7. KeepDepth > 0 /\ KeepDepth < h => Tidy(disk.dat, writes, h)'
    <2> SUFFICES ASSUME KeepDepth > 0, KeepDepth < h PROVE Tidy(disk.dat, writes, h)'
      OBVIOUS
    <2>1. KeepDepth <= h /\ h + 1 \in Nat /\ h <= h + 1
      BY <1>3, StoreAssumption
    <2>2. PICK d, v : d = disk'.dat /\ v = writes'
      OBVIOUS
    <2>3. Tidy(d, v, h + 1)
      BY <1>6, <2>1, <2>2
    <2>4. Tidy(d, v, h)
      BY <1>3, <2>1, <2>3, RecentLower
    <2> QED
      BY <2>2, <2>4
  <1> QED
    BY <1>1, <1>4, <1>5, <1>6, <1>7 DEF PruneInv

\* The height of the tip.
LEMMA TipHeightIs ==
    ASSUME mem.blocks \subseteq Block, mem.tip \in mem.blocks \cup {Zero}
    PROVE  /\ TipHeight \in Nat
           /\ mem.tip # Zero => TipHeight = Height[mem.tip]
           /\ mem.tip = Zero => TipHeight = 0
  <1>1. Zero \notin mem.blocks
    BY TreeAssumption
  <1>2. \A b \in mem.blocks : Height[b] \in Nat
    BY TreeAssumption
  <1> QED
    BY <1>1, <1>2 DEF TipHeight, HeightIn

\* The tip is a block in memory.
LEMMA TipIsThere ==
    ASSUME NEW s \in Block \cup {Zero}, Stored(s)
    PROVE  mem.blocks \subseteq Block /\ mem.tip \in mem.blocks \cup {Zero}
  BY DEF Stored, BlocksInv, Stands

\* No block with work on record is higher than the best one.
LEMMA BestIsHighest ==
    ASSUME HigherIsHeavier, WInv, NEW n \in DOMAIN mem.work,
           \A a \in DOMAIN mem.work \ {n} : Beats(mem, n, a), NEW a \in DOMAIN mem.work
    PROVE  Height[a] <= Height[n]
  <1>1. a \in Block /\ n \in Block /\ Height[a] \in Nat /\ Height[n] \in Nat
    BY WorkIsNat, TreeAssumption
  <1>2. /\ mem.work[a] = ChainWork[a] /\ mem.work[n] = ChainWork[n]
        /\ mem.work[a] \in Nat /\ mem.work[n] \in Nat
    BY WorkIsNat
  <1>3. CASE a # n
    <2>1. mem.work[a] <= mem.work[n]
      BY <1>2, <1>3 DEF Beats
    <2>2. ~(ChainWork[n] < ChainWork[a])
      BY <1>2, <2>1
    <2>3. ~(Height[n] < Height[a])
      BY <1>1, <2>2 DEF HigherIsHeavier
    <2> QED
      BY <1>1, <2>3
  <1> QED
    BY <1>1, <1>3

\* The files of the calls that do not write chain.dat.
LEMMA NoRecords ==
    ASSUME \/ writes' = <<>> \/ writes' = <<<<"meta">>>> \/ writes' = <<<<"tip">>>>
           \/ writes' = LedgerFiles
    PROVE  \A i \in DOMAIN writes' : writes'[i][1] \notin {"append", "rewrite", "index"}
  <1>1. CASE writes' = <<>>
    BY <1>1
  <1>2. CASE writes' # <<>>
    <2>1. PICK w : w = writes'
      OBVIOUS
    <2>2. \A i \in DOMAIN w : w[i][1] \notin {"append", "rewrite", "index"}
      BY <1>2, <2>1, OtherWrites
    <2> QED
      BY <2>1, <2>2
  <1> QED
    BY <1>1, <1>2

\* A call of reorganize that is not the last one.
LEMMA StillLate ==
    ASSUME NEW W, calls' \in Seq(Turns(W)), calls' # <<>>
    PROVE  ~Early'
  <1>1. Head(calls') \in Turns(W)
    OBVIOUS
  <1>2. Head(calls')[1] \in {"disconnect", "connect", "mark_applied", "set_tip"}
    BY <1>1 DEF Turns
  <1> QED
    BY <1>2 DEF Early

\* reorganize has nothing to do only when the tip is the best one.
LEMMA PlanOfBest ==
    ASSUME NEW m, BestTip(m) \in Block, m.tip \in Block \cup {Zero}, Plan(m) = <<>>
    PROVE  BestTip(m) = m.tip
  <1>1. PICK n, t : n = BestTip(m) /\ t = m.tip
    OBVIOUS
  <1>2. PICK L, J : /\ L = IF t = Zero THEN {} ELSE Walk(m, t) \ Walk(m, n)
                    /\ J = IF t = Zero THEN Walk(m, n) ELSE Walk(m, n) \ Walk(m, t)
    OBVIOUS
  <1>3. Plan(m) = IF n = t THEN <<>>
                  ELSE Rest("disconnect", L) \o Rest("connect", J) \o <<<<"set_tip", {n}>>>>
    BY <1>1, <1>2 DEF Plan
  <1>4. Walk(m, n) \subseteq Places /\ Walk(m, t) \subseteq Places
    BY <1>1, PathAssumption DEF Walk, Places
  <1>5. {} \in SUBSET Places /\ L \in SUBSET Places /\ J \in SUBSET Places
    BY <1>2, <1>4
  <1>6. Rest("disconnect", L) \o Rest("connect", J) \o <<<<"set_tip", {n}>>>> # <<>>
    <2>1. CallsOf({}, L, J, n) # <<>>
      BY <1>1, <1>5, CallsRemain
    <2> QED
      BY <1>1, <1>5, <2>1, PlanIsCalls
  <1> QED
    BY <1>1, <1>3, <1>6

\* The calls up to reorganize.
LEMMA PruneAccepting ==
    ASSUME NEW s \in Block \cup {Zero}, Stored(s), Accepting(s), WInv, HigherIsHeavier,
           PruneInv, NEW b, StoreStep(b)
    PROVE  PruneInv'
  <1>1. mem.blocks \subseteq Block /\ mem.tip \in mem.blocks \cup {Zero}
    BY TipIsThere
  <1>2. CASE RememberPow(b)
    <2>1. /\ Call("remember_pow", b) /\ writes = <<>> /\ disk' = disk /\ mem' = mem
          /\ writes' = <<<<"meta">>>> /\ calls' = After(b)
      BY <1>2 DEF RememberPow, Call
    <2>2. calls' = FromPut(b)
      BY <2>1, AcceptingCall
    <2>3. Early /\ ~Late'
      BY <2>1, <2>2 DEF Call, Early, Late, FromPut
    <2> QED
      BY <2>1, <2>3, NoRecords, PrunePlain
  <1>3. CASE PutBlock(b)
    <2>1. /\ Call("put_block", b) /\ writes = <<>> /\ disk' = disk
          /\ \E put \in Puts(mem, b, TRUE) : mem' = put.mem /\ writes' = put.writes
      BY <1>3 DEF PutBlock, Call
    <2>2. b \in Block
      BY <2>1, AcceptingCall
    <2>3. Early
      BY <2>1 DEF Call, Early
    <2>4. PICK put \in Puts(mem, b, TRUE) : mem' = put.mem /\ writes' = put.writes
      BY <2>1
    <2>5. IsStore(mem) /\ DOMAIN mem.work \subseteq Block
      BY WorkIsNat
    <2> QED
      BY <1>1, <2>1, <2>2, <2>3, <2>4, <2>5, PrunePut
  <1>4. CASE SetWork(b)
    <2>1. /\ Call("set_work", b) /\ writes = <<>> /\ disk' = disk
          /\ writes' = <<<<"meta">>>> /\ calls' = After(b)
      BY <1>4 DEF SetWork, Call
    <2>2. calls' = FromReorg(b) /\ b \in mem.blocks
      BY <2>1, AcceptingCall
    <2>3. Late /\ ~Early'
      BY <2>1, <2>2 DEF Call, Early, Late, FromReorg
    <2>4. /\ DOMAIN mem'.work = DOMAIN mem.work \cup {b} /\ mem'.blocks = mem.blocks
          /\ mem'.tip = mem.tip /\ mem'.bodies = mem.bodies /\ mem'.compacted = mem.compacted
      <3>1. IsStore(mem)
        BY WorkIsNat
      <3>2. PICK x : x = [a \in DOMAIN mem.work \cup {b} |->
                             IF a = b THEN WorkIn(mem, Parent[b]) + BlockWork[b] ELSE mem.work[a]]
        OBVIOUS
      <3>3. mem' = [mem EXCEPT !.work = x]
        BY <1>4, <3>2 DEF SetWork
      <3>4. DOMAIN x = DOMAIN mem.work \cup {b}
        BY <3>2
      <3> QED
        BY <3>1, <3>3, <3>4 DEF IsStore
    <2>5. TipHeight \in Nat
      BY <1>1, TipHeightIs
    <2>6. Height[b] <= TipHeight + 1
      <3>1. b = s \/ HeaderOK(mem.blocks, b)
        BY <2>2 DEF Stored, BlocksInv
      <3>2. b \in Block /\ Height[b] \in Nat
        BY <1>1, <2>2, TreeAssumption
      <3>3. CASE b = s
        <4>1. b \in DOMAIN mem.work
          BY <3>2, <3>3, TreeAssumption DEF Stored, BlocksInv
        <4> QED
          BY <4>1 DEF PruneInv
      <3>4. CASE Height[b] = 0
        BY <2>5, <3>4
      <3>5. CASE Parent[b] \in mem.blocks /\ Height[b] = Height[Parent[b]] + 1
        <4>1. Parent[b] \in DOMAIN mem.work \cup {Zero}
          BY <2>1, CallsSplit DEF WInv
        <4>2. Parent[b] \in Block /\ Parent[b] # Zero /\ Height[Parent[b]] \in Nat
          BY <1>1, <3>5, TreeAssumption
        <4>3. Height[Parent[b]] <= TipHeight
          BY <2>1, <4>1, <4>2 DEF PruneInv, Early, Call
        <4> QED
          BY <2>5, <3>2, <3>5, <4>2, <4>3
      <3> QED
        BY <3>1, <3>3, <3>4, <3>5 DEF HeaderOK
    <2>7. \A a \in DOMAIN mem'.work : Height[a] <= TipHeight + 1
      BY <2>4, <2>6 DEF PruneInv
    <2> QED
      BY <2>1, <2>3, <2>4, <2>7, NoRecords, PrunePlain
  <1>5. CASE Reorganize(b)
    <2>1. /\ Call("reorganize", b) /\ writes = <<>> /\ disk' = disk /\ mem' = mem
          /\ writes' = <<>> /\ calls' = Plan(mem)
      BY <1>5 DEF Reorganize, Call
    <2>2. Late
      BY <2>1 DEF Call, Late
    <2>3. b \in DOMAIN mem.work
      BY <2>1, CallsSplit DEF WInv
    <2>4. /\ IsFiniteSet(DOMAIN mem.work) /\ DOMAIN mem.work \subseteq Block
          /\ \A a \in DOMAIN mem.work : mem.work[a] \in Nat
          /\ mem.tip \in DOMAIN mem.work \cup {Zero}
      BY WorkIsNat DEF WInv, WorkIsTotal
    <2>5. calls' \in Seq(Turns(DOMAIN mem.work))
      BY <2>1, <2>3, <2>4, PlanIsTurns
    <2>6. CASE calls' # <<>>
      <3>1. ~Early'
        BY <2>5, <2>6, StillLate
      <3> QED
        BY <2>1, <2>2, <3>1, NoRecords, PrunePlain
    <2>7. CASE calls' = <<>>
      <3>1. BestTip(mem) \in DOMAIN mem.work
            /\ \A a \in DOMAIN mem.work \ {BestTip(mem)} : Beats(mem, BestTip(mem), a)
        BY <2>3, <2>4, BestTipBeats
      <3>2. BestTip(mem) = mem.tip
        BY <2>1, <2>3, <2>4, <2>7, <3>1, PlanOfBest
      <3>3. mem.tip # Zero /\ TipHeight = Height[mem.tip] /\ TipHeight \in Nat
        BY <1>1, <2>4, <3>1, <3>2, TipHeightIs, TreeAssumption
      <3>4. \A a \in DOMAIN mem.work : Height[a] <= TipHeight /\ Height[a] \in Nat
        BY <2>4, <3>1, <3>2, <3>3, BestIsHighest, TreeAssumption
      <3>5. \A a \in DOMAIN mem'.work : Height[a] <= TipHeight + 1 /\ Height[a] <= TipHeight
        BY <2>1, <3>3, <3>4
      <3> QED
        BY <2>1, <2>2, <3>5, NoRecords, PrunePlain
    <2> QED
      BY <2>6, <2>7
  <1>6. ASSUME NEW x \in {"disconnect", "connect", "mark_applied", "set_tip"}, Call(x, b)
        PROVE  FALSE
    BY <1>6, AcceptingCall
  <1> QED
    BY <1>2, <1>3, <1>4, <1>5, <1>6
    DEF StoreStep, Disconnect, Connect, ConnectSkips, ConnectAborts, CallConnect, MarkApplied, SetTip

\* The tip moves up by no more than one block, and never down.
LEMMA PruneTip ==
    ASSUME NEW s \in Block \cup {Zero}, Stored(s), WInv, HigherIsHeavier,
           NEW cur, NEW n \in Block, NEW M, NEW L, NEW J,
           Reorging(s, cur, n, M, L, J), PruneInv, Late,
           writes = <<>>, disk' = disk, writes' = <<<<"tip">>>>, calls' = <<>>,
           mem'.blocks = mem.blocks, mem'.tip = n, mem'.bodies = mem.bodies,
           mem'.compacted = mem.compacted, mem'.work = mem.work
    PROVE  PruneInv'
  <1> DEFINE h == TipHeight
             k == Height[n]
  <1>1. /\ mem.blocks \subseteq Block /\ mem.tip \in mem.blocks \cup {Zero}
        /\ mem.tip \in DOMAIN mem.work \cup {Zero} /\ DOMAIN mem.work \subseteq Block
        /\ h \in Nat /\ (mem.tip # Zero => h = Height[mem.tip]) /\ (mem.tip = Zero => h = 0)
    BY TipIsThere, WorkIsNat, TipHeightIs
  <1>2. n \in mem.blocks /\ k \in Nat
    <2>1. s \in mem.blocks \cup {Zero} /\ Stands(s, n)
      BY DEF Stored, BlocksInv, Reorging
    <2> QED
      BY <2>1, TreeAssumption DEF Stands
  <1>3. n \in DOMAIN mem.work /\ \A a \in DOMAIN mem.work : Height[a] <= k
    <2>1. n \in DOMAIN mem.work /\ \A a \in DOMAIN mem.work \ {n} : Beats(mem, n, a)
      BY DEF Reorging, IsBestTip
    <2> QED
      BY <2>1, BestIsHighest
  <1>4. h <= k /\ k <= h + 1
    <2>1. k <= h + 1
      BY <1>3 DEF PruneInv
    <2>2. CASE mem.tip = Zero
      BY <1>1, <1>2, <2>1, <2>2
    <2>3. CASE mem.tip # Zero
      BY <1>1, <1>3, <2>1, <2>3
    <2> QED
      BY <2>2, <2>3
  <1>5. TipHeight' = k
    BY <1>2 DEF TipHeight, HeightIn
  <1> HIDE DEF h, k
  <1>6. CutoffInv(mem)'
    <2>1. mem.compacted \in Nat /\ mem.compacted <= Minus(h, KeepDepth) /\ mem.bodies \subseteq Block
      BY DEF PruneInv, CutoffInv, TipHeight, h
    <2>2. Minus(h, KeepDepth) \in Nat /\ Minus(k, KeepDepth) \in Nat
          /\ Minus(h, KeepDepth) <= Minus(k, KeepDepth)
      BY <1>1, <1>2, <1>4, StoreAssumption DEF Minus
    <2>3. mem.compacted <= Minus(k, KeepDepth)
      BY <2>1, <2>2
    <2>4. HeightIn(mem, mem.tip)' = k
      BY <1>5 DEF TipHeight
    <2> QED
      BY <2>1, <2>3, <2>4 DEF CutoffInv
  <1>7. KeepDepth > 0 /\ KeepDepth < k => Tidy(disk.dat, writes, k)'
    <2> SUFFICES ASSUME KeepDepth > 0, KeepDepth < k PROVE Tidy(disk.dat, writes, k)'
      OBVIOUS
    <2>1. KeepDepth <= h
      BY <1>1, <1>2, <1>4, StoreAssumption
    <2>2. Tidy(disk.dat, writes, h + 1)
      BY <2>1 DEF PruneInv, h
    <2>3. Tidy(disk.dat, writes, k)
      BY <1>1, <1>2, <1>4, <2>2, RecentLower
    <2>4. PICK v : v = writes'
      OBVIOUS
    <2>5. Tidy(disk.dat, v, k)
      BY <2>3, <2>4, NoRecords, TidyPlain
    <2> QED
      BY <2>4, <2>5 DEF k
  <1>8. \A a \in DOMAIN mem'.work : Height[a] <= k + 1 /\ Height[a] <= k
    BY <1>1, <1>2, <1>3, TreeAssumption
  <1>9. ~Late'
    BY DEF Late
  <1> QED
    BY <1>5, <1>6, <1>7, <1>8, <1>9 DEF PruneInv

\* The calls of reorganize.
LEMMA PruneReorging ==
    ASSUME NEW s \in Block \cup {Zero}, Stored(s), WInv, HigherIsHeavier,
           ShallowForks, AllBlocksValid,
           NEW cur \in Places, NEW n \in Block,
           NEW M \in SUBSET Places, NEW L \in SUBSET Places, NEW J \in SUBSET Places,
           Reorging(s, cur, n, M, L, J), PruneInv, NEW b, StoreStep(b)
    PROVE  PruneInv'
  <1>1. /\ mem.blocks \subseteq Block /\ mem.tip \in mem.blocks \cup {Zero}
        /\ IsStore(mem) /\ DOMAIN mem.work \subseteq Block
    BY TipIsThere, WorkIsNat
  <1>2. ASSUME NEW x, Call(x, b)
        PROVE  NextCall(M, L, J, n, x, b)
    BY <1>2, CallsHead DEF Reorging
  <1>3. ASSUME NEW N \in SUBSET Places, NEW K \in SUBSET Places, NEW I \in SUBSET Places,
               calls' = CallsOf(N, K, I, n),
               NEW x \in {"disconnect", "connect", "mark_applied"}, Call(x, b),
               calls' = After(b) \/ (b \in Places /\ calls' = <<<<"mark_applied", {b}>>>> \o After(b))
        PROVE  ~Early' /\ (Late' => Late)
    <2>1. calls' # <<>>
      BY <1>3, CallsRemain
    <2>2. calls' \in Seq(Turns(DOMAIN mem.work))
      BY <1>3, TurnsLeft DEF Places
    <2>3. Late
      BY <1>3 DEF Call, Late
    <2> QED
      BY <2>1, <2>2, <2>3, StillLate
  <1>4. {} \in SUBSET Places /\ L \ {b} \in SUBSET Places /\ J \ {b} \in SUBSET Places
        /\ M \ {b} \in SUBSET Places
    OBVIOUS
  <1>5. CASE Disconnect(b)
    <2>1. /\ Call("disconnect", b) /\ writes = <<>> /\ disk' = disk /\ calls' = After(b)
          /\ writes' = LedgerFiles
      BY <1>5 DEF Disconnect, Call, LedgerFiles
    <2>2. calls' = CallsOf({}, L \ {b}, J, n)
      <3>1. NextCall(M, L, J, n, "disconnect", b)
        BY <1>2, <2>1
      <3> QED
        BY <2>1, <3>1, Zenon DEF NextCall
    <2>3. ~Early' /\ (Late' => Late)
      BY <1>3, <1>4, <2>1, <2>2
    <2>4. /\ mem'.blocks = mem.blocks /\ mem'.tip = mem.tip /\ mem'.bodies = mem.bodies
          /\ mem'.compacted = mem.compacted /\ mem'.work = mem.work
      <3>1. PICK x, y, z : mem' = [mem EXCEPT !.ledger = x, !.undo = y, !.applied = z]
        BY <1>5 DEF Disconnect
      <3>2. PICK k : k = mem'
        OBVIOUS
      <3>3. Relabelled(mem, k, x, y, z)
        BY <1>1, <3>1, <3>2, LedgerFields
      <3> QED
        BY <3>2, <3>3 DEF Relabelled
    <2> QED
      BY <2>1, <2>3, <2>4, NoRecords, PrunePlain
  <1>6. CASE Connect(b)
    <2>1. /\ CallConnect(b) /\ Call("connect", b) /\ writes = <<>> /\ disk' = disk
          /\ b \in mem.blocks /\ calls' = <<<<"mark_applied", {b}>>>> \o After(b)
          /\ \E put \in Puts(Applied(mem, b), b, b \in mem.bodies) :
                 mem' = put.mem /\ writes' = LedgerFiles \o put.writes
      BY <1>6 DEF Connect, CallConnect, Call, LedgerFiles
    <2>2. b \in Block /\ b \in Places /\ {b} \in SUBSET Places
      BY <1>1, <2>1 DEF Places
    <2>3. calls' = CallsOf({b}, {}, J \ {b}, n)
      <3>1. NextCall(M, L, J, n, "connect", b)
        BY <1>2, <2>1
      <3> QED
        BY <2>1, <3>1, Zenon DEF NextCall
    <2>4. ~Early'
      BY <1>3, <1>4, <2>1, <2>2, <2>3
    <2>5. PICK m, body : m = Applied(mem, b) /\ body = (b \in mem.bodies)
      OBVIOUS
    <2>6. /\ IsStore(m) /\ m.blocks = mem.blocks /\ m.tip = mem.tip /\ m.bodies = mem.bodies
          /\ m.compacted = mem.compacted /\ m.work = mem.work
      BY <1>1, <2>5, AppliedStore
    <2>7. PICK put \in Puts(m, b, body) : mem' = put.mem /\ writes' = LedgerFiles \o put.writes
      BY <2>1, <2>5
    <2> QED
      BY <1>1, <2>1, <2>2, <2>4, <2>6, <2>7, PrunePut
  <1>7. CASE ConnectSkips(b)
    <2>1. /\ Call("connect", b) /\ writes = <<>> /\ disk' = disk /\ writes' = <<>> /\ mem' = mem
          /\ calls' = <<<<"mark_applied", {b}>>>> \o After(b)
      BY <1>7 DEF ConnectSkips, CallConnect, Call
    <2>2. calls' = CallsOf({b}, {}, J \ {b}, n) /\ b \in Places
      <3>1. NextCall(M, L, J, n, "connect", b)
        BY <1>2, <2>1
      <3> QED
        BY <2>1, <3>1, Zenon DEF NextCall
    <2>3. {b} \in SUBSET Places
      BY <2>2
    <2>4. ~Early' /\ (Late' => Late)
      BY <1>3, <1>4, <2>1, <2>2, <2>3
    <2> QED
      BY <2>1, <2>4, NoRecords, PrunePlain
  <1>8. CASE ConnectAborts(b)
    <2>1. CallConnect(b) /\ b \in mem.blocks \ mem.applied /\ ~Applies(mem, b)
      BY <1>8 DEF ConnectAborts
    <2>2. Connects(b)
      BY <2>1, ConnectsApply
    <2>3. b # Zero
      BY <1>1, <2>1, TreeAssumption
    <2> QED
      BY <2>1, <2>2, <2>3 DEF Connects
  <1>9. CASE MarkApplied(b)
    <2>1. /\ Call("mark_applied", b) /\ writes = <<>> /\ disk' = disk /\ calls' = After(b)
          /\ writes' = <<<<"meta">>>>
      BY <1>9 DEF MarkApplied, Call
    <2>2. calls' = CallsOf(M \ {b}, L, J, n)
      <3>1. NextCall(M, L, J, n, "mark_applied", b)
        BY <1>2, <2>1
      <3> QED
        BY <2>1, <3>1, Zenon DEF NextCall
    <2>3. ~Early' /\ (Late' => Late)
      BY <1>3, <1>4, <2>1, <2>2
    <2>4. /\ mem'.blocks = mem.blocks /\ mem'.tip = mem.tip /\ mem'.bodies = mem.bodies
          /\ mem'.compacted = mem.compacted /\ mem'.work = mem.work
      <3>1. PICK z : mem' = [mem EXCEPT !.applied = z]
        BY <1>9 DEF MarkApplied
      <3>2. PICK k : k = mem'
        OBVIOUS
      <3>3. Relabelled(mem, k, mem.ledger, mem.undo, z)
        BY <1>1, <3>1, <3>2, LedgerFields
      <3> QED
        BY <3>2, <3>3 DEF Relabelled
    <2> QED
      BY <2>1, <2>3, <2>4, NoRecords, PrunePlain
  <1>10. CASE SetTip(b)
    <2>1. /\ Call("set_tip", b) /\ writes = <<>> /\ disk' = disk /\ calls' = After(b)
          /\ writes' = <<<<"tip">>>> /\ mem' = [mem EXCEPT !.tip = b]
      BY <1>10 DEF SetTip, Call
    <2>2. b = n /\ calls' = <<>>
      <3>1. NextCall(M, L, J, n, "set_tip", b)
        BY <1>2, <2>1
      <3> QED
        BY <2>1, <3>1, Zenon DEF NextCall
    <2>3. /\ mem'.blocks = mem.blocks /\ mem'.tip = n /\ mem'.bodies = mem.bodies
          /\ mem'.compacted = mem.compacted /\ mem'.work = mem.work
      BY <1>1, <2>1, <2>2 DEF IsStore
    <2> QED
      BY <2>1, <2>2, <2>3, PruneTip DEF Late, Call
  <1>11. ASSUME NEW x \in {"remember_pow", "put_block", "set_work", "reorganize"}, Call(x, b)
         PROVE  FALSE
    BY <1>2, <1>11 DEF NextCall
  <1> QED
    BY <1>5, <1>6, <1>7, <1>8, <1>9, <1>10, <1>11
    DEF StoreStep, RememberPow, PutBlock, SetWork, Reorganize

\* A snapshot has one record, that of its tip.
LEMMA PruneSnapshot ==
    ASSUME NEW s \in Block \cup {Zero}, Stored(s), WInv, OpenInv, PruneInv, FastSync
    PROVE  PruneInv'
  <1>1. PICK t : t = mem.tip
    OBVIOUS
  <1>2. /\ calls = <<>> /\ calls' = <<>> /\ writes = <<>> /\ writes' = <<>> /\ t # Zero
        /\ disk' = Snapshot(mem) /\ mem' = Load(disk')
    BY <1>1 DEF FastSync, Idle
  <1>3. t \in mem.blocks /\ t \in Block /\ TipHeight = Height[t] /\ Height[t] \in Nat
    BY <1>1, <1>2, TipIsThere, TipHeightIs, TreeAssumption
  <1>4. /\ mem'.work = mem.work /\ mem'.tip = t /\ mem'.blocks = {t} /\ mem'.bodies = {t}
        /\ mem'.compacted = Minus(Height[t], KeepDepth)
    <2>1. mem.ledger = [utxo |-> mem.ledger.utxo, coinbase |-> mem.ledger.coinbase]
      BY DEF OpenInv, IsLedger
    <2>2. /\ Load(Snapshot(mem)).work = mem.work /\ Load(Snapshot(mem)).tip = t
          /\ Load(Snapshot(mem)).blocks = {t} /\ Load(Snapshot(mem)).bodies = {t}
          /\ Load(Snapshot(mem)).compacted = Minus(Height[t], KeepDepth)
      BY <1>1, <1>3, <2>1, SnapshotFields
    <2> QED
      BY <1>2, <2>2
  <1>5. TipHeight' = Height[t]
    BY <1>4 DEF TipHeight, HeightIn
  <1>6. CutoffInv(mem)'
    <2>1. Minus(Height[t], KeepDepth) \in Nat
      BY <1>3, StoreAssumption DEF Minus
    <2>2. HeightIn(mem, mem.tip)' = Height[t]
      BY <1>5 DEF TipHeight
    <2> QED
      BY <1>3, <1>4, <2>1, <2>2 DEF CutoffInv
  <1>7. \A a \in DOMAIN mem'.work : Height[a] <= Height[t] + 1 /\ Height[a] <= Height[t]
    <2>1. Early
      BY <1>2 DEF Early
    <2> QED
      BY <1>3, <1>4, <2>1 DEF PruneInv
  <1>8. ~Late'
    BY <1>2 DEF Late
  <1>9. Tidy(disk.dat, writes, Height[t])'
    <2> DEFINE r == Rec(t, TRUE)
               recs == <<r>>
               dat == [recs |-> recs, rest |-> {}]
    <2>1. r.block = t
      BY DEF Rec
    <2>2. disk'.dat = dat
      BY <1>1, <1>2, <1>3 DEF Snapshot
    <2> HIDE DEF r
    <2>3. \A q \in Range(recs) : q = r
      BY DEF Range
    <2> HIDE DEF recs
    <2>4. dat.recs = recs /\ dat.rest = {}
      OBVIOUS
    <2> HIDE DEF dat
    <2>5. Recent(recs, Height[t])
      BY <1>3, <2>1, <2>3, StoreAssumption DEF Recent
    <2>6. DOMAIN writes' = {}
      BY <1>2
    <2> QED
      BY <2>2, <2>4, <2>5, <2>6 DEF Tidy
  <1> QED
    BY <1>5, <1>6, <1>7, <1>8, <1>9 DEF PruneInv

\* The start of accept_block.
LEMMA PruneAccept ==
    ASSUME PruneInv, NEW b, Accept(b)
    PROVE  PruneInv'
  <1>1. /\ calls = <<>> /\ writes = <<>> /\ writes' = <<>> /\ mem' = mem /\ disk' = disk
        /\ calls' = FromPow(b)
    BY DEF Accept, Idle, FromPow
  <1>2. Early /\ ~Late'
    BY <1>1 DEF Early, Late, FromPow
  <1> QED
    BY <1>1, <1>2, NoRecords, PrunePlain

\* A file that is written.
LEMMA PruneWrite ==
    ASSUME PruneInv, OpenInv, Write
    PROVE  PruneInv'
  <1>1. mem' = mem /\ calls' = calls
    BY DEF Write
  <1>2. CutoffInv(mem)' /\ TipHeight' = TipHeight /\ (Early' <=> Early) /\ (Late' <=> Late)
    BY <1>1 DEF PruneInv, CutoffInv, TipHeight, Early, Late
  <1>3. PICK h : h = TipHeight
    OBVIOUS
  <1>4. /\ Tidy(disk.dat, writes, h + 1) => Tidy(disk.dat, writes, h + 1)'
        /\ Tidy(disk.dat, writes, h) => Tidy(disk.dat, writes, h)'
    BY WriteTidies
  <1> QED
    BY <1>1, <1>2, <1>3, <1>4 DEF PruneInv

\* The invariant is kept.
LEMMA PruneInvStep ==
    ASSUME HeightZeroIsGenesis, AllBlocksValid, FreshCoins, ShallowForks, SettledSnapshots,
           HigherIsHeavier, SInv, OpenInv, PruneInv, [Next]_storeVars
    PROVE  PruneInv'
  <1>1. PICK s \in Block \cup {Zero} : Stored(s) /\ Phases(s)
    BY DEF SInv
  <1>2. WInv
    BY DEF SInv
  <1>3. ASSUME NEW b \in Block, Accept(b) PROVE PruneInv'
    BY <1>3, PruneAccept
  <1>4. ASSUME NEW b, StoreStep(b) PROVE PruneInv'
    <2>1. CASE Accepting(s)
      BY <1>1, <1>2, <1>4, <2>1, PruneAccepting
    <2>2. CASE ~Accepting(s)
      <3>1. PICK cur \in Block \cup {Zero}, n \in Block :
                \E M, L, J \in SUBSET (Block \cup {Zero}) : Reorging(s, cur, n, M, L, J)
        BY <1>1, <2>2 DEF Phases
      <3>2. PICK M, L, J \in SUBSET (Block \cup {Zero}) : Reorging(s, cur, n, M, L, J)
        BY <3>1
      <3>3. cur \in Places /\ M \in SUBSET Places /\ L \in SUBSET Places /\ J \in SUBSET Places
        BY DEF Places
      <3> QED
        BY <1>1, <1>2, <1>4, <3>2, <3>3, PruneReorging
    <2> QED
      BY <2>1, <2>2
  <1>5. ASSUME Write PROVE PruneInv'
    BY <1>5, PruneWrite
  <1>6. ASSUME FastSync PROVE PruneInv'
    BY <1>1, <1>2, <1>6, PruneSnapshot
  <1>7. ASSUME UNCHANGED storeVars PROVE PruneInv'
    <2>1. mem' = mem /\ disk' = disk /\ calls' = calls /\ writes' = writes
      BY <1>7 DEF storeVars
    <2>2. /\ CutoffInv(mem)' /\ TipHeight' = TipHeight /\ (Early' <=> Early) /\ (Late' <=> Late)
          /\ \A h : Tidy(disk.dat, writes, h) => Tidy(disk.dat, writes, h)'
      BY <2>1 DEF PruneInv, CutoffInv, TipHeight, Early, Late
    <2> QED
      BY <2>1, <2>2 DEF PruneInv
  <1> QED
    BY <1>3, <1>4, <1>5, <1>6, <1>7 DEF Next, BlockNext

\* The store starts without bodies.
LEMMA PruneInvInit == Init => PruneInv
  <1> SUFFICES ASSUME Init PROVE PruneInv
    OBVIOUS
  <1>1. /\ disk = EmptyDisk /\ mem = Load(EmptyDisk) /\ calls = <<>> /\ writes = <<>>
    BY DEF Init
  <1>2. EmptyDisk.dat.recs = <<>> /\ EmptyDisk.work = Empty /\ EmptyDisk.tip = Zero
    BY DEF EmptyDisk
  <1>3. Found(EmptyDisk) = {}
    BY <1>2 DEF Found
  <1>4. mem.blocks = {} /\ mem.bodies = {} /\ mem.compacted = 0 /\ mem.work = Empty
    BY <1>1, <1>2, <1>3 DEF Load
  <1>5. TipHeight = 0 /\ HeightIn(mem, mem.tip) = 0 /\ DOMAIN mem.work = {}
    BY <1>4 DEF TipHeight, HeightIn, Empty
  <1>6. CutoffInv(mem)
    BY <1>4, <1>5, StoreAssumption DEF CutoffInv, Minus
  <1>7. ~(KeepDepth > 0 /\ KeepDepth <= TipHeight) /\ ~(KeepDepth > 0 /\ KeepDepth < TipHeight)
    BY <1>5, StoreAssumption
  <1> QED
    BY <1>5, <1>6, <1>7 DEF PruneInv

\* What it says of a store between two blocks.
LEMMA PrunedIdle ==
    ASSUME SInv, PruneInv
    PROVE  RecentBodies
  <1> SUFFICES ASSUME Idle PROVE RecentBodies
    BY DEF RecentBodies
  <1>1. calls = <<>> /\ writes = <<>> /\ Early
    BY DEF Idle, Early
  <1>2. PICK s \in Block \cup {Zero} : Stored(s)
    BY DEF SInv
  <1>3. /\ mem.blocks \subseteq Block /\ mem.tip \in mem.blocks \cup {Zero}
        /\ TipHeight \in Nat /\ (mem.tip # Zero => TipHeight = Height[mem.tip])
        /\ (mem.tip = Zero => TipHeight = 0)
    BY <1>2, TipIsThere, TipHeightIs
  <1>4. ASSUME NEW b \in Path[mem.tip] \cap mem.blocks, Height[b] + KeepDepth > Height[mem.tip]
        PROVE  b \in mem.bodies
    <2> SUFFICES ASSUME b \notin mem.bodies PROVE FALSE
      OBVIOUS
    <2>1. Buried(mem, b)
      BY <1>2 DEF Stored, BodiesInv
    <2>2. PICK c \in DOMAIN mem.work : Height[b] + KeepDepth <= Height[c]
      BY <2>1 DEF Buried
    <2>3. Height[c] <= TipHeight /\ mem.tip # Zero
      BY <1>1, <2>1 DEF PruneInv, Buried
    <2>4. c \in Block /\ b \in Block
      BY <1>3 DEF SInv, WInv, WorkIsTotal
    <2>5. Height[c] \in Nat /\ Height[b] \in Nat /\ KeepDepth \in Nat
      BY <2>4, TreeAssumption, StoreAssumption
    <2> QED
      BY <1>3, <1>4, <2>2, <2>3, <2>5
  <1>5. ASSUME KeepDepth > 0, HeightIn(mem, mem.tip) > KeepDepth
        PROVE  /\ disk.dat.rest = {}
               /\ \A r \in Range(disk.dat.recs) :
                      r.body => Height[r.block] + KeepDepth >= Height[mem.tip]
    <2>1. KeepDepth < TipHeight /\ KeepDepth \in Nat
      BY <1>3, <1>5, StoreAssumption DEF TipHeight
    <2>2. TipHeight = Height[mem.tip]
      BY <1>3, <2>1
    <2>3. Tidy(disk.dat, writes, TipHeight)
      BY <1>5, <2>1 DEF PruneInv
    <2>4. DOMAIN writes = {}
      BY <1>1
    <2> QED
      BY <2>2, <2>3, <2>4 DEF Tidy, Recent
  <1> QED
    BY <1>4, <1>5 DEF RecentBodies

\* Where no fork is deeper than KeepDepth and the higher of two blocks is the heavier one,
\* the store never drops the body of one of the last KeepDepth blocks below its tip, and
\* between two blocks chain.dat holds no older body than those that the block before the
\* tip asked for.
THEOREM PrunedBodies ==
    ASSUME HeightZeroIsGenesis, AllBlocksValid, FreshCoins, ShallowForks, SettledSnapshots,
           HigherIsHeavier
    PROVE  Spec => []RecentBodies
  <1> DEFINE I == SInv /\ OpenInv /\ PruneInv
  <1>1. Init => I
    BY SInvInit, OpenInvInit, PruneInvInit
  <1>2. I /\ [Next]_storeVars => I'
    <2> SUFFICES ASSUME I, [Next]_storeVars PROVE I'
      OBVIOUS
    <2>1. SInv'
      BY SInvStep
    <2>2. OpenInv'
      BY OpenInvStep
    <2>3. PruneInv'
      BY PruneInvStep
    <2> QED
      BY <2>1, <2>2, <2>3
  <1>3. I => RecentBodies
    BY PrunedIdle
  <1> HIDE DEF I
  <1> QED
    BY <1>1, <1>2, <1>3, PTL DEF Spec


(***************************************************************************)
(* What a store that gets its blocks one by one promises.  From outside    *)
(* its calls, and the files that they write, are nothing but blocks that   *)
(* become known and tips that are adopted: HeaviestChain has neither a     *)
(* reorganisation, nor a call, nor a file.                                 *)
(***************************************************************************)

\* The blocks and the tip are those in memory.  While accept_block runs, the unspent
\* outputs are those of the tip's chain, whatever has been disconnected already.
Promise == INSTANCE HeaviestChain WITH
    known <- mem.blocks,
    tip   <- mem.tip,
    state <- IF calls = <<>> THEN mem.ledger ELSE Ledger[mem.tip]

\* When no accept_block runs they are that too.
Replayed == calls = <<>> => mem.ledger = Ledger[mem.tip]

\* The store and what it promises speak of the same order and the same work.
LEMMA PromiseWords ==
    /\ \A w, a, b : Promise!Better(w, a, b) <=> Better(w, a, b)
    /\ Promise!EmptyState = EmptyState /\ Promise!ChainWork = ChainWork
  BY DEF Promise!Better, Better, Promise!EmptyState, EmptyState, Promise!ChainWork, ChainWork,
         Promise!SumFunctionOnSet, SumFunctionOnSet, Promise!FoldFunctionOnSet, FoldFunctionOnSet,
         Promise!MapThenFoldSet, MapThenFoldSet

\* With the same blocks and the same tip nothing has happened.
LEMMA PromiseUnchanged ==
    ASSUME Replayed, Replayed', mem'.blocks = mem.blocks, mem'.tip = mem.tip
    PROVE  UNCHANGED Promise!vars
  BY DEF Promise!vars, Replayed

\* A block that is put becomes known after its parent.
LEMMA PutLearns ==
    ASSUME HeightZeroIsGenesis, WInv, Grounded, Replayed, Replayed', NEW b, PutBlock(b)
    PROVE  Promise!Next \/ UNCHANGED Promise!vars
  <1>0. IsStore(mem) /\ CallsInv
    BY DEF WInv
  <1>1. Call("put_block", b)
    BY DEF PutBlock
  <1>2. PICK put \in Puts(mem, b, TRUE) : mem' = put.mem
    BY DEF PutBlock
  <1>3. b \in Block
    BY <1>0, <1>1, CallsSplit
  <1>4. HeaderOK(mem.blocks, b)
    BY <1>1 DEF Grounded, NextIs, Call
  <1>5. Parent[b] \in mem.blocks \cup {Zero}
    BY <1>3, <1>4 DEF HeaderOK, HeightZeroIsGenesis
  <1>6. mem'.blocks = mem.blocks \cup {b} /\ mem'.tip = mem.tip
    <2>1. IsPut(mem, b, put.mem)
      BY <1>0, PutsKeep
    <2> QED
      BY <1>2, <2>1 DEF IsPut
  <1>7. CASE b \in mem.blocks
    <2>1. mem'.blocks = mem.blocks
      BY <1>6, <1>7
    <2> QED
      BY <1>6, <2>1, PromiseUnchanged
  <1>8. CASE b \notin mem.blocks
    <2>1. Promise!Learn(b)
      BY <1>5, <1>6, <1>8 DEF Promise!Learn, Replayed
    <2> QED
      BY <1>3, <2>1 DEF Promise!Next
  <1> QED
    BY <1>7, <1>8

\* The tip that is set is the best of the known blocks by the work of whole chains.
LEMMA SetTipAdopts ==
    ASSUME WInv, Grounded, Replayed, Replayed',
           NEW cur \in Places, NEW n \in Block, NEW s,
           NEW M \in SUBSET Places, NEW L \in SUBSET Places, NEW J \in SUBSET Places,
           Reorging(s, cur, n, M, L, J), NEW b, SetTip(b)
    PROVE  Promise!Next
  <1>1. Call("set_tip", b) /\ mem' = [mem EXCEPT !.tip = b] /\ calls' = After(b)
    BY DEF SetTip
  <1>2. b = n /\ After(b) = <<>>
    <2>1. NextCall(M, L, J, n, "set_tip", b)
      BY <1>1, CallsHead DEF Reorging
    <2> QED
      BY <2>1 DEF NextCall
  <1>3. IsBestTip(n) /\ mem.tip # n
    BY DEF Reorging
  <1>4. /\ mem'.tip = n /\ mem'.blocks = mem.blocks /\ mem'.ledger = Ledger[n]
    BY <1>1, <1>2 DEF WInv, IsStore, Replayed
  <1>5. DOMAIN mem.work = mem.blocks
    BY <1>1, TurnsLeft DEF Grounded
  <1>6. \A a \in mem.blocks : mem.work[a] = ChainWork[a] /\ HeightIn(mem, a) = Height[a]
    BY <1>5 DEF WInv, WorkIsTotal, HeightIn
  <1>7. n \in mem.blocks \ {mem.tip}
    BY <1>3, <1>5 DEF IsBestTip
  <1>8. \A a \in mem.blocks \ {n} : Promise!Better(Promise!ChainWork, n, a)
    BY <1>3, <1>5, <1>6, <1>7, PromiseWords DEF IsBestTip, Beats, Better
  <1>9. Promise!Adopt(n)
    BY <1>1, <1>2, <1>4, <1>7, <1>8 DEF Promise!Adopt
  <1> QED
    BY <1>9 DEF Promise!Next

\* The calls that leave the blocks and the tip alone.
LEMMA CallLeaves ==
    ASSUME WInv, NEW b,
           RememberPow(b) \/ SetWork(b) \/ Reorganize(b) \/ Disconnect(b) \/ Connect(b)
               \/ ConnectSkips(b) \/ ConnectAborts(b) \/ MarkApplied(b)
    PROVE  mem'.blocks = mem.blocks /\ mem'.tip = mem.tip
  <1>0. IsStore(mem)
    BY DEF WInv
  <1>1. CASE Connect(b)
    <2>1. b \in mem.blocks
      BY <1>1 DEF Connect
    <2>2. PICK put \in Puts(Applied(mem, b), b, b \in mem.bodies) : mem' = put.mem
      BY <1>1 DEF Connect
    <2>3. /\ IsStore(Applied(mem, b)) /\ Applied(mem, b).blocks = mem.blocks
          /\ Applied(mem, b).tip = mem.tip
      BY <1>0, AppliedStore
    <2>4. IsPut(Applied(mem, b), b, put.mem)
      BY <2>3, PutsKeep
    <2> QED
      BY <2>1, <2>2, <2>3, <2>4 DEF IsPut
  <1>2. CASE RememberPow(b) \/ Reorganize(b) \/ ConnectSkips(b) \/ ConnectAborts(b)
    BY <1>2 DEF RememberPow, Reorganize, ConnectSkips, ConnectAborts
  <1>3. CASE SetWork(b) \/ Disconnect(b) \/ MarkApplied(b)
    BY <1>0, <1>3 DEF SetWork, Disconnect, MarkApplied, IsStore
  <1> QED
    BY <1>1, <1>2, <1>3

\* Every step of a block is a step of the promise, or nothing that it tells.
LEMMA PromiseStep ==
    ASSUME HeightZeroIsGenesis, WInv, Grounded, Replayed, Replayed', NEW s, Phases(s),
           [BlockNext]_storeVars
    PROVE  Promise!Next \/ UNCHANGED Promise!vars
  <1>1. ASSUME mem' = mem PROVE UNCHANGED Promise!vars
    BY <1>1, PromiseUnchanged
  <1>2. ASSUME NEW b, SetTip(b) PROVE Promise!Next
    <2>1. ~Accepting(s)
      <3>1. Call("set_tip", b)
        BY <1>2 DEF SetTip
      <3> QED
        BY <3>1, AcceptingCall
    <2>2. PICK cur \in Places, n \in Block : \E M, L, J \in SUBSET Places :
              Reorging(s, cur, n, M, L, J)
      BY <2>1 DEF Phases, Places
    <2>3. PICK M, L, J \in SUBSET Places : Reorging(s, cur, n, M, L, J)
      BY <2>2
    <2> QED
      BY <1>2, <2>3, SetTipAdopts
  <1>3. ASSUME NEW b, StoreStep(b) PROVE Promise!Next \/ UNCHANGED Promise!vars
    <2>1. CASE PutBlock(b)
      BY <2>1, PutLearns
    <2>2. CASE SetTip(b)
      BY <1>2, <2>2
    <2>3. CASE ~(PutBlock(b) \/ SetTip(b))
      <3>1. mem'.blocks = mem.blocks /\ mem'.tip = mem.tip
        BY <1>3, <2>3, CallLeaves DEF StoreStep
      <3> QED
        BY <3>1, PromiseUnchanged
    <2> QED
      BY <2>1, <2>2, <2>3
  <1> QED
    BY <1>1, <1>3 DEF BlockNext, Accept, Write, storeVars

\* The store implements HeaviestChain as long as it gets its blocks one by one: the calls
\* of accept_block and the files between them are not seen, and set_tip adopts in one step
\* the block with the most work of all that the store has, together with the unspent
\* outputs of its whole chain, with pruning and checkpoints too.
THEOREM StoreRefinement ==
    ASSUME HeightZeroIsGenesis, AllBlocksValid, FreshCoins, ShallowForks
    PROVE  Init /\ [][BlockNext]_storeVars => Promise!Spec
  <1> DEFINE I == /\ WInv /\ Grounded
                  /\ \E s \in Block \cup {Zero} : Stored(s) /\ Phases(s)
  <1>1. Init => I /\ Promise!Init
    <2> SUFFICES ASSUME Init PROVE I /\ Promise!Init
      OBVIOUS
    <2>1. Found(EmptyDisk) = {}
      BY DEF Found, EmptyDisk
    <2>2. mem.blocks = {} /\ mem.tip = Zero /\ mem.ledger = EmptyState /\ calls = <<>>
      BY <2>1 DEF Init, Load, EmptyDisk
    <2> QED
      BY <2>2, ChainInit, WInvInit, StoredInit, PromiseWords DEF Promise!Init
  <1>2. I /\ [BlockNext]_storeVars => I'
    <2> SUFFICES ASSUME I, [BlockNext]_storeVars PROVE I'
      OBVIOUS
    <2>1. PICK s \in Block \cup {Zero} : Stored(s) /\ Phases(s)
      OBVIOUS
    <2>2. Stored(s)' /\ Phases(s)'
      BY <2>1, StoredBlock
    <2> QED
      BY <2>2, WInvStep, GroundedStep DEF Next
  <1>3. I => Replayed
    BY IdlePhase DEF Replayed, Accepting, LedgerInv
  <1>4. I /\ Replayed /\ Replayed' /\ [BlockNext]_storeVars => [Promise!Next]_(Promise!vars)
    <2> SUFFICES ASSUME I, Replayed, Replayed', [BlockNext]_storeVars
                 PROVE  Promise!Next \/ UNCHANGED Promise!vars
      OBVIOUS
    <2>1. PICK s \in Block \cup {Zero} : Stored(s) /\ Phases(s)
      OBVIOUS
    <2> QED
      BY <2>1, PromiseStep
  <1> HIDE DEF I
  <1> QED
    BY <1>1, <1>2, <1>3, <1>4, PTL DEF Promise!Spec
=============================================================================
