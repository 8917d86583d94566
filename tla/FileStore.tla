----------------------------- MODULE FileStore -----------------------------
(***************************************************************************)
(* The chain store on disk (litc-store's FileStore) under the calls that   *)
(* accept_block makes of it.  Every call changes the memory first and then *)
(* rewrites the files it concerns, one after the other; the process may    *)
(* stop between any two of them and opens the store again from the files.  *)
(*                                                                         *)
(* A file is written at once, and the outputs of a block are written       *)
(* together instead of one by one.  Write errors do not happen.  The set   *)
(* of remember_pow is written and read back, but nothing asks for it.      *)
(* The position of a file that has just been opened for appending is 0, as *)
(* POSIX has it, whatever is in the file.                                  *)
(***************************************************************************)
EXTENDS BlockTree, Sequences

CONSTANT KeepDepth    \* PruneConfig.keep_depth, 0 for no pruning

ASSUME StoreAssumption == KeepDepth \in Nat

VARIABLES
    mem,        \* the store in memory
    disk,       \* the files
    calls,      \* the calls that the running accept_block has still to make, each
                \* name with the blocks that it is called for
    writes,     \* the files that the last of its calls has still to write,
                \* those of the chain with what is written
    known       \* Node.known_blocks

storeVars == <<mem, disk, calls, writes, known>>

Idle == calls = <<>> /\ writes = <<>>

Empty == [b \in {} |-> 0]
\* A record of chain.dat.  One that has no body is shorter; the lengths are
\* any that tell the beginning of a record from its middle.
Rec(b, body) == [block |-> b, body |-> body]
RecLen(r) == IF r.body THEN 11 ELSE 1
Offset(recs, k) == SumFunctionOnSet([i \in 1 .. k - 1 |-> RecLen(recs[i])], 1 .. k - 1)

\* chain.dat: the records that chain.idx can point to, in their order, and the
\* blocks of those that were appended and nothing points to.
DatBlocks(dat) == {r.block : r \in Range(dat.recs)} \cup dat.rest

EmptyDisk == [dat |-> [recs |-> <<>>, rest |-> {}], idx |-> Empty, work |-> Empty,
              applied |-> {}, undo |-> Empty, ledger |-> EmptyState, tip |-> Zero]

\* read_block_record at the offsets of the index: the records there, if a
\* record begins at each.
Found(d) == {k \in DOMAIN d.dat.recs : \E h \in DOMAIN d.idx : d.idx[h] = Offset(d.dat.recs, k)}
CanOpen(d) == \A h \in DOMAIN d.idx : \E k \in DOMAIN d.dat.recs : d.idx[h] = Offset(d.dat.recs, k)

HeightIn(m, b) == IF b \in m.blocks THEN Height[b] ELSE 0
Minus(a, b) == IF a > b THEN a - b ELSE 0

\* FileStore::open.
Load(d) ==
    LET records == {d.dat.recs[k] : k \in Found(d)}
        found == {r.block : r \in records}
    IN  [idx |-> d.idx, work |-> d.work, applied |-> d.applied, undo |-> d.undo,
         ledger |-> d.ledger, tip |-> d.tip, blocks |-> found,
         bodies |-> {r.block : r \in {q \in records : q.body}},
         compacted |-> IF d.tip \in found THEN Minus(Height[d.tip], KeepDepth) ELSE 0]

Init ==
    /\ disk = EmptyDisk
    /\ mem = Load(EmptyDisk)
    /\ calls = <<>>
    /\ writes = <<>>
    /\ known = {}

\* chain.dat and chain.idx.
Appended(d, r) == IF d.dat.recs = <<>> THEN [d EXCEPT !.dat.recs = <<r>>]
                  ELSE [d EXCEPT !.dat.rest = @ \cup {r.block}]
Rewritten(d, recs) == [d EXCEPT !.dat = [recs |-> recs, rest |-> {}]]
IndexFile(d, idx) == [d EXCEPT !.idx = idx]

\* The other files as memory has them; each is written whole.
MetaFile(d, m)     == [d EXCEPT !.work = m.work, !.applied = m.applied]
UtxoFile(d, m)     == [d EXCEPT !.ledger.utxo = m.ledger.utxo]
CoinbaseFile(d, m) == [d EXCEPT !.ledger.coinbase = m.ledger.coinbase]
UndoFile(d, m)     == [d EXCEPT !.undo = m.undo]
TipFile(d, m)      == [d EXCEPT !.tip = m.tip]

Flushed(f) ==
    CASE f[1] = "append"   -> Appended(disk, f[2])
      [] f[1] = "rewrite"  -> Rewritten(disk, f[2])
      [] f[1] = "index"    -> IndexFile(disk, f[2])
      [] f[1] = "meta"     -> MetaFile(disk, mem)
      [] f[1] = "utxo"     -> UtxoFile(disk, mem)
      [] f[1] = "coinbase" -> CoinbaseFile(disk, mem)
      [] f[1] = "undo"     -> UndoFile(disk, mem)
      [] f[1] = "tip"      -> TipFile(disk, mem)

-----------------------------------------------------------------------------
(* Blocks and pruning.                                                     *)

\* Mutant of Cutoff: one body too many is dropped.
CutoffOneMore(m) == Minus(HeightIn(m, m.tip), KeepDepth) + 1

\* The height up to which compact drops the bodies.
Cutoff(m) == Minus(HeightIn(m, m.tip), KeepDepth)

\* One block per height of the index, any of those that memory has for it.
OnePerHeight(m) ==
    {S \in SUBSET m.blocks :
        \A h \in DOMAIN m.idx : Cardinality({b \in S : Height[b] = h})
                                  = IF \E b \in m.blocks : Height[b] = h THEN 1 ELSE 0}

\* How many blocks of S are lower than b.
Below(S, b) == Cardinality({a \in S : Height[a] < Height[b]})

\* The records of chain.dat after a compaction, from the lowest block up, and the
\* offsets of each.
Records(m, S) ==
    [k \in 1 .. Cardinality(S) |->
        LET b == CHOOSE b \in S : Below(S, b) = k - 1
        IN  Rec(b, Height[b] > Cutoff(m) /\ b \in m.bodies)]
IndexOf(r) ==
    [h \in {Height[r[k].block] : k \in DOMAIN r} |->
        Offset(r, CHOOSE k \in DOMAIN r : Height[r[k].block] = h)]

\* compact: chain.dat is written anew, and the bodies up to the cutoff are
\* dropped; then chain.idx, with the offsets in the new file.
Compacted(m, S, index) ==
    [m EXCEPT !.idx = index, !.bodies = @ \ {b \in S : Height[b] <= Cutoff(m)},
              !.compacted = Cutoff(m)]
Compactions(m, files) ==
    {[mem |-> Compacted(m, S, IndexOf(Records(m, S))),
      writes |-> files \o <<<<"rewrite", Records(m, S)>>, <<"index", IndexOf(Records(m, S))>>>>] :
        S \in OnePerHeight(m)}

\* The difference of two u64: below zero it wraps around and is large.
CompactionDue(m) ==
    LET best == HeightIn(m, m.tip)
    IN  KeepDepth > 0 /\ best > 0 /\ (best < m.compacted \/ best - m.compacted >= KeepDepth)

\* put_block: what memory may be after it and the files that it writes.  The
\* index is given the position that the file had before the record was written.
Puts(m, b, body) ==
    LET new == [m EXCEPT !.blocks = @ \cup {b},
                         !.bodies = IF body THEN @ \cup {b} ELSE @ \ {b},
                         !.idx = [h \in DOMAIN @ \cup {Height[b]} |-> IF h = Height[b] THEN 0 ELSE @[h]]]
        files == <<<<"append", Rec(b, body)>>, <<"index", new.idx>>>>
    IN  IF CompactionDue(new) THEN Compactions(new, files) ELSE {[mem |-> new, writes |-> files]}

-----------------------------------------------------------------------------
(* The plan of a reorganisation, from what the store has.                  *)

WorkIn(m, b) == IF b \in DOMAIN m.work THEN m.work[b] ELSE 0

\* best_tip_by_work: a block that the store does not have counts as height 0.
Beats(m, a, b) ==
    \/ m.work[a] > m.work[b]
    \/ m.work[a] = m.work[b] /\ HeightIn(m, a) > HeightIn(m, b)
    \/ m.work[a] = m.work[b] /\ HeightIn(m, a) = HeightIn(m, b) /\ HashRank[a] < HashRank[b]

BestTip(m) == CHOOSE b \in DOMAIN m.work : \A a \in DOMAIN m.work \ {b} : Beats(m, b, a)

\* The hashes that parent_of reaches from b, the first unknown one included.
Walk(m, b) == {a \in Path[b] \cup {Zero} : Path[b] \ Path[a] \subseteq m.blocks}

\* The calls named n for the blocks of S.
Rest(n, S) == IF S = {} THEN <<>> ELSE <<<<n, S>>>>

\* Mutant of Plan: the tip is set before the branch is connected.
PlanTipFirst(m) ==
    LET new == BestTip(m)
        left == IF m.tip = Zero THEN {} ELSE Walk(m, m.tip) \ Walk(m, new)
        joined == IF m.tip = Zero THEN Walk(m, new) ELSE Walk(m, new) \ Walk(m, m.tip)
    IN  IF new = m.tip THEN <<>>
        ELSE Rest("disconnect", left) \o <<<<"set_tip", {new}>>>> \o Rest("connect", joined)

\* reorganize: disconnect down to the common ancestor, connect up to the best.
Plan(m) ==
    LET new == BestTip(m)
        left == IF m.tip = Zero THEN {} ELSE Walk(m, m.tip) \ Walk(m, new)
        joined == IF m.tip = Zero THEN Walk(m, new) ELSE Walk(m, new) \ Walk(m, m.tip)
    IN  IF new = m.tip THEN <<>>
        ELSE Rest("disconnect", left) \o Rest("connect", joined) \o <<<<"set_tip", {new}>>>>

-----------------------------------------------------------------------------
(* The calls.                                                              *)

\* accept_block, up to its first call of the store.
Accept(b) ==
    /\ Idle
    /\ b \notin known
    /\ HeaderOK(mem.blocks, b) /\ CheckpointOK(b)
    /\ calls' = <<<<"remember_pow", {b}>>, <<"put_block", {b}>>, <<"set_work", {b}>>,
                 <<"reorganize", {b}>>>>
    /\ known' = known \cup {b}
    /\ UNCHANGED <<mem, disk, writes>>

\* The next call is named n, and is of block b.
Call(n, b) ==
    /\ writes = <<>> /\ calls # <<>>
    /\ Head(calls)[1] = n /\ b \in Head(calls)[2]
    /\ UNCHANGED <<disk, known>>

\* The calls after the one for b.
After(b) == Rest(Head(calls)[1], Head(calls)[2] \ {b}) \o Tail(calls)

RememberPow(b) ==
    Call("remember_pow", b) /\ writes' = <<<<"meta">>>> /\ calls' = After(b) /\ UNCHANGED mem

PutBlock(b) ==
    /\ Call("put_block", b)
    /\ \E put \in Puts(mem, b, TRUE) : mem' = put.mem /\ writes' = put.writes
    /\ calls' = After(b)

SetWork(b) ==
    /\ Call("set_work", b)
    /\ mem' = [mem EXCEPT !.work = [a \in DOMAIN @ \cup {b} |->
                  IF a = b THEN WorkIn(mem, Parent[b]) + BlockWork[b] ELSE @[a]]]
    /\ writes' = <<<<"meta">>>> /\ calls' = After(b)

Reorganize(b) ==
    Call("reorganize", b) /\ calls' = Plan(mem) /\ UNCHANGED <<mem, writes>>

\* disconnect does not write chainmeta.dat, although it unmarks the block.
Disconnect(b) ==
    /\ Call("disconnect", b)
    /\ Head(calls)[2] \subseteq Path[b] \cup {Zero}
    /\ mem' = [mem EXCEPT !.ledger = IF b \in DOMAIN mem.undo THEN Rollback(@, mem.undo[b]) ELSE @,
                          !.undo = Restrict(@, DOMAIN @ \ {b}),
                          !.applied = @ \ {b}]
    /\ writes' = <<<<"utxo">>, <<"coinbase">>, <<"undo">>>> /\ calls' = After(b)

\* connect_branch goes from the lowest block up.
CallConnect(b) ==
    Call("connect", b) /\ \A a \in Head(calls)[2] : b \in Path[a] \cup {Zero}

\* apply_block's checks; a block without its body has no transactions.
Applies(m, b) ==
    /\ HeaderOK(m.blocks, b)
    /\ IF b \in m.bodies THEN Valid(m.ledger, b) ELSE Committed[b] => Leaves(m.ledger) = BlockStateRoot(b)

\* What applying b makes of the ledger, and the undo data of it.
Applied(m, b) ==
    [m EXCEPT !.ledger = IF b \in m.bodies THEN ApplyTo(@, b) ELSE @,
              !.undo = [a \in DOMAIN @ \cup {b} |->
                  IF a # b THEN @[a]
                  ELSE IF b \in m.bodies THEN UndoOf(m.ledger, b)
                  ELSE [created |-> {}, spent |-> {}, coinbaseCreated |-> {}, coinbaseSpent |-> {}]]]

\* connect_branch, one block: apply_block unless it is applied or not there.
Connect(b) ==
    /\ CallConnect(b)
    /\ b \in mem.blocks \ mem.applied
    /\ Applies(mem, b)
    /\ \E put \in Puts(Applied(mem, b), b, b \in mem.bodies) :
           mem' = put.mem /\ writes' = <<<<"utxo">>, <<"coinbase">>, <<"undo">>>> \o put.writes
    /\ calls' = <<<<"mark_applied", {b}>>>> \o After(b)

ConnectSkips(b) ==
    /\ CallConnect(b)
    /\ b \notin mem.blocks \ mem.applied
    /\ calls' = <<<<"mark_applied", {b}>>>> \o After(b)
    /\ UNCHANGED <<mem, writes>>

ConnectAborts(b) ==
    /\ CallConnect(b)
    /\ b \in mem.blocks \ mem.applied
    /\ ~Applies(mem, b)
    /\ calls' = <<>>
    /\ UNCHANGED <<mem, writes>>

\* Mutant of MarkApplied: the mark stays in memory.
MarkAppliedInMemory(b) ==
    /\ Call("mark_applied", b)
    /\ mem' = [mem EXCEPT !.applied = @ \cup {b}]
    /\ calls' = After(b) /\ UNCHANGED writes

MarkApplied(b) ==
    /\ Call("mark_applied", b)
    /\ mem' = [mem EXCEPT !.applied = @ \cup {b}]
    /\ writes' = <<<<"meta">>>> /\ calls' = After(b)

SetTip(b) ==
    Call("set_tip", b) /\ mem' = [mem EXCEPT !.tip = b] /\ writes' = <<<<"tip">>>> /\ calls' = After(b)

\* The next file of the last call.
Write ==
    /\ writes # <<>>
    /\ disk' = Flushed(Head(writes))
    /\ writes' = Tail(writes)
    /\ UNCHANGED <<mem, calls, known>>

\* The process stops between two blocks and opens the store again.
Restart ==
    /\ Idle /\ CanOpen(disk)
    /\ mem' = Load(disk)
    /\ known' = {}
    /\ UNCHANGED <<disk, calls, writes>>

-----------------------------------------------------------------------------
(* Snapshots.                                                              *)

\* Mutant of Snapshot: the work of the blocks below the tip is missing.
SnapshotOwnWork(m) ==
    [dat |-> [recs |-> IF m.tip \in m.blocks THEN <<Rec(m.tip, TRUE)>> ELSE <<>>, rest |-> {}],
     idx |-> IF m.tip \in m.blocks THEN [h \in {Height[m.tip]} |-> 0] ELSE Empty,
     work |-> [b \in {m.tip} |-> BlockWork[b]], applied |-> m.applied, undo |-> Empty,
     ledger |-> m.ledger, tip |-> m.tip]

\* save_snapshot: the tip block, and no undo data.
Snapshot(m) ==
    [dat |-> [recs |-> IF m.tip \in m.blocks THEN <<Rec(m.tip, TRUE)>> ELSE <<>>, rest |-> {}],
     idx |-> IF m.tip \in m.blocks THEN [h \in {Height[m.tip]} |-> 0] ELSE Empty,
     work |-> m.work, applied |-> m.applied, undo |-> Empty,
     ledger |-> m.ledger, tip |-> m.tip]

\* snapshot.meta, the description that a loader checks the files against.
SnapshotMeta(m) ==
    [height |-> HeightIn(m, m.tip), block |-> m.tip, work |-> WorkIn(m, m.tip),
     stateRoot |-> Leaves(m.ledger)]

\* load_snapshot: the root of the files is the one of the description, and its
\* block is the highest checkpoint at or below its height.
SnapshotLoads(d, meta) ==
    LET below == {c \in Checkpoint : Height[c] <= meta.height}
    IN  /\ Leaves(d.ledger) = meta.stateRoot
        /\ below # {} => /\ meta.block \in below
                         /\ \A c \in below : Height[c] <= Height[meta.block]

\* A new node starts from a snapshot that this one saves.
FastSync ==
    /\ Idle
    /\ mem.tip # Zero
    /\ SnapshotLoads(Snapshot(mem), SnapshotMeta(mem))
    /\ disk' = Snapshot(mem)
    /\ mem' = Load(disk')
    /\ known' = {}
    /\ UNCHANGED <<calls, writes>>

StoreStep(b) ==
    \/ RememberPow(b) \/ PutBlock(b) \/ SetWork(b) \/ Reorganize(b) \/ Disconnect(b)
    \/ Connect(b) \/ ConnectSkips(b) \/ ConnectAborts(b) \/ MarkApplied(b) \/ SetTip(b)

BlockNext ==
    \/ \E b \in Block : Accept(b)
    \/ \E b \in Block \cup {Zero} : StoreStep(b)
    \/ Write

Next == BlockNext \/ FastSync

Spec == Init /\ [][Next]_storeVars

\* A node that synchronises block by block, and is stopped now and then.
RestartSpec == Init /\ [][BlockNext \/ Restart]_storeVars

-----------------------------------------------------------------------------
(* Assumptions on the blocks that only some of the results need.           *)

\* Of two chains the one with no less work agrees with the other one on all but
\* its last KeepDepth blocks: no reorganisation reaches a dropped body.
ShallowForks ==
    KeepDepth > 0 =>
        \A a, c \in Block : ChainWork[c] <= ChainWork[a] =>
            \A b \in Block : Height[b] + KeepDepth <= Height[c] => (b \in Path[a] <=> b \in Path[c])

\* No other block that passes the checkpoints has the height of s, and those below
\* it have less work.
Settled(s) ==
    \A a \in Block \ {s} :
        CheckpointOK(a) /\ Height[a] <= Height[s] =>
            Height[a] < Height[s] /\ ChainWork[a] < ChainWork[s]

\* A snapshot that load_snapshot takes is of a settled block: of a pinned one that
\* no shorter chain outweighs, or of one in a place that nobody competes for.
SettledSnapshots ==
    \A s \in Block :
        ((\E c \in Checkpoint : Height[c] <= Height[s]) => s \in Checkpoint) => Settled(s)

\* A higher block has more work behind it.
HigherIsHeavier == \A a, b \in Block : Height[a] < Height[b] => ChainWork[a] < ChainWork[b]

-----------------------------------------------------------------------------
(* Properties.                                                             *)

\* Between two blocks the files say what memory says: a clean stop loses no
\* work, no mark, no undo data, no output and no tip.
DiskIsMemory ==
    Idle => /\ disk.work = mem.work /\ disk.applied = mem.applied /\ disk.undo = mem.undo
            /\ disk.ledger = mem.ledger /\ disk.tip = mem.tip /\ disk.idx = mem.idx

\* The store has seen one chain only and has connected it from its genesis on.
OneChain ==
    /\ \E b \in Block \cup {Zero} : mem.blocks = Path[b]
    /\ Path[mem.tip] \subseteq DOMAIN mem.undo

\* Whenever a process that has seen no fork stops, between any two files too,
\* the chain of the tip on disk is there: its blocks are in chain.dat and marked
\* as applied, and unless compact has rewritten chain.dat and not yet
\* chain.idx, the store opens.
TipIsDurable ==
    /\ OneChain => Path[disk.tip] \subseteq DatBlocks(disk.dat) \cap disk.applied
    /\ (\A i \in DOMAIN writes : writes[i][1] # "index") => CanOpen(disk)

\* Between two blocks the ledger in memory is the one of the tip's chain.
LedgerIsReplay == Idle => mem.ledger = Ledger[mem.tip]

\* Between two blocks the store has every block of its active chain.
ActiveChainIsKnown == Idle => Path[mem.tip] \subseteq mem.blocks

\* The bodies of the last KeepDepth blocks below the tip are never dropped, and
\* those of older blocks do not stay on the disk: chain.dat has the bodies that
\* the tip before the last block asked for, once, and nothing else appended.
RecentBodies ==
    Idle => /\ \A b \in Path[mem.tip] \cap mem.blocks :
                   Height[b] + KeepDepth > Height[mem.tip] => b \in mem.bodies
            /\ KeepDepth > 0 /\ HeightIn(mem, mem.tip) > KeepDepth =>
                   /\ disk.dat.rest = {}
                   /\ \A r \in Range(disk.dat.recs) :
                          r.body => Height[r.block] + KeepDepth >= Height[mem.tip]

\* The work of the tip is that of its whole chain, on a node that started from
\* a snapshot too.
TipWorkIsTotal == Idle /\ mem.tip # Zero => WorkIn(mem, mem.tip) = ChainWork[mem.tip]
=============================================================================
