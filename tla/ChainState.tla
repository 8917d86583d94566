----------------------------- MODULE ChainState -----------------------------
(***************************************************************************)
(* Chain selection and reorganisation: litc-core's reorganize and the      *)
(* MemoryStore of litc-store it works on.                                  *)
(*                                                                         *)
(* A call of reorganize is a run of small steps here, one per block that   *)
(* is disconnected or connected, so that invariants can be stated about    *)
(* the state between two of them.  The node calls it with its lock held:   *)
(* nothing else touches the store before the run ends.                     *)
(***************************************************************************)
EXTENDS BlockTree

VARIABLES
    blocks,     \* MemoryStore.blocks (and its height index)
    work,       \* MemoryStore.work: cumulative work, by block
    applied,    \* MemoryStore.applied
    undo,       \* MemoryStore.undo
    ledger,     \* MemoryStore.utxos and MemoryStore.coinbase
    tip,        \* MemoryStore.tip, Zero for None
    pc,         \* where the running call of reorganize is
    cur,        \* the block up to which reorganize has brought the ledger
    target,     \* reorganize's new_tip
    ancestor    \* reorganize's ancestor

store == <<blocks, work, applied, undo, ledger, tip>>
loop  == <<cur, target, ancestor>>
vars  == <<store, pc, loop>>

\* MemoryStore::work_of, 0 for a block it has no entry for.
WorkOf(b) == IF b \in DOMAIN work THEN work[b] ELSE 0

Init ==
    /\ blocks = {}
    /\ work = [b \in {} |-> 0]
    /\ applied = {}
    /\ undo = [b \in {} |-> UndoOf(EmptyState, b)]
    /\ ledger = EmptyState
    /\ tip = Zero
    /\ pc = "idle"
    /\ cur = Zero
    /\ target = Zero
    /\ ancestor = Zero

\* Mutants of Record: the block's own work instead of the cumulative work, and
\* the block's work taken away from the parent's.
RecordOwnWork(b) ==
    /\ blocks' = blocks \cup {b}
    /\ work' = [a \in DOMAIN work \cup {b} |-> IF a = b THEN BlockWork[b] ELSE work[a]]
RecordLessWork(b) ==
    /\ blocks' = blocks \cup {b}
    /\ work' = [a \in DOMAIN work \cup {b} |->
                    IF a = b THEN WorkOf(Parent[b]) - BlockWork[b] ELSE work[a]]

\* put_block and set_work of a block that passed the header checks.
Record(b) ==
    /\ blocks' = blocks \cup {b}
    /\ work' = [a \in DOMAIN work \cup {b} |->
                    IF a = b THEN WorkOf(Parent[b]) + BlockWork[b] ELSE work[a]]

\* Mutant of StartReorg: the chain is chosen by height instead of by work.
StartReorgByHeight(best, c) ==
    /\ IsCommonAncestor(tip, best, c)
    /\ target' = best
    /\ ancestor' = c
    /\ cur' = tip
    /\ pc' = IF tip # Zero /\ Height[best] <= Height[tip] THEN "idle"
             ELSE IF tip = c THEN "connect" ELSE "disconnect"
    /\ applied' = IF tip = Zero THEN applied \cup {Zero} ELSE applied

\* The entry of reorganize: compare the best block with the tip and set out.
\* With no tip the path to connect starts with the zero hash, which no store
\* has a block for: the loop only marks it as applied.
StartReorg(best, c) ==
    /\ IsCommonAncestor(tip, best, c)
    /\ target' = best
    /\ ancestor' = c
    /\ cur' = tip
    /\ pc' = IF best = tip THEN "idle" ELSE IF tip = c THEN "connect" ELSE "disconnect"
    /\ applied' = IF tip = Zero THEN applied \cup {Zero} ELSE applied

\* accept_block as far as the store goes: header checks, checkpoint, record
\* the block and its work, then reorganize.
Submit(b) ==
    /\ pc = "idle"
    /\ Parent[b] \in blocks \cup {Zero}
    /\ HeaderOK(blocks, b)
    /\ CheckpointOK(b)
    /\ Record(b)
    /\ \E best \in blocks', c \in blocks' \cup {Zero} :
           IsBest(work', best) /\ StartReorg(best, c)
    /\ UNCHANGED <<undo, ledger, tip>>

\* Mutant of Disconnect: the block keeps its applied mark.
DisconnectKeepsMark ==
    /\ pc = "disconnect"
    /\ ledger' = IF cur \in DOMAIN undo THEN Rollback(ledger, undo[cur]) ELSE ledger
    /\ undo' = Restrict(undo, DOMAIN undo \ {cur})
    /\ cur' = Parent[cur]
    /\ pc' = IF Parent[cur] = ancestor THEN "connect" ELSE "disconnect"
    /\ UNCHANGED <<blocks, work, applied, tip, target, ancestor>>

\* One turn of reorganize's loop: roll back the block the ledger stands on.
\* A block without undo data only loses its applied mark.
Disconnect ==
    /\ pc = "disconnect"
    /\ ledger' = IF cur \in DOMAIN undo THEN Rollback(ledger, undo[cur]) ELSE ledger
    /\ undo' = Restrict(undo, DOMAIN undo \ {cur})
    /\ applied' = applied \ {cur}
    /\ cur' = Parent[cur]
    /\ pc' = IF Parent[cur] = ancestor THEN "connect" ELSE "disconnect"
    /\ UNCHANGED <<blocks, work, tip, target, ancestor>>

\* The next block of the branch that connect_branch walks.
OnBranch(b) == b \in Path[target] /\ Parent[b] = cur

\* Apply b to the ledger and record its undo data: apply_block after its checks.
ApplyBlock(b) ==
    /\ ledger' = ApplyTo(ledger, b)
    /\ undo' = [a \in DOMAIN undo \cup {b} |->
                    IF a = b THEN UndoOf(ledger, b) ELSE undo[a]]
    /\ applied' = applied \cup {b}
    /\ cur' = b

\* Mutant of Connect: the tip moves with every block instead of at the end.
ConnectMovingTip(b) ==
    /\ pc = "connect" /\ OnBranch(b) /\ b \notin applied /\ Valid(ledger, b)
    /\ ApplyBlock(b)
    /\ tip' = b
    /\ UNCHANGED <<blocks, work, pc, target, ancestor>>

\* One turn of connect_branch: apply the next block, if it is not applied yet.
Connect(b) ==
    /\ pc = "connect"
    /\ OnBranch(b)
    /\ b \notin applied
    /\ Valid(ledger, b)
    /\ ApplyBlock(b)
    /\ UNCHANGED <<blocks, work, tip, pc, target, ancestor>>

\* connect_branch passes over a block that an earlier, failed run applied.
SkipApplied(b) ==
    /\ pc = "connect"
    /\ OnBranch(b)
    /\ b \in applied
    /\ cur' = b
    /\ UNCHANGED <<store, pc, target, ancestor>>

\* apply_block refuses the next block: connect_branch returns and leaves the
\* tip, the blocks it disconnected and the ones it connected as they are.
Abort(b) ==
    /\ pc = "connect"
    /\ OnBranch(b)
    /\ b \notin applied
    /\ ~Valid(ledger, b)
    /\ pc' = "idle"
    /\ UNCHANGED <<store, loop>>

\* The whole branch is connected: set_tip.
Finish ==
    /\ pc = "connect"
    /\ cur = target
    /\ tip' = target
    /\ pc' = "idle"
    /\ UNCHANGED <<blocks, work, applied, undo, ledger, loop>>

ReorgStep ==
    \/ Disconnect
    \/ \E b \in Block : Connect(b) \/ SkipApplied(b) \/ Abort(b)
    \/ Finish

Next == (\E b \in Block : Submit(b)) \/ ReorgStep

Spec == Init /\ [][Next]_vars

\* reorganize is a plain function call: once entered it runs to its end.
FairSpec == Spec /\ WF_vars(ReorgStep)

-----------------------------------------------------------------------------
(* Properties.                                                             *)

\* Every variable of the store and of the running call has its type.
TypeOK ==
    /\ blocks \subseteq Block
    /\ DOMAIN work = blocks /\ \A b \in blocks : work[b] \in Nat \ {0}
    /\ applied \subseteq Block \cup {Zero}
    /\ DOMAIN undo \subseteq Block /\ \A b \in DOMAIN undo : undo[b] \in UndoData
    /\ ledger \in State
    /\ tip \in blocks \cup {Zero}
    /\ pc \in {"idle", "disconnect", "connect"}
    /\ cur \in blocks \cup {Zero}
    /\ target \in blocks \cup {Zero}
    /\ ancestor \in blocks \cup {Zero}

\* Between two calls of reorganize the unspent outputs and the maturity index
\* are exactly what replaying the active chain from nothing gives, whatever
\* forks were connected and rolled back on the way.
LedgerIsReplay == pc = "idle" => ledger = Ledger[tip]

\* Between two calls the blocks marked as applied, and the blocks that can be
\* rolled back, are exactly the blocks of the active chain.
AppliedIsActiveChain ==
    pc = "idle" => applied \ {Zero} = Path[tip] /\ DOMAIN undo = Path[tip]

\* Between two calls no recorded block is better than the tip: neither a
\* heavier fork nor a tie that the hash decides is ever left unused.
TipIsBest == pc = "idle" /\ blocks # {} => IsBest(work, tip)

\* The tip never moves to a chain that is not better than the one it leaves,
\* and it never moves while a branch is only partly connected.
TipOnlyImproves ==
    [][tip' # tip => /\ tip' = cur
                     /\ Path[tip'] \subseteq applied
                     /\ tip # Zero => Better(work, tip', tip)]_vars

\* A pinned block that is on the active chain never leaves it again: no fork
\* from below a checkpoint replaces it.
CheckpointIsFinal ==
    [][\A c \in Checkpoint : c \in Path[tip] => c \in Path[tip']]_vars

\* Every block of the active chain spends only what its own chain left
\* unspent and mature: no failed branch ever lets a double spend in.
TipChainIsValid == \A b \in Path[tip] : Valid(Ledger[Parent[b]], b)

\* Heights along the active chain follow each other, from a genesis at 0.
HeightsFollow ==
    \A b \in Path[tip] :
        Height[b] = IF Parent[b] = Zero THEN 0 ELSE Height[Parent[b]] + 1

\* A recorded block is, sooner or later, the tip or not as good as the tip.
EventuallyBest ==
    \A b \in Block :
        b \in blocks ~> b \in blocks /\ tip # Zero /\ (tip = b \/ Better(work, tip, b))
=============================================================================
