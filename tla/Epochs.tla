------------------------------- MODULE Epochs -------------------------------
(***************************************************************************)
(* Epoch seeds and difficulty retargeting in litc-node: the seed rule of   *)
(* the header check, and the node's own epoch_seed and epoch_targets, kept *)
(* in memory only and updated whenever a block at an epoch boundary is     *)
(* accepted.  A reorganisation is one step here (ChainState has its steps) *)
(* and every block is otherwise valid; a block from the future is one that *)
(* has not arrived yet.                                                    *)
(***************************************************************************)
EXTENDS Blocks, PowTarget, Sequences, Functions

CONSTANTS
    Time,           \* [Block -> Nat]: header.timestamp
    SeedFrom,       \* [Block -> Block \cup {Zero}]: the hash whose SHA-256d is
                    \* header.epoch_seed, Zero for the genesis seed
    Digest,         \* [Block -> Nat]: the Proof-of-Work digest
    EpochBlocks,    \* EPOCH_BLOCKS
    InitialTarget   \* INITIAL_TARGET

ASSUME EpochAssumption ==
    /\ Time \in [Block -> Nat]
    /\ SeedFrom \in [Block -> Block \cup {Zero}]
    /\ Digest \in [Block -> Nat]
    /\ EpochBlocks \in Nat \ {0}
    /\ InitialTarget \in MinTarget..MaxTarget

VARIABLES
    work,           \* cumulative work, by recorded block
    tip,            \* the tip of the store and of the node
    knownBlocks,    \* Node.known_blocks
    epochSeed,      \* Node.epoch_seed, as SeedFrom
    epochTargets,   \* Node.epoch_targets: epoch e has the entry e + 1
    alive,          \* FALSE once a panic has poisoned the node's mutex
    restarted       \* history: the process has been started again

vars == <<work, tip, knownBlocks, epochSeed, epochTargets, alive, restarted>>

blocks == DOMAIN work

-----------------------------------------------------------------------------
\* The best chain by height (Node.chain), and whether it has a height.
OnChain(t, h) == {b \in Path[t] : Height[b] = h}
TimeAt(t, h) == Time[CHOOSE b \in OnChain(t, h) : TRUE]

\* target_for: INITIAL_TARGET for an epoch that has no entry yet.
TargetFor(h) ==
    LET e == h \div EpochBlocks
    IN  IF e < Len(epochTargets) THEN epochTargets[e + 1] ELSE InitialTarget

\* check_pow, with the hash of the memory-hard walk as a constant of the block.
CheckPow(b, target) == MeetsTarget(Digest[b], target)

\* Mutant of SeedOK: the seed is the parent's at a boundary too.
SeedOKInherited(b) == SeedFrom[b] = SeedFrom[Parent[b]]

\* The epoch_seed rule of validate_block_header, for a block with a parent.
SeedOK(b) ==
    SeedFrom[b] = IF Height[b] % EpochBlocks = 0 THEN Parent[b] ELSE SeedFrom[Parent[b]]

\* validate_block_header; a block of height 0 is not looked at.
HeaderValid(b) ==
    /\ HeaderOK(blocks, b)
    /\ Height[b] # 0 => SeedOK(b) /\ Time[b] > Time[Parent[b]]

\* Mutant of NextTarget: the timespan ends with the boundary block itself.
NextTargetOneMore(t, h) ==
    LET first == OnChain(t, h - EpochBlocks)
        last == OnChain(t, h)
    IN  IF first = {} \/ last = {} THEN InitialTarget
        ELSE AdjustTarget(epochTargets[h \div EpochBlocks], TimeAt(t, h) - TimeAt(t, h - EpochBlocks))

\* What a boundary block at height h appends to epoch_targets when the best
\* chain ends in t, computed from the entry of the previous epoch.
NextTarget(t, h) ==
    LET first == OnChain(t, h - EpochBlocks)
        last == OnChain(t, h - 1)
    IN  IF first = {} \/ last = {} THEN InitialTarget
        ELSE AdjustTarget(epochTargets[h \div EpochBlocks], TimeAt(t, h - 1) - TimeAt(t, h - EpochBlocks))

\* Mutant of IndexOK: the entry of the epoch that starts is needed.
IndexNextEpoch(t, h) == h \div EpochBlocks < Len(epochTargets)

\* The index epoch_targets[prev_epoch] is there, or is not needed.
IndexOK(t, h) ==
    \/ h \div EpochBlocks <= Len(epochTargets)
    \/ OnChain(t, h - EpochBlocks) = {} \/ OnChain(t, h - 1) = {}

Init ==
    /\ work = [b \in {} |-> 0]
    /\ tip = Zero
    /\ knownBlocks = {}
    /\ epochSeed = Zero
    /\ epochTargets = <<InitialTarget>>
    /\ alive = TRUE
    /\ restarted = FALSE

\* accept_block up to the retargeting: checks, record, reorganise.
Record(b) ==
    /\ alive
    /\ b \notin knownBlocks
    /\ Parent[b] \in blocks \cup {Zero}
    /\ CheckPow(b, TargetFor(Height[b]))
    /\ HeaderValid(b)
    /\ LET below == IF Parent[b] \in blocks THEN work[Parent[b]] ELSE 0
           total == below + BlockWork256(TargetFor(Height[b]))
       IN  work' = [a \in blocks \cup {b} |-> IF a = b THEN total ELSE work[a]]
    /\ \E best \in DOMAIN work' : IsBest(work', best) /\ tip' = best
    /\ knownBlocks' = knownBlocks \cup {b}

\* The part of accept_block that only a boundary block reaches.
Retarget(h) ==
    /\ h = 0 \/ IndexOK(tip', h)
    /\ epochTargets' = IF h = 0 THEN epochTargets
                       ELSE Append(epochTargets, NextTarget(tip', h))

Reseed(h) ==
    epochSeed' = IF h = 0 THEN Zero
                 ELSE IF OnChain(tip', h) = {} THEN epochSeed
                 ELSE CHOOSE b \in OnChain(tip', h) : TRUE

\* A block inside an epoch.
AcceptBlock(b) ==
    /\ Height[b] % EpochBlocks # 0
    /\ Record(b)
    /\ UNCHANGED <<epochSeed, epochTargets, alive, restarted>>

\* A block at an epoch boundary.
AcceptBoundary(b) ==
    /\ Height[b] % EpochBlocks = 0
    /\ Record(b)
    /\ Reseed(Height[b])
    /\ Retarget(Height[b])
    /\ UNCHANGED <<alive, restarted>>

\* epoch_targets has no entry for the previous epoch: the index panics with
\* the node's mutex held, after the store has taken the block.
AcceptPanics(b) ==
    /\ Height[b] % EpochBlocks = 0
    /\ Record(b)
    /\ ~(Height[b] = 0 \/ IndexOK(tip', Height[b]))
    /\ Reseed(Height[b])
    /\ alive' = FALSE
    /\ UNCHANGED <<epochTargets, restarted>>

\* The process is stopped between two blocks and started again: the store is
\* taken to come back whole (FileStore shows when it does not), the rest is
\* what with_config gives it.  Bound: one restart.
Restart ==
    /\ ~restarted
    /\ knownBlocks' = {}
    /\ epochSeed' = Zero
    /\ epochTargets' = <<InitialTarget>>
    /\ alive' = TRUE
    /\ restarted' = TRUE
    /\ UNCHANGED <<work, tip>>

Next ==
    \/ \E b \in Block : AcceptBlock(b) \/ AcceptBoundary(b) \/ AcceptPanics(b)
    \/ Restart

Spec == Init /\ [][Next]_vars

-----------------------------------------------------------------------------
(* Properties.                                                             *)

\* Every block of the active chain carries the seed of its epoch: the hash of
\* the last block of the previous epoch on its own chain, whatever forks and
\* restarts the node has gone through.
SeedOfEpoch ==
    \A b \in Path[tip] :
        LET start == EpochBlocks * (Height[b] \div EpochBlocks)
        IN  start > 0 => SeedFrom[b] \in OnChain(b, start - 1)

\* In no order of blocks and forks does retargeting index an epoch that
\* epoch_targets does not have: only a restart, which forgets the entries,
\* lets the node die of a block.
NodeAlive == ~restarted => alive

\* The time that the epoch before e took, on the chain that ends in t.
EpochSpan(t, e) == TimeAt(t, e * EpochBlocks - 1) - TimeAt(t, (e - 1) * EpochBlocks)

\* The target that the chain that ends in t gives an epoch: the one before,
\* times the span of its timestamps (within a factor of four of the ideal one)
\* over the ideal span, within the limits.
ChainTarget(t, epoch) ==
    LET target[e \in 0..epoch] ==
            IF e = 0 THEN InitialTarget
            ELSE LET limited == Clamp(EpochSpan(t, e), Timespan \div 4, Timespan * 4)
                 IN  Clamp((target[e - 1] * limited) \div Timespan, MinTarget, MaxTarget)
    IN  target[epoch]

\* The node has seen no block off its active chain and has not been restarted.
OneChain == ~restarted /\ blocks = Path[tip]

\* On one chain the node judges blocks by the targets that follow from the
\* timestamps of that chain, so that two such nodes agree which are valid.
TargetsFollowChain ==
    OneChain /\ tip # Zero =>
        \A e \in 0..(Height[tip] \div EpochBlocks) :
            e < Len(epochTargets) /\ epochTargets[e + 1] = ChainTarget(tip, e)

\* What a block of the chain that ends in t counts: 2^256 over the target of its
\* epoch, but over the initial target for the first block of an epoch, which
\* is what sets the target of the epoch.
ChainWorkOf(t, b) ==
    (MaxTarget + 1) \div
        (IF Height[b] % EpochBlocks = 0 THEN InitialTarget
         ELSE ChainTarget(t, Height[b] \div EpochBlocks))

\* On one chain the cumulative work of the tip is the sum of what its blocks
\* count by the timestamps of the chain.
WorkFollowsTimestamps ==
    OneChain /\ tip # Zero =>
        work[tip] = SumFunctionOnSet([b \in Path[tip] |-> ChainWorkOf(tip, b)], Path[tip])

\* make_template: the height and the epoch seed of the next block.
NextHeight == IF tip = Zero THEN 0 ELSE Height[tip] + 1
TemplateSeed ==
    IF NextHeight % EpochBlocks # 0 THEN epochSeed
    ELSE IF NextHeight = 0 THEN Zero ELSE tip

\* The template carries the seed that the header check will ask of the block
\* mined from it, so the node can always extend its own chain.
TemplateSeedIsRight ==
    tip # Zero =>
        TemplateSeed = IF NextHeight % EpochBlocks = 0 THEN tip ELSE SeedFrom[tip]

\* On one chain no epoch is more than four times as hard, or as easy, as the
\* one before, however its timestamps are.
SwingIsLimited ==
    OneChain => \A e \in 1..(Len(epochTargets) - 1) :
        LET old == epochTargets[e] new == epochTargets[e + 1]
        IN  new = InitialTarget \/ (new <= 4 * old /\ old <= 4 * (new + 1))
=============================================================================
