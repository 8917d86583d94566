------------------------------- MODULE Blocks -------------------------------
(***************************************************************************)
(* The blocks that a LiTC node can be shown, as a tree, and the rules that *)
(* read only the tree: the header check, the order between two chains and  *)
(* the common ancestor.  A block is an opaque value; what the rules read   *)
(* of it is given by constant functions.                                   *)
(***************************************************************************)
EXTENDS Integers

CONSTANTS
    Block,        \* the blocks that exist anywhere in the network
    Zero,         \* Hash32([0; 32]): parent of a genesis, and "no tip"
    Parent,       \* [Block -> Block \cup {Zero}]: header.prev_block
    Height,       \* [Block -> Nat]: header.height
    HashRank,     \* [Block -> Nat]: the order of the block hashes
    Path          \* [Block \cup {Zero} -> SUBSET Block]: a block and its ancestors

ASSUME TreeAssumption ==
    /\ Zero \notin Block
    /\ Parent \in [Block -> Block \cup {Zero}]
    /\ Height \in [Block -> Nat]
    /\ HashRank \in [Block -> Nat]
    /\ \A a, b \in Block : HashRank[a] = HashRank[b] => a = b

\* A block names its parent by hash, so no block is its own ancestor.
ASSUME PathAssumption ==
    /\ Path \in [Block \cup {Zero} -> SUBSET Block]
    /\ Path[Zero] = {}
    /\ \A b \in Block : /\ Path[b] = Path[Parent[b]] \cup {b}
                        /\ b \notin Path[Parent[b]]

\* No block of height 0 has a parent: the hypothesis, where one is needed, that
\* nobody has mined a block that passes for a genesis on top of another block.
HeightZeroIsGenesis == \A b \in Block : Height[b] = 0 => Parent[b] = Zero

\* Mutant of HeaderOK: the height is not compared with the parent's.
HeaderParentOnly(known, b) == Height[b] = 0 \/ Parent[b] \in known

\* validate_block_header, for the part that reads the parent; a block of
\* height 0 is not asked for its parent.
HeaderOK(known, b) ==
    \/ Height[b] = 0
    \/ /\ Parent[b] \in known
       /\ Height[b] = Height[Parent[b]] + 1

\* best_tip_by_work: more work, then more height, then the smaller hash.
Better(work, a, b) ==
    \/ work[a] > work[b]
    \/ work[a] = work[b] /\ Height[a] > Height[b]
    \/ work[a] = work[b] /\ Height[a] = Height[b] /\ HashRank[a] < HashRank[b]

IsBest(work, b) ==
    /\ b \in DOMAIN work
    /\ \A a \in DOMAIN work \ {b} : Better(work, b, a)

\* common_ancestor: the highest block on both paths, Zero when there is none.
IsCommonAncestor(a, b, c) ==
    LET shared == Path[a] \cap Path[b]
    IN  IF shared = {} THEN c = Zero
        ELSE c \in shared /\ shared \subseteq Path[c]
=============================================================================
