------------------------------ MODULE MCEpochs ------------------------------
(* Small trees of blocks for Epochs. *)
EXTENDS Epochs, TLC

CONSTANTS Tree,     \* [Block -> Block \cup {Zero}]: the parents
          Order,    \* the blocks by ascending hash
          Gap,      \* [some blocks -> Nat]: seconds since the parent, else 10
          OwnSeed,  \* [some blocks -> Block]: seeds that are not the epoch's
          Hard      \* [some blocks -> Nat]: digests above 1

None == <<>>
With(f, b, default) == IF b \in DOMAIN f THEN f[b] ELSE default

MCZero == "zero"
MCBlock == DOMAIN Tree
MCParent == Tree
MCHeight[b \in MCBlock] == IF Tree[b] = MCZero THEN 0 ELSE MCHeight[Tree[b]] + 1
MCHashRank == [b \in MCBlock |-> CHOOSE i \in DOMAIN Order : Order[i] = b]
MCPath[b \in MCBlock \cup {MCZero}] == IF b = MCZero THEN {} ELSE MCPath[Tree[b]] \cup {b}
MCTime[b \in MCBlock] == IF Tree[b] = MCZero THEN 100 ELSE MCTime[Tree[b]] + With(Gap, b, 10)
MCSeedFrom[b \in MCBlock] ==
    With(OwnSeed, b, IF Tree[b] = MCZero THEN MCZero
                     ELSE IF MCHeight[b] % EpochBlocks = 0 THEN Tree[b] ELSE MCSeedFrom[Tree[b]])
MCDigest == [b \in MCBlock |-> With(Hard, b, 1)]

\* What the theorems about one chain ask of the tree.
ASSUME HeightZeroIsGenesis

\* Epochs of three blocks, a slow one in the first epoch and a fast one in the
\* second; two branches that reach the first boundary, a boundary block with
\* the seed of the epoch before, and a digest that the second epoch refuses.
WideTree == "g" :> "zero" @@ "a1" :> "g" @@ "a2" :> "a1" @@ "a3" :> "a2" @@ "a4" :> "a3"
    @@ "a5" :> "a4" @@ "a6" :> "a5"
    @@ "b2" :> "a1" @@ "b3" :> "b2" @@ "b4" :> "b3" @@ "x3" :> "a2"
WideOrder == <<"a3", "g", "a1", "x3", "b2", "a6", "a2", "b4", "b3", "a5", "a4">>
WideGap == "a2" :> 90 @@ "b2" :> 1 @@ "a4" :> 2 @@ "a5" :> 2
WideSeed == "x3" :> "zero"
WideHard == "b4" :> 12
=============================================================================
