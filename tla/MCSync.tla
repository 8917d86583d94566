------------------------------- MODULE MCSync -------------------------------
(* Small networks for Sync, and what their nodes have when they start. *)
EXTENDS Sync, TLC

CONSTANTS Tree,     \* [Block -> Block \cup {Zero}]: the parents
          Order     \* the blocks by ascending hash

MCZero == "zero"
MCBlock == DOMAIN Tree
MCParent == Tree
MCHeight[b \in MCBlock] == IF Tree[b] = MCZero THEN 0 ELSE MCHeight[Tree[b]] + 1
MCHashRank == [b \in MCBlock |-> CHOOSE i \in DOMAIN Order : Order[i] = b]
MCPath[b \in MCBlock \cup {MCZero}] == IF b = MCZero THEN {} ELSE MCPath[Tree[b]] \cup {b}
MCWork == [b \in MCBlock |-> MCHeight[b] + 1]

C(a, b, i) == [from |-> a, to |-> b, id |-> i]

AB == C("A", "B", 1)
AB2 == C("A", "B", 2)
BB == C("B", "B", 1)
BA == C("B", "A", 3)
AC == C("A", "C", 2)
BC == C("B", "C", 2)
Network == {AB, AB2, BB, BA, AC, BC}
MayFail == {AB, BB}

\* A chain of five blocks, a fork above the genesis, and what A may find.
ForkTree == "g" :> "zero" @@ "b1" :> "g" @@ "b2" :> "b1" @@ "b3" :> "b2" @@ "b4" :> "b3"
    @@ "a1" :> "g" @@ "m2" :> "a1" @@ "m3" :> "b2"
ForkOrder == <<"m3", "b2", "g", "a1", "b4", "m2", "b1", "b3">>
Finder == [b \in MCBlock |-> IF b \in {"m2", "m3"} THEN "A" ELSE "B"]

\* The nodes start with these tips, and with the blocks in extra besides.
Start(dialled, learnt, a, b, c, extra, miners) ==
    [dialled |-> dialled, learnt |-> learnt, mining |-> miners, pool |-> {},
     tip |-> "A" :> a @@ "B" :> b @@ "C" :> c,
     have |-> [n \in {"A", "B", "C"} |->
                   MCPath[IF n = "A" THEN a ELSE IF n = "B" THEN b ELSE c] \cup extra[n]]]
Nothing == [n \in {"A", "B", "C"} |-> {}]
Pair(a, b, miners) == Start({AB}, {}, a, b, MCZero, Nothing, miners)
Pooled(a, b, pool) == [Pair(a, b, {}) EXCEPT !.pool = pool]

Situations == {
    \* A dials B twice; B learns its own address and dials itself; A learns
    \* of C through B
    Start({AB, AB2}, {}, "a1", "b2", MCZero, Nothing, {}),
    Start({AB}, {BB}, MCZero, MCZero, MCZero, Nothing, {}),
    Start({AB2, BC}, {AC}, MCZero, MCZero, MCZero, Nothing, {}),
    \* the nodes dial each other
    Start({AB, BA}, {}, MCZero, "g", MCZero, Nothing, {}),
    \* a new node; the same chain on both sides
    Pair(MCZero, "b2", {}),
    Pair("b2", "b2", {}),
    \* A mines against a longer fork, and against a new node; both mine
    Pair("a1", "b2", {"A"}),
    Pair("b2", MCZero, {"A"}),
    Pair("b1", "b2", {"A", "B"}),
    \* a pool miner finds more blocks than the limit per peer allows, or one
    \* while the other side mines too
    Pooled(MCZero, MCZero, {"B"}),
    [Pooled("b1", "b2", {"A"}) EXCEPT !.mining = {"B"}],
    \* B has A's fork in its store
    Start({AB}, {}, "a1", "b2", MCZero, [Nothing EXCEPT !["B"] = {"a1"}], {}),
    \* more blocks than an answer and the limit per peer allow
    Pair(MCZero, "b4", {}),
    \* two forks meet in a new node between them
    Start({AB, BC}, {}, "a1", MCZero, "b1", Nothing, {})}
=============================================================================
