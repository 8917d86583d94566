------------------------------ MODULE MCWorlds ------------------------------
(* A world with a checkpoint, with amounts, with blocks that break a rule    *)
(* and with forks that spend the same output.                                *)
EXTENDS MCChainState, BlockValue

\* a1 is pinned: b1 is refused, and with it the longest chain.
\* e2 spends what a2 spends.  e3 takes too much, so the branch of e4 fails in
\* the middle; a3 spends an output of e2, which only the ledger has that the
\* failed branch leaves behind: the state root refuses a3 there.  x1 and x4
\* claim heights that do not follow.  d3 and the blocks c3, s3, t3 and u3 stand
\* on a2.
WorldTree ==
    "g" :> "zero" @@ "a1" :> "g" @@ "a2" :> "a1" @@ "a3" :> "a2" @@ "a4" :> "a3"
    @@ "e2" :> "a1" @@ "e3" :> "e2" @@ "e4" :> "e3" @@ "d3" :> "a2"
    @@ "b1" :> "g" @@ "b2" :> "b1" @@ "b3" :> "b2" @@ "b4" :> "b3" @@ "b5" :> "b4"
    @@ "h" :> "zero" @@ "h1" :> "h" @@ "x1" :> "a1" @@ "x4" :> "a1"
    @@ "c3" :> "a2" @@ "s3" :> "a2" @@ "t3" :> "a2" @@ "u3" :> "a2"
WorldOrder == <<"c3", "a3", "b2", "x1", "e2", "t3", "x4", "b1", "a2", "h", "e3", "u3", "g", "b3",
                "s3", "d3", "h1", "a1", "b5", "b4", "e4", "a4">>
Pinned == {"a1"}
OddHeights == "x1" :> 1 @@ "x4" :> 4

\* The subsidy is 8 up to height 2 and 4 after it.  Outputs are named after
\* their block; 0 is the coinbase's.
O(b, i) == <<b, i>>
Pays(in, out) == [inputs |-> in, outputs |-> out, signed |-> TRUE]
Mints(b) == [inputs |-> <<>>, outputs |-> <<O(b, 0)>>, signed |-> FALSE]

\* Every block mints but d3, which leaves its fee to nobody.  a2 has a fee and
\* takes it; e3 takes one that it does not have.  c3 spends an output twice in
\* two transactions, s3 pays more than it spends, t3 is not signed for, and u3
\* spends two outputs in one transaction and takes the fee.
WorldTxs == Table([b \in MCBlock |->
    CASE b \in {"a2", "e2"} -> <<Mints(b), Pays(<<O("g", 0)>>, <<O(b, 1)>>)>>
      [] b \in {"a3", "e3"} -> <<Mints(b), Pays(<<O("e2", 1)>>, <<O(b, 1)>>)>>
      [] b = "d3" -> <<Pays(<<O("a2", 1)>>, <<O(b, 1)>>)>>
      [] b = "c3" -> <<Mints(b), Pays(<<O("a2", 1)>>, <<O(b, 1)>>), Pays(<<O("a2", 1)>>, <<O(b, 2)>>)>>
      [] b = "s3" -> <<Mints(b), Pays(<<O("a2", 1)>>, <<O(b, 1), O(b, 2)>>)>>
      [] b = "t3" -> <<Mints(b), [Pays(<<O("a2", 1)>>, <<O(b, 1)>>) EXCEPT !.signed = FALSE]>>
      [] b = "u3" -> <<Mints(b), Pays(<<O("a2", 1), O("a1", 0)>>, <<O(b, 1), O(b, 2)>>)>>
      [] OTHER -> <<Mints(b)>>])
WorldCoin == UNION {Range(WorldTxs[b][i].outputs) : <<b, i>> \in {<<c, j>> \in MCBlock \X (1..3) : j \in DOMAIN WorldTxs[c]}}
WorldValue == Table([c \in WorldCoin |->
    CASE c = O("a2", 0) -> 9
      [] c \in {O("e3", 0), O("u3", 0)} -> 5
      [] c[1] \in {"g", "a1", "b1", "b2", "e2", "h", "h1"} \/ c = O("e3", 1) -> 8
      [] c = O("a2", 1) \/ c[2] = 2 -> 7
      [] c[2] = 1 -> 6
      [] OTHER -> 4])
OutputsOf(b, txs) == UNION {Range(WorldTxs[b][i].outputs) : i \in txs}
WorldSpends == Table([b \in MCBlock |-> UNION {Range(WorldTxs[b][i].inputs) : i \in DOMAIN WorldTxs[b]}])
WorldCreates == Table([b \in MCBlock |-> OutputsOf(b, DOMAIN WorldTxs[b])])
WorldCoinbase == Table([b \in MCBlock |-> OutputsOf(b, Coinbases(WorldTxs[b]))])
WorldValueOK == Table([b \in MCBlock |-> BlockValueOK(b)])
ASSUME BlocksAreTheirTxs
ASSUME PlainTxs
ASSUME LighterBelowPins
ASSUME HeightZeroIsGenesis /\ FreshCoins /\ AllCommitted /\ OwnCoinbases /\ ShallowFaults
=============================================================================
