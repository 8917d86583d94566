------------------------------- MODULE MCForks -------------------------------
(* A world of valid blocks: two geneses, forks, and a fork of a fork. *)
EXTENDS MCChainState, ChainRefinement

ForkTree ==
    "g" :> "zero" @@ "a1" :> "g" @@ "a2" :> "a1" @@ "a3" :> "a2"
    @@ "b1" :> "g" @@ "b2" :> "b1" @@ "b3" :> "b2" @@ "c2" :> "b1" @@ "c3" :> "c2"
    @@ "h" :> "zero" @@ "h1" :> "h" @@ "h2" :> "h1"
ForkOrder == <<"h2", "c3", "a1", "b3", "g", "a3", "b1", "c2", "h1", "a2", "b2", "h">>
\* a2 and c2 hold the same transaction; b2 spends the same output differently.
ForkSpends ==
    "a2" :> {<<"g", 0>>} @@ "b2" :> {<<"g", 0>>} @@ "c2" :> {<<"g", 0>>}
    @@ "a3" :> {<<"t", 1>>, <<"a1", 0>>} @@ "b3" :> {<<"b2", 1>>}
    @@ "c3" :> {<<"t", 1>>} @@ "h2" :> {<<"h", 0>>}
ForkCreates ==
    "a2" :> {<<"t", 1>>} @@ "c2" :> {<<"t", 1>>} @@ "b2" :> {<<"b2", 1>>}
    @@ "a3" :> {<<"a3", 1>>} @@ "h2" :> {<<"h2", 1>>}

\* The hypotheses of the theorems about ChainState hold in this world.
ASSUME AllBlocksValid /\ FreshCoins
=============================================================================
