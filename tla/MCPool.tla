------------------------------- MODULE MCPool -------------------------------
(* A small pool: a genesis and two blocks that compete above it. *)
EXTENDS Pool, TLC

MCParent == "g" :> "zero" @@ "a1" :> "g" @@ "b1" :> "g"
MCBlock == DOMAIN MCParent
MCZero == "zero"
MCHeight == "g" :> 0 @@ "a1" :> 1 @@ "b1" :> 1
MCHashRank == "g" :> 3 @@ "a1" :> 2 @@ "b1" :> 1
MCPath == "zero" :> {} @@ "g" :> {"g"} @@ "a1" :> {"g", "a1"} @@ "b1" :> {"g", "b1"}
=============================================================================
