-------------------------- MODULE ChainRefinement --------------------------
(***************************************************************************)
(* ChainState implements HeaviestChain: the steps of a reorganisation are  *)
(* invisible, the state is what it was before until the tip moves.         *)
(***************************************************************************)
EXTENDS ChainState

Promise == INSTANCE HeaviestChain WITH
    known <- blocks,
    state <- IF pc = "idle" THEN ledger ELSE Ledger[tip]

\* Every behaviour of reorganize, with its disconnects and connects, looks
\* from outside like a node that adopts the heaviest known chain at once and
\* holds exactly its unspent outputs; and it always gets to the heaviest one.
AdoptsHeaviest == Promise!FairSpec
=============================================================================
