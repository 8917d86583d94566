--------------------------- MODULE HeaviestChain ---------------------------
(***************************************************************************)
(* What chain selection promises, with no reorganisation in sight: blocks  *)
(* become known, parents first, and the node adopts in one step the known  *)
(* block with the most work behind it, together with the unspent outputs   *)
(* that replaying its whole chain gives.                                   *)
(***************************************************************************)
EXTENDS BlockTree

VARIABLES known, tip, state

vars == <<known, tip, state>>

Init == known = {} /\ tip = Zero /\ state = EmptyState

Learn(b) ==
    /\ b \notin known
    /\ Parent[b] \in known \cup {Zero}
    /\ known' = known \cup {b}
    /\ UNCHANGED <<tip, state>>

Adopt(b) ==
    /\ b \in known \ {tip}
    /\ \A a \in known \ {b} : Better(ChainWork, b, a)
    /\ tip' = b
    /\ state' = Ledger[b]
    /\ UNCHANGED known

Next == \E b \in Block : Learn(b) \/ Adopt(b)

Spec == Init /\ [][Next]_vars

FairSpec == Spec /\ WF_vars(\E b \in Block : Adopt(b))
=============================================================================
