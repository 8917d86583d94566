------------------------------ MODULE Selection ------------------------------
(***************************************************************************)
(* SelectSeq with a set in the place of its test, as a recursive function: *)
(* what a filter over a list of hashes or transactions keeps of it.        *)
(***************************************************************************)
EXTENDS Naturals, Sequences

\* The elements of s that are in S, in their order.
Selected(s, S) ==
    LET Upto[n \in 0..Len(s)] ==
            IF n = 0 THEN <<>>
            ELSE IF s[n] \in S THEN Append(Upto[n - 1], s[n]) ELSE Upto[n - 1]
    IN  Upto[Len(s)]
=============================================================================
