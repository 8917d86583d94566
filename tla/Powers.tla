-------------------------------- MODULE Powers -------------------------------
(***************************************************************************)
(* Powers of two: the width of an integer, and a shift.                    *)
(***************************************************************************)
EXTENDS Naturals

TwoTo[n \in Nat] == IF n = 0 THEN 1 ELSE 2 * TwoTo[n - 1]
=============================================================================
