-------------------------------- MODULE Powers --------------------------------
(* Powers of two: a shift multiplies by one or divides by it. *)
EXTENDS Naturals

TwoTo[n \in Nat] == IF n = 0 THEN 1 ELSE 2 * TwoTo[n - 1]
=============================================================================
