------------------------------- MODULE Totals -------------------------------
(***************************************************************************)
(* The sum of a sequence of numbers, as a recursive function: proofs can   *)
(* unfold it, which they cannot do with the folds over sets.               *)
(***************************************************************************)
EXTENDS Naturals, Sequences

Total(s) ==
  LET upTo[n \in 0..Len(s)] == IF n = 0 THEN 0 ELSE upTo[n - 1] + s[n]
  IN  upTo[Len(s)]
=============================================================================
