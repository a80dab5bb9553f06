--------------------------- MODULE MCCreditLedger ---------------------------
(***************************************************************************)
(* CreditLedger for TLC: two grants that may expire at different instants, *)
(* two holds, two settlement events and a price under which no cost is a   *)
(* whole number of priced units, so that rounding shows.                   *)
(***************************************************************************)
EXTENDS CreditLedger, TLC

Symmetry == Permutations(Sources) \cup Permutations(Keys)
              \cup Permutations(Events) \cup Permutations(ReversalKeys)
=============================================================================
