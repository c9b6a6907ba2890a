------------------------------- MODULE MCValuation -------------------------------
(* Symmetry for model checking Valuation. *)
EXTENDS Valuation, TLC

Symmetry == Permutations(Handlers) \cup Permutations(CreateKeys)
=============================================================================
