-------------------------- MODULE MCMutableContext --------------------------
(* MutableContext as TLC runs it.                                           *)
EXTENDS MutableContext, TLC

Symmetry == Permutations(Operations) \cup Permutations(Goroutines)
=============================================================================
