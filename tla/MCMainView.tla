----------------------------- MODULE MCMainView -----------------------------
(* MainView for TLC: the identities of loads are interchangeable.          *)
EXTENDS MainView, TLC

Symmetry == Permutations(Assets)
=============================================================================
