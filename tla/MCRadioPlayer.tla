--------------------------- MODULE MCRadioPlayer ---------------------------
(* RadioPlayer for TLC: the identities of loads and addresses are          *)
(* interchangeable.                                                        *)
EXTENDS RadioPlayer, TLC

Symmetry == Permutations(Assets) \cup Permutations(URLs)
=============================================================================
