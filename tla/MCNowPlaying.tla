---------------------------- MODULE MCNowPlaying ----------------------------
(* NowPlaying for TLC: songs are interchangeable.                          *)
EXTENDS NowPlaying, TLC

Symmetry == Permutations(Songs)
=============================================================================
