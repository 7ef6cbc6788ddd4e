---------------------------- MODULE MCMainScreen ----------------------------
(* MainScreen for TLC: no ads, or three of which one has no image.         *)
EXTENDS MainScreen

CONSTANTS a1, a2, a3

MCAdLists == { <<>>, <<a1, a2, a3>> }
=============================================================================
