------------------------------- MODULE MCMouse -------------------------------
(* Mouse for TLC, on a screen of two pixels: a game that keeps the pointer  *)
(* to the right one, which function 3 calls 2 and 3 out of 0 to 3.          *)
EXTENDS Mouse

MCRanges == {<<2, 3>>}
=============================================================================
