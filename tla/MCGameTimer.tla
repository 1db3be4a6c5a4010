---------------------------- MODULE MCGameTimer ----------------------------
(* An instance of GameTimer for TLC: lengths around each other, zero and a *)
(* negative one.                                                           *)
EXTENDS GameTimer

MCSeconds == {-2, 0, 1, 2, 4}
=============================================================================
