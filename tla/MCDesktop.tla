----------------------------- MODULE MCDesktop -----------------------------
(* A small screen for Desktop: two windows of three columns and two or     *)
(* three rows, title bars of one row, a letter on the left and a button on *)
(* the right.                                                              *)
EXTENDS Desktop, TLC

MCClient == (Terminal :> [w |-> 1, h |-> 1]) @@ (Monitor :> [w |-> 1, h |-> 0])
MCStart == (Terminal :> [x |-> 0, y |-> 1]) @@ (Monitor :> [x |-> 1, y |-> 2])
MCText == [x |-> 0, y |-> 0, w |-> 1, h |-> 1]
MCButton == [y |-> 0, w |-> 1, h |-> 1]
MCMoves == {-1, 0, 2}
=============================================================================
