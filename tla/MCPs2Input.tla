----------------------------- MODULE MCPs2Input -----------------------------
(* A small instance of Ps2Input: one letter, both shift keys, and a        *)
(* movement whose first byte is also the scancode of another letter.       *)
EXTENDS Ps2Input

MCLow == [sc \in 0 .. 127 |-> CASE sc = 30 -> 97 [] sc = 25 -> 112 [] OTHER -> 0]
MCHigh == [sc \in 0 .. 127 |-> CASE sc = 30 -> 65 [] sc = 25 -> 80 [] OTHER -> 0]

\* Two to the left and one up, with the button.
MCPackets == {<<25, 254, 1>>}
=============================================================================
