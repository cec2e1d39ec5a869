------------------------------ MODULE MCScreen ------------------------------
(* Screen with a terminal of two rows of three columns, a command of two   *)
(* letters after a prompt of one cell and a counter of two binary digits.   *)
EXTENDS Screen
=============================================================================
