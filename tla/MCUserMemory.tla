--------------------------- MODULE MCUserMemory ---------------------------
(* A small instance of UserMemory: tables of two pages, four frames left   *)
(* below the end of the identity map, and page numbers of the program that *)
(* are also frame numbers beyond it, as in the kernel.                     *)
EXTENDS UserMemory

\* Below the start, its bytes, one that cuts a page, the limit, one beyond it.
MCBreaks == {15, 16, 19, 28, 29}
\* The last address before the start, the start, both sides of the cut, the end.
MCTouched == {15, 16, 18, 19, 21, 27}
=============================================================================
