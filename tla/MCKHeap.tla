------------------------------ MODULE MCKHeap ------------------------------
(* A small instance of KHeap: a request of two words, which may have to    *)
(* take a block of three whole, and one that no page alone can meet.       *)
EXTENDS KHeap

MCRequests == {7, 28}
=============================================================================
