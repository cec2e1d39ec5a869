------------------------------- MODULE MCIpc -------------------------------
(* A small instance of Ipc: one receiver and two workers that compete for  *)
(* its mailbox of two messages.                                            *)
EXTENDS Ipc

MCSlots == 0 .. 2
MCReceivers == {0}
MCSenders == {1, 2}
=============================================================================
