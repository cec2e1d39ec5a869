---------------------------- MODULE MCScheduler ----------------------------
(* Small instances of Scheduler: slot 0 is the receiver, 1 a thread that   *)
(* only yields (the compositor) or the shell, 2 the user thread.           *)
EXTENDS Scheduler

MCIpcThreads == {0}
MCUserThreads == {2}
=============================================================================
