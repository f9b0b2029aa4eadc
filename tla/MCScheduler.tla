----------------------------- MODULE MCScheduler -----------------------------
(* A small instance of Scheduler, for liveness.                            *)
EXTENDS Scheduler

CONSTANTS kernel, t1, t2

AllThreads == {kernel, t1, t2}
=============================================================================
