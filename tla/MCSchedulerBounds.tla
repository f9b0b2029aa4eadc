-------------------------- MODULE MCSchedulerBounds --------------------------
(* A small instance of SchedulerBounds.                                    *)
EXTENDS SchedulerBounds, TLC

CONSTANTS kernel, t1, t2

AllThreads == {kernel, t1, t2}
OnlyWorkers == AllThreads \ {kernel}
WorkerSymmetry == Permutations(OnlyWorkers)
=============================================================================
