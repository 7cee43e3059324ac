---------------------------- MODULE MCScheduler ----------------------------
EXTENDS SchedulerInvariant, TLC

JoinOps == {"create", "join", "exit", "return"}
SuspendOps == {"create", "suspend", "resume", "exit"}
CreateOps == {"create"}

\* Threads other than the first are interchangeable.
Symmetry == Permutations(Thread \ {Root})
=============================================================================
