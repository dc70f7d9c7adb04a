---------------------------- MODULE MCScheduler ----------------------------
(* Small instances of the scheduler for TLC.                               *)
EXTENDS SchedulerRefinement, TLC

CONSTANTS p, t1, fa, fb, m1

(* A thread is terminated in the middle of a wait before there are signals *)
(* and forks.                                                              *)
Focus ==
  \A t \in Threads : st[t] = "terminated" /\ call[t] # NoCall =>
    signals = 0 /\ ~forked
=============================================================================
