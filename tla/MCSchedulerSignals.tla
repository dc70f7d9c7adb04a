------------------------- MODULE MCSchedulerSignals -------------------------
(* Small instances of the scheduler with signal handlers for TLC.          *)
EXTENDS SchedulerSignals, TLC

CONSTANTS p, t1, t2, fa, fb

(* Threads other than the primordial one are interchangeable.              *)
Spawned == Permutations({t1, t2})

(* Three threads wait for each other and end; two have the descriptors and *)
(* the signals.                                                            *)
OnFds(t)     == call[t].obj.on = "fd" \/ pc[t] \notin {"user", "yield", "woken"}
OnThreads(t) == call[t].obj.on = "thread" \/ st[t] = "terminated"
Focus ==
  IF \A t \in Threads : st[t] # "created"
  THEN /\ signals = 0 /\ fdReady = [f \in Fds |-> {}]
       /\ \A t \in Threads : ~OnFds(t) /\ (call[t].obj.on = "none" => call[t].dl = 0)
  ELSE \A t \in Threads : ~OnThreads(t)
=============================================================================
