------------------------ MODULE SchedulerRefinement ------------------------
(***************************************************************************)
(* The scheduler implements ThreadWaits.  A thread's mode is read off its  *)
(* state, except that the current thread is running for as long as it has  *)
(* the processor, also when it has already registered what it will wait    *)
(* for; what it waits for is what slots 4 and 11 say.                      *)
(***************************************************************************)
EXTENDS Scheduler

Mode(t) ==
  IF st[t] \in Dead THEN "ended"
  ELSE IF phase = "run" /\ t = ct THEN "running"
  ELSE IF st[t] = "created" THEN "new"
  ELSE IF st[t] \in {"ready", "running"} THEN "runnable"
  ELSE IF st[t] \in Asleep THEN "waiting"
  ELSE "gone"

Waits == INSTANCE ThreadWaits WITH
  mode <- [t \in Threads |-> Mode(t)],
  cond <- [t \in Threads |-> IF Mode(t) = "waiting"
                             THEN [dl |-> tmo[t], obj |-> blk[t]]
                             ELSE [dl |-> 0, obj |-> NoBlock]]

(* A blocked thread is woken only for a reason it waits for, except the    *)
(* primordial one, and whoever waits for a thread or its mutexes is woken  *)
(* when it ends.                                                           *)
ImplementsThreadWaits == Waits!Spec
=============================================================================
