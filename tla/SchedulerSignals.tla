-------------------------- MODULE SchedulerSignals --------------------------
(***************************************************************************)
(* The scheduler when signal handlers run in the middle of it.             *)
(*                                                                         *)
(* A signal makes the next stack check fail (C_raise_interrupt sets        *)
(* C_stack_limit), so its Scheme handler runs at the entry of whatever     *)
(* procedure comes next, compiled with disable-interrupts or not: inside   *)
(* ##sys#schedule once nanosleep or poll has returned, or between two of   *)
(* the calls an i/o wait consists of.  It runs in the current thread and,  *)
(* when it returns, what was interrupted goes on.  A handler is ordinary   *)
(* code: it may change parameters, be preempted by the timer, or wait.     *)
(* "polled" and "eintr" are the two phases in which it may find the        *)
(* scheduler, and the continuations it may leave in slot 1.                *)
(***************************************************************************)
EXTENDS Scheduler

VARIABLES
  handled,  \* how many of the signals have had their handler run
  changes,  \* history: changes handlers made to each thread's environment
  nested    \* history: has a handler waited in the middle of another wait?

sigVars == <<vars, handled, changes, nested>>

SigInit == Init /\ handled = 0 /\ changes = [t \in Threads |-> 0] /\ nested = FALSE

InScheduler == phase \in {"eintr", "polled"} /\ handled < signals

(* The handler changes a parameter and returns; "changes" leaves out what  *)
(* a handler does once poll has failed (the switch puts the old ones back).*)
HandlerReturns ==
  /\ "handler" \in Ops
  /\ \/ /\ InScheduler
        /\ handled' = handled + 1
        /\ UNCHANGED signals
     \/ /\ Running("user") /\ signals < MaxSignals
        /\ handled' = handled + 1
        /\ signals' = signals + 1
  /\ globals' = [globals EXCEPT !.gen = @ + 1]
  /\ changes' = [changes EXCEPT ![ct] = IF phase = "polled" THEN @ ELSE @ + 1]
  /\ UNCHANGED <<slots, conts, mutexes, queues, ct, prim, phase, forked,
                 now, fdReady, nested>>

(* A handler inside ##sys#schedule runs for longer than a quantum: the     *)
(* timer interrupt calls ##sys#schedule again, with the rest of the        *)
(* handler and of the interrupted scheduler as ct's continuation.          *)
HandlerPreempted ==
  /\ "slow" \in Ops /\ InScheduler
  /\ handled' = handled + 1
  /\ pc' = [pc EXCEPT ![ct] = phase]
  /\ EnterSchedule
  /\ UNCHANGED <<changes, nested>>

(* The handler ends and the interrupted ##sys#schedule goes on.            *)
ResumeSchedule ==
  /\ Running("eintr") \/ Running("polled")
  /\ phase' = pc[ct]
  /\ UNCHANGED <<slots, conts, mutexes, queues, ct, prim, globals, forked, world,
                 handled, changes, nested>>

InCall == (Running("io") \/ Running("yield")) /\ st[ct] \notin Dead

(* The handler gives up the processor in the middle of a blocking call.    *)
HandlerYields ==
  /\ "yield" \in Ops /\ signals < MaxSignals
  /\ InCall
  /\ buf' = [buf EXCEPT ![ct] = globals]
  /\ \/ /\ st[ct] = "running"
        /\ byTmo' = [byTmo EXCEPT ![ct] = FALSE]
        /\ st' = [st EXCEPT ![ct] = "ready"]
        /\ AddToReadyQueue(ct)
     \/ st[ct] # "running" /\ UNCHANGED <<byTmo, st, readyQueue>>
  /\ phase' = "scan"
  /\ signals' = signals + 1 /\ handled' = handled + 1
  /\ UNCHANGED <<tmo, blk, recip, owned, conts, mutexes, timeoutList, fdList, ct, prim,
                 globals, forked, now, fdReady, changes, nested>>

(* The handler waits for a descriptor in the middle of a blocking call.    *)
HandlerWaits(f, d) ==
  /\ "wait" \in Ops /\ signals < MaxSignals
  /\ InCall
  /\ BlockForIO(ct, f, d)
  /\ buf' = [buf EXCEPT ![ct] = globals]
  /\ phase' = "scan"
  /\ signals' = signals + 1 /\ handled' = handled + 1 /\ nested' = TRUE
  /\ UNCHANGED <<tmo, recip, owned, conts, mutexes, readyQueue, timeoutList, ct, prim,
                 globals, forked, now, fdReady, changes>>

(* loop2 of ##sys#unblock-threads-for-i/o meets a thread that is listed    *)
(* under one descriptor and blocked on another.                            *)
PanicUnknownFd ==
  /\ phase = "poll" /\ \E f \in Fds : UnknownFd(f)
  /\ phase' = "unknown fd"
  /\ UNCHANGED <<slots, conts, mutexes, queues, ct, prim, globals, forked, world,
                 handled, changes, nested>>

SigNext ==
  \/ Next /\ UNCHANGED <<handled, changes, nested>>
  \/ HandlerReturns \/ HandlerPreempted \/ ResumeSchedule \/ HandlerYields
  \/ PanicUnknownFd
  \/ \E f \in Fds, d \in Dirs : HandlerWaits(f, d)

SigSpec == SigInit /\ [][SigNext]_sigVars

-----------------------------------------------------------------------------
(* A running thread sees every change a signal handler made to its         *)
(* parameters, in ordinary code or while the scheduler slept.              *)
HandlerChangesKept == phase = "run" => globals.gen >= changes[ct]

(* Handlers that are preempted inside the scheduler, or yield inside a     *)
(* call, leave the ready queue and the lists of waiting threads as they    *)
(* should be.                                                              *)
SigQueuesIntact == ~nested => ReadyIsQueuedOnce /\ NoLostWakeup

(* Nothing wakes a thread that has ended: not a join, a deadline or a      *)
(* descriptor it waited for, nor a handler that had interrupted it.  After *)
(* a handler has waited in the middle of a wait the fd-list may have it    *)
(* twice, and the scheduler does wake it ("this is incorrect but will be   *)
(* ignored, just let it run").                                             *)
DeadAreNotWoken ==
  [][~nested => \A t \in Threads : st[t] \in Dead => st'[t] \in {st[t], "suspended"}]_sigVars
=============================================================================
