----------------------- MODULE SchedulerSignalProofs -----------------------
(***************************************************************************)
(* Theorems about module SchedulerSignals, for any threads, descriptors,   *)
(* mutexes, operations and bounds: what a signal handler changes in the    *)
(* dynamic environment of the thread it interrupts is not lost, wherever   *)
(* in ##sys#schedule or in a blocking call it runs, and whatever it does;  *)
(* and until a handler waits in the middle of another wait, the ready      *)
(* queue and the lists of waiting threads are as they should be.           *)
(***************************************************************************)
EXTENDS SchedulerSignals, SchedulerProofs

(* The types of the scheduler with handlers, and the count of what         *)
(* handlers have changed.                                                  *)
SigTypes ==
  /\ Typed
  /\ changes \in [Threads -> Nat]

(* The current thread's state buffer holds what is in force, as            *)
(* ##sys#schedule saved it, and no handler has run since that could have   *)
(* changed it (or one has, after a poll that failed, and does not count).  *)
Saved ==
  \/ phase \notin {"run", "eintr"}
  \/ phase = "run" /\ pc[ct] = "polled"

(* No change is lost: it is in the environment in force or in the buffer   *)
(* of a thread that does not have the processor.                           *)
ChangesAreSaved ==
  /\ globals.gen >= changes[ct]
  /\ \A t \in Threads : t # ct \/ Saved => buf[t].gen >= changes[t]

(* What holds whatever handlers do; and, as long as none has waited inside *)
(* of a wait, the lists.                                                   *)
SigInv ==
  /\ SigTypes
  /\ IOCallsHaveFd
  /\ ChangesAreSaved
  /\ ~nested => ListsInv

(* What a handler does, other than wait; and all of it.                    *)
HandlerStays ==
  \/ HandlerReturns \/ HandlerPreempted \/ ResumeSchedule \/ HandlerYields \/ PanicUnknownFd

HandlerStep == HandlerStays \/ \E f \in Fds, d \in Dirs : HandlerWaits(f, d)

-----------------------------------------------------------------------------
(* A step of the handler keeps the types.                                  *)
LEMMA HandlerTypes ==
  ASSUME SigTypes, HandlerStep
  PROVE  SigTypes'
<1> USE DEF slots, conts, mutexes, queues, control, world
<1>0. /\ {"eintr", "polled"} \subseteq Points
      /\ {"run", "scan", "eintr", "polled", "unknown fd"} \subseteq Phases
  BY DEF Points, SignalPoints, Phases
<1>1. Typed /\ ct \in Threads /\ changes \in [Threads -> Nat]
  BY DEF SigTypes, Typed
<1>t. /\ globals \in [of : Threads, gen : Nat] /\ readyQueue \in Seq(Threads)
      /\ signals \in 0 .. MaxSignals /\ st \in [Threads -> State]
      /\ byTmo \in [Threads -> BOOLEAN]
  BY DEF SigTypes, Typed, Env
<1>s. signals < MaxSignals => signals + 1 \in 0 .. MaxSignals
  BY <1>t, BoundsAssumption
<1>2. CASE HandlerReturns
  <2>1. globals' \in Env
    <3>1. globals' = [globals EXCEPT !.gen = @ + 1]
      BY <1>2 DEF HandlerReturns
    <3> QED
      BY <1>t, <3>1 DEF Env
  <2>2. signals' \in 0 .. MaxSignals
    BY <1>t, <1>s, <1>2 DEF HandlerReturns
  <2>3. changes' \in [Threads -> Nat]
    BY <1>1, <1>2 DEF HandlerReturns
  <2>4. Typed'
    BY <1>1, <1>2, <2>1, <2>2 DEF HandlerReturns, Typed
  <2> QED
    BY <2>3, <2>4 DEF SigTypes
<1>3. CASE HandlerPreempted
  <2>1. pc' \in [Threads -> Points] /\ UNCHANGED changes
    BY <1>0, <1>1, <1>3 DEF HandlerPreempted, InScheduler, Typed
  <2> QED
    BY <1>0, <1>1, <1>3, <2>1, EnterScheduleType DEF HandlerPreempted, SigTypes
<1>4. CASE ResumeSchedule
  <2>1. phase' \in Phases
    BY <1>0, <1>4 DEF ResumeSchedule, Running
  <2> QED
    BY <1>1, <1>4, <2>1 DEF ResumeSchedule, Typed, SigTypes
<1>5. CASE HandlerYields
  <2>1. buf' \in [Threads -> Env]
    BY <1>1, <1>5 DEF HandlerYields, Typed
  <2>2. st' \in [Threads -> State] /\ byTmo' \in [Threads -> BOOLEAN]
    <3>1. \/ UNCHANGED <<st, byTmo>>
          \/ st' = [st EXCEPT ![ct] = "ready"] /\ byTmo' = [byTmo EXCEPT ![ct] = FALSE]
      BY <1>5 DEF HandlerYields
    <3> QED
      BY <1>1, <1>t, <3>1, States
  <2>3. readyQueue' \in Seq(Threads)
    <3>1. readyQueue' = readyQueue \/ readyQueue' = Append(readyQueue, ct)
      BY <1>5 DEF HandlerYields, AddToReadyQueue
    <3>2. readyQueue \in Seq(Threads) /\ ct \in Threads
      BY <1>1, <1>t
    <3> QED
      BY <3>1, <3>2, AppendProperties
  <2>4. signals' \in 0 .. MaxSignals /\ phase' \in Phases
    BY <1>0, <1>s, <1>5 DEF HandlerYields
  <2> QED
    BY <1>1, <1>5, <2>1, <2>2, <2>3, <2>4 DEF HandlerYields, Typed, SigTypes
<1>6. CASE PanicUnknownFd
  BY <1>0, <1>1, <1>6 DEF PanicUnknownFd, Typed, SigTypes
<1>7. ASSUME NEW f \in Fds, NEW d \in Dirs, HandlerWaits(f, d)
      PROVE  SigTypes'
  <2>1. buf' \in [Threads -> Env]
    BY <1>1, <1>7 DEF HandlerWaits, Typed
  <2>2. /\ st' \in [Threads -> State] /\ byTmo' \in [Threads -> BOOLEAN]
        /\ blk' \in [Threads -> BlockObject]
    BY <1>1, <1>7, States, ObjectTypes DEF HandlerWaits, BlockForIO, Typed
  <2>3. fdList' \in [Fds -> SUBSET Threads]
    BY <1>1, <1>7 DEF HandlerWaits, BlockForIO, Typed
  <2>4. signals' \in 0 .. MaxSignals /\ phase' \in Phases
    BY <1>0, <1>s, <1>7 DEF HandlerWaits
  <2> QED
    BY <1>1, <1>7, <2>1, <2>2, <2>3, <2>4 DEF HandlerWaits, Typed, SigTypes
<1> QED
  BY <1>2, <1>3, <1>4, <1>5, <1>6, <1>7 DEF HandlerStep, HandlerStays

(* A step of the handler leaves the descriptor of an i/o wait alone.       *)
LEMMA HandlerIOCalls ==
  ASSUME SigTypes, IOCallsHaveFd, HandlerStep
  PROVE  IOCallsHaveFd'
<1> USE DEF slots, conts, mutexes, queues, control, world
<1>1. ct \in Threads /\ pc \in [Threads -> Points]
  BY DEF SigTypes, Typed
<1>2. UNCHANGED call
  BY DEF HandlerReturns, HandlerPreempted, EnterSchedule, ResumeSchedule, HandlerYields,
         PanicUnknownFd, HandlerWaits, HandlerStep, HandlerStays
<1>3. \/ UNCHANGED pc
      \/ phase \in {"eintr", "polled"} /\ pc' = [pc EXCEPT ![ct] = phase]
  BY DEF HandlerReturns, HandlerPreempted, InScheduler, ResumeSchedule, HandlerYields,
         PanicUnknownFd, HandlerWaits, HandlerStep, HandlerStays
<1> QED
  BY <1>1, <1>2, <1>3 DEF IOCallsHaveFd

(* The environments are safe as long as nobody touches them and the buffer *)
(* of the current thread does not come to count.                           *)
LEMMA EnvironmentsUntouched ==
  ASSUME ChangesAreSaved, UNCHANGED <<buf, globals, ct, changes>>, Saved' => Saved
  PROVE  ChangesAreSaved'
BY DEF ChangesAreSaved, Saved

(* They are safe when the current one is saved.                            *)
LEMMA EnvironmentSaved ==
  ASSUME SigTypes, ChangesAreSaved, buf' = [buf EXCEPT ![ct] = globals],
         UNCHANGED <<globals, ct, changes>>
  PROVE  ChangesAreSaved'
BY DEF SigTypes, Typed, ChangesAreSaved, Saved

(* No step of the scheduler or of a thread loses a change.                 *)
LEMMA NextKeepsChanges ==
  ASSUME SigTypes, ChangesAreSaved, [Next]_vars, UNCHANGED changes
  PROVE  ChangesAreSaved'
<1> USE DEF slots, conts, mutexes, queues, control, world
<1>0. ct \in Threads /\ prim \in Threads /\ pc \in [Threads -> Points]
  BY DEF SigTypes, Typed
<1>1. CASE Yield \/ TimerInterrupt \/ EIntr
  BY <1>1, EnvironmentSaved DEF Yield, TimerInterrupt, EIntr, EnterSchedule
<1>2. CASE Switch
  <2>1. /\ ct' = Head(readyQueue) /\ globals' = buf[Head(readyQueue)]
        /\ phase = "fetch" /\ UNCHANGED buf
    BY <1>2 DEF Switch
  <2>2. Head(readyQueue) \in Threads
    BY <1>2, HeadTailProperties DEF Switch, SigTypes, Typed
  <2>3. \A t \in Threads : buf[t].gen >= changes[t]
    BY <2>1 DEF ChangesAreSaved, Saved
  <2> QED
    BY <2>1, <2>2, <2>3 DEF ChangesAreSaved
<1>3. CASE \/ ScanTimeouts \/ SleepOver \/ SleepInterrupted \/ UnblockThreadsForIO
           \/ PollInterrupted \/ PollFailed \/ NoFds \/ DropUnready \/ NobodyReady
  <2>1. UNCHANGED <<buf, globals, ct>> /\ phase \notin {"run", "eintr"}
    BY <1>3 DEF ScanTimeouts, SleepOver, SleepInterrupted, UnblockThreadsForIO,
                PollInterrupted, PollFailed, NoFds, DropUnready, NobodyReady
  <2> QED
    BY <2>1, EnvironmentsUntouched DEF Saved
<1>4. CASE WorldStep \/ UNCHANGED vars
  <2>1. UNCHANGED <<buf, globals, ct, phase, pc>>
    BY <1>4 DEF WorldStep, Tick, FdBecomesReady, vars
  <2> QED
    BY <2>1, EnvironmentsUntouched DEF Saved
<1>5. CASE ThreadStep
  <2>1. UNCHANGED <<buf, globals, ct, phase>> /\ phase = "run"
    BY <1>5 DEF ThreadStep, Sleep, StartIO, WaitForIO, ContinueIO, Join, Lock, Start, Terminate,
                End, AbortPrimordial, FinishAbort, Raise, Return, Retry, KillOtherThreads, Running
  <2>2. pc'[ct] # "polled"
    <3>1. CASE \E f \in Fds, d \in Dirs, dl \in {0} \union Deadlines : StartIO(f, d, dl)
      BY <1>0, <3>1 DEF StartIO, WaitForIO
    <3>2. CASE Retry
      BY <1>0, <3>2 DEF Retry, WaitForIO
    <3>3. CASE AbortPrimordial
      BY <1>0, <3>3 DEF AbortPrimordial
    <3>4. CASE \E m \in Mutexes : Lock(m)
      BY <1>0, <3>4 DEF Lock, Running
    <3>5. CASE KillOtherThreads \/ \E t \in Threads : Start(t) \/ Terminate(t)
      BY <1>0, <3>5 DEF KillOtherThreads, Start, Terminate, Running
    <3>6. CASE \/ \E tm \in {0} \union Deadlines : Sleep(tm)
               \/ ContinueIO
               \/ \E t \in Threads, dl \in {0} \union Deadlines : Join(t, dl)
               \/ \E s \in Dead : End(s)
               \/ FinishAbort \/ Raise \/ Return
      BY <1>0, <3>6 DEF Sleep, ContinueIO, Join, End, FinishAbort, Raise, Return
    <3> QED
      BY <1>5, <3>1, <3>2, <3>3, <3>4, <3>5, <3>6 DEF ThreadStep
  <2> QED
    BY <2>1, <2>2, EnvironmentsUntouched DEF Saved
<1> QED
  BY <1>1, <1>2, <1>3, <1>4, <1>5 DEF Next, ScheduleStep

(* No step of a handler loses a change.                                    *)
LEMMA HandlerKeepsChanges ==
  ASSUME SigTypes, ChangesAreSaved, HandlerStep
  PROVE  ChangesAreSaved'
<1> USE DEF slots, conts, mutexes, queues, control, world
<1>0. ct \in Threads /\ pc \in [Threads -> Points]
  BY DEF SigTypes, Typed
<1>1. CASE HandlerReturns
  <2>1. /\ globals'.gen = globals.gen + 1 /\ globals.gen \in Nat
        /\ changes \in [Threads -> Nat]
        /\ changes' = [changes EXCEPT ![ct] = IF phase = "polled" THEN @ ELSE @ + 1]
        /\ UNCHANGED <<buf, ct, phase, pc>>
        /\ phase \in {"eintr", "polled"} \/ (phase = "run" /\ pc[ct] = "user")
    <3>1. globals \in [of : Threads, gen : Nat] /\ globals' = [globals EXCEPT !.gen = @ + 1]
      BY <1>1 DEF HandlerReturns, SigTypes, Typed, Env
    <3> QED
      BY <1>1, <3>1 DEF HandlerReturns, InScheduler, Running, SigTypes
  <2>2. globals'.gen >= changes'[ct]
    BY <1>0, <2>1 DEF ChangesAreSaved
  <2>3. ASSUME NEW t \in Threads, t # ct' \/ Saved' PROVE buf'[t].gen >= changes'[t]
    <3>1. CASE phase = "polled"
      BY <1>0, <2>1, <3>1 DEF ChangesAreSaved, Saved
    <3>2. CASE phase # "polled"
      BY <1>0, <2>1, <2>3, <3>2 DEF ChangesAreSaved, Saved
    <3> QED
      BY <3>1, <3>2
  <2> QED
    BY <2>1, <2>2, <2>3 DEF ChangesAreSaved
<1>2. CASE HandlerPreempted \/ HandlerYields \/ \E f \in Fds, d \in Dirs : HandlerWaits(f, d)
  BY <1>2, EnvironmentSaved DEF HandlerPreempted, EnterSchedule, HandlerYields, HandlerWaits
<1>3. CASE ResumeSchedule
  <2>1. UNCHANGED <<buf, globals, ct, changes, pc>> /\ phase' = pc[ct] /\ phase = "run"
        /\ pc[ct] \in {"eintr", "polled"}
    BY <1>3 DEF ResumeSchedule, Running
  <2> QED
    BY <2>1, EnvironmentsUntouched DEF Saved
<1>4. CASE PanicUnknownFd
  BY <1>4, EnvironmentsUntouched DEF PanicUnknownFd, Saved
<1> QED
  BY <1>1, <1>2, <1>3, <1>4 DEF HandlerStep, HandlerStays

-----------------------------------------------------------------------------
(* The lists.                                                              *)

(* The current thread gives up the processor in the middle of a handler,   *)
(* which will go on where "pc" says.                                       *)
Leaves ==
  /\ buf' = [buf EXCEPT ![ct] = globals]
  /\ \/ /\ st[ct] = "running" \/ (st[ct] = "ready" /\ forked)
        /\ byTmo' = [byTmo EXCEPT ![ct] = FALSE]
        /\ st' = [st EXCEPT ![ct] = "ready"]
        /\ readyQueue' = Append(readyQueue, ct)
     \/ UNCHANGED <<byTmo, st, readyQueue>>
  /\ phase' = "scan"
  /\ UNCHANGED <<tmo, blk, recip, owned, call, mutexes, timeoutList, fdList, ct, prim,
                 globals, forked>>

(* A handler inside ##sys#schedule or a call that gives up the processor.  *)
LEMMA GivesUp ==
  ASSUME ListsInv, HandlerPreempted \/ HandlerYields
  PROVE  Leaves
<1> USE DEF slots, conts, mutexes, queues, control, world
<1>1. CASE HandlerPreempted
  <2>1. st[ct] = "ready" => forked
    BY <1>1 DEF ListsInv, SleepsAlone, HandlerPreempted, InScheduler
  <2> QED
    BY <1>1, <2>1 DEF HandlerPreempted, EnterSchedule, AddToReadyQueue, Leaves
<1>2. CASE HandlerYields
  BY <1>2 DEF HandlerYields, AddToReadyQueue, Leaves
<1> QED
  BY <1>1, <1>2

(* Giving up the processor keeps slots and lists in agreement.             *)
LEMMA LeavingKeepsLists ==
  ASSUME ListsInv, Leaves, Typed', IOCallsHaveFd'
  PROVE  ListsInv'
<1> USE DEF mutexes
<1>0. /\ Inv /\ ct \in Threads /\ readyQueue \in Seq(Threads)
      /\ st \in [Threads -> State] /\ byTmo \in [Threads -> BOOLEAN]
      /\ buf \in [Threads -> Env] /\ QueueHoldsTheReady
      /\ \A t \in Threads : WellListed(t)
  BY DEF ListsInv, Inv, Typed
<1>1. \A t \in Threads : st'[t] = st[t] \/ (t = ct /\ st[t] \in {"running", "ready"} /\ st'[t] = "ready")
  BY <1>0 DEF Leaves
<1>2. AwakeWaitForNothing' /\ GoneWaitForNothing'
  BY <1>0, <1>1 DEF Leaves, Inv, AwakeWaitForNothing, GoneWaitForNothing, Gone, Dead
<1>3. FdListMatchesSlot11'
  BY <1>0 DEF Leaves, Inv, FdListMatchesSlot11
<1>4. ListedNotTimedOut'
  <2>1. \A t \in Threads : byTmo'[t] => byTmo[t]
    BY <1>0 DEF Leaves
  <2>2. fdList' = fdList /\ \A f \in Fds : fdList[f] \subseteq Threads
    BY <1>0 DEF Leaves, Inv, Typed
  <2> QED
    BY <1>0, <2>1, <2>2 DEF Inv, ListedNotTimedOut
<1>5. CurrentThread' /\ CurrentIsAwake' /\ SleepsAlone' /\ DeadlockIsEmpty'
  BY DEF Leaves, CurrentThread, CurrentIsAwake, SleepsAlone, DeadlockIsEmpty
<1>6. Environments'
  BY <1>0 DEF Leaves, Inv, Environments
<1>7. QueueHoldsTheReady'
  <2> SUFFICES ASSUME ~forked PROVE QueueHoldsTheReady'
    BY DEF Leaves, QueueHoldsTheReady
  <2>1. CASE st[ct] = "running" /\ st' = [st EXCEPT ![ct] = "ready"]
             /\ readyQueue' = Append(readyQueue, ct)
    <3>1. ct \notin Range(readyQueue)
      BY <1>0, <2>1, NotQueued
    <3>2. IsInjective(readyQueue') /\ Range(readyQueue') = Range(readyQueue) \union {ct}
      BY <1>0, <2>1, <3>1, AppendRange DEF QueueHoldsTheReady
    <3>3. Range(readyQueue) \subseteq Threads
      BY <1>0, RangeOfSeq
    <3> QED
      BY <1>0, <2>1, <3>1, <3>2, <3>3 DEF QueueHoldsTheReady
  <2>2. CASE UNCHANGED <<st, readyQueue>>
    BY <1>0, <2>2 DEF QueueHoldsTheReady, Leaves
  <2> QED
    BY <2>1, <2>2 DEF Leaves
<1>8. ASSUME NEW t \in Threads PROVE WellListed(t)'
  <2>1. \A x \in Threads : st[x] \notin Dead => st'[x] \notin Dead
    BY <1>1 DEF Dead
  <2>2. st'[t] \in Asleep => st[t] \in Asleep
    BY <1>1 DEF Asleep
  <2> QED
    BY <1>0, <2>1, <2>2, StaysListed DEF Leaves, Locked
<1> QED
  BY <1>2, <1>3, <1>4, <1>5, <1>6, <1>7, <1>8 DEF ListsInv, Inv

(* A handler that does not wait keeps the lists as they should be.         *)
LEMMA HandlerKeepsLists ==
  ASSUME ListsInv, HandlerStays, Typed', IOCallsHaveFd'
  PROVE  ListsInv'
<1> USE DEF slots, conts, mutexes, queues, control, world
<1>0. /\ Inv /\ ct \in Threads /\ SleepsAlone /\ CurrentThread
      /\ \A t \in Threads : WellListed(t)
  BY DEF ListsInv, Inv, Typed
<1>1. CASE HandlerPreempted \/ HandlerYields
  BY <1>1, GivesUp, LeavingKeepsLists
<1>2. CASE HandlerReturns \/ ResumeSchedule \/ PanicUnknownFd
  <2>1. UNCHANGED <<st, tmo, blk, recip, byTmo, owned, buf, pc, call, waiters, readyQueue,
                    timeoutList, fdList, ct, forked>>
    BY <1>2 DEF HandlerReturns, ResumeSchedule, PanicUnknownFd
  <2>2. globals'.of = globals.of
    <3>1. globals \in [of : Threads, gen : Nat]
      BY <1>0 DEF Inv, Typed, Env
    <3>2. globals' = globals \/ globals' = [globals EXCEPT !.gen = @ + 1]
      BY <1>2 DEF HandlerReturns, ResumeSchedule, PanicUnknownFd
    <3> QED
      BY <3>1, <3>2
  <2>3. \/ phase' = phase
        \/ phase' \in {"eintr", "polled"} /\ st[ct] = "running"
        \/ phase' = "unknown fd"
    BY <1>0, <1>2 DEF HandlerReturns, ResumeSchedule, PanicUnknownFd, Running, CurrentThread
  <2>4. /\ AwakeWaitForNothing' /\ GoneWaitForNothing' /\ FdListMatchesSlot11'
        /\ ListedNotTimedOut'
    BY <1>0, <2>1 DEF Inv, AwakeWaitForNothing, GoneWaitForNothing, FdListMatchesSlot11,
       ListedNotTimedOut
  <2>5. CurrentThread' /\ CurrentIsAwake' /\ SleepsAlone' /\ DeadlockIsEmpty'
    BY <2>1, <2>3 DEF ListsInv, Inv, CurrentThread, CurrentIsAwake, SleepsAlone,
       DeadlockIsEmpty, FdsListed
  <2>6. Environments' /\ QueueHoldsTheReady'
    BY <2>1, <2>2 DEF ListsInv, Inv, Environments, QueueHoldsTheReady
  <2>7. \A t \in Threads : WellListed(t)'
    BY <1>0, <2>1 DEF WellListed, Locked
  <2> QED
    BY <2>4, <2>5, <2>6, <2>7 DEF ListsInv, Inv
<1> QED
  BY <1>1, <1>2 DEF HandlerStays

-----------------------------------------------------------------------------
(* The invariant holds at first,                                           *)
LEMMA SigInvInit == SigInit => SigInv
<1> SUFFICES ASSUME SigInit PROVE SigInv
  OBVIOUS
<1>1. ListsInv /\ Typed /\ IOCallsHaveFd
  BY ListsInvInit DEF SigInit, ListsInv, Inv
<1>2. ChangesAreSaved
  <2>1. /\ globals = OwnEnv(Primordial) /\ buf = [t \in Threads |-> OwnEnv(t)]
        /\ changes = [t \in Threads |-> 0] /\ ct = Primordial /\ Primordial \in Threads
    BY ThreadsAssumption DEF SigInit, Init
  <2> QED
    BY <2>1 DEF OwnEnv, ChangesAreSaved
<1> QED
  BY <1>1, <1>2 DEF SigInv, SigTypes, SigInit

(* and every step of the scheduler or of a handler keeps it.               *)
LEMMA SigInvStep == SigInv /\ [SigNext]_sigVars => SigInv'
<1> SUFFICES ASSUME SigInv, [SigNext]_sigVars PROVE SigInv'
  OBVIOUS
<1>0. SigTypes /\ Typed /\ IOCallsHaveFd /\ ChangesAreSaved /\ (~nested => ListsInv)
  BY DEF SigInv, SigTypes
<1>1. CASE [Next]_vars /\ UNCHANGED <<changes, nested>>
  <2>1. Typed' /\ IOCallsHaveFd'
    BY <1>0, <1>1, TypedStep, IOCallsStep
  <2>2. ChangesAreSaved'
    BY <1>0, <1>1, NextKeepsChanges
  <2>3. ~nested' => ListsInv'
    BY <1>0, <1>1, ListsInvStep
  <2> QED
    BY <1>0, <1>1, <2>1, <2>2, <2>3 DEF SigInv, SigTypes
<1>2. CASE HandlerStep
  <2>1. SigTypes' /\ IOCallsHaveFd' /\ ChangesAreSaved'
    BY <1>0, <1>2, HandlerTypes, HandlerIOCalls, HandlerKeepsChanges
  <2>2. ~nested' => HandlerStays /\ ~nested
    BY <1>2 DEF HandlerStep, HandlerStays, HandlerReturns, HandlerPreempted, ResumeSchedule,
                HandlerYields, PanicUnknownFd, HandlerWaits
  <2> QED
    BY <1>0, <2>1, <2>2, HandlerKeepsLists DEF SigInv, SigTypes
<1> QED
  BY <1>1, <1>2 DEF SigNext, sigVars, HandlerStep, HandlerStays

(* The invariant holds in every reachable state, whatever handlers do.     *)
THEOREM SignalInvariance == SigSpec => []SigInv
BY SigInvInit, SigInvStep, PTL DEF SigSpec

(* A running thread sees every change a signal handler made to its         *)
(* parameters, whether the handler ran in ordinary code or in the middle   *)
(* of ##sys#schedule, returned at once, was preempted or waited.           *)
THEOREM NoChangeIsLost == SigSpec => []HandlerChangesKept
<1>1. SigInv => HandlerChangesKept
  BY DEF SigInv, ChangesAreSaved, HandlerChangesKept
<1> QED
  BY <1>1, SignalInvariance, PTL

(* As long as no handler waits in the middle of another wait, handlers     *)
(* that return, are preempted or yield leave the scheduler's lists intact: *)
(* a ready thread is queued once, and a waiting one can be woken.          *)
THEOREM HandlersKeepTheQueues == SigSpec => []SigQueuesIntact
<1>1. SigInv => SigQueuesIntact
  BY ListsQueueOnce, ListsLoseNobody DEF SigInv, SigQueuesIntact
<1> QED
  BY <1>1, SignalInvariance, PTL

(* Nothing wakes a thread that has ended: stale recipients, timeouts and   *)
(* fd-list entries do not, and a handler runs in the current thread only,  *)
(* in a call of it that has not ended.                                     *)
THEOREM HandlersWakeNoDead == SigSpec => DeadAreNotWoken
<1>1. ASSUME SigInv, [SigNext]_sigVars, ~nested, NEW t \in Threads, st[t] \in Dead
      PROVE  st'[t] \in {st[t], "suspended"}
  <2>0. Inv /\ st \in [Threads -> State] /\ ct \in Threads
    BY <1>1 DEF SigInv, ListsInv, Inv, Typed
  <2>1. CASE [Next]_vars
    BY <1>1, <2>0, <2>1, GoneStep DEF OverStaysOver
  <2>2. CASE HandlerReturns \/ ResumeSchedule \/ PanicUnknownFd
    BY <2>2 DEF HandlerReturns, ResumeSchedule, PanicUnknownFd, slots
  <2>3. CASE HandlerPreempted
    BY <1>1, <2>0, <2>3 DEF HandlerPreempted, EnterSchedule, Dead
  <2>4. CASE HandlerYields
    BY <1>1, <2>0, <2>4 DEF HandlerYields, Dead
  <2>5. ASSUME NEW f \in Fds, NEW d \in Dirs, HandlerWaits(f, d)
        PROVE  st'[t] = st[t]
    BY <1>1, <2>0, <2>5 DEF HandlerWaits, InCall, BlockForIO
  <2> QED
    BY <1>1, <2>1, <2>2, <2>3, <2>4, <2>5 DEF SigNext, sigVars
<1>2. SigInv /\ [SigNext]_sigVars =>
        [~nested => \A t \in Threads : st[t] \in Dead => st'[t] \in {st[t], "suspended"}]_sigVars
  BY <1>1
<1> QED
  BY <1>2, SignalInvariance, PTL DEF SigSpec, DeadAreNotWoken
=============================================================================
