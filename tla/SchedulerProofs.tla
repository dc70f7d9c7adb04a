-------------------------- MODULE SchedulerProofs --------------------------
(***************************************************************************)
(* Theorems about module Scheduler, for any threads, descriptors, mutexes, *)
(* operations and bounds.  They rest on one inductive invariant, Inv: what *)
(* slots 4, 11 and 13, the timeout list and the fd-list say of a thread    *)
(* agree with the state in slot 3, whoever changed them last.  The end of  *)
(* the module is the refinement: the scheduler implements ThreadWaits, for *)
(* as long as the process does not fork.                                   *)
(***************************************************************************)
EXTENDS SchedulerRefinement, SequenceTheorems, FiniteSetTheorems, TLAPS

(* Where a continuation can be, and the parts of ##sys#schedule, with what *)
(* SchedulerSignals adds: the lemmas hold for the steps of Scheduler from  *)
(* any state a signal handler may leave, too.                              *)
OwnPoints    == {"user", "io", "yield", "woken", "dying", "raise"}
(* The points a handler adds to those of a blocking call.                  *)
SignalPoints == {"eintr", "polled"}
Points       == OwnPoints \union SignalPoints
(* The phases of Scheduler and those its handlers add.                     *)
Phases ==
  {"run", "scan", "msleep", "eintr", "poll", "polled", "fetch", "deadlock", "unknown fd"}

(* Every variable has its type, in either module.                          *)
Typed ==
  /\ st \in [Threads -> State]
  /\ tmo \in [Threads -> Nat]
  /\ blk \in [Threads -> BlockObject]
  /\ recip \in [Threads -> SUBSET Threads]
  /\ byTmo \in [Threads -> BOOLEAN]
  /\ owned \in [Threads -> SUBSET Mutexes]
  /\ buf \in [Threads -> Env]
  /\ pc \in [Threads -> Points]
  /\ call \in [Threads -> [obj : BlockObject, dl : 0 .. MaxTime]]
  /\ waiters \in [Mutexes -> SUBSET Threads]
  /\ abandoned \in [Mutexes -> BOOLEAN]
  /\ ct \in Threads /\ prim \in Threads /\ globals \in Env
  /\ readyQueue \in Seq(Threads)
  /\ timeoutList \subseteq Entry
  /\ fdList \in [Fds -> SUBSET Threads]
  /\ phase \in Phases
  /\ now \in 0 .. MaxTime /\ signals \in 0 .. MaxSignals
  /\ fdReady \in [Fds -> SUBSET {"in", "out"}]
  /\ forked \in BOOLEAN

(* No handler has left its mark on a continuation or on the scheduler.     *)
NoHandlers == pc \in [Threads -> OwnPoints] /\ phase # "unknown fd"

(* The states of threads that will not run again.                          *)
Gone == Dead \union {"suspended"}

(* The second half of an i/o wait knows its descriptor.                    *)
IOCallsHaveFd == \A t \in Threads : pc[t] = "io" => call[t].obj \in FdBlock

(* A thread that is not waiting waits for nothing.                         *)
AwakeWaitForNothing ==
  \A t \in Threads :
    st[t] \in {"created", "ready", "running"} => tmo[t] = 0 /\ blk[t] = NoBlock

(* Whoever is on the fd-list has not been unblocked by its timeout.        *)
ListedNotTimedOut == \A f \in Fds : \A t \in fdList[f] : ~byTmo[t]

(* A dead or suspended thread is blocked on nothing, and an entry it left  *)
(* on the timeout list is not live.                                        *)
GoneWaitForNothing ==
  \A t \in Threads :
    st[t] \in Gone => /\ blk[t] = NoBlock
                      /\ \A e \in timeoutList : e.th = t => e.tm # tmo[t]

(* The thread that executes is running until it registers what it waits    *)
(* for, and blocked on nothing between the two halves of an i/o wait.      *)
CurrentThread ==
  phase = "run" =>
    /\ pc[ct] \notin {"io", "yield"} => st[ct] = "running"
    /\ pc[ct] = "io" => blk[ct] = NoBlock /\ st[ct] \notin Gone

(* Every saved environment is the thread's own, and so is the current one. *)
Environments == globals.of = ct /\ \A t \in Threads : buf[t].of = t

(* The inductive invariant.                                                *)
Inv ==
  /\ Typed
  /\ IOCallsHaveFd
  /\ AwakeWaitForNothing
  /\ FdListMatchesSlot11
  /\ ListedNotTimedOut
  /\ GoneWaitForNothing
  /\ CurrentThread
  /\ Environments

-----------------------------------------------------------------------------
(* Facts about the helpers.                                                *)

(* Any order of a set of threads is a sequence of those threads: the orders *)
(* in which the loops of the scheduler meet the members of a list.          *)
LEMMA PermutationType ==
  ASSUME NEW S \in SUBSET Threads, NEW w \in SetToSeqs(S)
  PROVE  w \in Seq(Threads)
<1>1. IsFiniteSet(S)
  BY ThreadsAssumption, FS_Subset
<1>2. Cardinality(S) \in Nat
  BY <1>1, FS_CardinalityType
<1>3. w \in [1 .. Cardinality(S) -> Threads]
  BY DEF SetToSeqs
<1> QED
  BY <1>2, <1>3

(* Appending the members of a set to the ready queue, in any order, keeps the *)
(* types of the ready queue (##sys#add-to-ready-queue).                     *)
LEMMA EnqueuedType ==
  ASSUME NEW q \in Seq(Threads), NEW S \in SUBSET Threads, NEW r \in Enqueued(q, S)
  PROVE  r \in Seq(Threads)
<1>1. PICK w \in SetToSeqs(S) : r = q \o w
  BY DEF Enqueued
<1>2. w \in Seq(Threads)
  BY PermutationType
<1> QED
  BY <1>1, <1>2, ConcatProperties

(* What ##sys#clear-i/o-state-for-thread! leaves of the fd-list is an fd-list. *)
LEMMA ClearIOStateType ==
  ASSUME NEW L \in [Fds -> SUBSET Threads], NEW S
  PROVE  ClearIOState(L, S) \in [Fds -> SUBSET Threads]
BY DEF ClearIOState

(* The three kinds of objects slot 11 can hold are apart from each other and *)
(* from "nothing".                                                          *)
LEMMA ObjectTypes ==
  /\ NoBlock \in BlockObject
  /\ \A f \in Fds, d \in Dirs : OnFd(f, d) \in BlockObject
  /\ \A t \in Threads : OnThread(t) \in BlockObject
  /\ \A m \in Mutexes : OnMutex(m) \in BlockObject
  /\ \A o \in FdBlock : o \in BlockObject /\ o.fd \in Fds /\ o.dir \in Dirs
BY DEF BlockObject, FdBlock, ThreadBlock, MutexBlock, OnFd, OnThread, OnMutex

(* The call of a thread that is in none has the type of calls.              *)
LEMMA NoCallType == NoCall \in [obj : BlockObject, dl : 0 .. MaxTime]
BY BoundsAssumption DEF NoCall, BlockObject

(* The thread states the code assigns are all states.                       *)
LEMMA States ==
  /\ \A s \in Dead : s \in State
  /\ \A s \in Asleep : s \in State
  /\ {"created", "ready", "running", "suspended", "blocked", "sleeping"} \subseteq State
BY DEF State, Asleep, Dead

(* What the types say of an unblock.                                       *)
LEMMA ThreadUnblockType ==
  ASSUME Typed, NEW S \in SUBSET Threads, ThreadUnblock(S)
  PROVE  /\ st' \in [Threads -> State]
         /\ tmo' \in [Threads -> Nat]
         /\ blk' \in [Threads -> BlockObject]
         /\ readyQueue' \in Seq(Threads)
         /\ timeoutList' \subseteq Entry
         /\ fdList' \in [Fds -> SUBSET Threads]
<1> DEFINE U == {t \in S : st[t] \in Asleep}
<1>1. readyQueue' \in Seq(Threads)
  BY EnqueuedType DEF ThreadUnblock, ThreadBasicUnblock, Typed
<1>2. fdList' \in [Fds -> SUBSET Threads]
  BY ClearIOStateType DEF ThreadUnblock, Typed
<1>3. timeoutList' \subseteq Entry
  BY DEF ThreadUnblock, RemoveFromTimeoutList, Typed
<1>4. NoBlock \in BlockObject
  BY DEF BlockObject
<1>5. /\ st' = [t \in Threads |-> IF t \in U THEN "ready" ELSE st[t]]
      /\ tmo' = [t \in Threads |-> IF t \in U THEN 0 ELSE tmo[t]]
      /\ blk' = [t \in Threads |-> IF t \in U THEN NoBlock ELSE blk[t]]
  BY DEF ThreadUnblock, ThreadBasicUnblock
<1> QED
  BY <1>1, <1>2, <1>3, <1>4, <1>5, States DEF Typed

(* What the types say of ##sys#thread-kill!: every variable it changes keeps *)
(* its type, and the only states it assigns are those of the dead and the woken. *)
LEMMA ThreadKillType ==
  ASSUME Typed, NEW t \in Threads, NEW s \in Dead, ThreadKill(t, s)
  PROVE  /\ st' \in [Threads -> State]
         /\ tmo' \in [Threads -> Nat]
         /\ blk' \in [Threads -> BlockObject]
         /\ recip' \in [Threads -> SUBSET Threads]
         /\ owned' \in [Threads -> SUBSET Mutexes]
         /\ waiters' \in [Mutexes -> SUBSET Threads]
         /\ abandoned' \in [Mutexes -> BOOLEAN]
         /\ readyQueue' \in Seq(Threads)
         /\ timeoutList' \subseteq Entry
         /\ fdList' \in [Fds -> SUBSET Threads]
<1> DEFINE W == MutexWaiters(t)
           J == Joiners(t, W)
<1>1. W \in SUBSET Threads /\ J \in SUBSET Threads
  <2>1. owned[t] \subseteq Mutexes /\ \A m \in Mutexes : waiters[m] \subseteq Threads
    BY DEF Typed
  <2>2. UNION {waiters[m] : m \in owned[t]} \subseteq Threads
    BY <2>1
  <2>3. recip[t] \subseteq Threads
    BY DEF Typed
  <2> QED
    BY <2>2, <2>3 DEF MutexWaiters, Joiners
<1>2. readyQueue' \in Seq(Threads)
  <2>1. PICK q \in Enqueued(readyQueue, W) : readyQueue' \in Enqueued(q, J)
    BY DEF ThreadKill
  <2>2. q \in Seq(Threads)
    BY <1>1, <2>1, EnqueuedType DEF Typed
  <2> QED
    BY <1>1, <2>1, <2>2, EnqueuedType
<1>3. fdList' \in [Fds -> SUBSET Threads]
  BY ClearIOStateType DEF ThreadKill, Typed
<1>4. timeoutList' \subseteq Entry
  BY DEF ThreadKill, RemoveFromTimeoutList, Typed
<1>5. /\ tmo' \in [Threads -> Nat]
      /\ blk' \in [Threads -> BlockObject]
  BY DEF ThreadKill, Typed, BlockObject
<1>6. /\ recip' \in [Threads -> SUBSET Threads]
      /\ owned' \in [Threads -> SUBSET Mutexes]
      /\ waiters' \in [Mutexes -> SUBSET Threads]
      /\ abandoned' \in [Mutexes -> BOOLEAN]
  BY DEF ThreadKill, Typed
<1>7. st' \in [Threads -> State]
  BY States DEF ThreadKill, Typed
<1> QED
  BY <1>2, <1>3, <1>4, <1>5, <1>6, <1>7

(* ##sys#thread-block-for-timeout! keeps the types of what it changes.      *)
LEMMA BlockForTimeoutType ==
  ASSUME Typed, NEW t \in Threads, NEW tm \in 0 .. MaxTime, BlockForTimeout(t, tm)
  PROVE  /\ st' \in [Threads -> State]
         /\ tmo' \in [Threads -> Nat]
         /\ byTmo' \in [Threads -> BOOLEAN]
         /\ timeoutList' \subseteq Entry
<1>1. CASE tm > 0 /\ timeoutList' = timeoutList \union {[tm |-> tm, th |-> t]}
                  /\ st' = [st EXCEPT ![t] = "blocked"]
                  /\ byTmo' = [byTmo EXCEPT ![t] = FALSE]
                  /\ tmo' = [tmo EXCEPT ![t] = tm]
  <2>1. [tm |-> tm, th |-> t] \in Entry
    BY <1>1, BoundsAssumption DEF Entry, Deadlines
  <2>2. tm \in Nat
    BY BoundsAssumption
  <2>4. st' \in [Threads -> State] /\ tmo' \in [Threads -> Nat]
    BY <1>1, <2>2, States DEF Typed
  <2>3. byTmo' \in [Threads -> BOOLEAN]
    BY <1>1 DEF Typed
  <2> QED
    BY <1>1, <2>1, <2>3, <2>4 DEF Typed
<1>2. CASE UNCHANGED <<timeoutList, st, byTmo, tmo>>
  BY <1>2 DEF Typed
<1> QED
  BY <1>1, <1>2 DEF BlockForTimeout

(* The first half of an i/o wait (block-for-timeout!) keeps the types.      *)
LEMMA WaitForIOType ==
  ASSUME Typed, NEW f \in Fds, NEW d \in Dirs, NEW dl \in 0 .. MaxTime, WaitForIO(f, d, dl)
  PROVE  Typed'
<1> USE DEF Points, OwnPoints, SignalPoints, Phases
<1>1. CASE dl # 0 /\ BlockForTimeout(ct, dl) /\ pc' = [pc EXCEPT ![ct] = "io"]
           /\ UNCHANGED <<blk, fdList>>
  <2>1. ct \in Threads
    BY DEF Typed
  <2>2. /\ st' \in [Threads -> State]
        /\ tmo' \in [Threads -> Nat]
        /\ byTmo' \in [Threads -> BOOLEAN]
        /\ timeoutList' \subseteq Entry
    BY <1>1, <2>1, BlockForTimeoutType
  <2> QED
    BY <1>1, <2>2, ObjectTypes DEF WaitForIO, Typed, mutexes, control, world
<1>2. CASE dl = 0 /\ BlockForIO(ct, f, d) /\ pc' = [pc EXCEPT ![ct] = "yield"]
           /\ UNCHANGED <<tmo, timeoutList>>
  BY <1>2, ObjectTypes, States DEF WaitForIO, BlockForIO, Typed, mutexes, control, world
<1> QED
  BY <1>1, <1>2 DEF WaitForIO

(* Entering ##sys#schedule, which may requeue the running thread and saves its *)
(* environment, keeps the types.                                            *)
LEMMA EnterScheduleType ==
  ASSUME Typed, EnterSchedule, pc' \in [Threads -> Points]
  PROVE  Typed'
<1> USE DEF Points, OwnPoints, SignalPoints, Phases
<1>0. /\ ct \in Threads /\ readyQueue \in Seq(Threads)
      /\ st \in [Threads -> State] /\ byTmo \in [Threads -> BOOLEAN]
  BY DEF Typed
<1>1. st' \in [Threads -> State] /\ byTmo' \in [Threads -> BOOLEAN]
  BY <1>0, States DEF EnterSchedule
<1>2. readyQueue' \in Seq(Threads)
  <2>1. readyQueue' = readyQueue \/ readyQueue' = Append(readyQueue, ct)
    BY DEF EnterSchedule, AddToReadyQueue
  <2> QED
    BY <1>0, <2>1, AppendProperties
<1>3. buf' \in [Threads -> Env]
  BY DEF EnterSchedule, Typed
<1> QED
  BY <1>1, <1>2, <1>3 DEF EnterSchedule, Typed, mutexes, world

(* Type correctness is kept by every step.                                 *)
LEMMA TypedStep ==
  ASSUME Typed, IOCallsHaveFd, [Next]_vars
  PROVE  Typed'
<1> USE DEF Points, OwnPoints, SignalPoints, Phases
<1> USE DEF slots, conts, mutexes, queues, control, world
<1>0. ct \in Threads /\ prim \in Threads
  BY DEF Typed
<1>1. ASSUME NEW tm \in {0} \union Deadlines, Sleep(tm) PROVE Typed'
  <2>1. tm \in 0 .. MaxTime /\ BlockForTimeout(ct, tm)
    BY <1>1, BoundsAssumption DEF Deadlines, Sleep
  <2>2. /\ st' \in [Threads -> State]
        /\ tmo' \in [Threads -> Nat]
        /\ byTmo' \in [Threads -> BOOLEAN]
        /\ timeoutList' \subseteq Entry
    BY <1>0, <2>1, BlockForTimeoutType
  <2> QED
    BY <1>1, <2>1, <2>2, ObjectTypes DEF Sleep, Typed
<1>2. ASSUME NEW f \in Fds, NEW d \in Dirs, NEW dl \in {0} \union Deadlines, StartIO(f, d, dl)
      PROVE  Typed'
  <2>1. dl \in 0 .. MaxTime /\ WaitForIO(f, d, dl)
    BY <1>2, BoundsAssumption DEF Deadlines, StartIO
  <2> QED
    BY <2>1, WaitForIOType
<1>3. ASSUME ContinueIO PROVE Typed'
  <2>1. call[ct].obj \in FdBlock
    BY <1>0, <1>3 DEF ContinueIO, Running, IOCallsHaveFd
  <2> QED
    BY <1>3, <2>1, ObjectTypes, States DEF ContinueIO, BlockForIO, Typed
<1>4. ASSUME NEW t \in Threads, NEW dl \in {0} \union Deadlines, Join(t, dl) PROVE Typed'
  <2>1. dl \in 0 .. MaxTime /\ dl \in Nat
    BY BoundsAssumption DEF Deadlines
  <2>2. timeoutList' \subseteq Entry
    <3>1. dl # 0 => [tm |-> dl, th |-> ct] \in Entry
      BY <1>0 DEF Entry
    <3>2. timeoutList \subseteq Entry
      BY DEF Typed
    <3> QED
      BY <1>4, <3>1, <3>2 DEF Join
  <2>3. tmo' \in [Threads -> Nat] /\ recip' \in [Threads -> SUBSET Threads]
    BY <1>0, <1>4, <2>1 DEF Join, BlockForTermination, Typed
  <2>4. /\ st' \in [Threads -> State]
        /\ blk' \in [Threads -> BlockObject]
        /\ byTmo' \in [Threads -> BOOLEAN]
        /\ call' \in [Threads -> [obj : BlockObject, dl : 0 .. MaxTime]]
    BY <1>4, <2>1, States, ObjectTypes DEF Join, BlockForTermination, Typed
  <2> QED
    BY <1>4, <2>2, <2>3, <2>4 DEF Join, Typed
<1>5. ASSUME NEW m \in Mutexes, Lock(m) PROVE Typed'
  <2>1. [obj |-> OnMutex(m), dl |-> 0] \in [obj : BlockObject, dl : 0 .. MaxTime]
    BY ObjectTypes, BoundsAssumption
  <2>2. CASE /\ owned' = [owned EXCEPT ![ct] = @ \union {m}]
             /\ UNCHANGED <<st, blk, waiters, conts>>
    BY <1>0, <1>5, <2>2 DEF Lock, Typed
  <2>3. CASE /\ st' = [st EXCEPT ![ct] = "sleeping"]
             /\ blk' = [blk EXCEPT ![ct] = OnMutex(m)]
             /\ waiters' = [waiters EXCEPT ![m] = @ \union {ct}]
             /\ pc' = [pc EXCEPT ![ct] = "yield"]
             /\ call' = [call EXCEPT ![ct] = [obj |-> OnMutex(m), dl |-> 0]]
             /\ UNCHANGED owned
    <3>1. waiters' \in [Mutexes -> SUBSET Threads]
      BY <1>0, <2>3 DEF Typed
    <3>2. st' \in [Threads -> State] /\ blk' \in [Threads -> BlockObject]
      BY <2>3, States, ObjectTypes DEF Typed
    <3> QED
      BY <1>5, <2>1, <2>3, <3>1, <3>2 DEF Lock, Typed
  <2> QED
    BY <1>5, <2>2, <2>3 DEF Lock
<1>6. ASSUME NEW t \in Threads, Start(t) PROVE Typed'
  BY <1>6, States, AppendProperties DEF Start, AddToReadyQueue, Typed
<1>7. ASSUME NEW t \in Threads, Terminate(t) PROVE Typed'
  BY <1>7, ThreadKillType DEF Terminate, Typed, Dead
<1>8. ASSUME NEW s \in Dead, End(s) PROVE Typed'
  BY <1>0, <1>8, ThreadKillType DEF End, Typed
<1>9. ASSUME AbortPrimordial PROVE Typed'
  BY <1>0, <1>9, ThreadUnblockType DEF AbortPrimordial, Typed
<1>10. ASSUME FinishAbort PROVE Typed'
  BY <1>0, <1>10, ThreadKillType DEF FinishAbort, Typed, Dead
<1>11. ASSUME Raise PROVE Typed'
  BY <1>11, NoCallType DEF Raise, Typed
<1>12. ASSUME Return PROVE Typed'
  <2>1. fdReady' \in [Fds -> SUBSET {"in", "out"}]
    BY <1>12 DEF Return, Typed
  <2> QED
    BY <1>12, <2>1, NoCallType DEF Return, Typed
<1>13. ASSUME Retry PROVE Typed'
  <2>1. call[ct].obj \in FdBlock /\ call[ct].dl \in 0 .. MaxTime
    <3>1. call[ct] \in [obj : BlockObject, dl : 0 .. MaxTime] /\ call[ct].obj.on = "fd"
      BY <1>0, <1>13 DEF Retry, Useless, Typed
    <3> QED
      BY <3>1 DEF BlockObject, NoBlock, ThreadBlock, MutexBlock
  <2> QED
    BY <1>13, <2>1, ObjectTypes, WaitForIOType DEF Retry
<1>14. ASSUME KillOtherThreads PROVE Typed'
  <2>1. readyQueue' \in Seq(Threads)
    BY <1>0, <1>14 DEF KillOtherThreads
  <2>2. st' \in [Threads -> State] /\ blk' \in [Threads -> BlockObject]
    BY <1>14, States, ObjectTypes DEF KillOtherThreads, Typed
  <2>3. recip' \in [Threads -> SUBSET Threads]
    BY <1>14 DEF KillOtherThreads, Typed
  <2> QED
    BY <1>0, <1>14, <2>1, <2>2, <2>3 DEF KillOtherThreads, Typed, EntriesInChild
<1>15. ASSUME Yield PROVE Typed'
  BY <1>15, EnterScheduleType DEF Yield, Typed
<1>16. ASSUME TimerInterrupt PROVE Typed'
  BY <1>16, EnterScheduleType DEF TimerInterrupt, Typed
<1>17. ASSUME ScanTimeouts PROVE Typed'
  <2> DEFINE expired == {e.th : e \in LiveTimeouts \ Pending}
  <2>1. expired \in SUBSET Threads
    <3>1. \A e \in timeoutList : e.th \in Threads
      BY DEF Typed, Entry
    <3> QED
      BY <3>1 DEF LiveTimeouts
  <2>2. PICK w \in SetToSeqs(expired) : readyQueue' = readyQueue \o w
    BY <1>17 DEF ScanTimeouts
  <2>3. readyQueue' \in Seq(Threads)
    BY <2>1, <2>2, PermutationType, ConcatProperties DEF Typed
  <2>4. /\ st' \in [Threads -> State]
        /\ tmo' \in [Threads -> Nat]
        /\ blk' \in [Threads -> BlockObject]
    BY <1>17, States, ObjectTypes DEF ScanTimeouts, Typed
  <2>5. byTmo' \in [Threads -> BOOLEAN]
    BY <1>17 DEF ScanTimeouts, Typed
  <2>6. fdList' \in [Fds -> SUBSET Threads]
    BY <1>17, ClearIOStateType DEF ScanTimeouts, Typed
  <2>7. timeoutList' \subseteq Entry
    BY <1>17 DEF ScanTimeouts, Typed
  <2> QED
    BY <1>17, <2>3, <2>4, <2>5, <2>6, <2>7 DEF ScanTimeouts, Typed
<1>18. ASSUME SleepOver PROVE Typed'
  BY <1>18 DEF SleepOver, Typed
<1>19. ASSUME SleepInterrupted PROVE Typed'
  BY <1>19, BoundsAssumption DEF SleepInterrupted, Typed
<1>20. ASSUME EIntr PROVE Typed'
  BY <1>0, <1>20, ThreadUnblockType DEF EIntr, ForcePrimordial, Typed
<1>21. ASSUME UnblockThreadsForIO PROVE Typed'
  <2> DEFINE S == UNION {Woken(f) : f \in Fds}
  <2>1. S \in SUBSET Threads
    <3>1. \A f \in Fds : fdList[f] \subseteq Threads
      BY DEF Typed
    <3> QED
      BY <3>1 DEF Woken
  <2>2. readyQueue' \in Seq(Threads)
    BY <1>21, <2>1, EnqueuedType DEF UnblockThreadsForIO, ThreadBasicUnblock, Typed
  <2>3. /\ st' \in [Threads -> State]
        /\ tmo' \in [Threads -> Nat]
        /\ blk' \in [Threads -> BlockObject]
    BY <1>21, States, ObjectTypes DEF UnblockThreadsForIO, ThreadBasicUnblock, Typed
  <2>4. timeoutList' \subseteq Entry
    BY <1>21 DEF UnblockThreadsForIO, RemoveFromTimeoutList, Typed
  <2>5. fdList' \in [Fds -> SUBSET Threads]
    BY <1>21 DEF UnblockThreadsForIO, Typed
  <2> QED
    BY <1>21, <2>2, <2>3, <2>4, <2>5 DEF UnblockThreadsForIO, Typed
<1>22. ASSUME PollInterrupted PROVE Typed'
  BY <1>22, BoundsAssumption DEF PollInterrupted, Typed
<1>23. ASSUME PollFailed PROVE Typed'
  BY <1>0, <1>23, ThreadUnblockType DEF PollFailed, ForcePrimordial, Typed
<1>24. ASSUME NoFds PROVE Typed'
  BY <1>24 DEF NoFds, Typed
<1>25. ASSUME Switch PROVE Typed'
  <2>1. Head(readyQueue) \in Threads /\ Tail(readyQueue) \in Seq(Threads)
    BY <1>25, HeadTailProperties DEF Switch, Typed
  <2> QED
    BY <1>25, <2>1, States DEF Switch, Typed
<1>26. ASSUME DropUnready PROVE Typed'
  BY <1>26, HeadTailProperties DEF DropUnready, Typed
<1>27. ASSUME NobodyReady PROVE Typed'
  BY <1>27 DEF NobodyReady, Typed
<1>28. ASSUME Tick PROVE Typed'
  <2>1. now' \in 0 .. MaxTime
    <3>1. now \in 0 .. MaxTime /\ now < MaxTime /\ now' = now + 1
      BY <1>28 DEF Tick, Typed
    <3> QED
      BY <3>1, BoundsAssumption
  <2> QED
    BY <1>28, <2>1 DEF Tick, Typed
<1>29. ASSUME NEW f \in Fds, NEW d \in {"in", "out"}, FdBecomesReady(f, d) PROVE Typed'
  BY <1>29 DEF FdBecomesReady, Typed
<1>30. ASSUME UNCHANGED vars PROVE Typed'
  BY <1>30 DEF vars, Typed
<1> QED
  BY <1>1, <1>2, <1>3, <1>4, <1>5, <1>6, <1>7, <1>8, <1>9, <1>10, <1>11, <1>12, <1>13,
     <1>14, <1>15, <1>16, <1>17, <1>18, <1>19, <1>20, <1>21, <1>22, <1>23, <1>24,
     <1>25, <1>26, <1>27, <1>28, <1>29, <1>30
     DEF Next, ThreadStep, ScheduleStep, WorldStep

(* Every step into the second half of an i/o wait names the descriptor.    *)
LEMMA IOCallsStep ==
  ASSUME Typed, IOCallsHaveFd, [Next]_vars
  PROVE  IOCallsHaveFd'
<1> USE DEF slots, conts, mutexes, queues, control, world
<1>0. ct \in Threads /\ pc \in [Threads -> Points]
  BY DEF Typed
<1>c. call \in [Threads -> [obj : BlockObject, dl : 0 .. MaxTime]]
  BY DEF Typed
<1>1. ASSUME UNCHANGED conts PROVE IOCallsHaveFd'
  BY <1>1 DEF IOCallsHaveFd
<1>2. ASSUME NEW f \in Fds, NEW d \in Dirs, NEW dl, WaitForIO(f, d, dl) PROVE IOCallsHaveFd'
  <2>1. OnFd(f, d) \in FdBlock
    BY DEF OnFd, FdBlock
  <2> QED
    BY <1>0, <1>c, <1>2, <2>1 DEF WaitForIO, IOCallsHaveFd
<1>3. ASSUME Retry PROVE IOCallsHaveFd'
  <2>1. call[ct].obj \in FdBlock
    BY <1>0, <1>c, <1>3 DEF Retry, Useless, BlockObject, NoBlock, ThreadBlock, MutexBlock
  <2> QED
    BY <1>2, <1>3, <2>1, ObjectTypes DEF Retry
<1>4. ASSUME \/ ContinueIO
             \/ Yield \/ FinishAbort
             \/ \E s \in Dead : End(s)
      PROVE  IOCallsHaveFd'
  BY <1>0, <1>4 DEF IOCallsHaveFd, ContinueIO, Yield, EnterSchedule, FinishAbort, End
<1>5. ASSUME AbortPrimordial PROVE IOCallsHaveFd'
  BY <1>0, <1>5 DEF IOCallsHaveFd, AbortPrimordial
<1>6. ASSUME \/ \E tm \in {0} \union Deadlines : Sleep(tm)
             \/ \E t \in Threads, dl \in {0} \union Deadlines : Join(t, dl)
             \/ \E m \in Mutexes : Lock(m)
             \/ Raise \/ Return
      PROVE  IOCallsHaveFd'
  BY <1>0, <1>c, <1>6 DEF IOCallsHaveFd, Sleep, Join, Lock, Raise, Return
<1>7. ASSUME \/ \E t \in Threads : Start(t) \/ Terminate(t)
             \/ KillOtherThreads \/ TimerInterrupt
             \/ ScanTimeouts \/ SleepOver \/ SleepInterrupted \/ EIntr
             \/ UnblockThreadsForIO \/ PollInterrupted \/ PollFailed
             \/ NoFds \/ Switch \/ DropUnready \/ NobodyReady \/ WorldStep
             \/ UNCHANGED vars
      PROVE  UNCHANGED conts
  BY <1>7 DEF Start, Terminate, KillOtherThreads, TimerInterrupt, EnterSchedule, ScanTimeouts,
     SleepOver, SleepInterrupted, EIntr, UnblockThreadsForIO, PollInterrupted,
     PollFailed, NoFds, Switch, DropUnready, NobodyReady, WorldStep, Tick, FdBecomesReady, vars
<1> QED
  BY <1>1, <1>2, <1>3, <1>4, <1>5, <1>6, <1>7 DEF Next, ThreadStep, ScheduleStep, StartIO

(* The steps of Scheduler alone leave no handler's marks.                  *)
LEMMA NoHandlersStep ==
  ASSUME Typed, NoHandlers, [Next]_vars
  PROVE  NoHandlers'
<1> USE DEF slots, conts, mutexes, queues, control, world, OwnPoints
<1>0. ct \in Threads /\ prim \in Threads /\ pc \in [Threads -> OwnPoints] /\ phase # "unknown fd"
  BY DEF Typed, NoHandlers
<1>1. CASE ThreadStep
  BY <1>0, <1>1 DEF NoHandlers, ThreadStep, Sleep, StartIO, WaitForIO, ContinueIO, Join, Lock, Start,
     Terminate, End, AbortPrimordial, FinishAbort, Raise, Return, Retry, KillOtherThreads
<1>2. CASE ScheduleStep
  BY <1>0, <1>2 DEF NoHandlers, ScheduleStep, Yield, TimerInterrupt, EnterSchedule, ScanTimeouts,
     SleepOver, SleepInterrupted, EIntr, UnblockThreadsForIO, PollInterrupted,
     PollFailed, NoFds, Switch, DropUnready, NobodyReady
<1>3. CASE WorldStep \/ UNCHANGED vars
  BY <1>0, <1>3 DEF NoHandlers, WorldStep, Tick, FdBecomesReady, vars
<1> QED
  BY <1>1, <1>2, <1>3 DEF Next

(* An environment is saved for the thread it belongs to.                   *)
LEMMA EnvironmentsStep ==
  ASSUME Typed, Environments, [Next]_vars
  PROVE  Environments'
<1> USE DEF slots, conts, mutexes, queues, control, world
<1>0. /\ ct \in Threads /\ readyQueue \in Seq(Threads)
      /\ buf \in [Threads -> Env]
  BY DEF Typed
<1>1. ASSUME EnterSchedule \/ EIntr PROVE Environments'
  BY <1>0, <1>1 DEF Environments, EnterSchedule, EIntr
<1>2. ASSUME Switch PROVE Environments'
  BY <1>0, <1>2, HeadTailProperties DEF Environments, Switch
<1>3. ASSUME UNCHANGED <<buf, globals, ct>> PROVE Environments'
  BY <1>3 DEF Environments
<1>4. ASSUME \/ ThreadStep
             \/ ScanTimeouts \/ SleepOver \/ SleepInterrupted
             \/ UnblockThreadsForIO \/ PollInterrupted \/ PollFailed
             \/ NoFds \/ DropUnready \/ NobodyReady \/ WorldStep
             \/ UNCHANGED vars
      PROVE  UNCHANGED <<buf, globals, ct>>
  BY <1>4 DEF ThreadStep, Sleep, StartIO, WaitForIO, ContinueIO, Join, Lock, Start, Terminate,
     End, AbortPrimordial, FinishAbort, Raise, Return, Retry, KillOtherThreads, ScanTimeouts,
     SleepOver, SleepInterrupted, UnblockThreadsForIO, PollInterrupted,
     PollFailed, NoFds, DropUnready, NobodyReady, WorldStep, Tick, FdBecomesReady, vars
<1> QED
  BY <1>1, <1>2, <1>3, <1>4 DEF Next, ScheduleStep, Yield, TimerInterrupt

(* The initial state, in which only the primordial thread runs, is well typed. *)
LEMMA TypeInit == Init => Typed /\ NoHandlers
<1> USE DEF Points, OwnPoints, SignalPoints, Phases
<1> SUFFICES ASSUME Init PROVE Typed /\ NoHandlers
  OBVIOUS
<1>1. /\ byTmo \in [Threads -> BOOLEAN]
      /\ abandoned \in [Mutexes -> BOOLEAN]
  BY Zenon DEF Init
<1>2. /\ buf \in [Threads -> Env]
      /\ globals \in Env
      /\ call \in [Threads -> [obj : BlockObject, dl : 0 .. MaxTime]]
  BY ThreadsAssumption, BoundsAssumption, ObjectTypes DEF Init, OwnEnv, Env, NoCall
<1>3. /\ st \in [Threads -> State]
      /\ tmo \in [Threads -> Nat]
      /\ blk \in [Threads -> BlockObject]
      /\ readyQueue \in Seq(Threads)
  BY ThreadsAssumption, ObjectTypes, States, EmptySeq DEF Init
<1>4. /\ now \in 0 .. MaxTime
      /\ signals \in 0 .. MaxSignals
  BY BoundsAssumption DEF Init
<1> QED
  BY <1>1, <1>2, <1>3, <1>4, ThreadsAssumption DEF Init, Typed, NoHandlers

-----------------------------------------------------------------------------
(* The slots of a thread agree with its state.                             *)

(* Steps that neither touch slots 3, 4, 11 and 13 nor the lists.           *)
Elsewhere ==
  \/ Raise \/ Return \/ SleepOver \/ SleepInterrupted \/ PollInterrupted
  \/ NoFds \/ DropUnready \/ NobodyReady \/ WorldStep \/ UNCHANGED vars

(* The steps outside the scheduler's procedures leave threads and lists alone. *)
LEMMA ElsewhereFrame ==
  ASSUME Elsewhere
  PROVE  UNCHANGED <<st, tmo, blk, byTmo, timeoutList, fdList, ct>>
BY DEF Elsewhere, Raise, Return, SleepOver, SleepInterrupted, PollInterrupted,
   NoFds, DropUnready, NobodyReady, WorldStep, Tick, FdBecomesReady, vars, slots, queues, control

(* Any other step, by the procedure of the scheduler it performs.          *)
LEMMA StepKinds ==
  ASSUME Typed, [Next]_vars
  PROVE  \/ Elsewhere
         \/ \E tm \in {0} \union Deadlines : Sleep(tm)
         \/ \E f \in Fds, d \in Dirs : \E dl : WaitForIO(f, d, dl) /\ (Running("user") \/ Running("woken"))
         \/ ContinueIO
         \/ \E t \in Threads, dl \in {0} \union Deadlines : Join(t, dl)
         \/ \E m \in Mutexes : Lock(m)
         \/ \E t \in Threads : Start(t)
         \/ \E t \in Threads, s \in Dead :
              /\ ThreadKill(t, s) /\ UNCHANGED <<ct, byTmo, phase>>
              /\ \/ t # ct /\ Running("user") /\ UNCHANGED pc /\ st[t] \notin Dead
                 \/ t = ct /\ (Running("user") \/ Running("dying")) /\ pc' = [pc EXCEPT ![ct] = "yield"]
         \/ AbortPrimordial
         \/ KillOtherThreads
         \/ EnterSchedule
         \/ ScanTimeouts
         \/ EIntr \/ PollFailed
         \/ UnblockThreadsForIO
         \/ Switch
<1> DEFINE Kill(t, s) == /\ ThreadKill(t, s) /\ UNCHANGED <<ct, byTmo, phase>>
                         /\ \/ t # ct /\ Running("user") /\ UNCHANGED pc /\ st[t] \notin Dead
                            \/ t = ct /\ (Running("user") \/ Running("dying")) /\ pc' = [pc EXCEPT ![ct] = "yield"]
<1>1. \A s \in Dead : End(s) => Kill(ct, s)
  BY DEF End, control
<1>2. FinishAbort => Kill(ct, "terminated")
  BY DEF FinishAbort, control
<1>3. \A t \in Threads : Terminate(t) => Kill(t, "terminated")
  BY DEF Terminate, control, conts
<1>4. ct \in Threads /\ "terminated" \in Dead
  BY DEF Typed, Dead
<1>5. ASSUME Retry
      PROVE  \E f \in Fds, d \in Dirs : \E dl : WaitForIO(f, d, dl) /\ Running("woken")
  <2>1. call[ct] \in [obj : BlockObject, dl : 0 .. MaxTime] /\ call[ct].obj.on = "fd"
    BY <1>4, <1>5 DEF Retry, Useless, Typed
  <2>2. call[ct].obj \in FdBlock
    BY <2>1 DEF BlockObject, NoBlock, ThreadBlock, MutexBlock
  <2> QED
    BY <1>5, <2>2, ObjectTypes DEF Retry
<1> HIDE DEF Kill
<1>6. \/ Elsewhere
      \/ \E tm \in {0} \union Deadlines : Sleep(tm)
      \/ \E f \in Fds, d \in Dirs : \E dl : WaitForIO(f, d, dl) /\ (Running("user") \/ Running("woken"))
      \/ ContinueIO
      \/ \E t \in Threads, dl \in {0} \union Deadlines : Join(t, dl)
      \/ \E m \in Mutexes : Lock(m)
      \/ \E t \in Threads : Start(t)
      \/ \E t \in Threads, s \in Dead : Kill(t, s)
      \/ AbortPrimordial \/ KillOtherThreads \/ EnterSchedule \/ ScanTimeouts
      \/ EIntr \/ PollFailed \/ UnblockThreadsForIO \/ Switch
  BY <1>1, <1>2, <1>3, <1>4, <1>5
     DEF Next, ThreadStep, ScheduleStep, Elsewhere, StartIO, Yield, TimerInterrupt
<1> QED
  BY <1>6 DEF Kill

(* A thread that is ready stays off every list and has no deadline until    *)
(* it has run.                                                              *)
LEMMA AwakeStep ==
  ASSUME Typed, AwakeWaitForNothing, [Next]_vars
  PROVE  AwakeWaitForNothing'
<1> USE DEF slots, conts, mutexes, queues, control, world
<1>0. /\ ct \in Threads /\ prim \in Threads
      /\ st \in [Threads -> State] /\ tmo \in [Threads -> Nat]
      /\ blk \in [Threads -> BlockObject]
  BY DEF Typed
<1>1. CASE Elsewhere
  BY <1>1, ElsewhereFrame DEF AwakeWaitForNothing
<1>2. ASSUME NEW tm \in {0} \union Deadlines, Sleep(tm) PROVE AwakeWaitForNothing'
  BY <1>0, <1>2 DEF AwakeWaitForNothing, Sleep, BlockForTimeout
<1>3. ASSUME NEW f \in Fds, NEW d \in Dirs, NEW dl, WaitForIO(f, d, dl) PROVE AwakeWaitForNothing'
  BY <1>0, <1>3 DEF AwakeWaitForNothing, WaitForIO, BlockForTimeout, BlockForIO
<1>4. CASE ContinueIO
  BY <1>0, <1>4 DEF AwakeWaitForNothing, ContinueIO, BlockForIO
<1>5. ASSUME NEW t \in Threads, NEW dl \in {0} \union Deadlines, Join(t, dl)
      PROVE  AwakeWaitForNothing'
  BY <1>0, <1>5 DEF AwakeWaitForNothing, Join, BlockForTermination
<1>6. ASSUME NEW m \in Mutexes, Lock(m) PROVE AwakeWaitForNothing'
  BY <1>0, <1>6 DEF AwakeWaitForNothing, Lock
<1>7. ASSUME NEW t \in Threads, Start(t) PROVE AwakeWaitForNothing'
  BY <1>0, <1>7 DEF AwakeWaitForNothing, Start
<1>8. ASSUME NEW t \in Threads, NEW s \in Dead, ThreadKill(t, s) PROVE AwakeWaitForNothing'
  BY <1>0, <1>8 DEF AwakeWaitForNothing, ThreadKill, Dead
<1>9. ASSUME NEW S, ThreadUnblock(S) PROVE AwakeWaitForNothing'
  BY <1>0, <1>9 DEF AwakeWaitForNothing, ThreadUnblock, ThreadBasicUnblock
<1>10. CASE KillOtherThreads
  BY <1>0, <1>10 DEF AwakeWaitForNothing, KillOtherThreads
<1>11. CASE EnterSchedule
  BY <1>0, <1>11 DEF AwakeWaitForNothing, EnterSchedule
<1>12. CASE ScanTimeouts
  BY <1>0, <1>12 DEF AwakeWaitForNothing, ScanTimeouts
<1>13. CASE UnblockThreadsForIO
  BY <1>0, <1>13 DEF AwakeWaitForNothing, UnblockThreadsForIO, ThreadBasicUnblock
<1>14. CASE Switch
  BY <1>0, <1>14 DEF AwakeWaitForNothing, Switch
<1> QED
  BY <1>1, <1>2, <1>3, <1>4, <1>5, <1>6, <1>7, <1>8, <1>9, <1>10, <1>11, <1>12, <1>13, <1>14,
     StepKinds DEF AbortPrimordial, EIntr, PollFailed, ForcePrimordial

(* No step separates the fd-list from slot 11, while no handler runs inside *)
(* a call.                                                                  *)
LEMMA FdListStep ==
  ASSUME Inv, [Next]_vars
  PROVE  FdListMatchesSlot11'
<1> USE DEF slots, conts, mutexes, queues, control, world
<1>0. /\ Typed
      /\ ct \in Threads /\ prim \in Threads
      /\ st \in [Threads -> State] /\ tmo \in [Threads -> Nat]
      /\ blk \in [Threads -> BlockObject]
      /\ fdList \in [Fds -> SUBSET Threads]
      /\ FdListMatchesSlot11
  BY DEF Inv, Typed
<1>i. ASSUME NEW f \in Fds, NEW d \in Dirs, BlockForIO(ct, f, d), blk[ct] = NoBlock
      PROVE  FdListMatchesSlot11'
  BY <1>0, <1>i DEF FdListMatchesSlot11, BlockForIO, OnFd, NoBlock
<1>b. ASSUME phase = "run", pc[ct] # "yield" PROVE blk[ct] = NoBlock
  BY <1>0, <1>b DEF Inv, CurrentThread, AwakeWaitForNothing
<1>1. CASE Elsewhere
  BY <1>1, ElsewhereFrame, <1>0 DEF FdListMatchesSlot11
<1>2. ASSUME NEW tm \in {0} \union Deadlines, Sleep(tm) PROVE FdListMatchesSlot11'
  BY <1>0, <1>2 DEF FdListMatchesSlot11, Sleep
<1>3. ASSUME NEW f \in Fds, NEW d \in Dirs, NEW dl, WaitForIO(f, d, dl), Running("user") \/ Running("woken")
      PROVE  FdListMatchesSlot11'
  <2>1. CASE BlockForIO(ct, f, d)
    BY <1>i, <1>b, <1>3, <2>1 DEF Running
  <2>2. CASE UNCHANGED <<blk, fdList>>
    BY <1>0, <2>2 DEF FdListMatchesSlot11
  <2> QED
    BY <1>3, <2>1, <2>2 DEF WaitForIO
<1>4. CASE ContinueIO
  <2>1. call[ct].obj \in FdBlock
    BY <1>0, <1>4 DEF ContinueIO, Running, Inv, IOCallsHaveFd
  <2> QED
    BY <1>i, <1>b, <1>4, <2>1, ObjectTypes DEF ContinueIO, Running
<1>5. ASSUME NEW t \in Threads, NEW dl \in {0} \union Deadlines, Join(t, dl)
      PROVE  FdListMatchesSlot11'
  BY <1>0, <1>b, <1>5 DEF FdListMatchesSlot11, Join, BlockForTermination, Running, OnThread, NoBlock
<1>6. ASSUME NEW m \in Mutexes, Lock(m) PROVE FdListMatchesSlot11'
  BY <1>0, <1>b, <1>6 DEF FdListMatchesSlot11, Lock, Running, OnMutex, NoBlock
<1>7. ASSUME NEW t \in Threads, Start(t) PROVE FdListMatchesSlot11'
  BY <1>0, <1>7 DEF FdListMatchesSlot11, Start
<1>8. ASSUME NEW t \in Threads, NEW s \in Dead, ThreadKill(t, s) PROVE FdListMatchesSlot11'
  BY <1>0, <1>8 DEF FdListMatchesSlot11, ThreadKill, Joiners, ClearIOState, OnThread, NoBlock
<1>9. ASSUME NEW S, ThreadUnblock(S) PROVE FdListMatchesSlot11'
  BY <1>0, <1>9 DEF FdListMatchesSlot11, ThreadUnblock, ThreadBasicUnblock, ClearIOState, NoBlock
<1>10. CASE KillOtherThreads
  BY <1>0, <1>10 DEF FdListMatchesSlot11, KillOtherThreads, NoBlock
<1>11. CASE EnterSchedule \/ Switch
  BY <1>0, <1>11 DEF FdListMatchesSlot11, EnterSchedule, Switch
<1>12. CASE ScanTimeouts
  BY <1>0, <1>12 DEF FdListMatchesSlot11, ScanTimeouts, ClearIOState, NoBlock
<1>13. CASE UnblockThreadsForIO
  <2>1. \A f \in Fds : \A t \in fdList[f] : ~byTmo[t]
    BY DEF Inv, ListedNotTimedOut
  <2>2. fdList' = [f \in Fds |-> fdList[f] \ Woken(f)]
    BY <1>13, <2>1 DEF UnblockThreadsForIO
  <2>3. \A f \in Fds : Woken(f) \subseteq fdList[f]
    BY DEF Woken
  <2> QED
    BY <1>0, <1>13, <2>2, <2>3
       DEF FdListMatchesSlot11, UnblockThreadsForIO, ThreadBasicUnblock, NoBlock
<1> QED
  BY <1>1, <1>2, <1>3, <1>4, <1>5, <1>6, <1>7, <1>8, <1>9, <1>10, <1>11, <1>12, <1>13,
     <1>0, StepKinds DEF AbortPrimordial, EIntr, PollFailed, ForcePrimordial

(* A thread on the fd-list has not been marked as timed out: whoever times  *)
(* it out takes it off the list first.                                      *)
LEMMA ListedNotTimedOutStep ==
  ASSUME Inv, [Next]_vars
  PROVE  ListedNotTimedOut'
<1> USE DEF slots, conts, mutexes, queues, control, world
<1>0. /\ Typed
      /\ ct \in Threads /\ prim \in Threads
      /\ byTmo \in [Threads -> BOOLEAN]
      /\ fdList \in [Fds -> SUBSET Threads]
      /\ ListedNotTimedOut
      /\ FdListMatchesSlot11
  BY DEF Inv, Typed
<1>i. ASSUME NEW f \in Fds, NEW d \in Dirs, BlockForIO(ct, f, d) PROVE ListedNotTimedOut'
  BY <1>0, <1>i DEF ListedNotTimedOut, BlockForIO
<1>1. CASE Elsewhere
  BY <1>0, <1>1, ElsewhereFrame DEF ListedNotTimedOut
<1>2. ASSUME NEW tm \in {0} \union Deadlines, Sleep(tm) PROVE ListedNotTimedOut'
  BY <1>0, <1>2 DEF ListedNotTimedOut, Sleep, BlockForTimeout
<1>3. ASSUME NEW f \in Fds, NEW d \in Dirs, NEW dl, WaitForIO(f, d, dl)
      PROVE  ListedNotTimedOut'
  <2>1. CASE BlockForIO(ct, f, d)
    BY <1>i, <2>1
  <2>2. CASE BlockForTimeout(ct, dl) /\ UNCHANGED <<blk, fdList>>
    BY <1>0, <2>2 DEF ListedNotTimedOut, BlockForTimeout
  <2> QED
    BY <1>3, <2>1, <2>2 DEF WaitForIO
<1>4. CASE ContinueIO
  <2>1. call[ct].obj \in FdBlock
    BY <1>0, <1>4 DEF ContinueIO, Running, Inv, IOCallsHaveFd
  <2> QED
    BY <1>i, <1>4, <2>1, ObjectTypes DEF ContinueIO
<1>5. ASSUME NEW t \in Threads, NEW dl \in {0} \union Deadlines, Join(t, dl)
      PROVE  ListedNotTimedOut'
  BY <1>0, <1>5 DEF ListedNotTimedOut, Join, BlockForTermination
<1>6. ASSUME NEW m \in Mutexes, Lock(m) PROVE ListedNotTimedOut'
  BY <1>0, <1>6 DEF ListedNotTimedOut, Lock
<1>7. ASSUME NEW t \in Threads, Start(t) PROVE ListedNotTimedOut'
  BY <1>0, <1>7 DEF ListedNotTimedOut, Start
<1>8. ASSUME NEW t \in Threads, NEW s \in Dead, ThreadKill(t, s), UNCHANGED byTmo
      PROVE  ListedNotTimedOut'
  BY <1>0, <1>8 DEF ListedNotTimedOut, ThreadKill, ClearIOState
<1>9. ASSUME NEW S, ThreadUnblock(S),
             UNCHANGED byTmo \/ byTmo' = [byTmo EXCEPT ![prim] = FALSE]
      PROVE  ListedNotTimedOut'
  BY <1>0, <1>9 DEF ListedNotTimedOut, ThreadUnblock, ClearIOState
<1>10. CASE KillOtherThreads
  BY <1>0, <1>10 DEF ListedNotTimedOut, KillOtherThreads
<1>11. CASE EnterSchedule \/ Switch
  BY <1>0, <1>11 DEF ListedNotTimedOut, EnterSchedule, Switch
<1>12. CASE ScanTimeouts
  <2> DEFINE expired == {e.th : e \in LiveTimeouts \ Pending}
  <2>1. /\ byTmo' = [t \in Threads |-> byTmo[t] \/ t \in expired]
        /\ fdList' = ClearIOState(fdList, expired)
    BY <1>12 DEF ScanTimeouts
  <2> HIDE DEF expired
  <2>2. \A f \in Fds : fdList'[f] = fdList[f] \ expired
    BY <1>0, <2>1 DEF ClearIOState, FdListMatchesSlot11
  <2> QED
    BY <1>0, <2>1, <2>2 DEF ListedNotTimedOut
<1>13. CASE UnblockThreadsForIO
  BY <1>0, <1>13 DEF ListedNotTimedOut, UnblockThreadsForIO
<1> QED
  BY <1>1, <1>2, <1>3, <1>4, <1>5, <1>6, <1>7, <1>8, <1>9, <1>10, <1>11, <1>12, <1>13,
     <1>0, StepKinds DEF AbortPrimordial, EIntr, PollFailed, ForcePrimordial

(* The thread that executes: running, or between the halves of a wait.     *)
LEMMA CurrentThreadStep ==
  ASSUME Inv, [Next]_vars
  PROVE  CurrentThread'
<1> USE DEF slots, conts, mutexes, queues, control, world
<1>0. /\ Typed
      /\ ct \in Threads /\ prim \in Threads
      /\ st \in [Threads -> State]
      /\ blk \in [Threads -> BlockObject]
      /\ pc \in [Threads -> Points]
      /\ CurrentThread
      /\ AwakeWaitForNothing
  BY DEF Inv, Typed
<1>1. CASE Elsewhere
  BY <1>0, <1>1 DEF CurrentThread, Elsewhere, Raise, Return, SleepOver, SleepInterrupted,
     PollInterrupted, NoFds, DropUnready, NobodyReady, WorldStep, Tick,
     FdBecomesReady, vars, Running
<1>2. ASSUME NEW tm \in {0} \union Deadlines, Sleep(tm) PROVE CurrentThread'
  BY <1>0, <1>2 DEF CurrentThread, Sleep
<1>3. ASSUME NEW f \in Fds, NEW d \in Dirs, NEW dl, WaitForIO(f, d, dl),
             Running("user") \/ Running("woken")
      PROVE  CurrentThread'
  <2>1. st[ct] = "running" /\ blk[ct] = NoBlock
    BY <1>0, <1>3 DEF CurrentThread, AwakeWaitForNothing, Running
  <2>2. CASE dl # 0 /\ BlockForTimeout(ct, dl) /\ UNCHANGED <<blk, fdList>>
    BY <1>0, <1>3, <2>1, <2>2 DEF CurrentThread, WaitForIO, BlockForTimeout, Gone, Dead
  <2>3. CASE pc' = [pc EXCEPT ![ct] = "yield"]
    BY <1>0, <1>3, <2>3 DEF CurrentThread, WaitForIO
  <2> QED
    BY <1>3, <2>2, <2>3 DEF WaitForIO
<1>4. CASE ContinueIO
  BY <1>0, <1>4 DEF CurrentThread, ContinueIO
<1>5. ASSUME NEW t \in Threads, NEW dl \in {0} \union Deadlines, Join(t, dl)
      PROVE  CurrentThread'
  BY <1>0, <1>5 DEF CurrentThread, Join
<1>6. ASSUME NEW m \in Mutexes, Lock(m) PROVE CurrentThread'
  BY <1>0, <1>6 DEF CurrentThread, Lock, Running
<1>7. ASSUME NEW t \in Threads, Start(t) PROVE CurrentThread'
  BY <1>0, <1>7 DEF CurrentThread, Start, Running
<1>8. ASSUME NEW t \in Threads, NEW s \in Dead, ThreadKill(t, s), UNCHANGED <<ct, byTmo, phase>>,
             \/ t # ct /\ Running("user") /\ UNCHANGED pc /\ st[t] \notin Dead
             \/ t = ct /\ (Running("user") \/ Running("dying")) /\ pc' = [pc EXCEPT ![ct] = "yield"]
      PROVE  CurrentThread'
  <2>1. CASE t = ct
    BY <1>0, <1>8, <2>1 DEF CurrentThread
  <2>2. CASE t # ct
    <3>1. st[ct] = "running" /\ blk[ct] = NoBlock
      BY <1>0, <1>8, <2>2 DEF CurrentThread, AwakeWaitForNothing, Running
    <3>2. ct \notin MutexWaiters(t) /\ ct \notin Joiners(t, MutexWaiters(t))
      BY <3>1 DEF MutexWaiters, Joiners, Asleep, NoBlock, OnThread
    <3>3. st'[ct] = st[ct] /\ blk'[ct] = blk[ct]
      BY <1>0, <1>8, <2>2, <3>2 DEF ThreadKill
    <3> QED
      BY <1>0, <1>8, <2>2, <3>3 DEF CurrentThread, Gone
  <2> QED
    BY <2>1, <2>2
<1>9. CASE AbortPrimordial
  BY <1>0, <1>9 DEF CurrentThread, AbortPrimordial, ThreadUnblock, ThreadBasicUnblock, Running
<1>10. CASE KillOtherThreads
  BY <1>0, <1>10 DEF CurrentThread, KillOtherThreads, Running
<1>11. CASE EnterSchedule \/ ScanTimeouts \/ EIntr \/ PollFailed \/ UnblockThreadsForIO
  BY <1>11 DEF CurrentThread, EnterSchedule, ScanTimeouts, EIntr, PollFailed, UnblockThreadsForIO
<1>12. CASE Switch
  <2>1. Head(readyQueue) \in Threads
    BY <1>12, HeadTailProperties DEF Switch, Inv, Typed
  <2> QED
    BY <1>0, <1>12, <2>1 DEF CurrentThread, AwakeWaitForNothing, Switch, Gone, Dead
<1> QED
  BY <1>1, <1>2, <1>3, <1>4, <1>5, <1>6, <1>7, <1>8, <1>9, <1>10, <1>11, <1>12,
     <1>0, StepKinds

(* What the steps that block or wake somebody do to the others.            *)
OverStaysOver ==
  \A t \in Threads : /\ st[t] \in Dead => st'[t] \in {st[t], "suspended"}
                     /\ st[t] = "suspended" => st'[t] \in Gone

(* A thread that is dead, terminated or suspended is only ever moved to     *)
(* another of these states.                                                 *)
LEMMA GoneStep ==
  ASSUME Inv, [Next]_vars
  PROVE  GoneWaitForNothing' /\ OverStaysOver
<1> USE DEF slots, conts, mutexes, queues, control, world
<1>0. /\ Typed
      /\ ct \in Threads /\ prim \in Threads
      /\ st \in [Threads -> State] /\ tmo \in [Threads -> Nat]
      /\ blk \in [Threads -> BlockObject]
      /\ timeoutList \subseteq Entry
      /\ GoneWaitForNothing
      /\ CurrentThread
  BY DEF Inv, Typed
<1>a. ASSUME phase = "run", pc[ct] # "yield" PROVE st[ct] \notin Gone
  BY <1>0, <1>a DEF CurrentThread, Gone, Dead
<1>i. ASSUME NEW f \in Fds, NEW d \in Dirs, BlockForIO(ct, f, d), st[ct] \notin Gone,
             UNCHANGED <<tmo, timeoutList>>
      PROVE  GoneWaitForNothing' /\ OverStaysOver
  BY <1>0, <1>i DEF GoneWaitForNothing, OverStaysOver, BlockForIO, Gone, Dead
<1>t. ASSUME NEW tm, BlockForTimeout(ct, tm), st[ct] \notin Gone, UNCHANGED blk
      PROVE  GoneWaitForNothing' /\ OverStaysOver
  BY <1>0, <1>t DEF GoneWaitForNothing, OverStaysOver, BlockForTimeout, Gone, Dead
<1>1. CASE Elsewhere
  BY <1>0, <1>1, ElsewhereFrame DEF GoneWaitForNothing, OverStaysOver, Gone
<1>2. ASSUME NEW tm \in {0} \union Deadlines, Sleep(tm)
      PROVE  GoneWaitForNothing' /\ OverStaysOver
  BY <1>2, <1>a, <1>t DEF Sleep, Running
<1>3. ASSUME NEW f \in Fds, NEW d \in Dirs, NEW dl, WaitForIO(f, d, dl),
             Running("user") \/ Running("woken")
      PROVE  GoneWaitForNothing' /\ OverStaysOver
  BY <1>3, <1>a, <1>i, <1>t DEF WaitForIO, Running
<1>4. CASE ContinueIO
  <2>1. call[ct].obj \in FdBlock
    BY <1>0, <1>4 DEF ContinueIO, Running, Inv, IOCallsHaveFd
  <2> QED
    BY <1>4, <1>a, <1>i, <2>1, ObjectTypes DEF ContinueIO, Running
<1>5. ASSUME NEW t \in Threads, NEW dl \in {0} \union Deadlines, Join(t, dl)
      PROVE  GoneWaitForNothing' /\ OverStaysOver
  BY <1>0, <1>5, <1>a DEF GoneWaitForNothing, OverStaysOver, Join, BlockForTermination, Running,
     Gone, Dead
<1>6. ASSUME NEW m \in Mutexes, Lock(m) PROVE GoneWaitForNothing' /\ OverStaysOver
  BY <1>0, <1>6, <1>a DEF GoneWaitForNothing, OverStaysOver, Lock, Running, Gone, Dead
<1>7. ASSUME NEW t \in Threads, Start(t) PROVE GoneWaitForNothing' /\ OverStaysOver
  BY <1>0, <1>7 DEF GoneWaitForNothing, OverStaysOver, Start, Gone, Dead
<1>8. ASSUME NEW t \in Threads, NEW s \in Dead, ThreadKill(t, s), st[t] \notin Dead
      PROVE  GoneWaitForNothing' /\ OverStaysOver
  <2> DEFINE W == MutexWaiters(t)
             J == Joiners(t, W)
  <2>1. \A x \in Threads : st[x] \in Gone => x \notin W \union J
    BY <1>0 DEF GoneWaitForNothing, MutexWaiters, Joiners, Gone, Dead, Asleep, NoBlock, OnThread
  <2>2. \A x \in Threads \ {t} :
          st'[x] \in Gone => st[x] \in Gone /\ tmo'[x] = tmo[x] /\ blk'[x] = blk[x]
    BY <1>0, <1>8, <2>1 DEF ThreadKill, Gone, Dead
  <2>3. tmo'[t] = 0 /\ blk'[t] = NoBlock /\ st'[t] = s
    BY <1>0, <1>8 DEF ThreadKill
  <2>4. timeoutList' \subseteq timeoutList
    BY <1>8 DEF ThreadKill, RemoveFromTimeoutList
  <2>5. \A e \in timeoutList : e.tm # 0
    BY <1>0 DEF Entry, Deadlines
  <2>6. OverStaysOver
    BY <1>0, <1>8, <2>1 DEF OverStaysOver, ThreadKill, Gone
  <2> QED
    BY <1>0, <2>2, <2>3, <2>4, <2>5, <2>6 DEF GoneWaitForNothing
<1>9. ASSUME NEW S, ThreadUnblock(S) PROVE GoneWaitForNothing' /\ OverStaysOver
  <2>1. timeoutList' \subseteq timeoutList
    BY <1>9 DEF ThreadUnblock, RemoveFromTimeoutList
  <2>2. \A x \in Threads : st[x] \in Gone \/ st'[x] \in Gone =>
          st'[x] = st[x] /\ tmo'[x] = tmo[x] /\ blk'[x] = blk[x]
    BY <1>0, <1>9 DEF ThreadUnblock, ThreadBasicUnblock, Gone, Dead, Asleep
  <2> QED
    BY <1>0, <2>1, <2>2 DEF GoneWaitForNothing, OverStaysOver, Gone
<1>10. CASE KillOtherThreads
  BY <1>0, <1>10 DEF GoneWaitForNothing, OverStaysOver, KillOtherThreads, EntriesInChild, Gone, Dead
<1>11. CASE EnterSchedule
  BY <1>0, <1>11 DEF GoneWaitForNothing, OverStaysOver, EnterSchedule, Gone, Dead
<1>12. CASE ScanTimeouts
  <2> DEFINE expired == {e.th : e \in LiveTimeouts \ Pending}
  <2>1. \A x \in expired : st[x] \notin Gone
    BY <1>0 DEF GoneWaitForNothing, LiveTimeouts, Entry
  <2>2. /\ st' = [t \in Threads |-> IF t \in expired THEN "ready" ELSE st[t]]
        /\ tmo' = [t \in Threads |-> IF t \in expired THEN 0 ELSE tmo[t]]
        /\ blk' = [t \in Threads |-> IF t \in expired THEN NoBlock ELSE blk[t]]
        /\ timeoutList' \subseteq timeoutList
    BY <1>12 DEF ScanTimeouts
  <2> HIDE DEF expired
  <2> QED
    BY <1>0, <2>1, <2>2 DEF GoneWaitForNothing, OverStaysOver, Gone, Dead
<1>13. CASE UnblockThreadsForIO
  <2> DEFINE S == UNION {Woken(f) : f \in Fds}
  <2>1. \A x \in S : st[x] \notin Gone
    <3>1. \A f \in Fds : \A x \in Woken(f) : x \in Threads /\ blk[x].on = "fd"
      BY DEF Inv, Typed, FdListMatchesSlot11, Woken
    <3> QED
      BY <1>0, <3>1 DEF GoneWaitForNothing, NoBlock
  <2>2. /\ st' = [t \in Threads |-> IF t \in S THEN "ready" ELSE st[t]]
        /\ tmo' = [t \in Threads |-> IF t \in S THEN 0 ELSE tmo[t]]
        /\ blk' = [t \in Threads |-> IF t \in S THEN NoBlock ELSE blk[t]]
        /\ timeoutList' \subseteq timeoutList
    BY <1>13 DEF UnblockThreadsForIO, ThreadBasicUnblock, RemoveFromTimeoutList
  <2> HIDE DEF S
  <2> QED
    BY <1>0, <2>1, <2>2 DEF GoneWaitForNothing, OverStaysOver, Gone, Dead
<1>14. CASE Switch
  BY <1>0, <1>14 DEF GoneWaitForNothing, OverStaysOver, Switch, Gone, Dead
<1>15. \A t \in Threads :
         t = ct /\ (Running("user") \/ Running("dying")) => st[t] \notin Dead
  BY <1>a DEF Running, Gone
<1> QED
  BY <1>1, <1>2, <1>3, <1>4, <1>5, <1>6, <1>7, <1>8, <1>9, <1>10, <1>11, <1>12, <1>13, <1>14,
     <1>15, <1>0, StepKinds DEF AbortPrimordial, EIntr, PollFailed, ForcePrimordial

-----------------------------------------------------------------------------
(* The theorems.                                                           *)

(* The inductive invariant holds in the initial state.                      *)
LEMMA InvInit == Init => Inv
<1> SUFFICES ASSUME Init PROVE Inv
  OBVIOUS
<1>1. IOCallsHaveFd /\ AwakeWaitForNothing /\ GoneWaitForNothing /\ CurrentThread
  BY ThreadsAssumption DEF Init, IOCallsHaveFd, AwakeWaitForNothing, GoneWaitForNothing,
     CurrentThread, Gone, Dead
<1>2. FdListMatchesSlot11 /\ ListedNotTimedOut
  BY DEF Init, FdListMatchesSlot11, ListedNotTimedOut, NoBlock
<1>3. Environments
  BY ThreadsAssumption DEF Init, Environments, OwnEnv
<1> QED
  BY <1>1, <1>2, <1>3, TypeInit DEF Inv

(* Every step keeps the inductive invariant.                                *)
LEMMA InvStep == Inv /\ [Next]_vars => Inv'
BY TypedStep, IOCallsStep, EnvironmentsStep, AwakeStep, FdListStep, ListedNotTimedOutStep,
   GoneStep, CurrentThreadStep DEF Inv

(* The inductive invariant holds in every reachable state: what the theorems *)
(* below are read off.                                                      *)
THEOREM Invariance == Spec => []Inv
BY InvInit, InvStep, PTL DEF Spec

(* Every variable always has its type.                                     *)
THEOREM TypeCorrect == Spec => []TypeOK
<1>1. Init => NoHandlers
  BY TypeInit
<1>2. Inv /\ NoHandlers /\ [Next]_vars => NoHandlers'
  BY NoHandlersStep DEF Inv
<1>3. Inv /\ NoHandlers => TypeOK
  BY DEF Inv, Typed, NoHandlers, TypeOK, Phases, OwnPoints
<1> QED
  BY <1>1, <1>2, <1>3, Invariance, PTL DEF Spec

(* "This should never be false, because otherwise the thread is not        *)
(* supposed to be on ##sys#fd-list" (create-fdset): as long as no signal   *)
(* handler runs inside a call, the fd-list and slot 11 agree.              *)
THEOREM FdListAgrees == Spec => []FdListMatchesSlot11
<1>1. Inv => FdListMatchesSlot11
  BY DEF Inv
<1> QED
  BY <1>1, Invariance, PTL

(* Hence the panic "unknown fd" cannot happen without such a handler: a    *)
(* thread that is listed under a descriptor is blocked on that descriptor. *)
THEOREM NoUnknownFd == Spec => [](\A f \in Fds : ~UnknownFd(f))
<1>1. Inv => \A f \in Fds : ~UnknownFd(f)
  BY DEF Inv, Typed, FdListMatchesSlot11, UnknownFd
<1> QED
  BY <1>1, Invariance, PTL

(* Nothing can queue a ready thread a second time: it is on no list and    *)
(* has no deadline.                                                        *)
THEOREM ReadyIsFree == Spec => []ReadyWaitsForNothing
<1>1. Inv => ReadyWaitsForNothing
  BY DEF Inv, AwakeWaitForNothing, ReadyWaitsForNothing
<1> QED
  BY <1>1, Invariance, PTL

(* A thread never runs in another thread's parameters.                     *)
THEOREM EnvironmentIsOwn == Spec => []OwnEnvironment
<1>1. Inv => OwnEnvironment
  BY DEF Inv, Environments, OwnEnvironment
<1> QED
  BY <1>1, Invariance, PTL

(* Whatever stale entries a dead thread leaves behind in the lists of      *)
(* others, it never becomes ready again.                                   *)
THEOREM TheDeadStayDead == Spec => DeadStayDead
<1>1. Inv /\ [Next]_vars => [\A t \in Threads : st[t] \in Dead => st'[t] \in {st[t], "suspended"}]_vars
  BY GoneStep DEF OverStaysOver
<1> QED
  BY <1>1, Invariance, PTL DEF Spec, DeadStayDead

(* Nor does a thread a fork has suspended.                                 *)
THEOREM TheSuspendedStaySuspended == Spec => SuspendedStaySuspended
<1>1. Inv /\ [Next]_vars => [\A t \in Threads : st[t] = "suspended" => st'[t] \in Dead \union {"suspended"}]_vars
  BY GoneStep DEF OverStaysOver, Gone
<1> QED
  BY <1>1, Invariance, PTL DEF Spec, SuspendedStaySuspended

(***************************************************************************)
(* Who waits and who is ready.  A ready thread is queued once, a waiting   *)
(* thread can be woken, a timeout is not early and the panic "deadlock" is *)
(* not a false alarm.  These rest on WInv, which adds to Inv what the      *)
(* ready queue, the timeout list, the recipients of a thread and the       *)
(* waiters of a mutex say about a thread's state, and what its deadline    *)
(* has to do with the call it is in.                                       *)
(***************************************************************************)

(* Every ready thread is in the ready queue; nobody is in it twice, and    *)
(* whoever else is in it has ended.                                        *)
QueueHoldsTheReady ==
  ~forked =>
    /\ IsInjective(readyQueue)
    /\ \A t \in Range(readyQueue) : st[t] \in {"ready"} \union Gone
    /\ \A t \in Threads : st[t] = "ready" => t \in Range(readyQueue)

(* The thread that executes has not been made ready: it is running, or has *)
(* begun to wait or has ended, and goes on until it calls ##sys#schedule.  *)
CurrentIsAwake == phase = "run" => st[ct] \in {"running"} \union Asleep \union Dead

(* A waiting thread waits for something; its deadline is on the timeout    *)
(* list and is that of its call; the thread or the mutex it waits for      *)
(* knows of it and can still wake it.                                      *)
WellListed(t) ==
  st[t] \in Asleep =>
    /\ tmo[t] # 0 => [tm |-> tmo[t], th |-> t] \in timeoutList /\ call[t].dl = tmo[t]
    /\ tmo[t] # 0 \/ blk[t] # NoBlock
    /\ ~forked => \A x \in Threads :
         blk[t] = OnThread(x) => t \in recip[x] /\ st[x] \notin Dead
    /\ ~forked => \A m \in Mutexes :
         blk[t] = OnMutex(m) => t \in waiters[m] /\ Locked(m)

(* The scheduler sleeps when nobody is ready, and so does the thread a     *)
(* signal finds it in.                                                     *)
SleepsAlone ==
  ~forked => /\ phase = "msleep" => readyQueue = <<>>
             /\ phase \in {"eintr", "polled"} => st[ct] # "ready"

(* When the scheduler panics all of its lists are empty.                   *)
DeadlockIsEmpty ==
  phase = "deadlock" => readyQueue = <<>> /\ timeoutList = {} /\ FdsListed = {}

(* What the lists say of a thread's state, and its state of the lists.     *)
ListsInv ==
  /\ Inv
  /\ QueueHoldsTheReady
  /\ CurrentIsAwake
  /\ SleepsAlone
  /\ \A t \in Threads : WellListed(t)
  /\ DeadlockIsEmpty

(* Only the thread that has the processor is running.                      *)
OnlyCurrentRuns == \A t \in Threads : st[t] = "running" => phase = "run" /\ t = ct

(* A call whose thread has slot 13 set had a deadline, which has passed;   *)
(* or slot 13 is left from an earlier one and the call does not wait at    *)
(* all, so that ##sys#schedule will clear it.                              *)
TimedOutLate(t) ==
  /\ pc[t] \in {"yield", "woken"} /\ byTmo[t] /\ st[t] \notin Gone
  /\ call[t].obj.on # "mutex"
  => \/ pc[t] = "yield" /\ st[t] = "running"
     \/ call[t].dl # 0 /\ call[t].dl <= now

WInv ==
  /\ ListsInv
  /\ OnlyCurrentRuns
  /\ \A t \in Threads : TimedOutLate(t)

-----------------------------------------------------------------------------
(* The ready queue.                                                        *)

(* An order of a set of threads has each of them once.                     *)
LEMMA PermutationRange ==
  ASSUME NEW S \in SUBSET Threads, NEW w \in SetToSeqs(S)
  PROVE  w \in Seq(Threads) /\ IsInjective(w) /\ Range(w) = S
<1>1. IsFiniteSet(S)
  BY ThreadsAssumption, FS_Subset
<1> DEFINE n == Cardinality(S)
<1>2. n \in Nat
  BY <1>1, FS_CardinalityType
<1>3. w \in [1 .. n -> S] /\ \A i, j \in 1 .. n : i # j => w[i] # w[j]
  BY DEF SetToSeqs
<1>4. IsInjective(w)
  BY <1>3 DEF IsInjective
<1>5. Cardinality(1 .. n) = n
  BY <1>2, FS_Interval
<1>6. w \in Injection(1 .. n, S)
  BY <1>3, <1>4 DEF Injection
<1>7. w \in Surjection(1 .. n, S)
  BY <1>1, <1>5, <1>6, FS_Injection
<1>8. Range(w) = S
  BY <1>3, <1>7 DEF Surjection, Range
<1> QED
  BY <1>4, <1>8, PermutationType

(* Threads that are not in the queue can be appended to it.                *)
LEMMA ConcatInjective ==
  ASSUME NEW q \in Seq(Threads), NEW w \in Seq(Threads), IsInjective(q), IsInjective(w),
         Range(q) \intersect Range(w) = {}
  PROVE  IsInjective(q \o w) /\ Range(q \o w) = Range(q) \union Range(w)
<1>1. /\ Len(q) \in Nat /\ DOMAIN q = 1 .. Len(q)
      /\ Len(w) \in Nat /\ DOMAIN w = 1 .. Len(w)
  BY LenProperties
<1>2. /\ q \o w \in Seq(Threads) /\ Len(q \o w) = Len(q) + Len(w)
      /\ \A i \in 1 .. Len(q) + Len(w) : (q \o w)[i] = IF i <= Len(q) THEN q[i] ELSE w[i - Len(q)]
  BY ConcatProperties
<1>3. DOMAIN (q \o w) = 1 .. Len(q) + Len(w)
  BY <1>2, LenProperties
<1>4. ASSUME NEW i \in 1 .. Len(q) + Len(w), NEW j \in 1 .. Len(q) + Len(w),
             (q \o w)[i] = (q \o w)[j]
      PROVE  i = j
  <2>1. CASE i <= Len(q) /\ j <= Len(q)
    <3>1. i \in DOMAIN q /\ j \in DOMAIN q /\ q[i] = q[j]
      BY <1>1, <1>2, <1>4, <2>1
    <3> QED
      BY <3>1 DEF IsInjective
  <2>2. CASE i > Len(q) /\ j > Len(q)
    <3>1. /\ i - Len(q) \in DOMAIN w /\ j - Len(q) \in DOMAIN w
          /\ w[i - Len(q)] = w[j - Len(q)]
      BY <1>1, <1>2, <1>4, <2>2
    <3>2. i - Len(q) = j - Len(q)
      BY <3>1 DEF IsInjective
    <3> QED
      BY <1>1, <3>2
  <2>3. CASE i <= Len(q) /\ j > Len(q)
    <3>1. i \in DOMAIN q /\ j - Len(q) \in DOMAIN w /\ q[i] = w[j - Len(q)]
      BY <1>1, <1>2, <1>4, <2>3
    <3> QED
      BY <3>1 DEF Range
  <2>4. CASE i > Len(q) /\ j <= Len(q)
    <3>1. j \in DOMAIN q /\ i - Len(q) \in DOMAIN w /\ q[j] = w[i - Len(q)]
      BY <1>1, <1>2, <1>4, <2>4
    <3> QED
      BY <3>1 DEF Range
  <2> QED
    BY <1>1, <2>1, <2>2, <2>3, <2>4
<1>5. IsInjective(q \o w)
  BY <1>3, <1>4 DEF IsInjective
<1>6. Range(q \o w) = Range(q) \union Range(w)
  BY RangeConcatenation
<1> QED
  BY <1>5, <1>6

(* ##sys#add-to-ready-queue, called for each member of a set.              *)
LEMMA EnqueuedRange ==
  ASSUME NEW q \in Seq(Threads), IsInjective(q), NEW S \in SUBSET Threads,
         S \intersect Range(q) = {}, NEW r \in Enqueued(q, S)
  PROVE  r \in Seq(Threads) /\ IsInjective(r) /\ Range(r) = Range(q) \union S
<1>1. PICK w \in SetToSeqs(S) : r = q \o w
  BY DEF Enqueued
<1>2. w \in Seq(Threads) /\ IsInjective(w) /\ Range(w) = S
  BY PermutationRange
<1>3. IsInjective(q \o w) /\ Range(q \o w) = Range(q) \union Range(w)
  BY <1>2, ConcatInjective
<1> QED
  BY <1>1, <1>2, <1>3, ConcatProperties

(* ##sys#add-to-ready-queue on one thread.                                 *)
LEMMA AppendRange ==
  ASSUME NEW q \in Seq(Threads), IsInjective(q), NEW t \in Threads, t \notin Range(q)
  PROVE  IsInjective(Append(q, t)) /\ Range(Append(q, t)) = Range(q) \union {t}
<1>1. <<t>> \in Seq(Threads) /\ IsInjective(<<t>>) /\ Range(<<t>>) = {t}
  BY DEF IsInjective, Range
<1>2. Append(q, t) = q \o <<t>>
  BY AppendIsConcat
<1>3. Range(q) \intersect Range(<<t>>) = {}
  BY <1>1
<1>4. IsInjective(q \o <<t>>) /\ Range(q \o <<t>>) = Range(q) \union Range(<<t>>)
  BY <1>1, <1>3, ConcatInjective
<1> QED
  BY <1>1, <1>2, <1>4

(* Taking the first thread from the queue removes it altogether.           *)
LEMMA TailRange ==
  ASSUME NEW q \in Seq(Threads), IsInjective(q), q # <<>>
  PROVE  /\ Head(q) \in Range(q)
         /\ IsInjective(Tail(q)) /\ Range(Tail(q)) = Range(q) \ {Head(q)}
<1>1. /\ Tail(q) \in Seq(Threads) /\ Len(Tail(q)) = Len(q) - 1
      /\ \A i \in 1 .. Len(Tail(q)) : Tail(q)[i] = q[i + 1]
  BY HeadTailProperties
<1>2. Len(q) \in Nat /\ DOMAIN q = 1 .. Len(q) /\ Len(q) # 0
  BY LenProperties, EmptySeq
<1>3. DOMAIN Tail(q) = 1 .. Len(q) - 1
  BY <1>1, LenProperties
<1>4. Head(q) = q[1] /\ 1 \in DOMAIN q
  BY <1>2
<1>5. \A i \in 1 .. Len(q) - 1 : i + 1 \in DOMAIN q /\ Tail(q)[i] = q[i + 1]
  BY <1>1, <1>2
<1>6. IsInjective(Tail(q))
  <2> SUFFICES ASSUME NEW i \in 1 .. Len(q) - 1, NEW j \in 1 .. Len(q) - 1,
                      Tail(q)[i] = Tail(q)[j]
               PROVE  i = j
    BY <1>3 DEF IsInjective
  <2>1. i + 1 = j + 1
    BY <1>5 DEF IsInjective
  <2> QED
    BY <1>2, <2>1
<1>7. ASSUME NEW t \in Range(Tail(q)) PROVE t \in Range(q) \ {Head(q)}
  <2>1. PICK i \in 1 .. Len(q) - 1 : t = Tail(q)[i]
    BY <1>3 DEF Range
  <2>2. i + 1 # 1
    BY <1>2
  <2>3. q[i + 1] # q[1]
    BY <1>4, <1>5, <2>2 DEF IsInjective
  <2> QED
    BY <1>4, <1>5, <2>1, <2>3 DEF Range
<1>8. ASSUME NEW t \in Range(q), t # Head(q) PROVE t \in Range(Tail(q))
  <2>1. PICK j \in 1 .. Len(q) : t = q[j]
    BY <1>2 DEF Range
  <2>2. j # 1
    BY <1>4, <1>8, <2>1
  <2>3. j - 1 \in 1 .. Len(q) - 1 /\ j - 1 + 1 = j
    BY <1>2, <2>2
  <2>4. Tail(q)[j - 1] = q[j]
    BY <1>5, <2>3
  <2> QED
    BY <1>3, <2>1, <2>3, <2>4 DEF Range
<1> QED
  BY <1>4, <1>6, <1>7, <1>8 DEF Range
-----------------------------------------------------------------------------
(* The kinds of steps.                                                     *)

(* The threads of W, all asleep, are made ready; the live entries of the   *)
(* others stay on the timeout list.                                        *)
Wakes(W) ==
  /\ W \subseteq {t \in Threads : st[t] \in Asleep}
  /\ st' = [t \in Threads |-> IF t \in W THEN "ready" ELSE st[t]]
  /\ tmo' = [t \in Threads |-> IF t \in W THEN 0 ELSE tmo[t]]
  /\ blk' = [t \in Threads |-> IF t \in W THEN NoBlock ELSE blk[t]]
  /\ readyQueue' \in Enqueued(readyQueue, W)
  /\ \A e \in timeoutList : e.th \notin W /\ e.tm = tmo[e.th] => e \in timeoutList'
  /\ UNCHANGED <<recip, owned, call, mutexes, ct, prim, forked, now>>

(* The current thread begins to wait, or takes a mutex.                    *)
Registers ==
  /\ phase = "run" /\ st[ct] \in {"running"} \union Asleep /\ blk[ct] = NoBlock
  /\ st'[ct] \in {"running"} \union Asleep
  /\ \A t \in Threads \ {ct} :
       /\ st'[t] = st[t] /\ tmo'[t] = tmo[t] /\ blk'[t] = blk[t]
       /\ call'[t] = call[t] /\ pc'[t] = pc[t] /\ byTmo'[t] = byTmo[t]
  /\ timeoutList \subseteq timeoutList'
  /\ \A x \in Threads : recip[x] \subseteq recip'[x] /\ owned[x] \subseteq owned'[x]
  /\ \A m \in Mutexes : waiters[m] \subseteq waiters'[m]
  /\ \A m \in Mutexes : \A t \in waiters'[m] \ waiters[m] :
       t = ct /\ st'[t] \in Asleep /\ blk'[t] = OnMutex(m) /\ tmo'[t] = 0
  /\ WellListed(ct)' /\ TimedOutLate(ct)'
  /\ UNCHANGED <<readyQueue, abandoned, control, world>>

(* A thread that waits for an object is asleep.                            *)
LEMMA BlockedAreAsleep ==
  ASSUME Inv, NEW t \in Threads, blk[t] # NoBlock
  PROVE  st[t] \in Asleep
<1>1. st[t] \in State
  BY DEF Inv, Typed
<1>2. st[t] \notin {"created", "ready", "running"} /\ st[t] \notin Gone
  BY DEF Inv, AwakeWaitForNothing, GoneWaitForNothing
<1> QED
  BY <1>1, <1>2 DEF State, Gone

(* So is one that has a live entry on the timeout list.                    *)
LEMMA LiveAreAsleep ==
  ASSUME Inv, NEW e \in LiveTimeouts
  PROVE  e.th \in Threads /\ st[e.th] \in Asleep /\ e.tm # 0 /\ e.tm \in Nat
<1>1. e \in Entry /\ tmo[e.th] = e.tm /\ e \in timeoutList
  BY DEF Inv, Typed, LiveTimeouts
<1>2. e.th \in Threads /\ e.tm # 0 /\ e.tm \in Nat
  BY <1>1, BoundsAssumption DEF Entry, Deadlines
<1>3. st[e.th] \in State
  BY <1>2 DEF Inv, Typed
<1>4. st[e.th] \notin {"created", "ready", "running"} /\ st[e.th] \notin Gone
  BY <1>1, <1>2 DEF Inv, AwakeWaitForNothing, GoneWaitForNothing
<1> QED
  BY <1>2, <1>3, <1>4 DEF State, Gone

(* ##sys#thread-unblock! wakes threads that are asleep.                    *)
LEMMA UnblockWakes ==
  ASSUME Inv, NEW S \in SUBSET Threads, ThreadUnblock(S),
         UNCHANGED <<recip, owned, call, mutexes, ct, prim, forked, now>>
  PROVE  Wakes({t \in S : st[t] \in Asleep})
BY DEF ThreadUnblock, ThreadBasicUnblock, RemoveFromTimeoutList, Wakes

(* What makes threads ready from inside ##sys#schedule, or when an         *)
(* exception is handed to the primordial thread.                           *)
LEMMA WakingSteps ==
  ASSUME Inv, AbortPrimordial \/ EIntr \/ PollFailed \/ ScanTimeouts \/ UnblockThreadsForIO
  PROVE  \E W \in SUBSET Threads : Wakes(W)
<1> USE DEF control, world
<1>0. prim \in Threads
  BY DEF Inv, Typed
<1>1. CASE AbortPrimordial \/ EIntr \/ PollFailed
  <2>1. /\ ThreadUnblock({prim})
        /\ UNCHANGED <<recip, owned, call, mutexes, ct, prim, forked, now>>
    BY <1>1 DEF AbortPrimordial, EIntr, PollFailed, ForcePrimordial, mutexes, conts
  <2>2. Wakes({t \in {prim} : st[t] \in Asleep})
    BY <1>0, <2>1, UnblockWakes
  <2>3. {t \in {prim} : st[t] \in Asleep} \in SUBSET Threads
    BY <1>0
  <2> QED
    BY <2>2, <2>3
<1>2. CASE ScanTimeouts
  <2> DEFINE expired == {e.th : e \in LiveTimeouts \ Pending}
  <2>1. expired \subseteq {t \in Threads : st[t] \in Asleep}
    BY LiveAreAsleep
  <2>2. readyQueue' \in Enqueued(readyQueue, expired)
    BY <1>2 DEF ScanTimeouts, Enqueued
  <2>3. \A e \in timeoutList : e.th \notin expired /\ e.tm = tmo[e.th] => e \in timeoutList'
    <3> SUFFICES ASSUME NEW e \in timeoutList, e.th \notin expired, e.tm = tmo[e.th]
                 PROVE  e \in timeoutList'
      OBVIOUS
    <3>1. e \in LiveTimeouts /\ e \in Pending
      BY DEF LiveTimeouts, Pending
    <3>2. e.tm <= e.tm
      BY <3>1, LiveAreAsleep
    <3> QED
      BY <1>2, <3>1, <3>2 DEF ScanTimeouts
  <2>4. /\ st' = [t \in Threads |-> IF t \in expired THEN "ready" ELSE st[t]]
        /\ tmo' = [t \in Threads |-> IF t \in expired THEN 0 ELSE tmo[t]]
        /\ blk' = [t \in Threads |-> IF t \in expired THEN NoBlock ELSE blk[t]]
        /\ UNCHANGED <<recip, owned, call, mutexes, ct, prim, forked, now>>
    BY <1>2 DEF ScanTimeouts, conts
  <2> HIDE DEF expired
  <2> QED
    BY <2>1, <2>2, <2>3, <2>4 DEF Wakes
<1>3. CASE UnblockThreadsForIO
  <2> DEFINE S == UNION {Woken(f) : f \in Fds}
  <2>1. S \subseteq {t \in Threads : st[t] \in Asleep}
    <3>1. \A f \in Fds : \A t \in Woken(f) : t \in Threads /\ blk[t] # NoBlock
      BY DEF Inv, Typed, FdListMatchesSlot11, Woken, NoBlock
    <3> QED
      BY <3>1, BlockedAreAsleep
  <2>2. /\ ThreadBasicUnblock(S)
        /\ timeoutList' = RemoveFromTimeoutList(timeoutList, {t \in S : tmo[t] # 0})
        /\ UNCHANGED <<recip, owned, call, mutexes, ct, prim, forked, now>>
    BY <1>3 DEF UnblockThreadsForIO, conts
  <2>3. \A e \in timeoutList : e.th \notin S => e \in timeoutList'
    BY <2>2 DEF RemoveFromTimeoutList
  <2> HIDE DEF S
  <2> QED
    BY <2>1, <2>2, <2>3 DEF Wakes, ThreadBasicUnblock
<1> QED
  BY <1>1, <1>2, <1>3

(* What the invariants say of the current thread before it begins to wait. *)
LEMMA CurrentIsFree ==
  ASSUME ListsInv, phase = "run", pc[ct] \notin {"io", "yield"}
  PROVE  /\ ct \in Threads /\ st[ct] = "running"
         /\ tmo[ct] = 0 /\ blk[ct] = NoBlock
BY DEF ListsInv, Inv, Typed, CurrentThread, AwakeWaitForNothing

(* Whatever the current thread begins to wait for knows of it: a sleep.    *)
LEMMA SleepRegisters ==
  ASSUME ListsInv, NEW tm \in {0} \union Deadlines, Sleep(tm)
  PROVE  Registers
<1> USE DEF conts, control, world, mutexes
<1>0. /\ ct \in Threads /\ st[ct] = "running" /\ tmo[ct] = 0 /\ blk[ct] = NoBlock
      /\ phase = "run"
  BY CurrentIsFree DEF Sleep, Running
<1>1. /\ st \in [Threads -> State] /\ tmo \in [Threads -> Nat] /\ byTmo \in [Threads -> BOOLEAN]
      /\ pc \in [Threads -> Points]
      /\ call \in [Threads -> [obj : BlockObject, dl : 0 .. MaxTime]]
  BY DEF ListsInv, Inv, Typed
<1>2. /\ st'[ct] \in {"running"} \union Asleep
      /\ \A t \in Threads \ {ct} :
           /\ st'[t] = st[t] /\ tmo'[t] = tmo[t] /\ blk'[t] = blk[t]
           /\ call'[t] = call[t] /\ pc'[t] = pc[t] /\ byTmo'[t] = byTmo[t]
      /\ timeoutList \subseteq timeoutList'
      /\ UNCHANGED <<readyQueue, recip, owned, mutexes, control, world>>
  BY <1>0, <1>1 DEF Sleep, BlockForTimeout, Asleep
<1>3. WellListed(ct)'
  BY <1>0, <1>1 DEF Sleep, BlockForTimeout, WellListed, Asleep, NoBlock, OnThread, OnMutex
<1>4. TimedOutLate(ct)'
  BY <1>0, <1>1 DEF Sleep, BlockForTimeout, TimedOutLate
<1> QED
  BY <1>0, <1>2, <1>3, <1>4 DEF Registers

(* A wait for a descriptor.                                                *)
LEMMA WaitForIORegisters ==
  ASSUME ListsInv, NEW f \in Fds, NEW d \in Dirs, NEW dl \in Nat, WaitForIO(f, d, dl),
         Running("user") \/ Running("woken")
  PROVE  Registers
<1> USE DEF conts, control, world, mutexes
<1>0. /\ ct \in Threads /\ st[ct] = "running" /\ tmo[ct] = 0 /\ blk[ct] = NoBlock
      /\ phase = "run"
  BY CurrentIsFree DEF Running
<1>1. /\ st \in [Threads -> State] /\ tmo \in [Threads -> Nat] /\ byTmo \in [Threads -> BOOLEAN]
      /\ blk \in [Threads -> BlockObject]
      /\ pc \in [Threads -> Points]
      /\ call \in [Threads -> [obj : BlockObject, dl : 0 .. MaxTime]]
  BY DEF ListsInv, Inv, Typed
<1>2. /\ st'[ct] \in {"running"} \union Asleep
      /\ \A t \in Threads \ {ct} :
           /\ st'[t] = st[t] /\ tmo'[t] = tmo[t] /\ blk'[t] = blk[t]
           /\ call'[t] = call[t] /\ pc'[t] = pc[t] /\ byTmo'[t] = byTmo[t]
      /\ timeoutList \subseteq timeoutList'
      /\ UNCHANGED <<readyQueue, recip, owned, mutexes, control, world>>
  BY <1>0, <1>1 DEF WaitForIO, BlockForTimeout, BlockForIO, Asleep
<1>3. WellListed(ct)'
  BY <1>0, <1>1 DEF WaitForIO, BlockForTimeout, BlockForIO, WellListed, Asleep, NoBlock, OnFd,
     OnThread, OnMutex
<1>4. TimedOutLate(ct)'
  BY <1>0, <1>1 DEF WaitForIO, BlockForTimeout, BlockForIO, TimedOutLate
<1> QED
  BY <1>0, <1>2, <1>3, <1>4 DEF Registers

(* The second half of one with a deadline.                                 *)
LEMMA ContinueIORegisters ==
  ASSUME ListsInv, ContinueIO
  PROVE  Registers
<1> USE DEF conts, control, world, mutexes
<1>0. /\ ct \in Threads /\ phase = "run" /\ pc[ct] = "io" /\ blk[ct] = NoBlock
      /\ st[ct] \in {"running"} \union Asleep
      /\ st[ct] = "running" => tmo[ct] = 0
  BY DEF ListsInv, Inv, Typed, CurrentThread, CurrentIsAwake, ContinueIO, Running, Gone,
     AwakeWaitForNothing
<1>1. /\ st \in [Threads -> State] /\ tmo \in [Threads -> Nat] /\ byTmo \in [Threads -> BOOLEAN]
      /\ blk \in [Threads -> BlockObject]
      /\ pc \in [Threads -> Points]
      /\ WellListed(ct)
  BY <1>0 DEF ListsInv, Inv, Typed
<1>2. /\ st'[ct] \in {"running"} \union Asleep
      /\ \A t \in Threads \ {ct} :
           /\ st'[t] = st[t] /\ tmo'[t] = tmo[t] /\ blk'[t] = blk[t]
           /\ call'[t] = call[t] /\ pc'[t] = pc[t] /\ byTmo'[t] = byTmo[t]
      /\ UNCHANGED <<timeoutList, readyQueue, recip, owned, mutexes, control, world>>
  BY <1>0, <1>1 DEF ContinueIO, BlockForIO, Asleep
<1>3. WellListed(ct)'
  BY <1>0, <1>1 DEF ContinueIO, BlockForIO, WellListed, Asleep, NoBlock, OnFd, OnThread, OnMutex
<1>4. TimedOutLate(ct)'
  BY <1>0, <1>1 DEF ContinueIO, BlockForIO, TimedOutLate
<1> QED
  BY <1>0, <1>2, <1>3, <1>4 DEF Registers

(* thread-join!, with or without a deadline.                               *)
LEMMA JoinRegisters ==
  ASSUME ListsInv, NEW x \in Threads, NEW dl \in {0} \union Deadlines, Join(x, dl)
  PROVE  Registers
<1> USE DEF conts, control, world, mutexes
<1>0. /\ ct \in Threads /\ st[ct] = "running" /\ tmo[ct] = 0 /\ blk[ct] = NoBlock
      /\ phase = "run"
  BY CurrentIsFree DEF Join, Running
<1>1. /\ st \in [Threads -> State] /\ tmo \in [Threads -> Nat] /\ byTmo \in [Threads -> BOOLEAN]
      /\ blk \in [Threads -> BlockObject] /\ recip \in [Threads -> SUBSET Threads]
      /\ pc \in [Threads -> Points]
      /\ call \in [Threads -> [obj : BlockObject, dl : 0 .. MaxTime]]
  BY DEF ListsInv, Inv, Typed
<1>2. /\ st'[ct] \in {"running"} \union Asleep
      /\ \A t \in Threads \ {ct} :
           /\ st'[t] = st[t] /\ tmo'[t] = tmo[t] /\ blk'[t] = blk[t]
           /\ call'[t] = call[t] /\ pc'[t] = pc[t] /\ byTmo'[t] = byTmo[t]
      /\ timeoutList \subseteq timeoutList'
      /\ \A t \in Threads : recip[t] \subseteq recip'[t]
      /\ UNCHANGED <<readyQueue, owned, mutexes, control, world>>
  BY <1>0, <1>1 DEF Join, BlockForTermination, Asleep
<1>3. WellListed(ct)'
  <2>1. /\ st' = [st EXCEPT ![ct] = "blocked"] /\ tmo'[ct] = dl /\ call'[ct].dl = dl
        /\ blk'[ct] = OnThread(x) /\ ct \in recip'[x] /\ st[x] \notin Dead /\ ct' = ct
    BY <1>0, <1>1 DEF Join, BlockForTermination
  <2>2. dl # 0 => [tm |-> dl, th |-> ct] \in timeoutList'
    BY DEF Join
  <2>3. st'[x] \notin Dead
    BY <1>0, <1>1, <2>1 DEF Dead
  <2>4. \A t \in Threads : OnThread(x) = OnThread(t) => t = x
    BY DEF OnThread
  <2>5. OnThread(x) # NoBlock /\ \A m \in Mutexes : OnThread(x) # OnMutex(m)
    BY DEF OnThread, NoBlock, OnMutex
  <2> QED
    BY <2>1, <2>2, <2>3, <2>4, <2>5 DEF WellListed
<1>4. TimedOutLate(ct)'
  BY <1>0, <1>1 DEF Join, BlockForTermination, TimedOutLate
<1> QED
  BY <1>0, <1>2, <1>3, <1>4 DEF Registers

(* mutex-lock!, on a free or a locked mutex.                               *)
LEMMA LockRegisters ==
  ASSUME ListsInv, NEW m \in Mutexes, Lock(m)
  PROVE  Registers
<1> USE DEF conts, control, world, mutexes, queues
<1>0. /\ ct \in Threads /\ st[ct] = "running" /\ tmo[ct] = 0 /\ blk[ct] = NoBlock
      /\ phase = "run" /\ pc[ct] = "user"
  BY CurrentIsFree DEF Lock, Running
<1>1. /\ st \in [Threads -> State] /\ blk \in [Threads -> BlockObject]
      /\ owned \in [Threads -> SUBSET Mutexes] /\ waiters \in [Mutexes -> SUBSET Threads]
      /\ pc \in [Threads -> Points]
      /\ call \in [Threads -> [obj : BlockObject, dl : 0 .. MaxTime]]
  BY DEF ListsInv, Inv, Typed
<1>2. /\ st'[ct] \in {"running"} \union Asleep
      /\ \A t \in Threads \ {ct} :
           /\ st'[t] = st[t] /\ tmo'[t] = tmo[t] /\ blk'[t] = blk[t]
           /\ call'[t] = call[t] /\ pc'[t] = pc[t] /\ byTmo'[t] = byTmo[t]
  BY <1>0, <1>1 DEF Lock, Asleep
<1>o. \A t \in Threads : owned[t] \subseteq owned'[t]
  BY <1>1 DEF Lock
<1>w. \A n \in Mutexes : waiters[n] \subseteq waiters'[n]
  BY <1>1 DEF Lock
<1>n. \A n \in Mutexes : \A t \in waiters'[n] \ waiters[n] :
        t = ct /\ st'[t] \in Asleep /\ blk'[t] = OnMutex(n) /\ tmo'[t] = 0
  <2> SUFFICES ASSUME NEW n \in Mutexes, NEW t \in waiters'[n] \ waiters[n]
               PROVE  t = ct /\ st'[t] \in Asleep /\ blk'[t] = OnMutex(n) /\ tmo'[t] = 0
    OBVIOUS
  <2>1. /\ waiters' = [waiters EXCEPT ![m] = @ \union {ct}]
        /\ st' = [st EXCEPT ![ct] = "sleeping"] /\ blk' = [blk EXCEPT ![ct] = OnMutex(m)]
        /\ tmo' = tmo
    BY DEF Lock
  <2>2. n = m /\ t = ct
    BY <1>1, <2>1
  <2> QED
    BY <1>0, <1>1, <2>1, <2>2 DEF Asleep
<1>u. UNCHANGED <<timeoutList, readyQueue, recip, abandoned, control, world>>
  BY DEF Lock
<1>3. WellListed(ct)'
  BY <1>0, <1>1 DEF Lock, Locked, WellListed, Asleep, NoBlock, OnThread, OnMutex
<1>4. TimedOutLate(ct)'
  BY <1>0, <1>1 DEF Lock, TimedOutLate, OnMutex
<1> QED
  BY <1>0, <1>2, <1>3, <1>4, <1>o, <1>w, <1>n, <1>u DEF Registers

(* Thread t ends: the current thread, or another one it terminates.        *)
Kills(t, s) ==
  /\ ThreadKill(t, s) /\ phase = "run" /\ st[t] \notin Dead /\ st[ct] = "running"
  /\ \/ t # ct /\ UNCHANGED pc
     \/ t = ct /\ pc' = [pc EXCEPT ![ct] = "yield"]
  /\ UNCHANGED <<byTmo, call, control, world>>

(* The current thread calls ##sys#schedule, of itself or interrupted.      *)
Enters ==
  /\ EnterSchedule /\ phase = "run"
  /\ \/ pc[ct] = "user" /\ UNCHANGED pc
     \/ pc[ct] = "yield" /\ pc' = [pc EXCEPT ![ct] = "woken"]

(* The steps that make waiting threads ready.                              *)
Waking == AbortPrimordial \/ EIntr \/ PollFailed \/ ScanTimeouts \/ UnblockThreadsForIO

(* Every step is one of eight.                                             *)
LEMMA WaitStepKinds ==
  ASSUME ListsInv, [Next]_vars
  PROVE  \/ Elsewhere
         \/ Registers
         \/ \E t \in Threads : Start(t)
         \/ \E t \in Threads, s \in Dead : Kills(t, s)
         \/ KillOtherThreads
         \/ Enters
         \/ Waking /\ \E W \in SUBSET Threads : Wakes(W)
         \/ Switch
<1>0. Inv /\ ct \in Threads /\ "terminated" \in Dead
  BY DEF ListsInv, Inv, Typed, Dead
<1>1. \A tm \in {0} \union Deadlines : Sleep(tm) => Registers
  BY SleepRegisters
<1>2. ASSUME NEW f \in Fds, NEW d \in Dirs, NEW dl \in {0} \union Deadlines, StartIO(f, d, dl)
      PROVE  Registers
  <2>1. dl \in Nat
    BY DEF Deadlines
  <2> QED
    BY <1>2, <2>1, WaitForIORegisters DEF StartIO
<1>3. ASSUME Retry PROVE Registers
  <2>1. call[ct] \in [obj : BlockObject, dl : 0 .. MaxTime] /\ call[ct].obj.on = "fd"
    BY <1>0, <1>3 DEF Retry, Useless, Inv, Typed
  <2>2. call[ct].obj \in FdBlock /\ call[ct].dl \in Nat
    BY <2>1 DEF BlockObject, NoBlock, ThreadBlock, MutexBlock
  <2>3. call[ct].obj.fd \in Fds /\ call[ct].obj.dir \in Dirs
    BY <2>2, ObjectTypes
  <2> QED
    BY <1>3, <2>2, <2>3, WaitForIORegisters DEF Retry
<1>4. \A x \in Threads, dl \in {0} \union Deadlines : Join(x, dl) => Registers
  BY JoinRegisters
<1>5. \A m \in Mutexes : Lock(m) => Registers
  BY LockRegisters
<1>6. \A s \in Dead : End(s) => Kills(ct, s)
  BY CurrentIsFree DEF End, Kills, Running, Dead
<1>7. FinishAbort => Kills(ct, "terminated")
  BY CurrentIsFree DEF FinishAbort, Kills, Running, Dead
<1>8. \A t \in Threads : Terminate(t) => Kills(t, "terminated")
  BY CurrentIsFree DEF Terminate, Kills, Running, conts
<1>9. Yield \/ TimerInterrupt => Enters
  BY DEF Yield, TimerInterrupt, Enters, Running
<1>10. Waking => \E W \in SUBSET Threads : Wakes(W)
  BY <1>0, WakingSteps DEF Waking
<1> QED
  BY <1>0, <1>1, <1>2, <1>3, <1>4, <1>5, <1>6, <1>7, <1>8, <1>9, <1>10, ContinueIORegisters
     DEF Next, ThreadStep, ScheduleStep, Elsewhere, Waking

-----------------------------------------------------------------------------
(* The ready queue holds the ready threads.                                *)

(* The threads that are not in the queue: whoever is neither ready nor has *)
(* ended.                                                                  *)
LEMMA NotQueued ==
  ASSUME QueueHoldsTheReady, ~forked, NEW t \in Threads,
         st[t] \in {"created", "running"} \union Asleep
  PROVE  t \notin Range(readyQueue)
BY DEF QueueHoldsTheReady, Asleep, Gone, Dead

(* No step loses a ready thread or queues a thread a second time.          *)
LEMMA QueueStep ==
  ASSUME ListsInv, [Next]_vars
  PROVE  QueueHoldsTheReady'
<1> USE DEF conts, control, world, queues, slots, mutexes
<1>0. /\ Inv /\ QueueHoldsTheReady /\ CurrentIsAwake
      /\ ct \in Threads /\ readyQueue \in Seq(Threads)
      /\ st \in [Threads -> State]
  BY DEF ListsInv, Inv, Typed
<1>1. CASE Elsewhere
  <2>1. CASE DropUnready
    <3>1. readyQueue # <<>> /\ readyQueue' = Tail(readyQueue) /\ st[Head(readyQueue)] # "ready"
          /\ UNCHANGED <<st, forked>>
      BY <2>1 DEF DropUnready
    <3> QED
      BY <1>0, <3>1, TailRange DEF QueueHoldsTheReady
  <2>2. CASE UNCHANGED <<st, readyQueue, forked>>
    BY <1>0, <2>2 DEF QueueHoldsTheReady
  <2> QED
    BY <1>1, <2>1, <2>2 DEF Elsewhere, Raise, Return, SleepOver, SleepInterrupted,
       PollInterrupted, NoFds, NobodyReady, WorldStep, Tick, FdBecomesReady, vars
<1>2. CASE Registers
  <2> SUFFICES ASSUME ~forked PROVE QueueHoldsTheReady'
    BY <1>2 DEF Registers, QueueHoldsTheReady
  <2>1. ct \notin Range(readyQueue)
    BY <1>0, <1>2, NotQueued DEF Registers
  <2>2. \A t \in Threads \ {ct} : st'[t] = st[t]
    BY <1>2 DEF Registers
  <2>3. st'[ct] # "ready" /\ readyQueue' = readyQueue
    BY <1>2 DEF Registers, Asleep
  <2>4. Range(readyQueue) \subseteq Threads
    BY <1>0, RangeOfSeq
  <2> QED
    BY <1>0, <2>1, <2>2, <2>3, <2>4 DEF QueueHoldsTheReady
<1>3. ASSUME NEW t \in Threads, Start(t) PROVE QueueHoldsTheReady'
  <2> SUFFICES ASSUME ~forked PROVE QueueHoldsTheReady'
    BY <1>3 DEF Start, QueueHoldsTheReady
  <2>1. /\ st[t] = "created" /\ st' = [st EXCEPT ![t] = "ready"]
        /\ readyQueue' = Append(readyQueue, t)
    BY <1>3 DEF Start, AddToReadyQueue
  <2>2. t \notin Range(readyQueue)
    BY <1>0, <2>1, NotQueued
  <2>3. IsInjective(readyQueue') /\ Range(readyQueue') = Range(readyQueue) \union {t}
    BY <1>0, <2>1, <2>2, AppendRange DEF QueueHoldsTheReady
  <2>4. Range(readyQueue) \subseteq Threads
    BY <1>0, RangeOfSeq
  <2> QED
    BY <1>0, <2>1, <2>2, <2>3, <2>4 DEF QueueHoldsTheReady
<1>4. ASSUME NEW t \in Threads, NEW s \in Dead, Kills(t, s) PROVE QueueHoldsTheReady'
  <2> SUFFICES ASSUME ~forked PROVE QueueHoldsTheReady'
    BY <1>4 DEF Kills, QueueHoldsTheReady
  <2> DEFINE W == MutexWaiters(t)
             J == Joiners(t, W)
  <2>1. W \subseteq {x \in Threads : st[x] \in Asleep}
    <3>1. \A m \in owned[t] : waiters[m] \subseteq Threads
      BY DEF ListsInv, Inv, Typed
    <3> QED
      BY <3>1 DEF MutexWaiters
  <2>2. J \subseteq {x \in Threads : st[x] \in Asleep} \ (W \union {t})
    <3>1. \A x \in J : x \in Threads /\ x \notin W \union {t} /\ blk[x] # NoBlock
      BY DEF ListsInv, Inv, Typed, Joiners, OnThread, NoBlock
    <3> QED
      BY <1>0, <3>1, BlockedAreAsleep
  <2>3. PICK q \in Enqueued(readyQueue, W) : readyQueue' \in Enqueued(q, J)
    BY <1>4 DEF Kills, ThreadKill
  <2>4. st' = [x \in Threads |-> IF x = t THEN s ELSE IF x \in W \union J THEN "ready" ELSE st[x]]
    BY <1>4 DEF Kills, ThreadKill
  <2> HIDE DEF W, J
  <2>5. (W \union J) \intersect Range(readyQueue) = {}
    BY <1>0, <2>1, <2>2, NotQueued
  <2>6. q \in Seq(Threads) /\ IsInjective(q) /\ Range(q) = Range(readyQueue) \union W
    BY <1>0, <2>1, <2>3, <2>5, EnqueuedRange DEF QueueHoldsTheReady
  <2>7. J \intersect Range(q) = {}
    BY <2>2, <2>5, <2>6
  <2>8. IsInjective(readyQueue') /\ Range(readyQueue') = Range(readyQueue) \union W \union J
    BY <2>2, <2>3, <2>6, <2>7, EnqueuedRange
  <2>9. Range(readyQueue) \subseteq Threads
    BY <1>0, RangeOfSeq
  <2>10. s # "ready"
    BY DEF Dead
  <2>11. \A x \in Range(readyQueue') : st'[x] \in {"ready"} \union Gone
    BY <1>0, <2>1, <2>2, <2>4, <2>8, <2>9 DEF QueueHoldsTheReady, Gone
  <2>12. \A x \in Threads : st'[x] = "ready" => x \in Range(readyQueue')
    BY <1>0, <2>4, <2>8, <2>10 DEF QueueHoldsTheReady
  <2> QED
    BY <2>8, <2>11, <2>12 DEF QueueHoldsTheReady
<1>5. CASE KillOtherThreads
  BY <1>5 DEF KillOtherThreads, QueueHoldsTheReady
<1>6. CASE Enters
  <2> SUFFICES ASSUME ~forked PROVE QueueHoldsTheReady'
    BY <1>6 DEF Enters, EnterSchedule, QueueHoldsTheReady
  <2>1. CASE st[ct] = "running" /\ st' = [st EXCEPT ![ct] = "ready"]
             /\ readyQueue' = Append(readyQueue, ct)
    <3>2. ct \notin Range(readyQueue)
      BY <1>0, <2>1, NotQueued
    <3>3. IsInjective(readyQueue') /\ Range(readyQueue') = Range(readyQueue) \union {ct}
      BY <1>0, <2>1, <3>2, AppendRange DEF QueueHoldsTheReady
    <3>4. Range(readyQueue) \subseteq Threads
      BY <1>0, RangeOfSeq
    <3> QED
      BY <1>0, <2>1, <3>2, <3>3, <3>4 DEF QueueHoldsTheReady
  <2>2. CASE UNCHANGED <<st, readyQueue>>
    BY <1>0, <1>6, <2>2 DEF QueueHoldsTheReady, Enters, EnterSchedule
  <2>3. st[ct] # "ready"
    BY <1>0, <1>6 DEF Enters, CurrentIsAwake, Asleep, Dead
  <2> QED
    BY <1>6, <2>1, <2>2, <2>3 DEF Enters, EnterSchedule, AddToReadyQueue
<1>7. ASSUME NEW W \in SUBSET Threads, Wakes(W) PROVE QueueHoldsTheReady'
  <2> SUFFICES ASSUME ~forked PROVE QueueHoldsTheReady'
    BY <1>7 DEF Wakes, QueueHoldsTheReady
  <2>1. W \intersect Range(readyQueue) = {}
    BY <1>0, <1>7, NotQueued DEF Wakes
  <2>2. IsInjective(readyQueue') /\ Range(readyQueue') = Range(readyQueue) \union W
    BY <1>0, <1>7, <2>1, EnqueuedRange DEF Wakes, QueueHoldsTheReady
  <2>3. Range(readyQueue) \subseteq Threads
    BY <1>0, RangeOfSeq
  <2> QED
    BY <1>0, <1>7, <2>1, <2>2, <2>3 DEF QueueHoldsTheReady, Wakes
<1>8. CASE Switch
  <2> SUFFICES ASSUME ~forked PROVE QueueHoldsTheReady'
    BY <1>8 DEF Switch, QueueHoldsTheReady
  <2>1. /\ readyQueue # <<>> /\ readyQueue' = Tail(readyQueue)
        /\ st' = [st EXCEPT ![Head(readyQueue)] = "running"]
    BY <1>8 DEF Switch
  <2>2. /\ Head(readyQueue) \in Range(readyQueue) /\ IsInjective(readyQueue')
        /\ Range(readyQueue') = Range(readyQueue) \ {Head(readyQueue)}
    BY <1>0, <2>1, TailRange DEF QueueHoldsTheReady
  <2>3. Range(readyQueue) \subseteq Threads
    BY <1>0, RangeOfSeq
  <2> QED
    BY <1>0, <2>1, <2>2, <2>3 DEF QueueHoldsTheReady
<1> QED
  BY <1>1, <1>2, <1>3, <1>4, <1>5, <1>6, <1>7, <1>8, WaitStepKinds

-----------------------------------------------------------------------------
(* The processor, and the panic.                                           *)

(* The thread that executes is the one that runs.                          *)
LEMMA ProcessorStep ==
  ASSUME ListsInv, [Next]_vars
  PROVE  CurrentIsAwake' /\ (OnlyCurrentRuns => OnlyCurrentRuns')
<1> USE DEF conts, control, world, queues, slots, mutexes
<1>0. /\ Inv /\ CurrentIsAwake
      /\ ct \in Threads /\ readyQueue \in Seq(Threads)
      /\ st \in [Threads -> State]
  BY DEF ListsInv, Inv, Typed
<1>1. CASE Elsewhere
  <2>1. UNCHANGED <<st, ct>> /\ (phase' = phase \/ (phase # "run" /\ phase' # "run"))
    BY <1>1 DEF Elsewhere, Raise, Return, SleepOver, SleepInterrupted, PollInterrupted, NoFds,
       DropUnready, NobodyReady, WorldStep, Tick, FdBecomesReady, vars
  <2> QED
    BY <1>0, <2>1 DEF CurrentIsAwake, OnlyCurrentRuns
<1>2. CASE Registers
  BY <1>0, <1>2 DEF CurrentIsAwake, OnlyCurrentRuns, Registers
<1>3. ASSUME NEW t \in Threads, Start(t) PROVE CurrentIsAwake' /\ (OnlyCurrentRuns => OnlyCurrentRuns')
  BY <1>0, <1>3, CurrentIsFree DEF CurrentIsAwake, OnlyCurrentRuns, Start, Running
<1>4. ASSUME NEW t \in Threads, NEW s \in Dead, Kills(t, s) PROVE CurrentIsAwake' /\ (OnlyCurrentRuns => OnlyCurrentRuns')
  <2> DEFINE W == MutexWaiters(t)
             J == Joiners(t, W)
  <2>1. st' = [x \in Threads |-> IF x = t THEN s ELSE IF x \in W \union J THEN "ready" ELSE st[x]]
    BY <1>4 DEF Kills, ThreadKill
  <2>2. blk[ct] = NoBlock /\ st[ct] = "running"
    BY <1>0, <1>4 DEF Kills, Inv, AwakeWaitForNothing
  <2>3. ct \notin W \union J
    BY <2>2 DEF MutexWaiters, Joiners, Asleep, NoBlock, OnThread
  <2> HIDE DEF W, J
  <2>4. s # "running"
    BY DEF Dead
  <2> QED
    BY <1>0, <1>4, <2>1, <2>2, <2>3, <2>4 DEF CurrentIsAwake, OnlyCurrentRuns, Kills
<1>5. CASE KillOtherThreads
  <2>1. st[ct] = "running"
    BY <1>5, CurrentIsFree DEF KillOtherThreads, Running
  <2> QED
    BY <1>0, <1>5, <2>1 DEF CurrentIsAwake, OnlyCurrentRuns, KillOtherThreads
<1>6. CASE Enters
  BY <1>0, <1>6 DEF CurrentIsAwake, OnlyCurrentRuns, Enters, EnterSchedule
<1>7. ASSUME Waking, NEW W \in SUBSET Threads, Wakes(W) PROVE CurrentIsAwake' /\ (OnlyCurrentRuns => OnlyCurrentRuns')
  <2>1. \/ phase = "run" /\ phase' = "run" /\ st[ct] = "running"
        \/ phase # "run" /\ phase' # "run"
    BY <1>7, CurrentIsFree DEF Waking, AbortPrimordial, EIntr, PollFailed, ScanTimeouts,
       UnblockThreadsForIO, Running
  <2> QED
    BY <1>0, <1>7, <2>1 DEF CurrentIsAwake, OnlyCurrentRuns, Wakes, Asleep
<1>8. CASE Switch
  <2>1. Head(readyQueue) \in Threads
    BY <1>0, <1>8, HeadTailProperties DEF Switch
  <2> QED
    BY <1>0, <1>8, <2>1 DEF CurrentIsAwake, OnlyCurrentRuns, Switch
<1> QED
  BY <1>1, <1>2, <1>3, <1>4, <1>5, <1>6, <1>7, <1>8, WaitStepKinds

(* The scheduler goes to sleep only when nobody is ready.                  *)
LEMMA SleepsAloneStep ==
  ASSUME ListsInv, [Next]_vars
  PROVE  SleepsAlone'
<1> USE DEF conts, control, world, queues, slots, mutexes
<1>0. SleepsAlone /\ QueueHoldsTheReady /\ ct \in Threads
  BY DEF ListsInv, Inv, Typed
<1>1. ASSUME readyQueue = <<>>, ~forked PROVE st[ct] # "ready"
  <2>1. Range(<<>>) = {}
    BY DEF Range
  <2> QED
    BY <1>0, <1>1, <2>1 DEF QueueHoldsTheReady
<1>2. CASE SleepInterrupted \/ PollInterrupted
  BY <1>0, <1>1, <1>2 DEF SleepInterrupted, PollInterrupted, Immediate, SleepsAlone
<1>3. CASE ScanTimeouts
  BY <1>3 DEF ScanTimeouts, SleepsAlone
<1>4. CASE WorldStep \/ UNCHANGED vars
  BY <1>0, <1>4 DEF SleepsAlone, WorldStep, Tick, FdBecomesReady, vars
<1>5. ASSUME ~(SleepInterrupted \/ PollInterrupted), ~ScanTimeouts, ~(WorldStep \/ UNCHANGED vars)
      PROVE  phase' \notin {"msleep", "eintr", "polled"}
  BY <1>5 DEF Next, ThreadStep, Sleep, StartIO, WaitForIO, ContinueIO, Join, Lock, Start, Terminate,
     End, AbortPrimordial, FinishAbort, Raise, Return, Retry, KillOtherThreads, Running,
     ScheduleStep, Yield, TimerInterrupt, EnterSchedule, SleepOver, EIntr, UnblockThreadsForIO,
     PollFailed, NoFds, Switch, DropUnready, NobodyReady
<1> QED
  BY <1>2, <1>3, <1>4, <1>5 DEF SleepsAlone

(* The scheduler panics with empty lists, and nothing happens after that.  *)
LEMMA DeadlockStep ==
  ASSUME ListsInv, [Next]_vars
  PROVE  DeadlockIsEmpty'
<1> USE DEF conts, control, world, queues, slots, mutexes
<1>0. DeadlockIsEmpty
  BY DEF ListsInv
<1>1. CASE Elsewhere
  <2>1. CASE NobodyReady
    BY <2>1 DEF NobodyReady, DeadlockIsEmpty, FdsListed
  <2>2. CASE UNCHANGED <<phase, queues>>
    BY <1>0, <2>2 DEF DeadlockIsEmpty, FdsListed
  <2>3. CASE phase' # "deadlock"
    BY <2>3 DEF DeadlockIsEmpty
  <2> QED
    BY <1>1, <2>1, <2>2, <2>3 DEF Elsewhere, Raise, Return, SleepOver, SleepInterrupted,
       PollInterrupted, NoFds, DropUnready, WorldStep, Tick, FdBecomesReady, vars
<1>2. ASSUME \/ Registers \/ KillOtherThreads \/ Enters \/ Waking \/ Switch
             \/ \E t \in Threads : Start(t)
             \/ \E t \in Threads, s \in Dead : Kills(t, s)
      PROVE  phase' # "deadlock"
  BY <1>2 DEF Registers, KillOtherThreads, Enters, EnterSchedule, Waking, AbortPrimordial, EIntr,
     PollFailed, ScanTimeouts, UnblockThreadsForIO, Switch, Start, Kills, Running
<1> QED
  BY <1>1, <1>2, WaitStepKinds DEF DeadlockIsEmpty

-----------------------------------------------------------------------------
(* Whoever waits can be woken.                                             *)

(* A thread that goes on waiting stays listed with what it waits for.      *)
LEMMA StaysListed ==
  ASSUME ListsInv, NEW t \in Threads, WellListed(t),
         st'[t] \in Asleep =>
           /\ st[t] \in Asleep /\ tmo'[t] = tmo[t] /\ blk'[t] = blk[t] /\ call'[t] = call[t]
           /\ [tm |-> tmo[t], th |-> t] \in timeoutList /\ tmo[t] # 0
                => [tm |-> tmo[t], th |-> t] \in timeoutList'
           /\ ~forked' =>
                /\ ~forked
                /\ \A x \in Threads : blk[t] = OnThread(x) /\ t \in recip[x] /\ st[x] \notin Dead
                     => t \in recip'[x] /\ st'[x] \notin Dead
                /\ \A m \in Mutexes : blk[t] = OnMutex(m) /\ t \in waiters[m] /\ Locked(m)
                     => t \in waiters'[m] /\ Locked(m)'
  PROVE  WellListed(t)'
BY DEF WellListed

(* No step makes a waiting thread unreachable.                             *)
LEMMA WellListedStep ==
  ASSUME ListsInv, [Next]_vars
  PROVE  \A t \in Threads : WellListed(t)'
<1> USE DEF conts, control, world, queues, slots, mutexes
<1>0. /\ Inv /\ CurrentIsAwake
      /\ ct \in Threads /\ readyQueue \in Seq(Threads)
      /\ st \in [Threads -> State] /\ tmo \in [Threads -> Nat]
      /\ blk \in [Threads -> BlockObject]
      /\ call \in [Threads -> [obj : BlockObject, dl : 0 .. MaxTime]]
      /\ recip \in [Threads -> SUBSET Threads] /\ owned \in [Threads -> SUBSET Mutexes]
      /\ waiters \in [Mutexes -> SUBSET Threads]
      /\ \A t \in Threads : WellListed(t)
  BY DEF ListsInv, Inv, Typed
<1>1. CASE Elsewhere
  <2>1. UNCHANGED <<st, tmo, blk, timeoutList, recip, waiters, owned, forked>>
    BY <1>1 DEF Elsewhere, Raise, Return, SleepOver, SleepInterrupted, PollInterrupted, NoFds,
       DropUnready, NobodyReady, WorldStep, Tick, FdBecomesReady, vars
  <2>2. \A t \in Threads : call'[t] = call[t] \/ (t = ct /\ st[ct] = "running")
    BY <1>0, <1>1, CurrentIsFree
       DEF Elsewhere, Raise, Return, SleepOver, SleepInterrupted, PollInterrupted, NoFds,
       DropUnready, NobodyReady, WorldStep, Tick, FdBecomesReady, vars, Running
  <2> QED
    BY <1>0, <2>1, <2>2 DEF WellListed, Locked, Asleep
<1>2. CASE Registers
  <2> SUFFICES ASSUME NEW t \in Threads \ {ct} PROVE WellListed(t)'
    BY <1>2 DEF Registers
  <2>1. /\ st'[t] = st[t] /\ tmo'[t] = tmo[t] /\ blk'[t] = blk[t] /\ call'[t] = call[t]
        /\ timeoutList \subseteq timeoutList' /\ forked' = forked
    BY <1>2 DEF Registers
  <2>2. \A x \in Threads : st[x] \notin Dead => st'[x] \notin Dead
    BY <1>2 DEF Registers, Asleep, Dead
  <2>3. /\ \A x \in Threads : recip[x] \subseteq recip'[x]
        /\ \A m \in Mutexes : waiters[m] \subseteq waiters'[m] /\ (Locked(m) => Locked(m)')
    BY <1>2 DEF Registers, Locked
  <2> QED
    BY <1>0, <2>1, <2>2, <2>3, StaysListed
<1>3. ASSUME NEW x \in Threads, Start(x) PROVE \A t \in Threads : WellListed(t)'
  BY <1>0, <1>3, StaysListed DEF Start, Asleep, Dead, Locked
<1>4. ASSUME NEW x \in Threads, NEW s \in Dead, Kills(x, s), NEW t \in Threads
      PROVE  WellListed(t)'
  <2> SUFFICES ASSUME st'[t] \in Asleep PROVE WellListed(t)'
    BY DEF WellListed
  <2> DEFINE W == MutexWaiters(x)
             J == Joiners(x, W)
  <2>1. /\ st' = [y \in Threads |-> IF y = x THEN s ELSE IF y \in W \union J THEN "ready" ELSE st[y]]
        /\ tmo' = [y \in Threads |-> IF y \in W \union J \union {x} THEN 0 ELSE tmo[y]]
        /\ blk' = [y \in Threads |-> IF y \in W \union J \union {x} THEN NoBlock ELSE blk[y]]
        /\ timeoutList' = RemoveFromTimeoutList(timeoutList, W \union {x})
        /\ recip' = [y \in Threads |-> IF y = x THEN {}
                                      ELSE IF blk[x] = OnThread(y) /\ x \notin W
                                           THEN recip[y] \ {x} ELSE recip[y]]
        /\ owned' = [owned EXCEPT ![x] = {}]
        /\ waiters' = [m \in Mutexes |-> IF m \in owned[x] THEN {} ELSE waiters[m]]
        /\ UNCHANGED <<forked, call>>
    BY <1>4 DEF Kills, ThreadKill
  <2>2. t \in recip[x] /\ blk[t] = OnThread(x) => t \in W \union J \union {x}
    BY DEF Joiners
  <2>3. \A m \in owned[x] : t \in waiters[m] /\ st[t] \in Asleep => t \in W
    BY DEF MutexWaiters
  <2> HIDE DEF W, J
  <2>4. t \notin W \union J \union {x}
    BY <1>0, <2>1 DEF Asleep, Dead
  <2>5. /\ st[t] \in Asleep /\ st'[t] = st[t] /\ tmo'[t] = tmo[t] /\ blk'[t] = blk[t]
        /\ call'[t] = call[t] /\ forked' = forked
    BY <1>0, <2>1, <2>4
  <2>6. \A e \in timeoutList : e.th = t => e \in timeoutList'
    BY <2>1, <2>4 DEF RemoveFromTimeoutList
  <2>7. ASSUME NEW y \in Threads, blk[t] = OnThread(y), t \in recip[y], st[y] \notin Dead
        PROVE  t \in recip'[y] /\ st'[y] \notin Dead
    <3>1. y # x
      BY <2>2, <2>4, <2>7
    <3> QED
      BY <1>0, <2>1, <2>4, <2>7, <3>1 DEF Dead
  <2>8. ASSUME NEW m \in Mutexes, blk[t] = OnMutex(m), t \in waiters[m], Locked(m)
        PROVE  t \in waiters'[m] /\ Locked(m)'
    <3>1. m \notin owned[x]
      BY <2>3, <2>4, <2>5, <2>8
    <3>2. \A y \in Threads : y # x => owned'[y] = owned[y]
      BY <1>0, <2>1
    <3> QED
      BY <2>1, <2>8, <3>1, <3>2 DEF Locked
  <2> QED
    BY <1>0, <2>5, <2>6, <2>7, <2>8, StaysListed
<1>5. ASSUME KillOtherThreads, NEW t \in Threads PROVE WellListed(t)'
  <2> SUFFICES ASSUME st'[t] \in Asleep PROVE WellListed(t)'
    BY DEF WellListed
  <2> DEFINE listed == {e.th : e \in timeoutList} \union UNION {fdList[f] : f \in Fds}
  <2>1. /\ forked' /\ UNCHANGED <<tmo, call>>
        /\ st' = [y \in Threads |-> IF y \in listed \ {ct} THEN "suspended" ELSE st[y]]
        /\ blk' = [y \in Threads |-> IF y \in listed \union {ct} THEN NoBlock ELSE blk[y]]
    BY <1>5 DEF KillOtherThreads
  <2>2. st[ct] = "running"
    BY <1>5, CurrentIsFree DEF KillOtherThreads, Running
  <2>3. \A e \in timeoutList : e.th \in listed
    OBVIOUS
  <2> HIDE DEF listed
  <2>4. t \notin listed /\ t # ct
    BY <1>0, <2>1, <2>2 DEF Asleep
  <2>5. st[t] \in Asleep /\ blk'[t] = blk[t] /\ tmo'[t] = tmo[t]
    BY <1>0, <2>1, <2>4
  <2>6. [tm |-> tmo[t], th |-> t] \notin timeoutList
    <3> SUFFICES ASSUME [tm |-> tmo[t], th |-> t] \in timeoutList PROVE FALSE
      OBVIOUS
    <3>1. [tm |-> tmo[t], th |-> t].th \in listed
      BY <2>3
    <3> QED
      BY <2>4, <3>1
  <2> QED
    BY <1>0, <2>1, <2>5, <2>6 DEF WellListed
<1>6. CASE Enters
  BY <1>0, <1>6, StaysListed DEF Enters, EnterSchedule, Asleep, Dead, Locked
<1>7. ASSUME NEW W \in SUBSET Threads, Wakes(W), NEW t \in Threads
      PROVE  WellListed(t)'
  <2> SUFFICES ASSUME st'[t] \in Asleep PROVE WellListed(t)'
    BY DEF WellListed
  <2>1. /\ t \notin W /\ st[t] \in Asleep /\ tmo'[t] = tmo[t] /\ blk'[t] = blk[t]
        /\ UNCHANGED <<call, forked, recip, waiters, owned>>
    BY <1>0, <1>7 DEF Wakes, Asleep
  <2>2. \A x \in Threads : st[x] \notin Dead => st'[x] \notin Dead
    BY <1>0, <1>7 DEF Wakes, Dead
  <2>3. [tm |-> tmo[t], th |-> t] \in timeoutList => [tm |-> tmo[t], th |-> t] \in timeoutList'
    <3> DEFINE e == [tm |-> tmo[t], th |-> t]
    <3>1. e.th = t /\ e.tm = tmo[t]
      OBVIOUS
    <3> HIDE DEF e
    <3>2. e \in timeoutList => e \in timeoutList'
      BY <1>7, <2>1, <3>1 DEF Wakes
    <3> QED
      BY <3>2 DEF e
  <2> QED
    BY <1>0, <2>1, <2>2, <2>3, StaysListed DEF Locked
<1>8. CASE Switch
  <2>1. Head(readyQueue) \in Threads
    BY <1>0, <1>8, HeadTailProperties DEF Switch
  <2> QED
    BY <1>0, <1>8, <2>1, StaysListed DEF Switch, Asleep, Dead, Locked
<1> QED
  BY <1>1, <1>2, <1>3, <1>4, <1>5, <1>6, <1>7, <1>8, WaitStepKinds

-----------------------------------------------------------------------------
(* Timeouts.                                                               *)

(* A timeout is set in slot 13 once the deadline of the call has passed.   *)
LEMMA TimedOutLateStep ==
  ASSUME WInv, [Next]_vars
  PROVE  \A t \in Threads : TimedOutLate(t)'
<1> USE DEF conts, control, world, queues, slots, mutexes
<1>0. /\ ListsInv /\ Inv
      /\ ct \in Threads /\ readyQueue \in Seq(Threads) /\ now \in Nat /\ prim \in Threads
      /\ st \in [Threads -> State] /\ tmo \in [Threads -> Nat]
      /\ byTmo \in [Threads -> BOOLEAN]
      /\ pc \in [Threads -> Points]
      /\ call \in [Threads -> [obj : BlockObject, dl : 0 .. MaxTime]]
      /\ \A t \in Threads : WellListed(t) /\ TimedOutLate(t)
  BY DEF WInv, ListsInv, Inv, Typed
<1>d. \A t \in Threads : call[t].dl \in Nat
  BY <1>0, BoundsAssumption
<1>g. \A t \in Threads : st[t] \in Gone => st'[t] \in Gone
  BY <1>0, GoneStep DEF OverStaysOver, Gone
<1>1. CASE Elsewhere
  <2>1. UNCHANGED <<st, byTmo>> /\ now' \in Nat /\ now' >= now
    BY <1>0, <1>1 DEF Elsewhere, Raise, Return, SleepOver, SleepInterrupted, PollInterrupted, NoFds,
       DropUnready, NobodyReady, WorldStep, Tick, FdBecomesReady, vars
  <2>2. \A t \in Threads : (pc'[t] = pc[t] /\ call'[t] = call[t]) \/ pc'[t] = "user"
    BY <1>0, <1>1 DEF Elsewhere, Raise, Return, SleepOver, SleepInterrupted, PollInterrupted, NoFds,
       DropUnready, NobodyReady, WorldStep, Tick, FdBecomesReady, vars, Running
  <2> SUFFICES ASSUME NEW t \in Threads PROVE TimedOutLate(t)'
    OBVIOUS
  <2>3. CASE pc'[t] = "user"
    BY <2>3 DEF TimedOutLate
  <2>4. CASE pc'[t] = pc[t] /\ call'[t] = call[t]
    <3>1. call[t].dl <= now => call[t].dl <= now'
      BY <1>0, <1>d, <2>1
    <3>2. TimedOutLate(t)
      BY <1>0
    <3> QED
      BY <2>1, <2>4, <3>1, <3>2 DEF TimedOutLate
  <2> QED
    BY <2>2, <2>3, <2>4
<1>2. CASE Registers
  <2> SUFFICES ASSUME NEW t \in Threads \ {ct} PROVE TimedOutLate(t)'
    BY <1>2 DEF Registers
  <2> QED
    BY <1>0, <1>2 DEF Registers, TimedOutLate
<1>3. ASSUME NEW x \in Threads, Start(x) PROVE \A t \in Threads : TimedOutLate(t)'
  BY <1>0, <1>3, CurrentIsFree DEF Start, TimedOutLate, Running, Gone, Dead
<1>4. ASSUME NEW x \in Threads, NEW s \in Dead, Kills(x, s), NEW t \in Threads
      PROVE  TimedOutLate(t)'
  <2>1. CASE t = x
    <3>1. st'[x] = s
      BY <1>4 DEF Kills, ThreadKill
    <3> QED
      BY <2>1, <3>1 DEF TimedOutLate, Gone
  <2>2. CASE t # x
    <3>1. /\ st'[t] = st[t] \/ (st'[t] = "ready" /\ st[t] # "running")
          /\ pc'[t] = pc[t] /\ call' = call /\ byTmo' = byTmo /\ now' = now
      <4>1. \A y \in MutexWaiters(x) \union Joiners(x, MutexWaiters(x)) : st[y] # "running"
        BY <1>0 DEF MutexWaiters, Joiners, Asleep, Inv, AwakeWaitForNothing, Typed, OnThread, NoBlock
      <4> QED
        BY <1>0, <1>4, <2>2, <4>1 DEF Kills, ThreadKill
    <3> QED
      BY <1>0, <1>g, <3>1 DEF TimedOutLate
  <2> QED
    BY <2>1, <2>2
<1>5. CASE KillOtherThreads
  BY <1>0, <1>5 DEF KillOtherThreads, TimedOutLate, Gone
<1>6. CASE Enters
  BY <1>0, <1>6 DEF Enters, EnterSchedule, TimedOutLate, Gone, Dead
<1>7. ASSUME Waking, NEW W \in SUBSET Threads, Wakes(W), NEW t \in Threads
      PROVE  TimedOutLate(t)'
  <2>1. \A x \in Threads : /\ st[x] \notin Gone /\ st'[x] # "running" => st'[x] = st[x] \/ st[x] \in Asleep
                           /\ st'[x] = "running" <=> st[x] = "running"
    BY <1>0, <1>7 DEF Wakes, Asleep
  <2>2. call' = call /\ now' = now
    BY <1>7 DEF Wakes
  <2>3. CASE AbortPrimordial
    <3>1. byTmo' = byTmo /\ (pc'[t] = pc[t] \/ pc'[t] \in {"raise", "dying"})
      BY <1>0, <2>3 DEF AbortPrimordial
    <3> QED
      BY <1>0, <1>g, <2>1, <2>2, <3>1 DEF TimedOutLate
  <2>4. CASE EIntr \/ PollFailed \/ UnblockThreadsForIO
    <3>1. (byTmo'[t] => byTmo[t]) /\ pc' = pc
      BY <1>0, <2>4 DEF EIntr, PollFailed, ForcePrimordial, UnblockThreadsForIO
    <3> QED
      BY <1>0, <1>g, <2>1, <2>2, <3>1 DEF TimedOutLate
  <2>5. CASE ScanTimeouts
    <3> DEFINE expired == {e.th : e \in LiveTimeouts \ Pending}
    <3>1. pc' = pc /\ byTmo' = [x \in Threads |-> byTmo[x] \/ x \in expired]
      BY <2>5 DEF ScanTimeouts
    <3>2. CASE t \in expired
      <4>1. PICK e \in LiveTimeouts \ Pending : e.th = t
        BY <3>2
      <4>2. st[t] \in Asleep /\ e.tm # 0 /\ e.tm = tmo[t] /\ e.tm \in Nat /\ ~(e.tm > now)
        BY <1>0, <4>1, LiveAreAsleep DEF LiveTimeouts, Pending
      <4>3. call[t].dl = e.tm
        BY <1>0, <4>2 DEF WellListed
      <4> QED
        BY <1>0, <2>2, <4>2, <4>3 DEF TimedOutLate
    <3>3. CASE t \notin expired
      <4>1. byTmo'[t] = byTmo[t]
        <5> HIDE DEF expired
        <5> QED
          BY <1>0, <3>1, <3>3
      <4> QED
        BY <1>0, <1>g, <2>1, <2>2, <3>1, <4>1 DEF TimedOutLate
    <3> QED
      BY <3>2, <3>3
  <2> QED
    BY <1>7, <2>3, <2>4, <2>5 DEF Waking
<1>8. CASE Switch
  <2>1. Head(readyQueue) \in Threads
    BY <1>0, <1>8, HeadTailProperties DEF Switch
  <2> QED
    BY <1>0, <1>8, <2>1 DEF Switch, TimedOutLate, Gone, Dead
<1> QED
  BY <1>0, <1>1, <1>2, <1>3, <1>4, <1>5, <1>6, <1>7, <1>8, WaitStepKinds

-----------------------------------------------------------------------------
(* The invariant.                                                          *)

(* Nobody waits at first, and nobody is queued.                            *)
LEMMA ListsInvInit == Init => ListsInv
<1> SUFFICES ASSUME Init PROVE ListsInv
  OBVIOUS
<1>1. readyQueue = <<>> /\ phase = "run" /\ ct = Primordial /\ Primordial \in Threads
      /\ st = [t \in Threads |-> IF t = Primordial THEN "running" ELSE "created"]
  BY ThreadsAssumption DEF Init
<1>2. IsInjective(<<>>) /\ Range(<<>>) = {}
  BY DEF IsInjective, Range
<1>3. QueueHoldsTheReady
  BY <1>1, <1>2 DEF QueueHoldsTheReady
<1>4. CurrentIsAwake /\ SleepsAlone /\ DeadlockIsEmpty
  BY <1>1 DEF CurrentIsAwake, SleepsAlone, DeadlockIsEmpty
<1>5. \A t \in Threads : WellListed(t)
  BY <1>1 DEF WellListed, Asleep
<1> QED
  BY <1>3, <1>4, <1>5, InvInit DEF ListsInv

(* Every step of Scheduler keeps the lists as they should be.              *)
LEMMA ListsInvStep == ListsInv /\ [Next]_vars => ListsInv'
<1> SUFFICES ASSUME ListsInv, [Next]_vars PROVE ListsInv'
  OBVIOUS
<1>1. Inv'
  BY InvStep DEF ListsInv
<1> QED
  BY <1>1, QueueStep, ProcessorStep, SleepsAloneStep, WellListedStep, DeadlockStep DEF ListsInv

(* Nobody but the primordial thread runs, and nothing has timed out.       *)
LEMMA WInvInit == Init => WInv
<1> SUFFICES ASSUME Init PROVE WInv
  OBVIOUS
<1>1. phase = "run" /\ ct = Primordial
      /\ st = [t \in Threads |-> IF t = Primordial THEN "running" ELSE "created"]
      /\ byTmo = [t \in Threads |-> FALSE]
  BY DEF Init
<1> QED
  BY <1>1, ListsInvInit DEF WInv, OnlyCurrentRuns, TimedOutLate

(* Every step keeps the whole of it.                                       *)
LEMMA WInvStep == WInv /\ [Next]_vars => WInv'
BY ListsInvStep, ProcessorStep, TimedOutLateStep DEF WInv

(* What the invariant says of the two properties about the lists.          *)
LEMMA ListsQueueOnce == ListsInv => ReadyIsQueuedOnce
<1>1. ASSUME ListsInv, ~forked, NEW t \in Threads, st[t] = "ready"
      PROVE  Count(readyQueue, t) = 1
  <2>1. IsInjective(readyQueue) /\ t \in Range(readyQueue)
    BY <1>1 DEF ListsInv, QueueHoldsTheReady
  <2>2. PICK k \in DOMAIN readyQueue : readyQueue[k] = t
    BY <2>1 DEF Range
  <2>3. {i \in DOMAIN readyQueue : readyQueue[i] = t} = {k}
    BY <2>1, <2>2 DEF IsInjective
  <2> QED
    BY <2>3, FS_Singleton DEF Count
<1> QED
  BY <1>1 DEF ReadyIsQueuedOnce

(* Whoever waits is on a list from which it can be woken.                  *)
LEMMA ListsLoseNobody == ListsInv => NoLostWakeup
<1>1. ASSUME ListsInv, ~forked, NEW t \in Threads, st[t] \in Asleep
      PROVE  Listed(t)
  <2>1. WellListed(t) /\ FdListMatchesSlot11 /\ blk[t] \in BlockObject
    BY <1>1 DEF ListsInv, Inv, Typed
  <2>2. CASE tmo[t] # 0
    BY <1>1, <2>1, <2>2 DEF WellListed, Listed
  <2>3. CASE blk[t] \in FdBlock
    BY <2>1, <2>3 DEF FdBlock, FdListMatchesSlot11, Listed
  <2>4. CASE blk[t] \in ThreadBlock
    <3>1. PICK x \in Threads : blk[t] = OnThread(x)
      BY <2>4 DEF ThreadBlock, OnThread
    <3>2. t \in recip[x] /\ st[x] \notin Dead
      BY <1>1, <2>1, <3>1 DEF WellListed
    <3> QED
      BY <3>1, <3>2 DEF OnThread, Listed
  <2>5. CASE blk[t] \in MutexBlock
    <3>1. PICK m \in Mutexes : blk[t] = OnMutex(m)
      BY <2>5 DEF MutexBlock, OnMutex
    <3>2. t \in waiters[m] /\ Locked(m)
      BY <1>1, <2>1, <3>1 DEF WellListed
    <3> QED
      BY <3>1, <3>2 DEF OnMutex, Listed
  <2>6. blk[t] # NoBlock \/ tmo[t] # 0
    BY <1>1, <2>1 DEF WellListed
  <2> QED
    BY <2>1, <2>2, <2>3, <2>4, <2>5, <2>6 DEF BlockObject
<1> QED
  BY <1>1 DEF NoLostWakeup

(* The invariant about waiting holds in every reachable state: the four    *)
(* theorems below are read off it.                                         *)
THEOREM WaitInvariance == Spec => []WInv
BY WInvInit, WInvStep, PTL DEF Spec

(* A ready thread is in the ready queue exactly once, whoever made it      *)
(* ready: an event, its own deadline, the end of another thread, an        *)
(* exception of another thread, or a timer interrupt.                      *)
THEOREM TheReadyAreQueuedOnce == Spec => []ReadyIsQueuedOnce
<1>1. WInv => ReadyIsQueuedOnce
  BY ListsQueueOnce DEF WInv
<1> QED
  BY <1>1, WaitInvariance, PTL

(* No wakeup is lost: whatever a thread waits for, something that has not  *)
(* happened yet still lists it.                                            *)
THEOREM NoWakeupIsLost == Spec => []NoLostWakeup
<1>1. WInv => NoLostWakeup
  BY ListsLoseNobody DEF WInv
<1> QED
  BY <1>1, WaitInvariance, PTL

(* A caller that finds slot 13 set has waited until its deadline: the flag *)
(* is never left over from an earlier wait of the same thread.             *)
THEOREM NoTimeoutIsEarly == Spec => []NoEarlyTimeout
<1>1. ASSUME WInv, Running("woken"), byTmo[ct], call[ct].obj.on # "mutex"
      PROVE  call[ct].dl # 0 /\ call[ct].dl <= now
  <2>1. ct \in Threads /\ st[ct] = "running" /\ pc[ct] = "woken" /\ TimedOutLate(ct)
    BY <1>1 DEF WInv, ListsInv, Inv, Typed, CurrentThread, Running
  <2> QED
    BY <1>1, <2>1 DEF TimedOutLate, Gone, Dead
<1>2. WInv => NoEarlyTimeout
  BY <1>1 DEF NoEarlyTimeout
<1> QED
  BY <1>2, WaitInvariance, PTL

(* The panic "deadlock" is not a false alarm: no thread is ready, and      *)
(* nobody waits for a deadline or a descriptor.                            *)
THEOREM NoFalseDeadlock == Spec => []DeadlockIsReal
<1>1. ASSUME WInv, phase = "deadlock", NEW t \in Threads
      PROVE  /\ st[t] # "ready" \/ forked
             /\ st[t] \in Asleep => tmo[t] = 0 /\ blk[t].on # "fd"
  <2>1. readyQueue = <<>> /\ timeoutList = {} /\ \A f \in Fds : fdList[f] = {}
    BY <1>1 DEF WInv, ListsInv, DeadlockIsEmpty, FdsListed
  <2>2. Range(<<>>) = {}
    BY DEF Range
  <2>3. st[t] # "ready" \/ forked
    BY <1>1, <2>1, <2>2 DEF WInv, ListsInv, QueueHoldsTheReady
  <2>4. st[t] \in Asleep => tmo[t] = 0
    BY <1>1, <2>1 DEF WInv, ListsInv, WellListed
  <2>5. blk[t].on # "fd"
    <3>1. blk[t] \in BlockObject /\ FdListMatchesSlot11
      BY <1>1 DEF WInv, ListsInv, Inv, Typed
    <3>2. ASSUME blk[t].on = "fd" PROVE FALSE
      <4>1. blk[t] \in FdBlock
        BY <3>1, <3>2 DEF BlockObject, NoBlock, ThreadBlock, MutexBlock
      <4>2. blk[t].fd \in Fds
        BY <4>1 DEF FdBlock
      <4> QED
        BY <2>1, <3>1, <3>2, <4>2 DEF FdListMatchesSlot11
    <3> QED
      BY <3>2
  <2> QED
    BY <2>3, <2>4, <2>5
<1>2. WInv => DeadlockIsReal
  BY <1>1 DEF DeadlockIsReal
<1> QED
  BY <1>2, WaitInvariance, PTL

-----------------------------------------------------------------------------
(* The refinement: every step of the scheduler is one of the steps         *)
(* ThreadWaits allows, or changes nothing ThreadWaits speaks of.           *)
(* What has to be added to WInv is that whoever is among the waiters of a  *)
(* mutex, and asleep, waits for it: when a thread ends,                    *)
(* ##sys#abandon-mutexes unblocks them without looking.                    *)

(* A waiter of a mutex waits for that mutex and without a deadline, or has *)
(* ended, or is the primordial thread, which is woken for no reason and    *)
(* leaves its name behind.                                                 *)
WaitersWait ==
  ~forked => \A m \in Mutexes : \A t \in waiters[m] :
    \/ t = prim
    \/ st[t] \in Dead
    \/ st[t] \in Asleep /\ blk[t] = OnMutex(m) /\ tmo[t] = 0

RInv == WInv /\ WaitersWait

(* What makes a waiting thread ready is what it waits for: its deadline or *)
(* its descriptor; the primordial thread needs no reason, but it does not  *)
(* hand an exception to itself.                                            *)
LEMMA WokenForAReason ==
  ASSUME Inv, Waking, NEW t \in Threads, st[t] \in Asleep, st'[t] = "ready"
  PROVE  /\ phase = "run" => t # ct
         /\ \/ t = prim
            \/ tmo[t] # 0 /\ tmo[t] <= now
            \/ blk[t] \in FdBlock /\ Waiting(blk[t].dir) \intersect fdReady[blk[t].fd] # {}
<1>0. /\ st \in [Threads -> State] /\ "ready" \notin Asleep /\ ct \in Threads /\ prim \in Threads
      /\ now \in Nat /\ blk \in [Threads -> BlockObject]
  BY BoundsAssumption DEF Inv, Typed, Asleep
<1>1. CASE AbortPrimordial \/ EIntr \/ PollFailed
  <2>1. ThreadUnblock({prim}) /\ (phase = "run" => ct # prim)
    BY <1>1 DEF AbortPrimordial, EIntr, PollFailed, ForcePrimordial, Running
  <2>2. t = prim
    BY <1>0, <2>1 DEF ThreadUnblock, ThreadBasicUnblock
  <2> QED
    BY <2>1, <2>2
<1>2. CASE ScanTimeouts
  <2> DEFINE expired == {e.th : e \in LiveTimeouts \ Pending}
  <2>1. st' = [x \in Threads |-> IF x \in expired THEN "ready" ELSE st[x]] /\ phase = "scan"
    BY <1>2 DEF ScanTimeouts
  <2>2. t \in expired
    <3> HIDE DEF expired
    <3> QED
      BY <1>0, <2>1
  <2>3. PICK e \in LiveTimeouts \ Pending : e.th = t
    BY <2>2
  <2>4. tmo[t] = e.tm /\ e.tm # 0 /\ e.tm \in Nat /\ ~(e.tm > now)
    BY <2>3, LiveAreAsleep DEF LiveTimeouts, Pending
  <2> QED
    BY <1>0, <2>1, <2>4
<1>3. CASE UnblockThreadsForIO
  <2> DEFINE S == UNION {Woken(f) : f \in Fds}
  <2>1. st' = [x \in Threads |-> IF x \in S THEN "ready" ELSE st[x]] /\ phase = "poll"
    BY <1>3 DEF UnblockThreadsForIO, ThreadBasicUnblock
  <2>2. t \in S
    <3> HIDE DEF S
    <3> QED
      BY <1>0, <2>1
  <2>3. PICK f \in Fds : t \in Woken(f)
    BY <2>2
  <2>4. blk[t].on = "fd" /\ blk[t].fd = f
    BY <2>3 DEF Inv, FdListMatchesSlot11, Woken
  <2>5. Waiting(blk[t].dir) \intersect Reported(f) # {} /\ Reported(f) \subseteq fdReady[f]
    BY <2>3, <2>4 DEF Woken, Reported
  <2>6. blk[t] \in FdBlock
    BY <1>0, <2>4 DEF BlockObject, NoBlock, ThreadBlock, MutexBlock
  <2> QED
    BY <2>1, <2>4, <2>5, <2>6
<1> QED
  BY <1>1, <1>2, <1>3 DEF Waking

(* Every step keeps it: a thread is put among the waiters of a mutex when  *)
(* it begins to wait for it, and taken out when it is woken.               *)
LEMMA WaitersWaitStep ==
  ASSUME RInv, [Next]_vars
  PROVE  WaitersWait'
<1> USE DEF conts, control, world, queues, slots, mutexes
<1>0. /\ WInv /\ Inv /\ WaitersWait
      /\ ct \in Threads /\ st \in [Threads -> State] /\ blk \in [Threads -> BlockObject]
      /\ waiters \in [Mutexes -> SUBSET Threads] /\ tmo \in [Threads -> Nat]
  BY DEF RInv, WInv, ListsInv, Inv, Typed
<1> SUFFICES ASSUME ~forked', NEW m \in Mutexes, NEW t \in waiters'[m]
             PROVE  (\/ t = prim
                     \/ st[t] \in Dead
                     \/ st[t] \in Asleep /\ blk[t] = OnMutex(m) /\ tmo[t] = 0)'
  BY DEF WaitersWait
<1> DEFINE Waits0 == \/ t = prim
                     \/ st[t] \in Dead
                     \/ st[t] \in Asleep /\ blk[t] = OnMutex(m) /\ tmo[t] = 0
<1>1. CASE Elsewhere
  BY <1>0, <1>1 DEF Elsewhere, Raise, Return, SleepOver, SleepInterrupted, PollInterrupted, NoFds,
     DropUnready, NobodyReady, WorldStep, Tick, FdBecomesReady, vars, WaitersWait
<1>2. CASE Registers
  <2>1. CASE t \in waiters[m]
    <3>1. t \in Threads /\ prim' = prim /\ ~forked
      BY <1>0, <1>2, <2>1 DEF Registers
    <3>2. CASE t = ct
      <4>1. st[t] \notin Dead /\ blk[t] # OnMutex(m)
        BY <1>2, <3>2 DEF Registers, Asleep, Dead, NoBlock, OnMutex
      <4> QED
        BY <1>0, <2>1, <3>1, <4>1 DEF WaitersWait
    <3>3. CASE t # ct
      <4>1. st'[t] = st[t] /\ blk'[t] = blk[t] /\ tmo'[t] = tmo[t]
        BY <1>2, <3>1, <3>3 DEF Registers
      <4> QED
        BY <1>0, <2>1, <3>1, <4>1 DEF WaitersWait
    <3> QED
      BY <3>2, <3>3
  <2>2. CASE t \notin waiters[m]
    BY <1>2, <2>2 DEF Registers
  <2> QED
    BY <2>1, <2>2
<1>3. ASSUME NEW x \in Threads, Start(x) PROVE Waits0'
  <2>1. t \in waiters[m] /\ t \in Threads /\ ~forked /\ prim' = prim /\ tmo' = tmo /\ blk' = blk
        /\ st' = [st EXCEPT ![x] = "ready"] /\ st[x] = "created"
    BY <1>0, <1>3 DEF Start
  <2> QED
    BY <1>0, <2>1 DEF WaitersWait, Dead, Asleep
<1>4. ASSUME NEW x \in Threads, NEW s \in Dead, Kills(x, s) PROVE Waits0'
  <2>1. t \in waiters[m] /\ m \notin owned[x] /\ t \in Threads /\ ~forked /\ prim' = prim
    BY <1>0, <1>4 DEF Kills, ThreadKill
  <2>2. CASE t = prim \/ t = x
    BY <1>0, <1>4, <2>1, <2>2 DEF Kills, ThreadKill
  <2>3. CASE t # prim /\ t # x
    <3>1. CASE st[t] \in Dead
      <4>1. blk[t] = NoBlock /\ st[t] \notin Asleep
        BY <1>0, <2>1, <3>1 DEF Inv, GoneWaitForNothing, Gone, Dead, Asleep
      <4>2. t \notin MutexWaiters(x)
        BY <4>1 DEF MutexWaiters
      <4>3. t \notin Joiners(x, MutexWaiters(x))
        BY <4>1 DEF Joiners, OnThread, NoBlock
      <4> QED
        BY <1>4, <2>1, <2>3, <3>1, <4>2, <4>3 DEF Kills, ThreadKill
    <3>2. CASE st[t] \in Asleep /\ blk[t] = OnMutex(m) /\ tmo[t] = 0
      <4>1. t \notin MutexWaiters(x)
        <5>1. \A n \in Mutexes : t \in waiters[n] => n = m
          <6>1. \A n \in Mutexes : t \in waiters[n] => blk[t] = OnMutex(n)
            BY <1>0, <2>1, <2>3, <3>2 DEF WaitersWait, Dead, Asleep
          <6>2. \A n \in Mutexes : OnMutex(n) = OnMutex(m) => n = m
            BY DEF OnMutex
          <6> QED
            BY <3>2, <6>1, <6>2
        <5>2. owned[x] \subseteq Mutexes
          BY <1>0 DEF Inv, Typed
        <5> QED
          BY <2>1, <5>1, <5>2 DEF MutexWaiters
      <4>2. t \notin Joiners(x, MutexWaiters(x))
        BY <3>2 DEF Joiners, OnThread, OnMutex
      <4> QED
        BY <1>4, <2>1, <2>3, <3>2, <4>1, <4>2 DEF Kills, ThreadKill
    <3> QED
      BY <1>0, <2>1, <2>3, <3>1, <3>2 DEF WaitersWait
  <2> QED
    BY <2>2, <2>3
<1>5. CASE KillOtherThreads
  BY <1>5 DEF KillOtherThreads
<1>6. CASE Enters
  <2>1. /\ t \in waiters[m] /\ t \in Threads /\ ~forked /\ prim' = prim
        /\ tmo' = tmo /\ blk' = blk /\ st'[t] \in {st[t], "ready"}
        /\ st'[t] # st[t] => st[t] \in {"running", "ready"}
    BY <1>0, <1>6 DEF Enters, EnterSchedule
  <2> QED
    BY <1>0, <2>1 DEF WaitersWait, Dead, Asleep
<1>7. ASSUME Waking, NEW W \in SUBSET Threads, Wakes(W) PROVE Waits0'
  <2>1. t \in waiters[m] /\ t \in Threads /\ ~forked /\ prim' = prim
    BY <1>0, <1>7 DEF Wakes
  <2>2. CASE t \in W
    <3>1. st[t] \in Asleep /\ st'[t] = "ready"
      BY <1>7, <2>2 DEF Wakes
    <3>2. tmo[t] # 0 \/ blk[t] \in FdBlock \/ t = prim
      BY <1>0, <1>7, <2>1, <3>1, WokenForAReason
    <3>3. OnMutex(m) \notin FdBlock
      BY DEF FdBlock, OnMutex
    <3>4. t = prim
      BY <1>0, <2>1, <3>1, <3>2, <3>3 DEF WaitersWait, Asleep, Dead
    <3> QED
      BY <2>1, <3>4
  <2>3. CASE t \notin W
    BY <1>0, <1>7, <2>1, <2>3 DEF WaitersWait, Wakes
  <2> QED
    BY <2>2, <2>3
<1>8. CASE Switch
  <2>1. /\ t \in waiters[m] /\ t \in Threads /\ ~forked /\ prim' = prim
        /\ tmo' = tmo /\ blk' = blk /\ st'[t] \in {st[t], "running"}
        /\ st'[t] # st[t] => st[t] = "ready"
    BY <1>0, <1>8 DEF Switch
  <2> QED
    BY <1>0, <2>1 DEF WaitersWait, Dead, Asleep
<1> QED
  BY <1>0, <1>1, <1>2, <1>3, <1>4, <1>5, <1>6, <1>7, <1>8, WaitStepKinds DEF WInv

(* The invariant holds at first,                                           *)
LEMMA RInvInit == Init => RInv
BY WInvInit DEF Init, RInv, WaitersWait

(* and every step keeps it.                                                *)
LEMMA RInvStep == RInv /\ [Next]_vars => RInv'
BY WInvStep, WaitersWaitStep DEF RInv

-----------------------------------------------------------------------------
(* The steps of the scheduler as steps of ThreadWaits.                     *)

(* What the initial states say maps to the initial states of ThreadWaits.  *)
LEMMA InitMaps == Init => Waits!Init
<1> SUFFICES ASSUME Init PROVE Waits!Init
  OBVIOUS
<1>1. \A t \in Threads : Mode(t) = IF t = Primordial THEN "running" ELSE "new"
  BY DEF Init, Mode, Dead
<1> QED
  BY <1>1 DEF Init, Waits!Init, Waits!NoCond

(* What a waiting thread waits for, as ThreadWaits sees it.                *)
CondOf(t) == IF Mode(t) = "waiting" THEN [dl |-> tmo[t], obj |-> blk[t]]
             ELSE [dl |-> 0, obj |-> NoBlock]

(* A step after which everybody is as before is no step, or one of the     *)
(* world.                                                                  *)
LEMMA WorldMaps ==
  ASSUME \A t \in Threads : Mode(t)' = Mode(t) /\ CondOf(t)' = CondOf(t),
         UNCHANGED <<prim, abandoned>>,
         now' \in {now, now + 1}, DOMAIN fdReady' = DOMAIN fdReady
  PROVE  Waits!World
<1>1. \A t \in Threads : CondOf(t)' = (IF Mode(t)' = "waiting" THEN [dl |-> tmo'[t], obj |-> blk'[t]]
                                   ELSE [dl |-> 0, obj |-> NoBlock])
  BY DEF CondOf
<1> QED
  BY <1>1 DEF Waits!World, CondOf

(* A step that leaves the scheduler's view of the threads alone.           *)
LEMMA ElsewhereMaps ==
  ASSUME Inv, Elsewhere
  PROVE  Waits!World
<1> USE DEF conts, control, world, queues, slots, mutexes
<1>1. /\ UNCHANGED <<st, tmo, blk, ct, prim, abandoned>>
      /\ phase' = "run" <=> phase = "run"
  BY DEF Elsewhere, Raise, Return, SleepOver, SleepInterrupted, PollInterrupted, NoFds,
     DropUnready, NobodyReady, WorldStep, Tick, FdBecomesReady, vars
<1>2. now' \in {now, now + 1} /\ DOMAIN fdReady' = DOMAIN fdReady
  BY DEF Elsewhere, Raise, Return, SleepOver, SleepInterrupted, PollInterrupted, NoFds,
     DropUnready, NobodyReady, WorldStep, Tick, FdBecomesReady, vars
<1>3. \A t \in Threads : Mode(t)' = Mode(t) /\ CondOf(t)' = CondOf(t)
  BY <1>1 DEF Mode, CondOf
<1> QED
  BY <1>1, <1>2, <1>3, WorldMaps

(* A thread that begins to wait is still running.                          *)
LEMMA RegistersMaps ==
  ASSUME Inv, Registers
  PROVE  Waits!World
<1> USE DEF control, world
<1>1. /\ UNCHANGED <<ct, prim, abandoned, now, fdReady, phase>>
      /\ phase = "run" /\ {st[ct], st'[ct]} \subseteq {"running"} \union Asleep
      /\ \A t \in Threads \ {ct} : st'[t] = st[t] /\ tmo'[t] = tmo[t] /\ blk'[t] = blk[t]
  BY DEF Registers
<1>2. \A t \in Threads : Mode(t)' = Mode(t) /\ CondOf(t)' = CondOf(t)
  BY <1>1 DEF Mode, CondOf, Dead, Asleep
<1> QED
  BY <1>1, <1>2, WorldMaps

(* thread-start! makes a new thread runnable.                              *)
LEMMA StartMaps ==
  ASSUME WInv, NEW x \in Threads, Start(x)
  PROVE  Waits!Start(x)
<1> USE DEF conts, control, world, queues, slots, mutexes
<1>1. /\ st' = [st EXCEPT ![x] = "ready"] /\ st[x] = "created" /\ x # ct
      /\ UNCHANGED <<tmo, blk, ct, prim, abandoned, now, fdReady, phase>>
      /\ st \in [Threads -> State]
  BY CurrentIsFree DEF Start, Running, WInv, ListsInv, Inv, Typed
<1>2. Mode(x) = "new" /\ Mode(x)' = "runnable"
  BY <1>1 DEF Mode, Dead
<1>3. \A t \in Threads \ {x} : Mode(t)' = Mode(t)
  BY <1>1 DEF Mode
<1> QED
  BY <1>1, <1>2, <1>3 DEF Waits!Start, Waits!SetMode

(* When ##sys#schedule goes on with the first of the ready queue a         *)
(* runnable thread runs.                                                   *)
LEMMA SwitchMaps ==
  ASSUME Inv, Switch
  PROVE  \E x \in Threads : Waits!Run(x)
<1> USE DEF conts, control, world, queues, slots, mutexes
<1>0. PICK x \in Threads : x = Head(readyQueue)
  BY HeadTailProperties DEF Switch, Inv, Typed
<1>1. /\ st' = [st EXCEPT ![x] = "running"] /\ st[x] = "ready" /\ phase = "fetch"
      /\ phase' = "run" /\ ct' = x
      /\ UNCHANGED <<tmo, blk, prim, abandoned, now, fdReady>>
      /\ st \in [Threads -> State]
  BY <1>0 DEF Switch, Inv, Typed
<1>2. Mode(x) = "runnable" /\ Mode(x)' = "running"
  BY <1>1 DEF Mode, Dead
<1>3. \A t \in Threads \ {x} : Mode(t)' = Mode(t)
  BY <1>1 DEF Mode
<1>4. \A t \in Threads : Mode(t) # "running"
  BY <1>1 DEF Mode
<1> QED
  BY <1>1, <1>2, <1>3, <1>4 DEF Waits!Run, Waits!SetMode, Waits!Idle

(* When the current thread calls ##sys#schedule it pauses, or begins to    *)
(* wait for what it has registered, or has ended before.                   *)
LEMMA EntersMaps ==
  ASSUME WInv, Enters
  PROVE  (\E t \in Threads : Waits!Pause(t) \/ Waits!Wait(t)) \/ Waits!World
<1> USE DEF conts, control, world, queues, slots, mutexes
<1>1. /\ st \in [Threads -> State] /\ ct \in Threads /\ phase = "run" /\ phase' = "scan"
      /\ UNCHANGED <<tmo, blk, ct, prim, abandoned, now, fdReady>>
      /\ st[ct] \in {"running"} \union Asleep \union Dead
      /\ \A t \in Threads \ {ct} : st'[t] = st[t]
  <2>1. /\ st \in [Threads -> State] /\ ct \in Threads /\ phase = "run" /\ phase' = "scan"
        /\ st[ct] \in {"running"} \union Asleep \union Dead
        /\ UNCHANGED <<tmo, blk, ct, prim, abandoned, now, fdReady>>
    BY DEF Enters, EnterSchedule, WInv, ListsInv, Inv, Typed, CurrentIsAwake
  <2>2. st' = [st EXCEPT ![ct] = "ready"] \/ st' = st
    BY DEF Enters, EnterSchedule
  <2> QED
    BY <2>1, <2>2
<1>2. \A t \in Threads \ {ct} : Mode(t)' = Mode(t)
  BY <1>1 DEF Mode
<1>3. CASE st[ct] = "running"
  <2>1. st'[ct] = "ready"
    BY <1>1, <1>3 DEF Enters, EnterSchedule
  <2>2. PICK x \in Threads : x = ct
    BY <1>1
  <2>3. Mode(x) = "running" /\ Mode(x)' = "runnable"
    BY <1>1, <1>3, <2>1, <2>2 DEF Mode, Dead
  <2>4. Waits!Pause(x)
    BY <1>1, <1>2, <2>2, <2>3 DEF Waits!Pause, Waits!SetMode
  <2> QED
    BY <2>4
<1>4. CASE st[ct] \in Asleep
  <2>1. st'[ct] = st[ct]
    BY <1>1, <1>4 DEF Enters, EnterSchedule, Asleep
  <2>2. PICK x \in Threads : x = ct
    BY <1>1
  <2>3. Mode(x) = "running" /\ Mode(x)' = "waiting"
    BY <1>1, <1>4, <2>1, <2>2 DEF Mode, Dead, Asleep
  <2>4. tmo[x] # 0 \/ blk[x] # NoBlock
    BY <1>1, <1>4, <2>2 DEF WInv, ListsInv, WellListed
  <2>5. Waits!Wait(x)
    BY <1>1, <1>2, <2>2, <2>3, <2>4 DEF Waits!Wait, Waits!SetMode, Waits!NoCond
  <2> QED
    BY <2>5
<1>5. CASE st[ct] \in Dead
  <2>1. st' = st
    BY <1>1, <1>5 DEF Enters, EnterSchedule, Dead
  <2>2. Mode(ct) = "ended" /\ Mode(ct)' = "ended"
    BY <1>1, <1>5, <2>1 DEF Mode
  <2>3. \A t \in Threads : Mode(t)' = Mode(t) /\ CondOf(t)' = CondOf(t)
    BY <1>1, <1>2, <2>2 DEF CondOf
  <2> QED
    BY <1>1, <2>3, WorldMaps
<1> QED
  BY <1>1, <1>3, <1>4, <1>5

(* What the scheduler wakes has a reason to go on.                         *)
LEMMA WakingMaps ==
  ASSUME Inv, Waking, NEW W \in SUBSET Threads, Wakes(W)
  PROVE  Waits!Wake(W)
<1> USE DEF conts, control, world, queues, slots, mutexes
<1>1. /\ st \in [Threads -> State]
      /\ st' = [t \in Threads |-> IF t \in W THEN "ready" ELSE st[t]]
      /\ tmo' = [t \in Threads |-> IF t \in W THEN 0 ELSE tmo[t]]
      /\ blk' = [t \in Threads |-> IF t \in W THEN NoBlock ELSE blk[t]]
      /\ \A t \in W : st[t] \in Asleep
      /\ UNCHANGED <<ct, prim, now, abandoned>>
  BY DEF Wakes, Inv, Typed
<1>2. fdReady' = fdReady /\ (phase' = "run" <=> phase = "run")
  BY DEF Waking, AbortPrimordial, EIntr, PollFailed, ScanTimeouts, UnblockThreadsForIO, Running
<1>3. \A t \in W : /\ phase = "run" => t # ct
                   /\ \/ t = prim
                      \/ tmo[t] # 0 /\ tmo[t] <= now
                      \/ blk[t] \in FdBlock /\ Waiting(blk[t].dir) \intersect fdReady[blk[t].fd] # {}
  BY <1>1, WokenForAReason
<1>4. \A t \in W : Mode(t) = "waiting" /\ Mode(t)' = "runnable"
  BY <1>1, <1>2, <1>3 DEF Mode, Asleep, Dead
<1>5. \A t \in Threads \ W : Mode(t)' = Mode(t) /\ tmo'[t] = tmo[t] /\ blk'[t] = blk[t]
  BY <1>1, <1>2 DEF Mode
<1>6. \A t \in W : t = prim \/ Waits!Happened([dl |-> tmo[t], obj |-> blk[t]])
  BY <1>3 DEF Waits!Happened, Waits!Wants, Waiting, FdBlock
<1> QED
  BY <1>1, <1>2, <1>4, <1>5, <1>6 DEF Waits!Wake, Waits!SetMode, Waits!ClearCond, Waits!NoCond

(* When a thread ends everybody who waits for it or for one of its mutexes *)
(* goes on, and nobody else but the primordial thread.                     *)
LEMMA KillsMaps ==
  ASSUME RInv, ~forked, NEW x \in Threads, NEW s \in Dead, Kills(x, s)
  PROVE  \E M \in SUBSET DOMAIN abandoned : Waits!End(x, M)
<1> USE DEF conts, control, world, queues, slots, mutexes
<1>0. /\ WInv /\ Inv /\ WaitersWait /\ ct \in Threads /\ prim \in Threads
      /\ st \in [Threads -> State] /\ blk \in [Threads -> BlockObject]
      /\ owned \in [Threads -> SUBSET Mutexes] /\ waiters \in [Mutexes -> SUBSET Threads]
      /\ recip \in [Threads -> SUBSET Threads] /\ abandoned \in [Mutexes -> BOOLEAN]
      /\ \A t \in Threads : WellListed(t)
  BY DEF RInv, WInv, ListsInv, Inv, Typed
<1> DEFINE W == MutexWaiters(x)
           U == (W \union Joiners(x, W)) \ {x}
<1>1. /\ phase = "run" /\ st[x] \notin Dead /\ st[ct] = "running"
      /\ st' = [t \in Threads |-> IF t = x THEN s ELSE IF t \in U THEN "ready" ELSE st[t]]
      /\ \A t \in Threads \ U : t # x => tmo'[t] = tmo[t] /\ blk'[t] = blk[t]
      /\ abandoned' = [m \in Mutexes |-> abandoned[m] \/ m \in owned[x]]
      /\ UNCHANGED <<ct, prim, now, fdReady, phase>>
  BY DEF Kills, ThreadKill
<1>2. \A t \in U : t \in Threads \ {x} /\ st[t] \in Asleep /\ t # ct
  <2>1. \A t \in W : t \in Threads /\ st[t] \in Asleep
    BY <1>0 DEF MutexWaiters
  <2>2. \A t \in Joiners(x, W) : t \in Threads /\ blk[t] # NoBlock
    BY <1>0 DEF Joiners, OnThread, NoBlock
  <2> QED
    BY <1>0, <1>1, <2>1, <2>2, BlockedAreAsleep DEF Asleep
<1>3. \A t \in U : \/ t = prim
                   \/ blk[t] = OnThread(x)
                   \/ \E m \in owned[x] : blk[t] = OnMutex(m)
  <2>1. \A t \in W : t = prim \/ \E m \in owned[x] : blk[t] = OnMutex(m)
    BY <1>0 DEF MutexWaiters, WaitersWait, Asleep, Dead
  <2>2. \A t \in Joiners(x, W) : blk[t] = OnThread(x)
    BY DEF Joiners
  <2> QED
    BY <2>1, <2>2
<1>4. ASSUME NEW t \in Threads \ {x}, st[t] \in Asleep,
             blk[t] = OnThread(x) \/ \E m \in owned[x] : blk[t] = OnMutex(m)
      PROVE  t \in U
  <2>1. CASE blk[t] = OnThread(x)
    BY <1>0, <1>4, <2>1 DEF WellListed, Joiners
  <2>2. CASE \E m \in owned[x] : blk[t] = OnMutex(m)
    <3>1. PICK m \in owned[x] : blk[t] = OnMutex(m)
      BY <2>2
    <3>2. m \in Mutexes /\ t \in waiters[m]
      BY <1>0, <1>4, <3>1 DEF WellListed
    <3> QED
      BY <1>0, <1>4, <3>2 DEF MutexWaiters
  <2> QED
    BY <1>4, <2>1, <2>2
<1> HIDE DEF W, U
<1>5. Mode(x) # "ended" /\ Mode(x)' = "ended"
  BY <1>0, <1>1 DEF Mode
<1>6. \A t \in U : Mode(t) = "waiting" /\ Mode(t)' = "runnable"
  <2> SUFFICES ASSUME NEW t \in U PROVE Mode(t) = "waiting" /\ Mode(t)' = "runnable"
    OBVIOUS
  <2>1. t \in Threads /\ t # x /\ t # ct /\ st[t] \in Asleep /\ st'[t] = "ready"
    BY <1>1, <1>2
  <2>2. Mode(t) = "waiting"
    BY <2>1 DEF Mode, Asleep, Dead
  <2>3. Mode(t)' = "runnable"
    BY <1>1, <2>1 DEF Mode, Dead
  <2> QED
    BY <2>2, <2>3
<1>7. \A t \in Threads \ U : t # x => Mode(t)' = Mode(t) /\ tmo'[t] = tmo[t] /\ blk'[t] = blk[t]
  BY <1>0, <1>1 DEF Mode
<1> DEFINE S == {y \in Threads \ {x} :
                   /\ Mode(y) = "waiting"
                   /\ \/ blk[y].on = "thread" /\ blk[y].th = x
                      \/ blk[y].on = "mutex" /\ blk[y].mx \in owned[x]}
           X == U \ S
<1>8. S \subseteq U
  <2> SUFFICES ASSUME NEW y \in S PROVE y \in U
    OBVIOUS
  <2>1. st[y] \in Asleep /\ y \in Threads \ {x} /\ blk[y] \in BlockObject
    BY <1>0 DEF Mode
  <2>2. blk[y].on = "thread" /\ blk[y].th = x => blk[y] = OnThread(x)
    BY <2>1 DEF BlockObject, NoBlock, FdBlock, ThreadBlock, MutexBlock, OnThread
  <2>3. blk[y].on = "mutex" /\ blk[y].mx \in owned[x] => \E m \in owned[x] : blk[y] = OnMutex(m)
    BY <2>1 DEF BlockObject, NoBlock, FdBlock, ThreadBlock, MutexBlock, OnMutex
  <2> QED
    BY <1>4, <2>1, <2>2, <2>3
<1>9. X \in SUBSET ({prim} \ {x}) /\ \A t \in X : Mode(t) = "waiting"
  <2> SUFFICES ASSUME NEW t \in U, t # prim PROVE t \in S
    BY <1>2, <1>6 DEF U
  <2>1. t \in Threads \ {x} /\ Mode(t) = "waiting"
    BY <1>2, <1>6 DEF U
  <2>2. blk[t] = OnThread(x) \/ \E m \in owned[x] : blk[t] = OnMutex(m)
    BY <1>3
  <2>3. blk[t] = OnThread(x) => t \in S
    BY <2>1 DEF OnThread
  <2>4. \A m \in owned[x] : blk[t] = OnMutex(m) => t \in S
    BY <2>1 DEF OnMutex
  <2> QED
    BY <2>2, <2>3, <2>4
<1>10. S \union X = U /\ x \notin U
  BY <1>2, <1>8
<1>11. \A t \in Threads : CondOf(t)' = IF t \in U \union {x} THEN [dl |-> 0, obj |-> NoBlock]
                                       ELSE CondOf(t)
  BY <1>5, <1>6, <1>7 DEF CondOf
<1>12. \A t \in Threads : Mode(t)' = IF t = x THEN "ended" ELSE IF t \in U THEN "runnable" ELSE Mode(t)
  BY <1>5, <1>6, <1>7, <1>10
<1> DEFINE mode == [t \in Threads |-> Mode(t)]
           cond == [t \in Threads |-> IF Mode(t) = "waiting" THEN [dl |-> tmo[t], obj |-> blk[t]]
                                      ELSE [dl |-> 0, obj |-> NoBlock]]
<1>13. S = {y \in Threads \ {x} :
              /\ mode[y] = "waiting"
              /\ \/ cond[y].obj.on = "thread" /\ cond[y].obj.th = x
                 \/ cond[y].obj.on = "mutex" /\ cond[y].obj.mx \in owned[x]}
  OBVIOUS
<1>14. abandoned' = [m \in DOMAIN abandoned |-> abandoned[m] \/ m \in owned[x]]
  BY <1>0, <1>1
<1>15. mode' = [y \in Threads |-> IF y = x THEN "ended"
                                  ELSE IF y \in S \union X THEN "runnable" ELSE mode[y]]
  BY <1>10, <1>12
<1>16. cond' = [y \in Threads |-> IF y \in S \union X \union {x} THEN [dl |-> 0, obj |-> NoBlock]
                                  ELSE cond[y]]
  <2>1. cond = [t \in Threads |-> CondOf(t)] /\ cond' = [t \in Threads |-> CondOf(t)']
    BY DEF CondOf
  <2> HIDE DEF cond
  <2> QED
    BY <1>10, <1>11, <2>1
<1>17. \A t \in X : mode[t] = "waiting"
  BY <1>2, <1>9
<1>18. mode[x] # "ended" /\ UNCHANGED <<prim, now, fdReady>>
  BY <1>1, <1>5
<1> HIDE DEF S, X
<1>19. PICK M \in SUBSET DOMAIN abandoned : M = owned[x]
  BY <1>0
<1>20. Waits!End(x, M)
  BY <1>9, <1>13, <1>14, <1>15, <1>16, <1>17, <1>18, <1>19
     DEF Waits!End, Waits!ClearCond, Waits!NoCond
<1> QED
  BY <1>20

(* Every step of the scheduler but a fork is a step of ThreadWaits.        *)
LEMMA NextMaps ==
  ASSUME RInv, [Next]_vars, ~forked, ~forked'
  PROVE  Waits!Next
<1>0. /\ WInv /\ Inv /\ ct \in Threads /\ owned \in [Threads -> SUBSET Mutexes]
      /\ DOMAIN abandoned = Mutexes
  BY DEF RInv, WInv, ListsInv, Inv, Typed
<1>1. CASE Elsewhere \/ Registers
  BY <1>0, <1>1, ElsewhereMaps, RegistersMaps DEF Waits!Next
<1>2. ASSUME NEW x \in Threads, Start(x) PROVE Waits!Next
  BY <1>0, <1>2, StartMaps DEF Waits!Next
<1>3. ASSUME NEW x \in Threads, NEW s \in Dead, Kills(x, s) PROVE Waits!Next
  BY <1>3, KillsMaps DEF Waits!Next
<1>4. ~KillOtherThreads
  BY DEF KillOtherThreads
<1>5. CASE Enters
  BY <1>0, <1>5, EntersMaps DEF Waits!Next
<1>6. ASSUME Waking, NEW W \in SUBSET Threads, Wakes(W) PROVE Waits!Next
  BY <1>0, <1>6, WakingMaps DEF Waits!Next
<1>7. CASE Switch
  BY <1>0, <1>7, SwitchMaps DEF Waits!Next
<1> QED
  BY <1>0, <1>1, <1>2, <1>3, <1>4, <1>5, <1>6, <1>7, WaitStepKinds DEF WInv

(* The scheduler keeps the promises of ThreadWaits in every behaviour in   *)
(* which the process does not fork: nobody but the primordial thread goes  *)
(* on without a reason it waits for, and whoever waits for a thread or one *)
(* of its mutexes goes on when the thread ends.                            *)
THEOREM SchedulerImplementsThreadWaits == Spec /\ []~forked => ImplementsThreadWaits
<1>1. RInv /\ [Next]_vars /\ ~forked /\ (~forked)' => [Waits!Next]_(Waits!vars)
  BY NextMaps
<1> QED
  BY <1>1, InitMaps, RInvInit, RInvStep, PTL DEF Spec, ImplementsThreadWaits, Waits!Spec
=============================================================================
