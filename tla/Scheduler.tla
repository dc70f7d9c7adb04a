----------------------------- MODULE Scheduler -----------------------------
(***************************************************************************)
(* The green-thread scheduler of CHICKEN (src/scheduler.scm) together with *)
(* the thread objects and the hooks of src/library.scm it drives, and the  *)
(* callers that block on it (src/tcp.scm, src/posixunix.scm).              *)
(*                                                                         *)
(* A thread object is a record of slots; each slot the scheduler uses is a *)
(* function from threads here and keeps the slot's number in its comment.  *)
(* One CPU executes one thread at a time: "phase" says whether it executes *)
(* the current thread (run) or which part of ##sys#schedule it is in.      *)
(* Signal handlers never run inside ##sys#schedule in this module.         *)
(*                                                                         *)
(* Abstractions of data: the timeout list, which                           *)
(* ##sys#thread-block-for-timeout! keeps sorted, is the set of its entries *)
(* and is read in the order of their times; an fd-list entry and a         *)
(* recipient or waiter list is the set of its threads, so threads made     *)
(* ready by one event enter the ready queue in any order.                  *)
(***************************************************************************)
EXTENDS Naturals, Sequences, FiniteSets, SequencesExt

CONSTANTS
  Threads,     \* thread objects, the primordial one included
  Primordial,  \* ##sys#primordial-thread at start-up
  Fds,         \* file descriptors
  Dirs,        \* i/o modes a caller may ask for, among "in", "out", "all"
  Mutexes,     \* mutex objects
  MaxTime,     \* bound: the millisecond clock stops here
  MaxSignals,  \* bound: how many system calls are cut short by a signal
  Ops          \* the operations the threads of this instance perform, and
               \* the states in which they end

ASSUME ThreadsAssumption == IsFiniteSet(Threads) /\ Primordial \in Threads
ASSUME DirsAssumption    == Dirs \subseteq {"in", "out", "all"}
ASSUME BoundsAssumption  == MaxTime \in Nat /\ MaxSignals \in Nat

VARIABLES
  st,          \* slot 3: thread state
  tmo,         \* slot 4: block-timeout, 0 for #f
  blk,         \* slot 11: what the thread is blocked on
  recip,       \* slot 12: threads waiting for this one to end
  byTmo,       \* slot 13: unblocked by timeout?
  owned,       \* slot 8: mutexes the thread owns
  buf,         \* slot 5: state buffer, the saved dynamic environment
  pc,          \* slot 1: where the thread's continuation is
  call,        \* the blocking call the thread is in: object and deadline
  waiters,     \* slot 3 of a mutex: its waiting threads
  abandoned,   \* slot 4 of a mutex
  ct,          \* ##sys#current-thread
  prim,        \* ##sys#primordial-thread
  globals,     \* the dynamic environment in force
  readyQueue,  \* ready-queue-head/-tail
  timeoutList, \* ##sys#timeout-list
  fdList,      \* ##sys#fd-list
  phase,       \* run, or the part of ##sys#schedule being executed
  now,         \* the clock
  fdReady,     \* what the kernel would report about each descriptor
  signals,     \* signals that have cut a system call short so far
  forked       \* has ##sys#kill-other-threads run?

slots   == <<st, tmo, blk, recip, byTmo, owned, buf>>
conts   == <<pc, call>>
mutexes == <<waiters, abandoned>>
queues  == <<readyQueue, timeoutList, fdList>>
control == <<ct, prim, globals, phase, forked>>
world   == <<now, fdReady, signals>>
vars    == <<slots, conts, mutexes, queues, control, world>>

(* What a thread can be blocked on: (FD . RWFLAGS) | #<THREAD> | #<MUTEX>. *)
NoBlock     == [on |-> "none"]
FdBlock     == [on : {"fd"}, fd : Fds, dir : Dirs]
ThreadBlock == [on : {"thread"}, th : Threads]
MutexBlock  == [on : {"mutex"}, mx : Mutexes]
BlockObject == {NoBlock} \union FdBlock \union ThreadBlock \union MutexBlock

OnFd(f, d)  == [on |-> "fd", fd |-> f, dir |-> d]
OnThread(t) == [on |-> "thread", th |-> t]
OnMutex(m)  == [on |-> "mutex", mx |-> m]

(* A dynamic environment: parameters, dynamic winds, standard ports and    *)
(* handler of a thread, and how often they were changed.                   *)
Env         == [of : Threads, gen : Nat]
OwnEnv(t)   == [of |-> t, gen |-> 0]

NoCall == [obj |-> NoBlock, dl |-> 0]

Deadlines == 1 .. MaxTime
Entry     == [tm : Deadlines, th : Threads]
Dead      == {"dead", "terminated"}
Asleep    == {"blocked", "sleeping"}
State     == {"created", "ready", "running", "suspended"} \union Asleep \union Dead

Waiting(d) == IF d = "all" THEN {"in", "out"} ELSE {d}
Locked(m)  == \E t \in Threads : m \in owned[t]

Init ==
  /\ st = [t \in Threads |-> IF t = Primordial THEN "running" ELSE "created"]
  /\ tmo = [t \in Threads |-> 0]
  /\ blk = [t \in Threads |-> NoBlock]
  /\ recip = [t \in Threads |-> {}]
  /\ byTmo = [t \in Threads |-> FALSE]
  /\ owned = [t \in Threads |-> {}]
  /\ buf = [t \in Threads |-> OwnEnv(t)]
  /\ pc = [t \in Threads |-> "user"]
  /\ call = [t \in Threads |-> NoCall]
  /\ waiters = [m \in Mutexes |-> {}]
  /\ abandoned = [m \in Mutexes |-> FALSE]
  /\ ct = Primordial
  /\ prim = Primordial
  /\ globals = OwnEnv(Primordial)
  /\ readyQueue = <<>>
  /\ timeoutList = {}
  /\ fdList = [f \in Fds |-> {}]
  /\ phase = "run"
  /\ now = 0
  /\ fdReady = [f \in Fds |-> {}]
  /\ signals = 0
  /\ forked = FALSE

-----------------------------------------------------------------------------
(* The scheduler's own procedures.                                         *)

(* ##sys#remove-from-timeout-list: each thread's first entry goes.         *)
RemoveFromTimeoutList(T, S) ==
  {e \in T : \/ e.th \notin S
             \/ \E e2 \in T : e2.th = e.th /\ e2.tm < e.tm}

(* A forgotten clear: the thread stays on the fd-list.                     *)
ClearIOStateForgotten(L, S) == L

(* A clear that drops the whole entry of the descriptor.                   *)
ClearIOStateLosesFd(L, S) ==
  [f \in Fds |-> IF \E t \in S : blk[t].on = "fd" /\ blk[t].fd = f THEN {} ELSE L[f]]

(* ##sys#clear-i/o-state-for-thread!: only the entry slot 11 names.        *)
ClearIOState(L, S) ==
  [f \in Fds |-> {t \in L[f] : ~(t \in S /\ blk[t].on = "fd" /\ blk[t].fd = f)}]

(* The most recent thread first.                                           *)
AddToFrontOfQueue(t) == readyQueue' = <<t>> \o readyQueue

(* ##sys#add-to-ready-queue                                                *)
AddToReadyQueue(t) == readyQueue' = Append(readyQueue, t)

(* The same for the threads of S, in some order.                           *)
Enqueued(q, S) == {q \o w : w \in SetToSeqs(S)}

(* ##sys#thread-basic-unblock! on every thread of S.                       *)
ThreadBasicUnblock(S) ==
  /\ st' = [t \in Threads |-> IF t \in S THEN "ready" ELSE st[t]]
  /\ tmo' = [t \in Threads |-> IF t \in S THEN 0 ELSE tmo[t]]
  /\ blk' = [t \in Threads |-> IF t \in S THEN NoBlock ELSE blk[t]]
  /\ readyQueue' \in Enqueued(readyQueue, S)

(* An unblock that does not look at the thread's state first.              *)
ThreadUnblockAnyState(S) ==
  /\ ThreadBasicUnblock(S)
  /\ timeoutList' = RemoveFromTimeoutList(timeoutList, S)
  /\ fdList' = ClearIOState(fdList, S)

(* ##sys#thread-unblock!: nothing happens to a thread that is not waiting. *)
ThreadUnblock(S) ==
  LET U == {t \in S : st[t] \in Asleep}
  IN  /\ ThreadBasicUnblock(U)
      /\ timeoutList' = RemoveFromTimeoutList(timeoutList, U)
      /\ fdList' = ClearIOState(fdList, U)

(* ##sys#force-primordial                                                  *)
ForcePrimordial ==
  /\ byTmo' = [byTmo EXCEPT ![prim] = FALSE]
  /\ ThreadUnblock({prim})

(* Blocking whatever the deadline is.                                      *)
BlockForAnyTimeout(t, tm) ==
  /\ timeoutList' = timeoutList \union {[tm |-> tm, th |-> t]}
  /\ st' = [st EXCEPT ![t] = "blocked"]
  /\ byTmo' = [byTmo EXCEPT ![t] = FALSE]
  /\ tmo' = [tmo EXCEPT ![t] = tm]

(* ##sys#thread-block-for-timeout!: nothing happens without a deadline.    *)
BlockForTimeout(t, tm) ==
  \/ /\ tm > 0
     /\ timeoutList' = timeoutList \union {[tm |-> tm, th |-> t]}
     /\ st' = [st EXCEPT ![t] = "blocked"]
     /\ byTmo' = [byTmo EXCEPT ![t] = FALSE]
     /\ tmo' = [tmo EXCEPT ![t] = tm]
  \/ tm = 0 /\ UNCHANGED <<timeoutList, st, byTmo, tmo>>

(* ##sys#thread-block-for-i/o!                                             *)
BlockForIO(t, f, d) ==
  /\ fdList' = [fdList EXCEPT ![f] = @ \union {t}]
  /\ st' = [st EXCEPT ![t] = "blocked"]
  /\ byTmo' = [byTmo EXCEPT ![t] = FALSE]
  /\ blk' = [blk EXCEPT ![t] = OnFd(f, d)]

(* ##sys#abandon-mutexes: whoever waits for a mutex of t is unblocked.     *)
MutexWaiters(t) == {w \in UNION {waiters[m] : m \in owned[t]} : st[w] \in Asleep}

(* A thread that ends and tells nobody.                                    *)
NoJoiners(t, W) == {}

(* All recipients, whatever they do by now.                                *)
JoinersAnyBlock(t, W) == recip[t] \ (W \union {t})

(* The recipients of t that still wait for it once W is unblocked.         *)
Joiners(t, W) == {j \in recip[t] \ (W \union {t}) : blk[j] = OnThread(t)}

(* ##sys#thread-kill! with the abandoning of the victim's mutexes: waiters *)
(* of a mutex are unblocked wherever they are, joined threads only if they *)
(* still wait for t; t itself is not taken out of any mutex's waiters.     *)
ThreadKill(t, s) ==
  LET W == MutexWaiters(t)
      J == Joiners(t, W)
  IN  /\ st' = [x \in Threads |-> IF x = t THEN s
                                  ELSE IF x \in W \union J THEN "ready" ELSE st[x]]
      /\ tmo' = [x \in Threads |-> IF x \in W \union J \union {t} THEN 0 ELSE tmo[x]]
      /\ blk' = [x \in Threads |-> IF x \in W \union J \union {t} THEN NoBlock ELSE blk[x]]
      /\ recip' = [x \in Threads |-> IF x = t THEN {}
                                     ELSE IF blk[t] = OnThread(x) /\ t \notin W
                                          THEN recip[x] \ {t} ELSE recip[x]]
      /\ timeoutList' = RemoveFromTimeoutList(timeoutList, W \union {t})
      /\ fdList' = ClearIOState(fdList, W \union {t})
      /\ owned' = [owned EXCEPT ![t] = {}]
      /\ waiters' = [m \in Mutexes |-> IF m \in owned[t] THEN {} ELSE waiters[m]]
      /\ abandoned' = [m \in Mutexes |-> abandoned[m] \/ m \in owned[t]]
      /\ readyQueue' \in UNION {Enqueued(q, J) : q \in Enqueued(readyQueue, W)}

-----------------------------------------------------------------------------
(* What the current thread does between two calls of ##sys#schedule.       *)

Running(at) == phase = "run" /\ pc[ct] = at

(* ##sys#thread-sleep! blocks the caller, then calls ##sys#schedule.       *)
Sleep(tm) ==
  /\ "sleep" \in Ops /\ Running("user")
  /\ BlockForTimeout(ct, tm)
  /\ pc' = [pc EXCEPT ![ct] = "yield"]
  /\ call' = [call EXCEPT ![ct] = [obj |-> NoBlock, dl |-> tm]]
  /\ UNCHANGED <<blk, recip, owned, buf, mutexes, readyQueue, fdList, control, world>>

(* An i/o wait: block for the deadline when there is one, then for the     *)
(* descriptor, then yield. "wait" starts or repeats it.                    *)
WaitForIO(f, d, dl) ==
  /\ call' = [call EXCEPT ![ct] = [obj |-> OnFd(f, d), dl |-> dl]]
  /\ \/ /\ dl # 0
        /\ BlockForTimeout(ct, dl)
        /\ pc' = [pc EXCEPT ![ct] = "io"]
        /\ UNCHANGED <<blk, fdList>>
     \/ /\ dl = 0
        /\ BlockForIO(ct, f, d)
        /\ pc' = [pc EXCEPT ![ct] = "yield"]
        /\ UNCHANGED <<tmo, timeoutList>>
  /\ UNCHANGED <<recip, owned, buf, mutexes, readyQueue, control, world>>

StartIO(f, d, dl) ==
  /\ "io" \in Ops /\ Running("user")
  /\ WaitForIO(f, d, dl)

(* The second step of a wait with a deadline.                              *)
ContinueIO ==
  /\ Running("io")
  /\ BlockForIO(ct, call[ct].obj.fd, call[ct].obj.dir)
  /\ pc' = [pc EXCEPT ![ct] = "yield"]
  /\ UNCHANGED <<tmo, recip, owned, buf, call, mutexes, readyQueue, timeoutList,
                 control, world>>

(* ##sys#thread-block-for-termination! of a thread that has not ended.     *)
BlockForTermination(t, t2) ==
  /\ recip' = [recip EXCEPT ![t2] = @ \union {t}]
  /\ st' = [st EXCEPT ![t] = "blocked"]
  /\ byTmo' = [byTmo EXCEPT ![t] = FALSE]
  /\ blk' = [blk EXCEPT ![t] = OnThread(t2)]

(* thread-join! of the threads extension: an optional deadline, then       *)
(* ##sys#thread-block-for-termination!.                                    *)
Join(t2, dl) ==
  /\ "join" \in Ops /\ Running("user") /\ st[t2] \notin Dead
  /\ BlockForTermination(ct, t2)
  /\ tmo' = [tmo EXCEPT ![ct] = dl]
  /\ timeoutList' = timeoutList \union {e \in {[tm |-> dl, th |-> ct]} : dl # 0}
  /\ pc' = [pc EXCEPT ![ct] = "yield"]
  /\ call' = [call EXCEPT ![ct] = [obj |-> OnThread(t2), dl |-> dl]]
  /\ UNCHANGED <<owned, buf, mutexes, readyQueue, fdList, control, world>>

(* mutex-lock! of the threads extension, on a free and on a locked mutex.  *)
Lock(m) ==
  /\ "lock" \in Ops /\ Running("user") /\ ~abandoned[m]
  /\ \/ /\ ~Locked(m)
        /\ owned' = [owned EXCEPT ![ct] = @ \union {m}]
        /\ UNCHANGED <<st, blk, waiters, conts>>
     \/ /\ Locked(m)
        /\ st' = [st EXCEPT ![ct] = "sleeping"]
        /\ blk' = [blk EXCEPT ![ct] = OnMutex(m)]
        /\ waiters' = [waiters EXCEPT ![m] = @ \union {ct}]
        /\ pc' = [pc EXCEPT ![ct] = "yield"]
        /\ call' = [call EXCEPT ![ct] = [obj |-> OnMutex(m), dl |-> 0]]
        /\ UNCHANGED owned
  /\ UNCHANGED <<tmo, recip, byTmo, buf, abandoned, queues, control, world>>

(* thread-start! of the threads extension: ##sys#add-to-ready-queue.       *)
Start(t) ==
  /\ "start" \in Ops /\ Running("user") /\ st[t] = "created"
  /\ st' = [st EXCEPT ![t] = "ready"]
  /\ AddToReadyQueue(t)
  /\ UNCHANGED <<tmo, blk, recip, byTmo, owned, buf, conts, mutexes, timeoutList,
                 fdList, control, world>>

(* thread-terminate! of the threads extension, on a thread other than the  *)
(* primordial one (which would leave the program).                         *)
Terminate(t) ==
  /\ "kill" \in Ops /\ Running("user") /\ t \notin {ct, prim} /\ st[t] \notin Dead
  /\ ThreadKill(t, "terminated")
  /\ UNCHANGED <<byTmo, buf, conts, control, world>>

(* The current thread ends: its thunk returned (dead), or an exception     *)
(* reached ##sys#default-exception-handler (terminated).                   *)
End(s) ==
  /\ s \in Ops /\ Running("user") /\ ct # prim
  /\ ThreadKill(ct, s)
  /\ pc' = [pc EXCEPT ![ct] = "yield"]
  /\ UNCHANGED <<byTmo, buf, call, control, world>>

(* ##sys#default-exception-handler when C_abort_on_thread_exceptions is    *)
(* set: the exception is handed to the primordial thread first.            *)
AbortPrimordial ==
  /\ "abort" \in Ops /\ Running("user") /\ ct # prim
  /\ ThreadUnblock({prim})
  /\ pc' = [pc EXCEPT ![prim] = "raise", ![ct] = "dying"]
  /\ UNCHANGED <<recip, byTmo, owned, buf, call, mutexes, control, world>>

FinishAbort ==
  /\ Running("dying")
  /\ ThreadKill(ct, "terminated")
  /\ pc' = [pc EXCEPT ![ct] = "yield"]
  /\ UNCHANGED <<byTmo, buf, call, control, world>>

(* The primordial thread resumes with another thread's exception.          *)
Raise ==
  /\ Running("raise")
  /\ pc' = [pc EXCEPT ![ct] = "user"]
  /\ call' = [call EXCEPT ![ct] = NoCall]
  /\ UNCHANGED <<slots, mutexes, queues, control, world>>

(* After the wait: slot 13 tells a timeout; an i/o wait that finds its     *)
(* descriptor not ready is repeated with the same deadline.                *)
Useless(c) ==
  c.obj.on = "fd" /\ Waiting(c.obj.dir) \intersect fdReady[c.obj.fd] = {}

Return ==
  /\ Running("woken")
  /\ byTmo[ct] \/ ~Useless(call[ct])
  /\ pc' = [pc EXCEPT ![ct] = "user"]
  /\ call' = [call EXCEPT ![ct] = NoCall]
  /\ fdReady' = IF call[ct].obj.on = "fd" /\ ~byTmo[ct]
                THEN [fdReady EXCEPT ![call[ct].obj.fd] = @ \ Waiting(call[ct].obj.dir)]
                ELSE fdReady
  /\ UNCHANGED <<slots, mutexes, queues, control, now, signals>>

Retry ==
  /\ Running("woken")
  /\ ~byTmo[ct] /\ Useless(call[ct])
  /\ WaitForIO(call[ct].obj.fd, call[ct].obj.dir, call[ct].dl)

(* What a child forgets of the timeout list: nothing, or (the code) all.   *)
EntriesKept    == timeoutList
EntriesInChild == {}

(* ##sys#kill-other-threads, in the child of a fork.                       *)
KillOtherThreads ==
  LET listed == {e.th : e \in timeoutList} \union UNION {fdList[f] : f \in Fds}
      S == listed \union {ct}
  IN  /\ "fork" \in Ops /\ Running("user") /\ ~forked
      /\ forked' = TRUE
      /\ prim' = ct
      /\ readyQueue' = <<ct>>
      /\ st' = [t \in Threads |-> IF t \in listed \ {ct} THEN "suspended" ELSE st[t]]
      /\ blk' = [t \in Threads |-> IF t \in S THEN NoBlock ELSE blk[t]]
      /\ recip' = [t \in Threads |-> IF t \in S THEN {} ELSE recip[t]]
      /\ timeoutList' = EntriesInChild
      /\ fdList' = [f \in Fds |-> {}]
      /\ UNCHANGED <<tmo, byTmo, owned, buf, conts, mutexes, ct, globals, phase, world>>

-----------------------------------------------------------------------------
(* ##sys#schedule                                                          *)

(* Entry: save the environment; a thread that did not block is queued.     *)
EnterSchedule ==
  /\ buf' = [buf EXCEPT ![ct] = globals]
  /\ \/ /\ st[ct] \in {"running", "ready"}
        /\ byTmo' = [byTmo EXCEPT ![ct] = FALSE]
        /\ st' = [st EXCEPT ![ct] = "ready"]
        /\ AddToReadyQueue(ct)
     \/ /\ st[ct] \notin {"running", "ready"}
        /\ UNCHANGED <<byTmo, st, readyQueue>>
  /\ phase' = "scan"
  /\ UNCHANGED <<tmo, blk, recip, owned, call, mutexes, timeoutList, fdList, ct, prim,
                 globals, forked, world>>

(* ##sys#thread-yield! at the end of a blocking call.                      *)
Yield ==
  /\ Running("yield")
  /\ EnterSchedule
  /\ pc' = [pc EXCEPT ![ct] = "woken"]

(* ##sys#interrupt-hook for reason 255 in ordinary code, and thread-yield! *)
(* called there: the continuation is the interrupted one.                  *)
TimerInterrupt ==
  /\ Running("user")
  /\ EnterSchedule
  /\ UNCHANGED pc

(* Entries of the timeout list whose thread still waits for them.          *)
LiveTimeouts == {e \in timeoutList : tmo[e.th] = e.tm}

(* Deadlines taken to be reached a millisecond early.                      *)
PendingRounded == {e \in LiveTimeouts : e.tm > now + 1}

(* Live entries whose deadline is still to come.                           *)
Pending == {e \in LiveTimeouts : e.tm > now}

(* loop: wake what has expired, drop stale entries, stop at the first      *)
(* live entry still to come; sleep when only the timeout list has threads. *)
ScanTimeouts ==
  LET expired == {e.th : e \in LiveTimeouts \ Pending}
  IN  /\ phase = "scan"
      /\ byTmo' = [t \in Threads |-> byTmo[t] \/ t \in expired]
      /\ fdList' = ClearIOState(fdList, expired)
      /\ st' = [t \in Threads |-> IF t \in expired THEN "ready" ELSE st[t]]
      /\ tmo' = [t \in Threads |-> IF t \in expired THEN 0 ELSE tmo[t]]
      /\ blk' = [t \in Threads |-> IF t \in expired THEN NoBlock ELSE blk[t]]
      /\ \E w \in SetToSeqs(expired) :
           /\ \A i, j \in DOMAIN w : i < j => tmo[w[i]] <= tmo[w[j]]
           /\ readyQueue' = readyQueue \o w
      /\ timeoutList' = {e \in timeoutList : \E n \in Pending : n.tm <= e.tm}
      /\ phase' = IF readyQueue' = <<>> /\ timeoutList' # {} /\ fdList' = [f \in Fds |-> {}]
                  THEN "msleep" ELSE "poll"
      /\ UNCHANGED <<recip, owned, buf, conts, mutexes, ct, prim, globals, forked, world>>

NextTimeout(T) == CHOOSE n \in {e.tm : e \in T} : \A e \in T : n <= e.tm

(* C_msleep returns after the whole time ...                               *)
SleepOver ==
  /\ phase = "msleep" /\ now >= NextTimeout(timeoutList)
  /\ phase' = "poll"
  /\ UNCHANGED <<slots, conts, mutexes, queues, ct, prim, globals, forked, world>>

(* ... or early, because of a signal: the environment is saved again and   *)
(* the primordial thread is forced.                                        *)
SleepInterrupted ==
  /\ phase = "msleep" /\ signals < MaxSignals
  /\ signals' = signals + 1
  /\ phase' = "eintr"
  /\ UNCHANGED <<slots, conts, mutexes, queues, ct, prim, globals, forked, now, fdReady>>

EIntrWithoutSaving ==
  /\ phase = "eintr"
  /\ ForcePrimordial
  /\ phase' = "fetch"
  /\ UNCHANGED <<recip, owned, buf, conts, mutexes, ct, prim, globals, forked, world>>

EIntr ==
  /\ phase = "eintr"
  /\ buf' = [buf EXCEPT ![ct] = globals]
  /\ ForcePrimordial
  /\ phase' = "fetch"
  /\ UNCHANGED <<recip, owned, conts, mutexes, ct, prim, globals, forked, world>>

(* create-fdset asks about the modes of the threads listed under f; an     *)
(* error or hang-up is f being ready both ways.                            *)
Reported(f) ==
  fdReady[f] \intersect
    UNION {Waiting(blk[t].dir) : t \in {x \in fdList[f] : blk[x].on = "fd"}}

FdsListed  == {f \in Fds : fdList[f] # {}}
Immediate  == readyQueue # <<>>

(* A poll whose timeout is computed from the ready queue alone.            *)
TimesOutWhenImmediate == Immediate

(* select/poll comes back without a descriptor being ready.                *)
TimesOut == Immediate \/ (timeoutList # {} /\ now >= NextTimeout(timeoutList))

(* fdset-test forgotten: every thread on a ready descriptor is woken.      *)
WokenAnyMode(f) == {t \in fdList[f] : Reported(f) # {} /\ ~byTmo[t]}

(* loop2 of ##sys#unblock-threads-for-i/o on one descriptor's threads.     *)
Woken(f) ==
  {t \in fdList[f] : /\ Reported(f) # {} /\ ~byTmo[t]
                     /\ blk[t].on # "fd" \/ Waiting(blk[t].dir) \intersect Reported(f) # {}}

(* A thread is listed under a descriptor it is not blocked on: the panic   *)
(* this leads to is an action of SchedulerSignals, because it takes a      *)
(* handler that waits inside a call (SchedulerProofs!NoUnknownFd).         *)
UnknownFd(f) ==
  \E t \in fdList[f] : Reported(f) # {} /\ ~byTmo[t] /\ blk[t].on = "fd" /\ blk[t].fd # f

(* ##sys#unblock-threads-for-i/o, when select/poll has an answer.          *)
UnblockThreadsForIO ==
  LET S == UNION {Woken(f) : f \in Fds}
  IN  /\ phase = "poll" /\ FdsListed # {} /\ ~ \E f \in Fds : UnknownFd(f)
      /\ TimesOut \/ \E f \in Fds : Reported(f) # {}
      /\ ThreadBasicUnblock(S)
      /\ timeoutList' = RemoveFromTimeoutList(timeoutList, {t \in S : tmo[t] # 0})
      /\ fdList' = [f \in Fds |-> {t \in fdList[f] \ Woken(f) :
                                     ~(Reported(f) # {} /\ byTmo[t])}]
      /\ phase' = "fetch"
      /\ UNCHANGED <<recip, byTmo, owned, buf, conts, mutexes, ct, prim, globals, forked,
                     world>>

(* A waiting select/poll returns -1 because of a signal: the primordial    *)
(* thread is forced.                                                       *)
PollInterrupted ==
  /\ phase = "poll" /\ FdsListed # {} /\ ~Immediate /\ signals < MaxSignals
  /\ signals' = signals + 1
  /\ phase' = "polled"
  /\ UNCHANGED <<slots, conts, mutexes, queues, ct, prim, globals, forked, now, fdReady>>

PollFailed ==
  /\ phase = "polled"
  /\ ForcePrimordial
  /\ phase' = "fetch"
  /\ UNCHANGED <<recip, owned, buf, conts, mutexes, ct, prim, globals, forked, world>>

NoFds ==
  /\ phase = "poll" /\ FdsListed = {}
  /\ phase' = "fetch"
  /\ UNCHANGED <<slots, conts, mutexes, queues, ct, prim, globals, forked, world>>

(* A switch that does not restore the thread's state buffer.               *)
SwitchKeepsGlobals ==
  /\ phase = "fetch" /\ readyQueue # <<>> /\ st[Head(readyQueue)] = "ready"
  /\ readyQueue' = Tail(readyQueue)
  /\ ct' = Head(readyQueue)
  /\ st' = [st EXCEPT ![Head(readyQueue)] = "running"]
  /\ phase' = "run"
  /\ UNCHANGED <<tmo, blk, recip, byTmo, owned, buf, conts, mutexes, timeoutList, fdList,
                 prim, globals, forked, world>>

(* loop2: the first queued thread that is ready gets the processor.        *)
Switch ==
  /\ phase = "fetch" /\ readyQueue # <<>> /\ st[Head(readyQueue)] = "ready"
  /\ readyQueue' = Tail(readyQueue)
  /\ ct' = Head(readyQueue)
  /\ st' = [st EXCEPT ![Head(readyQueue)] = "running"]
  /\ globals' = buf[Head(readyQueue)]
  /\ phase' = "run"
  /\ UNCHANGED <<tmo, blk, recip, byTmo, owned, buf, conts, mutexes, timeoutList, fdList,
                 prim, forked, world>>

DropUnready ==
  /\ phase = "fetch" /\ readyQueue # <<>> /\ st[Head(readyQueue)] # "ready"
  /\ readyQueue' = Tail(readyQueue)
  /\ UNCHANGED <<slots, conts, mutexes, timeoutList, fdList, control, world>>

(* A panic that does not look at the fd-list.                              *)
NobodyReadyIgnoresFds ==
  /\ phase = "fetch" /\ readyQueue = <<>>
  /\ phase' = IF timeoutList = {} THEN "deadlock" ELSE "scan"
  /\ UNCHANGED <<slots, conts, mutexes, queues, ct, prim, globals, forked, world>>

(* Nobody is ready: look again, or panic when nobody is listed either.     *)
NobodyReady ==
  /\ phase = "fetch" /\ readyQueue = <<>>
  /\ phase' = IF timeoutList = {} /\ FdsListed = {} THEN "deadlock" ELSE "scan"
  /\ UNCHANGED <<slots, conts, mutexes, queues, ct, prim, globals, forked, world>>

-----------------------------------------------------------------------------
(* The world outside.                                                      *)

Tick ==
  /\ now < MaxTime
  /\ now' = now + 1
  /\ UNCHANGED <<slots, conts, mutexes, queues, control, fdReady, signals>>

FdBecomesReady(f, d) ==
  /\ "io" \in Ops /\ phase \in {"run", "msleep", "poll"} /\ d \notin fdReady[f]
  /\ fdReady' = [fdReady EXCEPT ![f] = @ \union {d}]
  /\ UNCHANGED <<slots, conts, mutexes, queues, control, now, signals>>

ThreadStep ==
  \/ \E tm \in {0} \union Deadlines : Sleep(tm)
  \/ \E f \in Fds, d \in Dirs, dl \in {0} \union Deadlines : StartIO(f, d, dl)
  \/ ContinueIO
  \/ \E t \in Threads, dl \in {0} \union Deadlines : Join(t, dl)
  \/ \E m \in Mutexes : Lock(m)
  \/ \E t \in Threads : Start(t) \/ Terminate(t)
  \/ \E s \in Dead : End(s)
  \/ AbortPrimordial \/ FinishAbort \/ Raise
  \/ Return \/ Retry \/ KillOtherThreads

ScheduleStep ==
  \/ Yield \/ TimerInterrupt \/ ScanTimeouts \/ SleepOver \/ SleepInterrupted \/ EIntr
  \/ UnblockThreadsForIO \/ PollInterrupted \/ PollFailed \/ NoFds
  \/ Switch \/ DropUnready \/ NobodyReady

WorldStep == Tick \/ \E f \in Fds, d \in {"in", "out"} : FdBecomesReady(f, d)

Next == ThreadStep \/ ScheduleStep \/ WorldStep

Spec == Init /\ [][Next]_vars

(* What the processor does by itself: the scheduler's steps, the timer     *)
(* interrupt, and the rest of a blocking call once its thread runs.        *)
CpuStep ==
  \/ Yield \/ TimerInterrupt \/ ScanTimeouts \/ SleepOver \/ EIntr
  \/ UnblockThreadsForIO \/ PollFailed \/ NoFds \/ Switch \/ DropUnready \/ NobodyReady
  \/ ContinueIO \/ Return \/ Retry \/ FinishAbort \/ Raise

Fairness == WF_vars(CpuStep) /\ WF_vars(Tick)

FairSpec == Spec /\ Fairness

-----------------------------------------------------------------------------
(* Every variable has its type.                                            *)
TypeOK ==
  /\ st \in [Threads -> State]
  /\ tmo \in [Threads -> Nat]
  /\ blk \in [Threads -> BlockObject]
  /\ recip \in [Threads -> SUBSET Threads]
  /\ byTmo \in [Threads -> BOOLEAN]
  /\ owned \in [Threads -> SUBSET Mutexes]
  /\ buf \in [Threads -> Env]
  /\ pc \in [Threads -> {"user", "io", "yield", "woken", "dying", "raise"}]
  /\ call \in [Threads -> [obj : BlockObject, dl : 0 .. MaxTime]]
  /\ waiters \in [Mutexes -> SUBSET Threads]
  /\ abandoned \in [Mutexes -> BOOLEAN]
  /\ ct \in Threads /\ prim \in Threads /\ globals \in Env
  /\ readyQueue \in Seq(Threads)
  /\ timeoutList \subseteq Entry
  /\ fdList \in [Fds -> SUBSET Threads]
  /\ phase \in {"run", "scan", "msleep", "eintr", "poll", "polled", "fetch", "deadlock"}
  /\ now \in 0 .. MaxTime /\ signals \in 0 .. MaxSignals
  /\ fdReady \in [Fds -> SUBSET {"in", "out"}]
  /\ forked \in BOOLEAN

Count(q, t) == Cardinality({i \in DOMAIN q : q[i] = t})

(* A ready thread is in the ready queue, and only once: it neither gets    *)
(* lost nor runs twice, whoever made it ready.                             *)
ReadyIsQueuedOnce ==
  ~forked => \A t \in Threads : st[t] = "ready" => Count(readyQueue, t) = 1

(* What can still wake a thread.                                           *)
Listed(t) ==
  \/ tmo[t] # 0 /\ [tm |-> tmo[t], th |-> t] \in timeoutList
  \/ blk[t].on = "fd" /\ t \in fdList[blk[t].fd]
  \/ blk[t].on = "thread" /\ t \in recip[blk[t].th] /\ st[blk[t].th] \notin Dead
  \/ blk[t].on = "mutex" /\ t \in waiters[blk[t].mx] /\ Locked(blk[t].mx)

(* A thread that has given up the processor and waits is listed with       *)
(* something that can still wake it: a live entry of the timeout list, the *)
(* fd-list entry of its descriptor, the recipients of a thread that has    *)
(* not ended, or the waiters of a mutex somebody holds.                    *)
NoLostWakeup == ~forked => \A t \in Threads : st[t] \in Asleep => Listed(t)

(* "This should never be false": a thread on the fd-list is blocked for    *)
(* i/o on that very descriptor (create-fdset); and the converse.           *)
FdListMatchesSlot11 ==
  \A t \in Threads, f \in Fds :
    t \in fdList[f] <=> (blk[t].on = "fd" /\ blk[t].fd = f)

(* A ready thread waits for nothing any more: no event can queue it twice. *)
ReadyWaitsForNothing ==
  \A t \in Threads : st[t] = "ready" => tmo[t] = 0 /\ blk[t] = NoBlock

(* A caller finds slot 13 set after its wait only if it gave a deadline    *)
(* and the deadline has passed (mutex-lock! without one never looks).      *)
NoEarlyTimeout ==
  Running("woken") /\ byTmo[ct] /\ call[ct].obj.on # "mutex" =>
    call[ct].dl # 0 /\ call[ct].dl <= now

(* The environment in force is the running thread's own.                   *)
OwnEnvironment == phase = "run" => globals.of = ct

(* The scheduler panics only when no thread could ever run again.          *)
DeadlockIsReal ==
  phase = "deadlock" =>
    \A t \in Threads : /\ st[t] # "ready" \/ forked
                       /\ st[t] \in Asleep => tmo[t] = 0 /\ blk[t].on # "fd"

(* A thread that has ended never becomes ready, runs or waits again; at    *)
(* most a fork suspends it, by an entry it left on the timeout list.       *)
DeadStayDead ==
  [][\A t \in Threads : st[t] \in Dead => st'[t] \in {st[t], "suspended"}]_vars

(* In the child of a fork, the threads found waiting on the timeout list   *)
(* and the fd-list never run again; at most they are terminated.           *)
SuspendedStaySuspended ==
  [][\A t \in Threads : st[t] = "suspended" => st'[t] \in Dead \union {"suspended"}]_vars

(* Every ready thread gets the processor, unless it is terminated first.   *)
ReadyRuns ==
  \A t \in Threads : st[t] = "ready" ~> (phase = "run" /\ ct = t) \/ st[t] \in Dead

(* A call with a deadline always comes back.                               *)
DeadlineReturns ==
  \A t \in Threads : call[t].dl # 0 ~> call[t].dl = 0 \/ st[t] \in Dead

(* No thread stays blocked on a descriptor that stays ready for it.        *)
NoStuckIO ==
  \A t \in Threads, f \in Fds, d \in Dirs :
    []<>~(st[t] = "blocked" /\ blk[t] = OnFd(f, d) /\ Waiting(d) \intersect fdReady[f] # {})
=============================================================================
