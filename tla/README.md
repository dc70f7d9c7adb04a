# Verification of the CHICKEN runtime

This directory models the runtime of CHICKEN Scheme: the scheduler of green
threads, signal handlers that run in the middle of it, the TCP ports that block
on it, the memory with its copying collections, the arithmetic on bignums and
the numeric tower, and the trace buffer with the statistical profiler. The
modules are written from `src/scheduler.scm`, `src/tcp.scm`, `src/library.scm`,
`src/runtime.c` and `src/chicken.h`; TLC checks them on small instances, and
TLAPS proves for all values of the constants what the runs check of the
scheduler (with handlers and without) and that it implements its abstract
specification, of the ports, of the interrupt queue, of the memory and its
collections, of the trace buffer, and of sums, products and shifts of integers
of any length; liveness and the rest of the arithmetic stay with TLC.
`PROJECT.json` maps every definition to the lines it translates and lists the
hazards the properties are aimed at.

## 1. Inventory of the system

CHICKEN is a Scheme compiler, an interpreter and their runtime. One process has
one CPU's worth of control: Scheme threads are continuations in a ready queue,
and the only concurrency is the interleaving the scheduler makes, the signals
the kernel delivers, and what the kernel does with descriptors meanwhile.

| component | state | operations | interacts with | hard behaviour | what makes it correct |
|---|---|---|---|---|---|
| scheduler (`scheduler.scm`) | ready queue, timeout list, fd-list, current and primordial thread | schedule, block and unblock for time, i/o and termination, kill, fork | threads (slots), signals, kernel (`poll`, `nanosleep`) | several events for one thread, stale list entries, EINTR | no wakeup lost or doubled, no early timeout, panic only in a real deadlock, each thread keeps its environment |
| threads and mutexes (`library.scm`) | slots of thread and mutex objects | make, start, yield, join, lock, terminate (the last four in the external threads extension) | scheduler | a thread ends while others wait, time out, or end | recipients and mutex waiters go on exactly once |
| signals and interrupts (`runtime.c`, `library.scm`) | pending-interrupt queue, stack limit, handler vector | raise, dispatch at a procedure entry, interrupt hook | scheduler, every blocking call | a C signal handler between any two instructions; handlers run inside the scheduler and between two calls of one wait | every signal reaches its handler once; the interrupted operation does not notice |
| tcp (`tcp.scm`) | listener, two ports per socket, buffers, flags | listen, accept, connect, read, write, flush, close, abandon | scheduler, kernel sockets | partial sends, waits in the middle, timeouts, half-closed connections | bytes arrive once and in order, end-of-file only at the end, descriptors closed once |
| garbage collector (`runtime.c`) | nursery, two heap halves, remembered set ("mutation stack"), locative table, GC roots | minor, major, escalating and reallocating collection, `object-become!` | mutator (`C_mutate`), finalizers, symbol table, interrupts | old objects pointing to new ones, weak structures, a minor collection that has to be abandoned, an interrupt in place of a collection | live data is kept, every pointer follows |
| finalizers (`runtime.c`, `library.scm`) | live and pending finalizer lists | set, run at interrupts | collector, interrupt hook | objects that come back to life | each runs once, on an otherwise dead object |
| symbol table (`runtime.c`) | weak buckets | intern, collect | collector | a symbol dropped while it is interned again | one symbol per name |
| dynamic wind, parameters, continuations (`library.scm`) | list of winders | wind, unwind, call/cc | scheduler (saved environments) | exits out of a winder | befores and afters alternate |
| exceptions (`library.scm`) | handler stack | raise, handle | scheduler environment | - | - |
| posix ports and processes (`posixunix.scm`, `posix-common.scm`) | descriptor ports, child processes | custom ports, fork, wait | scheduler | ports that wait for descriptors, forks of a threaded process | as tcp |
| bignums and numeric tower (`runtime.c`, `chicken.h`, `library.scm`) | the C stack left for recursion | arithmetic, shifts, comparisons, conversions | C stack | rare digits, carries, ties, normalisation, fallbacks of a full stack | equal to the integers and the rationals, one form per number |
| call trace and statistical profiler (`runtime.c`, `library.scm`, `repl.scm`) | ring of calls, table of counts, one spare bucket | trace, clear, resize, fetch, dump, sample | every traced procedure, profile timer | a signal between any two steps of a push, a clear or a resize | the chain is the latest calls, each sample counts the latest |
| ports, reader, printer; data structures; module system, expander; compiler; evaluator; tools | sequential | - | - | - | - |

All of them, with the files, are in `PROJECT.json` under `components`; the
compiler, expander, reader, printer and the command-line tools are sequential
passes over unbounded trees or text and are not modelled.

A mechanism several components share: `(disable-interrupts)` in `scheduler.scm`
and `tcp.scm` only drops the decrement of the timer from the compiled code.
A signal makes `C_stack_limit` lie (`C_raise_interrupt`), so the next procedure
entry takes the path of a full stack, and the handler runs there whatever the
declarations say. The timer cannot preempt these files; a signal can.

## 2. Plan

Done:

1. `Scheduler`: everything in `scheduler.scm` that moves a thread.
2. `ThreadWaits`, `SchedulerRefinement`: what the scheduler promises, and that it keeps it.
3. `SchedulerProofs`: the inductive invariants, first of the slots and the
   fd-list, then of the queue, the timeouts and the waits.
4. The refinement, step by step, at the end of the same module.
5. `SchedulerSignals`, `SchedulerSignalProofs`: handlers inside the scheduler and
   inside a wait, and what they leave intact.
6. `TcpPorts`, `Tcp`, `TcpProofs`: the ports on top of the scheduler's promise,
   and that they lose, repeat and reorder nothing.
7. `Interrupts`, `InterruptProofs`: how a signal reaches its handler, and that
   it is not forgotten on the way.
8. `Heap`, `HeapProofs`: generations, the remembered set, forwarding, and on top
   of them finalizers, locatives, symbol table, roots and `object-become!`; and
   that collections lose nothing, for any memory.
9. `BignumDigits`, `BignumProducts`, `BignumQuotients`, `Bignums`, `Tower`,
   `Numbers`: the arithmetic, each algorithm against what integers and fractions
   should give.
10. `DigitCalculations`, `DigitProofs`, `CalculationProofs`: programs that
    calculate with the first three of these modules, and that what they get is
    exact whatever the length of the numbers and of the words.
11. `Trace`, `TraceProofs`: the ring of calls and the profiler's signal handler.

Theorems to come: of `Bignums`, the greatest common divisors, which need their
recursion written as functions; and of the modules to come.

Modules to come: `DynamicWind` (`##sys#dynamic-unwind` between any two lists of
winders), `PosixPorts` (custom ports, which wait like TCP ports), the scratch
space of `runtime.c` (a third place from which pointers into the nursery are
remembered), the internal hash tables.

## 3. Modules and code

### Scheduler (`scheduler.scm`)

A thread object is a record with numbered slots. Each slot the scheduler uses is
a function on `Threads`; the comment of each variable gives the slot. `phase`
tells what the one processor executes: the current thread (`run`) or a part of
`##sys#schedule`:

    run -> scan -> (msleep -> [eintr]) -> poll -> [polled] -> fetch -> run
                                                             \-> scan again

`scan` is the loop over the timeout list, `msleep` the `nanosleep` when nobody is
ready and no descriptor is listed, `poll` `##sys#unblock-threads-for-i/o`,
`fetch` `loop2` over the ready queue. `eintr` and `polled` are the points behind
a system call a signal has cut short; they are phases of their own because
handlers run there. Panics are phases with no successor, so `CHECK_DEADLOCK` is
off: the program stops there, and it may also end with threads that wait for
each other.

| code | model |
|---|---|
| `##sys#thread-block-for-timeout!`, `-for-i/o!`, `-for-termination!` | `BlockForTimeout`, `BlockForIO`, `BlockForTermination` |
| `##sys#thread-basic-unblock!`, `##sys#thread-unblock!` | `ThreadBasicUnblock`, `ThreadUnblock` |
| `##sys#remove-from-timeout-list`, `##sys#clear-i/o-state-for-thread!` | `RemoveFromTimeoutList`, `ClearIOState` |
| `##sys#thread-kill!`, `##sys#abandon-mutexes` | `ThreadKill`, `MutexWaiters`, `Joiners` |
| `##sys#schedule` | `EnterSchedule`, `ScanTimeouts`, `SleepOver`, `SleepInterrupted`, `EIntr`, `Switch`, `DropUnready`, `NobodyReady` |
| `create-fdset`, `##sys#unblock-threads-for-i/o`, `fdset-test` | `Reported`, `TimesOut`, `Woken`, `UnblockThreadsForIO`, `PollInterrupted`, `PollFailed`, `NoFds`, `UnknownFd` |
| `##sys#kill-other-threads` | `KillOtherThreads` |
| `##sys#default-exception-handler` | `AbortPrimordial`, `FinishAbort`, `Raise`, `End` |
| `read-input` of `tcp.scm` as a caller | `StartIO`, `ContinueIO`, `Return`, `Retry` |
| join, lock, start, terminate of the threads extension (external) | `Join`, `Lock`, `Start`, `Terminate` |

A wait for a descriptor is two calls, `##sys#thread-block-for-timeout!` and then
`##sys#thread-block-for-i/o!`: two steps here, because handlers run between them.

Abstractions. The timeout list is kept sorted by the code, so it is the set of
its entries read in the order of their times (`ScanTimeouts` stops at the first
live entry still to come, and drops the stale ones before it). The threads of an
fd-list entry, of a recipient list and of a mutex are sets; threads that one
event makes ready enter the queue in every order. An environment (parameters,
winders, ports, handler) is the thread it belongs to and how often it was
changed. Time is a counter up to `MaxTime`.

### ThreadWaits and SchedulerRefinement

`ThreadWaits` has no queues, lists or system calls: a waiting thread goes on when
its deadline has passed, its descriptor is ready, the thread it joined has ended
or its mutex was abandoned; the primordial thread may also be woken by a signal.
`SchedulerRefinement` reads a thread's mode off slot 3 and the current thread,
and what it waits for off slots 4 and 11. After a fork a child forgets the
recipients of the thread that forked, so a join that was pending on it is not
answered; the refinement is therefore checked with forks and with joins, in two
runs (`SchedIO`, `SchedLive`), and not with both at once.

### SchedulerSignals

Extends the scheduler with handlers that return, that are preempted inside
`##sys#schedule` (the interrupted scheduler then becomes the thread's
continuation and goes on later), that give up the processor in the middle of a
blocking call, or that wait for a descriptor there. `nested` records that the
last has happened: such a handler overwrites slot 11 and leaves the first
registration on the fd-list, so the scheduler may later meet a thread on the
fd-list that waits for another descriptor, or nothing at all, and panic. The
properties on the lists and on threads that have ended, `SigQueuesIntact` and
`DeadAreNotWoken`, are stated for behaviours without such a handler.

### Interrupts (`runtime.c`, `library.scm`)

The way from a signal to its handler. `global_signal_handler` runs with all
signals masked and is one step (`Signal`), but it may come between any two steps
of the program, and the two share `pending_interrupts` with no lock. The
program's own `--pending_interrupts_count` and `pending_interrupts_count++` are a
load and a store, so they are two steps; `reg` is the value loaded.

| code | model |
|---|---|
| `C_raise_interrupt` in the signal handler | `Forces`, `Queued`, `RaiseInterrupt`, `Signal` |
| `C_raise_interrupt` from `C_check_for_interrupt`, in the program | `TimerExpires`, `TimerQueued` |
| `C_demand` at a procedure's entry, `C_save_and_reclaim` | `Call`, `AtCheck`, `CheckSucceeds`, `CheckFails` |
| `C_reclaim`, `handle_interrupt` | `InterruptDue`, `Interrupt`, `Collect`, `PopLoad`, `PopStore`, `PopRead` |
| `##sys#interrupt-hook`, `##sys#dispatch-interrupt` | `HandlerStarts`, `HandlerReturns`, `HandlerEscapes`, `DispatchInterrupt` |
| `C_i_pending_interrupt` | `MorePending`, `NonePending`, `Resume` |
| `C_context_switch` | `Resume` |

Every procedure entry is a stack check, those of the hook and of the handlers
included, so hooks interrupt hooks: `frames` is the list of what they have
interrupted. `next` names the procedure a check belongs to (`program`, `handler`:
the hook about to call a handler, `body`: the handler itself, `pending`: the hook
about to ask for more).

A signal is `owed` from its arrival until its handler starts. The code lets go of
an owed signal in three ways, recorded in history variables when they happen and
nowhere else: it arrives between a load of the count and the store or read that
belongs to it, so that it is cut off or overwrites the entry being taken (`lost`);
a handler calls a continuation of the program, and the hooks below it never go on
with the signals they hold (`lost`); the queue is full (`dropped`).

### TcpPorts and Tcp

`TcpPorts` is the pair of ports `io-ports` makes, at both ends of every
connection. `tcp.scm` is compiled with `disable-interrupts`, so a call keeps the
processor until it waits or returns (`Idle`); waits follow `ThreadWaits`. The
n-th byte written at an end is the number n, so loss, duplication and reordering
are visible. `Tcp` adds the listener, connects and accepts. The kernel is
external: `Handshake`, `Refuse`, the backlog, and a pipe of bounded size.

| code | model |
|---|---|
| `read-input`, `read-char`, `read-string!`, `read-buffered` | `StartRead`, `Recv`, `RecvEof`, `RecvWait`, `ReadWoken`, `ReadTimesOut`, `RecvFails`, `Take`, `ReadBuffered` |
| `output`, `write-string`, `flush-output` | `Write`, `Flush`, `Output`, `Send`, `SendWait`, `SendWoken`, `OutputReturns`, `WriteTimesOut`, `SendFails` |
| `close-input-port`, `close-output-port`, `tcp-abandon-port` | `CloseInput`, `CloseOutput`, `ShutDown`, `AbandonPort` |
| `tcp-connect`, `get-socket-error` | `Connect`, `ConnectWoken`, `ConnectReturns`, `ConnectFails`, `SocketError` |
| `tcp-listen`, `tcp-accept`, `tcp-close` | `Init` (the listener), `Accept`, `AcceptWoken`, `AcceptReturns`, `AcceptBlocks`, `AcceptInterrupted`, `AcceptFails`, `CloseListener` |

`torn` and `failedClose` record the calls that failed with part of their work
done: a write that timed out after a partial send (the buffer is sent again from
its start by the next flush), a `read-string!` that timed out after it had taken
bytes out of the buffer (they are gone), a close whose flush failed (the
descriptor is not closed). These are how the code behaves, and no document
promises otherwise; the properties say precisely that nothing else goes wrong.

Not modelled: `read-line`, `tcp-accept-ready?`, addresses and ports, several
readers or writers of one port (nothing in the code makes that safe, and nothing
says it is), the reuse of a closed descriptor's number, data lost to a reset.

### Heap (`runtime.c`)

Every object has size one and a name in `Obj`, which it keeps when it moves. A
pointer is the name and where its holder believes the object to be: in the
nursery (`young`), in the half in use (`old`), or in a half that was given up
(`gone`). A pointer a collection has forgotten to update is therefore visible at
once, long before somebody would follow it.

| code | model |
|---|---|
| `C_mutate_slot`, `CHICKEN_gc_root_set` | `Remember`, `RememberSlot`, `Store`, `StoreStatic` |
| `C_intern_in`, `add_symbol`, `C_i_persist_symbol`, `C_i_unpersist_symbol` | `AddSymbol`, `FindSymbol`, `SetValue`, `DropValue` |
| `C_a_i_make_locative`, `C_i_locative_set`, `C_a_i_locative_ref` | `MakeLocative`, `Store`, `Fetch` |
| `C_register_finalizer`, `##sys#run-pending-finalizers` | `RegisterFinalizer`, `CallFinalizer`, `ClearPending` |
| `C_reclaim`, minor | `MinorLive`, `MinorFits`, `MinorGC` |
| `C_reclaim`, major; `update_locative_table`, `update_symbol_tables` | `Roots`, `LateRoots`, `Due`, `Forwarded`, `NextKept`, `Evacuate`, `MajorGC` |
| a minor collection that runs out of heap on its way | `AbortedMinor`, `EscalatedGC` |
| `C_rereclaim2` | `Reallocate`, `ResizedGC` |
| `C_become` | `Become` |
| `C_allocate_vector`, `allocate_vector_2` | `LargeVector`, `InterruptedVector` |

An escalating collection may do to locatives what the code lets it do: one that
depends on an object only the abandoned minor collection has kept then points
into the half that was given up (`HeapLocative`). From such a state
(`~TableIsFollowed`) the model takes no further step but `Astray`, because what
the next collection reads there is whatever has overwritten that half; the
properties are checked in that state, too. `InterruptedSpec` adds
`InterruptedVector`, the case `HeapVector` shows. An interrupt may also replace
the collection that `C_become` asks for; `become_2` then empties the forwarding
table and nothing has been replaced, which is a step that changes nothing here.
The order of the finalizer list, the counter that delays shrinking, and
finalizers that escape are left out.

### BignumDigits, BignumProducts, BignumQuotients, Bignums, Tower, Numbers (`runtime.c`, `chicken.h`, `library.scm`)

An integer is a fixnum or a sign and a sequence of digits, the least significant
one first. A digit has `DigitBits` bits, a half digit half as many (`Half` is
their number of values, the power of two that `DigitAssumption` says).

- `BignumDigits` has the loops over digits and half digits: sums, differences and
  comparisons, scaling, shifts of digits and of complements, the product and the
  quotient by hand, `C_bignum_simplify`, and the operations made of them. All
  loops are `Upward` or `Downward`, a step applied digit by digit with a carry.
- `BignumProducts` has `integer-times`, with Karatsuba's recursion as functions
  of `room`, the C frames left, which decides where a recursion gives up.
- `BignumQuotients` has `integer_divrem`: fixnums, small divisors, the division
  of digits, and the division by parts (Burnikel-Ziegler). Its two procedures
  that call each other are a function of `room`, `Halvings`, handed down as
  `halve`: what divides numbers of half as many digits.
- `Bignums` has Lehmer's gcd, bitwise operations on complements, and conversion
  to and from text. A text expected to be longer than a threshold is written in
  two parts, recursively, unless the radix is a power of two (`InTwoParts`,
  `Joined`). As in the code the sign comes with the upper part, so the threshold
  must be such that the upper part is never zero.
- `Tower` is the rest, on integers that are those of TLA+: ratnums, flonums (a
  mantissa of `Precision` bits and a bounded exponent, with infinities and NaN),
  cplxnums, conversions, rounding and comparisons. A flonum is made exact as the
  code does it, by scaling it up and dividing by the power of two afterwards.

`DigitCalculations` is a program that calls one operation of the first three
modules; `Numbers` extends it with the operations of the others, and compares
their results with reference values written from the definition of the operation
alone. The code it is about is sequential: a behaviour is one call.

`CalculationsExact` compares sums, products and shifts with the integers of TLA+
where these are large enough for them in TLC (`Short`), and with each other
beyond: a sum less one summand is the other one, a product is the one by hand, a
shift is the product with a power of two, or what is left of the number without
that product is not negative and less than the power. A quotient times the
divisor, by hand, plus the remainder is the dividend, the remainder is smaller
than the divisor and has the dividend's sign, and the remainder that is found
without a quotient is the same one.

Exceptions the reference values make, all named in the properties: the gcd of
zero and the most negative fixnum; shifts in which `CarryIsLost`; negative
ratnums and bignums made inexact, which are next to the number and not always
nearest; the quotient of two flonums; `=` of a cplxnum and a bignum.

### Trace (`runtime.c`, `library.scm`, `repl.scm`)

`C_trace` is up to five steps (begin, wrap `top`, set `full`, write the entry,
move `top`), a clear and a resize are two each, and `Tick`, the handler of the
profile timer, may come between any of them, nowhere waiting for the others.

| code | model |
|---|---|
| `C_trace`, `C_emit_trace_info2` | `Enter`, `Preallocated`, `AtLimit`, `WrapTop`, `WrapFull`, `StoreEntry`, `PushEntry` |
| `take_profile_sample` | `NoDataYet`, `Newest`, `Counted`, `Sample`, `NeedsBucket`, `Tick` |
| `C_clear_trace_buffer`, `C_resize_trace_buffer` | `Silenced`, `FreeBuffer`, `Allocated`, `ResetBuffer`, `Cleared` |
| `get-call-chain`, `C_fetch_trace`, `C_dump_trace` | `AskSize`, `FetchFits`, `Fetched`, `DumpTrace` |
| `C_i_dump_statistical_profile` | the action of that name |

`calls`, `due` and `called` are history variables: what was called since the
buffer was cleared, and which samples and calls the table should show. The
buffer has at least two entries (`MIN_TRACE_BUFFER_SIZE` is 3): with one, the
newest entry would be the one being written. A sample that finds `top` reset and
`full` not yet set, in the first round of the ring, counts nothing, as the code
does. START of `get-call-chain` is zero.

## 4. Runs

Passing runs:

| run | instance | question | properties |
|---|---|---|---|
| `SchedIO` | primordial + 1 thread, 1 descriptor, both directions, 1 mutex, clock 0..2, 1 signal; sleep, i/o, lock, terminate, abort, fork; `Focus` | Do timeouts, descriptors, signals, mutexes and forks leave the lists and the queue consistent, and is everybody woken for a reason? | `TypeOK`, `ReadyIsQueuedOnce`, `NoLostWakeup`, `FdListMatchesSlot11`, `NoEarlyTimeout`, `DeadlockIsReal`, `OwnEnvironment`, `SuspendedStaySuspended`, `ImplementsThreadWaits` |
| `SchedLive` | primordial + 1 thread, 1 descriptor, clock 0..2, 1 signal; sleep, i/o, start, join, end | Does every ready thread run, every deadline end its wait, and every ready descriptor wake its thread, and are joins answered for a reason? | `ImplementsThreadWaits`, `ReadyRuns`, `DeadlineReturns`, `NoStuckIO` |
| `SigAll` | primordial + 2 threads, 2 descriptors, 1 signal, `Focus`; every kind of handler; join with and without deadline, end, terminate | Do handlers leave the scheduler intact, and do threads that end while others wait for them, time out or end, too, wake only the living? | `HandlerChangesKept`, `SigQueuesIntact`, `DeadAreNotWoken` |
| `IntAll` | 2 signals arriving 3 times, 1 timer interrupt, queue of 2, stack of 2 calls | Is any signal forgotten other than in those three ways, and is each handled in the end? | `TypeOK`, `SignalsAccounted`, `SignalsHandled` |
| `TcpAll` | 1 connection, 1 acceptor, buffer of 2, chunks, input buffer and pipe of 1, 2 bytes, 1 timeout, 1 signal | Do bytes survive partial sends, waits, timeouts, closes and refusals, and does the end-of-file arrive? | `NothingLost`, `EofIsEnd`, `DescriptorsFollowPorts`, `CloseReportsLoss`, `EofArrives` |
| `HeapAll` | 4 objects, nursery of 2, halves of 2 and 3, 2 registers, 2 names, 1 finalizer, 1 finalizable root, `Focus` | Does a program that allocates, mutates, interns and finalizes notice collections that come at any time? | `TypeOK`, `PointersValid`, `MutationsTracked`, `SymbolsUnique`, `CollectionInvisible`, `FinalizedWhenDead`, `LocativesFollow` |
| `NumAll` | words of 6 bits, half digits of 3, Karatsuba from 2 digits and parts from 1, mantissas of 3 bits, exponents -5..12, texts beyond 13 characters in parts; 0, 1 or 3 frames left | Does every operation give what the numbers should, in every algorithm? | `TypeOK`, `CalculationsExact`, `GcdExact`, `BitsAndText`, `TowerExact`, `ConversionsRound` |
| `TraceAll` | rings of 2 and 3, 2 names, 3 calls of each, 3 signals | Is a call chain the most recent calls, and does each sample count the last one? | `TypeOK`, `RecentCalls`, `SamplesAccounted` |

Why the bounds suffice for what the runs ask. Two threads and one descriptor are
enough for a thread to be on both lists, to be woken by either event, and for the
two events to race. Two ticks let a deadline pass before, at and after another
one, and let a retried wait find its deadline already behind it. One signal is
enough for every system call to be cut short at every point; a second one would
repeat it. Three threads are needed for joins (a joiner of a joiner, two joiners
of one thread); in `SchedIO` a `Focus` has threads terminated in the middle of a
wait only before the signal and the fork, in `SigAll` a `Focus` gives three
threads the joins and two of them the descriptors and the signals. Two bytes with
chunks and a pipe of one make every multi-byte write partial, with a wait in
between, and the output buffer reaches its limit. Two signals and a timer are one
entry more than the queue of two holds; the third arrival is a repetition, at
every point of the first two; a stack of two calls makes a check fail for want of
room as well as by force.

Four objects in `HeapAll` are two symbols with their buckets, or an object of each
generation, one dead and one that refers to both; halves of two and three make
every major collection choose between staying, growing and shrinking, and the
smaller half makes a minor collection of two objects run out on its way. `Focus`
keeps the kinds of objects apart where they do not meet: three or more objects
have at most one of symbols, locatives, finalizers and static slots among them.
The digits of `NumAll` were chosen around every border the code tests (fixnums,
half digits, digits, their powers, all ones), with dividends of up to seven
digits for the division by parts; the add-back step of the division, both gcd
loops and all the fallbacks run. In `TraceAll` the smallest ring turns over three
times, and a resize to one asks for the minimum.

Violations, each a disagreement between the code and a sentence of the
repository's own documentation or comments:

| run | property | what happens |
|---|---|---|
| `HeapVector` | `PointersValid` | The collection `C_allocate_vector` asks for may turn out to be the call of an interrupt handler. The vector is then made in the heap while its initial value is still in the nursery, and nothing enters its slots on the mutation stack: the next minor collection leaves the vector with pointers into what was the nursery. |
| `HeapLocative` | `DeadZeroedOut` | A minor collection fills the heap and is abandoned; what it has copied already forwards to the half in use. The major collection that takes over takes every forwarded object for live in `update_locative_table`, so a weak locative whose object nothing else holds keeps a pointer, to the copy in the half that is given up. |
| `NumShift` | `ShiftIsFloor` | A negative bignum is shifted to the right by whole digits, and the digits kept of its complement are all zero: negating them carries out of the result, which is 0. |
| `TraceBucket` | `BucketReady` | One signal uses up the bucket after `C_trace` has found it ready and before its entry is there, the next signal needs another one: `assert(b != NULL)` fails. |

### Known divergences

Found while modelling, not shown by a run of their own. The models contain the
behaviour; the properties say what holds besides it.

Scheduler, signals and ports:

- `process-fork` with "kill all other existing threads": `##sys#kill-other-threads`
  finds only threads on the timeout list and the fd-list; a thread blocked in a
  join runs on in the child when what it joined ends.
- NEWS says that a sleeping primordial thread does not forget what interrupt
  handlers change in parameters; it does when it sleeps in `poll` because another
  thread waits for a descriptor. `HandlerChangesKept` leaves that path out.
- A handler that gives up the processor between the two calls of a wait lets the
  thread be made ready and run again; it goes on to block for the descriptor
  without its deadline.
- A handler that runs inside `##sys#schedule` after an interrupted `nanosleep` and
  lasts longer than a quantum is preempted there, and the timer's `##sys#schedule`
  saves its continuation in slot 1 of the thread, which is still waiting. When the
  deadline wakes the thread it is `running`, ends the handler and goes on with the
  interrupted `##sys#schedule`, which requeues threads that are ready but not ones
  that are running: the thread is lost, and if it was the only one the program
  panics with "deadlock". `SigQueuesIntact` therefore speaks of the ready and the
  waiting threads only (found by the proof: `OnlyCurrentRuns` is not invariant in
  `SchedulerSignals`).
- The stack limit that a signal fakes while the hook is about to take it itself is
  not restored: the program spins on a failing check until another signal comes
  (`Spinning` in `SignalsHandled`).
- With two accepting threads and one connection the second stops the process in
  a blocking `accept` (`AcceptBlocks`).
- A handler that has waited for a descriptor in the middle of a wait leaves the
  thread on the fd-list twice. If the thread has ended when the older entry
  becomes ready it is made ready again ("this is incorrect but will be ignored,
  just let it run"); `DeadAreNotWoken` leaves out behaviours with such a handler.
- `tcp-connect` does not look at slot 13: a connect that times out while
  `SO_ERROR` is 0 returns ports (`ConnectReturns`). Nothing is lost unnoticed for
  it: the first flush or the close raises an error (`CloseReportsLoss`).

Memory:

- The same branch of `update_locative_table` that `HeapLocative` shows keeps the
  table entry of a locative that was copied and is dead: the entry, too, may point
  into the half that was given up.
- A locative that only such an object keeps is not in the table any more, and when
  the heap is then moved once more its pointer is cleared although its object
  lives: the last alternative of `LocativesFollow` (found by the proof, which
  could not show that the program does not hold the object).
- A symbol's bucket that was taken out of the chain keeps its pointer; nothing
  follows it.

Numbers:

- `gcd` of zero and the most negative fixnum, or of it twice, is negative.
- `exact->inexact` never rounds a negative ratnum away from zero, and rounds
  bignums twice.
- The generic comparison tests its first argument where it means the second one,
  so `=` of a cplxnum and a bignum is an error.
- The quotient and the modulo of flonums beyond the mantissa may be off by one.

Trace: with a START above zero and a full buffer `C_fetch_trace` does not turn over
correctly and drops the oldest entries, not the newest (the model has START 0);
and a resize between the size `get-call-chain` has read and its fetch is a panic.

### Fairness

`Scheduler!Fairness` is weak fairness of `CpuStep`, the steps the processor does
by itself (the parts of `##sys#schedule`, the timer interrupt of a thread that
computes, the rest of a blocking call once its thread runs), and of `Tick`, the
clock. There is none on the kernel making a descriptor ready, on signals, or on
what a program chooses to call. The timer interrupt is fair because compiled
code outside the two files counts down at every procedure entry; FIFO order of
the ready queue is in the model, not assumed.

`Interrupts!FairSpec`: weak fairness of `CpuStep`, the program's own next step.
No signal, timer interrupt or interrupted system call is assumed to come, so
`SignalsHandled` has to allow for the state `Spinning` (known divergences).

`Tcp!Fairness`: strong fairness of each reader's steps, because others may take
the processor again and again but the ready queue is first-in first-out, and the
property is about a program that keeps reading; weak fairness of sending, which
is the rest of a call that has begun. Neither the kernel's answer to a connect
nor any new call is assumed.

## 5. Theorems

`SchedulerProofs` is proved with TLAPS for all values of the constants that
satisfy the assumptions of `Scheduler` (`ThreadsAssumption`: finitely many
threads, the primordial one among them; `DirsAssumption`; `BoundsAssumption`).

The inductive invariant `Inv` is a conjunction:

- `Typed`, the types, for every point of the code at which a signal handler may
  leave a thread as well (`TypeOK` and `NoHandlers` follow);
- `IOCallsHaveFd`: a thread between the two calls of an i/o wait has a descriptor
  in its call record (without it the second call has no descriptor to block on);
- `AwakeWaitForNothing`: whoever is not waiting has slot 4 and 11 clear, apart
  from the current thread on its way into a wait;
- `FdListMatchesSlot11`: the fd-list and slot 11 say the same. It is not
  inductive alone: every unblock removes the thread from the entry slot 11 names
  and then clears slot 11, so a thread must not reach an unblock by a path that
  leaves one of them;
- `ListedNotTimedOut`: no listed thread has slot 13 set. `loop2` of
  `##sys#unblock-threads-for-i/o` drops such a thread from the list without
  clearing slot 11; the scan of the timeouts must have removed it before;
- `GoneWaitForNothing`: dead and suspended threads wait for nothing;
- `CurrentThread`: what the current thread's state can be in each phase (the fork
  and the kill rely on its not being on a list);
- `Environments`: every saved environment, and the one in force, is its thread's.

| theorem | statement |
|---|---|
| `Invariance` | `Spec => []Inv` |
| `TypeCorrect` | `Spec => []TypeOK` |
| `FdListAgrees` | `Spec => []FdListMatchesSlot11` |
| `NoUnknownFd` | `Spec => [](\A f \in Fds : ~UnknownFd(f))`: the panic of `loop2` needs a handler that waits |
| `ReadyIsFree` | `Spec => []ReadyWaitsForNothing` |
| `EnvironmentIsOwn` | `Spec => []OwnEnvironment` |
| `TheDeadStayDead` | `Spec => DeadStayDead`: threads that have ended stay so, without handlers |
| `TheSuspendedStaySuspended` | `Spec => SuspendedStaySuspended` |

The proof of the inductive step has one lemma per action, resting on lemmas about
the operators that several actions share (`ThreadUnblock`, `ThreadKill`,
`ForcePrimordial`, queues built with `Enqueued`).

Its second part goes on with who waits, who is ready and what the lists
know of it. `ListsInv` adds to `Inv`

- `QueueHoldsTheReady`: until a fork, the ready queue holds each ready thread once
  and, beside them, only threads that have ended;
- `CurrentIsAwake`: the thread that executes has not been made ready, so that
  `##sys#schedule` may put it into the queue;
- `WellListed`: what a waiting thread waits for exists, its deadline is on the
  timeout list and is that of its call, and the thread or the mutex it waits for
  lists it and has not yet ended or been released;
- `SleepsAlone`: the system calls that wait are made while nobody is ready;
- `DeadlockIsEmpty`: at the panic the queue and both lists are empty;

and `WInv` adds to that `OnlyCurrentRuns` and `TimedOutLate`: a call that is told
of a timeout (slot 13) had a deadline that has passed, or does not wait at all.

| theorem | statement |
|---|---|
| `WaitInvariance` | `Spec => []WInv` |
| `TheReadyAreQueuedOnce` | `Spec => []ReadyIsQueuedOnce` |
| `NoWakeupIsLost` | `Spec => []NoLostWakeup` |
| `NoTimeoutIsEarly` | `Spec => []NoEarlyTimeout` |
| `NoFalseDeadlock` | `Spec => []DeadlockIsReal` |

A thread is queued twice only if it is made ready twice, by two events, without
having run; so the lemmas show of each event that whom it wakes was asleep, and
of each way to fall asleep that the queue did not hold the thread. `NoLostWakeup`
and `DeadlockIsReal` are `WellListed` read from the thread's side and from the
lists' side.

The last part of the module proves `SchedulerImplementsThreadWaits`:
`Spec /\ []~forked => ImplementsThreadWaits`. Its invariant `RInv` adds
`WaitersWait` to `WInv`: `##sys#abandon-mutexes` unblocks whoever is on a mutex's
list without a look at it, which `ThreadWaits` allows only for threads that wait
for that mutex. Every action is mapped to a step of `ThreadWaits` or to a stutter
(`WaitStepKinds`, `WakingMaps` and the lemmas named after steps). With forks the
statement for all constants is not the same: in the child a dead thread with an
entry on the timeout list becomes "suspended" (section 6), and primordial waiters
of another thread's mutexes are forgotten; the run `SchedIO` shows the refinement
with forks as long as there are no joins.

`SchedulerSignalProofs` proves about `SchedulerSignals`, with handlers of every
kind at every point:

| theorem | statement |
|---|---|
| `SignalInvariance` | `SigSpec => []SigInv` |
| `NoChangeIsLost` | `SigSpec => []HandlerChangesKept` |
| `HandlersKeepTheQueues` | `SigSpec => []SigQueuesIntact` |
| `HandlersWakeNoDead` | `SigSpec => DeadAreNotWoken` |

`SigInv` has the types, `IOCallsHaveFd`, `ChangesAreSaved` (each change is in the
environment in force or in the buffer of a thread off the processor, and in the
current thread's buffer exactly when nothing may run before it is restored) and,
until a handler has waited in the middle of a wait, `ListsInv`. It cannot have all
of `WInv`: `OnlyCurrentRuns` is false once handlers are preempted inside
`##sys#schedule` (known divergences), which the attempt to prove it showed.

`TcpProofs` proves about `Tcp`, for any connections, accepting threads, buffer
sizes, timeouts and bounds:

| theorem | statement |
|---|---|
| `TcpInvariance` | `Spec => []TcpInv` |
| `NoByteIsLost` | `Spec => []NothingLost` |
| `EofComesLast` | `Spec => []EofIsEnd` |
| `DescriptorsLiveAsLongAsPorts` | `Spec => []DescriptorsFollowPorts` |
| `LossesAreReported` | `Spec => []CloseReportsLoss` |

The heart of `TcpInv` is `Streams`: what an end has written is, in this order, what
its peer has been given, what a call of the peer has taken out of its buffer, the
rest of that buffer, the pipe, and what the writer's own buffer or chunk still
has. Each step cuts one of these sequences and appends the piece to its
neighbour, so associativity is all that is needed, once the pieces are known
(`TakenOnlyInACall`, `CallsAreShort`). `EofIsEnd` needs `ClosingIsClosed` (an end
is shut down only with its buffer empty) and `EofDone`; the descriptors need
`PortsExist`, `SetUp` and `BacklogIsQueued` (the accepted connection is one that
has no ports yet). `CloseReportsLoss` rests on `Connected`: whatever has left the
thread that wrote it went through a connection that was established.

`HeapProofs` proves about `Heap`, for any finite set of objects, any names, roots,
finalizers and sizes of nursery and halves (`HeapAssumption`):

| theorem | statement |
|---|---|
| `HeapInvariance` | `Spec => []IInv`, which says `HInv` until a locative goes astray |
| `HeapTypeCorrect` | `Spec => []TypeOK` |
| `PointersAreValid` | `Spec => []PointersValid` |
| `RememberedSetComplete` | `Spec => []MutationsTracked` |
| `OneSymbolPerName` | `Spec => []SymbolsUnique` |
| `FinalizersAreLate` | `Spec => FinalizedWhenDead` |
| `LocativesAreFollowed` | `Spec => LocativesFollow` |
| `CollectionsAreInvisible` | `Spec => CollectionInvisible` |

`PointersValid` speaks of what is accessible, which is not inductive: an
inaccessible object becomes accessible again when a locative, a symbol or a
finalizer leads back to it. `HInv` speaks of the whole memory instead, dead
objects included, as long as the locative table can be followed
(`TableIsFollowed`):

- `HeldOK`, `ContentsOK`: registers, static slots, queued finalizers, blocks,
  locatives and symbols hold valid pointers to blocks, locatives and symbols
  only; no bucket of the symbol table is to be seen outside of it;
- `TableInv`: the table is a chain without a cycle, of buckets with a symbol each
  (`TableOK`, `Acyclic`); it has every persistent bucket and every bucket in the
  nursery (`PairsIn`), every symbol in the memory (`Listed`), and no name twice
  (`Distinct`). What an earlier collection took out of it is weak and in the
  heap, and the only thing left with a stale pointer;
- `LocativesOK`: the locative table has the locatives with a pointer, and only them;
- `MutationsTracked`, and the types.

`IInv` is what is left when an abandoned minor collection has led a locative
astray: `Solid`, all of `HInv` that does not speak of the locative table or of
where a locative points (`StraysOK` allows a raw pointer into the half that was
given up), and `ContentsOK` and `LocativesOK` while `TableIsFollowed`.

`Reachable` and `Chain` are least closed sets, so four lemmas (`ReachIsClosed`,
`ReachIsLeast`, `ChainIsClosed`, `ChainIsLeast`) are all the proofs use of them.
A step of the program falls under one of few kinds (a new object, a changed one,
a changed root, nothing), each with a lemma that keeps every part of `HInv` that
it does not touch (`Steady...`). In a minor collection the mutation stack is what
makes it right: `LiveTargets` says that whatever any object outside of the
nursery points to inside is live, even if that object is dead. The collections
that move everything are one lemma (`EvacuationStep`) about any set `kept` that
holds the roots and what it leads to; `MajorGCIs` and `ReallocateIs` show that
the code's three ways of choosing it are such sets. It gives `Solid'` in any
case, and `HInv'` if what the table keeps has survived (`Followed`), which an
escalated collection does not promise.

The action properties compare what the program holds before and after.
`StrongAfter` says that a set that holds the roots before a collection, and with
each object what it leads to, holds all that is held afterwards (`Holding`);
with what was live it gives `FinalizersAreLate`, with `Strong` itself that a
collection brings nothing back. The converse, that it loses nothing, takes
the table into account: a weak bucket may go, but only if nothing strong leads to
its symbol (`TableIsStrong`).

`InterruptProofs` proves about `Interrupts`, for any finite set of signals, queue
length, stack and number of arrivals (`QueueAssumption`), with hooks nested to any
depth:

| theorem | statement |
|---|---|
| `QueueInvariance` | `Spec => []IInv` |
| `QueueTypeCorrect` | `Spec => []TypeOK`, with no signal queued twice |
| `NoSignalForgotten` | `Spec => []SignalsAccounted` |

`SignalsAccounted` is not inductive: that a decremented count hides no entry
depends on what the program loaded and on what has arrived since. `IInv` adds

- `EntryToPop`: the entry the program has begun to take exists;
- `EntryToPush`: the slot the timer's entry goes to is within the queue and
  behind every entry the program has seen;
- `LateEntriesAtRisk`: an owed entry behind the loaded count is in `lost`;
- `FramesNest`: a hook that executes has interrupted something, and outermost is
  the program, so `C_context_switch` has something to return to.

`RaiseAppends` says what the C signal handler does to the queue and is all the
other lemmas use of it; signal arrivals (`SignalAccounted`) and the program's
steps (`CpuAccounted`) are then separate cases.

`TraceProofs` proves about `Trace`, for every size of the ring from two on, any
names, threads and resizes, and any number of calls and signals:

| theorem | statement |
|---|---|
| `TraceInvariance` | `Spec => []IInv` |
| `TraceTypeCorrect` | `Spec => []TypeOK`; no sample is counted for freed or unwritten memory |
| `ChainsAreRecent` | `Spec => []RecentCalls` |
| `EverySampleCounts` | `Spec => []SamplesAccounted` |

`RecentCalls` speaks of the buffer between procedures; `IInv` says what it holds
inside of them. `Ring`: below `top` are the last calls, from `top` on, once the
ring has turned over, the calls before them, and the entry being written belongs
to neither. `Counts`: since the newest entry is thus the last call, each name has
as many samples as signals found it there; and a name called last and sampled
before another one has been called once more than the profiler has noticed, which
is what keeps its calls from being overstated.

`DigitProofs` proves about `BignumDigits` and `BignumProducts`, and
`CalculationProofs` about `BignumQuotients` and `DigitCalculations`, for words of
any even number of bits from four on (`DigitAssumption`), any Karatsuba threshold
from two on (`KaratsubaAssumption`), any threshold of the division by parts
(`BurnikelZieglerAssumption`), any room on the C stack, and integers of any size in the form the code stores
them in (`IntegersAssumption`: what a program holds was returned by an earlier
operation):

| theorem | statement |
|---|---|
| `SimplifyExact`, `OneForm` | `Simplify` keeps the value and finds its only stored form; two stored integers with one value are the same |
| `PlusExact`, `MinusExact`, `NegateExact`, `CmpExact` | sums, differences, negations and comparisons are those of the values, and stored |
| `FixnumTimesExact`, `SmallFactorExact`, `MultiplyDigitsExact`, `TimesExact` | products are, by every method |
| `LeftShiftExact`, `RightShiftExact` | shifts multiply by a power of two or divide and round down, except if the carry of a complement is lost |
| `DivideFullExact`, `DivideSmallExact`, `DivRemExact` | quotients and remainders are, by every method; `DivRemExact` is `integer_divrem` as a whole |
| `RemaindersAgree` | the remainder found without a quotient is the one found with it |
| `SumsAreExact`, `ProductsAreExact`, `ShiftsAreExact`, `DivisionsAreExact` | `DigitSpec => []SumsExact`, and so on |
| `CalculationsAreExact` | `DigitSpec => []CalculationsExact` |

`IsExactly(s, v)` says that the integer `s` is stored and has the value `v`; the
theorems on operators have the form that exact operands give an exact result,
so they compose. Induction over digits is induction over a set of numbers
(`Induction`, from `WellFoundedInduction`, and `Iteration`, which shows that the
recursive functions of the model have values at all). The argument:

- `LoopKeepsValue`: if each step of a loop keeps `out + base * carry' = in +
  carry`, the loop keeps the value of all digits. Each loop (sum, difference,
  scaling, shift, row of a product, negation of a complement) is then one fact about
  one step, in `SumStep...`, `ScaleStep...`, `RowStep...` and their like, where
  the carries are shown to fit; `LoopsDown` and `DividingLoop` do the same for
  loops from the top.
- Products by hand: `AddRowExact` adds one row at its place, `RowCovers` that the
  rows so far are the product with the half digits so far. `KaratsubaExact` takes
  the exactness of the smaller products as its assumption (`Multiplies`), and
  `ProductsMultiply` is the induction over the room.
- Shifts: to the right, the digits kept of the complement are a quotient with
  a remainder (`KeptDigitsExact`), so is the shift by bits (`ShiftRightExact`), and
  two such quotients compose (`ShiftsCompose`). Taking the complement back is where
  the carry may be lost (`LosesCarry`, the `CarryIsLost` of the run `NumShift`); the
  theorem shows that this is the only exception.
- Quotients of digits: the estimate from the leading half digits is the true
  quotient digit or one too large (`TrialBounds`, which needs the shift that sets
  the divisor's leading bit), the carry out of the subtraction tells which
  (`CarryIsSign`), and `QuotientDigitExact` is one round: the remainder stays
  below the divisor. `QuotientDigitsExact` is the induction over the rounds.
- Quotients by parts: `IsHalf` says what is asked of a division in halves (a
  normalized divisor of `n` digits, a dividend below it times `Base^n`), `Leaves`
  what it returns. `ThreeByTwoExact` shows that the quotient by the divisor's
  upper half is at most two too large (`FewCorrections`, `CorrectionsEnd`: the
  three `IfNegative` of the model are enough for the loop of the code), and
  `InHalvesExact` composes two of them, both assuming what they call to be
  exact (`Halving`); `HalvingsHalve` is the induction over the room.
  `ByPartsExact` is the loop over the parts (`FirstPart`, `LaterPart`), with
  `EnoughParts` for their number.

The `Short` in `SumsExact` and `ProductsExact` is there for TLC's integers only;
the theorems on operators do without it. `DigitSpec` has the actions of `Numbers`
that these theorems are about; `Numbers` itself reaches `RECURSIVE` operators.

Only model-checked: of `Numbers`, `TypeOK`, `GcdExact`, `BitsAndText`,
`TowerExact` and `ConversionsRound`, which speak of gcds, bitwise operations,
text and the tower, most of them `RECURSIVE` or built from the
bitwise operators of the library, which the provers cannot be given; the
refinement in behaviours that fork; and every liveness property (`ReadyRuns`,
`DeadlineReturns`, `NoStuckIO`, `SignalsHandled`, `EofArrives`: liveness under
fairness and `ENABLED` are out of the provers' reach).

## 6. Limits

- `DeadStayDead` and `DeadAreNotWoken` allow a dead thread to become "suspended"
  in a forked child: the code does that to a dead thread that left a stale entry on the timeout list.
- Properties of the queue and the lists are stated before a fork (`~forked`): the
  child drops threads on purpose.
- `NoEarlyTimeout` leaves out `mutex-lock!` without deadline, which never looks at
  slot 13.
- `ForcePrimordial` is modelled as the code has it: it does nothing when the
  primordial thread is not blocked or sleeping.
- The threads extension is not in the repository; its operations are modelled
  from the procedures of `src/` they have to call and are marked external.
- `Interrupts` has interrupts switched on throughout (`C_interrupts_enabled`), a
  handler for every signal, one order of load and store (the value of a decrement
  is read from the array after it is stored), handlers that escape only into the
  program, and system calls that fail with `EINTR` only in the program.
- `Heap` has one chain of one symbol table, objects of one slot or two, and no
  scratch space. `(gc SIZE)` with too small a size jumps to the restart point of
  an earlier collection, and so does a heap that turns out too small when a major
  collection moves it once more; the model never asks for less than it needs. A finalizer
  that escapes leaves the pending vector marked as being worked on for good.
- `Numbers` has machine words of a few bits: what depends on 64 bits themselves
  (constants, table sizes, the thresholds) is not shown. The bits of a flonum are
  abstracted to mantissa and exponent, and the sign of zero is not kept.

Not modelled: the compiler, expander, module system, evaluator, reader, printer,
`irregex` and the tools are sequential passes over trees or text without state
that steps of two actors share; the state space would be the set of programs.
Dynamic wind, posix ports, hash tables and the scratch space are planned. The
instrumenting profiler and the debugger client are development tools, Windows is
another platform.
