-------------------------------- MODULE Trace --------------------------------
(* The trace buffer of runtime.c, a ring of the most recent calls that      *)
(* C_trace and C_emit_trace_info2 write, get-call-chain reads and the repl  *)
(* clears and resizes, and the statistical profiler, whose signal handler   *)
(* reads the newest entry between any two steps of those.  Pointers into    *)
(* the buffer are indices, strings are model values told apart by address.  *)
(* What a signal that arrives while the profiler is off does is module      *)
(* Interrupts.                                                              *)
EXTENDS Integers, Sequences

CONSTANTS
  Name,             \* the strings in entries, told apart by address
  Eval,             \* the one of them that evaluated code uses
  Info,             \* expressions and frames, kept for evaluated code
  Thread,           \* the ids of the threads that may be current
  MinTraceBufferSize,  \* MIN_TRACE_BUFFER_SIZE
  Sizes,            \* the sizes ##sys#resize-trace-buffer is called with
  MaxCalls,         \* bound: calls of each name
  MaxTicks          \* bound: signals of the profile timer

ASSUME SizesAssumption ==
  /\ Eval \in Name
  /\ MinTraceBufferSize \in Nat \ {0, 1}
  /\ Sizes \subseteq Nat
  /\ MaxCalls \in Nat /\ MaxTicks \in Nat

(* What a freed or fresh piece of memory holds.                            *)
Garbage == [raw |-> "garbage", cooked |-> "garbage", thread |-> "garbage"]

VARIABLES
  size,       \* C_trace_buffer_size
  buffer,     \* trace_buffer, indices 0 .. size - 1
  top,        \* trace_buffer_top
  full,       \* trace_buffer_full
  profiling,  \* profiling
  bucket,     \* next_profile_bucket is not NULL
  table,      \* profile_table: the counts of the names sampled
  prev,       \* prev_key and prev_tb of take_profile_sample
  pc,         \* where the program is inside a procedure of this module
  arg,        \* the arguments of that call
  asked,      \* of each thread: the size its get-call-chain has seen, or 0
  stopped,    \* why the process has stopped: "no", "assert", "panic"
  calls,      \* history: the calls traced since the buffer was cleared
  ticks,      \* history: the signals so far
  due,        \* history: the samples that should be counted for each name
  called,     \* history: how often each name was called
  report      \* history: what the profile file says, once it is written

ring == <<size, buffer, top, full>>
samples == <<bucket, table, prev>>
history == <<ticks, due, called, report>>
vars == <<ring, profiling, samples, pc, arg, asked, stopped, calls, history>>

None == "none"
Entry == [raw : Name, cooked : Info \union {None}, thread : Thread]
NoEntry == -1

Init ==
  /\ size = MinTraceBufferSize
  /\ buffer = [i \in 0 .. size - 1 |-> Garbage]
  /\ top = 0 /\ full = FALSE
  /\ profiling \in BOOLEAN
  /\ bucket = FALSE /\ table = << >> /\ prev = [key |-> None, tb |-> NoEntry]
  /\ pc = "idle" /\ arg = Garbage
  /\ asked = [t \in Thread |-> 0]
  /\ stopped = "no"
  /\ calls = << >>
  /\ ticks = 0 /\ due = [n \in Name |-> 0] /\ called = due /\ report = << >>

-----------------------------------------------------------------------------
(* take_profile_sample.                                                     *)

NoDataYet == top = 0 /\ ~full
Newest == IF top = 0 THEN size - 1 ELSE top - 1

(* The sampled name has a bucket: it counts a sample, and a call unless     *)
(* the name or the entry is that of the sample before.                      *)
CountedAgain(key, tb) ==
  [table EXCEPT ![key] = [samples |-> @.samples + 1, calls |-> @.calls + 1]]
Counted(key, tb) ==
  LET new == IF prev.key # key /\ prev.tb # tb THEN 1 ELSE 0 IN
  [table EXCEPT ![key] = [samples |-> @.samples + 1, calls |-> @.calls + new]]

Sample(key, tb) ==
  /\ prev' = [key |-> key, tb |-> tb]
  /\ \/ key \in DOMAIN table
        /\ table' = Counted(key, tb)
        /\ UNCHANGED bucket
     \/ key \notin DOMAIN table
        /\ table' = [n \in DOMAIN table \union {key} |->
                       IF n = key THEN [samples |-> 1, calls |-> 1]
                       ELSE table[n]]
        /\ bucket' = FALSE

NeedsBucket == buffer[Newest].raw \notin DOMAIN table

(* The last entry the program has completed, as the profiler should see it: *)
(* while the ring turns over for the first time there is nothing it could   *)
(* look at.                                                                 *)
Turning == pc = "full" /\ ~full
Expected ==
  IF calls = << >> \/ Turning THEN due
  ELSE [due EXCEPT ![calls[Len(calls)].raw] = @ + 1]

Tick ==
  /\ stopped = "no" /\ profiling /\ ticks < MaxTicks
  /\ ticks' = ticks + 1
  /\ \/ NoDataYet
        /\ UNCHANGED <<samples, stopped>>
     \/ ~NoDataYet /\ NeedsBucket /\ ~bucket
        /\ stopped' = "assert"
        /\ UNCHANGED samples
     \/ ~NoDataYet /\ (NeedsBucket => bucket)
        /\ Sample(buffer[Newest].raw, Newest)
        /\ UNCHANGED stopped
  /\ due' = IF stopped' = "assert" THEN due ELSE Expected
  /\ UNCHANGED <<ring, profiling, pc, arg, asked, calls, called, report>>

-----------------------------------------------------------------------------
(* C_trace and C_emit_trace_info2: one step per store a sample could see.   *)

At(label) == stopped = "no" /\ pc = label
Quiet == UNCHANGED <<asked, stopped, ticks, due, report>>

Preallocated == bucket \/ profiling

Enter(entry) ==
  /\ At("idle") /\ called[entry.raw] < MaxCalls
  /\ bucket' = Preallocated
  /\ arg' = entry
  /\ pc' = "top"
  /\ UNCHANGED <<ring, profiling, table, prev, calls, called>> /\ Quiet

C_trace(n, t) == Enter([raw |-> n, cooked |-> None, thread |-> t])
C_emit_trace_info2(x, t) == Enter([raw |-> Eval, cooked |-> x, thread |-> t])

AtLimit == top >= size

WrapTop ==
  /\ At("top")
  /\ IF AtLimit THEN top' = 0 /\ pc' = "full"
                ELSE UNCHANGED top /\ pc' = "entry"
  /\ UNCHANGED <<size, buffer, full, profiling, samples, arg, calls, called>>
  /\ Quiet

WrapFull ==
  /\ At("full")
  /\ full' = TRUE /\ pc' = "entry"
  /\ UNCHANGED <<size, buffer, top, profiling, samples, arg, calls, called>>
  /\ Quiet

StoreEntry ==
  /\ At("entry")
  /\ buffer' = [buffer EXCEPT ![top] = arg]
  /\ pc' = "push"
  /\ UNCHANGED <<size, top, full, profiling, samples, arg, calls, called>>
  /\ Quiet

PushEntry ==
  /\ At("push")
  /\ top' = top + 1
  /\ pc' = "idle" /\ arg' = Garbage
  /\ calls' = Append(calls, arg)
  /\ called' = [called EXCEPT ![arg.raw] = @ + 1]
  /\ UNCHANGED <<size, buffer, full, profiling, samples>> /\ Quiet

-----------------------------------------------------------------------------
(* C_clear_trace_buffer, and C_resize_trace_buffer, which frees the buffer  *)
(* first.  Both switch the profiler off while the buffer is in pieces.      *)

NotSilenced == profiling
Silenced == FALSE

StartClear(label, newSize) ==
  /\ At("idle")
  /\ pc' = label
  /\ arg' = [profiling |-> profiling, size |-> newSize]
  /\ profiling' = Silenced
  /\ UNCHANGED <<ring, samples, calls, called>> /\ Quiet

C_clear_trace_buffer == StartClear("reset", size)
C_resize_trace_buffer(n) == StartClear("free", n)

(* prev_tb goes on pointing to where the buffer was, and may by chance be   *)
(* an entry of the new one.                                                 *)
Allocated(n) == IF n < MinTraceBufferSize THEN MinTraceBufferSize ELSE n

FreeBuffer ==
  /\ At("free")
  /\ buffer' = [i \in 0 .. size - 1 |-> Garbage]
  /\ pc' = "reset"
  /\ arg' = [arg EXCEPT !.size = Allocated(@)]
  /\ \E i \in {NoEntry} \union (0 .. Allocated(arg.size) - 1) :
       prev' = [prev EXCEPT !.tb = i]
  /\ UNCHANGED <<size, top, full, profiling, bucket, table, calls, called>>
  /\ Quiet

(* The strings of a cleared buffer stay in it: only top and full say that   *)
(* they are not to be read.                                                 *)
Cleared(i) ==
  [raw |-> IF i < size THEN buffer[i].raw ELSE Garbage.raw,
   cooked |-> None, thread |-> None]
ResetBuffer ==
  /\ At("reset")
  /\ size' = arg.size
  /\ buffer' = [i \in 0 .. arg.size - 1 |-> Cleared(i)]
  /\ top' = 0 /\ full' = FALSE
  /\ profiling' = arg.profiling
  /\ calls' = << >>
  /\ pc' = "idle" /\ arg' = Garbage
  /\ UNCHANGED <<samples, called>> /\ Quiet

-----------------------------------------------------------------------------
(* C_fetch_trace and get-call-chain.                                        *)

OldestIsFirst == 0
Oldest == IF full THEN top ELSE 0
Entries == IF full THEN size ELSE top

(* The pointer is moved by start before the loop, and put back to the       *)
(* beginning of the buffer when it has run off its end.                     *)
Fetched(start) ==
  LET from == IF Oldest + start >= size THEN 0 ELSE Oldest + start IN
  [k \in 1 .. Entries - start |->
     buffer[IF from + k - 1 < size THEN from + k - 1 ELSE from + k - 1 - size]]

(* C_dump_trace prints the same entries, and says if there have been more.  *)
DumpTrace == [more |-> full, entries |-> Fetched(0)]

(* The vector is made before the buffer is read, and making it may give     *)
(* other threads and handlers a chance to run.                              *)
AskSize(t) ==
  /\ At("idle") /\ asked[t] = 0
  /\ asked' = [asked EXCEPT ![t] = size]
  /\ UNCHANGED <<ring, profiling, samples, pc, arg, stopped, calls, history>>

FetchFits(t) == Entries <= asked[t]

C_fetch_trace(t) ==
  /\ At("idle") /\ asked[t] > 0
  /\ asked' = [asked EXCEPT ![t] = 0]
  /\ stopped' = IF FetchFits(t) THEN "no" ELSE "panic"
  /\ UNCHANGED <<ring, profiling, samples, pc, arg, calls, history>>

(* C_i_dump_statistical_profile writes the table to the file and frees it;  *)
(* the profiler stays off.                                                  *)
C_i_dump_statistical_profile ==
  /\ At("idle") /\ profiling
  /\ profiling' = FALSE
  /\ report' = table /\ table' = << >>
  /\ UNCHANGED <<ring, bucket, prev, pc, arg, asked, stopped, calls, ticks,
                 due, called>>

Next ==
  \/ Tick
  \/ \E n \in Name \ {Eval}, t \in Thread : C_trace(n, t)
  \/ \E x \in Info, t \in Thread : C_emit_trace_info2(x, t)
  \/ WrapTop \/ WrapFull \/ StoreEntry \/ PushEntry
  \/ C_clear_trace_buffer
  \/ \E n \in Sizes : C_resize_trace_buffer(n)
  \/ FreeBuffer \/ ResetBuffer
  \/ \E t \in Thread : AskSize(t) \/ C_fetch_trace(t)
  \/ C_i_dump_statistical_profile

Spec == Init /\ [][Next]_vars
-----------------------------------------------------------------------------
(* Properties.                                                              *)

Least(a, b) == IF a < b THEN a ELSE b

(* Every variable has its type; the profiler never counts a sample for      *)
(* what a freed or unwritten entry holds.                                   *)
TypeOK ==
  /\ size \in Nat \ {0, 1} /\ top \in 0 .. size /\ full \in BOOLEAN
  /\ DOMAIN buffer = 0 .. size - 1
  /\ profiling \in BOOLEAN /\ bucket \in BOOLEAN
  /\ DOMAIN table \subseteq Name
  /\ pc \in {"idle", "top", "full", "entry", "push", "free", "reset"}
  /\ stopped \in {"no", "assert", "panic"}
  /\ asked \in [Thread -> Nat] /\ calls \in Seq(Entry)

(* get-call-chain and the crash dump show exactly the most recent calls, as *)
(* many as the buffer holds, in the order in which they were made, wherever *)
(* the ring begins and however often it was cleared or resized; the dump    *)
(* says that there were more exactly if there were.                         *)
RecentCalls ==
  pc = "idle" =>
    LET n == Least(size, Len(calls)) IN
    /\ DumpTrace.entries = [k \in 1 .. n |-> calls[Len(calls) - n + k]]
    /\ DumpTrace.more <=> Len(calls) > size

Profile == IF report = << >> THEN table ELSE report

(* A signal of the profile timer, at whatever step of C_trace, of a clear   *)
(* or of a resize it arrives, is counted for the call that was made last,   *)
(* except when there is nothing to count it for: no call since the last     *)
(* clear, or the first round of the ring has just ended and top is reset    *)
(* but full not yet set.  The profile file holds those counts, and credits  *)
(* no procedure with more calls than it has received.                       *)
SamplesAccounted ==
  \A n \in Name :
    LET p == IF n \in DOMAIN Profile THEN Profile[n]
             ELSE [samples |-> 0, calls |-> 0] IN
    p.samples = due[n] /\ p.calls <= called[n] /\ p.calls <= p.samples

(* The signal handler may not allocate, and C_trace makes a bucket ready    *)
(* for it beforehand: the handler always finds the one it needs.            *)
BucketReady == stopped # "assert"
=============================================================================
