----------------------------- MODULE TraceProofs -----------------------------
(* What get-call-chain shows and what the profiler counts, for every size   *)
(* of the buffer and any number of calls and signals.  The ring is proved   *)
(* correct first (Ring); since the newest entry is then the last call, each *)
(* sample counts it (Counts).                                               *)
EXTENDS Trace, TLAPS

(* What is counted for a name.                                             *)
Buckets == [samples : Nat, calls : Nat]
(* The buffer is freed, or not yet there again.                            *)
Broken == pc \in {"free", "reset"}
(* C_trace has begun and not yet moved top.                                *)
Entering == pc \in {"top", "full", "entry", "push"}

(* The types, and what the program counter says of arg.                    *)
Types ==
  /\ size \in Nat \ {0, 1} /\ top \in 0 .. size /\ full \in BOOLEAN
  /\ DOMAIN buffer = 0 .. size - 1
  /\ profiling \in BOOLEAN /\ bucket \in BOOLEAN
  /\ DOMAIN table \subseteq Name /\ table \in [DOMAIN table -> Buckets]
  /\ DOMAIN report \subseteq Name /\ report \in [DOMAIN report -> Buckets]
  /\ prev \in [key : Name \union {None}, tb : Int]
  /\ pc \in {"idle", "top", "full", "entry", "push", "free", "reset"}
  /\ Entering => arg \in Entry
  /\ Broken => arg \in [profiling : BOOLEAN, size : Nat]
  /\ pc = "reset" => arg.size \notin {0, 1}
  /\ asked \in [Thread -> Nat]
  /\ stopped \in {"no", "assert", "panic"}
  /\ calls \in Seq(Entry)
  /\ due \in [Name -> Nat] /\ called \in [Name -> Nat]

(* Entries below top hold the last calls; those from top on, once the ring  *)
(* has turned over, the calls before them.  An entry that is being written  *)
(* belongs to neither.                                                      *)
Turned == full \/ pc = "full"
Ring ==
  /\ pc = "full" => top = 0
  /\ pc \in {"entry", "push"} => top < size
  /\ pc = "push" => buffer[top] = arg
  /\ ~Broken /\ full => Len(calls) > size \/ pc \in {"entry", "push"}
  /\ ~Broken /\ ~Turned =>
       /\ Len(calls) = top
       /\ \A i \in 0 .. top - 1 : buffer[i] = calls[i + 1]
  /\ ~Broken /\ Turned =>
       /\ Len(calls) >= size
       /\ \A i \in 0 .. top - 1 : buffer[i] = calls[Len(calls) - top + 1 + i]
       /\ \A i \in top .. size - 1 :
            \/ pc = "push" /\ i = top
            \/ buffer[i] = calls[Len(calls) - top - size + 1 + i]

(* The call made last, and what a table says of a name.                    *)
Last == calls[Len(calls)].raw
Samples(f, n) == IF n \in DOMAIN f THEN f[n].samples ELSE 0
Calls(f, n) == IF n \in DOMAIN f THEN f[n].calls ELSE 0

(* The profiler is off while the buffer is in pieces and after the profile  *)
(* was written.  A name that was called last and sampled before another one *)
(* has been called once more than the profiler has noticed.                 *)
Counts ==
  /\ Broken => ~profiling
  /\ report # << >> =>
       table = << >> /\ ~profiling /\ (Broken => ~arg.profiling)
  /\ \A n \in Name :
       /\ Samples(Profile, n) = due[n]
       /\ Calls(Profile, n) <= called[n]
       /\ Calls(Profile, n) <= Samples(Profile, n)
  /\ report = << >> => prev.key \in DOMAIN table \union {None}
  /\ calls # << >> =>
       /\ called[Last] > 0
       /\ report = << >> /\ prev.key # Last => Calls(table, Last) < called[Last]

(* The inductive invariant.                                                *)
IInv == Types /\ Ring /\ Counts

-----------------------------------------------------------------------------
(* It holds at first.                                                      *)
LEMMA TypesInit == Init => Types /\ Ring /\ Counts
<1> SUFFICES ASSUME Init PROVE Types /\ Ring /\ Counts
  OBVIOUS
<1>1. DOMAIN << >> = {}
  OBVIOUS
<1>2. << >> \in [DOMAIN << >> -> Buckets] /\ << >> \in Seq(Entry)
  BY <1>1
<1>3. /\ size \in Nat \ {0, 1} /\ top \in 0 .. size /\ full \in BOOLEAN
      /\ DOMAIN buffer = 0 .. size - 1
      /\ stopped = "no" /\ pc = "idle"
  <2>1. size \in Nat \ {0, 1} /\ top = 0
    BY SizesAssumption DEF Init
  <2>2. 0 \in 0 .. size
    BY <2>1
  <2>3. DOMAIN buffer = 0 .. size - 1
    BY DEF Init
  <2> QED
    BY <2>1, <2>2, <2>3 DEF Init
<1>4. /\ asked \in [Thread -> Nat]
      /\ due \in [Name -> Nat] /\ called \in [Name -> Nat]
      /\ prev \in [key : Name \union {None}, tb : Int]
  BY DEF Init, NoEntry
<1>5. Types
  BY <1>1, <1>2, <1>3, <1>4 DEF Init, Types, Entering, Broken
<1>6. Ring
  BY <1>1, SizesAssumption DEF Init, Ring, Turned, Broken
<1>7. Counts
  BY <1>1 DEF Init, Counts, Broken, Samples, Calls, Profile
<1> QED
  BY <1>5, <1>6, <1>7

(* The newest entry is the last call, whenever the profiler looks at one.   *)
LEMMA NewestIsLast ==
  ASSUME Types, Ring, ~Broken
  PROVE  /\ NoDataYet <=> calls = << >> \/ Turning
         /\ ~NoDataYet => /\ calls \in Seq(Entry) /\ calls # << >>
                          /\ buffer[Newest].raw = Last /\ Last \in Name
                          /\ Newest \in Nat
<1>1. /\ calls = << >> <=> Len(calls) = 0
      /\ Len(calls) \in Nat
      /\ Len(calls) # 0 => calls[Len(calls)] \in Entry
  BY DEF Types
<1>2. NoDataYet <=> calls = << >> \/ Turning
  BY <1>1 DEF Types, Ring, Turned, NoDataYet, Turning
<1>3. ASSUME ~NoDataYet PROVE buffer[Newest] = calls[Len(calls)]
  <2>1. CASE top = 0
    <3>1. Turned /\ Newest = size - 1 /\ Newest \in top .. size - 1
      BY <1>3, <2>1 DEF Types, Turned, NoDataYet, Newest
    <3>2. ~(pc = "push" /\ Newest = top)
      BY <3>1, <2>1 DEF Types
    <3>3. buffer[Newest] = calls[Len(calls) - top - size + 1 + Newest]
      BY <3>1, <3>2 DEF Ring
    <3>4. Len(calls) - top - size + 1 + Newest = Len(calls)
      BY <1>1, <2>1, <3>1 DEF Types
    <3> QED
      BY <3>3, <3>4
  <2>2. CASE top # 0
    <3>1. Newest = top - 1 /\ Newest \in 0 .. top - 1
      BY <2>2 DEF Types, Newest
    <3>2. CASE Turned
      <4>1. buffer[Newest] = calls[Len(calls) - top + 1 + Newest]
        BY <3>1, <3>2 DEF Ring
      <4> QED
        BY <1>1, <3>1, <4>1 DEF Types
    <3>3. CASE ~Turned
      <4>1. Len(calls) = top /\ buffer[Newest] = calls[Newest + 1]
        BY <3>1, <3>3 DEF Ring
      <4> QED
        BY <1>1, <3>1, <4>1 DEF Types
    <3> QED
      BY <3>2, <3>3
  <2> QED
    BY <2>1, <2>2
<1>4. Newest \in Nat
  BY DEF Types, Newest
<1>5. calls # << >> => Last \in Name
  BY <1>1 DEF Last, Entry
<1> QED
  BY <1>1, <1>2, <1>3, <1>4, <1>5 DEF Last, Types

-----------------------------------------------------------------------------
(* The steps of the program.                                                *)

(* A step that counts nothing keeps the counts.                            *)
LEMMA CountsUnchanged ==
  ASSUME Counts, UNCHANGED <<table, prev, report, due, called, calls>>,
         Broken' => ~profiling',
         report # << >> => ~profiling' /\ (Broken' => ~arg'.profiling)
  PROVE  Counts'
BY DEF Counts, Profile, Last, Samples, Calls

(* C_trace begins.                                                         *)
LEMMA EnterStep ==
  ASSUME IInv, NEW entry \in Entry, Enter(entry)
  PROVE  IInv'
<1>1. pc = "idle" /\ pc' = "top" /\ arg' = entry
  BY DEF Enter, At
<1>2. Types'
  BY <1>1 DEF IInv, Types, Entering, Broken, Enter, Preallocated, ring, Quiet
<1>3. Ring'
  BY <1>1 DEF IInv, Ring, Turned, Broken, Enter, ring
<1>4. Counts'
  BY <1>1, CountsUnchanged DEF IInv, Counts, Broken, Enter, Quiet
<1> QED
  BY <1>2, <1>3, <1>4 DEF IInv

(* C_trace comes to the end of the ring and starts over, or writes its     *)
(* entry.                                                                  *)
LEMMA WrapStep ==
  ASSUME IInv, WrapTop \/ WrapFull \/ StoreEntry
  PROVE  IInv'
<1>1. UNCHANGED <<table, prev, report, due, called, calls, profiling>>
  BY DEF WrapTop, WrapFull, StoreEntry, samples, Quiet
<1>2. ~Broken'
  BY DEF WrapTop, WrapFull, StoreEntry, Broken
<1>3. Counts'
  BY <1>1, <1>2, CountsUnchanged DEF IInv, Counts
<1>4. CASE WrapTop
  <2>1. Types'
    BY <1>4 DEF IInv, Types, Entering, Broken, WrapTop, AtLimit, At, samples,
                Quiet
  <2>2. Ring'
    <3>1. CASE top >= size
      <4>1. top = size /\ Turned' /\ top' = 0 /\ pc = "top" /\ pc' = "full"
        BY <1>4, <3>1 DEF IInv, Types, WrapTop, AtLimit, At, Turned
      <4>2. /\ Len(calls) \in Nat /\ Len(calls) >= size
            /\ \A i \in 0 .. size - 1 :
                 buffer[i] = calls[Len(calls) - size + 1 + i]
        <5>1. CASE Turned
          BY <4>1, <5>1 DEF IInv, Types, Ring, Broken
        <5>2. CASE ~Turned
          BY <4>1, <5>2 DEF IInv, Types, Ring, Broken
        <5> QED
          BY <5>1, <5>2
      <4>3. UNCHANGED <<size, buffer, calls, full>>
        BY <1>4, <4>1 DEF WrapTop
      <4>4. full => Len(calls) > size
        BY <4>1 DEF IInv, Ring, Broken
      <4> QED
        BY <4>1, <4>2, <4>3, <4>4 DEF Ring, IInv, Types
    <3>2. CASE ~(top >= size)
      BY <1>4, <3>2 DEF IInv, Types, Ring, WrapTop, AtLimit, At, Turned, Broken
    <3> QED
      BY <3>1, <3>2
  <2> QED
    BY <1>3, <2>1, <2>2 DEF IInv
<1>5. CASE WrapFull
  <2>1. Types'
    BY <1>5 DEF IInv, Types, Entering, Broken, WrapFull, At, samples, Quiet
  <2>2. Ring'
    BY <1>5 DEF IInv, Types, Ring, WrapFull, At, Turned, Broken
  <2> QED
    BY <1>3, <2>1, <2>2 DEF IInv
<1>6. CASE StoreEntry
  <2>1. Types'
    BY <1>6 DEF IInv, Types, Entering, Broken, StoreEntry, At, samples, Quiet
  <2>2. pc = "entry" /\ pc' = "push" /\ top < size /\ Turned' = Turned
    BY <1>6 DEF IInv, Ring, StoreEntry, At, Turned
  <2>3. /\ buffer'[top] = arg
        /\ \A i \in 0 .. size - 1 : i # top => buffer'[i] = buffer[i]
    BY <1>6, <2>2 DEF IInv, Types, StoreEntry
  <2>4. Ring'
    BY <1>6, <2>2, <2>3 DEF IInv, Types, Ring, StoreEntry, Broken
  <2> QED
    BY <1>3, <2>1, <2>4 DEF IInv
<1> QED
  BY <1>4, <1>5, <1>6

(* C_trace moves top: the entry written is now the newest.                 *)
LEMMA PushStep ==
  ASSUME IInv, PushEntry
  PROVE  IInv'
<1> USE DEF At
<1>1. /\ pc = "push" /\ pc' = "idle" /\ top' = top + 1 /\ top < size
      /\ ~Broken /\ ~Broken' /\ Turned' = Turned /\ buffer[top] = arg
      /\ arg \in Entry /\ size' = size /\ buffer' = buffer
  BY DEF PushEntry, IInv, Types, Ring, Entering, Broken, Turned
<1>2. /\ calls \in Seq(Entry) /\ calls' \in Seq(Entry)
      /\ Len(calls) \in Nat /\ Len(calls') = Len(calls) + 1
      /\ calls'[Len(calls) + 1] = arg
      /\ \A i \in 1 .. Len(calls) : calls'[i] = calls[i]
  BY <1>1 DEF PushEntry, IInv, Types
<1>3. /\ arg.raw \in Name /\ called \in [Name -> Nat]
      /\ called' = [called EXCEPT ![arg.raw] = @ + 1]
  BY <1>1 DEF IInv, Types, Entry, PushEntry
<1>4. Types'
  <2>1. top' \in 0 .. size' /\ called' \in [Name -> Nat]
    BY <1>1, <1>3 DEF IInv, Types
  <2> QED
    BY <1>1, <1>2, <2>1 DEF IInv, Types, Entering, Broken, PushEntry, samples,
                            Quiet
<1>5. Ring'
  <2>1. CASE Turned
    <3>0. /\ top \in Nat /\ size \in Nat /\ Len(calls) >= size
          /\ ~Broken /\ pc = "push"
      BY <1>1, <2>1 DEF IInv, Types, Ring
    <3>1. \A i \in 0 .. top' - 1 :
            buffer'[i] = calls'[Len(calls') - top' + 1 + i]
      <4> SUFFICES ASSUME NEW i \in 0 .. top
                   PROVE  buffer[i] = calls'[Len(calls) - top + 1 + i]
        BY <1>1, <1>2, <3>0
      <4>1. CASE i = top
        BY <1>1, <1>2, <3>0, <4>1
      <4>2. CASE i # top
        <5>0. i \in 0 .. top - 1
          BY <3>0, <4>2
        <5>1. buffer[i] = calls[Len(calls) - top + 1 + i]
          BY <2>1, <3>0, <5>0 DEF IInv, Ring
        <5>2. Len(calls) - top + 1 + i \in 1 .. Len(calls)
          BY <1>1, <1>2, <3>0, <4>2
        <5> QED
          BY <1>2, <5>1, <5>2
      <4> QED
        BY <4>1, <4>2
    <3>2. \A i \in top' .. size' - 1 :
            buffer'[i] = calls'[Len(calls') - top' - size' + 1 + i]
      <4> SUFFICES ASSUME NEW i \in top + 1 .. size - 1
                   PROVE  buffer[i] = calls'[Len(calls) - top - size + 1 + i]
        BY <1>1, <1>2, <3>0
      <4>1. i \in top .. size - 1 /\ i # top
        BY <3>0
      <4>2. buffer[i] = calls[Len(calls) - top - size + 1 + i]
        BY <2>1, <3>0, <4>1 DEF IInv, Ring
      <4>3. Len(calls) - top - size + 1 + i \in 1 .. Len(calls)
        BY <1>2, <3>0
      <4> QED
        BY <1>2, <4>2, <4>3
    <3> QED
      BY <1>1, <1>2, <2>1, <3>1, <3>2 DEF IInv, Types, Ring
  <2>2. CASE ~Turned
    <3>1. ~full'
      BY <1>1, <2>2 DEF PushEntry, Turned
    <3> QED
      BY <1>1, <1>2, <2>2, <3>1 DEF IInv, Types, Ring
  <2> QED
    BY <2>1, <2>2
<1>6. Counts'
  <2>1. /\ calls' # << >> /\ Last' = arg.raw
        /\ UNCHANGED <<table, prev, report, due, profiling>>
        /\ Profile' = Profile
    BY <1>1, <1>2 DEF PushEntry, Last, samples, Quiet, Profile
  <2>2. \A n \in Name : called'[n] >= called[n] /\ called[n] \in Nat
    BY <1>3
  <2>3. called'[arg.raw] = called[arg.raw] + 1
    BY <1>3
  <2>4. \A n \in Name :
          Calls(Profile, n) \in Nat /\ Calls(Profile, n) <= called[n]
    BY DEF IInv, Types, Counts, Calls, Profile, Buckets
  <2>5. \A n \in Name : Calls(Profile', n) <= called'[n]
    BY <2>1, <2>2, <2>4, <1>3
  <2>6. report = << >> => Calls(table, arg.raw) < called'[arg.raw]
    BY <1>3, <2>2, <2>3, <2>4 DEF Profile
  <2>7. called'[arg.raw] > 0
    BY <1>3, <2>2, <2>3
  <2> QED
    BY <1>1, <1>3, <2>1, <2>5, <2>6, <2>7 DEF IInv, Counts, Calls, Samples
<1> QED
  BY <1>4, <1>5, <1>6 DEF IInv

(* A clear or a resize switches the profiler off.                          *)
LEMMA StartClearStep ==
  ASSUME IInv, NEW label \in {"free", "reset"}, NEW n \in Nat,
         label = "reset" => n \notin {0, 1}, StartClear(label, n)
  PROVE  IInv'
<1>1. /\ pc = "idle" /\ pc' = label /\ profiling' = FALSE /\ Broken'
      /\ arg' = [profiling |-> profiling, size |-> n]
      /\ UNCHANGED <<size, buffer, top, full, bucket, table, prev, calls>>
      /\ UNCHANGED <<called, asked, stopped, due, report>>
  BY DEF StartClear, At, Silenced, Broken, ring, samples, Quiet
<1>2. Types'
  BY <1>1 DEF IInv, Types, Entering, Broken
<1>3. Ring'
  BY <1>1 DEF Ring
<1>4. Counts'
  BY <1>1, CountsUnchanged DEF IInv, Counts
<1> QED
  BY <1>2, <1>3, <1>4 DEF IInv

(* The buffer is freed; what was counted before stays.                     *)
LEMMA FreeStep ==
  ASSUME IInv, FreeBuffer
  PROVE  IInv'
<1>1. PICK i \in {NoEntry} \union (0 .. Allocated(arg.size) - 1) :
        prev' = [prev EXCEPT !.tb = i]
  BY DEF FreeBuffer
<1>2. /\ pc = "free" /\ Broken /\ Broken' /\ pc' = "reset"
      /\ UNCHANGED <<size, top, full, profiling, bucket, table, calls>>
      /\ UNCHANGED <<called, asked, stopped, due, report>>
      /\ DOMAIN buffer' = 0 .. size - 1
  BY DEF FreeBuffer, At, Broken, Quiet
<1>3. /\ arg' \in [profiling : BOOLEAN, size : Nat]
      /\ arg'.profiling = arg.profiling /\ arg'.size \notin {0, 1}
  <2>1. /\ arg \in [profiling : BOOLEAN, size : Nat]
        /\ arg' = [arg EXCEPT !.size = Allocated(arg.size)]
    BY <1>2 DEF IInv, Types, FreeBuffer
  <2>2. Allocated(arg.size) \in Nat \ {0, 1}
    BY <2>1, SizesAssumption DEF Allocated
  <2> QED
    BY <2>1, <2>2
<1>4. prev' \in [key : Name \union {None}, tb : Int] /\ prev'.key = prev.key
  <2>1. i \in Int
    BY <1>2, SizesAssumption DEF IInv, Types, Allocated, NoEntry
  <2> QED
    BY <1>1, <2>1 DEF IInv, Types
<1>5. Types'
  BY <1>2, <1>3, <1>4 DEF IInv, Types, Entering, Broken
<1>6. Ring'
  BY <1>2 DEF Ring
<1>7. Counts'
  BY <1>2, <1>3, <1>4 DEF IInv, Counts, Profile, Last
<1> QED
  BY <1>5, <1>6, <1>7 DEF IInv

(* The new buffer is there, and empty.                                     *)
LEMMA ResetStep ==
  ASSUME IInv, ResetBuffer
  PROVE  IInv'
<1>1. /\ pc = "reset" /\ Broken /\ pc' = "idle" /\ ~Broken'
      /\ top' = 0 /\ full' = FALSE /\ calls' = << >> /\ size' = arg.size
      /\ DOMAIN buffer' = 0 .. arg.size - 1 /\ profiling' = arg.profiling
      /\ UNCHANGED <<bucket, table, prev, called, asked, stopped, due, report>>
  BY DEF ResetBuffer, At, Broken, samples, Quiet
<1>2. /\ arg.size \in Nat \ {0, 1} /\ arg.profiling \in BOOLEAN
      /\ << >> \in Seq(Entry) /\ Len(<< >>) = 0
  BY <1>1 DEF IInv, Types
<1>3. Types'
  <2>1. top' \in 0 .. size'
    BY <1>1, <1>2
  <2> QED
    BY <1>1, <1>2, <2>1 DEF IInv, Types, Entering, Broken
<1>4. Ring'
  BY <1>1, <1>2 DEF Ring, Turned
<1>5. Counts'
  BY <1>1 DEF IInv, Counts, Profile
<1> QED
  BY <1>3, <1>4, <1>5 DEF IInv

(* get-call-chain changes nothing that the program or the profiler uses,    *)
(* and the profile file takes the counts over.                              *)
LEMMA ReadStep ==
  ASSUME IInv, NEW t \in Thread, AskSize(t) \/ C_fetch_trace(t)
  PROVE  IInv'
<1>1. /\ UNCHANGED <<size, buffer, top, full, profiling, bucket, table, prev>>
      /\ UNCHANGED <<pc, arg, calls, due, called, report>>
      /\ asked' \in [Thread -> Nat] /\ stopped' \in {"no", "assert", "panic"}
  <2>1. CASE AskSize(t)
    BY <2>1 DEF AskSize, ring, samples, history, IInv, Types
  <2>2. CASE C_fetch_trace(t)
    BY <2>2 DEF C_fetch_trace, ring, samples, history, IInv, Types
  <2> QED
    BY <2>1, <2>2
<1>2. Types'
  BY <1>1 DEF IInv, Types, Entering, Broken
<1>3. Ring'
  BY <1>1 DEF IInv, Ring, Turned, Broken
<1>4. Counts'
  BY <1>1 DEF IInv, Counts, Broken, Profile, Last
<1> QED
  BY <1>2, <1>3, <1>4 DEF IInv

(* The table is written to the profile file.                               *)
LEMMA DumpStep ==
  ASSUME IInv, C_i_dump_statistical_profile
  PROVE  IInv'
<1>1. /\ pc = "idle" /\ profiling /\ profiling' = FALSE /\ report' = table
      /\ table' = << >>
      /\ UNCHANGED <<size, buffer, top, full, bucket, prev, pc, arg, asked>>
      /\ UNCHANGED <<stopped, calls, due, called>>
  BY DEF C_i_dump_statistical_profile, At, ring
<1>2. report = << >>
  BY <1>1 DEF IInv, Counts
<1>3. Types'
  <2>1. /\ DOMAIN report' \subseteq Name /\ report' \in [DOMAIN report' -> Buckets]
        /\ DOMAIN table' \subseteq Name /\ table' \in [DOMAIN table' -> Buckets]
    BY <1>1, <1>2 DEF IInv, Types
  <2> QED
    BY <1>1, <2>1 DEF IInv, Types, Entering, Broken
<1>4. Ring'
  BY <1>1 DEF IInv, Ring, Turned, Broken
<1>5. Profile' = Profile
  BY <1>1, <1>2 DEF Profile
<1>6. Counts'
  BY <1>1, <1>2, <1>5 DEF IInv, Counts, Broken, Last
<1> QED
  BY <1>3, <1>4, <1>6 DEF IInv

-----------------------------------------------------------------------------
(* The steps of the profiler.                                               *)

(* A sample of the last call is one more sample for it, and a call only if  *)
(* the sample before was of another name.                                   *)
LEMMA SampleCounts ==
  ASSUME NEW key \in Name, NEW tb \in Nat, Sample(key, tb),
         table \in [DOMAIN table -> Buckets], DOMAIN table \subseteq Name
  PROVE  /\ table' \in [DOMAIN table' -> Buckets] /\ DOMAIN table' \subseteq Name
         /\ key \in DOMAIN table'
         /\ prev' = [key |-> key, tb |-> tb]
         /\ bucket' \in {bucket, FALSE}
         /\ \A n \in Name : n # key => /\ Samples(table', n) = Samples(table, n)
                                     /\ Calls(table', n) = Calls(table, n)
         /\ Samples(table', key) = Samples(table, key) + 1
         /\ Samples(table, key) \in Nat /\ Calls(table, key) \in Nat
         /\ \/ Calls(table', key) = Calls(table, key)
            \/ /\ Calls(table', key) = Calls(table, key) + 1
               /\ key \in DOMAIN table => prev.key # key
<1>1. prev' = [key |-> key, tb |-> tb] /\ bucket' \in {bucket, FALSE}
  BY DEF Sample
<1>2. Samples(table, key) \in Nat /\ Calls(table, key) \in Nat
  BY DEF Samples, Calls, Buckets
<1>3. CASE key \in DOMAIN table
  <2> DEFINE more == IF prev.key # key /\ prev.tb # tb THEN 1 ELSE 0
             b == [samples |-> table[key].samples + 1,
                   calls |-> table[key].calls + more]
  <2>1. table[key] \in Buckets
    BY <1>3
  <2>2. table' = [table EXCEPT ![key] =
                    [samples |-> @.samples + 1, calls |-> @.calls + more]]
    BY <1>3 DEF Sample, Counted
  <2>3. /\ DOMAIN table' = DOMAIN table
        /\ \A n \in DOMAIN table : n # key => table'[n] = table[n]
    BY <1>3, <2>2
  <2>4. table'[key] = b /\ b \in Buckets
    BY <1>3, <2>1, <2>2 DEF Buckets
  <2>5. table' \in [DOMAIN table -> Buckets]
    BY <2>2, <2>3, <2>4
  <2>6. more = 0 \/ (more = 1 /\ prev.key # key)
    OBVIOUS
  <2>7. /\ Samples(table', key) = Samples(table, key) + 1
        /\ Calls(table', key) = Calls(table, key) + more
    BY <1>3, <2>3, <2>4 DEF Samples, Calls
  <2>8. \/ Calls(table', key) = Calls(table, key)
        \/ /\ Calls(table', key) = Calls(table, key) + 1
           /\ key \in DOMAIN table => prev.key # key
    BY <1>2, <2>6, <2>7
  <2>9. \A n \in Name : n # key => /\ Samples(table', n) = Samples(table, n)
                                  /\ Calls(table', n) = Calls(table, n)
    BY <2>3 DEF Samples, Calls
  <2>10. /\ table' \in [DOMAIN table' -> Buckets] /\ DOMAIN table' \subseteq Name
         /\ key \in DOMAIN table'
    BY <1>3, <2>3, <2>5
  <2> QED
    BY <1>1, <1>2, <2>7, <2>8, <2>9, <2>10
<1>4. CASE key \notin DOMAIN table
  <2>1. table' = [n \in DOMAIN table \union {key} |->
                    IF n = key THEN [samples |-> 1, calls |-> 1] ELSE table[n]]
    BY <1>4 DEF Sample
  <2>2. /\ DOMAIN table' = DOMAIN table \union {key}
        /\ table'[key] = [samples |-> 1, calls |-> 1]
        /\ \A n \in DOMAIN table : table'[n] = table[n]
    BY <1>4, <2>1
  <2>3. table' \in [DOMAIN table' -> Buckets]
    BY <2>1, <2>2 DEF Buckets
  <2>4. /\ Samples(table', key) = Samples(table, key) + 1
        /\ Calls(table', key) = Calls(table, key) + 1
    BY <1>4, <2>2 DEF Samples, Calls
  <2> QED
    BY <1>1, <1>2, <1>4, <2>2, <2>3, <2>4 DEF Samples, Calls
<1> QED
  BY <1>3, <1>4

(* A signal of the profile timer finds the newest entry, which is the last *)
(* call.                                                                   *)
LEMMA TickStep ==
  ASSUME IInv, Tick
  PROVE  IInv'
<1>1. /\ profiling /\ ~Broken /\ report = << >> /\ ~Broken'
      /\ UNCHANGED <<size, buffer, top, full, profiling, pc, arg, asked>>
      /\ UNCHANGED <<calls, called, report>>
      /\ stopped' \in {"no", "assert", "panic"}
  BY DEF Tick, ring, IInv, Types, Counts, Broken
<1>2. Ring'
  BY <1>1 DEF IInv, Ring, Turned, Broken
<1>3. CASE UNCHANGED <<samples, due>>
  <2>1. Types'
    BY <1>1, <1>3 DEF IInv, Types, Entering, Broken, samples
  <2>2. Counts'
    BY <1>1, <1>3, CountsUnchanged DEF IInv, samples
  <2> QED
    BY <1>2, <2>1, <2>2 DEF IInv
<1>4. CASE /\ ~NoDataYet /\ due' = Expected
           /\ Sample(buffer[Newest].raw, Newest)
  <2>1. /\ calls # << >> /\ ~Turning /\ buffer[Newest].raw = Last
        /\ Last \in Name /\ Newest \in Nat
    BY <1>1, <1>4, NewestIsLast DEF IInv
  <2>2. due' = [due EXCEPT ![Last] = @ + 1]
    BY <1>4, <2>1 DEF Expected, Last
  <2>3. Sample(Last, Newest)
    BY <1>4, <2>1
  <2>4. table \in [DOMAIN table -> Buckets] /\ DOMAIN table \subseteq Name
    BY DEF IInv, Types
  <2> DEFINE q == [key |-> Last, tb |-> Newest]
  <2>a. prev' = q
    BY <2>1, <2>3, <2>4, SampleCounts
  <2>b. Last \in DOMAIN table'
    BY <2>1, <2>3, <2>4, SampleCounts
  <2>5. Types'
    <3>1. due' \in [Name -> Nat]
      BY <2>1, <2>2 DEF IInv, Types
    <3>2. /\ table' \in [DOMAIN table' -> Buckets]
          /\ DOMAIN table' \subseteq Name
          /\ bucket' \in {bucket, FALSE}
      BY <2>1, <2>3, <2>4, SampleCounts
    <3>3. q \in [key : Name \union {None}, tb : Int]
      BY <2>1
    <3>4. bucket' \in BOOLEAN
      BY <3>2 DEF IInv, Types
    <3> QED
      BY <1>1, <2>a, <3>1, <3>2, <3>3, <3>4 DEF IInv, Types, Entering, Broken
  <2>6. Profile = table /\ Profile' = table' /\ Last' = Last
    BY <1>1 DEF Profile, Last
  <2>7. \A n \in Name :
          /\ Samples(table, n) = due[n] /\ Calls(table, n) <= called[n]
          /\ Calls(table, n) <= Samples(table, n)
          /\ due[n] \in Nat /\ called[n] \in Nat
    BY <2>6 DEF IInv, Counts, Types
  <2>8. \A n \in Name : n # Last =>
          /\ Samples(table', n) = due'[n] /\ Calls(table', n) <= called[n]
          /\ Calls(table', n) <= Samples(table', n)
    BY <2>1, <2>2, <2>3, <2>4, <2>7, SampleCounts DEF IInv, Types
  <2>9. /\ Samples(table', Last) = due'[Last]
        /\ Calls(table', Last) <= called[Last]
        /\ Calls(table', Last) <= Samples(table', Last)
    <3>1. due'[Last] = due[Last] + 1
      BY <2>1, <2>2 DEF IInv, Types
    <3>2. \/ Calls(table', Last) = Calls(table, Last)
          \/ /\ Calls(table', Last) = Calls(table, Last) + 1
             /\ Calls(table, Last) < called[Last]
      <4>1. /\ called[Last] > 0
            /\ prev.key # Last => Calls(table, Last) < called[Last]
        BY <1>1, <2>1 DEF IInv, Counts
      <4>2. CASE Last \in DOMAIN table
        BY <2>1, <2>3, <2>4, <4>1, <4>2, SampleCounts
      <4>3. CASE Last \notin DOMAIN table
        BY <2>1, <2>3, <2>4, <4>1, <4>3, SampleCounts DEF Calls
      <4> QED
        BY <4>2, <4>3
    <3>3. /\ Samples(table', Last) = Samples(table, Last) + 1
          /\ Samples(table, Last) \in Nat /\ Calls(table, Last) \in Nat
      BY <2>1, <2>3, <2>4, SampleCounts
    <3> QED
      BY <2>1, <2>7, <3>1, <3>2, <3>3
  <2>10. prev'.key = Last /\ Last \in DOMAIN table'
    BY <2>a, <2>b
  <2>11. Counts'
    BY <1>1, <2>1, <2>6, <2>8, <2>9, <2>10 DEF IInv, Counts
  <2> QED
    BY <1>2, <2>5, <2>11 DEF IInv
<1>5. CASE NoDataYet
  <2>1. UNCHANGED <<samples, stopped>> /\ stopped = "no"
    BY <1>5 DEF Tick
  <2>2. due' = due
    BY <1>1, <1>5, <2>1, NewestIsLast DEF Tick, IInv, Expected
  <2> QED
    BY <1>3, <2>1, <2>2
<1>6. CASE ~NoDataYet /\ NeedsBucket /\ ~bucket
  BY <1>3, <1>6 DEF Tick
<1>7. CASE ~NoDataYet /\ (NeedsBucket => bucket)
  BY <1>4, <1>7 DEF Tick
<1> QED
  BY <1>5, <1>6, <1>7 DEF Tick

-----------------------------------------------------------------------------
(* The ring, the counts and the pieces they are made of agree in every      *)
(* reachable state.                                                         *)
THEOREM TraceInvariance == Spec => []IInv
<1>1. Init => IInv
  BY TypesInit DEF IInv
<1>2. IInv /\ [Next]_vars => IInv'
  <2> SUFFICES ASSUME IInv, [Next]_vars PROVE IInv'
    OBVIOUS
  <2>1. CASE Tick
    BY <2>1, TickStep
  <2>2. ASSUME NEW n \in Name \ {Eval}, NEW t \in Thread, C_trace(n, t)
        PROVE  IInv'
    BY <2>2, EnterStep DEF C_trace, Entry
  <2>3. ASSUME NEW x \in Info, NEW t \in Thread, C_emit_trace_info2(x, t)
        PROVE  IInv'
    BY <2>3, EnterStep, SizesAssumption DEF C_emit_trace_info2, Entry
  <2>4. CASE WrapTop \/ WrapFull \/ StoreEntry
    BY <2>4, WrapStep
  <2>5. CASE PushEntry
    BY <2>5, PushStep
  <2>6. CASE C_clear_trace_buffer
    BY <2>6, StartClearStep DEF C_clear_trace_buffer, IInv, Types
  <2>7. ASSUME NEW n \in Sizes, C_resize_trace_buffer(n)
        PROVE  IInv'
    BY <2>7, StartClearStep, SizesAssumption DEF C_resize_trace_buffer
  <2>8. CASE FreeBuffer
    BY <2>8, FreeStep
  <2>9. CASE ResetBuffer
    BY <2>9, ResetStep
  <2>10. ASSUME NEW t \in Thread, AskSize(t) \/ C_fetch_trace(t)
         PROVE  IInv'
    BY <2>10, ReadStep
  <2>11. CASE C_i_dump_statistical_profile
    BY <2>11, DumpStep
  <2>12. CASE UNCHANGED vars
    BY <2>12 DEF vars, ring, samples, history, IInv, Types, Ring, Counts,
                 Entering, Broken, Turned, Profile, Last, Samples, Calls
  <2> QED
    BY <2>1, <2>2, <2>3, <2>4, <2>5, <2>6, <2>7, <2>8, <2>9, <2>10, <2>11,
       <2>12 DEF Next
<1> QED
  BY <1>1, <1>2, PTL DEF Spec

(* Every variable of the trace buffer and the profiler always has its type, *)
(* and no sample is ever counted for a freed or unwritten entry.            *)
THEOREM TraceTypeCorrect == Spec => []TypeOK
<1>1. IInv => TypeOK
  BY DEF IInv, Types, TypeOK
<1> QED
  BY <1>1, TraceInvariance, PTL

(* Whatever the size of the buffer, a call chain is exactly the most recent *)
(* calls, in order.                                                         *)
THEOREM ChainsAreRecent == Spec => []RecentCalls
<1>1. IInv => RecentCalls
  <2> SUFFICES ASSUME IInv, pc = "idle"
               PROVE  LET n == Least(size, Len(calls)) IN
                      /\ Fetched(0)
                           = [k \in 1 .. n |-> calls[Len(calls) - n + k]]
                      /\ full <=> Len(calls) > size
    BY DEF RecentCalls, DumpTrace
  <2> DEFINE len == Len(calls)
             from == IF Oldest + 0 >= size THEN 0 ELSE Oldest + 0
  <2>1. /\ size \in Nat \ {0, 1} /\ top \in 0 .. size /\ len \in Nat
        /\ full \in BOOLEAN /\ ~Broken /\ Turned = full
    BY DEF IInv, Types, Broken, Turned
  <2>2. CASE full
    <3>1. /\ len >= size
          /\ \A i \in 0 .. top - 1 : buffer[i] = calls[len - top + 1 + i]
          /\ \A i \in top .. size - 1 :
               buffer[i] = calls[len - top - size + 1 + i]
      BY <2>1, <2>2 DEF IInv, Ring
    <3>2. Least(size, len) = size /\ Entries - 0 = size
      BY <2>1, <2>2, <3>1 DEF Least, Entries
    <3>3. \A k \in 1 .. size :
            buffer[IF from + k - 1 < size THEN from + k - 1
                   ELSE from + k - 1 - size] = calls[len - size + k]
      <4> SUFFICES ASSUME NEW k \in 1 .. size
                   PROVE  buffer[IF from + k - 1 < size THEN from + k - 1
                                 ELSE from + k - 1 - size]
                            = calls[len - size + k]
        OBVIOUS
      <4>1. CASE top = size
        <5>1. from = 0 /\ k - 1 \in 0 .. top - 1
          BY <2>1, <2>2, <4>1 DEF Oldest
        <5>2. buffer[k - 1] = calls[len - top + 1 + (k - 1)]
          BY <3>1, <5>1
        <5> QED
          BY <2>1, <4>1, <5>1, <5>2
      <4>2. CASE top < size /\ top + k - 1 < size
        <5>1. from = top /\ top + k - 1 \in top .. size - 1
          BY <2>1, <2>2, <4>2 DEF Oldest
        <5>2. buffer[top + k - 1] = calls[len - top - size + 1 + (top + k - 1)]
          BY <3>1, <5>1
        <5> QED
          BY <2>1, <4>2, <5>1, <5>2
      <4>3. CASE top < size /\ ~(top + k - 1 < size)
        <5>1. from = top /\ top + k - 1 - size \in 0 .. top - 1
          BY <2>1, <2>2, <4>3 DEF Oldest
        <5>2. buffer[top + k - 1 - size]
                = calls[len - top + 1 + (top + k - 1 - size)]
          BY <3>1, <5>1
        <5> QED
          BY <2>1, <4>3, <5>1, <5>2
      <4> QED
        BY <2>1, <4>1, <4>2, <4>3
    <3>4. len > size
      BY <2>1, <2>2 DEF IInv, Ring
    <3> QED
      BY <2>2, <3>2, <3>3, <3>4 DEF Fetched
  <2>3. CASE ~full
    <3>1. len = top /\ \A i \in 0 .. top - 1 : buffer[i] = calls[i + 1]
      BY <2>1, <2>3 DEF IInv, Ring
    <3>2. Least(size, len) = top /\ Entries - 0 = top /\ from = 0
      BY <2>1, <2>3, <3>1 DEF Least, Entries, Oldest
    <3>3. \A k \in 1 .. top :
            buffer[IF from + k - 1 < size THEN from + k - 1
                   ELSE from + k - 1 - size] = calls[len - top + k]
      BY <2>1, <3>1, <3>2
    <3>4. ~(len > size)
      BY <2>1, <3>1
    <3> QED
      BY <2>3, <3>2, <3>3, <3>4 DEF Fetched
  <2> QED
    BY <2>1, <2>2, <2>3
<1> QED
  BY <1>1, TraceInvariance, PTL

(* Every signal counts as a sample of the call made last, and no procedure  *)
(* is credited with more calls than it has received.                        *)
THEOREM EverySampleCounts == Spec => []SamplesAccounted
<1>1. IInv => SamplesAccounted
  BY DEF IInv, Counts, SamplesAccounted, Samples, Calls
<1> QED
  BY <1>1, TraceInvariance, PTL
=============================================================================
