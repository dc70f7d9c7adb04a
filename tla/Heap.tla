-------------------------------- MODULE Heap --------------------------------
(***************************************************************************)
(* The memory of runtime.c: a nursery (the C stack), a heap of two halves  *)
(* of which one is in use, the remembered set ("mutation stack"), and the  *)
(* copying collections: minor (live nursery objects move to the heap),     *)
(* major (everything live moves to the other half) and reallocating (into  *)
(* a new, larger or smaller heap).  On top of them the structures that a   *)
(* collection treats specially: finalizers, locatives, symbol tables, GC   *)
(* roots and object-become!.                                               *)
(*                                                                         *)
(* An object keeps its name in Obj when it moves; a pointer says where it  *)
(* expects the object: <<"young", o>> in the nursery, <<"old", o>> in the  *)
(* half in use, <<"gone", o>> in a half that was given up.  A pointer that *)
(* a collection forgot to update is then visibly wrong.  Every object has  *)
(* size one; C data that the program keeps between two collections is one  *)
(* of the "static" slots.                                                  *)
(***************************************************************************)
EXTENDS Naturals, Sequences, FiniteSets, Functions

CONSTANTS
  Obj,         \* names of objects; a name is free again once its object is gone
  Name,        \* names of symbols
  Nil,         \* an immediate value
  Reg,         \* what the running closure holds: arguments, saved at a collection
  Global,      \* slots of literal frames, GC roots and other collectibles
  FinRoot,     \* finalizable GC roots
  FinNode,     \* nodes of the finalizer list
  MaxPending,  \* C_max_pending_finalizers
  NurserySize, \* objects that fit into the nursery
  HalfSizes,   \* sizes a heap half can take
  MinFree      \* C_heap_half_min_free

ASSUME HeapAssumption ==
  /\ IsFiniteSet(Obj) /\ IsFiniteSet(FinNode)
  /\ Nil \notin Obj \union Name \union ({"young", "old", "gone"} \X Obj)
  /\ "table" \notin Global \union FinRoot \union FinNode
  /\ FinNode \intersect (Global \union FinRoot) = {}
  /\ NurserySize \in Nat /\ MinFree \in Nat /\ MaxPending \in Nat \ {0}
  /\ HalfSizes \subseteq Nat /\ HalfSizes # {}

VARIABLES
  nursery,   \* the objects between the stack pointer and stack_bottom
  heap,      \* the objects between fromspace_start and C_fromspace_top
  half,      \* size of each half
  reg,       \* the temporary stack at a collection
  static,    \* slots outside of nursery and heap
  mutations, \* the mutation stack: slots to look at in a minor collection
  locatives, \* locative_table
  pending,   \* the vector in ##sys#pending-finalizers
  running    \* finalizers that ##sys#run-pending-finalizers has called so far

vars == <<nursery, heap, half, reg, static, mutations, locatives, pending,
          running>>

Young(o) == <<"young", o>>
Old(o)   == <<"old", o>>
Gone(o)  == <<"gone", o>>
Value    == {Nil} \union ({"young", "old", "gone"} \X Obj)

IsYoung(v) == v # Nil /\ v[1] = "young"
Ids(vs)    == {v[2] : v \in vs \ {Nil}}

(* Static slots: "table" is the one chain of buckets in symbol_table.      *)
Static == Global \union FinRoot \union FinNode \union {"table"}

(* The kinds of objects.  A block stands for pairs, vectors, closures and  *)
(* records; a locative holds a raw pointer and, if it is strong, the       *)
(* object; a bucket a symbol and the next bucket.                          *)
Cell(tag, name, slot) == [tag |-> tag, name |-> name, slot |-> slot]
Block(v)        == Cell("block", Nil, <<v>>)
Locative(p, ob) == Cell("locative", Nil, <<p, ob>>)
Symbol(n)       == Cell("symbol", n, <<Nil>>)
Bucket(tag, s, next) == Cell(tag, Nil, <<s, next>>)

memory == [o \in DOMAIN nursery \union DOMAIN heap |->
             IF o \in DOMAIN nursery THEN nursery[o] ELSE heap[o]]

(* Where a pointer finds its object.                                       *)
Valid(v) == \/ v = Nil
            \/ v[1] = "young" /\ v[2] \in DOMAIN nursery
            \/ v[1] = "old" /\ v[2] \in DOMAIN heap
At(v) == IF v[1] = "young" THEN nursery[v[2]] ELSE heap[v[2]]

(* The names of new objects.                                               *)
Free == Obj \ DOMAIN memory
NurseryRoom(n) == Cardinality(DOMAIN nursery) + n <= NurserySize

Empty == [o \in {} |-> Nil]

Init ==
  /\ nursery = Empty /\ heap = Empty
  /\ half \in HalfSizes
  /\ reg = [r \in Reg |-> Nil]
  /\ static = [s \in Static |-> Nil]
  /\ mutations = {} /\ locatives = {} /\ pending = <<>> /\ running = 0

-----------------------------------------------------------------------------
(* What the marking functions have in common.                              *)

(* The slots mark_nested_objects looks at: not the first one of a special  *)
(* block, except that a minor collection takes weak pairs for pairs.       *)
TracedSlots(c, minor) ==
  IF c.tag = "locative" \/ (c.tag = "weak" /\ ~minor)
  THEN {2} ELSE DOMAIN c.slot

Traced(c, minor) == {c.slot[i] : i \in TracedSlots(c, minor)}

(* The least part of D that holds what it can of from and, with each of    *)
(* its members x, of leads[x].                                             *)
Closure(D, from, leads) ==
  LET closed == {s \in SUBSET D :
                   /\ from \intersect D \subseteq s
                   /\ \A x \in s : leads[x] \intersect D \subseteq s}
  IN {x \in D : \A s \in closed : x \in s}

(* What is reached from a set of objects of mem.                           *)
Reachable(mem, from, minor) ==
  Closure(DOMAIN mem, from, [o \in DOMAIN mem |-> Ids(Traced(mem[o], minor))])

(* The chain of buckets that starts at v: their second slots link them.    *)
Chain(mem, v) ==
  Closure(DOMAIN mem, Ids({v}),
          [b \in DOMAIN mem |-> Ids({mem[b].slot[i] : i \in DOMAIN mem[b].slot \ {1}})])

Buckets == Chain(memory, static["table"])

(* The pointers that make up the chain from v on.                          *)
Links(mem, v) == {p \in {v} \union {mem[b].slot[2] : b \in Chain(mem, v)} :
                    p # Nil /\ p[2] \in DOMAIN mem}

(* lookup: the bucket of the symbol with a given name.                     *)
Lookup(n) ==
  {b \in Buckets : At(memory[b].slot[1]).name = n}
-----------------------------------------------------------------------------
(* The program.  It holds pointers in its closure (reg) and goes from one  *)
(* object to the next.                                                     *)

Held == Range(reg) \union {Nil}

HeldOf(tags) == {p \in Held \ {Nil} : At(p).tag \in tags}

(* C_mutate_slot that forgets slots outside of the heap.                   *)
RememberNothing(s, v) == {}

(* C_mutate_slot that takes every slot for one in the nursery.             *)
RememberNoSlot(p, i, v) == {}

(* C_mutate_slot remembers a slot outside of the nursery that is made to   *)
(* point into it: a static slot, or slot i of the object at p.             *)
Remember(s, v) == IF IsYoung(v) THEN {<<"static", s>>} ELSE {}
RememberSlot(p, i, v) ==
  IF IsYoung(v) /\ ~IsYoung(p) THEN {<<"old", p[2], i>>} ELSE {}

(* A part of the memory with a new object, or with a changed one if it has *)
(* that one.                                                               *)
With(mem, o, c) == [x \in DOMAIN mem \union {o} |-> IF x = o THEN c ELSE mem[x]]
Patched(mem, o, c) == [x \in DOMAIN mem |-> IF x = o THEN c ELSE mem[x]]

Hold(r, v) == reg' = [reg EXCEPT ![r] = v]

(* C_alloc and an initialisation, for any procedure that makes an object.  *)
Allocate(r, v) ==
  /\ NurseryRoom(1)
  /\ \E o \in Free :
       nursery' = With(nursery, o, Block(v)) /\ Hold(r, Young(o))
  /\ UNCHANGED <<heap, half, static, mutations, locatives, pending, running>>

(* The closure drops a value or takes one out of an object: a slot, the    *)
(* value of a symbol, the object of a locative.                            *)
Fetch(r) ==
  /\ \E v \in {Nil} \union {static[s] : s \in Global \union FinRoot}
           \union {At(p).slot[1] : p \in Held \ {Nil}} : Hold(r, v)
  /\ UNCHANGED <<nursery, heap, half, static, mutations, locatives, pending,
                 running>>

(* set-car!, vector-set!, ..., locative-set!                               *)
Store(p, v) ==
  /\ p \in HeldOf({"block"})
  /\ nursery' = Patched(nursery, p[2], Block(v))
  /\ heap' = Patched(heap, p[2], Block(v))
  /\ mutations' = mutations \union RememberSlot(p, 1, v)
  /\ UNCHANGED <<half, reg, static, locatives, pending, running>>

(* A toplevel variable, CHICKEN_gc_root_set                                *)
StoreStatic(s, v) ==
  /\ static' = [static EXCEPT ![s] = v]
  /\ mutations' = mutations \union Remember(s, v)
  /\ UNCHANGED <<nursery, heap, half, reg, locatives, pending, running>>

(* C_string_to_symbol of a name that is not in the table: add_symbol.      *)
AddSymbol(r, n) ==
  /\ Lookup(n) = {} /\ NurseryRoom(2)
  /\ \E o \in Free : \E b \in Free \ {o} :
       /\ nursery' = With(With(nursery, b, Bucket("weak", Young(o), static["table"])),
                          o, Symbol(n))
       /\ static' = [static EXCEPT !["table"] = Young(b)]
       /\ mutations' = mutations \union Remember("table", Young(b))
       /\ Hold(r, Young(o))
  /\ UNCHANGED <<heap, half, locatives, pending, running>>

(* C_string_to_symbol of a name that is there.                             *)
FindSymbol(r, n) ==
  /\ \E b \in Lookup(n) : Hold(r, memory[b].slot[1])
  /\ UNCHANGED <<nursery, heap, half, static, mutations, locatives, pending,
                 running>>

(* lookup_bucket: the pointer to the bucket of a symbol.                   *)
BucketOf(p) == {c \in Links(memory, static["table"]) : At(c).slot[1] = p}

(* The slot of a symbol that keeps it: its value or its property list.  A  *)
(* symbol that gets one is made persistent first (C_i_persist_symbol).     *)
SetValue(p, v) ==
  /\ p \in HeldOf({"symbol"}) /\ v # Nil
  /\ \E b \in BucketOf(p) :
       LET set(mem) == Patched(Patched(mem, p[2], [At(p) EXCEPT !.slot = <<v>>]),
                               b[2], [At(b) EXCEPT !.tag = "pair"])
       IN /\ nursery' = set(nursery) /\ heap' = set(heap)
          /\ mutations' = mutations \union RememberSlot(b, 1, p)
                          \union RememberSlot(p, 1, v)
  /\ UNCHANGED <<half, reg, static, locatives, pending, running>>

(* remprop!, or an unbinding: C_i_unpersist_symbol once the slot is empty. *)
DropValue(p) ==
  /\ p \in HeldOf({"symbol"}) /\ At(p).slot[1] # Nil
  /\ \E b \in BucketOf(p) :
       LET drop(mem) == Patched(Patched(mem, p[2], [At(p) EXCEPT !.slot = <<Nil>>]),
                                b[2], [At(b) EXCEPT !.tag = "weak"])
       IN nursery' = drop(nursery) /\ heap' = drop(heap)
  /\ UNCHANGED <<half, reg, static, mutations, locatives, pending, running>>

(* C_a_i_make_locative: every locative is entered in the table.            *)
MakeLocative(r, p, weak) ==
  /\ p \in HeldOf({"block"}) /\ NurseryRoom(1)
  /\ \E o \in Free :
       /\ nursery' = With(nursery, o, Locative(p, IF weak THEN Nil ELSE p))
       /\ locatives' = locatives \union {Young(o)}
       /\ Hold(r, Young(o))
  /\ UNCHANGED <<heap, half, static, mutations, pending, running>>

(* C_register_finalizer: a node of the list holds the object.              *)
RegisterFinalizer(p, f) ==
  /\ p \in HeldOf({"block"}) /\ static[f] = Nil
  /\ static' = [static EXCEPT ![f] = p]
  /\ mutations' = mutations \union Remember(f, p)
  /\ UNCHANGED <<nursery, heap, half, reg, locatives, pending, running>>

(* ##sys#run-pending-finalizers: every entry of the vector is handed to    *)
(* its finalizer, and then the vector is cleared.                          *)
CallFinalizer(r) ==
  /\ running < Len(pending)
  /\ running' = running + 1 /\ Hold(r, pending[running + 1])
  /\ UNCHANGED <<nursery, heap, half, static, mutations, locatives, pending>>

ClearPending ==
  /\ running > 0 /\ running = Len(pending)
  /\ pending' = <<>> /\ running' = 0
  /\ UNCHANGED <<nursery, heap, half, reg, static, mutations, locatives>>

-----------------------------------------------------------------------------
(* Minor collection: the live part of the nursery moves to the heap.       *)

Remembered == {IF l[1] = "static" THEN static[l[2]] ELSE heap[l[2]].slot[l[3]] :
                 l \in mutations}

(* A minor collection that forgets the mutation stack.                     *)
MinorLiveOfArguments == Reachable(nursery, Ids(Range(reg)), TRUE)

(* What the mutated slots and the arguments reach inside the nursery.      *)
MinorLive == Reachable(nursery, Ids(Remembered \union Range(reg)), TRUE)

(* A check of the free space before the first object only.                 *)
MinorFitsAtStart == Cardinality(DOMAIN heap) < half

MinorFits == Cardinality(DOMAIN heap) + Cardinality(MinorLive) <= half

(* update_locative_table(GC_MINOR): a locative that did not move is gone;  *)
(* one whose object did not move is lost: its pointer is cleared and it is *)
(* taken off the table.                                                    *)
MinorGC ==
  /\ MinorFits
  /\ LET to(v) == IF IsYoung(v) /\ v[2] \in MinorLive THEN Old(v[2]) ELSE v
         copy(c, slots) ==
           [c EXCEPT !.slot = [i \in DOMAIN @ |->
                                 IF i \in slots THEN to(@[i]) ELSE @[i]]]
         marked == [o \in DOMAIN heap \union MinorLive |->
                     IF o \in DOMAIN heap
                     THEN copy(heap[o], {i \in 1 .. 2 :
                                           <<"old", o, i>> \in mutations})
                     ELSE copy(nursery[o], TracedSlots(nursery[o], TRUE))]
         moved == {to(l) : l \in locatives} \ {l \in locatives : IsYoung(l)}
         found(l) == ~IsYoung(to(marked[l[2]].slot[1]))
     IN /\ heap' = [o \in DOMAIN marked |->
                      IF Old(o) \notin moved THEN marked[o]
                      ELSE [marked[o] EXCEPT !.slot[1] =
                              IF found(Old(o)) THEN to(@) ELSE Nil]]
        /\ locatives' = {l \in moved : found(l)}
        /\ reg' = [r \in Reg |-> to(reg[r])]
        /\ static' = [s \in Static |->
                        IF <<"static", s>> \in mutations THEN to(static[s])
                        ELSE static[s]]
  /\ nursery' = Empty /\ mutations' = {}
  /\ UNCHANGED <<half, pending, running>>

(* A minor collection that fills the heap stops there: the objects copied  *)
(* so far are in both places, and the ones in the nursery forward to the   *)
(* others.  Mutated slots come first, then arguments, then what these      *)
(* contain.                                                                *)
AbortedMinor(copied) ==
  LET mutated == MinorLive \intersect Ids(Remembered)
      direct  == mutated \union (MinorLive \intersect Ids(Range(reg)))
  IN /\ ~MinorFits
     /\ Cardinality(copied) = half - Cardinality(DOMAIN heap)
     /\ copied \subseteq mutated \/ mutated \subseteq copied
     /\ copied \subseteq direct \/ direct \subseteq copied
     /\ copied = Reachable([o \in copied |-> nursery[o]], direct, TRUE)

-----------------------------------------------------------------------------
(* Major and reallocating collections: everything live moves.              *)

(* The slots in which object-become! replaces pointers: in the whole       *)
(* memory, as if each pointer to an object in the domain of became had     *)
(* always been the other one.                                              *)
Became(became, v) ==
  IF v # Nil /\ v[2] \in DOMAIN became THEN became[v[2]] ELSE v

Renamed(became, vs) == [i \in DOMAIN vs |-> Old(Became(became, vs[i])[2])]

MemoryAfter(became) ==
  [o \in DOMAIN memory |->
     [memory[o] EXCEPT !.slot = [i \in DOMAIN @ |-> Became(became, @[i])]]]

(* mark_live_objects, mark_live_heap_only_objects, plain GC roots.         *)
Roots(became) ==
  Ids({Became(became, v) : v \in Range(reg) \union Range(pending)
                             \union {static[s] : s \in Global \union {"table"}}}
      \union Range(became))

(* Finalizers and finalizable roots, marked when the rest is done.         *)
LateRoots(became) ==
  Ids({Became(became, static[s]) : s \in FinNode \union FinRoot})

(* An unreferenced symbol takes the rest of the chain with it.             *)
NextKeptCut(mem, kept, v) ==
  IF v # Nil /\ mem[v[2]].slot[1][2] \in kept THEN v ELSE Nil

(* update_symbol_tables: buckets whose symbol has not survived are taken   *)
(* out of the chain.  The first kept bucket of the chain from v on:        *)
NextKept(mem, kept, v) ==
  LET stays == {b \in Chain(mem, v) : mem[b].slot[1][2] \in kept}
  IN IF stays = {} THEN Nil
     ELSE CHOOSE p \in Links(mem, v) : p[2] \in stays /\ stays \subseteq Chain(mem, p)

(* The move itself.  kept is what survives; copied what an aborted minor   *)
(* collection has forwarded before; table the locatives that stay in       *)
(* locative_table; lost the locatives whose pointer is cleared; nodes the  *)
(* finalizer nodes that are released.                                      *)
Evacuate(became, kept, copied, table, lost, nodes) ==
  LET mem == MemoryAfter(became)
      to(v) == LET w == Became(became, v) IN
               IF w = Nil THEN Nil
               ELSE IF w[2] \in kept THEN Old(w[2])
               ELSE IF IsYoung(w) /\ w[2] \in copied THEN Gone(w[2]) ELSE w
      chain == Chain(mem, static["table"])
      slots(o) ==
        LET c == [i \in DOMAIN mem[o].slot |-> to(mem[o].slot[i])]
        IN IF o \in lost THEN [c EXCEPT ![1] = Nil]
           ELSE IF o \notin chain THEN c
           ELSE [c EXCEPT ![2] = to(NextKept(mem, kept, mem[o].slot[2]))]
  IN /\ heap' = [o \in kept |-> [mem[o] EXCEPT !.slot = slots(o)]]
     /\ reg' = [r \in Reg |-> to(reg[r])]
     /\ static' = [s \in Static |->
                     IF s \in nodes THEN Nil
                     ELSE IF s = "table" THEN to(NextKept(mem, kept, static["table"]))
                     ELSE to(static[s])]
     /\ locatives' = {to(l) : l \in table}
     /\ nursery' = Empty /\ mutations' = {}
     /\ UNCHANGED running

Targets(mem, table) == {mem[l[2]].slot[1] : l \in table}

(* C_rereclaim2: every finalizer, every root, every locative and the       *)
(* object of every locative is live.                                       *)
Reallocate(became, weak) ==
  LET mem == MemoryAfter(became)
      kept == Reachable(mem, Roots(became) \union LateRoots(became)
                \union Ids(locatives) \union Ids(Targets(mem, locatives)), weak)
  IN /\ half' \in {n \in HalfSizes : Cardinality(kept) <= n}
     /\ Evacuate(became, kept, {}, locatives, {}, {})
     /\ pending' = Renamed(became, pending)

(* Nursery objects taken for dead, as in a minor collection.               *)
ForwardedOld(v, moved, copied) == v[2] \in moved /\ ~IsYoung(v)

(* The header of an object is a forwarding pointer: it is among the moved  *)
(* objects, or an aborted minor collection has moved it before.            *)
Forwarded(v, moved, copied) == v[2] \in moved \/ (IsYoung(v) /\ v[2] \in copied)

(* Nodes are looked at before nested objects have been marked.             *)
DueEarly(became, live, copied) ==
  {f \in FinNode : static[f] # Nil
     /\ Became(became, static[f])[2] \notin Roots(became)}

(* Finalizer nodes whose object has not moved with the live ones.          *)
Due(became, live, copied) ==
  {f \in FinNode :
     /\ static[f] # Nil
     /\ ~Forwarded(Became(became, static[f]), live, copied)}

(* A major collection: live objects first, then the finalizers whose object *)
(* has not moved are queued, then the other finalizers' objects follow.    *)
(* It may come after a minor one that has copied some objects in vain.     *)
(* When the other half is too small it starts over as a reallocating one;  *)
(* when it leaves too little or too much room the heap is moved once more. *)
MajorGC(copied, became) ==
  LET mem == MemoryAfter(became)
      item(f) == Became(became, static[f])
      live == Reachable(mem, Roots(became), FALSE)
      due == Due(became, live, copied)
      all == Reachable(mem, live \union LateRoots(became), FALSE)
      moved == {l \in locatives : Forwarded(l, all, copied)}
      found == {l \in moved : Forwarded(mem[l[2]].slot[1], all, copied)}
      count == Cardinality(all)
      queued == IF pending # <<>> THEN 0
                ELSE IF Cardinality(due) < MaxPending THEN Cardinality(due)
                ELSE MaxPending
  IN IF count > half THEN Reallocate(became, FALSE)
     ELSE
     /\ \E queue \in Injection(1 .. queued, due) :
          /\ pending' = IF pending # <<>> THEN Renamed(became, pending)
                        ELSE [i \in 1 .. queued |-> Old(item(queue[i])[2])]
          /\ \/ /\ count + MinFree <= half /\ half' = half
                /\ Evacuate(became, all, copied, found, Ids(locatives \ found),
                            Range(queue))
             \/ LET kept == Reachable(mem, all \union Ids(found)
                                     \union Ids(Targets(mem, found)), FALSE)
                IN /\ half' \in HalfSizes /\ Cardinality(kept) <= half'
                   /\ IF count + MinFree > half THEN half' > half
                      ELSE half' < half /\ count + MinFree <= half'
                   /\ Evacuate(became, kept, copied, found, Ids(locatives \ found),
                               Range(queue))

-----------------------------------------------------------------------------
(* The collections the program starts.                                     *)

(* (gc #t), or a minor collection that finds the heap full at its start.   *)
ForcedGC == MajorGC({}, Empty)

(* A minor collection that runs out of heap on its way.                    *)
EscalatedGC == \E copied \in SUBSET MinorLive :
                 AbortedMinor(copied) /\ MajorGC(copied, Empty)

(* (gc SIZE): C_rereclaim2 without C_reclaim, in the mode of the           *)
(* collection before; also what allocate_vector_2 does to make room.       *)
ResizedGC == \E weak \in BOOLEAN : Reallocate(Empty, weak)

(* object-become!: the first thing a forced major collection does is to    *)
(* let p forward to q.  An interrupt that is pending then replaces the     *)
(* collection, and become_2 empties the table that says so: such a call    *)
(* changes nothing here, and the collection that the full half forces      *)
(* later is a ForcedGC.                                                    *)
Become(p, q) ==
  /\ p \in HeldOf({"block"}) /\ q \in HeldOf({"block"}) \ {p}
  /\ MajorGC({}, [o \in {p[2]} |-> q])

(* A vector that does not fit into the nursery: after the collection that  *)
(* has emptied it allocate_vector_2 takes the vector from the heap.        *)
LargeVector(r, v) ==
  /\ nursery = Empty /\ Cardinality(DOMAIN heap) < half
  /\ \E o \in Free : heap' = With(heap, o, Block(v)) /\ Hold(r, Old(o))
  /\ UNCHANGED <<nursery, half, static, mutations, locatives, pending, running>>

(* The same, but the check that found no room did so because an interrupt  *)
(* was pending: C_reclaim calls the handler instead of collecting, and the *)
(* handler goes on at allocate_vector_2.                                   *)
InterruptedVector(r, v) ==
  /\ Cardinality(DOMAIN heap) + 2 * NurserySize < half
  /\ \E o \in Free : heap' = With(heap, o, Block(v)) /\ Hold(r, Old(o))
  /\ UNCHANGED <<nursery, half, static, mutations, locatives, pending, running>>

-----------------------------------------------------------------------------
(* What the program can still get at: through every slot, weak or not, and *)
(* through the symbol table.                                               *)
Entries == Range(reg) \union Range(pending) \union Range(static)
Accessible ==
  LET strong == [o \in DOMAIN memory |-> [memory[o] EXCEPT !.tag = "block"]]
  IN Reachable(strong, Ids(Entries), TRUE)

(* What it holds on to, by itself and not only weakly.                     *)
Strong == Reachable(memory,
            Ids(Range(reg) \union {static[s] : s \in Global \union {"table"}}),
            FALSE)

(* update_locative_table finds every locative and what it points to.  That *)
(* is not so after a major collection that takes one of them for live      *)
(* because the aborted minor collection before it has moved it: the entry, *)
(* or the locative, points to the copy in the half that was given up.      *)
TableIsFollowed ==
  \A l \in locatives : Valid(l) /\ Valid(At(l).slot[1])

Mutate ==
  \/ \E r \in Reg, v \in Held : Allocate(r, v)
  \/ \E r \in Reg : Fetch(r)
  \/ \E p, v \in Held : Store(p, v)
  \/ \E s \in Global \union FinRoot, v \in Held : StoreStatic(s, v)
  \/ \E r \in Reg, n \in Name : AddSymbol(r, n)
  \/ \E r \in Reg, n \in Name : FindSymbol(r, n)
  \/ \E p, v \in Held : SetValue(p, v)
  \/ \E p \in Held : DropValue(p)
  \/ \E r \in Reg, p \in Held, weak \in BOOLEAN : MakeLocative(r, p, weak)
  \/ \E p \in Held, f \in FinNode : RegisterFinalizer(p, f)
  \/ \E r \in Reg : CallFinalizer(r)
  \/ ClearPending
  \/ \E r \in Reg, v \in Held : LargeVector(r, v)

Collect == /\ TableIsFollowed
           /\ MinorGC \/ EscalatedGC \/ ForcedGC \/ ResizedGC

ReplaceObject == \E p, q \in Held : Become(p, q)

(* A locative has gone astray.  What the next major collection makes of it *)
(* depends on what has overwritten the half by then: the model ends here.  *)
Astray == ~TableIsFollowed /\ UNCHANGED vars

Next == \/ TableIsFollowed /\ (Mutate \/ ReplaceObject)
        \/ Collect
        \/ Astray

Spec == Init /\ [][Next]_vars

(* The vectors as they are: an interrupt may come before one is made.      *)
InterruptedSpec ==
  Init /\ [][\/ Next
            \/ /\ TableIsFollowed
               /\ \E r \in Reg, v \in Held : InterruptedVector(r, v)]_vars

-----------------------------------------------------------------------------
Arity == [block |-> 1, locative |-> 2, symbol |-> 1, pair |-> 2, weak |-> 2]

(* Everything has its type, and no object is in two places.                *)
TypeOK ==
  /\ DOMAIN nursery \intersect DOMAIN heap = {}
  /\ \A o \in DOMAIN memory :
       LET c == memory[o] IN
       /\ o \in Obj /\ c.tag \in DOMAIN Arity /\ c.name \in Name \union {Nil}
       /\ c.slot \in [1 .. Arity[c.tag] -> Value]
  /\ Cardinality(DOMAIN nursery) <= NurserySize
  /\ half \in HalfSizes /\ Cardinality(DOMAIN heap) <= half
  /\ reg \in [Reg -> Value] /\ static \in [Static -> Value]
  /\ mutations \subseteq ({"static"} \X Static) \union ({"old"} \X Obj \X {1, 2})
  /\ locatives \subseteq Value
  /\ pending \in Seq(Value) /\ Len(pending) <= MaxPending
  /\ running \in 0 .. Len(pending)

(* A locative whose raw pointer leads into a half that was given up.       *)
Stray(o) == memory[o].tag = "locative" /\ memory[o].slot[1] # Nil
            /\ memory[o].slot[1][1] = "gone"

(* Whatever the program can get at is where the pointers to it say, but    *)
(* for the raw pointer of a locative that has gone astray (runtime.c: a    *)
(* collection updates every pointer to what it moves).                     *)
PointersValid ==
  /\ \A v \in Entries : Valid(v)
  /\ \A o \in Accessible : \A i \in DOMAIN memory[o].slot :
       Valid(memory[o].slot[i]) \/ (i = 1 /\ Stray(o))

(* Every locative the program holds points to an object or nowhere         *)
(* (mark_live_heap_only_objects: "Locative tables are excluded because     *)
(* these need to chase forwarding chains to update the corresponding       *)
(* pointer, while dead objects must be zeroed out with NULL pointers").    *)
DeadZeroedOut ==
  \A o \in Strong : memory[o].tag = "locative" => Valid(memory[o].slot[1])

(* A pointer from outside of the nursery into it is on the mutation stack, *)
(* or it is the raw pointer of a locative, even in objects that are dead,  *)
(* but for the buckets that were taken out of the symbol table             *)
(* (C_mutate_slot: "Mutation stack exists to track mutations pointing from *)
(* elsewhere into nursery").                                               *)
MutationsTracked ==
  /\ \A s \in Static : IsYoung(static[s]) => <<"static", s>> \in mutations
  /\ \A o \in DOMAIN heap : \A i \in TracedSlots(heap[o], TRUE) :
       (heap[o].tag = "weak" => o \in Buckets) /\ IsYoung(heap[o].slot[i])
       => <<"old", o, i>> \in mutations

(* There is one symbol per name, as long as the program can get at one,    *)
(* and it is in the table (update_symbol_tables drops only what nothing    *)
(* else refers to).                                                        *)
SymbolsUnique ==
  \A o \in Accessible : memory[o].tag = "symbol" =>
    /\ \E b \in Buckets : memory[b].slot[1][2] = o
    /\ \A p \in Accessible : memory[p].tag = "symbol"
                             /\ memory[p].name = memory[o].name => p = o

(* What a collection must not change: the objects the program holds and    *)
(* what is in them.                                                        *)
View(mem, objs) ==
  [o \in objs |-> [tag |-> mem[o].tag, name |-> mem[o].name,
                   slot |-> [i \in TracedSlots(mem[o], FALSE) |->
                               Ids({mem[o].slot[i]})]]]
Keepers == {o \in Strong : memory[o].tag \notin {"pair", "weak"}}

(* A collection is invisible: the program holds the same objects after it, *)
(* with the same contents (C_reclaim, C_rereclaim2).                       *)
CollectionInvisible ==
  [][nursery' = Empty /\ mutations' = {} /\ Collect =>
       /\ \A r \in Reg : Ids({reg[r]}) = Ids({reg'[r]})
       /\ Keepers' = Keepers
       /\ View(memory, Keepers)' = View(memory, Keepers)]_vars

(* A finalizer leaves its list only when its object is queued, and that    *)
(* happens to objects the program does not hold (C_reclaim).               *)
FinalizedWhenDead ==
  [][\A f \in FinNode :
       static[f] # Nil /\ static'[f] = Nil =>
         /\ static[f][2] \notin Strong'
         /\ static[f][2] \in Ids(Range(pending'))]_vars

(* A locative that a step keeps still points to its object, and finds it   *)
(* there; it is lost only when the program does not hold the object any    *)
(* more.  After an abandoned minor collection it may also go astray, if    *)
(* the program does not hold the object, or be lost, if the program does   *)
(* not hold the locative itself (update_locative_table).                   *)
LocativesFollow ==
  [][\/ \A o \in {l \in DOMAIN memory : memory[l].tag = "locative"} :
          o \in DOMAIN memory' /\ memory'[o].tag = "locative" =>
            LET p == memory[o].slot[1]  q == memory'[o].slot[1] IN
            \/ Ids({p}) = Ids({q})
               /\ (Valid(p) => Valid(memory[o].slot[1])')
            \/ q = Nil /\ p[2] \notin Strong
            \/ /\ EscalatedGC
               /\ \/ q = Nil /\ o \notin Strong
                  \/ p[2] \notin Strong /\ Ids({p}) = Ids({q})
     \/ ReplaceObject]_vars

=============================================================================
