----------------------------- MODULE HeapProofs -----------------------------
(***************************************************************************)
(* Theorems about module Heap, for any objects, names, roots, finalizers   *)
(* and sizes of nursery and heap: no collection leaves a pointer behind,   *)
(* the mutation stack is complete, the symbol table stays one chain with   *)
(* one symbol per name, a finalizer waits until its object is dead, a      *)
(* locative follows its object, and what the program holds is the same     *)
(* after a collection.                                                     *)
(***************************************************************************)
EXTENDS Heap, FiniteSetTheorems, SequenceTheorems, TLAPS

-----------------------------------------------------------------------------
(* What is reached.                                                        *)

(* A closure is closed.                                                    *)
LEMMA ClosureIsClosed ==
  ASSUME NEW D, NEW from, NEW leads
  PROVE  /\ Closure(D, from, leads) \subseteq D
         /\ from \intersect D \subseteq Closure(D, from, leads)
         /\ \A x \in Closure(D, from, leads) :
              leads[x] \intersect D \subseteq Closure(D, from, leads)
BY DEF Closure

(* It is the least closed set.                                             *)
LEMMA ClosureIsLeast ==
  ASSUME NEW D, NEW from, NEW leads, NEW s,
         from \intersect D \subseteq s,
         \A x \in s \intersect D : leads[x] \intersect D \subseteq s
  PROVE  Closure(D, from, leads) \subseteq s
<1> DEFINE S == s \intersect D
<1>1. /\ S \in SUBSET D
      /\ from \intersect D \subseteq S
      /\ \A x \in S : leads[x] \intersect D \subseteq S
  OBVIOUS
<1> HIDE DEF S
<1>2. Closure(D, from, leads) \subseteq S
  BY <1>1 DEF Closure
<1> QED
  BY <1>2 DEF S

(* It does not depend on what is outside of it.                            *)
LEMMA ClosureIsLocal ==
  ASSUME NEW D, NEW from, NEW leads, NEW DD, NEW other, NEW follow,
         from \intersect D = other \intersect DD,
         \A x \in Closure(D, from, leads) :
            x \in DD /\ leads[x] \intersect D = follow[x] \intersect DD
  PROVE  Closure(DD, other, follow) = Closure(D, from, leads)
<1> DEFINE C == Closure(D, from, leads)
           E == Closure(DD, other, follow)
<1>1. /\ C \subseteq D /\ from \intersect D \subseteq C
      /\ \A x \in C : leads[x] \intersect D \subseteq C
  BY ClosureIsClosed
<1>2. /\ E \subseteq DD /\ other \intersect DD \subseteq E
      /\ \A x \in E : follow[x] \intersect DD \subseteq E
  BY ClosureIsClosed
<1>3. E \subseteq C
  <2>1. other \intersect DD \subseteq C
    BY <1>1
  <2>2. \A x \in C \intersect DD : follow[x] \intersect DD \subseteq C
    BY <1>1
  <2> HIDE DEF C
  <2> QED
    BY <2>1, <2>2, ClosureIsLeast
<1>4. C \subseteq E
  <2> DEFINE s == E \intersect C
  <2>1. from \intersect D \subseteq s
    BY <1>1, <1>2
  <2>2. \A x \in s \intersect D : leads[x] \intersect D \subseteq s
    BY <1>1, <1>2
  <2>3. C \subseteq s
    <3> HIDE DEF s
    <3> QED
      BY <2>1, <2>2, ClosureIsLeast
  <2> QED
    BY <2>3
<1> QED
  BY <1>3, <1>4

-----------------------------------------------------------------------------
(* Types.                                                                  *)
CellTags == {"block", "locative", "symbol", "pair", "weak"}
Plain    == {"block", "locative", "symbol"}
Linking  == {"pair", "weak"}

(* How many slots each kind has.                                           *)
SlotsOf(tag) == IF tag \in {"block", "symbol"} THEN {1} ELSE {1, 2}

(* An object: its kind, the name of a symbol, and its slots.               *)
IsCell(c) ==
  /\ c = Cell(c.tag, c.name, c.slot)
  /\ c.tag \in CellTags /\ c.name \in Name \union {Nil}
  /\ c.slot \in [SlotsOf(c.tag) -> Value]

(* Nursery and heap hold objects, and no object is in both.                *)
Cells ==
  /\ DOMAIN nursery \subseteq Obj /\ DOMAIN heap \subseteq Obj
  /\ DOMAIN nursery \intersect DOMAIN heap = {}
  /\ \A o \in DOMAIN nursery : IsCell(nursery[o])
  /\ \A o \in DOMAIN heap : IsCell(heap[o])

(* Neither holds more than fits into it.                                   *)
Room ==
  /\ Cardinality(DOMAIN nursery) <= NurserySize
  /\ half \in HalfSizes /\ Cardinality(DOMAIN heap) <= half

(* The roots, the mutation stack and the locative table have their types.  *)
Entered ==
  /\ reg \in [Reg -> Value] /\ static \in [Static -> Value]
  /\ mutations \subseteq ({"static"} \X Static) \union ({"old"} \X Obj \X {1, 2})
  /\ locatives \subseteq Value

(* The vector of pending finalizers is no longer than it may be.           *)
Queued ==
  /\ pending \in Seq(Value) /\ Len(pending) <= MaxPending
  /\ running \in 0 .. Len(pending)

(* All of it: the type invariant.                                          *)
Types == Cells /\ Room /\ Entered /\ Queued

(* The other slots of a cell, or another tag.                              *)
LEMMA CellParts ==
  ASSUME NEW tag, NEW name, NEW slot
  PROVE  /\ Cell(tag, name, slot).tag = tag
         /\ Cell(tag, name, slot).name = name
         /\ Cell(tag, name, slot).slot = slot
BY DEF Cell

(* An object with other slots, or of another kind.                         *)
LEMMA CellChanged ==
  ASSUME NEW c, IsCell(c)
  PROVE  /\ \A s : [c EXCEPT !.slot = s] = Cell(c.tag, c.name, s)
         /\ \A t : [c EXCEPT !.tag = t] = Cell(t, c.name, c.slot)
BY DEF IsCell, Cell

(* The same of one slot.                                                   *)
LEMMA CellSlotChanged ==
  ASSUME NEW c, IsCell(c), NEW i, NEW v
  PROVE  [c EXCEPT !.slot[i] = v] = Cell(c.tag, c.name, [c.slot EXCEPT ![i] = v])
BY DEF IsCell, Cell

(* The objects the program makes.                                          *)
LEMMA CellKinds ==
  ASSUME NEW v \in Value, NEW w \in Value
  PROVE  /\ IsCell(Block(v)) /\ Block(v).tag = "block" /\ Block(v).slot = [i \in {1} |-> v]
         /\ IsCell(Locative(v, w)) /\ Locative(v, w).tag = "locative"
         /\ Locative(v, w).slot = [i \in {1, 2} |-> IF i = 1 THEN v ELSE w]
         /\ IsCell(Bucket("weak", v, w)) /\ Bucket("weak", v, w).tag = "weak"
         /\ Bucket("weak", v, w).slot = [i \in {1, 2} |-> IF i = 1 THEN v ELSE w]
<1>1. \A x : <<x>> = [i \in {1} |-> x]
  OBVIOUS
<1>2. \A x, y : <<x, y>> = [i \in {1, 2} |-> IF i = 1 THEN x ELSE y]
  OBVIOUS
<1> QED
  BY <1>1, <1>2 DEF IsCell, Cell, Block, Locative, Bucket, CellTags, SlotsOf

(* A new symbol has no value.                                              *)
LEMMA SymbolCell ==
  ASSUME NEW n \in Name
  PROVE  /\ IsCell(Symbol(n)) /\ Symbol(n).tag = "symbol" /\ Symbol(n).name = n
         /\ Symbol(n).slot = [i \in {1} |-> Nil]
<1>1. <<Nil>> = [i \in {1} |-> Nil] /\ Nil \in Value
  BY DEF Value
<1> QED
  BY <1>1 DEF IsCell, Cell, Symbol, CellTags, SlotsOf

(* Types is TypeOK.                                                        *)
LEMMA TypesAreRight == Types => TypeOK
<1> SUFFICES ASSUME Types PROVE TypeOK
  OBVIOUS
<1>1. \A t \in CellTags : t \in DOMAIN Arity /\ 1 .. Arity[t] = SlotsOf(t)
  <2>1. DOMAIN Arity = CellTags
    BY DEF Arity, CellTags
  <2>2. /\ Arity["block"] = 1 /\ Arity["symbol"] = 1
        /\ Arity["locative"] = 2 /\ Arity["pair"] = 2 /\ Arity["weak"] = 2
    BY DEF Arity
  <2>3. 1 .. 1 = {1} /\ 1 .. 2 = {1, 2}
    OBVIOUS
  <2> QED
    BY <2>1, <2>2, <2>3 DEF CellTags, SlotsOf
<1>2. ASSUME NEW o \in DOMAIN memory
      PROVE  /\ o \in Obj /\ memory[o].tag \in DOMAIN Arity /\ memory[o].name \in Name \union {Nil}
             /\ memory[o].slot \in [1 .. Arity[memory[o].tag] -> Value]
  <2>1. o \in Obj /\ IsCell(memory[o])
    BY <1>2 DEF Types, Cells, memory
  <2> QED
    BY <1>1, <2>1 DEF IsCell
<1> QED
  BY <1>2 DEF Types, Cells, Room, Entered, Queued, TypeOK

-----------------------------------------------------------------------------
(* The invariant.                                                          *)

(* The pointer to an object, and a value that is one to an object of these *)
(* kinds, or none.                                                         *)
Pointer(o) == IF o \in DOMAIN nursery THEN Young(o) ELSE Old(o)

To(v, tags) ==
  \/ v = Nil
  \/ v \in Value /\ v[2] \in DOMAIN memory /\ v = Pointer(v[2]) /\ memory[v[2]].tag \in tags

(* What the roots hold, symbol_table apart: blocks, locatives and symbols. *)
(* The queued objects have left the nursery.                               *)
HeldOK ==
  /\ \A r \in Reg : To(reg[r], Plain)
  /\ \A s \in Static \ {"table"} : To(static[s], Plain)
  /\ \A i \in 1 .. Len(pending) :
        pending[i] # Nil /\ To(pending[i], Plain) /\ ~IsYoung(pending[i])

(* These hold nothing but each other: the buckets of the symbol table are  *)
(* not to be seen.                                                         *)
ContentsOK ==
  \A o \in DOMAIN memory : memory[o].tag \in Plain =>
    \A i \in DOMAIN memory[o].slot : To(memory[o].slot[i], Plain)

(* The symbol table is a chain of buckets, each with a symbol.             *)
TableOK ==
  /\ To(static["table"], Linking)
  /\ \A b \in Buckets :
       /\ memory[b].tag \in Linking
       /\ memory[b].slot[1] # Nil /\ To(memory[b].slot[1], {"symbol"})
       /\ To(memory[b].slot[2], Linking)

(* A persistent bucket is in the chain, and so is a weak one in the        *)
(* nursery: a bucket that a collection has taken out is weak, and in the   *)
(* heap.                                                                   *)
PairsIn ==
  \A o \in DOMAIN memory :
    memory[o].tag = "pair" \/ (memory[o].tag = "weak" /\ o \in DOMAIN nursery)
      => o \in Buckets

(* No bucket comes again after itself in the chain.                        *)
Acyclic == \A b \in Buckets : b \notin Chain(memory, memory[b].slot[2])

(* The symbol of a bucket.                                                 *)
SymbolOf(b) == memory[b].slot[1][2]

(* Every symbol in the memory is in the table, until the collection that   *)
(* lets it go.                                                             *)
Listed ==
  \A o \in DOMAIN memory : memory[o].tag = "symbol" => \E b \in Buckets : SymbolOf(b) = o

(* No name is in the table twice.                                          *)
Distinct ==
  \A b, c \in Buckets : memory[SymbolOf(b)].name = memory[SymbolOf(c)].name => b = c

(* All of this: the symbol table.                                          *)
TableInv == TableOK /\ PairsIn /\ Acyclic /\ Listed /\ Distinct

(* The locative table has the locatives that still have their pointer, and *)
(* no others.                                                              *)
LocativesOK ==
  /\ \A l \in locatives : l # Nil /\ To(l, {"locative"}) /\ memory[l[2]].slot[1] # Nil
  /\ \A o \in DOMAIN memory :
        memory[o].tag = "locative" /\ memory[o].slot[1] # Nil => Pointer(o) \in locatives

(* The invariant as long as no locative has gone astray.                   *)
HInv == Types /\ HeldOK /\ ContentsOK /\ TableInv /\ LocativesOK /\ MutationsTracked

(* A locative that has gone astray points to an object that is nowhere.    *)
StraysOK ==
  \A o \in DOMAIN memory : memory[o].tag \in Plain =>
    \A i \in DOMAIN memory[o].slot :
      \/ To(memory[o].slot[i], Plain)
      \/ i = 1 /\ Stray(o) /\ memory[o].slot[1][2] \notin DOMAIN memory

(* What holds even then.                                                   *)
Solid == Types /\ HeldOK /\ StraysOK /\ TableInv /\ MutationsTracked

(* The inductive invariant.                                                *)
IInv == Solid /\ (TableIsFollowed => ContentsOK /\ LocativesOK)

(* With no locative astray it is the first one, which is the stronger.     *)
LEMMA GoodIs == (IInv /\ TableIsFollowed => HInv) /\ (HInv => IInv) /\ (HInv' => IInv')
BY DEF HInv, IInv, Solid, ContentsOK, StraysOK

-----------------------------------------------------------------------------
(* Pointers.                                                               *)

(* A pointer to an object is valid, finds it, and says where it is.        *)
LEMMA Pointers ==
  ASSUME Cells, NEW v, NEW tags, To(v, tags), v # Nil
  PROVE  /\ v \in Value /\ v[2] \in Obj /\ v[2] \in DOMAIN memory /\ v = Pointer(v[2])
         /\ Valid(v) /\ At(v) = memory[v[2]] /\ memory[v[2]].tag \in tags
         /\ IsYoung(v) <=> v[2] \in DOMAIN nursery
         /\ ~IsYoung(v) <=> v[2] \in DOMAIN heap
BY HeapAssumption DEF To, Pointer, Valid, At, memory, Cells, IsYoung, Young, Old, Value

(* An object has a pointer, and is in one of the two places.               *)
LEMMA Objects ==
  ASSUME Cells, NEW o \in DOMAIN memory
  PROVE  /\ o \in Obj /\ IsCell(memory[o]) /\ Pointer(o) \in Value \ {Nil}
         /\ Pointer(o)[2] = o
         /\ o \in DOMAIN nursery => memory[o] = nursery[o]
         /\ o \in DOMAIN heap => memory[o] = heap[o]
         /\ IsYoung(Pointer(o)) <=> o \in DOMAIN nursery
BY HeapAssumption DEF Cells, memory, Pointer, Young, Old, IsYoung, Value

(* The memory is nursery and heap.                                         *)
LEMMA MemoryIs == DOMAIN memory = DOMAIN nursery \union DOMAIN heap
BY DEF memory

(* The names in a set of values.                                           *)
LEMMA IdsOf ==
  /\ \A v : Ids({v}) = IF v = Nil THEN {} ELSE {v[2]}
  /\ \A vs, v : v \in vs /\ v # Nil => v[2] \in Ids(vs)
  /\ \A vs, x : x \in Ids(vs) <=> \E v \in vs : v # Nil /\ v[2] = x
BY DEF Ids

-----------------------------------------------------------------------------
(* Chains.                                                                 *)

(* The bucket after b, if there is one.                                    *)
Rest(mem, b) == Ids({mem[b].slot[i] : i \in DOMAIN mem[b].slot \ {1}})

(* The bucket after b is the one in its second slot.                       *)
LEMMA RestOfTwo ==
  ASSUME NEW mem, NEW b, DOMAIN mem[b].slot = {1, 2}
  PROVE  Rest(mem, b) = Ids({mem[b].slot[2]})
<1>1. {mem[b].slot[i] : i \in DOMAIN mem[b].slot \ {1}} = {mem[b].slot[2]}
  OBVIOUS
<1> QED
  BY <1>1 DEF Rest

(* A chain goes on to its end.                                             *)
LEMMA ChainIsClosed ==
  ASSUME NEW mem, NEW v
  PROVE  /\ Chain(mem, v) \subseteq DOMAIN mem
         /\ Ids({v}) \intersect DOMAIN mem \subseteq Chain(mem, v)
         /\ \A b \in Chain(mem, v) : Rest(mem, b) \intersect DOMAIN mem \subseteq Chain(mem, v)
BY ClosureIsClosed DEF Chain, Rest

(* A set that holds the first bucket and, with each, the next, holds the   *)
(* chain.                                                                  *)
LEMMA ChainIsLeast ==
  ASSUME NEW mem, NEW v, NEW s,
         Ids({v}) \intersect DOMAIN mem \subseteq s,
         \A b \in s \intersect DOMAIN mem : Rest(mem, b) \intersect DOMAIN mem \subseteq s
  PROVE  Chain(mem, v) \subseteq s
<1> DEFINE D == DOMAIN mem
           from == Ids({v})
           leads == [b \in DOMAIN mem |-> Ids({mem[b].slot[i] : i \in DOMAIN mem[b].slot \ {1}})]
<1>1. from \intersect D \subseteq s
  OBVIOUS
<1>2. \A x \in s \intersect D : leads[x] \intersect D \subseteq s
  BY DEF Rest
<1>3. Chain(mem, v) = Closure(D, from, leads)
  BY DEF Chain
<1> HIDE DEF D, from, leads
<1> QED
  BY <1>1, <1>2, <1>3, ClosureIsLeast

(* A chain does not depend on the rest of the memory.                      *)
LEMMA ChainIsLocal ==
  ASSUME NEW mem, NEW v, NEW mem2, NEW w,
         Ids({v}) \intersect DOMAIN mem = Ids({w}) \intersect DOMAIN mem2,
         \A b \in Chain(mem, v) :
            /\ b \in DOMAIN mem2
            /\ Rest(mem, b) \intersect DOMAIN mem = Rest(mem2, b) \intersect DOMAIN mem2
  PROVE  Chain(mem2, w) = Chain(mem, v)
<1> DEFINE D == DOMAIN mem  from == Ids({v})
           leads == [b \in DOMAIN mem |-> Ids({mem[b].slot[i] : i \in DOMAIN mem[b].slot \ {1}})]
           DD == DOMAIN mem2  other == Ids({w})
           follow == [b \in DOMAIN mem2 |-> Ids({mem2[b].slot[i] : i \in DOMAIN mem2[b].slot \ {1}})]
<1>1. Chain(mem, v) = Closure(D, from, leads) /\ Chain(mem2, w) = Closure(DD, other, follow)
  BY DEF Chain
<1>2. Chain(mem, v) \subseteq D
  BY ChainIsClosed
<1>3. \A x \in Chain(mem, v) : x \in DD /\ leads[x] \intersect D = follow[x] \intersect DD
  BY <1>2 DEF Rest
<1>4. from \intersect D = other \intersect DD
  OBVIOUS
<1> HIDE DEF D, from, leads, DD, other, follow
<1> QED
  BY <1>1, <1>3, <1>4, ClosureIsLocal

(* The chain from a bucket on is part of the chain it is in.               *)
LEMMA ChainGoesOn ==
  ASSUME NEW mem, NEW v, NEW w, Ids({w}) \intersect DOMAIN mem \subseteq Chain(mem, v)
  PROVE  Chain(mem, w) \subseteq Chain(mem, v)
BY ChainIsClosed, ChainIsLeast

(* The chain of buckets while no link of it changes.                       *)
LEMMA KeptChains ==
  ASSUME Cells, Cells', TableOK,
         \A b \in Buckets : /\ b \in DOMAIN memory' /\ memory'[b].tag \in Linking
                            /\ Ids({memory'[b].slot[2]}) = Ids({memory[b].slot[2]}),
         NEW w, Ids({w}) = Ids({static["table"]})
  PROVE  /\ Chain(memory', w) = Buckets
         /\ \A b \in Buckets : Chain(memory', memory'[b].slot[2]) = Chain(memory, memory[b].slot[2])
<1>1. /\ Buckets \subseteq DOMAIN memory
      /\ Ids({static["table"]}) \intersect DOMAIN memory \subseteq Buckets
      /\ \A b \in Buckets : Rest(memory, b) \intersect DOMAIN memory \subseteq Buckets
  BY ChainIsClosed DEF Buckets
<1>2. ASSUME NEW b \in Buckets
      PROVE  /\ Rest(memory, b) = Ids({memory[b].slot[2]})
             /\ Rest(memory', b) = Ids({memory[b].slot[2]})
             /\ Ids({memory[b].slot[2]}) \subseteq DOMAIN memory
             /\ Ids({memory[b].slot[2]}) \subseteq Buckets
             /\ Ids({memory[b].slot[2]}) \subseteq DOMAIN memory'
  <2>1. DOMAIN memory[b].slot = {1, 2}
    BY <1>1, Objects DEF TableOK, IsCell, SlotsOf, Linking
  <2>2. DOMAIN memory'[b].slot = {1, 2}
    <3>1. IsCell(memory'[b])
      BY DEF Cells, memory
    <3> QED
      BY <3>1 DEF IsCell, SlotsOf, Linking
  <2>3. Rest(memory, b) = Ids({memory[b].slot[2]}) /\ Rest(memory', b) = Ids({memory'[b].slot[2]})
    BY <2>1, <2>2, RestOfTwo
  <2>4. Ids({memory[b].slot[2]}) \subseteq DOMAIN memory
    BY IdsOf DEF TableOK, To
  <2>5. Ids({memory[b].slot[2]}) \subseteq Buckets
    BY <1>1, <2>3, <2>4
  <2> QED
    BY <2>3, <2>4, <2>5
<1>3. Ids({static["table"]}) \subseteq DOMAIN memory
  BY IdsOf DEF TableOK, To
<1>4. Chain(memory', w) = Buckets
  <2>1. Ids({static["table"]}) \intersect DOMAIN memory = Ids({w}) \intersect DOMAIN memory'
    BY <1>1, <1>3
  <2>2. \A b \in Chain(memory, static["table"]) :
            /\ b \in DOMAIN memory'
            /\ Rest(memory, b) \intersect DOMAIN memory = Rest(memory', b) \intersect DOMAIN memory'
    BY <1>2 DEF Buckets
  <2>3. Chain(memory', w) = Chain(memory, static["table"])
    BY <2>1, <2>2, ChainIsLocal
  <2> QED
    BY <2>3 DEF Buckets
<1>5. ASSUME NEW b \in Buckets
      PROVE  Chain(memory', memory'[b].slot[2]) = Chain(memory, memory[b].slot[2])
  <2>1. Chain(memory, memory[b].slot[2]) \subseteq Buckets
    BY <1>2, ChainGoesOn DEF Buckets
  <2>2. Ids({memory[b].slot[2]}) \intersect DOMAIN memory
          = Ids({memory'[b].slot[2]}) \intersect DOMAIN memory'
    BY <1>2
  <2>3. \A c \in Chain(memory, memory[b].slot[2]) :
            /\ c \in DOMAIN memory'
            /\ Rest(memory, c) \intersect DOMAIN memory = Rest(memory', c) \intersect DOMAIN memory'
    BY <1>2, <2>1
  <2> QED
    BY <2>2, <2>3, ChainIsLocal
<1> QED
  BY <1>4, <1>5

(* If the head of the chain does not change either, it has the same        *)
(* buckets.                                                                *)
LEMMA SameBuckets ==
  ASSUME Cells, Cells', TableOK,
         \A b \in Buckets : /\ b \in DOMAIN memory' /\ memory'[b].tag \in Linking
                            /\ Ids({memory'[b].slot[2]}) = Ids({memory[b].slot[2]}),
         Ids({static'["table"]}) = Ids({static["table"]})
  PROVE  /\ Buckets' = Buckets
         /\ \A b \in Buckets : Chain(memory', memory'[b].slot[2]) = Chain(memory, memory[b].slot[2])
<1>1. \A w : Ids({w}) = Ids({static["table"]}) =>
        /\ Chain(memory', w) = Buckets
        /\ \A b \in Buckets : Chain(memory', memory'[b].slot[2]) = Chain(memory, memory[b].slot[2])
  BY KeptChains
<1>2. Buckets' = Chain(memory', static'["table"])
  BY DEF Buckets
<1> QED
  BY <1>1, <1>2

-----------------------------------------------------------------------------
(* Steps of the program.                                                   *)

(* Memory changed or extended by one object.                               *)
LEMMA MemoryPatched ==
  ASSUME Cells, NEW o \in DOMAIN memory, NEW c, IsCell(c),
         nursery' = Patched(nursery, o, c), heap' = Patched(heap, o, c)
  PROVE  /\ DOMAIN nursery' = DOMAIN nursery /\ DOMAIN heap' = DOMAIN heap
         /\ \A x \in DOMAIN memory : memory'[x] = IF x = o THEN c ELSE memory[x]
         /\ Cells'
BY DEF Cells, Patched, memory

(* A new object in the nursery.                                            *)
LEMMA MemoryExtended ==
  ASSUME Cells, NEW o \in Free, NEW c, IsCell(c),
         nursery' = With(nursery, o, c), heap' = heap
  PROVE  /\ DOMAIN nursery' = DOMAIN nursery \union {o} /\ DOMAIN heap' = DOMAIN heap
         /\ o \notin DOMAIN memory
         /\ \A x \in DOMAIN memory' : memory'[x] = IF x = o THEN c ELSE memory[x]
         /\ Cells'
BY DEF Cells, With, memory, Free

(* A new object in the heap.                                               *)
LEMMA HeapExtended ==
  ASSUME Cells, NEW o \in Free, NEW c, IsCell(c),
         heap' = With(heap, o, c), nursery' = nursery
  PROVE  /\ DOMAIN heap' = DOMAIN heap \union {o} /\ DOMAIN nursery' = DOMAIN nursery
         /\ o \notin DOMAIN memory
         /\ \A x \in DOMAIN memory' : memory'[x] = IF x = o THEN c ELSE memory[x]
         /\ Cells'
BY DEF Cells, With, memory, Free

(* What every step of the program but add_symbol does to objects: they     *)
(* stay where they are and what they are, new ones are blocks or           *)
(* locatives, and only blocks and symbols get other contents.              *)
Steady ==
  /\ Cells'
  /\ DOMAIN nursery \subseteq DOMAIN nursery' /\ DOMAIN heap \subseteq DOMAIN heap'
  /\ \A o \in DOMAIN memory :
       /\ memory[o].tag = "symbol" => memory'[o].name = memory[o].name
       /\ \/ memory'[o].tag = memory[o].tag
          \/ o \in Buckets /\ memory[o].tag \in Linking /\ memory'[o].tag \in Linking
       /\ memory[o].tag \in Linking \union {"locative"} => memory'[o].slot = memory[o].slot
  /\ \A o \in DOMAIN memory' \ DOMAIN memory : memory'[o].tag \in {"block", "locative"}
  /\ static'["table"] = static["table"]

(* A step that changes no object.                                          *)
Same == UNCHANGED <<nursery, heap>> /\ static'["table"] = static["table"]

(* It is one of these.                                                     *)
LEMMA SameIsSteady == ASSUME Cells, Same PROVE Steady
BY DEF Same, Cells, Steady, memory

(* A pointer stays one.                                                    *)
LEMMA StayPointers ==
  ASSUME Cells, Cells', DOMAIN nursery \subseteq DOMAIN nursery', DOMAIN heap \subseteq DOMAIN heap'
  PROVE  \A o \in DOMAIN memory : o \in DOMAIN memory' /\ Pointer(o)' = Pointer(o)
BY DEF Cells, memory, Pointer

(* A pointer stays one to an object of its kind.                           *)
LEMMA SteadyPointers ==
  ASSUME Cells, Steady, NEW v, NEW tags \in {Plain, Linking, {"symbol"}, {"locative"}, {"block"}},
         To(v, tags)
  PROVE  To(v, tags)'
<1>1. CASE v = Nil
  BY <1>1 DEF To
<1>2. CASE v # Nil
  <2>1. v \in Value /\ v[2] \in DOMAIN memory /\ v = Pointer(v[2]) /\ memory[v[2]].tag \in tags
    BY <1>2 DEF To
  <2>2. v[2] \in DOMAIN memory' /\ Pointer(v[2])' = Pointer(v[2])
    BY <2>1, StayPointers DEF Steady
  <2>3. memory'[v[2]].tag \in tags
    BY <2>1 DEF Steady, Plain, Linking
  <2> QED
    BY <2>1, <2>2, <2>3 DEF To
<1> QED
  BY <1>1, <1>2

(* The symbol table is what it was.                                        *)
LEMMA SteadyTable ==
  ASSUME Cells, TableInv, Steady
  PROVE  TableInv' /\ Buckets' = Buckets
<1>0. /\ TableOK /\ PairsIn /\ Acyclic /\ Listed /\ Distinct /\ Cells'
      /\ Buckets \subseteq DOMAIN memory
  BY ChainIsClosed DEF TableInv, Buckets, Steady
<1>1. \A o \in DOMAIN memory : o \in DOMAIN memory' /\ Pointer(o)' = Pointer(o)
  BY StayPointers DEF Steady
<1>2. ASSUME NEW b \in Buckets
      PROVE  /\ b \in DOMAIN memory' /\ memory[b].tag \in Linking /\ memory'[b].tag \in Linking
             /\ memory'[b].slot = memory[b].slot
  BY <1>0, <1>1 DEF Steady, TableOK
<1>3. static'["table"] = static["table"]
  BY DEF Steady
<1>4. /\ Buckets' = Buckets
      /\ \A b \in Buckets : Chain(memory', memory'[b].slot[2]) = Chain(memory, memory[b].slot[2])
  BY <1>0, <1>2, <1>3, SameBuckets
<1>5. TableOK'
  <2>1. To(static["table"], Linking)'
    BY <1>0, <1>3, SteadyPointers DEF TableOK
  <2>2. ASSUME NEW b \in Buckets
        PROVE  /\ memory'[b].tag \in Linking
               /\ memory'[b].slot[1] # Nil /\ To(memory[b].slot[1], {"symbol"})'
               /\ To(memory[b].slot[2], Linking)'
    BY <1>0, <1>2, <2>2, SteadyPointers DEF TableOK
  <2> QED
    BY <1>2, <1>3, <1>4, <2>1, <2>2 DEF TableOK
<1>6. PairsIn'
  <2> SUFFICES ASSUME NEW o \in DOMAIN memory',
                      memory'[o].tag = "pair" \/ (memory'[o].tag = "weak" /\ o \in DOMAIN nursery')
               PROVE  o \in Buckets
    BY <1>4 DEF PairsIn
  <2>1. o \in DOMAIN memory
    BY DEF Steady
  <2>2. o \in DOMAIN nursery' => o \in DOMAIN nursery
    BY <2>1, MemoryIs DEF Steady, Cells
  <2>3. memory'[o].tag = memory[o].tag \/ o \in Buckets
    BY <2>1 DEF Steady
  <2> QED
    BY <1>0, <2>1, <2>2, <2>3 DEF PairsIn
<1>7. Acyclic'
  BY <1>0, <1>4 DEF Acyclic
<1>8. \A b \in Buckets : SymbolOf(b)' = SymbolOf(b)
  BY <1>2 DEF SymbolOf
<1>9. Listed'
  BY <1>0, <1>4, <1>8 DEF Listed, Steady, Linking
<1>10. \A b \in Buckets : memory'[SymbolOf(b)].name = memory[SymbolOf(b)].name
  BY <1>0 DEF TableOK, To, SymbolOf, Steady
<1>11. Distinct'
  BY <1>0, <1>4, <1>8, <1>10 DEF Distinct
<1> QED
  BY <1>4, <1>5, <1>6, <1>7, <1>9, <1>11 DEF TableInv

(* What the program holds.                                                 *)
LEMMA HeldPointers ==
  ASSUME Types, HeldOK
  PROVE  /\ \A v \in Held : v \in Value /\ To(v, Plain)
         /\ \A v \in Held \ {Nil} : /\ v[2] \in DOMAIN memory /\ v = Pointer(v[2]) /\ Valid(v)
                                    /\ At(v) = memory[v[2]] /\ memory[v[2]].tag \in Plain
                                    /\ IsYoung(v) <=> v[2] \in DOMAIN nursery
<1>1. ASSUME NEW v \in Held PROVE v \in Value /\ To(v, Plain)
  <2>1. CASE v = Nil
    BY <2>1 DEF To, Value
  <2>2. CASE v # Nil
    <3>1. DOMAIN reg = Reg
      BY DEF Types, Entered
    <3>2. PICK r \in Reg : v = reg[r]
      BY <2>2, <3>1 DEF Held, Range
    <3> QED
      BY <3>2 DEF HeldOK, Types, Entered
  <2> QED
    BY <2>1, <2>2
<1>2. ASSUME NEW v \in Held, v # Nil
      PROVE  /\ v[2] \in DOMAIN memory /\ v = Pointer(v[2]) /\ Valid(v)
             /\ At(v) = memory[v[2]] /\ memory[v[2]].tag \in Plain
             /\ IsYoung(v) <=> v[2] \in DOMAIN nursery
  BY <1>1, <1>2, Pointers DEF Types
<1> QED
  BY <1>1, <1>2

(* What the program holds is of the kind it has looked for.                *)
LEMMA HeldOfKind ==
  ASSUME Types, HeldOK, NEW tags \in SUBSET Plain, NEW p \in HeldOf(tags)
  PROVE  /\ p \in Held /\ p # Nil /\ p \in Value /\ p[2] \in DOMAIN memory /\ p[2] \in Obj
         /\ p = Pointer(p[2]) /\ At(p) = memory[p[2]] /\ memory[p[2]].tag \in tags
         /\ IsYoung(p) <=> p[2] \in DOMAIN nursery
         /\ IsCell(memory[p[2]]) /\ To(p, tags) /\ To(p, Plain)
<1>1. p \in Held /\ p # Nil /\ At(p).tag \in tags
  BY DEF HeldOf
<1> QED
  BY <1>1, HeldPointers, Objects DEF To, Types

(* A new name makes the nursery, or the heap, larger by one.               *)
LEMMA OneMore ==
  ASSUME NEW S \in SUBSET Obj, NEW o, o \notin S
  PROVE  /\ IsFiniteSet(S) /\ Cardinality(S) \in Nat
         /\ Cardinality(S \union {o}) = Cardinality(S) + 1
BY HeapAssumption, FS_Subset, FS_AddElement, FS_CardinalityType

-----------------------------------------------------------------------------
(* The same of the memory after a step.                                    *)
ToNext(v, tags) ==
  \/ v = Nil
  \/ /\ v \in Value /\ v[2] \in DOMAIN memory' /\ memory'[v[2]].tag \in tags
     /\ v = IF v[2] \in DOMAIN nursery' THEN Young(v[2]) ELSE Old(v[2])

(* It is the same.                                                         *)
LEMMA NextPointers ==
  /\ \A r : To(reg[r], Plain)' <=> ToNext(reg'[r], Plain)
  /\ \A s : To(static[s], Plain)' <=> ToNext(static'[s], Plain)
  /\ \A i : To(pending[i], Plain)' <=> ToNext(pending'[i], Plain)
  /\ \A o, i : To(memory[o].slot[i], Plain)' <=> ToNext(memory'[o].slot[i], Plain)
BY DEF To, ToNext, Pointer

(* In a steady step a pointer stays one.                                   *)
LEMMA SteadyNext ==
  ASSUME Cells, Steady
  PROVE  \A v, tags : tags \in {Plain, {"locative"}} /\ To(v, tags) => ToNext(v, tags)
<1> SUFFICES ASSUME NEW v, NEW tags, tags \in {Plain, {"locative"}}, To(v, tags)
             PROVE  ToNext(v, tags)
  OBVIOUS
<1>1. CASE v = Nil
  BY <1>1 DEF ToNext
<1>2. CASE v # Nil
  <2>1. v \in Value /\ v[2] \in DOMAIN memory /\ v = Pointer(v[2]) /\ memory[v[2]].tag \in tags
    BY <1>2 DEF To
  <2>2. v[2] \in DOMAIN memory' /\ Pointer(v[2])' = Pointer(v[2])
    BY <2>1, StayPointers DEF Steady
  <2>3. memory'[v[2]].tag \in tags
    BY <2>1 DEF Steady, Plain, Linking
  <2> QED
    BY <2>1, <2>2, <2>3 DEF ToNext, Pointer
<1> QED
  BY <1>1, <1>2

-----------------------------------------------------------------------------
(* The rest of the invariant in a steady step.                             *)
LEMMA SteadyHeld ==
  ASSUME Types, HeldOK, Steady,
         \A r \in Reg : reg'[r] = reg[r] \/ ToNext(reg'[r], Plain),
         \A s \in Static \ {"table"} : static'[s] = static[s] \/ ToNext(static'[s], Plain),
         pending' = pending \/ pending' = <<>>
  PROVE  HeldOK'
<1>0. /\ \A r \in Reg : To(reg[r], Plain)
      /\ \A s \in Static \ {"table"} : To(static[s], Plain)
      /\ \A i \in 1 .. Len(pending) :
           pending[i] # Nil /\ To(pending[i], Plain) /\ ~IsYoung(pending[i])
      /\ Cells /\ Plain \in {Plain, {"locative"}}
  BY DEF HeldOK, Types
<1>1. \A r \in Reg : ToNext(reg'[r], Plain)
  BY <1>0, SteadyNext
<1>2. \A s \in Static \ {"table"} : ToNext(static'[s], Plain)
  BY <1>0, SteadyNext
<1>3. \A i \in 1 .. Len(pending') :
           pending'[i] # Nil /\ ToNext(pending'[i], Plain) /\ ~IsYoung(pending'[i])
  <2>1. CASE pending' = pending
    BY <1>0, <2>1, SteadyNext
  <2>2. CASE pending' = <<>>
    BY <2>2
  <2> QED
    BY <2>1, <2>2
<1> QED
  BY <1>1, <1>2, <1>3, NextPointers DEF HeldOK

(* The contents of objects stay what they were, if those of the changed    *)
(* ones are good.                                                          *)
LEMMA SteadyContents ==
  ASSUME Cells, ContentsOK, Steady,
         \A o \in DOMAIN memory' : memory'[o].tag \in Plain =>
            \/ o \in DOMAIN memory /\ memory'[o].slot = memory[o].slot
            \/ \A i \in DOMAIN memory'[o].slot : ToNext(memory'[o].slot[i], Plain)
  PROVE  ContentsOK'
<1>1. ASSUME NEW o \in DOMAIN memory', memory'[o].tag \in Plain,
             NEW i \in DOMAIN memory'[o].slot,
             o \in DOMAIN memory, memory'[o].slot = memory[o].slot
      PROVE  ToNext(memory'[o].slot[i], Plain)
  <2>1. memory[o].tag \in Plain
    BY <1>1 DEF Steady, Plain, Linking
  <2>2. To(memory[o].slot[i], Plain)
    BY <1>1, <2>1 DEF ContentsOK
  <2> QED
    BY <1>1, <2>2, SteadyNext
<1>2. \A o \in DOMAIN memory' : memory'[o].tag \in Plain =>
        \A i \in DOMAIN memory'[o].slot : ToNext(memory'[o].slot[i], Plain)
  BY <1>1
<1> QED
  BY <1>2, NextPointers DEF ContentsOK

(* The locative table stays complete if new locatives enter it.            *)
LEMMA SteadyLocatives ==
  ASSUME Types, LocativesOK, Steady, locatives \subseteq locatives',
         \A l \in locatives' \ locatives :
            l # Nil /\ ToNext(l, {"locative"}) /\ memory'[l[2]].slot[1] # Nil,
         \A o \in DOMAIN memory' \ DOMAIN memory :
            memory'[o].tag = "locative" => Pointer(o)' \in locatives'
  PROVE  LocativesOK'
<1>0. Cells
  BY DEF Types
<1>1. ASSUME NEW l \in locatives'
      PROVE  l # Nil /\ ToNext(l, {"locative"}) /\ memory'[l[2]].slot[1] # Nil
  <2>1. CASE l \in locatives
    <3>1. l # Nil /\ To(l, {"locative"}) /\ memory[l[2]].slot[1] # Nil
      BY <2>1 DEF LocativesOK
    <3>2. l[2] \in DOMAIN memory /\ memory[l[2]].tag = "locative"
      BY <3>1 DEF To
    <3> QED
      BY <1>0, <3>1, <3>2, SteadyNext DEF Steady
  <2> QED
    BY <2>1
<1>2. ASSUME NEW o \in DOMAIN memory', memory'[o].tag = "locative", memory'[o].slot[1] # Nil
      PROVE  Pointer(o)' \in locatives'
  <2>1. CASE o \in DOMAIN memory
    <3>1. memory[o].tag = "locative" /\ memory[o].slot[1] # Nil
      BY <1>2, <2>1 DEF Steady, Linking
    <3>2. Pointer(o) \in locatives /\ Pointer(o)' = Pointer(o)
      BY <1>0, <2>1, <3>1, StayPointers DEF LocativesOK, Steady
    <3> QED
      BY <3>2
  <2> QED
    BY <1>2, <2>1
<1>3. \A l : To(l, {"locative"})' <=> ToNext(l, {"locative"})
  BY DEF To, ToNext, Pointer
<1> QED
  BY <1>1, <1>2, <1>3 DEF LocativesOK

(* Slots that a minor collection of the mutated ones must look at.         *)
LEMMA TracedIs ==
  ASSUME NEW c, IsCell(c)
  PROVE  /\ c.tag = "locative" => TracedSlots(c, TRUE) = {2} /\ TracedSlots(c, FALSE) = {2}
         /\ c.tag = "weak" => TracedSlots(c, TRUE) = {1, 2} /\ TracedSlots(c, FALSE) = {2}
         /\ c.tag = "pair" => TracedSlots(c, TRUE) = {1, 2} /\ TracedSlots(c, FALSE) = {1, 2}
         /\ c.tag \in {"block", "symbol"} => TracedSlots(c, TRUE) = {1} /\ TracedSlots(c, FALSE) = {1}
         /\ c.tag \in CellTags /\ DOMAIN c.slot = SlotsOf(c.tag)
         /\ \A i \in DOMAIN c.slot : c.slot[i] \in Value
BY DEF IsCell, SlotsOf, TracedSlots, CellTags

(* The mutation stack stays complete if the changed slots enter it.        *)
LEMMA SteadyTracked ==
  ASSUME Types, TableInv, MutationsTracked, Steady, mutations \subseteq mutations',
         \A s \in Static : \/ static'[s] = static[s] \/ ~IsYoung(static'[s])
                           \/ <<"static", s>> \in mutations',
         \A o \in DOMAIN heap' : \A i \in TracedSlots(heap'[o], TRUE) :
            \/ o \in DOMAIN heap /\ heap'[o].slot = heap[o].slot
            \/ ~IsYoung(heap'[o].slot[i])
            \/ <<"old", o, i>> \in mutations'
  PROVE  MutationsTracked'
<1>1. Buckets' = Buckets /\ Cells /\ Cells'
  BY SteadyTable DEF Types, Steady
<1>2. ASSUME NEW o \in DOMAIN heap', NEW i \in TracedSlots(heap'[o], TRUE),
             heap'[o].tag = "weak" => o \in Buckets,
             IsYoung(heap'[o].slot[i]), o \in DOMAIN heap, heap'[o].slot = heap[o].slot
      PROVE  <<"old", o, i>> \in mutations
  <2>1. /\ o \in DOMAIN memory /\ memory[o] = heap[o] /\ o \in DOMAIN memory' /\ memory'[o] = heap'[o]
        /\ IsCell(heap[o]) /\ IsCell(heap'[o])
    BY <1>1, <1>2 DEF Cells, memory
  <2>2. \/ heap'[o].tag = heap[o].tag
        \/ o \in Buckets /\ heap[o].tag \in Linking /\ heap'[o].tag \in Linking
    BY <2>1 DEF Steady
  <2>3. TracedSlots(heap'[o], TRUE) = TracedSlots(heap[o], TRUE)
    <3>1. CASE heap'[o].tag = heap[o].tag
      BY <2>1, <3>1, TracedIs DEF CellTags
    <3>2. CASE heap[o].tag \in Linking /\ heap'[o].tag \in Linking
      BY <2>1, <3>2, TracedIs DEF Linking
    <3> QED
      BY <2>2, <3>1, <3>2
  <2> QED
    BY <1>2, <2>2, <2>3 DEF MutationsTracked
<1>3. \A s \in Static : IsYoung(static'[s]) => <<"static", s>> \in mutations'
  BY DEF MutationsTracked
<1> QED
  BY <1>1, <1>2, <1>3 DEF MutationsTracked

(* A step that moves pointers about outside of the memory.                 *)
LEMMA SameStep ==
  ASSUME HInv, UNCHANGED <<nursery, heap, half, locatives>>, Entered', Queued',
         static'["table"] = static["table"], mutations \subseteq mutations',
         pending' = pending \/ pending' = <<>>,
         \A r \in Reg : reg'[r] = reg[r] \/ To(reg'[r], Plain),
         \A s \in Static \ {"table"} :
           \/ static'[s] = static[s]
           \/ To(static'[s], Plain) /\ (IsYoung(static'[s]) => <<"static", s>> \in mutations')
  PROVE  HInv'
<1>0. /\ Types /\ HeldOK /\ ContentsOK /\ TableInv /\ LocativesOK /\ MutationsTracked /\ Cells
  BY DEF HInv, Types
<1>1. Steady
  BY <1>0, SameIsSteady DEF Same
<1>2. memory' = memory
  BY DEF memory
<1>3. \A v : To(v, Plain) => ToNext(v, Plain)
  BY <1>0, <1>1, SteadyNext
<1>4. Types'
  BY <1>0 DEF Types, Cells, Room
<1>5. HeldOK'
  BY <1>0, <1>1, <1>3, SteadyHeld
<1>6. ContentsOK'
  BY <1>0, <1>1, <1>2, SteadyContents
<1>7. TableInv'
  BY <1>0, <1>1, SteadyTable
<1>8. LocativesOK'
  BY <1>0, <1>1, <1>2, SteadyLocatives
<1>9. MutationsTracked'
  <2>1. \A s \in Static : \/ static'[s] = static[s] \/ ~IsYoung(static'[s])
                          \/ <<"static", s>> \in mutations'
    OBVIOUS
  <2>2. \A o \in DOMAIN heap' : \A i \in TracedSlots(heap'[o], TRUE) :
           o \in DOMAIN heap /\ heap'[o].slot = heap[o].slot
    OBVIOUS
  <2> QED
    BY <1>0, <1>1, <2>1, <2>2, SteadyTracked
<1> QED
  BY <1>4, <1>5, <1>6, <1>7, <1>8, <1>9 DEF HInv

(* The closure takes a value.                                              *)
LEMMA HoldTyped ==
  ASSUME Entered, NEW r \in Reg, NEW v \in Value, Hold(r, v),
         UNCHANGED <<static, mutations, locatives>>
  PROVE  Entered' /\ \A x \in Reg : reg'[x] = reg[x] \/ reg'[x] = v
BY DEF Entered, Hold

(* The closure takes a value out of an object.                             *)
LEMMA FetchStep ==
  ASSUME HInv, NEW r \in Reg, Fetch(r)
  PROVE  HInv'
<1>0. Types /\ HeldOK /\ ContentsOK /\ Cells /\ Entered /\ Queued
  BY DEF HInv, Types
<1>1. PICK v \in {Nil} \union {static[s] : s \in Global \union FinRoot}
           \union {At(p).slot[1] : p \in Held \ {Nil}} : Hold(r, v)
  BY DEF Fetch
<1>2. To(v, Plain) /\ v \in Value
  <2>1. CASE v = Nil
    BY <2>1 DEF To, Value
  <2>2. ASSUME NEW s \in Global \union FinRoot, v = static[s] PROVE To(v, Plain) /\ v \in Value
    BY <1>0, <2>2, HeapAssumption DEF HeldOK, Static, Entered
  <2>3. ASSUME NEW p \in Held \ {Nil}, v = At(p).slot[1] PROVE To(v, Plain) /\ v \in Value
    <3>1. p[2] \in DOMAIN memory /\ At(p) = memory[p[2]] /\ memory[p[2]].tag \in Plain
      BY <1>0, HeldPointers
    <3>2. IsCell(memory[p[2]]) /\ 1 \in DOMAIN memory[p[2]].slot
      BY <1>0, <3>1, Objects DEF IsCell, SlotsOf
    <3> QED
      BY <1>0, <2>3, <3>1, <3>2, TracedIs DEF ContentsOK
  <2> QED
    BY <2>1, <2>2, <2>3
<1>3. UNCHANGED <<nursery, heap, half, static, mutations, locatives, pending, running>>
  BY DEF Fetch
<1>4. Entered' /\ \A x \in Reg : reg'[x] = reg[x] \/ reg'[x] = v
  BY <1>0, <1>1, <1>2, <1>3, HoldTyped
<1>5. Queued'
  BY <1>0, <1>3 DEF Queued
<1> QED
  BY <1>2, <1>3, <1>4, <1>5, SameStep

(* A name that is in the table is looked up.                               *)
LEMMA FindSymbolStep ==
  ASSUME HInv, NEW r \in Reg, NEW n \in Name, FindSymbol(r, n)
  PROVE  HInv'
<1>0. Types /\ TableOK /\ Cells /\ Entered /\ Queued
  BY DEF HInv, Types, TableInv
<1>1. PICK b \in Buckets : Hold(r, memory[b].slot[1])
  BY DEF FindSymbol, Lookup
<1> DEFINE v == memory[b].slot[1]
<1>2. To(v, Plain) /\ v \in Value
  BY <1>0 DEF TableOK, To, Plain
<1>3. UNCHANGED <<nursery, heap, half, static, mutations, locatives, pending, running>>
  BY DEF FindSymbol
<1> HIDE DEF v
<1>4. Entered' /\ \A x \in Reg : reg'[x] = reg[x] \/ reg'[x] = v
  BY <1>0, <1>1, <1>2, <1>3, HoldTyped DEF v
<1>5. Queued'
  BY <1>0, <1>3 DEF Queued
<1> QED
  BY <1>2, <1>3, <1>4, <1>5, SameStep

(* The next finalizer gets its object.                                     *)
LEMMA CallFinalizerStep ==
  ASSUME HInv, NEW r \in Reg, CallFinalizer(r)
  PROVE  HInv'
<1>0. Types /\ HeldOK /\ Cells /\ Entered /\ Queued
  BY DEF HInv, Types
<1>1. UNCHANGED <<nursery, heap, half, static, mutations, locatives, pending>>
  BY DEF CallFinalizer
<1>2. running < Len(pending) /\ running' = running + 1 /\ Hold(r, pending[running + 1])
  BY DEF CallFinalizer
<1>3. Len(pending) \in Nat /\ running \in Nat /\ running + 1 \in 1 .. Len(pending)
  BY <1>0, <1>2 DEF Queued
<1>4. pending[running + 1] \in Value /\ To(pending[running + 1], Plain)
  BY <1>0, <1>3 DEF HeldOK, Queued
<1>5. Entered' /\ \A x \in Reg : reg'[x] = reg[x] \/ reg'[x] = pending[running + 1]
  BY <1>0, <1>1, <1>2, <1>4, HoldTyped
<1>6. Queued'
  BY <1>0, <1>1, <1>2, <1>3 DEF Queued
<1> QED
  BY <1>1, <1>4, <1>5, <1>6, SameStep

(* The vector of pending finalizers is cleared.                            *)
LEMMA ClearPendingStep ==
  ASSUME HInv, ClearPending
  PROVE  HInv'
<1>0. Types /\ HeldOK /\ Cells /\ Entered /\ Queued
  BY DEF HInv, Types
<1>1. UNCHANGED <<nursery, heap, half, reg, static, mutations, locatives>>
  BY DEF ClearPending
<1>2. pending' = <<>> /\ running' = 0
  BY DEF ClearPending
<1>3. Entered'
  BY <1>0, <1>1 DEF Entered
<1>4. Queued'
  BY <1>2, HeapAssumption DEF Queued
<1> QED
  BY <1>1, <1>2, <1>3, <1>4, SameStep

(* A pointer stored in a static slot.                                      *)
LEMMA StaticStep ==
  ASSUME HInv, NEW s \in Static \ {"table"}, NEW v \in Held,
         static' = [static EXCEPT ![s] = v], mutations' = mutations \union Remember(s, v),
         UNCHANGED <<nursery, heap, half, reg, locatives, pending, running>>
  PROVE  HInv'
<1>0. Types /\ HeldOK /\ Cells /\ Entered /\ Queued
  BY DEF HInv, Types
<1>1. v \in Value /\ To(v, Plain)
  BY <1>0, HeldPointers
<1>2. Entered'
  BY <1>0, <1>1 DEF Entered, Remember
<1>3. Queued'
  BY <1>0 DEF Queued
<1>4. static'["table"] = static["table"]
  BY <1>0 DEF Entered
<1>5. \A x \in Static \ {"table"} :
           \/ static'[x] = static[x]
           \/ To(static'[x], Plain) /\ (IsYoung(static'[x]) => <<"static", x>> \in mutations')
  BY <1>0, <1>1 DEF Entered, Remember
<1> QED
  BY <1>2, <1>3, <1>4, <1>5, SameStep

(* A variable or a GC root is set.                                         *)
LEMMA StoreStaticStep ==
  ASSUME HInv, NEW s \in Global \union FinRoot, NEW v \in Held, StoreStatic(s, v)
  PROVE  HInv'
BY HeapAssumption, StaticStep DEF StoreStatic, Static

(* A finalizer is registered.                                              *)
LEMMA RegisterFinalizerStep ==
  ASSUME HInv, NEW f \in FinNode, NEW p \in Held, RegisterFinalizer(p, f)
  PROVE  HInv'
BY HeapAssumption, StaticStep DEF RegisterFinalizer, Static

(* A step that makes a block or a locative in the nursery.                 *)
LEMMA NewObjectStep ==
  ASSUME HInv, NEW r \in Reg, NEW o \in Free, NEW c, IsCell(c), c.tag \in {"block", "locative"},
         \A i \in DOMAIN c.slot : To(c.slot[i], Plain),
         NurseryRoom(1), nursery' = With(nursery, o, c), Hold(r, Young(o)),
         locatives' = locatives \/ (c.tag = "locative" /\ locatives' = locatives \union {Young(o)}),
         c.tag = "locative" => Young(o) \in locatives' /\ c.slot[1] # Nil,
         UNCHANGED <<heap, half, static, mutations, pending, running>>
  PROVE  HInv'
<1>0. /\ Types /\ HeldOK /\ ContentsOK /\ TableInv /\ LocativesOK /\ MutationsTracked
      /\ Cells /\ Room /\ Entered /\ Queued
  BY DEF HInv, Types
<1>1. /\ DOMAIN nursery' = DOMAIN nursery \union {o} /\ DOMAIN heap' = DOMAIN heap
      /\ o \notin DOMAIN memory
      /\ \A x \in DOMAIN memory' : memory'[x] = IF x = o THEN c ELSE memory[x]
      /\ Cells'
  BY <1>0, MemoryExtended
<1>2. DOMAIN memory' = DOMAIN memory \union {o}
  BY <1>1 DEF memory
<1>3. Steady
  BY <1>1, <1>2 DEF Steady
<1>4. o \in Obj /\ Young(o) \in Value
  BY DEF Free, Value, Young
<1>5. ToNext(Young(o), Plain) /\ (c.tag = "locative" => ToNext(Young(o), {"locative"}))
  BY <1>1, <1>2, <1>4 DEF ToNext, Young, Plain
<1>6. Types'
  <2>1. Room'
    <3>1. Cardinality(DOMAIN nursery) + 1 <= NurserySize
      BY DEF NurseryRoom
    <3>2. Cardinality(DOMAIN nursery') = Cardinality(DOMAIN nursery) + 1
      <4>1. DOMAIN nursery \in SUBSET Obj /\ o \notin DOMAIN nursery
        BY <1>0, <1>1, MemoryIs DEF Cells
      <4> QED
        BY <1>1, <4>1, OneMore
    <3> QED
      BY <1>0, <3>1, <3>2 DEF Room
  <2>2. Entered'
    BY <1>0, <1>4 DEF Entered, Hold
  <2>3. Queued'
    BY <1>0 DEF Queued
  <2> QED
    BY <1>1, <2>1, <2>2, <2>3 DEF Types
<1>7. HeldOK'
  <2>1. \A x \in Reg : reg'[x] = reg[x] \/ ToNext(reg'[x], Plain)
    BY <1>0, <1>5 DEF Hold, Entered
  <2> QED
    BY <1>0, <1>3, <2>1, SteadyHeld
<1>8. ContentsOK'
  <2>1. \A i \in DOMAIN c.slot : ToNext(c.slot[i], Plain)
    BY <1>0, <1>3, SteadyNext
  <2>2. \A x \in DOMAIN memory' :
            \/ x \in DOMAIN memory /\ memory'[x].slot = memory[x].slot
            \/ \A i \in DOMAIN memory'[x].slot : ToNext(memory'[x].slot[i], Plain)
    BY <1>1, <1>2, <2>1
  <2> QED
    BY <1>0, <1>3, <2>2, SteadyContents
<1>9. TableInv'
  BY <1>0, <1>3, SteadyTable
<1>10. LocativesOK'
  <2>1. Young(o)[2] = o /\ Young(o) # Nil
    BY <1>4, HeapAssumption DEF Young
  <2>2. \A l \in locatives' \ locatives :
            l # Nil /\ ToNext(l, {"locative"}) /\ memory'[l[2]].slot[1] # Nil
    BY <1>1, <1>2, <1>5, <2>1
  <2>3. \A x \in DOMAIN memory' \ DOMAIN memory :
            memory'[x].tag = "locative" => Pointer(x)' \in locatives'
    BY <1>1, <1>2 DEF Pointer
  <2> QED
    BY <1>0, <1>3, <2>2, <2>3, SteadyLocatives
<1>11. MutationsTracked'
  <2>1. \A s \in Static : \/ static'[s] = static[s] \/ ~IsYoung(static'[s])
                          \/ <<"static", s>> \in mutations'
    OBVIOUS
  <2>2. \A x \in DOMAIN heap' : \A i \in TracedSlots(heap'[x], TRUE) :
           x \in DOMAIN heap /\ heap'[x].slot = heap[x].slot
    OBVIOUS
  <2> QED
    BY <1>0, <1>3, <2>1, <2>2, SteadyTracked
<1> QED
  BY <1>6, <1>7, <1>8, <1>9, <1>10, <1>11 DEF HInv

(* A block is made.                                                        *)
LEMMA AllocateStep ==
  ASSUME HInv, NEW r \in Reg, NEW v \in Held, Allocate(r, v)
  PROVE  HInv'
<1>1. v \in Value /\ To(v, Plain)
  BY HeldPointers DEF HInv
<1>2. PICK o \in Free : nursery' = With(nursery, o, Block(v)) /\ Hold(r, Young(o))
  BY DEF Allocate
<1>3. IsCell(Block(v)) /\ Block(v).tag = "block" /\ Block(v).slot = [i \in {1} |-> v]
  BY <1>1, CellKinds
<1>4. /\ NurseryRoom(1) /\ locatives' = locatives
      /\ UNCHANGED <<heap, half, static, mutations, pending, running>>
  BY DEF Allocate
<1>5. \A i \in DOMAIN Block(v).slot : To(Block(v).slot[i], Plain)
  BY <1>1, <1>3
<1> QED
  BY <1>2, <1>3, <1>4, <1>5, NewObjectStep

(* A locative is made and entered in the table.                            *)
LEMMA MakeLocativeStep ==
  ASSUME HInv, NEW r \in Reg, NEW p \in Held, NEW weak \in BOOLEAN, MakeLocative(r, p, weak)
  PROVE  HInv'
<1> DEFINE ob == IF weak THEN Nil ELSE p
<1>1. p \in HeldOf({"block"}) /\ {"block"} \in SUBSET Plain
  BY DEF MakeLocative, Plain
<1>2. p \in Value /\ To(p, Plain) /\ p # Nil
  BY <1>1, HeldOfKind DEF HInv
<1>3. ob \in Value /\ To(ob, Plain)
  BY <1>2 DEF To, Value
<1>4. PICK o \in Free : /\ nursery' = With(nursery, o, Locative(p, ob))
                        /\ locatives' = locatives \union {Young(o)} /\ Hold(r, Young(o))
  BY DEF MakeLocative
<1>5. /\ IsCell(Locative(p, ob)) /\ Locative(p, ob).tag = "locative"
      /\ Locative(p, ob).slot = [i \in {1, 2} |-> IF i = 1 THEN p ELSE ob]
  <2> HIDE DEF ob
  <2> QED
    BY <1>2, <1>3, CellKinds
<1>6. /\ NurseryRoom(1)
      /\ UNCHANGED <<heap, half, static, mutations, pending, running>>
  BY DEF MakeLocative
<1> HIDE DEF ob
<1>7. \A i \in DOMAIN Locative(p, ob).slot : To(Locative(p, ob).slot[i], Plain)
  BY <1>2, <1>3, <1>5
<1>8. Locative(p, ob).slot[1] # Nil /\ Young(o) \in locatives'
  BY <1>2, <1>4, <1>5
<1> QED
  BY <1>4, <1>5, <1>6, <1>7, <1>8, NewObjectStep

(* A large vector is made in the heap while the nursery is empty.          *)
LEMMA LargeVectorStep ==
  ASSUME HInv, NEW r \in Reg, NEW v \in Held, LargeVector(r, v)
  PROVE  HInv'
<1>0. /\ Types /\ HeldOK /\ ContentsOK /\ TableInv /\ LocativesOK /\ MutationsTracked
      /\ Cells /\ Room /\ Entered /\ Queued
  BY DEF HInv, Types
<1>p. PICK o \in Free : heap' = With(heap, o, Block(v)) /\ Hold(r, Old(o))
  BY DEF LargeVector
<1>u. /\ nursery = Empty /\ Cardinality(DOMAIN heap) < half
      /\ UNCHANGED <<nursery, half, static, mutations, locatives, pending, running>>
  BY DEF LargeVector
<1>v. v \in Value /\ To(v, Plain) /\ ~IsYoung(v)
  <2>1. DOMAIN nursery = {}
    BY <1>u DEF Empty
  <2> QED
    BY <1>0, <2>1, HeldPointers DEF IsYoung
<1>c. /\ IsCell(Block(v)) /\ Block(v).tag = "block" /\ Block(v).slot = [i \in {1} |-> v]
  BY <1>v, CellKinds
<1>1. /\ DOMAIN heap' = DOMAIN heap \union {o} /\ DOMAIN nursery' = DOMAIN nursery
      /\ o \notin DOMAIN memory
      /\ \A x \in DOMAIN memory' : memory'[x] = IF x = o THEN Block(v) ELSE memory[x]
      /\ Cells'
  BY <1>0, <1>p, <1>u, <1>c, HeapExtended
<1>2. DOMAIN memory' = DOMAIN memory \union {o}
  BY <1>1 DEF memory
<1>3. Steady
  BY <1>1, <1>2, <1>c, <1>u DEF Steady
<1>4. o \in Obj /\ Old(o) \in Value /\ DOMAIN nursery' = {}
  BY <1>u DEF Free, Value, Old, Empty
<1>5. ToNext(Old(o), Plain)
  BY <1>1, <1>2, <1>4, <1>c DEF ToNext, Old, Plain
<1>6. Types'
  <2>1. Room'
    <3>1. Cardinality(DOMAIN heap') = Cardinality(DOMAIN heap) + 1 /\ Cardinality(DOMAIN heap) \in Nat
      <4>1. DOMAIN heap \in SUBSET Obj /\ o \notin DOMAIN heap
        BY <1>0, <1>1, MemoryIs DEF Cells
      <4> QED
        BY <1>1, <4>1, OneMore
    <3>2. half \in Nat
      BY <1>0, HeapAssumption DEF Room
    <3> QED
      BY <1>0, <1>u, <3>1, <3>2 DEF Room
  <2>2. Entered'
    BY <1>0, <1>p, <1>u, <1>4 DEF Entered, Hold
  <2>3. Queued'
    BY <1>0, <1>u DEF Queued
  <2> QED
    BY <1>1, <2>1, <2>2, <2>3 DEF Types
<1>7. HeldOK'
  <2>1. \A x \in Reg : reg'[x] = reg[x] \/ ToNext(reg'[x], Plain)
    BY <1>0, <1>p, <1>5 DEF Hold, Entered
  <2> QED
    BY <1>0, <1>3, <1>u, <2>1, SteadyHeld
<1>8. ContentsOK'
  <2>1. ToNext(v, Plain)
    BY <1>0, <1>3, <1>v, SteadyNext
  <2>2. \A x \in DOMAIN memory' :
            \/ x \in DOMAIN memory /\ memory'[x].slot = memory[x].slot
            \/ \A i \in DOMAIN memory'[x].slot : ToNext(memory'[x].slot[i], Plain)
    BY <1>1, <1>2, <1>c, <2>1
  <2> QED
    BY <1>0, <1>3, <2>2, SteadyContents
<1>9. TableInv'
  BY <1>0, <1>3, SteadyTable
<1>10. LocativesOK'
  BY <1>0, <1>1, <1>2, <1>3, <1>c, <1>u, SteadyLocatives
<1>11. MutationsTracked'
  <2>1. \A s \in Static : \/ static'[s] = static[s] \/ ~IsYoung(static'[s])
                          \/ <<"static", s>> \in mutations'
    BY <1>u
  <2>2. \A x \in DOMAIN heap' : \A i \in TracedSlots(heap'[x], TRUE) :
           \/ x \in DOMAIN heap /\ heap'[x].slot = heap[x].slot
           \/ ~IsYoung(heap'[x].slot[i])
    <3> SUFFICES ASSUME NEW i \in TracedSlots(heap'[o], TRUE) PROVE ~IsYoung(heap'[o].slot[i])
      BY <1>p, <1>1 DEF With
    <3>1. heap'[o] = Block(v)
      BY <1>p DEF With
    <3>2. TracedSlots(Block(v), TRUE) = {1}
      BY <1>c, TracedIs
    <3> QED
      BY <1>c, <1>v, <3>1, <3>2
  <2> QED
    BY <1>0, <1>3, <1>u, <2>1, <2>2, SteadyTracked
<1> QED
  BY <1>6, <1>7, <1>8, <1>9, <1>10, <1>11 DEF HInv

(* A pointer stored in the one slot of a block or a symbol.                *)
LEMMA PatchStep ==
  ASSUME HInv, NEW p \in HeldOf({"block", "symbol"}), NEW v \in Value, To(v, Plain),
         Cells', DOMAIN nursery' = DOMAIN nursery, DOMAIN heap' = DOMAIN heap,
         \A x \in DOMAIN memory :
           /\ memory[x].tag = "symbol" => memory'[x].name = memory[x].name
           /\ \/ memory'[x].tag = memory[x].tag
              \/ x \in Buckets /\ memory[x].tag \in Linking /\ memory'[x].tag \in Linking
           /\ memory'[x].slot = IF x = p[2] THEN [i \in {1} |-> v] ELSE memory[x].slot,
         mutations \subseteq mutations', RememberSlot(p, 1, v) \subseteq mutations', Entered',
         UNCHANGED <<half, reg, static, locatives, pending, running>>
  PROVE  HInv'
<1>0. /\ Types /\ HeldOK /\ ContentsOK /\ TableInv /\ LocativesOK /\ MutationsTracked
      /\ Cells /\ Room /\ Entered /\ Queued
  BY DEF HInv, Types
<1>1. /\ p[2] \in DOMAIN memory /\ memory[p[2]].tag \in {"block", "symbol"}
      /\ IsYoung(p) <=> p[2] \in DOMAIN nursery
  BY <1>0, HeldOfKind DEF Plain
<1>2. DOMAIN memory' = DOMAIN memory
  BY MemoryIs DEF memory
<1>3. Steady
  BY <1>1, <1>2 DEF Steady, Linking
<1>4. Types'
  BY <1>0 DEF Types, Room, Queued
<1>5. HeldOK'
  BY <1>0, <1>3, SteadyHeld
<1>6. ContentsOK'
  <2>1. ToNext(v, Plain)
    BY <1>0, <1>3, SteadyNext
  <2>2. \A x \in DOMAIN memory' :
            \/ x \in DOMAIN memory /\ memory'[x].slot = memory[x].slot
            \/ \A i \in DOMAIN memory'[x].slot : ToNext(memory'[x].slot[i], Plain)
    BY <1>2, <2>1
  <2> QED
    BY <1>0, <1>3, <2>2, SteadyContents
<1>7. TableInv'
  BY <1>0, <1>3, SteadyTable
<1>8. LocativesOK'
  BY <1>0, <1>2, <1>3, SteadyLocatives
<1>9. MutationsTracked'
  <2>1. ASSUME NEW x \in DOMAIN heap', NEW i \in TracedSlots(heap'[x], TRUE)
        PROVE  \/ x \in DOMAIN heap /\ heap'[x].slot = heap[x].slot
               \/ ~IsYoung(heap'[x].slot[i])
               \/ <<"old", x, i>> \in mutations'
    <3>1. /\ x \in DOMAIN heap /\ x \in DOMAIN memory /\ memory[x] = heap[x] /\ memory'[x] = heap'[x]
          /\ x \notin DOMAIN nursery /\ IsCell(heap'[x])
      BY <1>0 DEF Cells, memory
    <3>2. CASE x = p[2]
      <4>1. heap'[x].slot = [k \in {1} |-> v] /\ ~IsYoung(p)
        BY <1>1, <3>1, <3>2
      <4>2. heap'[x].tag \in {"block", "symbol"}
        BY <1>1, <3>1, <3>2 DEF Linking
      <4>3. i = 1
        <5>1. TracedSlots(heap'[x], TRUE) = {1}
          BY <3>1, <4>2, TracedIs
        <5> QED
          BY <5>1
      <4>4. IsYoung(v) => <<"old", x, 1>> \in mutations'
        BY <3>2, <4>1 DEF RememberSlot
      <4> QED
        BY <4>1, <4>3, <4>4
    <3> QED
      BY <3>1, <3>2
  <2> QED
    BY <1>0, <1>3, <2>1, SteadyTracked
<1> QED
  BY <1>4, <1>5, <1>6, <1>7, <1>8, <1>9 DEF HInv

(* What is remembered of a slot.                                           *)
LEMMA RememberTyped ==
  ASSUME Entered, NEW p, p[2] \in Obj, NEW v, NEW i \in {1, 2},
         NEW q, q[2] \in Obj, NEW w, NEW j \in {1, 2},
         mutations' \subseteq mutations \union RememberSlot(p, i, v) \union RememberSlot(q, j, w),
         UNCHANGED <<reg, static, locatives>>
  PROVE  Entered'
BY DEF Entered, RememberSlot

(* A slot of a block is set.                                               *)
LEMMA StoreStep ==
  ASSUME HInv, NEW p \in Held, NEW v \in Held, Store(p, v)
  PROVE  HInv'
<1>0. Types /\ HeldOK /\ Cells /\ Entered
  BY DEF HInv, Types
<1>1. /\ p \in HeldOf({"block"})
      /\ nursery' = Patched(nursery, p[2], Block(v)) /\ heap' = Patched(heap, p[2], Block(v))
      /\ mutations' = mutations \union RememberSlot(p, 1, v)
      /\ UNCHANGED <<half, reg, static, locatives, pending, running>>
  BY DEF Store
<1>2. p \in HeldOf({"block", "symbol"}) /\ {"block"} \in SUBSET Plain
  BY <1>1 DEF HeldOf, Plain
<1>3. p[2] \in DOMAIN memory /\ memory[p[2]].tag = "block" /\ IsCell(memory[p[2]]) /\ p[2] \in Obj
  BY <1>0, <1>1, <1>2, HeldOfKind
<1>4. v \in Value /\ To(v, Plain)
  BY <1>0, HeldPointers
<1>5. IsCell(Block(v)) /\ Block(v).tag = "block" /\ Block(v).slot = [i \in {1} |-> v]
  BY <1>4, CellKinds
<1>6. /\ DOMAIN nursery' = DOMAIN nursery /\ DOMAIN heap' = DOMAIN heap
      /\ \A x \in DOMAIN memory : memory'[x] = IF x = p[2] THEN Block(v) ELSE memory[x]
      /\ Cells'
  BY <1>0, <1>1, <1>3, <1>5, MemoryPatched
<1>7. \A x \in DOMAIN memory :
           /\ memory[x].tag = "symbol" => memory'[x].name = memory[x].name
           /\ memory'[x].tag = memory[x].tag
           /\ memory'[x].slot = IF x = p[2] THEN [i \in {1} |-> v] ELSE memory[x].slot
  BY <1>3, <1>5, <1>6
<1>8. Entered'
  BY <1>0, <1>1, <1>3, RememberTyped
<1> QED
  BY <1>1, <1>2, <1>4, <1>6, <1>7, <1>8, PatchStep

(* Two objects change.                                                     *)
LEMMA TwicePatched ==
  ASSUME Cells, NEW o \in DOMAIN memory, NEW c, IsCell(c), NEW q \in DOMAIN memory, NEW d, IsCell(d),
         o # q,
         nursery' = Patched(Patched(nursery, o, c), q, d), heap' = Patched(Patched(heap, o, c), q, d)
  PROVE  /\ DOMAIN nursery' = DOMAIN nursery /\ DOMAIN heap' = DOMAIN heap
         /\ \A x \in DOMAIN memory :
              memory'[x] = IF x = o THEN c ELSE IF x = q THEN d ELSE memory[x]
         /\ Cells'
BY DEF Cells, Patched, memory

(* The pointers in the chain are to the buckets.                           *)
LEMMA LinksAreBuckets ==
  ASSUME Cells, TableOK, NEW c \in Links(memory, static["table"])
  PROVE  /\ c # Nil /\ To(c, Linking) /\ c[2] \in Buckets /\ c[2] \in DOMAIN memory /\ c[2] \in Obj
         /\ At(c) = memory[c[2]] /\ IsCell(memory[c[2]]) /\ memory[c[2]].tag \in Linking
<1>1. c # Nil /\ (c = static["table"] \/ \E b \in Buckets : c = memory[b].slot[2])
  BY DEF Links, Buckets
<1>2. To(c, Linking)
  BY <1>1 DEF TableOK
<1>3. /\ c[2] \in DOMAIN memory /\ At(c) = memory[c[2]] /\ memory[c[2]].tag \in Linking
      /\ c[2] \in Obj /\ IsCell(memory[c[2]])
  BY <1>1, <1>2, Pointers, Objects
<1>4. CASE c = static["table"]
  <2>1. c[2] \in Ids({static["table"]}) \intersect DOMAIN memory
    BY <1>1, <1>3, <1>4, IdsOf
  <2> QED
    BY <1>1, <1>2, <1>3, <2>1, ChainIsClosed DEF Buckets
<1>5. ASSUME NEW b \in Buckets, c = memory[b].slot[2] PROVE c[2] \in Buckets
  <2>1. b \in DOMAIN memory /\ IsCell(memory[b]) /\ memory[b].tag \in Linking
    BY ChainIsClosed, Objects DEF Buckets, TableOK
  <2>2. DOMAIN memory[b].slot = {1, 2}
    BY <2>1 DEF IsCell, SlotsOf, Linking
  <2>3. c[2] \in Rest(memory, b)
    <3>1. Rest(memory, b) = Ids({memory[b].slot[2]})
      BY <2>2, RestOfTwo
    <3> QED
      BY <1>1, <1>5, <3>1, IdsOf
  <2> QED
    BY <1>3, <2>3, ChainIsClosed DEF Buckets
<1> QED
  BY <1>1, <1>2, <1>3, <1>4, <1>5

(* A symbol's slot filled or emptied, and its bucket changed accordingly.  *)
LEMMA ValueStep ==
  ASSUME HInv, NEW p \in HeldOf({"symbol"}), NEW b \in BucketOf(p), NEW v \in Value, To(v, Plain),
         NEW tag \in Linking,
         nursery' = Patched(Patched(nursery, p[2], [At(p) EXCEPT !.slot = <<v>>]),
                            b[2], [At(b) EXCEPT !.tag = tag]),
         heap' = Patched(Patched(heap, p[2], [At(p) EXCEPT !.slot = <<v>>]),
                         b[2], [At(b) EXCEPT !.tag = tag]),
         mutations' = mutations \union RememberSlot(b, 1, p) \union RememberSlot(p, 1, v)
         \/ (v = Nil /\ mutations' = mutations),
         UNCHANGED <<half, reg, static, locatives, pending, running>>
  PROVE  HInv'
<1>0. Types /\ HeldOK /\ TableOK /\ Cells /\ Entered
  BY DEF HInv, Types, TableInv
<1>1. /\ p[2] \in DOMAIN memory /\ memory[p[2]].tag = "symbol" /\ IsCell(memory[p[2]])
      /\ p[2] \in Obj /\ At(p) = memory[p[2]]
  BY <1>0, HeldOfKind DEF Plain
<1>2. /\ b[2] \in DOMAIN memory /\ b[2] \in Buckets /\ memory[b[2]].tag \in Linking
      /\ IsCell(memory[b[2]]) /\ b[2] \in Obj /\ At(b) = memory[b[2]]
  BY <1>0, LinksAreBuckets DEF BucketOf
<1> DEFINE c == [At(p) EXCEPT !.slot = <<v>>]
           d == [At(b) EXCEPT !.tag = tag]
<1>3. c = Cell("symbol", memory[p[2]].name, <<v>>)
  BY <1>1, CellChanged
<1>4. d = Cell(tag, memory[b[2]].name, memory[b[2]].slot)
  BY <1>2, CellChanged
<1>5. <<v>> = [i \in {1} |-> v]
  OBVIOUS
<1>6. IsCell(c) /\ c.tag = "symbol" /\ c.name = memory[p[2]].name /\ c.slot = [i \in {1} |-> v]
  BY <1>1, <1>3, <1>5, CellParts DEF IsCell, SlotsOf, CellTags
<1>7. IsCell(d) /\ d.tag = tag /\ d.name = memory[b[2]].name /\ d.slot = memory[b[2]].slot
  <2>1. SlotsOf(tag) = SlotsOf(memory[b[2]].tag)
    BY <1>2 DEF SlotsOf, Linking
  <2> QED
    BY <1>2, <1>4, <2>1, CellParts DEF IsCell, CellTags, Linking
<1>8. p[2] # b[2]
  BY <1>1, <1>2 DEF Linking
<1> HIDE DEF c, d
<1>9. /\ DOMAIN nursery' = DOMAIN nursery /\ DOMAIN heap' = DOMAIN heap
      /\ \A x \in DOMAIN memory :
           memory'[x] = IF x = p[2] THEN c ELSE IF x = b[2] THEN d ELSE memory[x]
      /\ Cells'
  <2>1. /\ nursery' = Patched(Patched(nursery, p[2], c), b[2], d)
        /\ heap' = Patched(Patched(heap, p[2], c), b[2], d)
    BY DEF c, d
  <2> QED
    BY <1>0, <1>1, <1>2, <1>6, <1>7, <1>8, <2>1, TwicePatched
<1>10. \A x \in DOMAIN memory :
           /\ memory[x].tag = "symbol" => memory'[x].name = memory[x].name
           /\ \/ memory'[x].tag = memory[x].tag
              \/ x \in Buckets /\ memory[x].tag \in Linking /\ memory'[x].tag \in Linking
           /\ memory'[x].slot = IF x = p[2] THEN [i \in {1} |-> v] ELSE memory[x].slot
  BY <1>1, <1>2, <1>6, <1>7, <1>8, <1>9
<1>11. Entered'
  BY <1>0, <1>1, <1>2, RememberTyped
<1>12. p \in HeldOf({"block", "symbol"})
  BY DEF HeldOf
<1>13. RememberSlot(p, 1, v) \subseteq mutations'
  BY DEF RememberSlot, IsYoung
<1> QED
  BY <1>9, <1>10, <1>11, <1>12, <1>13, PatchStep

(* A symbol gets a value and becomes persistent.                           *)
LEMMA SetValueStep ==
  ASSUME HInv, NEW p \in Held, NEW v \in Held, SetValue(p, v)
  PROVE  HInv'
<1>1. v \in Value /\ To(v, Plain)
  BY HeldPointers DEF HInv
<1>2. p \in HeldOf({"symbol"}) /\ "pair" \in Linking
  BY DEF SetValue, Linking
<1>3. PICK b \in BucketOf(p) :
        /\ nursery' = Patched(Patched(nursery, p[2], [At(p) EXCEPT !.slot = <<v>>]),
                              b[2], [At(b) EXCEPT !.tag = "pair"])
        /\ heap' = Patched(Patched(heap, p[2], [At(p) EXCEPT !.slot = <<v>>]),
                           b[2], [At(b) EXCEPT !.tag = "pair"])
        /\ mutations' = mutations \union RememberSlot(b, 1, p) \union RememberSlot(p, 1, v)
  BY DEF SetValue
<1>4. UNCHANGED <<half, reg, static, locatives, pending, running>>
  BY DEF SetValue
<1> QED
  BY <1>1, <1>2, <1>3, <1>4, ValueStep

(* A symbol loses its value and may go.                                    *)
LEMMA DropValueStep ==
  ASSUME HInv, NEW p \in Held, DropValue(p)
  PROVE  HInv'
<1>1. Nil \in Value /\ To(Nil, Plain)
  BY DEF Value, To
<1>2. p \in HeldOf({"symbol"}) /\ "weak" \in Linking
  BY DEF DropValue, Linking
<1>3. PICK b \in BucketOf(p) :
        /\ nursery' = Patched(Patched(nursery, p[2], [At(p) EXCEPT !.slot = <<Nil>>]),
                              b[2], [At(b) EXCEPT !.tag = "weak"])
        /\ heap' = Patched(Patched(heap, p[2], [At(p) EXCEPT !.slot = <<Nil>>]),
                           b[2], [At(b) EXCEPT !.tag = "weak"])
  BY DEF DropValue
<1>4. UNCHANGED <<half, reg, static, mutations, locatives, pending, running>>
  BY DEF DropValue
<1> QED
  BY <1>1, <1>2, <1>3, <1>4, ValueStep

(* A new symbol and its bucket.                                            *)
LEMMA TwiceExtended ==
  ASSUME Cells, NEW o \in Free, NEW c, IsCell(c), NEW b \in Free, b # o, NEW d, IsCell(d),
         nursery' = With(With(nursery, b, d), o, c), heap' = heap
  PROVE  /\ DOMAIN nursery' = DOMAIN nursery \union {o, b} /\ DOMAIN heap' = DOMAIN heap
         /\ o \notin DOMAIN memory /\ b \notin DOMAIN memory /\ o \in Obj /\ b \in Obj /\ o # b
         /\ DOMAIN memory' = DOMAIN memory \union {o, b}
         /\ \A x \in DOMAIN memory : memory'[x] = memory[x]
         /\ memory'[o] = c /\ memory'[b] = d
         /\ Cells'
BY DEF Cells, With, memory, Free

(* A new symbol is entered at the head of the table: the one step that     *)
(* lengthens the chain.                                                    *)
LEMMA AddSymbolStep ==
  ASSUME HInv, NEW r \in Reg, NEW n \in Name, AddSymbol(r, n)
  PROVE  HInv'
<1>0. /\ Types /\ HeldOK /\ ContentsOK /\ LocativesOK /\ MutationsTracked
      /\ TableOK /\ PairsIn /\ Acyclic /\ Listed /\ Distinct
      /\ Cells /\ Room /\ Entered /\ Queued
  BY DEF HInv, Types, TableInv
<1>p. PICK o \in Free, b \in Free :
       /\ b # o
       /\ nursery' = With(With(nursery, b, Bucket("weak", Young(o), static["table"])), o, Symbol(n))
       /\ static' = [static EXCEPT !["table"] = Young(b)]
       /\ mutations' = mutations \union Remember("table", Young(b))
       /\ Hold(r, Young(o))
  BY DEF AddSymbol
<1>u. /\ Lookup(n) = {} /\ NurseryRoom(2)
      /\ UNCHANGED <<heap, half, locatives, pending, running>>
  BY DEF AddSymbol
<1>v. /\ o \in Obj /\ b \in Obj /\ Young(o) \in Value /\ Young(b) \in Value
      /\ Young(o) # Nil /\ Young(b) # Nil /\ IsYoung(Young(b)) /\ Young(o)[2] = o /\ Young(b)[2] = b
  BY HeapAssumption DEF Free, Value, Young, IsYoung
<1>w. "table" \in Static /\ static["table"] \in Value
  BY <1>0 DEF Static, Entered
<1> DEFINE c == Symbol(n)
           d == Bucket("weak", Young(o), static["table"])
<1>c. /\ IsCell(c) /\ c.tag = "symbol" /\ c.name = n /\ c.slot = [i \in {1} |-> Nil]
  BY SymbolCell
<1>d. /\ IsCell(d) /\ d.tag = "weak"
      /\ d.slot = [i \in {1, 2} |-> IF i = 1 THEN Young(o) ELSE static["table"]]
  BY <1>v, <1>w, CellKinds
<1> HIDE DEF c, d
<1>1. /\ DOMAIN nursery' = DOMAIN nursery \union {o, b} /\ DOMAIN heap' = DOMAIN heap
      /\ o \notin DOMAIN memory /\ b \notin DOMAIN memory /\ o # b
      /\ DOMAIN memory' = DOMAIN memory \union {o, b}
      /\ \A x \in DOMAIN memory : memory'[x] = memory[x]
      /\ memory'[o] = c /\ memory'[b] = d
      /\ Cells'
  <2>1. nursery' = With(With(nursery, b, d), o, c) /\ heap' = heap
    BY <1>p, <1>u DEF c, d
  <2> QED
    BY <1>0, <1>p, <1>c, <1>d, <2>1, TwiceExtended
<1>2. \A x \in DOMAIN memory : x \in DOMAIN memory' /\ Pointer(x)' = Pointer(x)
  BY <1>0, <1>1, StayPointers
<1>3. \A v, tags : To(v, tags) => ToNext(v, tags)
  BY <1>1, <1>2 DEF To, ToNext, Pointer
<1>4. /\ ToNext(Young(o), Plain) /\ ToNext(Young(o), {"symbol"})
      /\ ToNext(Young(b), Linking)
  BY <1>1, <1>v, <1>c, <1>d DEF ToNext, Young, Plain, Linking
<1>5. /\ static'["table"] = Young(b)
      /\ \A s \in Static \ {"table"} : static'[s] = static[s]
      /\ \A x \in Reg : reg'[x] = reg[x] \/ reg'[x] = Young(o)
  BY <1>0, <1>p, <1>w DEF Entered, Hold
<1>6. Types'
  <2>1. Room'
    <3>1. Cardinality(DOMAIN nursery) + 2 <= NurserySize
      BY <1>u DEF NurseryRoom
    <3>2. Cardinality(DOMAIN nursery') = Cardinality(DOMAIN nursery) + 2
      <4>1. /\ DOMAIN nursery \in SUBSET Obj /\ o \notin DOMAIN nursery
            /\ DOMAIN nursery \union {o} \in SUBSET Obj /\ b \notin DOMAIN nursery \union {o}
        BY <1>0, <1>1, <1>v, MemoryIs DEF Cells
      <4>2. /\ Cardinality(DOMAIN nursery) \in Nat
            /\ Cardinality(DOMAIN nursery \union {o}) = Cardinality(DOMAIN nursery) + 1
        BY <4>1, OneMore
      <4>3. Cardinality((DOMAIN nursery \union {o}) \union {b})
              = Cardinality(DOMAIN nursery \union {o}) + 1
        BY <4>1, OneMore
      <4>4. (DOMAIN nursery \union {o}) \union {b} = DOMAIN nursery'
        BY <1>1
      <4> QED
        BY <4>2, <4>3, <4>4
    <3> QED
      BY <1>0, <1>u, <3>1, <3>2 DEF Room
  <2>2. Entered'
    BY <1>0, <1>p, <1>u, <1>v, <1>w DEF Entered, Hold, Remember
  <2>3. Queued'
    BY <1>0, <1>u DEF Queued
  <2> QED
    BY <1>1, <2>1, <2>2, <2>3 DEF Types
<1>7. HeldOK'
  <2>1. \A x \in Reg : ToNext(reg'[x], Plain)
    BY <1>0, <1>3, <1>4, <1>5 DEF HeldOK
  <2>2. \A s \in Static \ {"table"} : ToNext(static'[s], Plain)
    BY <1>0, <1>3, <1>5 DEF HeldOK
  <2>3. \A i \in 1 .. Len(pending) : ToNext(pending[i], Plain)
    BY <1>0, <1>3 DEF HeldOK
  <2> QED
    BY <1>0, <1>u, <2>1, <2>2, <2>3, NextPointers DEF HeldOK
<1>8. ContentsOK'
  <2>1. ASSUME NEW x \in DOMAIN memory', memory'[x].tag \in Plain, NEW i \in DOMAIN memory'[x].slot
        PROVE  ToNext(memory'[x].slot[i], Plain)
    <3>1. CASE x \in DOMAIN memory
      BY <1>0, <1>1, <1>3, <2>1, <3>1 DEF ContentsOK
    <3>2. CASE x = o
      BY <1>1, <1>c, <2>1, <3>2 DEF ToNext
    <3>3. CASE x = b
      BY <1>1, <1>d, <2>1, <3>3 DEF Plain
    <3> QED
      BY <1>1, <3>1, <3>2, <3>3
  <2> QED
    BY <2>1, NextPointers DEF ContentsOK
(* The chain: the new bucket in front of the old ones.                     *)
<1>9. /\ Chain(memory', static["table"]) = Buckets
      /\ \A x \in Buckets : Chain(memory', memory'[x].slot[2]) = Chain(memory, memory[x].slot[2])
      /\ Buckets \subseteq DOMAIN memory
  <2>1. Buckets \subseteq DOMAIN memory
    BY ChainIsClosed DEF Buckets
  <2>2. \A x \in Buckets : /\ x \in DOMAIN memory' /\ memory'[x].tag \in Linking
                           /\ Ids({memory'[x].slot[2]}) = Ids({memory[x].slot[2]})
    BY <1>0, <1>1, <2>1 DEF TableOK
  <2> QED
    BY <1>0, <1>1, <2>1, <2>2, KeptChains
<1>10. DOMAIN memory'[b].slot = {1, 2} /\ memory'[b].slot[1] = Young(o) /\ memory'[b].slot[2] = static["table"]
  BY <1>1, <1>d
<1>11. Chain(memory', Young(b)) = Buckets \union {b}
  <2>1. Rest(memory', b) = Ids({static["table"]}) /\ Ids({Young(b)}) = {b}
    BY <1>10, <1>v, RestOfTwo, IdsOf
  <2>2. /\ Ids({static["table"]}) \intersect DOMAIN memory' \subseteq Buckets
        /\ \A x \in Buckets : Rest(memory', x) \intersect DOMAIN memory' \subseteq Buckets
    BY <1>9, ChainIsClosed
  <2>3. Chain(memory', Young(b)) \subseteq Buckets \union {b}
    BY <2>1, <2>2, ChainIsLeast
  <2>4. b \in Chain(memory', Young(b))
    BY <1>1, <2>1, ChainIsClosed
  <2>5. Ids({static["table"]}) \intersect DOMAIN memory' \subseteq Chain(memory', Young(b))
    BY <2>1, <2>4, ChainIsClosed
  <2>6. Buckets \subseteq Chain(memory', Young(b))
    BY <1>9, <2>5, ChainGoesOn
  <2> QED
    BY <2>3, <2>4, <2>6
<1>12. Buckets' = Buckets \union {b}
  <2>1. Buckets' = Chain(memory', Young(b))
    BY <1>5 DEF Buckets
  <2> QED
    BY <1>11, <2>1
<1>13. TableOK'
  <2>1. ToNext(static'["table"], Linking)
    BY <1>4, <1>5
  <2>2. ASSUME NEW x \in Buckets'
        PROVE  /\ memory'[x].tag \in Linking /\ memory'[x].slot[1] # Nil
               /\ ToNext(memory'[x].slot[1], {"symbol"}) /\ ToNext(memory'[x].slot[2], Linking)
    <3>1. CASE x \in Buckets
      BY <1>0, <1>1, <1>3, <1>9, <3>1 DEF TableOK
    <3>2. CASE x = b
      BY <1>0, <1>1, <1>3, <1>4, <1>10, <1>d, <1>v, <3>2 DEF TableOK, Linking
    <3> QED
      BY <1>12, <3>1, <3>2
  <2>3. /\ To(static["table"], Linking)' <=> ToNext(static'["table"], Linking)
        /\ \A x, i : To(memory[x].slot[i], {"symbol"})' <=> ToNext(memory'[x].slot[i], {"symbol"})
        /\ \A x, i : To(memory[x].slot[i], Linking)' <=> ToNext(memory'[x].slot[i], Linking)
    BY DEF To, ToNext, Pointer
  <2> QED
    BY <2>1, <2>2, <2>3 DEF TableOK
<1>14. PairsIn'
  <2> SUFFICES ASSUME NEW x \in DOMAIN memory',
                      memory'[x].tag = "pair" \/ (memory'[x].tag = "weak" /\ x \in DOMAIN nursery')
               PROVE  x \in Buckets \union {b}
    BY <1>12 DEF PairsIn
  <2>1. x # o
    BY <1>1, <1>c
  <2>2. CASE x \in DOMAIN memory
    BY <1>0, <1>1, <2>2 DEF PairsIn
  <2> QED
    BY <1>1, <2>1, <2>2
<1>15. Acyclic'
  <2>1. \A x \in Buckets : x \notin Chain(memory', memory'[x].slot[2])
    BY <1>0, <1>9 DEF Acyclic
  <2>2. b \notin Chain(memory', memory'[b].slot[2])
    BY <1>1, <1>9, <1>10
  <2> QED
    BY <1>12, <2>1, <2>2 DEF Acyclic
<1>16. /\ SymbolOf(b)' = o /\ memory'[o].name = n
       /\ \A x \in Buckets : /\ SymbolOf(x)' = SymbolOf(x) /\ SymbolOf(x) \in DOMAIN memory
                             /\ memory'[SymbolOf(x)].name = memory[SymbolOf(x)].name
  BY <1>0, <1>1, <1>9, <1>10, <1>c, <1>v DEF SymbolOf, TableOK, To
<1>17. Listed'
  <2> SUFFICES ASSUME NEW x \in DOMAIN memory', memory'[x].tag = "symbol"
               PROVE  \E y \in Buckets \union {b} : SymbolOf(y)' = x
    BY <1>12 DEF Listed
  <2>1. CASE x \in DOMAIN memory
    BY <1>0, <1>1, <1>16, <2>1 DEF Listed
  <2>2. CASE x = o
    BY <1>16, <2>2
  <2>3. x # b
    BY <1>1, <1>d
  <2> QED
    BY <1>1, <2>1, <2>2, <2>3
<1>18. Distinct'
  <2>1. ASSUME NEW x \in Buckets PROVE memory'[SymbolOf(x)'].name # n
    <3>1. memory[x].slot[1] # Nil /\ To(memory[x].slot[1], {"symbol"})
      BY <1>0 DEF TableOK
    <3>2. At(memory[x].slot[1]) = memory[SymbolOf(x)]
      BY <1>0, <3>1, Pointers DEF SymbolOf
    <3>3. memory[SymbolOf(x)].name # n
      BY <1>u, <3>2 DEF Lookup
    <3> QED
      BY <1>16, <3>3
  <2>2. \A x, y \in Buckets : memory'[SymbolOf(x)'].name = memory'[SymbolOf(y)'].name => x = y
    BY <1>0, <1>16 DEF Distinct
  <2>3. \A x, y \in Buckets \union {b} : memory'[SymbolOf(x)'].name = memory'[SymbolOf(y)'].name => x = y
    BY <1>16, <2>1, <2>2
  <2> QED
    BY <1>12, <2>3 DEF Distinct
<1>19. LocativesOK'
  <2>1. ASSUME NEW l \in locatives
        PROVE  l # Nil /\ ToNext(l, {"locative"}) /\ memory'[l[2]].slot[1] # Nil
    <3>1. l # Nil /\ To(l, {"locative"}) /\ memory[l[2]].slot[1] # Nil /\ l[2] \in DOMAIN memory
      BY <1>0 DEF LocativesOK, To
    <3> QED
      BY <1>1, <1>3, <3>1
  <2>2. ASSUME NEW x \in DOMAIN memory', memory'[x].tag = "locative", memory'[x].slot[1] # Nil
        PROVE  Pointer(x)' \in locatives
    BY <1>0, <1>1, <1>2, <1>c, <1>d, <2>2 DEF LocativesOK
  <2>3. \A l : To(l, {"locative"})' <=> ToNext(l, {"locative"})
    BY DEF To, ToNext, Pointer
  <2> QED
    BY <1>u, <2>1, <2>2, <2>3 DEF LocativesOK
<1>20. MutationsTracked'
  <2>1. \A s \in Static : IsYoung(static'[s]) => <<"static", s>> \in mutations'
    BY <1>0, <1>5, <1>p, <1>v DEF MutationsTracked, Remember
  <2>2. ASSUME NEW x \in DOMAIN heap', NEW i \in TracedSlots(heap'[x], TRUE),
               heap'[x].tag = "weak" => x \in Buckets', IsYoung(heap'[x].slot[i])
        PROVE  <<"old", x, i>> \in mutations'
    <3>1. x \in DOMAIN heap /\ x # b /\ heap' = heap
      BY <1>1, <1>u, <2>2, MemoryIs
    <3> QED
      BY <1>0, <1>12, <1>p, <2>2, <3>1 DEF MutationsTracked
  <2> QED
    BY <2>1, <2>2 DEF MutationsTracked
<1> QED
  BY <1>6, <1>7, <1>8, <1>13, <1>14, <1>15, <1>17, <1>18, <1>19, <1>20 DEF HInv, TableInv

-----------------------------------------------------------------------------
(* Minor collections.                                                      *)

(* What is reached is closed, and the least such set.                      *)
LEMMA ReachIsClosed ==
  ASSUME NEW mem, NEW from, NEW minor
  PROVE  /\ Reachable(mem, from, minor) \subseteq DOMAIN mem
         /\ from \intersect DOMAIN mem \subseteq Reachable(mem, from, minor)
         /\ \A x \in Reachable(mem, from, minor) :
              Ids(Traced(mem[x], minor)) \intersect DOMAIN mem \subseteq Reachable(mem, from, minor)
BY ClosureIsClosed DEF Reachable

(* A set that holds the roots and, with each object, what it points to,    *)
(* holds what they reach.                                                  *)
LEMMA ReachIsLeast ==
  ASSUME NEW mem, NEW from, NEW minor, NEW s,
         from \intersect DOMAIN mem \subseteq s,
         \A x \in s \intersect DOMAIN mem : Ids(Traced(mem[x], minor)) \intersect DOMAIN mem \subseteq s
  PROVE  Reachable(mem, from, minor) \subseteq s
<1> DEFINE D == DOMAIN mem
           leads == [x \in DOMAIN mem |-> Ids(Traced(mem[x], minor))]
<1>1. from \intersect D \subseteq s
  OBVIOUS
<1>2. \A x \in s \intersect D : leads[x] \intersect D \subseteq s
  OBVIOUS
<1>3. Reachable(mem, from, minor) = Closure(D, from, leads)
  BY DEF Reachable
<1> HIDE DEF D, leads
<1> QED
  BY <1>1, <1>2, <1>3, ClosureIsLeast

(* What an object in the memory reaches in the nursery is live: if the     *)
(* object is in the nursery and live itself, or in the heap.               *)
LEMMA LiveTargets ==
  ASSUME Types, PairsIn, MutationsTracked,
         NEW o \in DOMAIN heap \union MinorLive, memory[o].tag = "weak" => o \in Buckets,
         NEW i \in TracedSlots(memory[o], TRUE), IsYoung(memory[o].slot[i]),
         memory[o].slot[i][2] \in DOMAIN nursery
  PROVE  memory[o].slot[i][2] \in MinorLive
<1> DEFINE v == memory[o].slot[i]
<1>0. Cells /\ MinorLive \subseteq DOMAIN nursery
  BY ReachIsClosed DEF Types, MinorLive
<1>1. CASE o \in DOMAIN heap
  <2>1. memory[o] = heap[o]
    BY <1>0, <1>1 DEF memory, Cells
  <2>2. <<"old", o, i>> \in mutations
    BY <1>1, <2>1 DEF MutationsTracked
  <2>3. v \in Remembered
    <3>1. /\ <<"old", o, i>>[1] = "old" /\ <<"old", o, i>>[2] = o /\ <<"old", o, i>>[3] = i
      OBVIOUS
    <3>2. v = IF <<"old", o, i>>[1] = "static" THEN static[<<"old", o, i>>[2]]
              ELSE heap[<<"old", o, i>>[2]].slot[<<"old", o, i>>[3]]
      BY <2>1, <3>1
    <3> QED
      BY <2>2, <3>2 DEF Remembered
  <2>4. v[2] \in Ids(Remembered \union Range(reg))
    BY <2>3, IdsOf DEF IsYoung
  <2> QED
    BY <2>4, ReachIsClosed DEF MinorLive
<1>2. CASE o \in MinorLive
  <2>1. memory[o] = nursery[o]
    BY <1>0, <1>2 DEF memory
  <2>2. v \in Traced(nursery[o], TRUE)
    BY <2>1 DEF Traced
  <2>3. v[2] \in Ids(Traced(nursery[o], TRUE))
    BY <2>2, IdsOf DEF IsYoung
  <2> QED
    BY <1>2, <2>3, ReachIsClosed DEF MinorLive
<1> QED
  BY <1>1, <1>2

(* What the roots point to in the nursery is live: an argument is looked   *)
(* at, and any other slot is on the mutation stack.                        *)
LEMMA LiveRoots ==
  ASSUME Types, MutationsTracked
  PROVE  /\ MinorLive \subseteq DOMAIN nursery
         /\ \A r \in Reg : IsYoung(reg[r]) /\ reg[r][2] \in DOMAIN nursery => reg[r][2] \in MinorLive
         /\ \A s \in Static :
              IsYoung(static[s]) /\ static[s][2] \in DOMAIN nursery =>
                <<"static", s>> \in mutations /\ static[s][2] \in MinorLive
<1>0. MinorLive \subseteq DOMAIN nursery
  BY ReachIsClosed DEF MinorLive
<1>1. ASSUME NEW r \in Reg, IsYoung(reg[r]), reg[r][2] \in DOMAIN nursery PROVE reg[r][2] \in MinorLive
  <2>1. reg[r] \in Range(reg) /\ reg[r] # Nil
    BY <1>1 DEF Range, Types, Entered, IsYoung
  <2>2. reg[r][2] \in Ids(Remembered \union Range(reg))
    BY <2>1, IdsOf
  <2> QED
    BY <1>1, <2>2, ReachIsClosed DEF MinorLive
<1>2. ASSUME NEW s \in Static, IsYoung(static[s]), static[s][2] \in DOMAIN nursery
      PROVE  <<"static", s>> \in mutations /\ static[s][2] \in MinorLive
  <2>1. <<"static", s>> \in mutations
    BY <1>2 DEF MutationsTracked
  <2>2. static[s] \in Remembered
    <3>1. /\ <<"static", s>>[1] = "static" /\ <<"static", s>>[2] = s
      OBVIOUS
    <3>2. static[s] = IF <<"static", s>>[1] = "static" THEN static[<<"static", s>>[2]]
              ELSE heap[<<"static", s>>[2]].slot[<<"static", s>>[3]]
      BY <3>1
    <3> QED
      BY <2>1, <3>2 DEF Remembered
  <2>3. static[s][2] \in Ids(Remembered \union Range(reg))
    BY <1>2, <2>2, IdsOf DEF IsYoung
  <2> QED
    BY <1>2, <2>1, <2>3, ReachIsClosed DEF MinorLive
<1> QED
  BY <1>0, <1>1, <1>2

(* A pointer after a minor collection, the slots it is looked for in, and  *)
(* an object before update_locative_table.                                 *)
Follow(v) == IF IsYoung(v) /\ v[2] \in MinorLive THEN Old(v[2]) ELSE v

(* The slots of a marked object that a minor collection looks at, what     *)
(* becomes of its slots, and the locatives it keeps in the table.          *)
MarkedIn(o) == IF o \in DOMAIN heap THEN {i \in 1 .. 2 : <<"old", o, i>> \in mutations}
               ELSE TracedSlots(nursery[o], TRUE)

MarkedSlot(o) == [i \in DOMAIN memory[o].slot |->
                    IF i \in MarkedIn(o) THEN Follow(memory[o].slot[i]) ELSE memory[o].slot[i]]

MovedLocatives == {Follow(l) : l \in locatives} \ {l \in locatives : IsYoung(l)}

(* What update_locative_table takes for lost in a minor collection.        *)
Unfound(v) == v = Nil \/ (IsYoung(v) /\ v[2] \notin MinorLive)

(* A locative that stays in the table or comes into it is in the heap.     *)
LEMMA MovedAre ==
  ASSUME Types, LocativesOK
  PROVE  /\ \A l \in MovedLocatives :
              /\ l = Old(l[2]) /\ l[2] \in DOMAIN heap \union MinorLive /\ l \in Value \ {Nil}
              /\ Pointer(l[2]) \in locatives /\ memory[l[2]].tag = "locative"
              /\ memory[l[2]].slot[1] # Nil
         /\ \A o \in DOMAIN heap \union MinorLive :
              Pointer(o) \in locatives => Old(o) \in MovedLocatives
<1>0. Cells /\ MinorLive \subseteq DOMAIN nursery
  BY ReachIsClosed DEF Types, MinorLive
<1>o. \A o \in Obj : /\ Old(o) \in Value \ {Nil} /\ Old(o)[2] = o /\ ~IsYoung(Old(o))
                     /\ Young(o)[2] = o /\ IsYoung(Young(o))
  BY HeapAssumption DEF Old, Young, Value, IsYoung
<1>1. ASSUME NEW k \in locatives
      PROVE  /\ k # Nil /\ k[2] \in DOMAIN memory /\ k[2] \in Obj /\ k = Pointer(k[2])
             /\ memory[k[2]].tag = "locative" /\ memory[k[2]].slot[1] # Nil
  <2>1. k # Nil /\ To(k, {"locative"}) /\ memory[k[2]].slot[1] # Nil
    BY DEF LocativesOK
  <2> QED
    BY <1>0, <2>1, Pointers
<1>2. ASSUME NEW l \in MovedLocatives
      PROVE  /\ l = Old(l[2]) /\ l[2] \in DOMAIN heap \union MinorLive /\ l \in Value \ {Nil}
             /\ Pointer(l[2]) \in locatives /\ memory[l[2]].tag = "locative"
             /\ memory[l[2]].slot[1] # Nil
  <2>1. PICK k \in locatives : l = Follow(k)
    BY <1>2 DEF MovedLocatives
  <2>2. ~(l \in locatives /\ IsYoung(l))
    BY <1>2 DEF MovedLocatives
  <2>3. l[2] = k[2]
    BY <1>o, <1>1, <2>1 DEF Follow
  <2>4. CASE k[2] \in DOMAIN nursery
    BY <1>0, <1>o, <1>1, <2>1, <2>2, <2>4 DEF Follow, Pointer
  <2>5. CASE k[2] \in DOMAIN heap
    BY <1>0, <1>o, <1>1, <2>1, <2>5 DEF Follow, Pointer, Cells
  <2> QED
    BY <1>1, <2>4, <2>5, MemoryIs
<1>3. ASSUME NEW o \in DOMAIN heap \union MinorLive, Pointer(o) \in locatives
      PROVE  Old(o) \in MovedLocatives
  <2>1. o \in Obj /\ ~IsYoung(Old(o))
    BY <1>0, <1>o DEF Cells
  <2>2. Follow(Pointer(o)) = Old(o)
    BY <1>0, <1>3, <1>o, <2>1 DEF Follow, Pointer, Cells
  <2> QED
    BY <1>3, <2>1, <2>2 DEF MovedLocatives
<1> QED
  BY <1>2, <1>3

(* What a minor collection makes of an object that stays or survives.      *)
LEMMA MinorHeap ==
  ASSUME Types, LocativesOK, MinorGC
  PROVE  /\ DOMAIN heap' = DOMAIN heap \union MinorLive
         /\ \A o \in DOMAIN heap \union MinorLive :
              LET marked == MarkedSlot(o) IN
              heap'[o] = Cell(memory[o].tag, memory[o].name,
                              IF Old(o) \notin MovedLocatives THEN marked
                              ELSE [marked EXCEPT ![1] =
                                      IF ~IsYoung(Follow(marked[1])) THEN Follow(marked[1]) ELSE Nil])
         /\ locatives' = {l \in MovedLocatives : ~IsYoung(Follow(MarkedSlot(l[2])[1]))}
<1> DEFINE to(v) == IF IsYoung(v) /\ v[2] \in MinorLive THEN Old(v[2]) ELSE v
           copy(c, slots) ==
             [c EXCEPT !.slot = [i \in DOMAIN @ |-> IF i \in slots THEN to(@[i]) ELSE @[i]]]
           marked == [o \in DOMAIN heap \union MinorLive |->
                       IF o \in DOMAIN heap
                       THEN copy(heap[o], {i \in 1 .. 2 : <<"old", o, i>> \in mutations})
                       ELSE copy(nursery[o], TracedSlots(nursery[o], TRUE))]
           moved == {to(l) : l \in locatives} \ {l \in locatives : IsYoung(l)}
           found(l) == ~IsYoung(to(marked[l[2]].slot[1]))
<1>1. /\ heap' = [o \in DOMAIN marked |->
                    IF Old(o) \notin moved THEN marked[o]
                    ELSE [marked[o] EXCEPT !.slot[1] = IF found(Old(o)) THEN to(@) ELSE Nil]]
      /\ locatives' = {l \in moved : found(l)}
  BY DEF MinorGC
<1>2. \A v : to(v) = Follow(v)
  BY DEF Follow
<1>3. moved = MovedLocatives
  BY DEF MovedLocatives, Follow
<1>4. Cells /\ MinorLive \subseteq DOMAIN nursery
  BY ReachIsClosed DEF Types, MinorLive
<1>5. ASSUME NEW o \in DOMAIN heap \union MinorLive
      PROVE  marked[o] = Cell(memory[o].tag, memory[o].name, MarkedSlot(o))
  <2>1. o \in DOMAIN memory /\ IsCell(memory[o])
    BY <1>4 DEF Cells, memory
  <2>2. marked[o] = copy(memory[o], MarkedIn(o))
    BY <1>4 DEF memory, MarkedIn, Cells
  <2>3. copy(memory[o], MarkedIn(o)) = [memory[o] EXCEPT !.slot = MarkedSlot(o)]
    BY DEF MarkedSlot, Follow
  <2> QED
    BY <2>1, <2>2, <2>3, CellChanged
<1>6. DOMAIN marked = DOMAIN heap \union MinorLive
  OBVIOUS
<1>f. \A l : found(l) <=> ~IsYoung(Follow(marked[l[2]].slot[1]))
  <2> HIDE DEF marked
  <2> QED
    BY <1>2
<1>m. ASSUME NEW o \in DOMAIN heap \union MinorLive PROVE marked[o].slot = MarkedSlot(o)
  <2> HIDE DEF marked
  <2> QED
    BY <1>5, CellParts
<1>h. ASSUME NEW o \in DOMAIN heap \union MinorLive
      PROVE  heap'[o] = IF Old(o) \notin moved THEN marked[o]
                        ELSE [marked[o] EXCEPT !.slot[1] = IF found(Old(o)) THEN to(@) ELSE Nil]
  <2> HIDE DEF to, marked, moved, found
  <2> QED
    BY <1>1, <1>6
<1>9. DOMAIN heap' = DOMAIN heap \union MinorLive
  <2> HIDE DEF to, marked, moved, found
  <2> QED
    BY <1>1, <1>6
<1> HIDE DEF to, marked, moved, found
<1>7. ASSUME NEW o \in DOMAIN heap \union MinorLive
      PROVE  heap'[o] = Cell(memory[o].tag, memory[o].name,
                              IF Old(o) \notin MovedLocatives THEN MarkedSlot(o)
                              ELSE [MarkedSlot(o) EXCEPT ![1] =
                                      IF ~IsYoung(Follow(MarkedSlot(o)[1]))
                                      THEN Follow(MarkedSlot(o)[1]) ELSE Nil])
  <2>1. marked[o] = Cell(memory[o].tag, memory[o].name, MarkedSlot(o)) /\ marked[o].slot = MarkedSlot(o)
    BY <1>5, <1>m
  <2>2. Old(o)[2] = o
    BY DEF Old
  <2>3. found(Old(o)) <=> ~IsYoung(Follow(MarkedSlot(o)[1]))
    BY <1>f, <2>1, <2>2
  <2>4. to(MarkedSlot(o)[1]) = Follow(MarkedSlot(o)[1])
    BY <1>2
  <2>5. [marked[o] EXCEPT !.slot[1] = IF found(Old(o)) THEN to(@) ELSE Nil]
          = Cell(memory[o].tag, memory[o].name,
                 [MarkedSlot(o) EXCEPT ![1] =
                    IF found(Old(o)) THEN to(MarkedSlot(o)[1]) ELSE Nil])
    BY <2>1 DEF Cell
  <2> QED
    BY <1>3, <1>h, <2>1, <2>3, <2>4, <2>5
<1>8. locatives' = {l \in MovedLocatives : ~IsYoung(Follow(MarkedSlot(l[2])[1]))}
  <2>1. ASSUME NEW l \in MovedLocatives PROVE found(l) <=> ~IsYoung(Follow(MarkedSlot(l[2])[1]))
    <3>1. l[2] \in DOMAIN heap \union MinorLive
      BY MovedAre
    <3> QED
      BY <1>f, <1>m, <3>1
  <2> QED
    BY <1>1, <1>3, <2>1
<1> QED
  BY <1>7, <1>8, <1>9

(* A pointer that follows its object points to the same one, and does so   *)
(* once.                                                                   *)
LEMMA FollowIs ==
  ASSUME Cells
  PROVE  /\ \A v \in Value : Follow(v) \in Value /\ Follow(Follow(v)) = Follow(v)
         /\ Follow(Nil) = Nil /\ ~IsYoung(Nil)
         /\ \A v : ~IsYoung(v) => Follow(v) = v
         /\ \A v \in Value : ~IsYoung(v) \/ v[2] \in MinorLive => ~IsYoung(Follow(v))
         /\ \A v \in Value \ {Nil} : Follow(v) # Nil /\ Follow(v)[2] = v[2] /\ v[2] \in Obj
<1>1. \A o \in Obj : Old(o) \in Value \ {Nil} /\ ~IsYoung(Old(o)) /\ Old(o)[2] = o
  BY HeapAssumption DEF Old, Value, IsYoung
<1>2. \A v \in Value \ {Nil} : v[2] \in Obj
  BY DEF Value
<1>3. ~IsYoung(Nil)
  BY DEF IsYoung
<1>4. \A v \in Value : v = Nil \/ v \in Value \ {Nil}
  OBVIOUS
<1> QED
  BY <1>1, <1>2, <1>3, <1>4 DEF Follow

(* A pointer that is not to a dead object of the nursery is one afterwards.*)
LEMMA FollowPointer ==
  ASSUME Cells, DOMAIN nursery' = {}, DOMAIN heap' = DOMAIN heap \union MinorLive,
         MinorLive \subseteq DOMAIN nursery,
         \A o \in DOMAIN memory' : memory'[o].tag = memory[o].tag
  PROVE  \A v, tags : /\ To(v, tags)
                      /\ IsYoung(v) /\ v[2] \in DOMAIN nursery => v[2] \in MinorLive
                      => ToNext(Follow(v), tags) /\ ~IsYoung(Follow(v))
<1> SUFFICES ASSUME NEW v, NEW tags, To(v, tags),
                    IsYoung(v) /\ v[2] \in DOMAIN nursery => v[2] \in MinorLive
             PROVE  ToNext(Follow(v), tags) /\ ~IsYoung(Follow(v))
  OBVIOUS
<1>1. CASE v = Nil
  BY <1>1, FollowIs DEF ToNext
<1>2. CASE v # Nil
  <2>1. /\ v \in Value /\ v[2] \in Obj /\ v[2] \in DOMAIN memory /\ v = Pointer(v[2])
        /\ memory[v[2]].tag \in tags
        /\ IsYoung(v) <=> v[2] \in DOMAIN nursery
        /\ ~IsYoung(v) <=> v[2] \in DOMAIN heap
    BY <1>2, Pointers
  <2>2. v[2] \in DOMAIN memory' /\ v[2] \notin DOMAIN nursery'
    BY <2>1, MemoryIs DEF memory
  <2>3. Follow(v) = Old(v[2]) /\ Follow(v)[2] = v[2] /\ Follow(v) \in Value
    BY <1>2, <2>1, FollowIs DEF Follow, Pointer, Old, Cells
  <2>4. ~IsYoung(Follow(v))
    BY <2>1, FollowIs
  <2> QED
    BY <2>1, <2>2, <2>3, <2>4 DEF ToNext
<1> QED
  BY <1>1, <1>2

(* What a minor collection does to the slots of an object.                 *)
LEMMA MinorObjects ==
  ASSUME HInv, MinorGC
  PROVE  /\ DOMAIN nursery' = {} /\ DOMAIN memory' = DOMAIN heap \union MinorLive
         /\ MinorLive \subseteq DOMAIN nursery
         /\ \A o \in DOMAIN memory' :
              /\ o \in DOMAIN memory /\ memory'[o] = heap'[o] /\ IsCell(heap'[o])
              /\ memory'[o].tag = memory[o].tag /\ memory'[o].name = memory[o].name
              /\ \A i \in DOMAIN memory[o].slot :
                   IF memory[o].tag = "locative" /\ i = 1
                   THEN \/ memory'[o].slot[i] = Nil /\ Unfound(memory[o].slot[i])
                        \/ /\ memory'[o].slot[i] = Follow(memory[o].slot[i])
                           /\ ~IsYoung(memory'[o].slot[i])
                           /\ Old(o) \in locatives'
                   ELSE \/ memory'[o].slot[i] = Follow(memory[o].slot[i])
                        \/ memory[o].tag = "weak" /\ o \notin Buckets
         /\ \A l \in locatives' :
              /\ l \in MovedLocatives /\ memory'[l[2]].slot[1] # Nil
<1>0. /\ Types /\ LocativesOK /\ MutationsTracked /\ Cells
      /\ MinorLive \subseteq DOMAIN nursery
  BY LiveRoots DEF HInv, Types
<1>1. /\ DOMAIN heap' = DOMAIN heap \union MinorLive
      /\ \A o \in DOMAIN heap \union MinorLive :
              heap'[o] = Cell(memory[o].tag, memory[o].name,
                              IF Old(o) \notin MovedLocatives THEN MarkedSlot(o)
                              ELSE [MarkedSlot(o) EXCEPT ![1] =
                                      IF ~IsYoung(Follow(MarkedSlot(o)[1]))
                                      THEN Follow(MarkedSlot(o)[1]) ELSE Nil])
      /\ locatives' = {l \in MovedLocatives : ~IsYoung(Follow(MarkedSlot(l[2])[1]))}
  BY <1>0, MinorHeap
<1>2. DOMAIN nursery' = {} /\ DOMAIN memory' = DOMAIN heap'
  BY DEF MinorGC, Empty, memory
<1>3. \A o \in DOMAIN memory' : o \in DOMAIN memory /\ memory'[o] = heap'[o]
  BY <1>0, <1>1, <1>2, MemoryIs DEF memory
<1>4. ASSUME NEW o \in DOMAIN memory'
      PROVE  /\ IsCell(memory[o]) /\ o \in Obj /\ o \in DOMAIN heap \union MinorLive
             /\ MarkedSlot(o) \in [SlotsOf(memory[o].tag) -> Value]
             /\ \A i \in DOMAIN memory[o].slot :
                   Follow(MarkedSlot(o)[i]) = Follow(memory[o].slot[i])
             /\ \A i \in DOMAIN memory[o].slot :
                   \/ memory[o].tag = "locative" /\ i = 1
                   \/ memory[o].tag = "weak" /\ o \notin Buckets
                   \/ MarkedSlot(o)[i] = Follow(memory[o].slot[i])
  <2>1. o \in DOMAIN heap \union MinorLive /\ o \in DOMAIN memory /\ o \in Obj /\ IsCell(memory[o])
    BY <1>0, <1>1, <1>2, <1>3, Objects
  <2>2. /\ DOMAIN memory[o].slot = SlotsOf(memory[o].tag)
        /\ \A i \in DOMAIN memory[o].slot : memory[o].slot[i] \in Value
    BY <2>1 DEF IsCell
  <2>3. \A i \in DOMAIN memory[o].slot : Follow(memory[o].slot[i]) \in Value
    BY <1>0, <2>2, FollowIs
  <2>4. MarkedSlot(o) \in [SlotsOf(memory[o].tag) -> Value]
    BY <2>2, <2>3 DEF MarkedSlot
  <2>5. \A i \in DOMAIN memory[o].slot : Follow(MarkedSlot(o)[i]) = Follow(memory[o].slot[i])
    BY <1>0, <2>2, FollowIs DEF MarkedSlot
  <2>6. ASSUME NEW i \in DOMAIN memory[o].slot,
               ~(memory[o].tag = "locative" /\ i = 1), ~(memory[o].tag = "weak" /\ o \notin Buckets)
        PROVE  MarkedSlot(o)[i] = Follow(memory[o].slot[i])
    <3>0. /\ memory[o].tag \in CellTags /\ DOMAIN memory[o].slot = SlotsOf(memory[o].tag)
          /\ i \in SlotsOf(memory[o].tag)
      BY <2>1, <2>6, TracedIs
    <3>1. i \in TracedSlots(memory[o], TRUE) /\ i \in {1, 2}
      <4>1. CASE memory[o].tag = "locative"
        BY <2>1, <2>6, <3>0, <4>1, TracedIs DEF SlotsOf
      <4>2. CASE memory[o].tag \in {"weak", "pair"}
        BY <2>1, <3>0, <4>2, TracedIs DEF SlotsOf
      <4>3. CASE memory[o].tag \in {"block", "symbol"}
        BY <2>1, <3>0, <4>3, TracedIs DEF SlotsOf
      <4> QED
        BY <3>0, <4>1, <4>2, <4>3 DEF CellTags
    <3>2. CASE i \in MarkedIn(o)
      BY <3>2 DEF MarkedSlot
    <3>3. CASE i \notin MarkedIn(o)
      <4>1. o \in DOMAIN heap /\ memory[o] = heap[o]
        <5>1. o \notin DOMAIN heap => o \in DOMAIN nursery /\ memory[o] = nursery[o]
          BY <1>0, <2>1 DEF memory
        <5>2. o \in DOMAIN heap
          BY <3>1, <3>3, <5>1 DEF MarkedIn
        <5> QED
          BY <1>0, <5>2 DEF memory, Cells
      <4>2. <<"old", o, i>> \notin mutations
        BY <3>1, <3>3, <4>1 DEF MarkedIn
      <4>3. ~IsYoung(memory[o].slot[i])
        BY <1>0, <2>6, <3>1, <4>1, <4>2 DEF MutationsTracked
      <4>4. MarkedSlot(o)[i] = memory[o].slot[i]
        BY <3>3 DEF MarkedSlot
      <4> QED
        BY <1>0, <4>3, <4>4, FollowIs
    <3> QED
      BY <3>2, <3>3
  <2> QED
    BY <2>1, <2>4, <2>5, <2>6
<1>5. ASSUME NEW o \in DOMAIN memory', Old(o) \in MovedLocatives
      PROVE  memory[o].tag = "locative"
  <2>1. Old(o)[2] = o
    BY DEF Old
  <2> QED
    BY <1>0, <1>5, <2>1, MovedAre
<1>6. ASSUME NEW o \in DOMAIN memory', memory[o].tag = "locative"
      PROVE  /\ 1 \in DOMAIN memory[o].slot
             /\ Old(o) \notin MovedLocatives =>
                  memory[o].slot[1] = Nil /\ MarkedSlot(o)[1] = Nil
  <2>1. 1 \in DOMAIN memory[o].slot /\ memory[o].slot \in [SlotsOf("locative") -> Value]
    BY <1>4, <1>6 DEF IsCell, SlotsOf
  <2>2. ASSUME Old(o) \notin MovedLocatives PROVE memory[o].slot[1] = Nil
    <3>1. Pointer(o) \notin locatives
      BY <1>0, <1>4, <2>2, MovedAre
    <3> QED
      BY <1>0, <1>3, <1>6, <3>1 DEF LocativesOK
  <2>3. memory[o].slot[1] = Nil => MarkedSlot(o)[1] = Nil
    BY <1>0, <2>1, FollowIs DEF MarkedSlot
  <2> QED
    BY <2>1, <2>2, <2>3
<1>7. ASSUME NEW o \in DOMAIN memory'
      PROVE  /\ IsCell(heap'[o])
             /\ memory'[o].tag = memory[o].tag /\ memory'[o].name = memory[o].name
             /\ Old(o) \notin MovedLocatives => memory'[o].slot = MarkedSlot(o)
             /\ Old(o) \in MovedLocatives =>
                  memory'[o].slot = [MarkedSlot(o) EXCEPT ![1] =
                                       IF ~IsYoung(Follow(memory[o].slot[1]))
                                       THEN Follow(memory[o].slot[1]) ELSE Nil]
  <2> DEFINE slot == IF Old(o) \notin MovedLocatives THEN MarkedSlot(o)
                     ELSE [MarkedSlot(o) EXCEPT ![1] =
                             IF ~IsYoung(Follow(MarkedSlot(o)[1]))
                             THEN Follow(MarkedSlot(o)[1]) ELSE Nil]
  <2>1. heap'[o] = Cell(memory[o].tag, memory[o].name, slot)
    BY <1>1, <1>4
  <2>2. slot \in [SlotsOf(memory[o].tag) -> Value]
    <3>1. MarkedSlot(o) \in [SlotsOf(memory[o].tag) -> Value]
      BY <1>4
    <3>2. CASE Old(o) \in MovedLocatives
      <4>1. 1 \in SlotsOf(memory[o].tag) /\ MarkedSlot(o)[1] \in Value
        BY <3>1 DEF SlotsOf
      <4>2. Follow(MarkedSlot(o)[1]) \in Value /\ Nil \in Value
        BY <1>0, <4>1, FollowIs DEF Value
      <4> QED
        BY <3>1, <3>2, <4>1, <4>2
    <3> QED
      BY <3>1, <3>2
  <2>3. Old(o) \in MovedLocatives => slot = [MarkedSlot(o) EXCEPT ![1] =
                                       IF ~IsYoung(Follow(memory[o].slot[1]))
                                       THEN Follow(memory[o].slot[1]) ELSE Nil]
    BY <1>4, <1>5, <1>6
  <2>4. Old(o) \notin MovedLocatives => slot = MarkedSlot(o)
    OBVIOUS
  <2> HIDE DEF slot
  <2> QED
    BY <1>3, <1>4, <2>1, <2>2, <2>3, <2>4, CellParts DEF IsCell
<1>8. ASSUME NEW o \in DOMAIN memory', NEW i \in DOMAIN memory[o].slot
      PROVE  IF memory[o].tag = "locative" /\ i = 1
             THEN \/ memory'[o].slot[i] = Nil /\ Unfound(memory[o].slot[i])
                  \/ /\ memory'[o].slot[i] = Follow(memory[o].slot[i])
                     /\ ~IsYoung(memory'[o].slot[i])
                     /\ Old(o) \in locatives'
             ELSE \/ memory'[o].slot[i] = Follow(memory[o].slot[i])
                  \/ memory[o].tag = "weak" /\ o \notin Buckets
  <2>0. MarkedSlot(o) \in [SlotsOf(memory[o].tag) -> Value] /\ i \in SlotsOf(memory[o].tag)
    BY <1>4 DEF IsCell
  <2>1. CASE ~(memory[o].tag = "locative" /\ i = 1)
    <3>1. memory'[o].slot[i] = MarkedSlot(o)[i]
      BY <1>5, <1>7, <2>0, <2>1
    <3> QED
      BY <1>4, <2>1, <3>1
  <2>2. CASE memory[o].tag = "locative" /\ i = 1
    <3>1. CASE Old(o) \notin MovedLocatives
      BY <1>6, <1>7, <2>2, <3>1 DEF Unfound
    <3>2. CASE Old(o) \in MovedLocatives
      <4>1. memory'[o].slot[1] = IF ~IsYoung(Follow(memory[o].slot[1]))
                                 THEN Follow(memory[o].slot[1]) ELSE Nil
        BY <1>7, <2>0, <2>2, <3>2
      <4>2. ~IsYoung(Follow(memory[o].slot[1])) => Old(o) \in locatives'
        <5>1. Old(o)[2] = o
          BY DEF Old
        <5>2. Follow(MarkedSlot(o)[1]) = Follow(memory[o].slot[1])
          BY <1>4, <2>2
        <5> QED
          BY <1>1, <3>2, <5>1, <5>2
      <4>3. IsYoung(Follow(memory[o].slot[1])) => Unfound(memory[o].slot[1])
        <5>1. memory[o].slot[1] \in Value
          BY <1>4, <2>2 DEF IsCell
        <5> QED
          BY <1>0, <5>1, FollowIs DEF Unfound
      <4> QED
        BY <2>2, <4>1, <4>2, <4>3
    <3> QED
      BY <3>1, <3>2
  <2> QED
    BY <2>1, <2>2
<1>9. ASSUME NEW l \in locatives'
      PROVE  l \in MovedLocatives /\ memory'[l[2]].slot[1] # Nil
  <2>1. l \in MovedLocatives /\ ~IsYoung(Follow(MarkedSlot(l[2])[1]))
    BY <1>1
  <2>2. /\ l = Old(l[2]) /\ l[2] \in DOMAIN heap \union MinorLive
        /\ memory[l[2]].tag = "locative" /\ memory[l[2]].slot[1] # Nil
    BY <1>0, <2>1, MovedAre
  <2>3. l[2] \in DOMAIN memory'
    BY <1>1, <1>2, <2>2
  <2>4. /\ Follow(MarkedSlot(l[2])[1]) = Follow(memory[l[2]].slot[1])
        /\ MarkedSlot(l[2]) \in [SlotsOf("locative") -> Value] /\ 1 \in SlotsOf("locative")
        /\ memory[l[2]].slot[1] \in Value
    BY <1>4, <1>6, <2>2, <2>3 DEF IsCell, SlotsOf
  <2>5. memory'[l[2]].slot[1] = Follow(memory[l[2]].slot[1])
    BY <1>7, <2>1, <2>2, <2>3, <2>4
  <2> QED
    BY <1>0, <2>1, <2>2, <2>4, <2>5, FollowIs
<1> QED
  BY <1>0, <1>1, <1>2, <1>3, <1>7, <1>8, <1>9

(* Follow keeps the name of the object.                                    *)
LEMMA FollowIds ==
  ASSUME Cells, NEW v \in Value
  PROVE  Ids({Follow(v)}) = Ids({v}) /\ (Follow(v) = Nil <=> v = Nil)
         /\ (v # Nil => Follow(v)[2] = v[2])
BY FollowIs, IdsOf

(* The roots and the pointers of a minor collection.                       *)
LEMMA MinorRoots ==
  ASSUME HInv, MinorGC
  PROVE  /\ \A r \in Reg : reg'[r] = Follow(reg[r]) /\ (IsYoung(reg[r]) => reg[r][2] \in MinorLive)
         /\ \A s \in Static :
              /\ static'[s] = Follow(static[s])
              /\ IsYoung(static[s]) => static[s][2] \in MinorLive
         /\ \A v, tags : To(v, tags) /\ (IsYoung(v) => v[2] \in MinorLive)
                           => ToNext(Follow(v), tags) /\ ~IsYoung(Follow(v))
<1>0. Types /\ HeldOK /\ TableOK /\ MutationsTracked /\ Cells
  BY DEF HInv, Types, TableInv
<1>1. \A v, tags : To(v, tags) /\ IsYoung(v) => v[2] \in DOMAIN nursery
  <2> SUFFICES ASSUME NEW v, NEW tags, To(v, tags), IsYoung(v) PROVE v[2] \in DOMAIN nursery
    OBVIOUS
  <2>1. v # Nil
    BY DEF IsYoung
  <2> QED
    BY <1>0, <2>1, Pointers
<1>2. ASSUME NEW r \in Reg
      PROVE  reg'[r] = Follow(reg[r]) /\ (IsYoung(reg[r]) => reg[r][2] \in MinorLive)
  <2>1. reg'[r] = Follow(reg[r])
    BY DEF MinorGC, Follow
  <2>2. To(reg[r], Plain)
    BY <1>0 DEF HeldOK
  <2> QED
    BY <1>0, <1>1, <2>1, <2>2, LiveRoots
<1>3. ASSUME NEW s \in Static
      PROVE  /\ static'[s] = Follow(static[s])
             /\ IsYoung(static[s]) => static[s][2] \in MinorLive
  <2>1. static'[s] = IF <<"static", s>> \in mutations THEN Follow(static[s]) ELSE static[s]
    BY DEF MinorGC, Follow
  <2>2. \E tags : To(static[s], tags)
    BY <1>0 DEF HeldOK, TableOK
  <2>3. <<"static", s>> \notin mutations => ~IsYoung(static[s])
    BY <1>0 DEF MutationsTracked
  <2> QED
    BY <1>0, <1>1, <2>1, <2>2, <2>3, LiveRoots, FollowIs
<1>4. /\ DOMAIN nursery' = {} /\ DOMAIN heap' = DOMAIN heap \union MinorLive
      /\ MinorLive \subseteq DOMAIN nursery
      /\ \A o \in DOMAIN memory' : memory'[o].tag = memory[o].tag
  <2>1. /\ DOMAIN nursery' = {} /\ DOMAIN memory' = DOMAIN heap \union MinorLive
        /\ MinorLive \subseteq DOMAIN nursery
        /\ \A o \in DOMAIN memory' : memory'[o].tag = memory[o].tag
    BY MinorObjects
  <2>2. DOMAIN memory' = DOMAIN heap'
    BY <2>1 DEF memory
  <2> QED
    BY <2>1, <2>2
<1> QED
  BY <1>0, <1>2, <1>3, <1>4, FollowPointer

(* The slots of the objects that are there afterwards.                     *)
LEMMA MinorSlots ==
  ASSUME HInv, MinorGC, NEW o \in DOMAIN memory', memory[o].tag = "weak" => o \in Buckets,
         NEW i \in DOMAIN memory[o].slot, ~(memory[o].tag = "locative" /\ i = 1),
         NEW tags, To(memory[o].slot[i], tags)
  PROVE  /\ memory'[o].slot[i] = Follow(memory[o].slot[i]) /\ memory[o].slot[i] \in Value
         /\ ToNext(memory'[o].slot[i], tags) /\ ~IsYoung(memory'[o].slot[i])
<1>0. Types /\ PairsIn /\ MutationsTracked /\ Cells
  BY DEF HInv, Types, TableInv
<1>1. o \in DOMAIN heap \union MinorLive /\ o \in DOMAIN memory
  BY MinorObjects
<1>2. memory'[o].slot[i] = Follow(memory[o].slot[i])
  BY MinorObjects
<1>3. IsCell(memory[o])
  BY <1>0, <1>1, Objects
<1>4. i \in TracedSlots(memory[o], TRUE)
  <2>0. /\ memory[o].tag \in CellTags /\ DOMAIN memory[o].slot = SlotsOf(memory[o].tag)
        /\ i \in SlotsOf(memory[o].tag)
    BY <1>3, TracedIs
  <2>1. CASE memory[o].tag = "locative"
    BY <1>3, <2>0, <2>1, TracedIs DEF SlotsOf
  <2>2. CASE memory[o].tag \in {"weak", "pair"}
    BY <1>3, <2>0, <2>2, TracedIs DEF SlotsOf
  <2>3. CASE memory[o].tag \in {"block", "symbol"}
    BY <1>3, <2>0, <2>3, TracedIs DEF SlotsOf
  <2> QED
    BY <2>0, <2>1, <2>2, <2>3 DEF CellTags
<1>5. IsYoung(memory[o].slot[i]) => memory[o].slot[i][2] \in MinorLive
  <2> SUFFICES ASSUME IsYoung(memory[o].slot[i]) PROVE memory[o].slot[i][2] \in MinorLive
    OBVIOUS
  <2>1. memory[o].slot[i] # Nil
    BY DEF IsYoung
  <2>2. memory[o].slot[i][2] \in DOMAIN nursery
    BY <1>0, <2>1, Pointers
  <2> QED
    BY <1>0, <1>1, <1>4, <2>2, LiveTargets
<1>6. memory[o].slot[i] \in Value
  BY <1>3, TracedIs
<1> QED
  BY <1>2, <1>5, <1>6, MinorRoots

(* A minor collection keeps the types.                                     *)
LEMMA MinorTypes ==
  ASSUME HInv, MinorGC
  PROVE  Types'
<1>0. Types /\ HeldOK /\ Cells /\ Room /\ Entered /\ Queued /\ LocativesOK
  BY DEF HInv, Types
<1>1. /\ DOMAIN nursery' = {} /\ DOMAIN heap' = DOMAIN heap \union MinorLive
      /\ MinorLive \subseteq DOMAIN nursery /\ DOMAIN heap' \subseteq Obj
      /\ \A o \in DOMAIN heap' : IsCell(heap'[o])
  <2>1. /\ DOMAIN nursery' = {} /\ DOMAIN memory' = DOMAIN heap \union MinorLive
        /\ MinorLive \subseteq DOMAIN nursery
        /\ \A o \in DOMAIN memory' : IsCell(heap'[o])
    BY MinorObjects
  <2>2. DOMAIN memory' = DOMAIN heap'
    BY <2>1 DEF memory
  <2> QED
    BY <1>0, <2>1, <2>2 DEF Cells
<1>2. Cells'
  BY <1>1 DEF Cells
<1>3. Room'
  <2>1. /\ IsFiniteSet(DOMAIN heap) /\ IsFiniteSet(MinorLive)
    BY <1>0, <1>1, HeapAssumption, FS_Subset DEF Cells
  <2>2. DOMAIN heap \intersect MinorLive = {}
    BY <1>0, <1>1 DEF Cells
  <2>3. /\ Cardinality(DOMAIN heap) \in Nat /\ Cardinality(MinorLive) \in Nat
        /\ Cardinality({}) = 0
    BY <2>1, FS_CardinalityType, FS_EmptySet
  <2>4. Cardinality(DOMAIN heap \union MinorLive)
          = Cardinality(DOMAIN heap) + Cardinality(MinorLive) - Cardinality(DOMAIN heap \intersect MinorLive)
    BY <2>1, FS_Union
  <2>5. MinorFits /\ half' = half
    BY DEF MinorGC
  <2>6. Cardinality(DOMAIN heap') <= half'
    <3>1. Cardinality(DOMAIN heap') = Cardinality(DOMAIN heap) + Cardinality(MinorLive)
      <4>1. Cardinality(DOMAIN heap \intersect MinorLive) = 0
        BY <2>2, <2>3
      <4>2. DOMAIN heap' = DOMAIN heap \union MinorLive
        BY <1>1
      <4> QED
        BY <2>3, <2>4, <4>1, <4>2
    <3> QED
      BY <2>5, <3>1 DEF MinorFits
  <2> QED
    BY <1>0, <1>1, <2>3, <2>5, <2>6, HeapAssumption DEF Room
<1>4. Entered'
  <2>1. \A r \in Reg : Follow(reg[r]) \in Value
    BY <1>0, FollowIs DEF Entered
  <2>2. \A s \in Static : Follow(static[s]) \in Value
    BY <1>0, FollowIs DEF Entered
  <2>3. reg' \in [Reg -> Value]
    <3>1. reg' = [r \in Reg |-> Follow(reg[r])]
      BY DEF MinorGC, Follow
    <3> QED
      BY <2>1, <3>1
  <2>4. static' \in [Static -> Value]
    <3>1. static' = [s \in Static |-> IF <<"static", s>> \in mutations THEN Follow(static[s]) ELSE static[s]]
      BY DEF MinorGC, Follow
    <3> QED
      BY <1>0, <2>2, <3>1 DEF Entered
  <2>5. locatives' \subseteq Value
    <3>1. locatives' \subseteq MovedLocatives
      BY MinorObjects
    <3> QED
      BY <1>0, <3>1, MovedAre
  <2>6. mutations' = {}
    BY DEF MinorGC
  <2> QED
    BY <2>3, <2>4, <2>5, <2>6 DEF Entered
<1>5. Queued'
  BY <1>0 DEF Queued, MinorGC
<1> QED
  BY <1>2, <1>3, <1>4, <1>5 DEF Types

(* It updates the roots, and the contents of what it keeps.                *)
LEMMA MinorHeld ==
  ASSUME HInv, MinorGC
  PROVE  HeldOK' /\ ContentsOK'
<1>0. HeldOK /\ ContentsOK /\ Types /\ Cells
  BY DEF HInv, Types
<1>1. \A r \in Reg : ToNext(reg'[r], Plain)
  BY <1>0, MinorRoots DEF HeldOK
<1>2. \A s \in Static \ {"table"} : ToNext(static'[s], Plain)
  BY <1>0, MinorRoots DEF HeldOK
<1>3. ASSUME NEW i \in 1 .. Len(pending')
      PROVE  pending'[i] # Nil /\ ToNext(pending'[i], Plain) /\ ~IsYoung(pending'[i])
  <2>1. pending' = pending
    BY DEF MinorGC
  <2>2. pending[i] # Nil /\ To(pending[i], Plain) /\ ~IsYoung(pending[i])
    BY <1>0, <2>1 DEF HeldOK
  <2>3. Follow(pending[i]) = pending[i]
    BY <1>0, <2>2, FollowIs
  <2>4. ToNext(Follow(pending[i]), Plain)
    BY <2>2, MinorRoots
  <2> QED
    BY <2>1, <2>2, <2>3, <2>4
<1>4. HeldOK'
  BY <1>1, <1>2, <1>3, NextPointers DEF HeldOK
<1>5. ASSUME NEW o \in DOMAIN memory', memory'[o].tag \in Plain, NEW i \in DOMAIN memory'[o].slot
      PROVE  ToNext(memory'[o].slot[i], Plain)
  <2>1. /\ o \in DOMAIN memory /\ memory'[o] = heap'[o] /\ IsCell(heap'[o])
        /\ memory'[o].tag = memory[o].tag
    BY MinorObjects
  <2>2. IsCell(memory[o])
    BY <1>0, <2>1, Objects
  <2>3. i \in DOMAIN memory[o].slot
    BY <1>5, <2>1, <2>2, TracedIs
  <2>4. To(memory[o].slot[i], Plain) /\ memory[o].slot[i] \in Value
    BY <1>0, <1>5, <2>1, <2>2, <2>3, TracedIs DEF ContentsOK
  <2>5. CASE memory[o].tag = "locative" /\ i = 1
    <3>1. CASE memory'[o].slot[i] = Nil
      BY <3>1 DEF ToNext
    <3>2. CASE memory'[o].slot[i] # Nil
      <4>1. memory'[o].slot[i] = Follow(memory[o].slot[i]) /\ ~IsYoung(memory'[o].slot[i])
        BY <2>3, <2>5, <3>2, MinorObjects
      <4>2. IsYoung(memory[o].slot[i]) => memory[o].slot[i][2] \in MinorLive
        BY <4>1 DEF Follow
      <4> QED
        BY <2>4, <4>1, <4>2, MinorRoots
    <3> QED
      BY <3>1, <3>2
  <2>6. CASE ~(memory[o].tag = "locative" /\ i = 1)
    BY <1>5, <2>1, <2>3, <2>4, <2>6, MinorSlots DEF Plain
  <2> QED
    BY <2>5, <2>6
<1>6. ContentsOK'
  BY <1>5, NextPointers DEF ContentsOK
<1> QED
  BY <1>4, <1>6

(* The buckets are all kept.                                               *)
LEMMA MinorBuckets ==
  ASSUME HInv, MinorGC
  PROVE  /\ Buckets \subseteq DOMAIN memory'
         /\ \A b \in Buckets :
              /\ b \in DOMAIN memory /\ memory'[b].tag = memory[b].tag /\ memory[b].tag \in Linking
              /\ \A i \in {1, 2} :
                   /\ memory'[b].slot[i] = Follow(memory[b].slot[i]) /\ memory[b].slot[i] \in Value
                   /\ ~IsYoung(memory'[b].slot[i])
              /\ ToNext(memory'[b].slot[1], {"symbol"}) /\ ToNext(memory'[b].slot[2], Linking)
<1>0. Types /\ TableOK /\ PairsIn /\ MutationsTracked /\ Cells /\ Buckets \subseteq DOMAIN memory
  BY ChainIsClosed DEF HInv, Types, TableInv, Buckets
<1>b. ASSUME NEW b \in Buckets
      PROVE  /\ b \in DOMAIN memory /\ memory[b].tag \in Linking /\ DOMAIN memory[b].slot = {1, 2}
             /\ memory[b].slot[1] # Nil /\ To(memory[b].slot[1], {"symbol"})
             /\ To(memory[b].slot[2], Linking)
             /\ TracedSlots(memory[b], TRUE) = {1, 2}
             /\ Rest(memory, b) = Ids({memory[b].slot[2]})
  <2>1. IsCell(memory[b]) /\ memory[b].tag \in Linking /\ b \in DOMAIN memory
    BY <1>0, Objects DEF TableOK
  <2>2. DOMAIN memory[b].slot = {1, 2} /\ TracedSlots(memory[b], TRUE) = {1, 2}
    BY <2>1, TracedIs DEF SlotsOf, Linking
  <2> QED
    BY <1>0, <2>1, <2>2, RestOfTwo DEF TableOK
<1>m. DOMAIN memory' = DOMAIN heap \union MinorLive
  BY MinorObjects
<1>1. Buckets \subseteq DOMAIN memory' \intersect Buckets
  <2>1. Ids({static["table"]}) \intersect DOMAIN memory \subseteq DOMAIN memory' \intersect Buckets
    <3>1. CASE static["table"] = Nil
      BY <3>1, IdsOf
    <3>2. CASE static["table"] # Nil
      <4>1. To(static["table"], Linking) /\ "table" \in Static
        BY <1>0 DEF TableOK, Static
      <4>2. /\ static["table"][2] \in DOMAIN memory
            /\ ~IsYoung(static["table"]) <=> static["table"][2] \in DOMAIN heap
        BY <1>0, <3>2, <4>1, Pointers
      <4>3. IsYoung(static["table"]) => static["table"][2] \in MinorLive
        BY <4>1, MinorRoots
      <4>4. Ids({static["table"]}) = {static["table"][2]}
        BY <3>2, IdsOf
      <4>5. Ids({static["table"]}) \intersect DOMAIN memory \subseteq Buckets
        BY ChainIsClosed DEF Buckets
      <4> QED
        BY <1>m, <4>2, <4>3, <4>4, <4>5
    <3> QED
      BY <3>1, <3>2
  <2>2. ASSUME NEW b \in (DOMAIN memory' \intersect Buckets) \intersect DOMAIN memory
        PROVE  Rest(memory, b) \intersect DOMAIN memory \subseteq DOMAIN memory' \intersect Buckets
    <3>1. CASE memory[b].slot[2] = Nil
      <4>1. Rest(memory, b) = Ids({Nil}) /\ Ids({Nil}) = {}
        BY <1>b, <3>1, IdsOf
      <4> QED
        BY <4>1
    <3>2. CASE memory[b].slot[2] # Nil
      <4>1. /\ memory[b].slot[2][2] \in DOMAIN memory
            /\ ~IsYoung(memory[b].slot[2]) <=> memory[b].slot[2][2] \in DOMAIN heap
            /\ IsYoung(memory[b].slot[2]) <=> memory[b].slot[2][2] \in DOMAIN nursery
        BY <1>0, <1>b, <3>2, Pointers
      <4>2. IsYoung(memory[b].slot[2]) => memory[b].slot[2][2] \in MinorLive
        <5>1. b \in DOMAIN heap \union MinorLive
          BY <1>m
        <5> QED
          BY <1>0, <1>b, <4>1, <5>1, LiveTargets
      <4>3. Rest(memory, b) = {memory[b].slot[2][2]}
        BY <1>b, <3>2, IdsOf
      <4>4. Rest(memory, b) \intersect DOMAIN memory \subseteq Buckets
        BY ChainIsClosed DEF Buckets
      <4> QED
        BY <1>m, <4>1, <4>2, <4>3, <4>4
    <3> QED
      BY <3>1, <3>2
  <2> QED
    BY <2>1, <2>2, ChainIsLeast DEF Buckets
<1>2. ASSUME NEW b \in Buckets
      PROVE  /\ b \in DOMAIN memory /\ memory'[b].tag = memory[b].tag /\ memory[b].tag \in Linking
             /\ \A i \in {1, 2} :
                  /\ memory'[b].slot[i] = Follow(memory[b].slot[i]) /\ memory[b].slot[i] \in Value
                  /\ ~IsYoung(memory'[b].slot[i])
             /\ ToNext(memory'[b].slot[1], {"symbol"}) /\ ToNext(memory'[b].slot[2], Linking)
  <2>1. b \in DOMAIN memory' /\ memory'[b].tag = memory[b].tag
    BY <1>1, MinorObjects
  <2>2. /\ memory'[b].slot[1] = Follow(memory[b].slot[1]) /\ memory[b].slot[1] \in Value
        /\ ToNext(memory'[b].slot[1], {"symbol"}) /\ ~IsYoung(memory'[b].slot[1])
    BY <1>b, <2>1, MinorSlots DEF Linking
  <2>3. /\ memory'[b].slot[2] = Follow(memory[b].slot[2]) /\ memory[b].slot[2] \in Value
        /\ ToNext(memory'[b].slot[2], Linking) /\ ~IsYoung(memory'[b].slot[2])
    BY <1>b, <2>1, MinorSlots DEF Linking
  <2> QED
    BY <1>b, <2>1, <2>2, <2>3
<1> QED
  BY <1>1, <1>2

(* It keeps every bucket, and the chain with them.                         *)
LEMMA MinorTable ==
  ASSUME HInv, MinorGC
  PROVE  TableInv' /\ Buckets' = Buckets
<1>0. /\ Types /\ Cells /\ Cells' /\ TableOK /\ PairsIn /\ Acyclic /\ Listed /\ Distinct
      /\ Entered
  BY MinorTypes DEF HInv, Types, TableInv
<1>b. ASSUME NEW b \in Buckets
      PROVE  /\ b \in DOMAIN memory' /\ memory'[b].tag \in Linking
             /\ Ids({memory'[b].slot[2]}) = Ids({memory[b].slot[2]})
             /\ memory'[b].slot[1] # Nil /\ memory'[b].slot[1][2] = memory[b].slot[1][2]
             /\ ToNext(memory'[b].slot[1], {"symbol"}) /\ ToNext(memory'[b].slot[2], Linking)
             /\ memory[b].slot[1][2] \in DOMAIN memory'
  <2>1. /\ b \in DOMAIN memory' /\ memory'[b].tag \in Linking
        /\ ToNext(memory'[b].slot[1], {"symbol"}) /\ ToNext(memory'[b].slot[2], Linking)
        /\ memory'[b].slot[1] = Follow(memory[b].slot[1]) /\ memory[b].slot[1] \in Value
        /\ memory'[b].slot[2] = Follow(memory[b].slot[2]) /\ memory[b].slot[2] \in Value
    BY MinorBuckets
  <2>2. memory[b].slot[1] # Nil
    BY <1>0 DEF TableOK
  <2>3. /\ Ids({memory'[b].slot[2]}) = Ids({memory[b].slot[2]})
        /\ memory'[b].slot[1] # Nil /\ memory'[b].slot[1][2] = memory[b].slot[1][2]
    BY <1>0, <2>1, <2>2, FollowIds
  <2> QED
    BY <2>1, <2>3 DEF ToNext
<1>t. "table" \in Static /\ static["table"] \in Value /\ static'["table"] = Follow(static["table"])
  BY <1>0, MinorRoots DEF Static, Entered
<1>1. /\ Buckets' = Buckets
      /\ \A b \in Buckets : Chain(memory', memory'[b].slot[2]) = Chain(memory, memory[b].slot[2])
  <2>1. Ids({static'["table"]}) = Ids({static["table"]})
    BY <1>0, <1>t, FollowIds
  <2> QED
    BY <1>0, <1>b, <2>1, SameBuckets
<1>2. TableOK'
  <2>1. ToNext(static'["table"], Linking)
    <3>1. To(static["table"], Linking)
      BY <1>0 DEF TableOK
    <3> QED
      BY <1>t, <3>1, MinorRoots
  <2>2. /\ To(static["table"], Linking)' <=> ToNext(static'["table"], Linking)
        /\ \A x, i : To(memory[x].slot[i], {"symbol"})' <=> ToNext(memory'[x].slot[i], {"symbol"})
        /\ \A x, i : To(memory[x].slot[i], Linking)' <=> ToNext(memory'[x].slot[i], Linking)
    BY DEF To, ToNext, Pointer
  <2> QED
    BY <1>b, <1>1, <2>1, <2>2 DEF TableOK
<1>o. /\ DOMAIN nursery' = {}
      /\ \A o \in DOMAIN memory' :
           o \in DOMAIN memory /\ memory'[o].tag = memory[o].tag /\ memory'[o].name = memory[o].name
  BY MinorObjects
<1>3. PairsIn'
  BY <1>0, <1>o, <1>1 DEF PairsIn
<1>4. Acyclic'
  BY <1>0, <1>1 DEF Acyclic
<1>5. \A b \in Buckets : SymbolOf(b)' = SymbolOf(b) /\ SymbolOf(b) \in DOMAIN memory'
  BY <1>b DEF SymbolOf
<1>6. Listed'
  BY <1>0, <1>o, <1>1, <1>5 DEF Listed
<1>7. Distinct'
  BY <1>0, <1>o, <1>1, <1>5 DEF Distinct
<1> QED
  BY <1>1, <1>2, <1>3, <1>4, <1>6, <1>7 DEF TableInv

(* It keeps a locative in the table exactly if its object has moved.       *)
LEMMA MinorLocatives ==
  ASSUME HInv, MinorGC
  PROVE  LocativesOK'
<1>0. Types /\ LocativesOK /\ Cells
  BY DEF HInv, Types
<1>o. /\ DOMAIN nursery' = {} /\ DOMAIN memory' = DOMAIN heap \union MinorLive
      /\ \A o \in DOMAIN memory' : o \in DOMAIN memory /\ memory'[o].tag = memory[o].tag
      /\ \A l \in locatives' : l \in MovedLocatives /\ memory'[l[2]].slot[1] # Nil
  BY MinorObjects
<1>1. ASSUME NEW l \in locatives'
      PROVE  l # Nil /\ ToNext(l, {"locative"}) /\ memory'[l[2]].slot[1] # Nil
  <2>1. /\ l = Old(l[2]) /\ l[2] \in DOMAIN memory' /\ l \in Value \ {Nil}
        /\ memory[l[2]].tag = "locative"
    BY <1>0, <1>o, MovedAre
  <2> QED
    BY <1>o, <2>1 DEF ToNext
<1>2. ASSUME NEW o \in DOMAIN memory', memory'[o].tag = "locative", memory'[o].slot[1] # Nil
      PROVE  Pointer(o)' \in locatives'
  <2>1. memory[o].tag = "locative" /\ o \in DOMAIN memory
    BY <1>2, <1>o
  <2>2. 1 \in DOMAIN memory[o].slot
    <3>1. IsCell(memory[o])
      BY <1>0, <2>1, Objects
    <3> QED
      BY <2>1, <3>1 DEF IsCell, SlotsOf
  <2>3. Old(o) \in locatives'
    BY <1>2, <2>1, <2>2, MinorObjects
  <2> QED
    BY <1>o, <2>3 DEF Pointer
<1>3. \A l : To(l, {"locative"})' <=> ToNext(l, {"locative"})
  BY DEF To, ToNext, Pointer
<1> QED
  BY <1>1, <1>2, <1>3 DEF LocativesOK

(* It leaves nothing young to point to.                                    *)
LEMMA MinorTracked ==
  ASSUME HInv, MinorGC
  PROVE  MutationsTracked'
<1>0. Types /\ TableOK /\ ContentsOK /\ PairsIn /\ HeldOK /\ Cells /\ Buckets' = Buckets
  BY MinorTable DEF HInv, Types, TableInv
<1>1. ASSUME NEW s \in Static PROVE ~IsYoung(static'[s])
  <2>1. \E tags : To(static[s], tags)
    BY <1>0 DEF HeldOK, TableOK
  <2> QED
    BY <2>1, MinorRoots
<1>2. ASSUME NEW o \in DOMAIN heap', NEW i \in TracedSlots(heap'[o], TRUE),
             heap'[o].tag = "weak" => o \in Buckets
      PROVE  ~IsYoung(heap'[o].slot[i])
  <2>1. o \in DOMAIN memory'
    BY <1>2 DEF memory
  <2>2. /\ o \in DOMAIN memory /\ memory'[o] = heap'[o] /\ IsCell(heap'[o])
        /\ memory'[o].tag = memory[o].tag
    BY <2>1, MinorObjects
  <2>3. IsCell(memory[o])
    BY <1>0, <2>2, Objects
  <2>4. /\ TracedSlots(heap'[o], TRUE) \subseteq DOMAIN memory[o].slot
        /\ heap'[o].tag = "locative" => i # 1
    <3>0. heap'[o].tag \in CellTags /\ DOMAIN memory[o].slot = SlotsOf(heap'[o].tag)
      BY <2>2, <2>3, TracedIs
    <3>1. CASE heap'[o].tag = "locative"
      <4>1. TracedSlots(heap'[o], TRUE) = {2}
        BY <2>2, <3>1, TracedIs
      <4>2. DOMAIN memory[o].slot = {1, 2} /\ i = 2
        BY <1>2, <3>0, <3>1, <4>1 DEF SlotsOf
      <4>3. {2} \subseteq {1, 2} /\ 2 # 1
        OBVIOUS
      <4>4. TracedSlots(heap'[o], TRUE) \subseteq DOMAIN memory[o].slot
        BY <4>1, <4>2, <4>3, Zenon
      <4> QED
        BY <4>2, <4>3, <4>4, Zenon
    <3>2. CASE heap'[o].tag \in {"weak", "pair"}
      BY <2>2, <3>0, <3>2, TracedIs DEF SlotsOf
    <3>3. CASE heap'[o].tag \in {"block", "symbol"}
      BY <2>2, <3>0, <3>3, TracedIs DEF SlotsOf
    <3> QED
      BY <3>0, <3>1, <3>2, <3>3 DEF CellTags
  <2>5. i \in DOMAIN memory[o].slot /\ ~(memory[o].tag = "locative" /\ i = 1)
    BY <1>2, <2>2, <2>4
  <2>6. \E tags : To(memory[o].slot[i], tags)
    <3>1. CASE memory[o].tag \in Plain
      BY <1>0, <2>2, <2>5, <3>1 DEF ContentsOK
    <3>2. CASE memory[o].tag \notin Plain
      <4>1. memory[o].tag \in {"weak", "pair"}
        BY <2>3, <3>2 DEF IsCell, CellTags, Plain
      <4>2. o \in Buckets
        BY <1>0, <1>2, <2>2, <4>1 DEF PairsIn
      <4>3. i \in {1, 2}
        BY <2>3, <2>5, <4>1 DEF IsCell, SlotsOf
      <4>4. To(memory[o].slot[1], {"symbol"}) /\ To(memory[o].slot[2], Linking)
        BY <1>0, <4>2 DEF TableOK
      <4> QED
        BY <4>3, <4>4
    <3> QED
      BY <3>1, <3>2
  <2>7. ~IsYoung(memory'[o].slot[i])
    BY <1>2, <2>1, <2>2, <2>5, <2>6, MinorSlots
  <2> QED
    BY <2>2, <2>7
<1> QED
  BY <1>0, <1>1, <1>2 DEF MutationsTracked

(* So it keeps the invariant.                                              *)
LEMMA MinorGCStep ==
  ASSUME HInv, MinorGC
  PROVE  HInv'
BY MinorTypes, MinorHeld, MinorTable, MinorLocatives, MinorTracked DEF HInv

-----------------------------------------------------------------------------
(* Major collections.                                                      *)

(* What object-become! may do: blocks become other blocks.                 *)
Becoming(became) ==
  /\ \A o \in DOMAIN became : o \in DOMAIN memory /\ memory[o].tag = "block"
  /\ \A o \in DOMAIN became :
       became[o] # Nil /\ To(became[o], {"block"}) /\ became[o][2] \notin DOMAIN became

(* A pointer that is replaced is one to a block, before and after.         *)
LEMMA BecameIs ==
  ASSUME Cells, NEW became, Becoming(became)
  PROVE  /\ Became(became, Nil) = Nil
         /\ \A v \in Value : Became(became, v) \in Value /\ (Became(became, v) = Nil <=> v = Nil)
         /\ \A v : To(v, Plain) => To(Became(became, v), Plain)
         /\ \A v : To(v, {"symbol"}) \/ To(v, {"locative"}) \/ To(v, Linking)
                     => Became(became, v) = v
         /\ \A v : Became(became, Became(became, v)) = Became(became, v)
<1>1. \A o \in DOMAIN became : /\ became[o] # Nil /\ became[o] \in Value
                               /\ To(became[o], {"block"}) /\ To(became[o], Plain)
  BY DEF Becoming, To, Plain
<1>2. \A v : v # Nil /\ (To(v, {"symbol"}) \/ To(v, {"locative"}) \/ To(v, Linking))
               => v[2] \notin DOMAIN became
  BY DEF Becoming, To, Linking
<1>3. Became(became, Nil) = Nil
  BY DEF Became
<1>4. \A v \in Value : Became(became, v) \in Value /\ (Became(became, v) = Nil <=> v = Nil)
  BY <1>1 DEF Became
<1>5. \A v : To(v, Plain) => To(Became(became, v), Plain)
  BY <1>1 DEF Became
<1>6. \A v : To(v, {"symbol"}) \/ To(v, {"locative"}) \/ To(v, Linking) => Became(became, v) = v
  BY <1>2 DEF Became
<1>7. \A v : Became(became, Became(became, v)) = Became(became, v)
  BY DEF Became, Becoming
<1> QED
  BY <1>3, <1>4, <1>5, <1>6, <1>7

(* The memory in which the pointers have been replaced.                    *)
LEMMA MemoryAfterIs ==
  ASSUME Cells, NEW became, Becoming(became)
  PROVE  /\ DOMAIN MemoryAfter(became) = DOMAIN memory
         /\ \A o \in DOMAIN memory :
              /\ IsCell(MemoryAfter(became)[o])
              /\ MemoryAfter(became)[o].tag = memory[o].tag
              /\ MemoryAfter(became)[o].name = memory[o].name
              /\ DOMAIN MemoryAfter(became)[o].slot = DOMAIN memory[o].slot
              /\ \A i \in DOMAIN memory[o].slot :
                   MemoryAfter(became)[o].slot[i] = Became(became, memory[o].slot[i])
<1>1. DOMAIN MemoryAfter(became) = DOMAIN memory
  BY DEF MemoryAfter
<1>2. ASSUME NEW o \in DOMAIN memory
      PROVE  /\ IsCell(MemoryAfter(became)[o])
             /\ MemoryAfter(became)[o].tag = memory[o].tag
             /\ MemoryAfter(became)[o].name = memory[o].name
             /\ DOMAIN MemoryAfter(became)[o].slot = DOMAIN memory[o].slot
             /\ \A i \in DOMAIN memory[o].slot :
                  MemoryAfter(became)[o].slot[i] = Became(became, memory[o].slot[i])
  <2> DEFINE slot == [i \in DOMAIN memory[o].slot |-> Became(became, memory[o].slot[i])]
  <2>1. IsCell(memory[o])
    BY Objects
  <2>2. MemoryAfter(became)[o] = [memory[o] EXCEPT !.slot = slot]
    BY DEF MemoryAfter
  <2>3. /\ DOMAIN slot = DOMAIN memory[o].slot
        /\ \A i \in DOMAIN memory[o].slot : slot[i] = Became(became, memory[o].slot[i])
    OBVIOUS
  <2>4. /\ DOMAIN memory[o].slot = SlotsOf(memory[o].tag)
        /\ \A i \in DOMAIN memory[o].slot : memory[o].slot[i] \in Value
    BY <2>1, TracedIs
  <2>5. slot \in [SlotsOf(memory[o].tag) -> Value]
    BY <2>4, BecameIs
  <2> HIDE DEF slot
  <2>6. MemoryAfter(became)[o] = Cell(memory[o].tag, memory[o].name, slot)
    BY <2>1, <2>2, CellChanged
  <2>7. /\ MemoryAfter(became)[o].tag = memory[o].tag
        /\ MemoryAfter(became)[o].name = memory[o].name
        /\ MemoryAfter(became)[o].slot = slot
    BY <2>6, CellParts
  <2>8. IsCell(MemoryAfter(became)[o])
    BY <2>1, <2>5, <2>6, <2>7 DEF IsCell
  <2> QED
    BY <2>3, <2>7, <2>8
<1> QED
  BY <1>1, <1>2

(* It has the same buckets.                                                *)
LEMMA BucketsAfter ==
  ASSUME Cells, TableOK, NEW became, Becoming(became)
  PROVE  /\ Buckets \subseteq DOMAIN memory
         /\ Ids({static["table"]}) \subseteq Buckets
         /\ \A b \in Buckets :
              /\ IsCell(memory[b]) /\ memory[b].tag \in Linking /\ DOMAIN memory[b].slot = {1, 2}
              /\ memory[b].slot[1] # Nil /\ To(memory[b].slot[1], {"symbol"})
              /\ To(memory[b].slot[2], Linking)
              /\ MemoryAfter(became)[b].slot[1] = memory[b].slot[1]
              /\ MemoryAfter(became)[b].slot[2] = memory[b].slot[2]
              /\ Rest(memory, b) = Ids({memory[b].slot[2]})
              /\ Rest(MemoryAfter(became), b) = Ids({memory[b].slot[2]})
              /\ Ids({memory[b].slot[2]}) \subseteq Buckets
         /\ \A v : Ids({v}) \subseteq Buckets => Chain(MemoryAfter(became), v) = Chain(memory, v)
<1> DEFINE mem == MemoryAfter(became)
<1>0. Buckets \subseteq DOMAIN memory
  BY ChainIsClosed DEF Buckets
<1>1. ASSUME NEW v, To(v, Linking) PROVE Ids({v}) \subseteq DOMAIN memory
  BY <1>1, IdsOf DEF To
<1>2. Ids({static["table"]}) \subseteq Buckets
  BY <1>1, ChainIsClosed DEF Buckets, TableOK
<1>3. ASSUME NEW b \in Buckets
      PROVE  /\ IsCell(memory[b]) /\ memory[b].tag \in Linking /\ DOMAIN memory[b].slot = {1, 2}
             /\ memory[b].slot[1] # Nil /\ To(memory[b].slot[1], {"symbol"})
             /\ To(memory[b].slot[2], Linking)
             /\ mem[b].slot[1] = memory[b].slot[1]
             /\ mem[b].slot[2] = memory[b].slot[2]
             /\ Rest(memory, b) = Ids({memory[b].slot[2]})
             /\ Rest(mem, b) = Ids({memory[b].slot[2]})
             /\ Ids({memory[b].slot[2]}) \subseteq Buckets
  <2>1. IsCell(memory[b]) /\ memory[b].tag \in Linking
    BY <1>0, Objects DEF TableOK
  <2>2. DOMAIN memory[b].slot = {1, 2}
    BY <2>1, TracedIs DEF SlotsOf, Linking
  <2>3. /\ memory[b].slot[1] # Nil /\ To(memory[b].slot[1], {"symbol"})
        /\ To(memory[b].slot[2], Linking)
    BY DEF TableOK
  <2>4. /\ DOMAIN mem[b].slot = {1, 2}
        /\ mem[b].slot[1] = memory[b].slot[1] /\ mem[b].slot[2] = memory[b].slot[2]
    BY <1>0, <2>2, <2>3, MemoryAfterIs, BecameIs
  <2>5. Rest(memory, b) = Ids({memory[b].slot[2]}) /\ Rest(mem, b) = Ids({memory[b].slot[2]})
    <3> HIDE DEF mem
    <3> QED
      BY <2>2, <2>4, RestOfTwo
  <2>6. Ids({memory[b].slot[2]}) \subseteq Buckets
    BY <1>1, <2>3, <2>5, ChainIsClosed DEF Buckets
  <2> QED
    BY <2>1, <2>2, <2>3, <2>4, <2>5, <2>6
<1>4. ASSUME NEW v, Ids({v}) \subseteq Buckets
      PROVE  Chain(mem, v) = Chain(memory, v)
  <2>1. DOMAIN mem = DOMAIN memory
    BY MemoryAfterIs
  <2>2. Chain(memory, v) \subseteq Buckets
    BY <1>4, ChainGoesOn DEF Buckets
  <2>3. \A b \in Chain(memory, v) : b \in DOMAIN mem
          /\ Rest(memory, b) \intersect DOMAIN memory = Rest(mem, b) \intersect DOMAIN mem
    BY <1>0, <1>3, <2>1, <2>2
  <2>4. Ids({v}) \intersect DOMAIN memory = Ids({v}) \intersect DOMAIN mem
    BY <2>1
  <2> HIDE DEF mem
  <2> QED
    BY <2>3, <2>4, ChainIsLocal
<1> QED
  BY <1>0, <1>2, <1>3, <1>4

(* The chain from a bucket on, itself included.                            *)
ChainFrom(b) == {b} \union Chain(memory, memory[b].slot[2])

(* What starts at a pointer to a bucket is the bucket and its rest.        *)
LEMMA ChainStarts ==
  ASSUME Cells, TableOK, Becoming(Empty), NEW v, v # Nil, To(v, Linking), v[2] \in Buckets
  PROVE  Chain(memory, v) = ChainFrom(v[2])
<1> DEFINE b == v[2]
<1>0. /\ b \in DOMAIN memory /\ Ids({v}) = {b} /\ Rest(memory, b) = Ids({memory[b].slot[2]})
      /\ Ids({memory[b].slot[2]}) \subseteq DOMAIN memory
  BY BucketsAfter, IdsOf
<1>1. b \in Chain(memory, v)
  BY <1>0, ChainIsClosed
<1>2. Chain(memory, memory[b].slot[2]) \subseteq Chain(memory, v)
  BY <1>0, <1>1, ChainIsClosed, ChainGoesOn
<1>3. Chain(memory, v) \subseteq ChainFrom(b)
  <2>1. Ids({v}) \intersect DOMAIN memory \subseteq ChainFrom(b)
    BY <1>0 DEF ChainFrom
  <2>2. ASSUME NEW c \in ChainFrom(b)
        PROVE  Rest(memory, c) \intersect DOMAIN memory \subseteq ChainFrom(b)
    <3>1. CASE c = b
      BY <1>0, <3>1, ChainIsClosed DEF ChainFrom
    <3>2. CASE c \in Chain(memory, memory[b].slot[2])
      BY <3>2, ChainIsClosed DEF ChainFrom
    <3> QED
      BY <3>1, <3>2 DEF ChainFrom
  <2> QED
    BY <2>1, <2>2, ChainIsLeast
<1> QED
  BY <1>1, <1>2, <1>3 DEF ChainFrom

(* The order of the buckets is one.                                        *)
LEMMA ChainOrder ==
  ASSUME Cells, TableOK, Acyclic, Becoming(Empty),
         NEW b \in Buckets, NEW c \in Buckets, c \in ChainFrom(b), b \in ChainFrom(c)
  PROVE  b = c
<1> SUFFICES ASSUME b # c PROVE FALSE
  OBVIOUS
<1>1. c \in Chain(memory, memory[b].slot[2]) /\ b \in Chain(memory, memory[c].slot[2])
  BY DEF ChainFrom
<1>2. Rest(memory, c) = Ids({memory[c].slot[2]})
  BY BucketsAfter
<1>3. Chain(memory, memory[c].slot[2]) \subseteq Chain(memory, memory[b].slot[2])
  BY <1>1, <1>2, ChainIsClosed, ChainGoesOn
<1> QED
  BY <1>1, <1>3 DEF Acyclic

(* The buckets of a chain are what its links point to.                     *)
LEMMA ChainIsLinked ==
  ASSUME Cells, TableOK, NEW became, Becoming(became), NEW v, To(v, Linking), Ids({v}) \subseteq Buckets,
         NEW b \in Chain(memory, v)
  PROVE  \E p \in Links(MemoryAfter(became), v) : p # Nil /\ To(p, Linking) /\ p[2] = b
<1> DEFINE mem == MemoryAfter(became)
           good == {p \in Links(mem, v) : p # Nil /\ To(p, Linking)}
           s == {c \in Chain(memory, v) : \E p \in good : p[2] = c}
<1>1. Chain(memory, v) \subseteq Buckets /\ Chain(mem, v) = Chain(memory, v)
  BY ChainGoesOn, BucketsAfter DEF Buckets
<1>2. Ids({v}) \intersect DOMAIN memory \subseteq s
  <2> SUFFICES ASSUME v # Nil, v[2] \in DOMAIN memory PROVE v[2] \in s
    BY IdsOf
  <2>1. v \in good
    BY MemoryAfterIs DEF Links
  <2>2. v[2] \in Chain(memory, v)
    BY IdsOf, ChainIsClosed
  <2> QED
    BY <2>1, <2>2
<1>3. ASSUME NEW c \in s PROVE Rest(memory, c) \intersect DOMAIN memory \subseteq s
  <2> DEFINE w == memory[c].slot[2]
  <2>1. /\ c \in Buckets /\ Rest(memory, c) = Ids({w}) /\ mem[c].slot[2] = w /\ To(w, Linking)
        /\ c \in Chain(mem, v)
    BY <1>1, BucketsAfter
  <2>2. Rest(memory, c) \intersect DOMAIN memory \subseteq Chain(memory, v)
    BY ChainIsClosed
  <2>3. w # Nil => w \in good
    BY <2>1, MemoryAfterIs DEF Links, To
  <2> QED
    BY <2>1, <2>2, <2>3, IdsOf
<1>4. Chain(memory, v) \subseteq s
  <2> HIDE DEF s
  <2> QED
    BY <1>2, <1>3, ChainIsLeast
<1> QED
  BY <1>4

(* The next kept bucket: the first of those from v on whose symbol is.     *)
Stays(kept, v) == {b \in Chain(memory, v) : SymbolOf(b) \in kept}

(* It is there if any is, and the others come after it.                    *)
LEMMA NextKeptIs ==
  ASSUME Cells, TableOK, NEW became, Becoming(became), Becoming(Empty), NEW kept,
         NEW v, To(v, Linking), Ids({v}) \subseteq Buckets
  PROVE  LET n == NextKept(MemoryAfter(became), kept, v) IN
         IF Stays(kept, v) = {} THEN n = Nil
         ELSE /\ n # Nil /\ To(n, Linking) /\ n[2] \in Stays(kept, v) /\ n[2] \in Buckets
              /\ Stays(kept, v) \subseteq ChainFrom(n[2])
<1> DEFINE mem == MemoryAfter(became)
           S == Stays(kept, v)
           n == NextKept(mem, kept, v)
<1>1. Chain(memory, v) \subseteq Buckets /\ Chain(mem, v) = Chain(memory, v)
  BY ChainGoesOn, BucketsAfter DEF Buckets
<1>2. {b \in Chain(mem, v) : mem[b].slot[1][2] \in kept} = S
  BY <1>1, BucketsAfter DEF Stays, SymbolOf
<1>3. n = IF S = {} THEN Nil
          ELSE CHOOSE p \in Links(mem, v) : p[2] \in S /\ S \subseteq Chain(mem, p)
  <2> DEFINE T == {b \in Chain(mem, v) : mem[b].slot[1][2] \in kept}
             first(U) == IF U = {} THEN Nil
                         ELSE CHOOSE p \in Links(mem, v) : p[2] \in U /\ U \subseteq Chain(mem, p)
  <2>1. n = first(T)
    BY DEF NextKept
  <2>2. T = S
    BY <1>2
  <2>3. n = first(S)
    <3> HIDE DEF T, S, n, first
    <3> QED
      BY <2>1, <2>2
  <2> QED
    BY <2>3
<1>4. ASSUME NEW p \in Links(mem, v)
      PROVE  p # Nil /\ To(p, Linking)
  <2>1. p # Nil /\ (p = v \/ \E b \in Chain(mem, v) : p = mem[b].slot[2])
    BY DEF Links
  <2>2. ASSUME NEW b \in Buckets, p = mem[b].slot[2] PROVE To(p, Linking)
    BY <2>2, BucketsAfter
  <2> QED
    BY <1>1, <2>1, <2>2
<1>5. ASSUME NEW p, p # Nil, To(p, Linking), p[2] \in Buckets
      PROVE  Chain(mem, p) = ChainFrom(p[2])
  <2>1. Ids({p}) \subseteq Buckets
    BY <1>5, IdsOf
  <2> QED
    BY <1>5, <2>1, BucketsAfter, ChainStarts
<1>6. S # {} => \E p \in Links(mem, v) : p[2] \in S /\ S \subseteq Chain(mem, p)
  <2> SUFFICES ASSUME S # {}, \A p \in Links(mem, v) : ~(p[2] \in S /\ S \subseteq Chain(mem, p))
               PROVE  FALSE
    OBVIOUS
  <2> DEFINE s == {b \in Chain(memory, v) : S \subseteq ChainFrom(b)}
  <2>1. \A b \in s : b \notin S
    <3> SUFFICES ASSUME NEW b \in s, b \in S PROVE FALSE
      OBVIOUS
    <3>1. PICK p \in Links(mem, v) : p # Nil /\ To(p, Linking) /\ p[2] = b
      BY ChainIsLinked
    <3>2. Chain(mem, p) = ChainFrom(b)
      BY <1>1, <1>5, <3>1
    <3> QED
      BY <3>1, <3>2
  <2>2. Ids({v}) \intersect DOMAIN memory \subseteq s
    <3> SUFFICES ASSUME v # Nil, v[2] \in DOMAIN memory PROVE v[2] \in s
      BY IdsOf
    <3>1. v[2] \in Chain(memory, v)
      BY IdsOf, ChainIsClosed
    <3>2. Chain(memory, v) = ChainFrom(v[2])
      BY <1>1, <3>1, ChainStarts
    <3> QED
      BY <3>1, <3>2 DEF Stays
  <2>3. ASSUME NEW b \in s PROVE Rest(memory, b) \intersect DOMAIN memory \subseteq s
    <3> DEFINE w == memory[b].slot[2]
    <3>1. b \in Buckets /\ Rest(memory, b) = Ids({w}) /\ To(w, Linking) /\ Ids({w}) \subseteq Buckets
      BY <1>1, BucketsAfter
    <3>2. S \subseteq Chain(memory, w)
      BY <2>1 DEF ChainFrom
    <3>3. Rest(memory, b) \intersect DOMAIN memory \subseteq Chain(memory, v)
      BY ChainIsClosed
    <3> SUFFICES ASSUME w # Nil, w[2] \in DOMAIN memory PROVE w[2] \in s
      BY <3>1, IdsOf
    <3>4. w[2] \in Ids({w})
      BY IdsOf
    <3>5. Chain(memory, w) = ChainFrom(w[2])
      BY <3>1, <3>4, ChainStarts
    <3> QED
      BY <3>1, <3>2, <3>3, <3>4, <3>5
  <2>4. Chain(memory, v) \subseteq s
    <3> HIDE DEF s, S
    <3> QED
      BY <2>2, <2>3, ChainIsLeast
  <2> QED
    BY <2>1, <2>4 DEF Stays
<1>7. CASE S = {}
  BY <1>3, <1>7
<1>8. CASE S # {}
  <2>1. n \in Links(mem, v) /\ n[2] \in S /\ S \subseteq Chain(mem, n)
    <3> HIDE DEF n, S, mem
    <3> QED
      BY <1>3, <1>6, <1>8
  <2>2. n # Nil /\ To(n, Linking) /\ n[2] \in Buckets
    BY <1>1, <1>4, <2>1 DEF Stays
  <2>3. Chain(mem, n) = ChainFrom(n[2])
    <3> HIDE DEF n
    <3> QED
      BY <1>5, <2>2
  <2> QED
    BY <1>8, <2>1, <2>2, <2>3
<1> QED
  BY <1>7, <1>8

(* A pointer after the move.                                               *)
Settled(kept, copied, w) ==
  IF w = Nil THEN Nil
  ELSE IF w[2] \in kept THEN Old(w[2])
  ELSE IF IsYoung(w) /\ w[2] \in copied THEN Gone(w[2]) ELSE w

(* A pointer to a survivor is one into the new half, and no pointer        *)
(* becomes one to another object.                                          *)
LEMMA SettledIs ==
  ASSUME NEW kept, NEW copied
  PROVE  /\ Settled(kept, copied, Nil) = Nil
         /\ \A w \in Value : /\ Settled(kept, copied, w) \in Value
                             /\ Settled(kept, copied, w) = Nil <=> w = Nil
                             /\ w # Nil => Settled(kept, copied, w)[2] = w[2]
         /\ \A w : w # Nil /\ w[2] \in kept => Settled(kept, copied, w) = Old(w[2])
<1>1. \A o \in Obj : /\ Old(o) \in Value \ {Nil} /\ Old(o)[2] = o
                     /\ Gone(o) \in Value \ {Nil} /\ Gone(o)[2] = o
  BY HeapAssumption DEF Old, Gone, Value
<1>2. \A w \in Value \ {Nil} : w[2] \in Obj
  BY DEF Value
<1>3. \A w \in Value : w = Nil \/ w \in Value \ {Nil}
  OBVIOUS
<1> QED
  BY <1>1, <1>2, <1>3 DEF Settled

(* The slots of a kept object.                                             *)
SlotAfter(became, kept, copied, lost, o, i) ==
  LET mem == MemoryAfter(became) IN
  IF o \in lost /\ i = 1 THEN Nil
  ELSE IF o \in Buckets /\ i = 2
       THEN Settled(kept, copied, NextKept(mem, kept, memory[o].slot[2]))
       ELSE Settled(kept, copied, Became(became, memory[o].slot[i]))

(* What an evacuation does.                                                *)
LEMMA EvacuateIs ==
  ASSUME Cells, TableOK, Entered, NEW became, Becoming(became), Becoming(Empty),
         NEW kept, kept \subseteq DOMAIN memory, NEW copied, NEW table, NEW lost,
         lost \intersect Buckets = {}, NEW nodes,
         Evacuate(became, kept, copied, table, lost, nodes)
  PROVE  /\ DOMAIN nursery' = {} /\ DOMAIN heap' = kept /\ DOMAIN memory' = kept /\ mutations' = {}
         /\ \A o \in kept :
              /\ IsCell(heap'[o]) /\ memory'[o] = heap'[o]
              /\ memory'[o].tag = memory[o].tag /\ memory'[o].name = memory[o].name
              /\ DOMAIN memory'[o].slot = DOMAIN memory[o].slot
              /\ \A i \in DOMAIN memory[o].slot :
                   memory'[o].slot[i] = SlotAfter(became, kept, copied, lost, o, i)
         /\ reg' = [r \in Reg |-> Settled(kept, copied, Became(became, reg[r]))]
         /\ static' = [s \in Static |->
                         IF s \in nodes THEN Nil
                         ELSE IF s = "table"
                         THEN Settled(kept, copied, NextKept(MemoryAfter(became), kept, static["table"]))
                         ELSE Settled(kept, copied, Became(became, static[s]))]
         /\ locatives' = {Settled(kept, copied, Became(became, l)) : l \in table}
         /\ running' = running
<1> DEFINE mem == MemoryAfter(became)
           to(v) == LET w == Became(became, v) IN
                    IF w = Nil THEN Nil
                    ELSE IF w[2] \in kept THEN Old(w[2])
                    ELSE IF IsYoung(w) /\ w[2] \in copied THEN Gone(w[2]) ELSE w
           chain == Chain(mem, static["table"])
           slots(o) ==
             LET c == [i \in DOMAIN mem[o].slot |-> to(mem[o].slot[i])]
             IN IF o \in lost THEN [c EXCEPT ![1] = Nil]
                ELSE IF o \notin chain THEN c
                ELSE [c EXCEPT ![2] = to(NextKept(mem, kept, mem[o].slot[2]))]
<1>1. /\ heap' = [o \in kept |-> [mem[o] EXCEPT !.slot = slots(o)]]
      /\ reg' = [r \in Reg |-> to(reg[r])]
      /\ static' = [s \in Static |->
                      IF s \in nodes THEN Nil
                      ELSE IF s = "table" THEN to(NextKept(mem, kept, static["table"]))
                      ELSE to(static[s])]
      /\ locatives' = {to(l) : l \in table}
      /\ nursery' = Empty /\ mutations' = {} /\ running' = running
  BY DEF Evacuate
<1>2. \A v : to(v) = Settled(kept, copied, Became(became, v))
  BY DEF Settled
<1>3. chain = Buckets
  BY BucketsAfter DEF Buckets
<1>4. /\ DOMAIN mem = DOMAIN memory
      /\ \A o \in DOMAIN memory :
           /\ IsCell(mem[o]) /\ IsCell(memory[o]) /\ mem[o].tag = memory[o].tag
           /\ mem[o].name = memory[o].name
           /\ DOMAIN mem[o].slot = DOMAIN memory[o].slot
           /\ \A i \in DOMAIN memory[o].slot : mem[o].slot[i] = Became(became, memory[o].slot[i])
  BY MemoryAfterIs, Objects
<1>n. \A v : To(v, Linking) /\ Ids({v}) \subseteq Buckets =>
        /\ NextKept(mem, kept, v) \in Value
        /\ to(NextKept(mem, kept, v)) = Settled(kept, copied, NextKept(mem, kept, v))
  <2> SUFFICES ASSUME NEW v, To(v, Linking), Ids({v}) \subseteq Buckets
               PROVE  /\ NextKept(mem, kept, v) \in Value
                      /\ to(NextKept(mem, kept, v)) = Settled(kept, copied, NextKept(mem, kept, v))
    OBVIOUS
  <2> DEFINE n == NextKept(mem, kept, v)
  <2>1. n = Nil \/ To(n, Linking)
    BY NextKeptIs
  <2>2. n \in Value
    BY <2>1 DEF To, Value
  <2>3. Became(became, n) = n
    BY <2>1, BecameIs
  <2> HIDE DEF n
  <2>4. to(n) = Settled(kept, copied, n)
    BY <1>2, <2>3
  <2> QED
    BY <2>2, <2>4 DEF n
<1> HIDE DEF to
<1>5. ASSUME NEW o \in kept
      PROVE  /\ slots(o) \in [SlotsOf(memory[o].tag) -> Value]
             /\ \A i \in SlotsOf(memory[o].tag) :
                  slots(o)[i] = SlotAfter(became, kept, copied, lost, o, i)
  <2> DEFINE c == [i \in DOMAIN mem[o].slot |-> to(mem[o].slot[i])]
             next == to(NextKept(mem, kept, mem[o].slot[2]))
  <2>0. o \in DOMAIN memory
    OBVIOUS
  <2>1. /\ DOMAIN mem[o].slot = SlotsOf(memory[o].tag) /\ SlotsOf(memory[o].tag) \subseteq {1, 2}
        /\ 1 \in SlotsOf(memory[o].tag)
        /\ DOMAIN memory[o].slot = SlotsOf(memory[o].tag)
        /\ \A i \in SlotsOf(memory[o].tag) : memory[o].slot[i] \in Value
    <3>1. IsCell(memory[o]) /\ DOMAIN mem[o].slot = DOMAIN memory[o].slot
      BY <1>4, <2>0
    <3> QED
      BY <3>1, TracedIs DEF SlotsOf
  <2>2. ASSUME NEW i \in SlotsOf(memory[o].tag)
        PROVE  /\ to(mem[o].slot[i]) = Settled(kept, copied, Became(became, memory[o].slot[i]))
               /\ to(mem[o].slot[i]) \in Value
    <3>1. mem[o].slot[i] = Became(became, memory[o].slot[i])
      BY <1>4, <2>0, <2>1
    <3>2. Became(became, mem[o].slot[i]) = Became(became, memory[o].slot[i])
      BY <3>1, BecameIs
    <3>3. Became(became, memory[o].slot[i]) \in Value
      BY <2>1, BecameIs
    <3> HIDE DEF mem
    <3> QED
      BY <1>2, <3>2, <3>3, SettledIs
  <2>3. /\ c \in [SlotsOf(memory[o].tag) -> Value]
        /\ \A i \in SlotsOf(memory[o].tag) :
             c[i] = Settled(kept, copied, Became(became, memory[o].slot[i]))
    <3> HIDE DEF mem
    <3> QED
      BY <2>1, <2>2
  <2>4. o \in Buckets =>
          /\ 2 \in SlotsOf(memory[o].tag) /\ next \in Value
          /\ next = Settled(kept, copied, NextKept(mem, kept, memory[o].slot[2]))
    <3> SUFFICES ASSUME o \in Buckets
                 PROVE  /\ 2 \in SlotsOf(memory[o].tag) /\ next \in Value
                        /\ next = Settled(kept, copied, NextKept(mem, kept, memory[o].slot[2]))
      OBVIOUS
    <3>1. /\ mem[o].slot[2] = memory[o].slot[2] /\ To(memory[o].slot[2], Linking)
          /\ Ids({memory[o].slot[2]}) \subseteq Buckets /\ memory[o].tag \in Linking
      BY BucketsAfter
    <3>2. /\ NextKept(mem, kept, memory[o].slot[2]) \in Value
          /\ next = Settled(kept, copied, NextKept(mem, kept, memory[o].slot[2]))
      <4> HIDE DEF mem
      <4> QED
        BY <1>n, <3>1
    <3> HIDE DEF mem, next
    <3> QED
      BY <3>1, <3>2, SettledIs DEF SlotsOf, Linking
  <2>5. slots(o) = IF o \in lost THEN [c EXCEPT ![1] = Nil]
                   ELSE IF o \notin Buckets THEN c ELSE [c EXCEPT ![2] = next]
    BY <1>3
  <2>6. o \in lost => o \notin Buckets
    OBVIOUS
  <2>7. \A i \in SlotsOf(memory[o].tag) :
          SlotAfter(became, kept, copied, lost, o, i) =
            IF o \in lost /\ i = 1 THEN Nil
            ELSE IF o \in Buckets /\ i = 2
            THEN Settled(kept, copied, NextKept(mem, kept, memory[o].slot[2]))
            ELSE Settled(kept, copied, Became(became, memory[o].slot[i]))
    BY DEF SlotAfter
  <2> HIDE DEF c, next, slots, mem
  <2>8. Nil \in Value
    BY DEF Value
  <2> QED
    BY <2>1, <2>3, <2>4, <2>5, <2>6, <2>7, <2>8
<1>6. /\ DOMAIN nursery' = {} /\ DOMAIN heap' = kept /\ DOMAIN memory' = kept
      /\ \A o \in kept : memory'[o] = heap'[o]
  <2>1. nursery' = Empty /\ DOMAIN heap' = kept
    BY <1>1
  <2> QED
    BY <2>1 DEF Empty, memory
<1>7. ASSUME NEW o \in kept
      PROVE  /\ IsCell(heap'[o])
             /\ memory'[o].tag = memory[o].tag /\ memory'[o].name = memory[o].name
             /\ DOMAIN memory'[o].slot = DOMAIN memory[o].slot
             /\ \A i \in DOMAIN memory[o].slot :
                   memory'[o].slot[i] = SlotAfter(became, kept, copied, lost, o, i)
  <2>1. heap'[o] = [mem[o] EXCEPT !.slot = slots(o)]
    <3> HIDE DEF slots, mem
    <3> QED
      BY <1>1
  <2>2. /\ IsCell(mem[o]) /\ mem[o].tag = memory[o].tag /\ mem[o].name = memory[o].name
        /\ IsCell(memory[o]) /\ DOMAIN memory[o].slot = SlotsOf(memory[o].tag)
    <3>1. o \in DOMAIN memory
      OBVIOUS
    <3> QED
      BY <1>4, <3>1, TracedIs
  <2> HIDE DEF slots, mem
  <2>3. heap'[o] = Cell(memory[o].tag, memory[o].name, slots(o))
    BY <2>1, <2>2, CellChanged
  <2>4. /\ heap'[o].tag = memory[o].tag /\ heap'[o].name = memory[o].name
        /\ heap'[o].slot = slots(o)
    BY <2>3, CellParts
  <2>5. IsCell(heap'[o])
    BY <1>5, <2>2, <2>3, <2>4 DEF IsCell
  <2> QED
    BY <1>5, <1>6, <2>2, <2>4, <2>5
<1>8. /\ reg' = [r \in Reg |-> Settled(kept, copied, Became(became, reg[r]))]
      /\ locatives' = {Settled(kept, copied, Became(became, l)) : l \in table}
  BY <1>1, <1>2
<1>9. static' = [s \in Static |->
                         IF s \in nodes THEN Nil
                         ELSE IF s = "table"
                         THEN Settled(kept, copied, NextKept(mem, kept, static["table"]))
                         ELSE Settled(kept, copied, Became(became, static[s]))]
  <2>1. To(static["table"], Linking) /\ Ids({static["table"]}) \subseteq Buckets
    BY BucketsAfter DEF TableOK
  <2>2. to(NextKept(mem, kept, static["table"])) = Settled(kept, copied, NextKept(mem, kept, static["table"]))
    <3> HIDE DEF mem
    <3> QED
      BY <1>n, <2>1
  <2> HIDE DEF mem
  <2> QED
    BY <1>1, <1>2, <2>2
<1> QED
  BY <1>1, <1>6, <1>7, <1>8, <1>9

(* What survives: the roots and everything it leads to.                    *)
Surviving(became, kept, minor) ==
  /\ kept \subseteq DOMAIN memory
  /\ Roots(became) \intersect DOMAIN memory \subseteq kept
  /\ LateRoots(became) \intersect DOMAIN memory \subseteq kept
  /\ \A x \in kept :
       Ids(Traced(MemoryAfter(became)[x], minor)) \intersect DOMAIN memory \subseteq kept

(* What the roots point to survives.                                       *)
LEMMA SurvivingRoots ==
  ASSUME Types, HeldOK, TableOK, NEW became, Becoming(became),
         NEW kept, NEW minor, Surviving(became, kept, minor)
  PROVE  /\ \A r \in Reg : Became(became, reg[r]) # Nil => Became(became, reg[r])[2] \in kept
         /\ \A s \in Static : Became(became, static[s]) # Nil => Became(became, static[s])[2] \in kept
         /\ \A i \in 1 .. Len(pending) :
              Became(became, pending[i]) # Nil /\ Became(became, pending[i])[2] \in kept
<1>0. Cells
  BY DEF Types
<1>1. ASSUME NEW v, To(v, Plain) \/ To(v, Linking), Became(became, v) # Nil
      PROVE  Became(became, v)[2] \in DOMAIN memory
  <2>1. To(Became(became, v), Plain) \/ To(Became(became, v), Linking)
    BY <1>0, <1>1, BecameIs
  <2> QED
    BY <1>1, <2>1 DEF To
<1>2. ASSUME NEW r \in Reg, Became(became, reg[r]) # Nil PROVE Became(became, reg[r])[2] \in kept
  <2>1. reg[r] \in Range(reg)
    BY DEF Types, Entered, Range
  <2>2. Became(became, reg[r])[2] \in Roots(became)
    BY <1>2, <2>1, IdsOf DEF Roots
  <2> QED
    BY <1>1, <1>2, <2>2 DEF Surviving, HeldOK
<1>3. ASSUME NEW s \in Static, Became(became, static[s]) # Nil
      PROVE  Became(became, static[s])[2] \in kept
  <2>1. Became(became, static[s])[2] \in Roots(became) \union LateRoots(became)
    <3>1. CASE s \in Global \union {"table"}
      BY <1>3, <3>1, IdsOf DEF Roots
    <3>2. CASE s \in FinNode \union FinRoot
      BY <1>3, <3>2, IdsOf DEF LateRoots
    <3> QED
      BY <3>1, <3>2 DEF Static
  <2>2. To(static[s], Plain) \/ To(static[s], Linking)
    BY DEF HeldOK, TableOK
  <2> QED
    BY <1>1, <1>3, <2>1, <2>2 DEF Surviving
<1>4. ASSUME NEW i \in 1 .. Len(pending)
      PROVE  Became(became, pending[i]) # Nil /\ Became(became, pending[i])[2] \in kept
  <2>1. pending[i] \in Range(pending) /\ pending[i] \in Value
    <3>1. i \in DOMAIN pending
      BY DEF Types, Queued
    <3> QED
      BY <3>1 DEF Types, Queued, Range
  <2>2. pending[i] # Nil /\ To(pending[i], Plain)
    BY DEF HeldOK
  <2>3. Became(became, pending[i]) # Nil
    BY <1>0, <2>1, <2>2, BecameIs
  <2>4. Became(became, pending[i])[2] \in Roots(became)
    BY <2>1, <2>3, IdsOf DEF Roots
  <2> QED
    BY <1>1, <2>2, <2>3, <2>4 DEF Surviving
<1> QED
  BY <1>2, <1>3, <1>4

(* What survivors point to survives.                                       *)
LEMMA SurvivingSlots ==
  ASSUME Cells, NEW became, Becoming(became), NEW kept, NEW minor, Surviving(became, kept, minor),
         NEW o \in kept, NEW i \in TracedSlots(memory[o], minor), i \in DOMAIN memory[o].slot,
         To(memory[o].slot[i], Plain) \/ To(memory[o].slot[i], Linking),
         Became(became, memory[o].slot[i]) # Nil
  PROVE  Became(became, memory[o].slot[i])[2] \in kept
<1> DEFINE mem == MemoryAfter(became)
           w == Became(became, memory[o].slot[i])
<1>1. o \in DOMAIN memory
  BY DEF Surviving
<1>2. w[2] \in DOMAIN memory
  <2>1. To(w, Plain) \/ To(w, Linking)
    BY BecameIs
  <2> QED
    BY <2>1 DEF To
<1>3. mem[o].tag = memory[o].tag /\ DOMAIN mem[o].slot = DOMAIN memory[o].slot /\ mem[o].slot[i] = w
  BY <1>1, MemoryAfterIs
<1>4. w \in Traced(mem[o], minor)
  <2>1. TracedSlots(mem[o], minor) = TracedSlots(memory[o], minor)
    BY <1>3 DEF TracedSlots
  <2> HIDE DEF mem, w
  <2> QED
    BY <1>3, <2>1 DEF Traced
<1>5. w[2] \in Ids(Traced(mem[o], minor))
  BY <1>4, IdsOf
<1> QED
  BY <1>2, <1>5 DEF Surviving

(* Buckets survive: each is reached from the one before.                   *)
LEMMA BucketsSurvive ==
  ASSUME Types, HeldOK, TableOK, NEW became, Becoming(became),
         NEW kept, NEW minor, Surviving(became, kept, minor)
  PROVE  Buckets \subseteq kept
<1>0. Cells
  BY DEF Types
<1>1. Ids({static["table"]}) \intersect DOMAIN memory \subseteq kept \intersect Buckets
  <2>1. "table" \in Static /\ To(static["table"], Linking)
    BY DEF Static, TableOK
  <2>2. Became(became, static["table"]) = static["table"]
    BY <1>0, <2>1, BecameIs
  <2>3. static["table"] # Nil => static["table"][2] \in kept
    BY <2>1, <2>2, SurvivingRoots
  <2> QED
    BY <1>0, <2>3, BucketsAfter, IdsOf
<1>2. ASSUME NEW b \in kept \intersect Buckets
      PROVE  Rest(memory, b) \intersect DOMAIN memory \subseteq kept \intersect Buckets
  <2> DEFINE w == memory[b].slot[2]
  <2>1. /\ IsCell(memory[b]) /\ memory[b].tag \in Linking /\ DOMAIN memory[b].slot = {1, 2}
        /\ To(w, Linking) /\ Rest(memory, b) = Ids({w}) /\ Ids({w}) \subseteq Buckets
    BY <1>0, BucketsAfter
  <2>2. 2 \in TracedSlots(memory[b], minor)
    BY <2>1 DEF TracedSlots
  <2>3. Became(became, w) = w
    BY <1>0, <2>1, BecameIs
  <2>4. w # Nil => w[2] \in kept
    BY <1>0, <2>1, <2>2, <2>3, SurvivingSlots
  <2> QED
    BY <2>1, <2>4, IdsOf
<1>3. Buckets \subseteq kept \intersect Buckets
  BY <1>1, <1>2, ChainIsLeast DEF Buckets
<1> QED
  BY <1>3

(* A pointer to something that has survived is one afterwards.             *)
LEMMA SettledPointer ==
  ASSUME NEW kept, NEW copied, kept \subseteq Obj,
         DOMAIN nursery' = {}, DOMAIN memory' = kept,
         \A o \in kept : memory'[o].tag = memory[o].tag
  PROVE  \A w, tags : To(w, tags) /\ (w # Nil => w[2] \in kept) =>
           /\ ToNext(Settled(kept, copied, w), tags)
           /\ ~IsYoung(Settled(kept, copied, w))
           /\ w # Nil => Settled(kept, copied, w) # Nil
           /\ Ids({Settled(kept, copied, w)}) = Ids({w})
<1> SUFFICES ASSUME NEW w, NEW tags, To(w, tags), w # Nil => w[2] \in kept
             PROVE  /\ ToNext(Settled(kept, copied, w), tags)
                    /\ ~IsYoung(Settled(kept, copied, w))
                    /\ w # Nil => Settled(kept, copied, w) # Nil
                    /\ Ids({Settled(kept, copied, w)}) = Ids({w})
  OBVIOUS
<1>o. \A o \in Obj : Old(o) \in Value \ {Nil} /\ ~IsYoung(Old(o)) /\ Old(o)[2] = o
  BY HeapAssumption DEF Old, Value, IsYoung
<1>1. CASE w = Nil
  BY <1>1 DEF ToNext, Settled, IsYoung
<1>2. CASE w # Nil
  <2>1. w \in Value /\ w[2] \in kept /\ memory[w[2]].tag \in tags
    BY <1>2 DEF To
  <2>2. Settled(kept, copied, w) = Old(w[2])
    BY <1>2, <2>1 DEF Settled
  <2>3. Old(w[2]) \in Value \ {Nil} /\ ~IsYoung(Old(w[2])) /\ Old(w[2])[2] = w[2]
    BY <1>o, <2>1
  <2>4. Ids({Settled(kept, copied, w)}) = Ids({w})
    BY <1>2, <2>2, <2>3, IdsOf
  <2> QED
    BY <2>1, <2>2, <2>3, <2>4 DEF ToNext
<1> QED
  BY <1>1, <1>2

(* Any collection but that of object-become! replaces nothing.             *)
LEMMA NothingBecomes == Becoming(Empty)
BY DEF Becoming, Empty

(* The buckets whose symbol survives.                                      *)
KeptBuckets(kept) == {b \in Buckets : SymbolOf(b) \in kept}

(* The head of a chain afterwards.                                         *)
HeadAfter(became, kept, copied, v) ==
  Settled(kept, copied, NextKept(MemoryAfter(became), kept, v))

(* The head of the chain, or a pointer in it.                              *)
IsLink(v) == To(v, Linking) /\ Ids({v}) \subseteq Buckets

(* It is the first kept bucket, in the new half.                           *)
LEMMA HeadAfterIs ==
  ASSUME Cells, TableOK, NEW became, Becoming(became), NEW kept, NEW copied,
         Buckets \subseteq kept, kept \subseteq DOMAIN memory,
         DOMAIN nursery' = {}, DOMAIN memory' = kept,
         \A o \in kept : memory'[o].tag = memory[o].tag
  PROVE  \A v : IsLink(v) =>
           /\ ToNext(HeadAfter(became, kept, copied, v), Linking)
           /\ ~IsYoung(HeadAfter(became, kept, copied, v))
           /\ Ids({HeadAfter(became, kept, copied, v)}) \subseteq Stays(kept, v)
           /\ Stays(kept, v) \subseteq KeptBuckets(kept)
           /\ Stays(kept, v) = {} => HeadAfter(became, kept, copied, v) = Nil
           /\ Stays(kept, v) # {} =>
                \E n \in Stays(kept, v) : /\ Ids({HeadAfter(became, kept, copied, v)}) = {n}
                                          /\ Stays(kept, v) \subseteq ChainFrom(n)
<1> SUFFICES ASSUME NEW v, IsLink(v)
             PROVE  /\ ToNext(HeadAfter(became, kept, copied, v), Linking)
                    /\ ~IsYoung(HeadAfter(became, kept, copied, v))
                    /\ Ids({HeadAfter(became, kept, copied, v)}) \subseteq Stays(kept, v)
                    /\ Stays(kept, v) \subseteq KeptBuckets(kept)
                    /\ Stays(kept, v) = {} => HeadAfter(became, kept, copied, v) = Nil
                    /\ Stays(kept, v) # {} =>
                         \E n \in Stays(kept, v) :
                            /\ Ids({HeadAfter(became, kept, copied, v)}) = {n}
                            /\ Stays(kept, v) \subseteq ChainFrom(n)
  OBVIOUS
<1> DEFINE n == NextKept(MemoryAfter(became), kept, v)
           h == Settled(kept, copied, n)
<1>1. IF Stays(kept, v) = {} THEN n = Nil
      ELSE /\ n # Nil /\ To(n, Linking) /\ n[2] \in Stays(kept, v) /\ n[2] \in Buckets
           /\ Stays(kept, v) \subseteq ChainFrom(n[2])
  BY NothingBecomes, NextKeptIs DEF IsLink
<1>2. Stays(kept, v) \subseteq KeptBuckets(kept)
  <2>1. Chain(memory, v) \subseteq Buckets
    BY ChainGoesOn DEF IsLink, Buckets
  <2> QED
    BY <2>1 DEF Stays, KeptBuckets
<1>3. HeadAfter(became, kept, copied, v) = h
  BY DEF HeadAfter
<1> HIDE DEF n
<1>4. To(n, Linking) /\ (n # Nil => n[2] \in kept)
  BY <1>1 DEF To
<1>5. kept \subseteq Obj
  BY MemoryIs DEF Cells
<1>6. ToNext(h, Linking) /\ ~IsYoung(h) /\ Ids({h}) = Ids({n}) /\ (n = Nil => h = Nil)
  BY <1>4, <1>5, SettledPointer DEF Settled
<1>7. Ids({n}) = IF n = Nil THEN {} ELSE {n[2]}
  BY IdsOf
<1> HIDE DEF h
<1> QED
  BY <1>1, <1>2, <1>3, <1>6, <1>7

(* The symbol table after an evacuation: the buckets whose symbols have    *)
(* survived, in the same order.                                            *)
LEMMA EvacuateChain ==
  ASSUME Cells, TableOK, Acyclic, NEW became, Becoming(became), NEW kept, NEW copied,
         Buckets \subseteq kept, kept \subseteq DOMAIN memory,
         DOMAIN nursery' = {}, DOMAIN memory' = kept,
         \A o \in kept : memory'[o].tag = memory[o].tag,
         \A b \in Buckets :
            /\ DOMAIN memory'[b].slot = {1, 2}
            /\ memory'[b].slot[2] = HeadAfter(became, kept, copied, memory[b].slot[2]),
         static'["table"] = HeadAfter(became, kept, copied, static["table"])
  PROVE  /\ Buckets' = KeptBuckets(kept)
         /\ \A v : IsLink(v) =>
              Chain(memory', HeadAfter(became, kept, copied, v)) \subseteq Chain(memory, v)
<1> DEFINE after(v) == HeadAfter(became, kept, copied, v)
           next(b) == memory[b].slot[2]
           K == KeptBuckets(kept)
<1>0. K \subseteq Buckets /\ K \subseteq kept
  BY DEF KeptBuckets
<1>n. \A v : IsLink(v) =>
           /\ ToNext(after(v), Linking)
           /\ Ids({after(v)}) \subseteq Stays(kept, v)
           /\ Stays(kept, v) \subseteq K
           /\ Stays(kept, v) = {} => after(v) = Nil
           /\ Stays(kept, v) # {} =>
                \E n \in Stays(kept, v) : Ids({after(v)}) = {n} /\ Stays(kept, v) \subseteq ChainFrom(n)
  BY HeadAfterIs
<1>l. IsLink(static["table"]) /\ \A b \in Buckets : IsLink(next(b))
  BY NothingBecomes, BucketsAfter DEF IsLink, TableOK
<1>r. \A b \in Buckets : /\ Rest(memory', b) = Ids({after(next(b))})
                         /\ Rest(memory, b) = Ids({next(b)})
  <2>1. \A b \in Buckets : Rest(memory', b) = Ids({memory'[b].slot[2]})
    BY RestOfTwo
  <2> QED
    BY <2>1, NothingBecomes, BucketsAfter
<1>c. \A v : IsLink(v) /\ v # Nil => v[2] \in Buckets /\ Chain(memory, v) = ChainFrom(v[2])
  BY NothingBecomes, ChainStarts, IdsOf DEF IsLink
<1>b. Buckets' = Chain(memory', after(static["table"]))
  BY DEF Buckets
<1> HIDE DEF after, K
<1>1. ASSUME NEW v, IsLink(v)
      PROVE  Chain(memory', after(v)) \subseteq Stays(kept, v)
  <2>1. Ids({after(v)}) \intersect DOMAIN memory' \subseteq Stays(kept, v)
    BY <1>1, <1>n
  <2>2. ASSUME NEW c \in Stays(kept, v)
        PROVE  Rest(memory', c) \intersect DOMAIN memory' \subseteq Stays(kept, v)
    <3>1. c \in Buckets /\ c \in Chain(memory, v)
      BY <1>0, <1>1, <1>n DEF Stays
    <3>2. Rest(memory', c) \subseteq Stays(kept, next(c))
      BY <1>l, <1>n, <1>r, <3>1
    <3>3. Chain(memory, next(c)) \subseteq Chain(memory, v)
      BY <1>r, <3>1, ChainIsClosed, ChainGoesOn
    <3> QED
      BY <3>2, <3>3 DEF Stays
  <2> QED
    BY <2>1, <2>2, ChainIsLeast
<1>2. Buckets' \subseteq K
  BY <1>1, <1>b, <1>l, <1>n
(* The other way round: from each bucket of the old chain on, the rest of  *)
(* the kept ones is in the new chain.                                      *)
<1>3. K \subseteq Buckets'
  <2> DEFINE s == {b \in Buckets : /\ b \in K => b \in Buckets'
                                   /\ Ids({after(next(b))}) \subseteq Buckets'}
  <2>1. ASSUME NEW v, IsLink(v), v # Nil, Ids({after(v)}) \subseteq Buckets'
        PROVE  v[2] \in s
    <3> DEFINE c == v[2]
    <3>1. c \in Buckets /\ Chain(memory, v) = ChainFrom(c) /\ IsLink(next(c))
      BY <1>c, <1>l, <2>1
    <3>2. CASE c \in K
      <4>1. c \in Stays(kept, v)
        BY <1>0, <3>1, <3>2 DEF Stays, ChainFrom, K, KeptBuckets
      <4>2. PICK n \in Stays(kept, v) : Ids({after(v)}) = {n} /\ Stays(kept, v) \subseteq ChainFrom(n)
        BY <1>n, <2>1, <4>1
      <4>3. n \in ChainFrom(c) /\ c \in ChainFrom(n) /\ n \in Buckets
        BY <1>0, <1>n, <2>1, <3>1, <4>1, <4>2 DEF Stays
      <4>4. n = c
        BY <3>1, <4>3, NothingBecomes, ChainOrder
      <4>5. c \in Buckets'
        BY <2>1, <4>2, <4>4
      <4>6. Rest(memory', c) \intersect DOMAIN memory' \subseteq Buckets'
        BY <1>b, <4>5, ChainIsClosed
      <4>7. Ids({after(next(c))}) \subseteq DOMAIN memory'
        BY <1>0, <1>n, <3>1
      <4> QED
        BY <1>r, <3>1, <4>5, <4>6, <4>7
    <3>3. CASE c \notin K
      <4>1. Stays(kept, v) = Stays(kept, next(c))
        BY <3>1, <3>3 DEF Stays, ChainFrom, K, KeptBuckets
      <4>2. CASE Stays(kept, next(c)) = {}
        <5>1. after(next(c)) = Nil
          BY <1>n, <3>1, <4>2
        <5>2. Ids({after(next(c))}) = {}
          BY <5>1, IdsOf
        <5> QED
          BY <3>1, <3>3, <5>2
      <4>3. CASE Stays(kept, next(c)) # {}
        <5>1. PICK n \in Stays(kept, v) : Ids({after(v)}) = {n} /\ Stays(kept, v) \subseteq ChainFrom(n)
          BY <1>n, <2>1, <4>1, <4>3
        <5>2. PICK m \in Stays(kept, next(c)) :
                Ids({after(next(c))}) = {m} /\ Stays(kept, next(c)) \subseteq ChainFrom(m)
          BY <1>n, <3>1, <4>3
        <5>3. n \in Buckets /\ m \in Buckets /\ n \in ChainFrom(m) /\ m \in ChainFrom(n)
          BY <1>0, <1>n, <2>1, <4>1, <5>1, <5>2
        <5>4. n = m
          BY <5>3, NothingBecomes, ChainOrder
        <5> QED
          BY <2>1, <3>1, <3>3, <5>1, <5>2, <5>4
      <4> QED
        BY <4>2, <4>3
    <3> QED
      BY <3>2, <3>3
  <2>2. Ids({static["table"]}) \intersect DOMAIN memory \subseteq s
    <3>1. Ids({after(static["table"])}) \subseteq Buckets'
      <4>1. Ids({after(static["table"])}) \subseteq DOMAIN memory'
        BY <1>0, <1>l, <1>n
      <4> QED
        BY <1>b, <4>1, ChainIsClosed
    <3> HIDE DEF s
    <3> QED
      BY <1>l, <2>1, <3>1, IdsOf
  <2>3. ASSUME NEW b \in s PROVE Rest(memory, b) \intersect DOMAIN memory \subseteq s
    <3>1. b \in Buckets /\ Ids({after(next(b))}) \subseteq Buckets'
      OBVIOUS
    <3>2. IsLink(next(b)) /\ Rest(memory, b) = Ids({next(b)})
      BY <1>l, <1>r, <3>1
    <3> HIDE DEF s
    <3> QED
      BY <2>1, <3>1, <3>2, IdsOf
  <2>4. Buckets \subseteq s
    <3> HIDE DEF s
    <3> QED
      BY <2>2, <2>3, ChainIsLeast DEF Buckets
  <2> QED
    BY <1>0, <2>4
<1>4. \A v : IsLink(v) => Chain(memory', after(v)) \subseteq Chain(memory, v)
  BY <1>1 DEF Stays
<1> QED
  BY <1>2, <1>3, <1>4 DEF after, K

(* The hypotheses about an evacuation.                                     *)
Evacuation(became, kept, minor, copied, table, nodes) ==
  /\ Becoming(became) /\ Surviving(became, kept, minor)
  /\ table \subseteq locatives
  /\ \A l \in table : /\ Forwarded(l, kept, copied)
                     /\ Forwarded(MemoryAfter(became)[l[2]].slot[1], kept, copied)
  /\ nodes \subseteq FinNode
  /\ half' \in HalfSizes /\ Cardinality(kept) <= half'
  /\ Evacuate(became, kept, copied, table, Ids(locatives \ table), nodes)

(* The locatives in the table are kept with their objects.                 *)
Followed(became, kept, table) ==
  \A l \in table : l[2] \in kept /\ MemoryAfter(became)[l[2]].slot[1][2] \in kept

(* A pointer to the copy of an object in the half that is given up.        *)
Lost(v, kept) == \E x \in Obj \ kept : v = Gone(x)

(* What it makes of the objects and of the roots.                          *)
Copies(became, kept, copied, lost) ==
  \A o \in kept :
    /\ IsCell(heap'[o]) /\ IsCell(memory[o]) /\ memory'[o] = heap'[o]
    /\ memory'[o].tag = memory[o].tag /\ memory'[o].name = memory[o].name
    /\ DOMAIN memory'[o].slot = DOMAIN memory[o].slot
    /\ \A i \in DOMAIN memory[o].slot :
         memory'[o].slot[i] = SlotAfter(became, kept, copied, lost, o, i)

(* The roots afterwards.                                                   *)
NewRoots(became, kept, copied, table, nodes) ==
  /\ reg' = [r \in Reg |-> Settled(kept, copied, Became(became, reg[r]))]
  /\ static' = [s \in Static |->
                  IF s \in nodes THEN Nil
                  ELSE IF s = "table" THEN HeadAfter(became, kept, copied, static["table"])
                  ELSE Settled(kept, copied, Became(became, static[s]))]
  /\ locatives' = {Settled(kept, copied, Became(became, l)) : l \in table}
  /\ running' = running /\ mutations' = {}

(* Everything kept is in the new half.                                     *)
Moved(kept) == DOMAIN nursery' = {} /\ DOMAIN heap' = kept /\ DOMAIN memory' = kept

(* The symbol table is kept, and nothing that was not there.               *)
Kept(kept) == Buckets \subseteq kept /\ kept \subseteq DOMAIN memory /\ kept \subseteq Obj

(* What follows of it first.                                               *)
LEMMA EvacuationIs ==
  ASSUME HInv, NEW became, NEW kept, NEW minor, NEW copied, NEW table, NEW nodes,
         Evacuation(became, kept, minor, copied, table, nodes)
  PROVE  /\ Types /\ HeldOK /\ TableOK /\ Cells /\ Entered /\ Becoming(became)
         /\ Surviving(became, kept, minor) /\ Kept(kept) /\ Moved(kept)
         /\ Copies(became, kept, copied, Ids(locatives \ table))
         /\ NewRoots(became, kept, copied, table, nodes)
         /\ Ids(locatives \ table) \intersect Buckets = {}
<1> DEFINE lost == Ids(locatives \ table)
<1>1. /\ Types /\ HeldOK /\ TableOK /\ Cells /\ Entered /\ LocativesOK
      /\ Becoming(became) /\ Surviving(became, kept, minor)
      /\ kept \subseteq DOMAIN memory /\ kept \subseteq Obj
      /\ Evacuate(became, kept, copied, table, lost, nodes)
  BY MemoryIs DEF HInv, Types, TableInv, Evacuation, Surviving, Cells
<1>2. Buckets \subseteq kept
  BY <1>1, BucketsSurvive
<1>3. lost \intersect Buckets = {}
  <2> SUFFICES ASSUME NEW l \in locatives, l # Nil, l[2] \in Buckets PROVE FALSE
    BY IdsOf
  <2>1. memory[l[2]].tag = "locative"
    BY <1>1 DEF LocativesOK, To
  <2>2. memory[l[2]].tag \in Linking
    BY <1>1 DEF TableOK
  <2> QED
    BY <2>1, <2>2 DEF Linking
<1>4. \A o \in kept : IsCell(memory[o])
  BY <1>1, Objects
<1> HIDE DEF lost
<1>5. /\ DOMAIN nursery' = {} /\ DOMAIN heap' = kept /\ DOMAIN memory' = kept /\ mutations' = {}
      /\ \A o \in kept :
              /\ IsCell(heap'[o]) /\ memory'[o] = heap'[o]
              /\ memory'[o].tag = memory[o].tag /\ memory'[o].name = memory[o].name
              /\ DOMAIN memory'[o].slot = DOMAIN memory[o].slot
              /\ \A i \in DOMAIN memory[o].slot :
                   memory'[o].slot[i] = SlotAfter(became, kept, copied, lost, o, i)
      /\ reg' = [r \in Reg |-> Settled(kept, copied, Became(became, reg[r]))]
      /\ static' = [s \in Static |->
                         IF s \in nodes THEN Nil
                         ELSE IF s = "table"
                         THEN Settled(kept, copied, NextKept(MemoryAfter(became), kept, static["table"]))
                         ELSE Settled(kept, copied, Became(became, static[s]))]
      /\ locatives' = {Settled(kept, copied, Became(became, l)) : l \in table}
      /\ running' = running
  BY <1>1, <1>3, NothingBecomes, EvacuateIs
<1> QED
  BY <1>1, <1>2, <1>3, <1>4, <1>5 DEF lost, HeadAfter, Kept, Moved, Copies, NewRoots

(* The symbol table is again one chain, of the buckets kept.               *)
LEMMA EvacuatedTable ==
  ASSUME HInv, NEW became, NEW kept, NEW minor, NEW copied, NEW table, NEW nodes,
         Evacuation(became, kept, minor, copied, table, nodes)
  PROVE  /\ TableInv' /\ Buckets' = KeptBuckets(kept)
         /\ ~IsYoung(static'["table"])
         /\ \A b \in KeptBuckets(kept) : ~IsYoung(memory'[b].slot[1]) /\ ~IsYoung(memory'[b].slot[2])
<1> DEFINE lost == Ids(locatives \ table)
           K == KeptBuckets(kept)
<1>0. /\ PairsIn /\ Acyclic /\ Listed /\ Distinct
      /\ K \subseteq Buckets /\ "table" \in Static /\ "table" \notin nodes
  BY HeapAssumption DEF HInv, TableInv, KeptBuckets, Static, Evacuation
<1>e. /\ Types /\ HeldOK /\ TableOK /\ Cells /\ Becoming(became)
      /\ Surviving(became, kept, minor) /\ Kept(kept) /\ Moved(kept)
      /\ Copies(became, kept, copied, lost)
      /\ NewRoots(became, kept, copied, table, nodes)
      /\ lost \intersect Buckets = {}
  BY EvacuationIs
<1>1. /\ Types /\ HeldOK /\ TableOK /\ Cells /\ Becoming(became)
      /\ Buckets \subseteq kept /\ kept \subseteq DOMAIN memory /\ kept \subseteq Obj
      /\ Surviving(became, kept, minor)
      /\ DOMAIN nursery' = {} /\ DOMAIN memory' = kept
      /\ lost \intersect Buckets = {}
  BY <1>e DEF Kept, Moved
<1>2. \A o \in kept :
         /\ memory'[o].tag = memory[o].tag /\ memory'[o].name = memory[o].name
         /\ DOMAIN memory'[o].slot = DOMAIN memory[o].slot
         /\ \A i \in DOMAIN memory[o].slot :
              memory'[o].slot[i] = SlotAfter(became, kept, copied, lost, o, i)
  BY <1>e DEF Copies
<1>3. static'["table"] = HeadAfter(became, kept, copied, static["table"])
  <2>1. static' = [s \in Static |->
                     IF s \in nodes THEN Nil
                     ELSE IF s = "table" THEN HeadAfter(became, kept, copied, static["table"])
                     ELSE Settled(kept, copied, Became(became, static[s]))]
    BY <1>e DEF NewRoots
  <2> QED
    BY <1>0, <2>1
<1> HIDE DEF lost, K
<1>4. ASSUME NEW b \in Buckets
      PROVE  /\ DOMAIN memory'[b].slot = {1, 2}
             /\ memory'[b].slot[1] = Settled(kept, copied, memory[b].slot[1])
             /\ memory'[b].slot[2] = HeadAfter(became, kept, copied, memory[b].slot[2])
  <2>1. DOMAIN memory[b].slot = {1, 2} /\ To(memory[b].slot[1], {"symbol"}) /\ b \in kept
    BY <1>1, BucketsAfter
  <2>2. /\ SlotAfter(became, kept, copied, lost, b, 1)
             = Settled(kept, copied, Became(became, memory[b].slot[1]))
        /\ SlotAfter(became, kept, copied, lost, b, 2)
             = HeadAfter(became, kept, copied, memory[b].slot[2])
    BY <1>1 DEF SlotAfter, HeadAfter
  <2>3. Became(became, memory[b].slot[1]) = memory[b].slot[1]
    BY <1>1, <2>1, BecameIs
  <2> QED
    BY <1>2, <2>1, <2>2, <2>3
<1>5. /\ Buckets' = K
      /\ \A v : IsLink(v) =>
              Chain(memory', HeadAfter(became, kept, copied, v)) \subseteq Chain(memory, v)
  BY <1>0, <1>1, <1>2, <1>3, <1>4, EvacuateChain DEF K
<1>l. IsLink(static["table"]) /\ \A b \in Buckets : IsLink(memory[b].slot[2])
  BY <1>1, BucketsAfter DEF IsLink, TableOK
<1>h. \A v : IsLink(v) => /\ ToNext(HeadAfter(became, kept, copied, v), Linking)
                          /\ ~IsYoung(HeadAfter(became, kept, copied, v))
  BY <1>1, <1>2, HeadAfterIs
<1>6. ASSUME NEW b \in K
      PROVE  /\ b \in Buckets /\ b \in kept /\ memory'[b].tag \in Linking
             /\ memory'[b].slot[1] # Nil /\ ToNext(memory'[b].slot[1], {"symbol"})
             /\ ToNext(memory'[b].slot[2], Linking)
             /\ ~IsYoung(memory'[b].slot[1]) /\ ~IsYoung(memory'[b].slot[2])
             /\ memory'[b].slot[1][2] = SymbolOf(b) /\ SymbolOf(b) \in kept
  <2>1. b \in Buckets /\ b \in kept /\ SymbolOf(b) \in kept
    BY <1>0, <1>1 DEF K, KeptBuckets
  <2>2. /\ memory[b].slot[1] # Nil /\ To(memory[b].slot[1], {"symbol"})
        /\ memory[b].tag \in Linking /\ memory[b].slot[1][2] \in kept
    BY <1>1, <2>1, BucketsAfter DEF SymbolOf
  <2>3. /\ ToNext(memory'[b].slot[1], {"symbol"}) /\ ~IsYoung(memory'[b].slot[1])
        /\ memory'[b].slot[1] # Nil
    <3>0. \A o \in kept : memory'[o].tag = memory[o].tag
      BY <1>2
    <3>a. kept \subseteq Obj /\ DOMAIN nursery' = {} /\ DOMAIN memory' = kept
      BY <1>1
    <3>1. \A w, tags : To(w, tags) /\ (w # Nil => w[2] \in kept) =>
           /\ ToNext(Settled(kept, copied, w), tags)
           /\ ~IsYoung(Settled(kept, copied, w))
           /\ w # Nil => Settled(kept, copied, w) # Nil
           /\ Ids({Settled(kept, copied, w)}) = Ids({w})
      BY <3>a, <3>0, SettledPointer
    <3> QED
      BY <1>4, <2>1, <2>2, <3>1
  <2>4. memory'[b].slot[1][2] = SymbolOf(b)
    <3>1. memory[b].slot[1] \in Value
      BY <2>2 DEF To
    <3>2. Settled(kept, copied, memory[b].slot[1])[2] = memory[b].slot[1][2]
      BY <2>2, <3>1, SettledIs
    <3>3. memory'[b].slot[1] = Settled(kept, copied, memory[b].slot[1])
      BY <1>4, <2>1
    <3> QED
      BY <3>2, <3>3 DEF SymbolOf
  <2> QED
    BY <1>2, <1>4, <1>h, <1>l, <2>1, <2>2, <2>3, <2>4
<1>7. TableOK'
  <2>1. ToNext(static'["table"], Linking)
    BY <1>3, <1>h, <1>l
  <2>2. /\ To(static["table"], Linking)' <=> ToNext(static'["table"], Linking)
        /\ \A x, i : To(memory[x].slot[i], {"symbol"})' <=> ToNext(memory'[x].slot[i], {"symbol"})
        /\ \A x, i : To(memory[x].slot[i], Linking)' <=> ToNext(memory'[x].slot[i], Linking)
    BY DEF To, ToNext, Pointer
  <2> QED
    BY <1>5, <1>6, <2>1, <2>2 DEF TableOK
<1>8. PairsIn'
  <2> SUFFICES ASSUME NEW o \in kept, memory'[o].tag = "pair" PROVE o \in K
    BY <1>1, <1>5 DEF PairsIn
  <2>1. o \in Buckets /\ memory[o].tag = "pair" /\ o \in DOMAIN memory
    BY <1>0, <1>1, <1>2 DEF PairsIn
  <2>b. /\ DOMAIN memory[o].slot = {1, 2}
        /\ memory[o].slot[1] # Nil /\ To(memory[o].slot[1], {"symbol"})
    BY <1>1, <2>1, BucketsAfter
  <2>2. /\ 1 \in DOMAIN memory[o].slot /\ 1 \in TracedSlots(memory[o], minor)
        /\ memory[o].slot[1] # Nil /\ To(memory[o].slot[1], {"symbol"})
    BY <2>1, <2>b DEF TracedSlots
  <2>3. To(memory[o].slot[1], Plain) /\ Became(became, memory[o].slot[1]) = memory[o].slot[1]
    BY <1>1, <2>2, BecameIs DEF To, Plain
  <2>4. memory[o].slot[1][2] \in kept
    BY <1>1, <2>2, <2>3, SurvivingSlots
  <2> QED
    BY <2>1, <2>4 DEF K, KeptBuckets, SymbolOf
<1>9. Acyclic'
  <2>1. ASSUME NEW b \in K PROVE b \notin Chain(memory', memory'[b].slot[2])
    BY <1>0, <1>4, <1>5, <1>6, <1>l DEF Acyclic
  <2> QED
    BY <1>5, <2>1 DEF Acyclic
<1>10. \A b \in K : SymbolOf(b)' = SymbolOf(b) /\ SymbolOf(b) \in kept
  BY <1>6 DEF SymbolOf
<1>11. Listed'
  <2> SUFFICES ASSUME NEW o \in kept, memory'[o].tag = "symbol" PROVE \E b \in K : SymbolOf(b)' = o
    BY <1>1, <1>5 DEF Listed
  <2>1. memory[o].tag = "symbol" /\ o \in DOMAIN memory
    BY <1>1, <1>2
  <2>2. PICK b \in Buckets : SymbolOf(b) = o
    BY <1>0, <2>1 DEF Listed
  <2>3. b \in K
    BY <2>2 DEF K, KeptBuckets
  <2> QED
    BY <1>10, <2>2, <2>3
<1>12. Distinct'
  <2>1. \A b \in K : memory'[SymbolOf(b)'].name = memory[SymbolOf(b)].name
    BY <1>2, <1>10
  <2> QED
    BY <1>0, <1>5, <2>1 DEF Distinct
<1>13. ~IsYoung(static'["table"])
  BY <1>3, <1>h, <1>l
<1> QED
  BY <1>5, <1>6, <1>7, <1>8, <1>9, <1>11, <1>12, <1>13 DEF TableInv, K

(* The locatives in the table and the others.                              *)
LEMMA TableOrLost ==
  ASSUME Cells, LocativesOK, NEW table, table \subseteq locatives
  PROVE  /\ \A l \in table : /\ l[2] \notin Ids(locatives \ table) /\ l = Pointer(l[2]) /\ l # Nil
                             /\ l[2] \in DOMAIN memory /\ memory[l[2]].tag = "locative"
                             /\ memory[l[2]].slot[1] # Nil /\ To(l, {"locative"})
         /\ \A o \in DOMAIN memory :
              /\ memory[o].tag = "locative" /\ memory[o].slot[1] # Nil
              /\ o \notin Ids(locatives \ table)
              => Pointer(o) \in table
<1>1. ASSUME NEW l \in locatives
      PROVE  /\ l = Pointer(l[2]) /\ l # Nil /\ l[2] \in DOMAIN memory
             /\ memory[l[2]].tag = "locative" /\ memory[l[2]].slot[1] # Nil /\ To(l, {"locative"})
  BY DEF LocativesOK, To
<1>2. ASSUME NEW l \in table PROVE l[2] \notin Ids(locatives \ table)
  <2> SUFFICES ASSUME NEW k \in locatives \ table, k[2] = l[2] PROVE FALSE
    BY IdsOf
  <2>1. k = Pointer(k[2]) /\ l = Pointer(l[2])
    BY <1>1
  <2> QED
    BY <2>1
<1>3. ASSUME NEW o \in DOMAIN memory, memory[o].tag = "locative", memory[o].slot[1] # Nil,
             o \notin Ids(locatives \ table)
      PROVE  Pointer(o) \in table
  <2>1. Pointer(o) \in locatives
    BY <1>3 DEF LocativesOK
  <2>2. Pointer(o)[2] = o /\ Pointer(o) # Nil
    BY Objects
  <2>3. Pointer(o) \in locatives \ table => o \in Ids(locatives \ table)
    BY <2>2, IdsOf
  <2> QED
    BY <1>3, <2>1, <2>3
<1> QED
  BY <1>1, <1>2, <1>3

(* What is looked at are slots.                                            *)
LEMMA TracedAreSlots ==
  ASSUME NEW c, IsCell(c), NEW minor
  PROVE  TracedSlots(c, minor) \subseteq DOMAIN c.slot
BY DEF IsCell, SlotsOf, TracedSlots

(* A pointer to a survivor.                                                *)
Settles(kept, copied) ==
  \A x, tags : To(x, tags) /\ (x # Nil => x[2] \in kept) =>
    /\ ToNext(Settled(kept, copied, x), tags)
    /\ ~IsYoung(Settled(kept, copied, x))
    /\ x # Nil => Settled(kept, copied, x) # Nil
    /\ Ids({Settled(kept, copied, x)}) = Ids({x})

(* It points to the new half, to an object of the same kind.               *)
LEMMA EvacuatedPointer ==
  ASSUME HInv, NEW became, NEW kept, NEW minor, NEW copied, NEW table, NEW nodes,
         Evacuation(became, kept, minor, copied, table, nodes)
  PROVE  Settles(kept, copied)
<1>1. Kept(kept) /\ Moved(kept) /\ Copies(became, kept, copied, Ids(locatives \ table))
  BY EvacuationIs
<1>2. kept \subseteq Obj /\ DOMAIN nursery' = {} /\ DOMAIN memory' = kept
  BY <1>1 DEF Kept, Moved
<1>3. \A x \in kept : memory'[x].tag = memory[x].tag
  BY <1>1 DEF Copies
<1> QED
  BY <1>2, <1>3, SettledPointer DEF Settles

(* A major collection keeps the types.                                     *)
LEMMA EvacuatedTypes ==
  ASSUME HInv, NEW became, NEW kept, NEW minor, NEW copied, NEW table, NEW nodes,
         Evacuation(became, kept, minor, copied, table, nodes), Queued'
  PROVE  Types'
<1>1. /\ Types /\ TableOK /\ Cells /\ Entered /\ Becoming(became)
      /\ Kept(kept) /\ Moved(kept)
      /\ Copies(became, kept, copied, Ids(locatives \ table))
      /\ NewRoots(became, kept, copied, table, nodes)
  BY EvacuationIs
<1>2. Cells'
  BY <1>1 DEF Cells, Copies, Moved, Kept
<1>3. Room'
  <2>1. Cardinality({}) = 0
    BY FS_EmptySet
  <2>2. DOMAIN nursery' = {} /\ DOMAIN heap' = kept
    BY <1>1 DEF Moved
  <2>3. half' \in HalfSizes /\ Cardinality(kept) <= half'
    BY DEF Evacuation
  <2> QED
    BY <2>1, <2>2, <2>3, HeapAssumption DEF Room
<1>4. Entered'
  <2>1. \A v \in Value : Settled(kept, copied, Became(became, v)) \in Value
    BY <1>1, BecameIs, SettledIs
  <2>2. HeadAfter(became, kept, copied, static["table"]) \in Value
    <3>1. IsLink(static["table"])
      BY <1>1, BucketsAfter DEF IsLink, TableOK
    <3>2. /\ Buckets \subseteq kept /\ kept \subseteq DOMAIN memory
          /\ DOMAIN nursery' = {} /\ DOMAIN memory' = kept
          /\ \A o \in kept : memory'[o].tag = memory[o].tag
      BY <1>1 DEF Kept, Moved, Copies
    <3>3. ToNext(HeadAfter(became, kept, copied, static["table"]), Linking)
      BY <1>1, <3>1, <3>2, HeadAfterIs
    <3> QED
      BY <3>3 DEF ToNext, Value
  <2>3. reg' \in [Reg -> Value]
    BY <1>1, <2>1 DEF NewRoots, Entered
  <2>4. static' \in [Static -> Value]
    <3>1. Nil \in Value
      BY DEF Value
    <3> QED
      BY <1>1, <2>1, <2>2, <3>1 DEF NewRoots, Entered
  <2>5. locatives' \subseteq Value
    <3>1. table \subseteq Value
      BY <1>1 DEF Evacuation, Entered
    <3> QED
      BY <1>1, <2>1, <3>1 DEF NewRoots
  <2>6. mutations' = {}
    BY <1>1 DEF NewRoots
  <2> QED
    BY <2>3, <2>4, <2>5, <2>6 DEF Entered
<1> QED
  BY <1>2, <1>3, <1>4 DEF Types

(* The contents of the objects, but for the buckets.  Only a locative can  *)
(* go astray, and none does when all in the table are followed.            *)
LEMMA EvacuatedContents ==
  ASSUME HInv, NEW became, NEW kept, NEW minor, NEW copied, NEW table, NEW nodes,
         Evacuation(became, kept, minor, copied, table, nodes),
         NEW o \in kept, memory[o].tag \in Plain, NEW i \in DOMAIN memory[o].slot
  PROVE  /\ ~IsYoung(memory'[o].slot[i])
         /\ \/ ToNext(memory'[o].slot[i], Plain)
            \/ /\ memory[o].tag = "locative" /\ i = 1 /\ Lost(memory'[o].slot[i], kept)
               /\ ~Followed(became, kept, table)
<1> DEFINE lost == Ids(locatives \ table)
           w == Became(became, memory[o].slot[i])
<1>1. /\ Types /\ TableOK /\ Cells /\ Becoming(became) /\ ContentsOK /\ LocativesOK
      /\ Surviving(became, kept, minor) /\ Kept(kept) /\ Moved(kept)
      /\ Copies(became, kept, copied, lost)
  BY EvacuationIs DEF HInv
<1>2. o \in DOMAIN memory /\ IsCell(memory[o]) /\ o \notin Buckets /\ i \in SlotsOf(memory[o].tag)
  <2>1. o \in DOMAIN memory /\ IsCell(memory[o])
    BY <1>1 DEF Kept, Copies
  <2>2. o \notin Buckets
    BY <1>1 DEF TableOK, Linking, Plain
  <2> QED
    BY <2>1, <2>2 DEF IsCell
<1>3. To(memory[o].slot[i], Plain) /\ memory[o].slot[i] \in Value
  BY <1>1, <1>2, TracedIs DEF ContentsOK
<1>4. memory'[o].slot[i] = IF o \in lost /\ i = 1 THEN Nil ELSE Settled(kept, copied, w)
  <2>1. memory'[o].slot[i] = SlotAfter(became, kept, copied, lost, o, i)
    BY <1>1 DEF Copies
  <2> QED
    BY <1>2, <2>1 DEF SlotAfter
<1>5. To(w, Plain) /\ (memory[o].slot[i] = Nil => w = Nil)
  BY <1>1, <1>3, BecameIs
<1>6. ~(o \in lost /\ i = 1) /\ w # Nil =>
        \/ w[2] \in kept
        \/ /\ memory[o].tag = "locative" /\ i = 1 /\ ~Followed(became, kept, table)
           /\ IsYoung(w) /\ w[2] \in copied /\ w[2] \notin kept
  <2> SUFFICES ASSUME ~(o \in lost /\ i = 1), w # Nil, w[2] \notin kept
               PROVE  /\ memory[o].tag = "locative" /\ i = 1 /\ ~Followed(became, kept, table)
                      /\ IsYoung(w) /\ w[2] \in copied
    OBVIOUS
  <2>1. CASE memory[o].tag = "locative" /\ i = 1
    <3>1. Pointer(o) \in table
      <4>1. table \subseteq locatives /\ o \notin Ids(locatives \ table) /\ memory[o].slot[1] # Nil
        BY <1>5, <2>1 DEF Evacuation
      <4> QED
        BY <1>1, <1>2, <2>1, <4>1, TableOrLost
    <3>2. /\ Forwarded(MemoryAfter(became)[Pointer(o)[2]].slot[1], kept, copied)
          /\ Followed(became, kept, table) => MemoryAfter(became)[Pointer(o)[2]].slot[1][2] \in kept
      BY <3>1 DEF Evacuation, Followed
    <3>3. Pointer(o)[2] = o
      BY <1>1, <1>2, Objects
    <3>4. MemoryAfter(became)[o].slot[1] = w
      BY <1>1, <1>2, <2>1, MemoryAfterIs
    <3> QED
      BY <2>1, <3>2, <3>3, <3>4 DEF Forwarded
  <2>2. CASE ~(memory[o].tag = "locative" /\ i = 1)
    <3>1. i \in TracedSlots(memory[o], minor)
      <4>1. CASE memory[o].tag = "locative"
        BY <1>2, <2>2, <4>1 DEF SlotsOf, TracedSlots
      <4>2. CASE memory[o].tag \in {"block", "symbol"}
        BY <1>2, <4>2 DEF SlotsOf, TracedSlots
      <4> QED
        BY <4>1, <4>2 DEF Plain
    <3> QED
      BY <1>1, <1>3, <3>1, SurvivingSlots
  <2> QED
    BY <2>1, <2>2
<1>7. /\ kept \subseteq Obj /\ DOMAIN nursery' = {} /\ DOMAIN memory' = kept
      /\ \A x \in kept : memory'[x].tag = memory[x].tag
  BY <1>1 DEF Kept, Moved, Copies
<1>p. Settles(kept, copied)
  BY EvacuatedPointer
<1>8. \A x, tags : To(x, tags) /\ (x # Nil => x[2] \in kept) =>
           /\ ToNext(Settled(kept, copied, x), tags)
           /\ ~IsYoung(Settled(kept, copied, x))
           /\ x # Nil => Settled(kept, copied, x) # Nil
           /\ Ids({Settled(kept, copied, x)}) = Ids({x})
  BY <1>p DEF Settles
<1>9. ToNext(Nil, Plain) /\ ~IsYoung(Nil)
  BY DEF ToNext, IsYoung
<1>10. w # Nil /\ IsYoung(w) /\ w[2] \in copied /\ w[2] \notin kept =>
         Lost(Settled(kept, copied, w), kept) /\ ~IsYoung(Settled(kept, copied, w))
  <2> SUFFICES ASSUME w # Nil, IsYoung(w), w[2] \in copied, w[2] \notin kept
               PROVE  Lost(Settled(kept, copied, w), kept) /\ ~IsYoung(Settled(kept, copied, w))
    OBVIOUS
  <2> HIDE DEF w
  <2>1. w[2] \in Obj
    BY <1>1, <1>5, Pointers
  <2>2. Settled(kept, copied, w) = Gone(w[2])
    BY DEF Settled
  <2> QED
    BY <2>1, <2>2 DEF Lost, Gone, IsYoung
<1> HIDE DEF lost, w
<1> QED
  BY <1>4, <1>5, <1>6, <1>8, <1>9, <1>10

(* It updates the roots and the contents of everything kept.               *)
LEMMA EvacuatedHeld ==
  ASSUME HInv, NEW became, NEW kept, NEW minor, NEW copied, NEW table, NEW nodes,
         Evacuation(became, kept, minor, copied, table, nodes),
         \A i \in 1 .. Len(pending') :
           \E w : To(w, Plain) /\ w # Nil /\ w[2] \in kept /\ pending'[i] = Old(w[2])
  PROVE  /\ HeldOK' /\ StraysOK' /\ \A s \in Static : ~IsYoung(static'[s])
         /\ Followed(became, kept, table) => ContentsOK'
<1>1. /\ Types /\ HeldOK /\ TableOK /\ Cells /\ Becoming(became)
      /\ Surviving(became, kept, minor) /\ Kept(kept) /\ Moved(kept)
      /\ Copies(became, kept, copied, Ids(locatives \ table))
      /\ NewRoots(became, kept, copied, table, nodes)
  BY EvacuationIs
<1>7. /\ kept \subseteq Obj /\ DOMAIN nursery' = {} /\ DOMAIN memory' = kept
      /\ \A x \in kept : memory'[x].tag = memory[x].tag
  BY <1>1 DEF Kept, Moved, Copies
<1>p. Settles(kept, copied)
  BY EvacuatedPointer
<1>8. \A x, tags : To(x, tags) /\ (x # Nil => x[2] \in kept) =>
           /\ ToNext(Settled(kept, copied, x), tags)
           /\ ~IsYoung(Settled(kept, copied, x))
           /\ x # Nil => Settled(kept, copied, x) # Nil
           /\ Ids({Settled(kept, copied, x)}) = Ids({x})
  BY <1>p DEF Settles
<1>r. /\ \A r \in Reg : Became(became, reg[r]) # Nil => Became(became, reg[r])[2] \in kept
      /\ \A s \in Static : Became(became, static[s]) # Nil => Became(became, static[s])[2] \in kept
  BY <1>1, SurvivingRoots
<1>2. ASSUME NEW r \in Reg PROVE ToNext(reg'[r], Plain)
  <2>1. reg'[r] = Settled(kept, copied, Became(became, reg[r]))
    BY <1>1 DEF NewRoots
  <2>2. To(Became(became, reg[r]), Plain)
    BY <1>1, BecameIs DEF HeldOK
  <2> QED
    BY <1>8, <1>r, <2>1, <2>2
<1>3. ASSUME NEW s \in Static \ {"table"}
      PROVE  ToNext(static'[s], Plain) /\ ~IsYoung(static'[s])
  <2>1. static'[s] = IF s \in nodes THEN Nil ELSE Settled(kept, copied, Became(became, static[s]))
    BY <1>1 DEF NewRoots
  <2>2. To(Became(became, static[s]), Plain)
    BY <1>1, BecameIs DEF HeldOK
  <2>3. ToNext(Nil, Plain) /\ ~IsYoung(Nil)
    BY DEF ToNext, IsYoung
  <2> QED
    BY <1>8, <1>r, <2>1, <2>2, <2>3
<1>4. ASSUME NEW i \in 1 .. Len(pending')
      PROVE  pending'[i] # Nil /\ ToNext(pending'[i], Plain) /\ ~IsYoung(pending'[i])
  <2>1. PICK w : To(w, Plain) /\ w # Nil /\ w[2] \in kept /\ pending'[i] = Old(w[2])
    OBVIOUS
  <2>2. pending'[i] = Settled(kept, copied, w)
    BY <2>1 DEF Settled
  <2> QED
    BY <1>8, <2>1, <2>2
<1>5. HeldOK'
  BY <1>2, <1>3, <1>4, NextPointers DEF HeldOK
<1>6. StraysOK' /\ (Followed(became, kept, table) => ContentsOK')
  <2>1. ASSUME NEW o \in DOMAIN memory', memory'[o].tag \in Plain, NEW i \in DOMAIN memory'[o].slot
        PROVE  \/ ToNext(memory'[o].slot[i], Plain)
               \/ /\ i = 1 /\ Stray(o)' /\ memory'[o].slot[1][2] \notin DOMAIN memory'
                  /\ ~Followed(became, kept, table)
    <3>1. o \in kept /\ memory[o].tag \in Plain /\ i \in DOMAIN memory[o].slot
      BY <1>1, <1>7, <2>1 DEF Copies
    <3>2. SUFFICES ASSUME ~ToNext(memory'[o].slot[i], Plain)
                   PROVE  /\ i = 1 /\ Stray(o)' /\ memory'[o].slot[1][2] \notin DOMAIN memory'
                          /\ ~Followed(became, kept, table)
      OBVIOUS
    <3>3. /\ memory[o].tag = "locative" /\ i = 1 /\ Lost(memory'[o].slot[1], kept)
          /\ ~Followed(became, kept, table)
      BY <3>1, <3>2, EvacuatedContents
    <3>4. PICK x \in Obj \ kept : memory'[o].slot[1] = Gone(x)
      BY <3>3 DEF Lost
    <3>5. Gone(x) # Nil /\ Gone(x)[1] = "gone" /\ Gone(x)[2] = x
      BY HeapAssumption DEF Gone
    <3>6. memory'[o].tag = "locative"
      BY <1>7, <3>1, <3>3
    <3> QED
      BY <1>7, <3>3, <3>4, <3>5, <3>6 DEF Stray
  <2> QED
    BY <2>1, NextPointers DEF ContentsOK, StraysOK
<1>9. \A s \in Static : ~IsYoung(static'[s])
  <2>1. ~IsYoung(static'["table"])
    BY EvacuatedTable
  <2> QED
    BY <1>3, <2>1
<1> QED
  BY <1>5, <1>6, <1>9

(* It keeps a locative in the table exactly if it keeps its pointer.       *)
LEMMA EvacuatedLocatives ==
  ASSUME HInv, NEW became, NEW kept, NEW minor, NEW copied, NEW table, NEW nodes,
         Evacuation(became, kept, minor, copied, table, nodes), Followed(became, kept, table)
  PROVE  LocativesOK'
<1> DEFINE lost == Ids(locatives \ table)
<1>1. /\ Types /\ TableOK /\ Cells /\ Becoming(became) /\ LocativesOK
      /\ Kept(kept) /\ Moved(kept) /\ Copies(became, kept, copied, lost)
      /\ NewRoots(became, kept, copied, table, nodes)
  BY EvacuationIs DEF HInv
<1>2. table \subseteq locatives /\ \A l \in table : l[2] \in kept
  BY DEF Evacuation, Followed
<1>3. /\ \A l \in table : /\ l[2] \notin lost /\ l = Pointer(l[2]) /\ l # Nil
                          /\ l[2] \in DOMAIN memory /\ memory[l[2]].tag = "locative"
                          /\ memory[l[2]].slot[1] # Nil /\ To(l, {"locative"})
      /\ \A o \in DOMAIN memory :
           memory[o].tag = "locative" /\ memory[o].slot[1] # Nil /\ o \notin lost
             => Pointer(o) \in table
  BY <1>1, <1>2, TableOrLost
<1>7. /\ kept \subseteq Obj /\ DOMAIN nursery' = {} /\ DOMAIN memory' = kept
      /\ \A x \in kept : memory'[x].tag = memory[x].tag
      /\ kept \subseteq DOMAIN memory
  BY <1>1 DEF Kept, Moved, Copies
<1>p. Settles(kept, copied)
  BY EvacuatedPointer
<1>8. \A x, tags : To(x, tags) /\ (x # Nil => x[2] \in kept) =>
           /\ ToNext(Settled(kept, copied, x), tags)
           /\ ~IsYoung(Settled(kept, copied, x))
           /\ x # Nil => Settled(kept, copied, x) # Nil
           /\ Ids({Settled(kept, copied, x)}) = Ids({x})
  BY <1>p DEF Settles
<1>4. ASSUME NEW o \in kept, memory[o].tag = "locative"
      PROVE  /\ memory'[o].slot[1] = IF o \in lost THEN Nil
                                     ELSE Settled(kept, copied, Became(became, memory[o].slot[1]))
             /\ memory[o].slot[1] \in Value
             /\ Settled(kept, copied, Became(became, memory[o].slot[1])) = Nil
                  <=> memory[o].slot[1] = Nil
  <2>1. IsCell(memory[o]) /\ o \notin Buckets
    BY <1>1, <1>4 DEF Copies, TableOK, Linking
  <2>2. 1 \in DOMAIN memory[o].slot /\ memory[o].slot[1] \in Value
    BY <1>4, <2>1, TracedIs DEF SlotsOf
  <2>3. memory'[o].slot[1] = SlotAfter(became, kept, copied, lost, o, 1)
    BY <1>1, <2>2 DEF Copies
  <2>4. memory'[o].slot[1] = IF o \in lost THEN Nil
                             ELSE Settled(kept, copied, Became(became, memory[o].slot[1]))
    BY <2>1, <2>3 DEF SlotAfter
  <2>5. /\ Became(became, memory[o].slot[1]) \in Value
        /\ Became(became, memory[o].slot[1]) = Nil <=> memory[o].slot[1] = Nil
    BY <1>1, <2>2, BecameIs
  <2> QED
    BY <2>2, <2>4, <2>5, SettledIs
<1>l. locatives' = {Settled(kept, copied, Became(became, l)) : l \in table}
  BY <1>1 DEF NewRoots
<1>b. \A l \in table : Became(became, l) = l
  BY <1>1, <1>3, BecameIs
<1> HIDE DEF lost
<1>5. ASSUME NEW k \in locatives'
      PROVE  k # Nil /\ ToNext(k, {"locative"}) /\ memory'[k[2]].slot[1] # Nil
  <2>1. PICK l \in table : k = Settled(kept, copied, l)
    BY <1>b, <1>l
  <2>2. l[2] \in kept /\ l # Nil /\ To(l, {"locative"})
    BY <1>2, <1>3
  <2>3. k # Nil /\ ToNext(k, {"locative"})
    BY <1>8, <2>1, <2>2
  <2>4. k[2] = l[2]
    <3>1. l \in Value
      BY <2>2 DEF To, Value
    <3> QED
      BY <2>1, <2>2, <3>1, SettledIs
  <2>5. memory'[l[2]].slot[1] # Nil
    BY <1>3, <1>4, <2>2
  <2> QED
    BY <2>3, <2>4, <2>5
<1>6. ASSUME NEW o \in DOMAIN memory', memory'[o].tag = "locative", memory'[o].slot[1] # Nil
      PROVE  Pointer(o)' \in locatives'
  <2>1. o \in kept /\ memory[o].tag = "locative" /\ o \in DOMAIN memory
    BY <1>6, <1>7
  <2>2. o \notin lost /\ memory[o].slot[1] # Nil
    BY <1>4, <1>6, <2>1
  <2>3. Pointer(o) \in table
    BY <1>3, <2>1, <2>2
  <2>4. Pointer(o)[2] = o /\ Pointer(o) # Nil
    BY <1>1, <2>1, Objects
  <2>5. Settled(kept, copied, Pointer(o)) = Old(o)
    BY <2>1, <2>4 DEF Settled
  <2>6. Old(o) \in locatives'
    BY <1>b, <1>l, <2>3, <2>5
  <2> QED
    BY <1>7, <2>6 DEF Pointer
<1>9. \A l : To(l, {"locative"})' <=> ToNext(l, {"locative"})
  BY DEF To, ToNext, Pointer
<1> QED
  BY <1>5, <1>6, <1>9 DEF LocativesOK

(* So it keeps the invariant, if no locative goes astray.                  *)
LEMMA EvacuationStep ==
  ASSUME HInv, NEW became, NEW kept, NEW minor, NEW copied, NEW table, NEW nodes,
         Evacuation(became, kept, minor, copied, table, nodes), Queued',
         \A i \in 1 .. Len(pending') :
           \E w : To(w, Plain) /\ w # Nil /\ w[2] \in kept /\ pending'[i] = Old(w[2])
  PROVE  Solid' /\ (Followed(became, kept, table) => HInv')
<1>1. /\ Types /\ TableOK /\ Cells /\ Moved(kept)
      /\ Copies(became, kept, copied, Ids(locatives \ table))
  BY EvacuationIs
<1>2. Types' /\ (Followed(became, kept, table) => LocativesOK')
  BY EvacuatedTypes, EvacuatedLocatives
<1>3. /\ HeldOK' /\ StraysOK' /\ \A s \in Static : ~IsYoung(static'[s])
      /\ Followed(became, kept, table) => ContentsOK'
  BY EvacuatedHeld
<1>4. /\ TableInv' /\ Buckets' = KeptBuckets(kept)
      /\ \A b \in KeptBuckets(kept) : ~IsYoung(memory'[b].slot[1]) /\ ~IsYoung(memory'[b].slot[2])
  BY EvacuatedTable
<1>5. MutationsTracked'
  <2>1. ASSUME NEW o \in DOMAIN heap', NEW i \in TracedSlots(heap'[o], TRUE),
               heap'[o].tag = "weak" => o \in Buckets'
        PROVE  ~IsYoung(heap'[o].slot[i])
    <3>1. /\ o \in kept /\ memory'[o] = heap'[o] /\ IsCell(heap'[o]) /\ IsCell(memory[o])
          /\ heap'[o].tag = memory[o].tag /\ o \in DOMAIN memory'
      BY <1>1, <2>1 DEF Copies, Moved
    <3>2. i \in DOMAIN heap'[o].slot /\ DOMAIN heap'[o].slot = DOMAIN memory[o].slot
      <4>1. DOMAIN heap'[o].slot = DOMAIN memory[o].slot
        BY <1>1, <3>1 DEF Copies
      <4> QED
        BY <2>1, <3>1, <4>1, TracedAreSlots
    <3>3. CASE memory[o].tag \in Plain
      <4>1. ~IsYoung(memory'[o].slot[i])
        BY <3>1, <3>2, <3>3, EvacuatedContents
      <4> QED
        BY <3>1, <4>1
    <3>4. CASE memory[o].tag \notin Plain
      <4>1. memory[o].tag \in {"weak", "pair"}
        BY <3>1, <3>4, TracedIs DEF CellTags, Plain
      <4>2. o \in Buckets'
        BY <1>4, <2>1, <3>1, <4>1 DEF TableInv, PairsIn
      <4>3. i \in {1, 2}
        BY <3>1, <3>2, <4>1, TracedIs DEF SlotsOf
      <4> QED
        BY <1>4, <3>1, <4>2, <4>3
    <3> QED
      BY <3>3, <3>4
  <2> QED
    BY <1>3, <2>1 DEF MutationsTracked
<1> QED
  BY <1>2, <1>3, <1>4, <1>5 DEF HInv, Solid

(* The entries of the finalizer vector are survivors.                      *)
QueueKept(kept) ==
  \A i \in 1 .. Len(pending') :
    \E w : To(w, Plain) /\ w # Nil /\ w[2] \in kept /\ pending'[i] = Old(w[2])

(* The finalizers that waited before still do.                             *)
LEMMA RenamedQueue ==
  ASSUME Types, HeldOK, TableOK, NEW became, Becoming(became), NEW kept, NEW minor,
         Surviving(became, kept, minor),
         pending' = Renamed(became, pending), running' = running
  PROVE  Queued' /\ QueueKept(kept)
<1>0. Cells /\ Queued
  BY DEF Types
<1>1. /\ Len(pending) \in Nat /\ DOMAIN pending = 1 .. Len(pending)
      /\ Len(pending) <= MaxPending /\ running \in 0 .. Len(pending)
  BY <1>0, LenProperties DEF Queued
<1>2. ASSUME NEW i \in 1 .. Len(pending)
      PROVE  /\ To(Became(became, pending[i]), Plain) /\ Became(became, pending[i]) # Nil
             /\ Became(became, pending[i])[2] \in kept
             /\ Old(Became(became, pending[i])[2]) \in Value
  <2>1. Became(became, pending[i]) # Nil /\ Became(became, pending[i])[2] \in kept
    BY SurvivingRoots
  <2>2. To(Became(became, pending[i]), Plain)
    BY <1>0, BecameIs DEF HeldOK
  <2>3. Became(became, pending[i])[2] \in Obj
    BY <1>0, <2>1, <2>2, Pointers
  <2> QED
    BY <2>1, <2>2, <2>3 DEF Old, Value
<1>3. pending' = [i \in 1 .. Len(pending) |-> Old(Became(became, pending[i])[2])]
  BY <1>1 DEF Renamed
<1>4. pending' \in [1 .. Len(pending) -> Value]
  BY <1>2, <1>3
<1>5. pending' \in Seq(Value)
  BY <1>1, <1>4, SeqDef
<1>6. Len(pending') = Len(pending)
  <2>1. DOMAIN pending' = 1 .. Len(pending')
    BY <1>5, LenProperties
  <2>2. DOMAIN pending' = 1 .. Len(pending) /\ Len(pending') \in Nat
    BY <1>3, <1>5, LenProperties
  <2>3. \A m, n \in Nat : 1 .. m = 1 .. n => m = n
    OBVIOUS
  <2>4. 1 .. Len(pending') = 1 .. Len(pending) /\ Len(pending) \in Nat
    BY <1>1, <2>1, <2>2
  <2> QED
    BY <2>2, <2>3, <2>4
<1>7. Queued'
  BY <1>1, <1>5, <1>6 DEF Queued
<1>8. QueueKept(kept)
  BY <1>2, <1>3, <1>6 DEF QueueKept
<1> QED
  BY <1>7, <1>8

(* New ones are queued.                                                    *)
LEMMA FreshQueue ==
  ASSUME Types, HeldOK, TableOK, NEW became, Becoming(became), NEW kept, NEW minor,
         Surviving(became, kept, minor),
         NEW due \in SUBSET FinNode, \A f \in due : static[f] # Nil,
         pending = <<>>, running' = running,
         NEW n \in Nat, n <= MaxPending, NEW queue \in [1 .. n -> due],
         pending' = [i \in 1 .. n |-> Old(Became(became, static[queue[i]])[2])]
  PROVE  Queued' /\ QueueKept(kept)
<1>0. Cells /\ Queued /\ Entered
  BY DEF Types
<1>1. running = 0
  <2>1. Len(pending) = 0
    OBVIOUS
  <2> QED
    BY <1>0, <2>1 DEF Queued
<1>2. ASSUME NEW i \in 1 .. n
      PROVE  /\ To(Became(became, static[queue[i]]), Plain) /\ Became(became, static[queue[i]]) # Nil
             /\ Became(became, static[queue[i]])[2] \in kept
             /\ Old(Became(became, static[queue[i]])[2]) \in Value
  <2>1. queue[i] \in due /\ queue[i] \in FinNode
    OBVIOUS
  <2>2. queue[i] \in Static /\ queue[i] # "table" /\ static[queue[i]] # Nil
    BY <2>1, HeapAssumption DEF Static
  <2>3. Became(became, static[queue[i]]) # Nil
    BY <1>0, <2>2, BecameIs DEF Entered
  <2>4. Became(became, static[queue[i]])[2] \in kept
    BY <2>2, <2>3, SurvivingRoots
  <2>5. To(Became(became, static[queue[i]]), Plain)
    BY <1>0, <2>2, BecameIs DEF HeldOK
  <2>6. Became(became, static[queue[i]])[2] \in Obj
    BY <1>0, <2>3, <2>5, Pointers
  <2> QED
    BY <2>3, <2>4, <2>5, <2>6 DEF Old, Value
<1>3. pending' \in [1 .. n -> Value]
  BY <1>2
<1>4. pending' \in Seq(Value)
  BY <1>3, SeqDef
<1>5. Len(pending') = n
  <2>1. DOMAIN pending' = 1 .. Len(pending') /\ Len(pending') \in Nat
    BY <1>4, LenProperties
  <2>2. DOMAIN pending' = 1 .. n
    OBVIOUS
  <2> QED
    BY <2>1, <2>2
<1>6. Queued'
  BY <1>1, <1>4, <1>5 DEF Queued
<1>7. QueueKept(kept)
  BY <1>2, <1>5 DEF QueueKept
<1> QED
  BY <1>6, <1>7

(* The object of a locative in the table.                                  *)
LEMMA TargetIs ==
  ASSUME HInv, NEW became, Becoming(became), NEW l \in locatives
  PROVE  /\ l # Nil /\ l[2] \in DOMAIN memory
         /\ MemoryAfter(became)[l[2]].slot[1] # Nil
         /\ MemoryAfter(became)[l[2]].slot[1][2] \in DOMAIN memory
         /\ MemoryAfter(became)[l[2]].slot[1] = Became(became, memory[l[2]].slot[1])
<1>0. Cells /\ ContentsOK /\ LocativesOK
  BY DEF HInv, Types
<1>1. /\ l # Nil /\ l[2] \in DOMAIN memory /\ memory[l[2]].tag = "locative"
      /\ memory[l[2]].slot[1] # Nil
  BY <1>0 DEF LocativesOK, To
<1>2. 1 \in DOMAIN memory[l[2]].slot
  BY <1>0, <1>1, Objects DEF IsCell, SlotsOf
<1>3. MemoryAfter(became)[l[2]].slot[1] = Became(became, memory[l[2]].slot[1])
  BY <1>0, <1>1, <1>2, MemoryAfterIs
<1>4. To(memory[l[2]].slot[1], Plain) /\ memory[l[2]].slot[1] \in Value
  BY <1>0, <1>1, <1>2 DEF ContentsOK, Plain, To, Value
<1>5. /\ To(Became(became, memory[l[2]].slot[1]), Plain)
      /\ Became(became, memory[l[2]].slot[1]) # Nil
  BY <1>0, <1>1, <1>4, BecameIs
<1> QED
  BY <1>1, <1>3, <1>5 DEF To

(* The locatives whose objects are marked with them.                       *)
LEMMA TargetsSurvive ==
  ASSUME HInv, NEW became, Becoming(became), NEW table, table \subseteq locatives, NEW kept,
         Ids(table) \intersect DOMAIN memory \subseteq kept,
         Ids(Targets(MemoryAfter(became), table)) \intersect DOMAIN memory \subseteq kept
  PROVE  Followed(became, kept, table)
<1> SUFFICES ASSUME NEW l \in table
             PROVE  l[2] \in kept /\ MemoryAfter(became)[l[2]].slot[1][2] \in kept
  BY DEF Followed
<1> DEFINE mem == MemoryAfter(became)
<1>1. /\ l # Nil /\ l[2] \in DOMAIN memory /\ mem[l[2]].slot[1] # Nil
      /\ mem[l[2]].slot[1][2] \in DOMAIN memory
  BY TargetIs
<1>2. l[2] \in Ids(table)
  BY <1>1, IdsOf
<1>3. mem[l[2]].slot[1] \in Targets(mem, table)
  BY DEF Targets
<1>4. mem[l[2]].slot[1][2] \in Ids(Targets(mem, table))
  BY <1>1, <1>3, IdsOf
<1> QED
  BY <1>1, <1>2, <1>4

(* What a major collection marks first.                                    *)
Live(became) == Reachable(MemoryAfter(became), Roots(became), FALSE)

(* A major or reallocating collection: an evacuation with its queue.  A    *)
(* released node had an object that was not live; a lost locative is not   *)
(* kept, or its object was not live, or it was not live itself and kept    *)
(* because of what an aborted minor collection had copied.                 *)
Collection(became, kept, minor, copied, table, nodes) ==
  /\ Evacuation(became, kept, minor, copied, table, nodes)
  /\ Queued' /\ QueueKept(kept)
  /\ \A f \in nodes : /\ Became(became, static[f])[2] \notin Live(became)
                      /\ Became(became, static[f])[2] \in Ids(Range(pending'))
  /\ \A l \in locatives \ table :
       l[2] \in kept => \/ MemoryAfter(became)[l[2]].slot[1][2] \notin Live(became)
                        \/ copied # {} /\ l[2] \notin Live(became)

(* A collection that moves everything keeps the invariant, if no locative  *)
(* goes astray.                                                            *)
LEMMA CollectionStep ==
  ASSUME HInv, NEW became, NEW kept, NEW minor, NEW copied, NEW table, NEW nodes,
         Collection(became, kept, minor, copied, table, nodes)
  PROVE  Solid' /\ (Followed(became, kept, table) => HInv')
BY EvacuationStep DEF Collection, QueueKept

(* A reallocating collection is one.                                       *)
LEMMA ReallocateIs ==
  ASSUME HInv, NEW became, Becoming(became), NEW weak, Reallocate(became, weak)
  PROVE  \E kept : Collection(became, kept, weak, {}, locatives, {})
                   /\ Followed(became, kept, locatives)
<1> DEFINE mem == MemoryAfter(became)
           from == Roots(became) \union LateRoots(became)
                     \union Ids(locatives) \union Ids(Targets(mem, locatives))
           kept == Reachable(mem, from, weak)
<1>0. Types /\ HeldOK /\ TableOK /\ Cells
  BY DEF HInv, Types, TableInv
<1>1. /\ half' \in HalfSizes /\ Cardinality(kept) <= half'
      /\ Evacuate(became, kept, {}, locatives, {}, {})
      /\ pending' = Renamed(became, pending)
  BY DEF Reallocate
<1>2. DOMAIN mem = DOMAIN memory
  BY <1>0, MemoryAfterIs
<1>3. /\ kept \subseteq DOMAIN mem /\ from \intersect DOMAIN mem \subseteq kept
      /\ \A x \in kept : Ids(Traced(mem[x], weak)) \intersect DOMAIN mem \subseteq kept
  BY ReachIsClosed
<1> HIDE DEF kept
<1>4. Surviving(became, kept, weak)
  BY <1>2, <1>3 DEF Surviving
<1>5. Followed(became, kept, locatives)
  BY <1>2, <1>3, TargetsSurvive
<1>6. Ids(locatives \ locatives) = {}
  BY DEF Ids
<1>7. Evacuation(became, kept, weak, {}, locatives, {})
  BY <1>1, <1>4, <1>5, <1>6 DEF Evacuation, Followed, Forwarded
<1>8. running' = running
  BY <1>1 DEF Evacuate
<1>9. Queued' /\ QueueKept(kept)
  BY <1>0, <1>1, <1>4, <1>8, RenamedQueue
<1>10. Collection(became, kept, weak, {}, locatives, {})
  BY <1>7, <1>9 DEF Collection
<1> QED
  BY <1>5, <1>10

(* A collection that has forwarded some objects in vain leaves pointers to *)
(* them; if the ones in the locative table are good, so are the objects.   *)
LEMMA FollowedSurvive ==
  ASSUME HInv, NEW became, Becoming(became), NEW kept, kept \subseteq DOMAIN memory, NEW copied,
         NEW table, table \subseteq locatives, NEW nodes,
         Evacuate(became, kept, copied, table, Ids(locatives \ table), nodes),
         \A l \in table : Forwarded(l, kept, copied)
                          /\ Forwarded(MemoryAfter(became)[l[2]].slot[1], kept, copied),
         TableIsFollowed'
  PROVE  Followed(became, kept, table)
<1> DEFINE lost == Ids(locatives \ table)
<1>0. Types /\ TableOK /\ Cells /\ Entered /\ LocativesOK
  BY DEF HInv, Types, TableInv
<1>1. /\ \A l \in table : /\ l[2] \notin lost /\ l # Nil /\ l[2] \in DOMAIN memory
                          /\ memory[l[2]].tag = "locative" /\ To(l, {"locative"})
  BY <1>0, TableOrLost
<1>2. lost \intersect Buckets = {}
  <2> SUFFICES ASSUME NEW l \in locatives, l # Nil, l[2] \in Buckets PROVE FALSE
    BY IdsOf
  <2>1. memory[l[2]].tag = "locative"
    BY <1>0 DEF LocativesOK, To
  <2>2. memory[l[2]].tag \in Linking
    BY <1>0 DEF TableOK
  <2> QED
    BY <2>1, <2>2 DEF Linking
<1> HIDE DEF lost
<1>e. Evacuate(became, kept, copied, table, lost, nodes)
  BY DEF lost
<1>v. /\ DOMAIN nursery' = {} /\ DOMAIN heap' = kept /\ DOMAIN memory' = kept /\ mutations' = {}
      /\ \A o \in kept :
              /\ IsCell(heap'[o]) /\ memory'[o] = heap'[o]
              /\ memory'[o].tag = memory[o].tag /\ memory'[o].name = memory[o].name
              /\ DOMAIN memory'[o].slot = DOMAIN memory[o].slot
              /\ \A i \in DOMAIN memory[o].slot :
                   memory'[o].slot[i] = SlotAfter(became, kept, copied, lost, o, i)
      /\ reg' = [r \in Reg |-> Settled(kept, copied, Became(became, reg[r]))]
      /\ static' = [s \in Static |->
                         IF s \in nodes THEN Nil
                         ELSE IF s = "table"
                         THEN Settled(kept, copied, NextKept(MemoryAfter(became), kept, static["table"]))
                         ELSE Settled(kept, copied, Became(became, static[s]))]
      /\ locatives' = {Settled(kept, copied, Became(became, l)) : l \in table}
      /\ running' = running
  BY <1>0, <1>2, <1>e, NothingBecomes, EvacuateIs
<1>3. /\ DOMAIN nursery' = {} /\ DOMAIN heap' = kept
      /\ \A o \in kept : \A i \in DOMAIN memory[o].slot :
           heap'[o].slot[i] = SlotAfter(became, kept, copied, lost, o, i)
      /\ locatives' = {Settled(kept, copied, Became(became, l)) : l \in table}
  BY <1>v
<1>4. \A v : Valid(v)' => v = Nil \/ v[1] = "old"
  BY <1>3 DEF Valid
<1>g. \A o \in Obj : Gone(o) # Nil /\ Gone(o)[1] = "gone" /\ Old(o) # Nil /\ Old(o)[2] = o
                     /\ Old(o)[1] = "old"
  BY HeapAssumption DEF Gone, Old
<1>5. ASSUME NEW w \in Value, w # Nil, Forwarded(w, kept, copied),
             Settled(kept, copied, w) = Nil \/ Settled(kept, copied, w)[1] = "old"
      PROVE  w[2] \in kept
  <2> SUFFICES ASSUME w[2] \notin kept PROVE FALSE
    OBVIOUS
  <2>1. IsYoung(w) /\ w[2] \in copied
    BY <1>5 DEF Forwarded
  <2>2. Settled(kept, copied, w) = Gone(w[2])
    BY <1>5, <2>1 DEF Settled
  <2>3. Gone(w[2]) # Nil /\ Gone(w[2])[1] = "gone"
    <3>1. w[2] \in Obj
      BY <1>5 DEF Value
    <3> QED
      BY <1>g, <3>1
  <2>4. Gone(w[2]) = Nil \/ Gone(w[2])[1] = "old"
    BY <1>5, <2>2
  <2>5. "gone" # "old"
    OBVIOUS
  <2> QED
    BY <2>3, <2>4, <2>5
<1> HIDE DEF Forwarded
<1>6. ASSUME NEW l \in table
      PROVE  l[2] \in kept /\ MemoryAfter(became)[l[2]].slot[1][2] \in kept
  <2> DEFINE k == Settled(kept, copied, l)
             t == MemoryAfter(became)[l[2]].slot[1]
  <2>1. /\ l # Nil /\ To(l, {"locative"}) /\ l \in Value /\ l[2] \notin lost
        /\ l[2] \in Obj /\ memory[l[2]].tag = "locative"
    BY <1>0, <1>1, Pointers
  <2>2. k \in locatives'
    <3>1. Became(became, l) = l
      BY <1>0, <2>1, BecameIs
    <3> QED
      BY <1>3, <3>1
  <2>3. Valid(k)' /\ Valid(At(k).slot[1])'
    BY <2>2 DEF TableIsFollowed
  <2>k. k = Nil \/ k[1] = "old"
    BY <1>3, <2>3 DEF Valid
  <2>4. l[2] \in kept
    BY <1>5, <2>1, <2>k
  <2>5. k = Old(l[2])
    BY <2>1, <2>4 DEF Settled
  <2>6. At(k)' = heap'[l[2]]
    BY <1>g, <2>1, <2>5 DEF At
  <2>7. heap'[l[2]].slot[1] = Settled(kept, copied, t)
    <3>1. IsCell(memory[l[2]]) /\ 1 \in DOMAIN memory[l[2]].slot /\ l[2] \notin Buckets
      BY <1>0, <1>1, <2>1, Objects DEF IsCell, SlotsOf, TableOK, Linking
    <3>2. heap'[l[2]].slot[1] = SlotAfter(became, kept, copied, lost, l[2], 1)
      BY <1>3, <2>4, <3>1
    <3>3. t = Became(became, memory[l[2]].slot[1])
      BY TargetIs
    <3> QED
      BY <2>1, <3>1, <3>2, <3>3 DEF SlotAfter
  <2>8. Settled(kept, copied, t) = Nil \/ Settled(kept, copied, t)[1] = "old"
    <3>1. At(k)'.slot[1] = Nil \/ At(k)'.slot[1][1] = "old"
      BY <1>3, <2>3 DEF Valid
    <3> QED
      BY <2>6, <2>7, <3>1
  <2>9. t # Nil /\ t \in Value
    <3>1. /\ t # Nil /\ t = Became(became, memory[l[2]].slot[1])
      BY TargetIs
    <3>2. memory[l[2]].slot[1] \in Value
      BY <1>0, <1>1, <2>1, Objects DEF IsCell, SlotsOf
    <3> QED
      BY <1>0, <3>1, <3>2, BecameIs
  <2> QED
    BY <1>5, <2>4, <2>8, <2>9
<1> QED
  BY <1>6 DEF Followed

(* The objects of released nodes are in the vector.                        *)
Answered(became, nodes) ==
  \A f \in nodes : Became(became, static[f])[2] \in Ids(Range(pending'))

(* The finalizers that a major collection queues: none while others wait   *)
(* to be run, and never more than the vector holds.                        *)
Places(due) ==
  IF pending # <<>> THEN 0
  ELSE IF Cardinality(due) < MaxPending THEN Cardinality(due) ELSE MaxPending

(* Either way the vector has survivors, and the nodes released are nodes.  *)
LEMMA QueueStep ==
  ASSUME Types, HeldOK, TableOK, NEW became, Becoming(became), NEW kept, NEW minor,
         Surviving(became, kept, minor), running' = running,
         NEW due \in SUBSET FinNode, \A f \in due : static[f] # Nil,
         NEW queue \in Injection(1 .. Places(due), due),
         pending' = IF pending # <<>> THEN Renamed(became, pending)
                    ELSE [i \in 1 .. Places(due) |-> Old(Became(became, static[queue[i]])[2])]
  PROVE  /\ Queued' /\ QueueKept(kept)
         /\ Range(queue) \subseteq due
         /\ Answered(became, Range(queue))
<1>1. queue \in [1 .. Places(due) -> due]
  BY DEF Injection
<1>2. Range(queue) \subseteq due
  BY <1>1 DEF Range
<1>3. CASE pending # <<>>
  <2>1. Places(due) = 0 /\ 1 .. 0 = {}
    BY <1>3 DEF Places
  <2>2. Range(queue) = {}
    BY <1>1, <2>1 DEF Range
  <2>3. pending' = Renamed(became, pending)
    BY <1>3
  <2>4. Queued' /\ QueueKept(kept)
    BY <2>3, RenamedQueue
  <2> QED
    BY <1>2, <2>2, <2>4 DEF Answered
<1>4. CASE pending = <<>>
  <2>1. Cardinality(due) \in Nat
    <3>1. IsFiniteSet(due)
      BY HeapAssumption, FS_Subset
    <3> QED
      BY <3>1, FS_CardinalityType
  <2>2. Places(due) \in Nat /\ Places(due) <= MaxPending
    BY <2>1, HeapAssumption DEF Places
  <2>3. pending' = [i \in 1 .. Places(due) |-> Old(Became(became, static[queue[i]])[2])]
    BY <1>4
  <2> HIDE DEF Places
  <2>4. Queued' /\ QueueKept(kept)
    BY <1>1, <1>4, <2>2, <2>3, FreshQueue
  <2>5. ASSUME NEW f \in Range(queue) PROVE Became(became, static[f])[2] \in Ids(Range(pending'))
    <3>1. PICK i \in 1 .. Places(due) : f = queue[i]
      BY <1>1 DEF Range
    <3> DEFINE o == Became(became, static[f])[2]
    <3>2. pending'[i] = Old(o) /\ i \in DOMAIN pending'
      BY <2>3, <3>1
    <3>3. DOMAIN pending' = 1 .. Len(pending')
      BY <2>4, LenProperties DEF Queued
    <3>4. PICK w : To(w, Plain) /\ w # Nil /\ pending'[i] = Old(w[2])
      BY <2>4, <3>2, <3>3 DEF QueueKept
    <3>5. Cells
      BY DEF Types
    <3>6. w[2] \in Obj
      BY <3>4, <3>5, Pointers
    <3>7. pending'[i] # Nil /\ pending'[i][2] = o
      BY <3>2, <3>4, <3>6, HeapAssumption DEF Old
    <3>8. pending'[i] \in Range(pending')
      BY <3>2 DEF Range
    <3> QED
      BY <3>7, <3>8, IdsOf
  <2> QED
    BY <1>2, <2>4, <2>5 DEF Answered
<1> QED
  BY <1>3, <1>4

(* What is marked in the end contains the roots and what it points to.     *)
LEMMA ReachSurvives ==
  ASSUME Cells, NEW became, Becoming(became), NEW minor, NEW from,
         Roots(became) \intersect DOMAIN memory \subseteq from,
         LateRoots(became) \intersect DOMAIN memory \subseteq from
  PROVE  Surviving(became, Reachable(MemoryAfter(became), from, minor), minor)
<1> DEFINE mem == MemoryAfter(became)
           kept == Reachable(mem, from, minor)
<1>1. DOMAIN mem = DOMAIN memory
  BY MemoryAfterIs
<1>2. /\ kept \subseteq DOMAIN mem /\ from \intersect DOMAIN mem \subseteq kept
      /\ \A x \in kept : Ids(Traced(mem[x], minor)) \intersect DOMAIN mem \subseteq kept
  BY ReachIsClosed
<1> HIDE DEF kept
<1> SUFFICES Surviving(became, kept, minor)
  BY DEF kept
<1> QED
  BY <1>1, <1>2 DEF Surviving

(* So is a major one, and a locative goes astray only after an aborted     *)
(* minor one.                                                              *)
LEMMA MajorGCIs ==
  ASSUME HInv, NEW became, Becoming(became), NEW copied, MajorGC(copied, became)
  PROVE  \E kept, minor, c, table, nodes :
           /\ Collection(became, kept, minor, c, table, nodes) /\ (c # {} => copied # {})
           /\ copied = {} \/ TableIsFollowed' => Followed(became, kept, table)
<1> DEFINE mem == MemoryAfter(became)
           live == Reachable(mem, Roots(became), FALSE)
           due == Due(became, live, copied)
           all == Reachable(mem, live \union LateRoots(became), FALSE)
           moved == {l \in locatives : Forwarded(l, all, copied)}
           found == {l \in moved : Forwarded(mem[l[2]].slot[1], all, copied)}
           count == Cardinality(all)
           kept == Reachable(mem, all \union Ids(found) \union Ids(Targets(mem, found)), FALSE)
<1>0. Types /\ HeldOK /\ TableOK /\ Cells
  BY DEF HInv, Types, TableInv
<1>1. CASE count > half
  <2>1. Reallocate(became, FALSE)
    BY <1>1 DEF MajorGC
  <2>2. PICK all2 : Collection(became, all2, FALSE, {}, locatives, {})
                    /\ Followed(became, all2, locatives)
    BY <2>1, ReallocateIs
  <2> QED
    BY <2>2
<1>2. CASE ~(count > half)
  <2>1. PICK queue \in Injection(1 .. Places(due), due) :
          /\ pending' = IF pending # <<>> THEN Renamed(became, pending)
                        ELSE [i \in 1 .. Places(due) |-> Old(Became(became, static[queue[i]])[2])]
          /\ \/ /\ count + MinFree <= half /\ half' = half
                /\ Evacuate(became, all, copied, found, Ids(locatives \ found), Range(queue))
             \/ /\ half' \in HalfSizes /\ Cardinality(kept) <= half'
                /\ Evacuate(became, kept, copied, found, Ids(locatives \ found), Range(queue))
    BY <1>2 DEF MajorGC, Places
  <2>2. /\ due \in SUBSET FinNode /\ \A f \in due : static[f] # Nil
        /\ \A f \in due : Became(became, static[f])[2] \notin Live(became)
    BY DEF Due, Forwarded, Live
  <2>3. found \subseteq locatives
    OBVIOUS
  <2>4. DOMAIN mem = DOMAIN memory
    BY <1>0, MemoryAfterIs
  <2>5. /\ live \subseteq DOMAIN memory /\ Roots(became) \intersect DOMAIN memory \subseteq live
    BY <2>4, ReachIsClosed
  <2>6. /\ all \subseteq DOMAIN memory /\ live \subseteq all
        /\ (live \union LateRoots(became)) \intersect DOMAIN memory \subseteq all
        /\ \A x \in all : Ids(Traced(mem[x], FALSE)) \intersect DOMAIN memory \subseteq all
    BY <2>4, <2>5, ReachIsClosed
  <2>7. /\ kept \subseteq DOMAIN memory
        /\ (all \union Ids(found) \union Ids(Targets(mem, found))) \intersect DOMAIN memory \subseteq kept
    BY <2>4, ReachIsClosed
  <2>8. Surviving(became, all, FALSE)
    <3>1. /\ Roots(became) \intersect DOMAIN memory \subseteq live \union LateRoots(became)
          /\ LateRoots(became) \intersect DOMAIN memory \subseteq live \union LateRoots(became)
      BY <2>5
    <3> QED
      BY <1>0, <3>1, ReachSurvives
  <2>9. Surviving(became, kept, FALSE)
    <3>1. /\ Roots(became) \intersect DOMAIN memory \subseteq all
          /\ LateRoots(became) \intersect DOMAIN memory \subseteq all
      BY <2>5, <2>6
    <3> HIDE DEF all, found
    <3> QED
      BY <1>0, <3>1, ReachSurvives
  <2>e. kept = Reachable(mem, all \union Ids(found) \union Ids(Targets(mem, found)), FALSE)
    OBVIOUS
  <2>f. \A l \in found : /\ Forwarded(l, all, copied)
                         /\ Forwarded(mem[l[2]].slot[1], all, copied)
    OBVIOUS
  <2>g. Ids(found) \intersect DOMAIN memory \subseteq kept
        /\ Ids(Targets(mem, found)) \intersect DOMAIN memory \subseteq kept
    BY <2>7
  <2>h. \A l \in locatives \ found :
          l[2] \notin all \/ mem[l[2]].slot[1][2] \notin Live(became)
    BY <2>6 DEF Forwarded, Live
  <2>i. live = Live(became)
    BY DEF Live
  <2> HIDE DEF live, due, all, found, kept, Places
  <2>10. CASE /\ count + MinFree <= half /\ half' = half
              /\ Evacuate(became, all, copied, found, Ids(locatives \ found), Range(queue))
    <3>1. running' = running
      BY <2>10 DEF Evacuate
    <3>2. /\ Queued' /\ QueueKept(all) /\ Range(queue) \subseteq due
          /\ Answered(became, Range(queue))
      BY <1>0, <2>1, <2>2, <2>8, <3>1, QueueStep
    <3>3. half' \in HalfSizes /\ Cardinality(all) <= half'
      <4>1. IsFiniteSet(all)
        BY <1>0, <2>6, Objects, HeapAssumption, FS_Subset
      <4>2. Cardinality(all) \in Nat /\ half \in HalfSizes /\ half \in Nat
        BY <1>0, <4>1, FS_CardinalityType, HeapAssumption DEF Types, Room
      <4> QED
        BY <1>2, <2>10, <4>2
    <3>4. copied = {} \/ TableIsFollowed' => Followed(became, all, found)
      <4>1. CASE copied = {}
        BY <2>f, <4>1 DEF Forwarded, Followed
      <4>2. CASE TableIsFollowed'
        BY <2>3, <2>6, <2>f, <2>10, <4>2, FollowedSurvive
      <4> QED
        BY <4>1, <4>2
    <3>5. Evacuation(became, all, FALSE, copied, found, Range(queue))
      BY <2>2, <2>3, <2>8, <2>10, <2>f, <3>2, <3>3 DEF Evacuation
    <3>6. Collection(became, all, FALSE, copied, found, Range(queue))
      BY <2>2, <2>h, <3>2, <3>5 DEF Collection, Answered
    <3> QED
      BY <3>4, <3>6
  <2>11. CASE /\ half' \in HalfSizes /\ Cardinality(kept) <= half'
              /\ Evacuate(became, kept, copied, found, Ids(locatives \ found), Range(queue))
    <3>1. running' = running
      BY <2>11 DEF Evacuate
    <3>2. /\ Queued' /\ QueueKept(kept) /\ Range(queue) \subseteq due
          /\ Answered(became, Range(queue))
      BY <1>0, <2>1, <2>2, <2>9, <3>1, QueueStep
    <3>3. Followed(became, kept, found)
      BY <2>3, <2>g, TargetsSurvive
    <3>4. Evacuation(became, kept, FALSE, copied, found, Range(queue))
      BY <2>2, <2>3, <2>9, <2>11, <3>2, <3>3 DEF Evacuation, Followed, Forwarded
    <3>5. copied = {} => kept \subseteq all
      <4> SUFFICES ASSUME copied = {} PROVE kept \subseteq all
        OBVIOUS
      <4>1. \A l \in found : l[2] \in all /\ mem[l[2]].slot[1][2] \in all
        BY <2>f DEF Forwarded
      <4>2. Ids(found) \subseteq all
        BY <4>1, IdsOf
      <4>3. Ids(Targets(mem, found)) \subseteq all
        BY <4>1, IdsOf DEF Targets
      <4>4. (all \union Ids(found) \union Ids(Targets(mem, found))) \intersect DOMAIN mem \subseteq all
        BY <4>2, <4>3
      <4>5. \A x \in all \intersect DOMAIN mem : Ids(Traced(mem[x], FALSE)) \intersect DOMAIN mem \subseteq all
        BY <2>4, <2>6
      <4> HIDE DEF mem
      <4> QED
        BY <2>e, <4>4, <4>5, ReachIsLeast
    <3>6. \A l \in locatives \ found :
            l[2] \in kept => \/ mem[l[2]].slot[1][2] \notin Live(became)
                             \/ copied # {} /\ l[2] \notin Live(became)
      BY <2>6, <2>h, <2>i, <3>5
    <3>7. Collection(became, kept, FALSE, copied, found, Range(queue))
      BY <2>2, <3>2, <3>4, <3>6 DEF Collection, Answered
    <3> QED
      BY <3>3, <3>7
  <2> QED
    BY <2>1, <2>10, <2>11
<1> QED
  BY <1>1, <1>2

(* A major collection keeps the invariant.                                 *)
LEMMA MajorGCStep ==
  ASSUME HInv, NEW became, Becoming(became), NEW copied, MajorGC(copied, became)
  PROVE  IInv' /\ (copied = {} => HInv')
<1>1. PICK kept, minor, c, table, nodes :
        /\ Collection(became, kept, minor, c, table, nodes)
        /\ copied = {} \/ TableIsFollowed' => Followed(became, kept, table)
  BY MajorGCIs
<1>2. Solid' /\ (copied = {} \/ TableIsFollowed' => HInv')
  BY <1>1, CollectionStep
<1> QED
  BY <1>2 DEF IInv, HInv

(* A forced collection: (gc #t).                                           *)
LEMMA ForcedGCStep == ASSUME HInv, ForcedGC PROVE HInv'
BY NothingBecomes, MajorGCStep DEF ForcedGC

(* The collection after an aborted minor one: a locative may go astray.    *)
LEMMA EscalatedGCStep == ASSUME HInv, EscalatedGC PROVE IInv'
<1>1. PICK copied \in SUBSET MinorLive : MajorGC(copied, Empty)
  BY DEF EscalatedGC
<1> QED
  BY <1>1, NothingBecomes, MajorGCStep

(* A resized heap, in either mode.                                         *)
LEMMA ResizedGCStep == ASSUME HInv, ResizedGC PROVE HInv'
<1>1. PICK weak \in BOOLEAN : Reallocate(Empty, weak)
  BY DEF ResizedGC
<1>2. \A w : Reallocate(Empty, w) => HInv'
  BY NothingBecomes, ReallocateIs, CollectionStep
<1> QED
  BY <1>1, <1>2

(* object-become!: the object that goes and the one that takes its place   *)
(* are two.                                                                *)
LEMMA BecomeStep ==
  ASSUME HInv, NEW p, NEW q, Become(p, q)
  PROVE  HInv'
<1>0. Types /\ HeldOK
  BY DEF HInv
<1>1. /\ p \in HeldOf({"block"}) /\ q \in HeldOf({"block"}) /\ q # p
      /\ MajorGC({}, [o \in {p[2]} |-> q])
  BY DEF Become
<1>2. /\ {"block"} \in SUBSET Plain
  BY DEF Plain
<1>3. /\ p[2] \in DOMAIN memory /\ memory[p[2]].tag = "block" /\ p = Pointer(p[2])
      /\ q[2] \in DOMAIN memory /\ q = Pointer(q[2]) /\ q # Nil /\ To(q, {"block"})
  BY <1>0, <1>1, <1>2, HeldOfKind
<1>4. q[2] # p[2]
  BY <1>1, <1>3
<1>5. Becoming([o \in {p[2]} |-> q])
  BY <1>3, <1>4 DEF Becoming
<1> QED
  BY <1>1, <1>5, MajorGCStep

(* Nothing happens.                                                        *)
LEMMA StutteringStep == ASSUME HInv, UNCHANGED vars PROVE HInv'
<1>1. /\ UNCHANGED <<nursery, heap, half, locatives>> /\ UNCHANGED <<reg, static, mutations>>
      /\ UNCHANGED <<pending, running>>
  BY DEF vars
<1>2. Entered' /\ Queued'
  BY <1>1 DEF HInv, Types, Entered, Queued
<1> QED
  BY <1>1, <1>2, SameStep

(* The steps of the program.                                               *)
LEMMA MutateStep == ASSUME HInv, Mutate PROVE HInv'
<1>1. ASSUME NEW r \in Reg, NEW v \in Held, Allocate(r, v) PROVE HInv'
  BY <1>1, AllocateStep
<1>2. ASSUME NEW r \in Reg, Fetch(r) PROVE HInv'
  BY <1>2, FetchStep
<1>3. ASSUME NEW p \in Held, NEW v \in Held, Store(p, v) PROVE HInv'
  BY <1>3, StoreStep
<1>4. ASSUME NEW s \in Global \union FinRoot, NEW v \in Held, StoreStatic(s, v) PROVE HInv'
  BY <1>4, StoreStaticStep
<1>5. ASSUME NEW r \in Reg, NEW n \in Name, AddSymbol(r, n) PROVE HInv'
  BY <1>5, AddSymbolStep
<1>6. ASSUME NEW r \in Reg, NEW n \in Name, FindSymbol(r, n) PROVE HInv'
  BY <1>6, FindSymbolStep
<1>7. ASSUME NEW p \in Held, NEW v \in Held, SetValue(p, v) PROVE HInv'
  BY <1>7, SetValueStep
<1>8. ASSUME NEW p \in Held, DropValue(p) PROVE HInv'
  BY <1>8, DropValueStep
<1>9. ASSUME NEW r \in Reg, NEW p \in Held, NEW weak \in BOOLEAN, MakeLocative(r, p, weak)
      PROVE  HInv'
  BY <1>9, MakeLocativeStep
<1>10. ASSUME NEW p \in Held, NEW f \in FinNode, RegisterFinalizer(p, f) PROVE HInv'
  BY <1>10, RegisterFinalizerStep
<1>11. ASSUME NEW r \in Reg, CallFinalizer(r) PROVE HInv'
  BY <1>11, CallFinalizerStep
<1>12. CASE ClearPending
  BY <1>12, ClearPendingStep
<1>13. ASSUME NEW r \in Reg, NEW v \in Held, LargeVector(r, v) PROVE HInv'
  BY <1>13, LargeVectorStep
<1> QED
  BY <1>1, <1>2, <1>3, <1>4, <1>5, <1>6, <1>7, <1>8, <1>9, <1>10, <1>11, <1>12, <1>13 DEF Mutate

(* Nothing changes what is there.                                          *)
LEMMA UnchangedStep == ASSUME IInv, UNCHANGED vars PROVE IInv'
<1>1. /\ nursery' = nursery /\ heap' = heap /\ half' = half /\ reg' = reg /\ static' = static
      /\ mutations' = mutations /\ locatives' = locatives /\ pending' = pending /\ running' = running
  BY DEF vars
<1>2. memory' = memory
  BY <1>1 DEF memory
<1>3. /\ \A v, tags : To(v, tags)' <=> To(v, tags)
      /\ \A o : Pointer(o)' = Pointer(o) /\ (Stray(o)' <=> Stray(o))
  BY <1>1, <1>2 DEF To, Pointer, Stray
<1>4. Buckets' = Buckets
  BY <1>1, <1>2 DEF Buckets
<1>5. Types'
  BY <1>1 DEF IInv, Solid, Types, Cells, Room, Entered, Queued
<1>6. HeldOK'
  <2>1. /\ \A r \in Reg : To(reg[r], Plain)' <=> To(reg[r], Plain)
        /\ \A s \in Static : To(static[s], Plain)' <=> To(static[s], Plain)
        /\ \A i \in 1 .. Len(pending) : To(pending[i], Plain)' <=> To(pending[i], Plain)
    BY <1>1, <1>2 DEF To, Pointer
  <2> QED
    BY <1>1, <2>1 DEF IInv, Solid, HeldOK
<1>7. \A o, i, tags : To(memory[o].slot[i], tags)' <=> To(memory[o].slot[i], tags)
  BY <1>1, <1>2 DEF To, Pointer
<1>8. StraysOK' /\ (ContentsOK => ContentsOK')
  BY <1>2, <1>3, <1>7 DEF IInv, Solid, StraysOK, ContentsOK
<1>9. TableInv'
  <2>1. To(static["table"], Linking)' <=> To(static["table"], Linking)
    BY <1>1, <1>2 DEF To, Pointer
  <2>2. TableOK'
    BY <1>2, <1>4, <1>7, <2>1 DEF IInv, Solid, TableInv, TableOK
  <2>3. PairsIn' /\ Acyclic' /\ Listed' /\ Distinct'
    BY <1>1, <1>2, <1>4 DEF IInv, Solid, TableInv, PairsIn, Acyclic, Listed, Distinct, SymbolOf
  <2> QED
    BY <2>2, <2>3 DEF TableInv
<1>10. MutationsTracked'
  BY <1>1, <1>4 DEF IInv, Solid, MutationsTracked
<1>11. LocativesOK => LocativesOK'
  <2>1. \A l \in locatives : To(l, {"locative"})' <=> To(l, {"locative"})
    BY <1>1, <1>2 DEF To, Pointer
  <2> QED
    BY <1>1, <1>2, <1>3, <2>1 DEF LocativesOK
<1>12. TableIsFollowed' <=> TableIsFollowed
  BY <1>1 DEF TableIsFollowed, Valid, At
<1> QED
  BY <1>5, <1>6, <1>8, <1>9, <1>10, <1>11, <1>12 DEF IInv, Solid

(* Every step keeps the invariant: the program runs only as long as no     *)
(* locative is astray.                                                     *)
LEMMA NextStep == ASSUME IInv, [Next]_vars PROVE IInv'
<1>1. CASE TableIsFollowed /\ Mutate
  BY <1>1, GoodIs, MutateStep
<1>2. CASE Collect
  BY <1>2, GoodIs, MinorGCStep, EscalatedGCStep, ForcedGCStep, ResizedGCStep DEF Collect
<1>3. CASE TableIsFollowed /\ ReplaceObject
  BY <1>3, GoodIs, BecomeStep DEF ReplaceObject
<1>4. CASE UNCHANGED vars
  BY <1>4, UnchangedStep
<1> QED
  BY <1>1, <1>2, <1>3, <1>4 DEF Next, Astray

(* An empty memory.                                                        *)
LEMMA InitiallyRight == Init => HInv
<1> SUFFICES ASSUME Init PROVE HInv
  OBVIOUS
<1>1. /\ nursery = Empty /\ heap = Empty /\ half \in HalfSizes
      /\ reg = [r \in Reg |-> Nil] /\ static = [s \in Static |-> Nil]
      /\ mutations = {} /\ locatives = {} /\ pending = <<>> /\ running = 0
  BY DEF Init
<1>2. DOMAIN nursery = {} /\ DOMAIN heap = {} /\ DOMAIN memory = {}
  BY <1>1, MemoryIs DEF Empty
<1>3. Buckets = {}
  BY <1>2, ChainIsClosed DEF Buckets
<1>4. Nil \in Value
  BY DEF Value
<1>5. Types
  <2>1. Cells
    BY <1>2 DEF Cells
  <2>2. Room
    <3>1. Cardinality({}) = 0
      BY FS_EmptySet
    <3>2. half \in Nat
      BY <1>1, HeapAssumption
    <3> QED
      BY <1>1, <1>2, <3>1, <3>2, HeapAssumption DEF Room
  <2>3. Entered
    BY <1>1, <1>4 DEF Entered
  <2>4. Queued
    BY <1>1, HeapAssumption DEF Queued
  <2> QED
    BY <2>1, <2>2, <2>3, <2>4 DEF Types
<1>6. HeldOK
  BY <1>1 DEF HeldOK, To
<1>7. ContentsOK
  BY <1>2 DEF ContentsOK
<1>8. TableInv
  <2>1. "table" \in Static
    BY DEF Static
  <2>2. TableOK
    BY <1>1, <1>3, <2>1 DEF TableOK, To
  <2>3. PairsIn /\ Acyclic /\ Listed /\ Distinct
    BY <1>2, <1>3 DEF PairsIn, Acyclic, Listed, Distinct
  <2> QED
    BY <2>2, <2>3 DEF TableInv
<1>9. LocativesOK
  BY <1>1, <1>2 DEF LocativesOK
<1>10. MutationsTracked
  BY <1>1, <1>2 DEF MutationsTracked, IsYoung
<1> QED
  BY <1>5, <1>6, <1>7, <1>8, <1>9, <1>10 DEF HInv

-----------------------------------------------------------------------------
(* What the invariant is for.                                              *)

(* The program gets at plain objects and at the buckets of the table.      *)
LEMMA AccessibleObjects ==
  ASSUME Solid
  PROVE  /\ Accessible \subseteq DOMAIN memory
         /\ \A o \in Accessible : memory[o].tag \in Plain \/ o \in Buckets
<1> DEFINE strong == [o \in DOMAIN memory |-> [memory[o] EXCEPT !.tag = "block"]]
           S == {o \in DOMAIN memory : memory[o].tag \in Plain} \union Buckets
<1>0. /\ Types /\ Cells /\ Entered /\ Queued /\ HeldOK /\ StraysOK /\ TableOK
  BY DEF Solid, Types, TableInv
<1>1. Accessible = Reachable(strong, Ids(Entries), TRUE) /\ DOMAIN strong = DOMAIN memory
  BY DEF Accessible
<1>2. Buckets \subseteq DOMAIN memory
  BY ChainIsClosed DEF Buckets
<1>3. ASSUME NEW o \in DOMAIN memory
      PROVE  Traced(strong[o], TRUE) = {memory[o].slot[i] : i \in DOMAIN memory[o].slot}
  <2>1. IsCell(memory[o])
    BY <1>0, Objects
  <2>2. strong[o] = Cell("block", memory[o].name, memory[o].slot)
    BY <2>1, CellChanged
  <2>3. strong[o].tag = "block" /\ strong[o].slot = memory[o].slot
    BY <2>2, CellParts
  <2> HIDE DEF strong
  <2>4. TracedSlots(strong[o], TRUE) = DOMAIN memory[o].slot
    BY <2>3 DEF TracedSlots
  <2> QED
    BY <2>3, <2>4 DEF Traced
<1> HIDE DEF strong
<1>4. Ids(Entries) \intersect DOMAIN memory \subseteq S
  <2> SUFFICES ASSUME NEW v \in Entries, v # Nil, v[2] \in DOMAIN memory PROVE v[2] \in S
    BY IdsOf
  <2>1. CASE v \in Range(reg)
    <3>1. PICK r \in Reg : v = reg[r]
      BY <1>0, <2>1 DEF Range, Entered
    <3> QED
      BY <1>0, <3>1 DEF HeldOK, To
  <2>2. CASE v \in Range(pending)
    <3>1. PICK i \in 1 .. Len(pending) : v = pending[i]
      BY <1>0, <2>2, LenProperties DEF Range, Queued
    <3> QED
      BY <1>0, <3>1 DEF HeldOK, To
  <2>3. CASE v \in Range(static)
    <3>1. PICK s \in Static : v = static[s]
      BY <1>0, <2>3 DEF Range, Entered
    <3>2. CASE s # "table"
      BY <1>0, <3>1, <3>2 DEF HeldOK, To
    <3>3. CASE s = "table"
      <4>1. v[2] \in Ids({static["table"]}) \intersect DOMAIN memory
        BY <3>1, <3>3, IdsOf
      <4> QED
        BY <4>1, ChainIsClosed DEF Buckets
    <3> QED
      BY <3>2, <3>3
  <2> QED
    BY <2>1, <2>2, <2>3 DEF Entries
<1>5. ASSUME NEW o \in S PROVE Ids(Traced(strong[o], TRUE)) \intersect DOMAIN memory \subseteq S
  <2>t. o \in DOMAIN memory
    BY <1>2
  <2>v. Traced(strong[o], TRUE) = {memory[o].slot[i] : i \in DOMAIN memory[o].slot}
    BY <1>3, <2>t
  <2> SUFFICES ASSUME NEW x \in Ids(Traced(strong[o], TRUE)), x \in DOMAIN memory PROVE x \in S
    OBVIOUS
  <2>w. PICK v \in Traced(strong[o], TRUE) : v # Nil /\ v[2] = x
    BY IdsOf
  <2>x. PICK i \in DOMAIN memory[o].slot : v = memory[o].slot[i]
    BY <2>v
  <2>y. memory[o].slot[i] # Nil /\ memory[o].slot[i][2] = x
    BY <2>w, <2>x
  <2>1. CASE memory[o].tag \in Plain
    <3>1. To(memory[o].slot[i], Plain)
      BY <1>0, <1>2, <2>1, <2>y DEF StraysOK
    <3>2. memory[memory[o].slot[i][2]].tag \in Plain
      BY <2>y, <3>1 DEF To
    <3> QED
      BY <2>y, <3>2
  <2>2. CASE o \in Buckets
    <3>1. DOMAIN memory[o].slot = {1, 2}
      BY <1>0, <1>2, <2>2, Objects DEF TableOK, IsCell, SlotsOf, Linking
    <3>2. CASE i = 1
      <4>1. To(memory[o].slot[1], {"symbol"})
        BY <1>0, <2>2 DEF TableOK
      <4> QED
        BY <2>y, <3>2, <4>1 DEF To, Plain
    <3>3. CASE i = 2
      <4>1. Rest(memory, o) = Ids({memory[o].slot[2]})
        BY <3>1, RestOfTwo
      <4>2. memory[o].slot[2][2] \in Rest(memory, o) \intersect DOMAIN memory
        BY <2>y, <3>3, <4>1, IdsOf
      <4> QED
        BY <2>2, <2>y, <3>3, <4>2, ChainIsClosed DEF Buckets
    <3> QED
      BY <3>1, <3>2, <3>3
  <2> QED
    BY <2>1, <2>2
<1>6. Accessible \subseteq S
  <2>1. Ids(Entries) \intersect DOMAIN strong \subseteq S
    BY <1>1, <1>4
  <2>2. \A x \in S \intersect DOMAIN strong :
          Ids(Traced(strong[x], TRUE)) \intersect DOMAIN strong \subseteq S
    BY <1>1, <1>5
  <2> HIDE DEF S
  <2>3. Reachable(strong, Ids(Entries), TRUE) \subseteq S
    BY <2>1, <2>2, ReachIsLeast
  <2> QED
    BY <1>1, <2>3
<1> QED
  BY <1>2, <1>6

(* Every accessible pointer finds its object, or a locative is astray.     *)
LEMMA PointersAreRight == Solid => PointersValid
<1> SUFFICES ASSUME Solid PROVE PointersValid
  OBVIOUS
<1>0. /\ Types /\ Cells /\ Entered /\ Queued /\ HeldOK /\ StraysOK /\ TableOK
  BY DEF Solid, Types, TableInv
<1>1. \A v, tags : To(v, tags) => Valid(v)
  <2> SUFFICES ASSUME NEW v, NEW tags, To(v, tags) PROVE Valid(v)
    OBVIOUS
  <2>1. CASE v = Nil
    BY <2>1 DEF Valid
  <2>2. CASE v # Nil
    BY <1>0, <2>2, Pointers
  <2> QED
    BY <2>1, <2>2
<1>2. ASSUME NEW v \in Entries PROVE Valid(v)
  <2>1. CASE v \in Range(reg)
    <3>1. PICK r \in Reg : v = reg[r]
      BY <1>0, <2>1 DEF Range, Entered
    <3> QED
      BY <1>0, <1>1, <3>1 DEF HeldOK
  <2>2. CASE v \in Range(pending)
    <3>1. PICK i \in 1 .. Len(pending) : v = pending[i]
      BY <1>0, <2>2, LenProperties DEF Range, Queued
    <3> QED
      BY <1>0, <1>1, <3>1 DEF HeldOK
  <2>3. CASE v \in Range(static)
    <3>1. PICK s \in Static : v = static[s]
      BY <1>0, <2>3 DEF Range, Entered
    <3>2. CASE s # "table"
      BY <1>0, <1>1, <3>1, <3>2 DEF HeldOK
    <3>3. CASE s = "table"
      BY <1>0, <1>1, <3>1, <3>3 DEF TableOK
    <3> QED
      BY <3>2, <3>3
  <2> QED
    BY <2>1, <2>2, <2>3 DEF Entries
<1>3. ASSUME NEW o \in Accessible, NEW i \in DOMAIN memory[o].slot
      PROVE  Valid(memory[o].slot[i]) \/ (i = 1 /\ Stray(o))
  <2>1. o \in DOMAIN memory /\ (memory[o].tag \in Plain \/ o \in Buckets)
    BY AccessibleObjects
  <2>3. CASE memory[o].tag \in Plain
    BY <1>0, <1>1, <2>1, <2>3 DEF StraysOK
  <2>4. CASE o \in Buckets
    <3>1. DOMAIN memory[o].slot = {1, 2}
      BY <1>0, <2>1, <2>4, Objects DEF TableOK, IsCell, SlotsOf, Linking
    <3>2. To(memory[o].slot[1], {"symbol"}) /\ To(memory[o].slot[2], Linking)
      BY <1>0, <2>4 DEF TableOK
    <3> QED
      BY <1>1, <3>1, <3>2
  <2> QED
    BY <2>1, <2>3, <2>4
<1> QED
  BY <1>2, <1>3 DEF PointersValid

(* Symbols with one name are one, because the table has them all.          *)
LEMMA SymbolsAreUnique == Solid => SymbolsUnique
<1> SUFFICES ASSUME Solid PROVE SymbolsUnique
  OBVIOUS
<1>0. Listed /\ Distinct /\ Accessible \subseteq DOMAIN memory
  BY AccessibleObjects DEF Solid, TableInv
<1>1. ASSUME NEW o \in Accessible, memory[o].tag = "symbol"
      PROVE  \E b \in Buckets : SymbolOf(b) = o
  BY <1>0, <1>1 DEF Listed
<1>2. ASSUME NEW o \in Accessible, memory[o].tag = "symbol",
             NEW p \in Accessible, memory[p].tag = "symbol", memory[p].name = memory[o].name
      PROVE  p = o
  <2>1. PICK b \in Buckets : SymbolOf(b) = o
    BY <1>1, <1>2
  <2>2. PICK c \in Buckets : SymbolOf(c) = p
    BY <1>1, <1>2
  <2>3. memory[SymbolOf(b)].name = memory[SymbolOf(c)].name
    BY <1>2, <2>1, <2>2
  <2>4. b = c
    BY <1>0, <2>3 DEF Distinct
  <2> QED
    BY <2>1, <2>2, <2>4
<1> QED
  BY <1>1, <1>2 DEF SymbolsUnique, SymbolOf

-----------------------------------------------------------------------------
(* The invariant holds of every behaviour of the memory, with the          *)
(* collections after an aborted minor one in it: these are all that can    *)
(* lead a locative astray.                                                 *)
THEOREM HeapInvariance == Spec => []IInv
<1>1. Init => IInv
  BY InitiallyRight, GoodIs
<1>2. IInv /\ [Next]_vars => IInv'
  BY NextStep
<1> QED
  BY <1>1, <1>2, PTL DEF Spec

(* Everything keeps its type through every collection.                     *)
THEOREM HeapTypeCorrect == Spec => []TypeOK
<1>1. IInv => TypeOK
  BY TypesAreRight DEF IInv, Solid
<1> QED
  BY <1>1, HeapInvariance, PTL

(* No collection forgets a pointer that the program can get at, in any     *)
(* mode, after an aborted minor collection too: all that can come to point *)
(* to a half that was given up is the raw pointer of a locative.           *)
THEOREM PointersAreValid == Spec => []PointersValid
<1>1. IInv => PointersValid
  BY PointersAreRight DEF IInv
<1> QED
  BY <1>1, HeapInvariance, PTL

(* The mutation stack has every slot a minor collection must look at.      *)
THEOREM RememberedSetComplete == Spec => []MutationsTracked
<1>1. IInv => MutationsTracked
  BY DEF IInv, Solid
<1> QED
  BY <1>1, HeapInvariance, PTL

(* There is one accessible symbol per name, and it is in the table.        *)
THEOREM OneSymbolPerName == Spec => []SymbolsUnique
<1>1. IInv => SymbolsUnique
  BY SymbolsAreUnique DEF IInv
<1> QED
  BY <1>1, HeapInvariance, PTL

-----------------------------------------------------------------------------
(* What the program holds strongly, across a collection.                   *)

(* The names of several values are those of each of them.                  *)
LEMMA IdsOfEach ==
  ASSUME NEW vs, NEW D, NEW L, \A v \in vs : Ids({v}) \intersect D \subseteq L
  PROVE  Ids(vs) \intersect D \subseteq L
<1> SUFFICES ASSUME NEW v \in vs, v # Nil, v[2] \in D PROVE v[2] \in L
  BY IdsOf
<1> QED
  BY IdsOf

(* More values have more names.                                            *)
LEMMA IdsAreMore == ASSUME NEW vs, NEW v \in vs PROVE Ids({v}) \subseteq Ids(vs)
BY DEF Ids

(* Values that have their names among those of others.                     *)
LEMMA FewerIds ==
  ASSUME NEW vs, NEW ws, \A v \in vs : \E w \in ws : Ids({v}) \subseteq Ids({w})
  PROVE  Ids(vs) \subseteq Ids(ws)
<1> SUFFICES ASSUME NEW v \in vs, v # Nil PROVE v[2] \in Ids(ws)
  BY IdsOf
<1>1. PICK w \in ws : Ids({v}) \subseteq Ids({w})
  OBVIOUS
<1>2. v[2] \in Ids({w})
  BY <1>1, IdsOf
<1> QED
  BY <1>2, IdsAreMore

(* A set that holds what the roots of the program lead to before a         *)
(* collection, and with each object what it points to.                     *)
Holding(became, L) ==
  /\ \A r \in Reg : Ids({Became(became, reg[r])}) \intersect DOMAIN memory \subseteq L
  /\ \A s \in Global : Ids({Became(became, static[s])}) \intersect DOMAIN memory \subseteq L
  /\ Ids({static["table"]}) \intersect DOMAIN memory \subseteq L
  /\ \A o \in L \intersect DOMAIN memory : \A i \in TracedSlots(memory[o], FALSE) :
       Ids({Became(became, memory[o].slot[i])}) \intersect DOMAIN memory \subseteq L

(* It holds the symbol table.                                              *)
LEMMA HoldingBuckets ==
  ASSUME Cells, TableOK, NEW became, Becoming(became), NEW L, Holding(became, L)
  PROVE  Buckets \subseteq L
<1>1. /\ Buckets \subseteq DOMAIN memory /\ Ids({static["table"]}) \subseteq Buckets
      /\ \A b \in Buckets : DOMAIN memory[b].slot = {1, 2}
                            /\ Ids({memory[b].slot[2]}) \subseteq Buckets
  BY BucketsAfter
<1>2. \A b \in Buckets \intersect L : Ids({memory[b].slot[2]}) \subseteq L
  <2> SUFFICES ASSUME NEW b \in Buckets, b \in L PROVE Ids({memory[b].slot[2]}) \subseteq L
    OBVIOUS
  <2>1. 2 \in TracedSlots(memory[b], FALSE)
    BY <1>1 DEF TracedSlots
  <2>2. Became(became, memory[b].slot[2]) = memory[b].slot[2]
    BY BecameIs DEF TableOK
  <2> QED
    BY <1>1, <2>1, <2>2 DEF Holding
<1>3. \A b \in Buckets \intersect L : Rest(memory, b) \subseteq Buckets \intersect L
  BY <1>1, <1>2, RestOfTwo
<1>4. Ids({static["table"]}) \subseteq Buckets \intersect L
  BY <1>1 DEF Holding
<1> QED
  BY <1>1, <1>3, <1>4, ChainIsLeast DEF Buckets

(* After it the program holds nothing else.                                *)
LEMMA StrongAfter ==
  ASSUME HInv, NEW became, NEW kept, NEW minor, NEW copied, NEW table, NEW nodes,
         Evacuation(became, kept, minor, copied, table, nodes), NEW L, Holding(became, L)
  PROVE  Strong' \subseteq L
<1> DEFINE lost == Ids(locatives \ table)
           from == Ids(Range(reg') \union {static'[s] : s \in Global \union {"table"}})
<1>1. /\ Types /\ HeldOK /\ TableOK /\ Cells /\ Entered /\ Becoming(became)
      /\ Kept(kept) /\ Moved(kept) /\ Copies(became, kept, copied, lost)
      /\ NewRoots(became, kept, copied, table, nodes) /\ nodes \subseteq FinNode
  BY EvacuationIs DEF Evacuation
<1>2. Buckets \subseteq L /\ kept \subseteq DOMAIN memory /\ DOMAIN memory' = kept
  BY <1>1, HoldingBuckets DEF Kept, Moved
<1>3. \A w \in Value : Ids({Settled(kept, copied, w)}) = Ids({w})
  <2> SUFFICES ASSUME NEW w \in Value PROVE Ids({Settled(kept, copied, w)}) = Ids({w})
    OBVIOUS
  <2>1. /\ Settled(kept, copied, w) = Nil <=> w = Nil
        /\ w # Nil => Settled(kept, copied, w)[2] = w[2]
    BY SettledIs
  <2> HIDE DEF Settled
  <2> QED
    BY <2>1, IdsOf
<1>4. \A v \in Value : Became(became, v) \in Value
  BY <1>1, BecameIs
<1>5. \A v : IsLink(v) => Ids({HeadAfter(became, kept, copied, v)}) \subseteq L
  <2>1. \A v : IsLink(v) =>
          /\ Ids({HeadAfter(became, kept, copied, v)}) \subseteq Stays(kept, v)
          /\ Stays(kept, v) \subseteq KeptBuckets(kept)
    BY <1>1, HeadAfterIs DEF Kept, Moved, Copies
  <2> QED
    BY <1>2, <2>1 DEF KeptBuckets
<1>6. from \intersect kept \subseteq L
  <2>1. ASSUME NEW r \in Reg PROVE Ids({reg'[r]}) \intersect kept \subseteq L
    <3>1. reg'[r] = Settled(kept, copied, Became(became, reg[r]))
      BY <1>1 DEF NewRoots
    <3>2. reg[r] \in Value
      BY <1>1 DEF Entered
    <3> QED
      BY <1>2, <1>3, <1>4, <3>1, <3>2 DEF Holding
  <2>2. ASSUME NEW s \in Global PROVE Ids({static'[s]}) \intersect kept \subseteq L
    <3>1. s \notin nodes /\ s # "table" /\ s \in Static
      BY <1>1, HeapAssumption DEF Static
    <3>2. static'[s] = Settled(kept, copied, Became(became, static[s]))
      BY <1>1, <3>1 DEF NewRoots
    <3>3. static[s] \in Value
      BY <1>1, <3>1 DEF Entered
    <3> QED
      BY <1>2, <1>3, <1>4, <3>2, <3>3 DEF Holding
  <2>3. Ids({static'["table"]}) \intersect kept \subseteq L
    <3>1. "table" \notin nodes /\ "table" \in Static
      BY <1>1, HeapAssumption DEF Static
    <3>2. static'["table"] = HeadAfter(became, kept, copied, static["table"])
      BY <1>1, <3>1 DEF NewRoots
    <3>3. IsLink(static["table"])
      BY <1>1, BucketsAfter DEF IsLink, TableOK
    <3> QED
      BY <1>5, <3>2, <3>3
  <2>4. Range(reg') = {reg'[r] : r \in Reg}
    BY <1>1 DEF NewRoots, Range
  <2>5. \A v \in Range(reg') \union {static'[s] : s \in Global \union {"table"}} :
          Ids({v}) \intersect kept \subseteq L
    BY <2>1, <2>2, <2>3, <2>4
  <2> QED
    BY <2>5, IdsOfEach
<1>7. ASSUME NEW o \in L, o \in DOMAIN memory'
      PROVE  Ids(Traced(memory'[o], FALSE)) \intersect kept \subseteq L
  <2>1. /\ o \in kept /\ o \in DOMAIN memory /\ IsCell(memory[o])
        /\ memory'[o].tag = memory[o].tag /\ DOMAIN memory'[o].slot = DOMAIN memory[o].slot
        /\ \A i \in DOMAIN memory[o].slot :
             memory'[o].slot[i] = SlotAfter(became, kept, copied, lost, o, i)
    BY <1>1, <1>7 DEF Moved, Copies, Kept
  <2>2. /\ TracedSlots(memory'[o], FALSE) = TracedSlots(memory[o], FALSE)
        /\ TracedSlots(memory[o], FALSE) \subseteq DOMAIN memory[o].slot
    BY <2>1, TracedAreSlots DEF TracedSlots
  <2>3. ASSUME NEW i \in TracedSlots(memory[o], FALSE) PROVE Ids({memory'[o].slot[i]}) \intersect kept \subseteq L
    <3>0. i \in DOMAIN memory[o].slot /\ memory[o].slot[i] \in Value
      BY <2>1, <2>2, TracedIs
    <3>1. CASE o \in lost /\ i = 1
      BY <2>1, <3>0, <3>1, IdsOf DEF SlotAfter
    <3>2. CASE ~(o \in lost /\ i = 1) /\ o \in Buckets /\ i = 2
      <4>1. memory'[o].slot[i] = HeadAfter(became, kept, copied, memory[o].slot[2])
        BY <2>1, <3>0, <3>2 DEF SlotAfter, HeadAfter
      <4>2. IsLink(memory[o].slot[2])
        BY <1>1, <3>2, BucketsAfter DEF IsLink, TableOK
      <4> QED
        BY <1>5, <4>1, <4>2
    <3>3. CASE ~(o \in lost /\ i = 1) /\ ~(o \in Buckets /\ i = 2)
      <4>1. memory'[o].slot[i] = Settled(kept, copied, Became(became, memory[o].slot[i]))
        BY <2>1, <3>0, <3>3 DEF SlotAfter
      <4>2. Ids({memory'[o].slot[i]}) = Ids({Became(became, memory[o].slot[i])})
        BY <1>3, <1>4, <3>0, <4>1
      <4> QED
        BY <1>2, <2>1, <2>3, <4>2 DEF Holding
    <3> QED
      BY <3>1, <3>2, <3>3
  <2>4. \A v \in Traced(memory'[o], FALSE) : Ids({v}) \intersect kept \subseteq L
    BY <2>2, <2>3 DEF Traced
  <2> QED
    BY <2>4, IdsOfEach
<1>8. Strong' = Reachable(memory', from, FALSE)
  BY DEF Strong
<1> HIDE DEF from
<1> QED
  BY <1>2, <1>6, <1>7, <1>8, ReachIsLeast

-----------------------------------------------------------------------------
(* Finalizers.                                                             *)

(* What is live before a collection.                                       *)
LEMMA LiveHolds ==
  ASSUME HInv, NEW became, Becoming(became)
  PROVE  Holding(became, Live(became))
<1> DEFINE mem == MemoryAfter(became)
<1>1. TableOK /\ Cells /\ Entered
  BY DEF HInv, Types, TableInv
<1>2. /\ DOMAIN mem = DOMAIN memory
      /\ \A o \in DOMAIN memory :
           /\ mem[o].tag = memory[o].tag /\ DOMAIN mem[o].slot = DOMAIN memory[o].slot
           /\ \A i \in DOMAIN memory[o].slot : mem[o].slot[i] = Became(became, memory[o].slot[i])
  BY <1>1, MemoryAfterIs
<1>3. /\ Live(became) \subseteq DOMAIN memory
      /\ Roots(became) \intersect DOMAIN memory \subseteq Live(became)
      /\ \A x \in Live(became) : Ids(Traced(mem[x], FALSE)) \intersect DOMAIN memory \subseteq Live(became)
  BY <1>2, ReachIsClosed DEF Live
<1> HIDE DEF mem
<1>5. ASSUME NEW r \in Reg
      PROVE Ids({Became(became, reg[r])}) \intersect DOMAIN memory \subseteq Live(became)
  <2>1. reg[r] \in Range(reg)
    BY <1>1 DEF Entered, Range
  <2>2. Ids({Became(became, reg[r])}) \subseteq Roots(became)
    BY <2>1, IdsOf DEF Roots
  <2> QED
    BY <1>3, <2>2
<1>6. ASSUME NEW s \in Global
      PROVE Ids({Became(became, static[s])}) \intersect DOMAIN memory \subseteq Live(became)
  <2>1. Ids({Became(became, static[s])}) \subseteq Roots(became)
    BY IdsOf DEF Roots
  <2> QED
    BY <1>3, <2>1
<1>7. Ids({static["table"]}) \intersect DOMAIN memory \subseteq Live(became)
  <2>1. Became(became, static["table"]) = static["table"]
    BY <1>1, BecameIs DEF TableOK
  <2>2. Ids({static["table"]}) \subseteq Roots(became)
    BY <2>1, IdsOf DEF Roots
  <2> QED
    BY <1>3, <2>2
<1>8. ASSUME NEW o \in Live(became), NEW i \in TracedSlots(memory[o], FALSE), o \in DOMAIN memory
      PROVE  Ids({Became(became, memory[o].slot[i])}) \intersect DOMAIN memory \subseteq Live(became)
  <2>1. i \in DOMAIN memory[o].slot
    BY <1>1, <1>8, Objects, TracedAreSlots
  <2>2. i \in TracedSlots(mem[o], FALSE)
    BY <1>2, <1>8 DEF TracedSlots
  <2>3. Became(became, memory[o].slot[i]) \in Traced(mem[o], FALSE)
    BY <1>2, <1>8, <2>1, <2>2 DEF Traced
  <2>4. Ids({Became(became, memory[o].slot[i])}) \subseteq Ids(Traced(mem[o], FALSE))
    BY <2>3, IdsAreMore
  <2> QED
    BY <1>3, <2>4
<1> QED
  BY <1>5, <1>6, <1>7, <1>8 DEF Holding

(* A node that is released by a collection had a dead object, which is now *)
(* in the vector.                                                          *)
LEMMA ReleasedAreDead ==
  ASSUME HInv, NEW became, NEW kept, NEW minor, NEW copied, NEW table, NEW nodes,
         Collection(became, kept, minor, copied, table, nodes),
         NEW f \in FinNode, static[f] # Nil, static'[f] = Nil
  PROVE  static[f][2] \notin Strong' /\ static[f][2] \in Ids(Range(pending'))
<1> DEFINE w == Became(became, static[f])
<1>1. /\ Evacuation(became, kept, minor, copied, table, nodes) /\ Becoming(became)
      /\ \A g \in nodes : /\ Became(became, static[g])[2] \notin Live(became)
                          /\ Became(became, static[g])[2] \in Ids(Range(pending'))
  BY DEF Collection, Evacuation
<1>2. Cells /\ Entered /\ HeldOK /\ NewRoots(became, kept, copied, table, nodes)
  BY <1>1, EvacuationIs
<1>3. f \in Static /\ f # "table"
  BY HeapAssumption DEF Static
<1>4. To(w, Plain) /\ w # Nil /\ w \in Value
  BY <1>1, <1>2, <1>3, BecameIs DEF HeldOK, Entered
<1>5. f \in nodes
  <2>1. Settled(kept, copied, w) # Nil
    BY <1>4, SettledIs
  <2> QED
    BY <1>2, <1>3, <2>1 DEF NewRoots
<1>6. w[2] \notin Live(became) /\ w[2] \in Ids(Range(pending'))
  BY <1>1, <1>5
<1>7. static[f][2] \notin DOMAIN became
  <2> SUFFICES ASSUME static[f][2] \in DOMAIN became PROVE FALSE
    OBVIOUS
  <2>1. w = became[static[f][2]]
    BY DEF Became
  <2>2. w \in Range(became)
    BY <2>1 DEF Range
  <2>3. w[2] \in Roots(became)
    BY <1>4, <2>2, IdsOf DEF Roots
  <2>4. w[2] \in DOMAIN memory /\ DOMAIN MemoryAfter(became) = DOMAIN memory
    BY <1>1, <1>2, <1>4, MemoryAfterIs DEF To
  <2> QED
    BY <1>6, <2>3, <2>4, ReachIsClosed DEF Live
<1>8. w = static[f]
  BY <1>7 DEF Became
<1>9. Strong' \subseteq Live(became)
  BY <1>1, LiveHolds, StrongAfter
<1> QED
  BY <1>6, <1>8, <1>9

(* What the program does releases no node, and neither does a minor        *)
(* collection.                                                             *)
LEMMA NodesAreKept ==
  ASSUME HInv, Mutate \/ MinorGC, NEW f \in FinNode, static[f] # Nil
  PROVE  static'[f] # Nil
<1>1. Cells /\ Entered /\ HeldOK /\ f \in Static /\ f # "table" /\ f \notin Global \union FinRoot
  BY HeapAssumption DEF HInv, Types, Static
<1>2. CASE static' = static
  BY <1>2
<1>3. ASSUME NEW s \in Global \union FinRoot \union {"table"}, NEW v,
             static' = [static EXCEPT ![s] = v]
      PROVE  static'[f] # Nil
  BY <1>1, <1>3 DEF Entered
<1>4. ASSUME NEW p \in Held, NEW g \in FinNode, RegisterFinalizer(p, g) PROVE static'[f] # Nil
  <2>1. static' = [static EXCEPT ![g] = p] /\ p # Nil
    BY <1>4 DEF RegisterFinalizer, HeldOf
  <2> QED
    BY <1>1, <2>1 DEF Entered
<1>5. CASE MinorGC
  <2>1. static'[f] = Follow(static[f]) /\ static[f] \in Value
    BY <1>1, <1>5, MinorRoots DEF Entered
  <2> QED
    BY <1>1, <2>1, FollowIs
<1>6. CASE Mutate
  <2>1. ASSUME NEW s \in Global \union FinRoot, NEW v, StoreStatic(s, v) PROVE static'[f] # Nil
    BY <1>3, <2>1 DEF StoreStatic
  <2>2. ASSUME NEW r, NEW n, AddSymbol(r, n) PROVE static'[f] # Nil
    BY <1>3, <2>2 DEF AddSymbol
  <2>3. ASSUME NEW r, NEW v, Allocate(r, v) \/ LargeVector(r, v) PROVE static' = static
    BY <2>3 DEF Allocate, LargeVector
  <2>4. ASSUME NEW p, NEW v, Store(p, v) \/ SetValue(p, v) \/ DropValue(p) PROVE static' = static
    BY <2>4 DEF Store, SetValue, DropValue
  <2>5. ASSUME NEW r, NEW n, Fetch(r) \/ FindSymbol(r, n) \/ CallFinalizer(r) \/ ClearPending
        PROVE  static' = static
    BY <2>5 DEF Fetch, FindSymbol, CallFinalizer, ClearPending
  <2>6. ASSUME NEW r, NEW p, NEW weak, MakeLocative(r, p, weak) PROVE static' = static
    BY <2>6 DEF MakeLocative
  <2> QED
    BY <1>2, <1>4, <1>6, <2>1, <2>2, <2>3, <2>4, <2>5, <2>6 DEF Mutate
<1> QED
  BY <1>5, <1>6

(* The collections that move everything.                                   *)
LEMMA CollectIs ==
  ASSUME HInv, ForcedGC \/ EscalatedGC \/ ResizedGC
  PROVE  \E kept, minor, copied, table, nodes :
           Collection(Empty, kept, minor, copied, table, nodes) /\ (copied # {} => EscalatedGC)
<1>0. Becoming(Empty)
  BY NothingBecomes
<1>1. CASE ForcedGC
  BY <1>0, <1>1, MajorGCIs DEF ForcedGC
<1>2. CASE EscalatedGC
  <2>1. PICK copied \in SUBSET MinorLive : MajorGC(copied, Empty)
    BY <1>2 DEF EscalatedGC
  <2> QED
    BY <1>0, <1>2, <2>1, MajorGCIs
<1>3. CASE ResizedGC
  <2>1. PICK weak \in BOOLEAN : Reallocate(Empty, weak)
    BY <1>3 DEF ResizedGC
  <2>2. \A w : Reallocate(Empty, w) => \E kept : Collection(Empty, kept, w, {}, locatives, {})
    BY <1>0, ReallocateIs
  <2> QED
    BY <2>1, <2>2
<1> QED
  BY <1>1, <1>2, <1>3

(* object-become!: the object that goes and the one that takes its place   *)
(* are two.                                                                *)
LEMMA BecomingIs ==
  ASSUME HInv, NEW p, NEW q, Become(p, q)
  PROVE  Becoming([o \in {p[2]} |-> q])
<1>0. Types /\ HeldOK
  BY DEF HInv
<1>1. /\ p \in HeldOf({"block"}) /\ q \in HeldOf({"block"}) /\ q # p
  BY DEF Become
<1>2. /\ {"block"} \in SUBSET Plain
  BY DEF Plain
<1>3. /\ p[2] \in DOMAIN memory /\ memory[p[2]].tag = "block" /\ p = Pointer(p[2])
      /\ q[2] \in DOMAIN memory /\ q = Pointer(q[2]) /\ q # Nil /\ To(q, {"block"})
  BY <1>0, <1>1, <1>2, HeldOfKind
<1>4. q[2] # p[2]
  BY <1>1, <1>3
<1> QED
  BY <1>3, <1>4 DEF Becoming

(* And the one of object-become!.                                          *)
LEMMA ReplaceIs ==
  ASSUME HInv, ReplaceObject
  PROVE  \E became, kept, minor, copied, table, nodes :
           Collection(became, kept, minor, copied, table, nodes)
<1>1. PICK p, q \in Held : Become(p, q)
  BY DEF ReplaceObject
<1>2. Becoming([o \in {p[2]} |-> q])
  BY <1>1, BecomingIs
<1>3. MajorGC({}, [o \in {p[2]} |-> q])
  BY <1>1 DEF Become
<1> QED
  BY <1>2, <1>3, MajorGCIs

(* A finalizer node is released only for an object that the program does   *)
(* not hold afterwards and that is in the vector.                          *)
THEOREM FinalizersAreLate == Spec => FinalizedWhenDead
<1>1. IInv /\ [Next]_vars =>
        [\A f \in FinNode :
           static[f] # Nil /\ static'[f] = Nil =>
             /\ static[f][2] \notin Strong'
             /\ static[f][2] \in Ids(Range(pending'))]_vars
  <2> SUFFICES ASSUME IInv, [Next]_vars, NEW f \in FinNode, static[f] # Nil, static'[f] = Nil
               PROVE  static[f][2] \notin Strong' /\ static[f][2] \in Ids(Range(pending'))
    OBVIOUS
  <2>0. ~UNCHANGED vars
    BY DEF vars
  <2>h. HInv
    BY <2>0, GoodIs DEF Next, Collect, Astray
  <2>1. CASE Mutate \/ MinorGC
    BY <2>1, <2>h, NodesAreKept
  <2>2. CASE ForcedGC \/ EscalatedGC \/ ResizedGC
    BY <2>2, <2>h, CollectIs, ReleasedAreDead
  <2>3. CASE ReplaceObject
    BY <2>3, <2>h, ReplaceIs, ReleasedAreDead
  <2> QED
    BY <2>0, <2>1, <2>2, <2>3 DEF Next, Collect, Astray
<1> QED
  BY <1>1, HeapInvariance, PTL DEF Spec, FinalizedWhenDead

-----------------------------------------------------------------------------
(* Locatives.                                                              *)

(* A new object leaves the others as they are.                             *)
LEMMA NewLeavesOthers ==
  ASSUME NEW o \in Free, NEW c,
         \/ nursery' = With(nursery, o, c) /\ heap' = heap
         \/ heap' = With(heap, o, c) /\ nursery' = nursery
  PROVE  \A x \in DOMAIN memory : memory'[x] = memory[x]
BY DEF With, memory, Free

(* And so do two.                                                          *)
LEMMA TwoNewLeaveOthers ==
  ASSUME NEW o \in Free, NEW c, NEW b \in Free, NEW d,
         nursery' = With(With(nursery, b, d), o, c), heap' = heap
  PROVE  \A x \in DOMAIN memory : memory'[x] = memory[x]
BY DEF With, memory, Free

(* So does a changed one.                                                  *)
LEMMA PatchLeavesOthers ==
  ASSUME NEW o, NEW c, nursery' = Patched(nursery, o, c), heap' = Patched(heap, o, c)
  PROVE  \A x \in DOMAIN memory \ {o} : memory'[x] = memory[x]
BY DEF Patched, memory

(* And so do two.                                                          *)
LEMMA TwoPatchesLeaveOthers ==
  ASSUME NEW o, NEW c, NEW b, NEW d,
         nursery' = Patched(Patched(nursery, o, c), b, d),
         heap' = Patched(Patched(heap, o, c), b, d)
  PROVE  \A x \in DOMAIN memory \ {o, b} : memory'[x] = memory[x]
BY DEF Patched, memory

(* The program changes no locative.                                        *)
LEMMA LocativesAreKept ==
  ASSUME HInv, Mutate, NEW o \in DOMAIN memory, memory[o].tag = "locative"
  PROVE  memory'[o] = memory[o]
<1>0. Types /\ HeldOK /\ Cells /\ TableOK
  BY DEF HInv, Types, TableInv
<1>1. CASE nursery' = nursery /\ heap' = heap
  BY <1>1 DEF memory
<1>2. ASSUME NEW p \in HeldOf({"block"}) PROVE o # p[2]
  BY <1>0, <1>2, HeldOfKind DEF Plain
<1>3. ASSUME NEW p \in HeldOf({"symbol"}), NEW b \in BucketOf(p) PROVE o \notin {p[2], b[2]}
  <2>1. memory[p[2]].tag = "symbol"
    BY <1>0, <1>3, HeldOfKind DEF Plain
  <2>2. memory[b[2]].tag \in Linking
    BY <1>0, <1>3, LinksAreBuckets DEF BucketOf
  <2> QED
    BY <2>1, <2>2 DEF Linking
<1>4. ASSUME NEW r, NEW v, Allocate(r, v) PROVE memory'[o] = memory[o]
  <2>1. \E x \in Free : \E c : nursery' = With(nursery, x, c) /\ heap' = heap
    BY <1>4 DEF Allocate
  <2> QED
    BY <2>1, NewLeavesOthers
<1>5. ASSUME NEW r, NEW p, NEW weak, MakeLocative(r, p, weak) PROVE memory'[o] = memory[o]
  <2>1. \E x \in Free : \E c : nursery' = With(nursery, x, c) /\ heap' = heap
    BY <1>5 DEF MakeLocative
  <2> QED
    BY <2>1, NewLeavesOthers
<1>6. ASSUME NEW r, NEW v, LargeVector(r, v) PROVE memory'[o] = memory[o]
  <2>1. \E x \in Free : \E c : heap' = With(heap, x, c) /\ nursery' = nursery
    BY <1>6 DEF LargeVector
  <2> QED
    BY <2>1, NewLeavesOthers
<1>7. ASSUME NEW r, NEW n, AddSymbol(r, n) PROVE memory'[o] = memory[o]
  <2>1. PICK x \in Free, b \in Free :
          nursery' = With(With(nursery, b, Bucket("weak", Young(x), static["table"])),
                          x, Symbol(n))
    BY <1>7 DEF AddSymbol
  <2>2. heap' = heap
    BY <1>7 DEF AddSymbol
  <2> QED
    BY <2>1, <2>2, TwoNewLeaveOthers
<1>8. ASSUME NEW p, NEW v, Store(p, v) PROVE memory'[o] = memory[o]
  <2>1. /\ p \in HeldOf({"block"})
        /\ nursery' = Patched(nursery, p[2], Block(v)) /\ heap' = Patched(heap, p[2], Block(v))
    BY <1>8 DEF Store
  <2> QED
    BY <1>2, <2>1, PatchLeavesOthers
<1>9. ASSUME NEW p, NEW v, SetValue(p, v) \/ DropValue(p) PROVE memory'[o] = memory[o]
  <2>1. p \in HeldOf({"symbol"})
    BY <1>9 DEF SetValue, DropValue
  <2>2. \E b \in BucketOf(p) : \E c, d :
          /\ nursery' = Patched(Patched(nursery, p[2], c), b[2], d)
          /\ heap' = Patched(Patched(heap, p[2], c), b[2], d)
    BY <1>9 DEF SetValue, DropValue
  <2> QED
    BY <1>3, <2>1, <2>2, TwoPatchesLeaveOthers
<1>10. CASE Mutate
  <2>1. ASSUME NEW r, NEW n, Fetch(r) \/ FindSymbol(r, n) \/ CallFinalizer(r) \/ ClearPending
        PROVE  nursery' = nursery /\ heap' = heap
    BY <2>1 DEF Fetch, FindSymbol, CallFinalizer, ClearPending
  <2>2. ASSUME NEW s, NEW v, StoreStatic(s, v) \/ RegisterFinalizer(v, s)
        PROVE  nursery' = nursery /\ heap' = heap
    BY <2>2 DEF StoreStatic, RegisterFinalizer
  <2> QED
    BY <1>1, <1>4, <1>5, <1>6, <1>7, <1>8, <1>9, <1>10, <2>1, <2>2 DEF Mutate
<1> QED
  BY <1>10

(* The objects that may be seen: not the buckets that have been taken out. *)
Seen == {o \in DOMAIN memory : memory[o].tag \in Plain} \union Buckets

(* They point to each other only.                                          *)
LEMMA SeenIsClosed ==
  ASSUME HInv
  PROVE  /\ Seen \subseteq DOMAIN memory
         /\ \A o \in Seen : \A i \in DOMAIN memory[o].slot :
              /\ memory[o].slot[i] \in Value /\ Ids({memory[o].slot[i]}) \subseteq Seen
              /\ \E tags : To(memory[o].slot[i], tags)
         /\ \A r \in Reg : Ids({reg[r]}) \subseteq Seen
         /\ \A s \in Static : Ids({static[s]}) \subseteq Seen
         /\ \A o \in Seen : memory[o].tag = "weak" => o \in Buckets
<1>0. /\ Types /\ Cells /\ Entered /\ Queued /\ HeldOK /\ ContentsOK /\ TableOK
  BY DEF HInv, Types, TableInv
<1>1. Seen \subseteq DOMAIN memory
  BY ChainIsClosed DEF Seen, Buckets
<1>2. \A v : To(v, Plain) \/ To(v, {"symbol"}) => Ids({v}) \subseteq Seen
  BY IdsOf DEF To, Seen, Plain
<1>3. /\ Ids({static["table"]}) \subseteq Buckets
      /\ \A b \in Buckets : /\ DOMAIN memory[b].slot = {1, 2} /\ memory[b].tag \in Linking
                            /\ To(memory[b].slot[1], {"symbol"}) /\ To(memory[b].slot[2], Linking)
                            /\ Ids({memory[b].slot[2]}) \subseteq Buckets
  BY <1>0, NothingBecomes, BucketsAfter
<1>4. ASSUME NEW o \in Seen, NEW i \in DOMAIN memory[o].slot
      PROVE  /\ memory[o].slot[i] \in Value /\ Ids({memory[o].slot[i]}) \subseteq Seen
             /\ \E tags : To(memory[o].slot[i], tags)
  <2>1. memory[o].slot[i] \in Value
    BY <1>0, <1>1, Objects, TracedIs
  <2>2. CASE memory[o].tag \in Plain
    <3>1. To(memory[o].slot[i], Plain)
      BY <1>0, <1>1, <2>2 DEF ContentsOK
    <3> QED
      BY <1>2, <2>1, <3>1
  <2>3. CASE o \in Buckets
    <3>1. i \in {1, 2}
      BY <1>3, <2>3
    <3>2. CASE i = 1
      BY <1>2, <1>3, <2>1, <2>3, <3>2
    <3>3. CASE i = 2
      BY <1>3, <2>1, <2>3, <3>3 DEF Seen
    <3> QED
      BY <3>1, <3>2, <3>3
  <2> QED
    BY <2>2, <2>3 DEF Seen
<1>5. \A r \in Reg : Ids({reg[r]}) \subseteq Seen
  BY <1>0, <1>2 DEF HeldOK
<1>6. \A s \in Static : Ids({static[s]}) \subseteq Seen
  <2> SUFFICES ASSUME NEW s \in Static PROVE Ids({static[s]}) \subseteq Seen
    OBVIOUS
  <2>1. CASE s = "table"
    BY <1>3, <2>1 DEF Seen
  <2>2. CASE s # "table"
    BY <1>0, <1>2, <2>2 DEF HeldOK
  <2> QED
    BY <2>1, <2>2
<1>7. \A o \in Seen : memory[o].tag = "weak" => o \in Buckets
  BY DEF Seen, Plain
<1> QED
  BY <1>1, <1>4, <1>5, <1>6, <1>7

(* What the program holds may be seen, and survives a minor collection.    *)
LEMMA StrongIsLive ==
  ASSUME HInv
  PROVE  Strong \subseteq Seen \intersect (DOMAIN heap \union MinorLive)
<1> DEFINE S == Seen \intersect (DOMAIN heap \union MinorLive)
           all == Range(reg) \union {static[s] : s \in Global \union {"table"}}
<1>0. Types /\ Cells /\ Entered /\ PairsIn /\ MutationsTracked /\ HeldOK /\ TableOK
  BY DEF HInv, Types, TableInv
<1>1. /\ Seen \subseteq DOMAIN memory
      /\ \A o \in Seen : \A i \in DOMAIN memory[o].slot :
              /\ memory[o].slot[i] \in Value /\ Ids({memory[o].slot[i]}) \subseteq Seen
              /\ \E tags : To(memory[o].slot[i], tags)
      /\ \A r \in Reg : Ids({reg[r]}) \subseteq Seen
      /\ \A s \in Static : Ids({static[s]}) \subseteq Seen
      /\ \A o \in Seen : memory[o].tag = "weak" => o \in Buckets
  BY SeenIsClosed
<1>2. ASSUME NEW v, NEW tags, To(v, tags), IsYoung(v) /\ v[2] \in DOMAIN nursery => v[2] \in MinorLive
      PROVE  Ids({v}) \subseteq DOMAIN heap \union MinorLive
  <2>1. v = Nil \/ (v[2] \in DOMAIN nursery /\ IsYoung(v)) \/ v[2] \in DOMAIN heap
    BY <1>0, <1>2, Pointers, MemoryIs
  <2> QED
    BY <1>2, <2>1, IdsOf
<1>3. \A r \in Reg : Ids({reg[r]}) \subseteq S
  <2> SUFFICES ASSUME NEW r \in Reg PROVE Ids({reg[r]}) \subseteq S
    OBVIOUS
  <2>1. To(reg[r], Plain)
    BY <1>0 DEF HeldOK
  <2>2. IsYoung(reg[r]) /\ reg[r][2] \in DOMAIN nursery => reg[r][2] \in MinorLive
    BY <1>0, LiveRoots
  <2> QED
    BY <1>1, <1>2, <2>1, <2>2
<1>4. \A s \in Static : Ids({static[s]}) \subseteq S
  <2> SUFFICES ASSUME NEW s \in Static PROVE Ids({static[s]}) \subseteq S
    OBVIOUS
  <2>1. \E tags : To(static[s], tags)
    BY <1>0 DEF HeldOK, TableOK
  <2>2. IsYoung(static[s]) /\ static[s][2] \in DOMAIN nursery => static[s][2] \in MinorLive
    BY <1>0, LiveRoots
  <2> QED
    BY <1>1, <1>2, <2>1, <2>2
<1>5. ASSUME NEW o \in S PROVE Ids(Traced(memory[o], FALSE)) \intersect DOMAIN memory \subseteq S
  <2>1. TracedSlots(memory[o], FALSE) \subseteq TracedSlots(memory[o], TRUE)
        /\ TracedSlots(memory[o], TRUE) \subseteq DOMAIN memory[o].slot
    <3>1. IsCell(memory[o])
      BY <1>0, <1>1, Objects
    <3>2. memory[o].tag = "locative" => DOMAIN memory[o].slot = {1, 2}
      BY <3>1 DEF IsCell, SlotsOf
    <3>3. memory[o].tag = "weak" => DOMAIN memory[o].slot = {1, 2}
      BY <3>1 DEF IsCell, SlotsOf
    <3> QED
      BY <3>2, <3>3 DEF TracedSlots
  <2>2. ASSUME NEW i \in TracedSlots(memory[o], FALSE) PROVE Ids({memory[o].slot[i]}) \subseteq S
    <3>1. PICK tags : To(memory[o].slot[i], tags)
      BY <1>1, <2>1
    <3>2. IsYoung(memory[o].slot[i]) /\ memory[o].slot[i][2] \in DOMAIN nursery
            => memory[o].slot[i][2] \in MinorLive
      <4>1. /\ o \in DOMAIN heap \union MinorLive /\ i \in TracedSlots(memory[o], TRUE)
            /\ memory[o].tag = "weak" => o \in Buckets
        BY <1>1, <2>1
      <4> QED
        BY <1>0, <4>1, LiveTargets
    <3> QED
      BY <1>1, <1>2, <2>1, <3>1, <3>2
  <2> HIDE DEF S
  <2>3. \A v \in Traced(memory[o], FALSE) : Ids({v}) \intersect DOMAIN memory \subseteq S
    BY <2>2 DEF Traced
  <2> QED
    BY <2>3, IdsOfEach
<1>6. Ids(all) \intersect DOMAIN memory \subseteq S
  <2>1. Range(reg) = {reg[r] : r \in Reg}
    BY <1>0 DEF Entered, Range
  <2>2. \A v \in all : Ids({v}) \intersect DOMAIN memory \subseteq S
    BY <1>3, <1>4, <2>1 DEF Static
  <2> HIDE DEF S, all
  <2> QED
    BY <2>2, IdsOfEach
<1>7. Strong = Reachable(memory, Ids(all), FALSE)
  BY DEF Strong
<1> HIDE DEF S, all
<1>8. Strong \subseteq S
  BY <1>5, <1>6, <1>7, ReachIsLeast
<1> QED
  BY <1>8 DEF S

(* A minor collection loses only what the program does not hold.           *)
LEMMA MinorLoses ==
  ASSUME HInv, MinorGC, NEW o \in DOMAIN memory', memory[o].tag = "locative"
  PROVE  LET p == memory[o].slot[1]  q == memory'[o].slot[1] IN
         Ids({p}) = Ids({q}) \/ (q = Nil /\ p[2] \notin Strong)
<1> DEFINE p == memory[o].slot[1]
           q == memory'[o].slot[1]
<1>0. Cells /\ LocativesOK /\ Types /\ ContentsOK
  BY DEF HInv, Types
<1>1. o \in DOMAIN memory /\ IsCell(memory[o])
  BY <1>0, MinorObjects, Objects
<1>2. 1 \in DOMAIN memory[o].slot /\ p \in Value
  BY <1>1 DEF IsCell, SlotsOf
<1>3. q = Follow(p) \/ (q = Nil /\ Unfound(p))
  BY <1>2, MinorObjects
<1>4. CASE q = Follow(p)
  BY <1>0, <1>2, <1>4, FollowIds
<1>5. CASE q = Nil /\ Unfound(p)
  <2>1. CASE p = Nil
    BY <1>5, <2>1
  <2>2. CASE p # Nil /\ IsYoung(p) /\ p[2] \notin MinorLive
    <3>1. To(p, Plain)
      BY <1>0, <1>1, <1>2 DEF ContentsOK, Plain
    <3>2. p[2] \in DOMAIN nursery
      BY <1>0, <2>2, <3>1, Pointers
    <3>3. p[2] \notin DOMAIN heap
      BY <1>0, <3>2 DEF Cells
    <3> QED
      BY <1>5, <2>2, <3>3, StrongIsLive
  <2> QED
    BY <1>5, <2>1, <2>2 DEF Unfound
<1> QED
  BY <1>3, <1>4, <1>5

(* What the program holds is in a set that holds it.                       *)
LEMMA StrongIsHeld ==
  ASSUME HInv, NEW L, Holding(Empty, L)
  PROVE  Strong \subseteq L
<1> DEFINE all == Range(reg) \union {static[s] : s \in Global \union {"table"}}
<1>0. Cells /\ Entered
  BY DEF HInv, Types
<1>1. \A v : Became(Empty, v) = v
  BY DEF Became, Empty
<1>2. \A v \in all : Ids({v}) \intersect DOMAIN memory \subseteq L
  BY <1>0, <1>1 DEF Holding, Entered, Range
<1>3. ASSUME NEW o \in L, o \in DOMAIN memory
      PROVE  Ids(Traced(memory[o], FALSE)) \intersect DOMAIN memory \subseteq L
  <2>1. \A v \in Traced(memory[o], FALSE) : Ids({v}) \intersect DOMAIN memory \subseteq L
    BY <1>1, <1>3 DEF Holding, Traced
  <2> QED
    BY <2>1, IdsOfEach
<1> HIDE DEF all
<1>4. Ids(all) \intersect DOMAIN memory \subseteq L
  BY <1>2, IdsOfEach
<1>5. Strong = Reachable(memory, Ids(all), FALSE)
  BY DEF Strong, all
<1> QED
  BY <1>3, <1>4, <1>5, ReachIsLeast

(* What is kept holds what it points to.                                   *)
LEMMA KeptHolds ==
  ASSUME HInv, NEW kept, NEW minor, Surviving(Empty, kept, minor)
  PROVE  Holding(Empty, kept)
<1>1. Cells /\ Entered /\ TableOK
  BY DEF HInv, Types, TableInv
<1>2. \A v : Became(Empty, v) = v
  BY DEF Became, Empty
<1>3. /\ kept \subseteq DOMAIN memory
      /\ Roots(Empty) \intersect DOMAIN memory \subseteq kept
      /\ \A x \in kept : Ids(Traced(MemoryAfter(Empty)[x], minor)) \intersect DOMAIN memory \subseteq kept
  BY DEF Surviving
<1>4. \A o \in DOMAIN memory :
        /\ MemoryAfter(Empty)[o].tag = memory[o].tag
        /\ DOMAIN MemoryAfter(Empty)[o].slot = DOMAIN memory[o].slot
        /\ \A i \in DOMAIN memory[o].slot : MemoryAfter(Empty)[o].slot[i] = memory[o].slot[i]
  BY <1>1, <1>2, NothingBecomes, MemoryAfterIs
<1>5. ASSUME NEW v \in Range(reg) \union {static[s] : s \in Global \union {"table"}}
      PROVE  Ids({v}) \intersect DOMAIN memory \subseteq kept
  <2>1. Ids({v}) \subseteq Roots(Empty)
    <3>1. Became(Empty, v) = v
      BY <1>2
    <3> QED
      BY <3>1, IdsOf DEF Roots
  <2> QED
    BY <1>3, <2>1
<1>6. \A r \in Reg : reg[r] \in Range(reg)
  BY <1>1 DEF Entered, Range
<1>7. ASSUME NEW o \in kept, o \in DOMAIN memory, NEW i \in TracedSlots(memory[o], FALSE)
      PROVE  Ids({memory[o].slot[i]}) \intersect DOMAIN memory \subseteq kept
  <2>1. i \in DOMAIN memory[o].slot
    BY <1>1, <1>7, Objects, TracedAreSlots
  <2>2. i \in TracedSlots(memory[o], minor)
    BY <2>1 DEF TracedSlots
  <2>3. i \in TracedSlots(MemoryAfter(Empty)[o], minor)
    BY <1>4, <1>7, <2>2 DEF TracedSlots
  <2>4. memory[o].slot[i] \in Traced(MemoryAfter(Empty)[o], minor)
    BY <1>4, <1>7, <2>1, <2>3 DEF Traced
  <2>5. Ids({memory[o].slot[i]}) \subseteq Ids(Traced(MemoryAfter(Empty)[o], minor))
    BY <2>4, IdsAreMore
  <2> QED
    BY <1>3, <2>5
<1> QED
  BY <1>2, <1>5, <1>6, <1>7 DEF Holding

(* What the slot of a locative says afterwards finds its object.           *)
Finds(o) == Valid(memory[o].slot[1])

(* A locative of a good memory finds its object.                           *)
LEMMA GoodFinds ==
  ASSUME HInv', NEW o \in DOMAIN memory', memory'[o].tag = "locative"
  PROVE  Finds(o)'
<1>1. Cells' /\ ContentsOK'
  BY DEF HInv, Types
<1>2. ContentsOK' /\ Cells' => \A x \in DOMAIN memory' :
        memory'[x].tag = "locative" => To(memory[x].slot[1], Plain)'
  BY DEF ContentsOK, Cells, IsCell, SlotsOf, memory, Plain
<1>3. To(memory[o].slot[1], Plain)'
  BY <1>1, <1>2
<1>4. DOMAIN memory' = DOMAIN nursery' \union DOMAIN heap'
  BY DEF memory
<1>5. \A v : To(v, Plain)' => Valid(v)'
  <2> SUFFICES ASSUME NEW v, To(v, Plain)', v # Nil
               PROVE  Valid(v)'
    BY DEF Valid
  <2>1. v[2] \in DOMAIN memory' /\ v = Pointer(v[2])'
    BY DEF To
  <2>2. CASE v[2] \in DOMAIN nursery'
    <3>1. v = <<"young", v[2]>>
      BY <2>1, <2>2 DEF Pointer, Young
    <3> QED
      BY <2>2, <3>1 DEF Valid
  <2>3. CASE v[2] \notin DOMAIN nursery'
    <3>1. v = <<"old", v[2]>>
      BY <2>1, <2>3 DEF Pointer, Old
    <3> QED
      BY <1>4, <2>1, <2>3, <3>1 DEF Valid
  <2> QED
    BY <2>2, <2>3
<1> QED
  BY <1>3, <1>5 DEF Finds

(* So does a collection that moves everything, unless it comes after an    *)
(* abandoned one.                                                          *)
LEMMA CollectionLoses ==
  ASSUME HInv, NEW kept, NEW minor, NEW copied, NEW table, NEW nodes,
         Collection(Empty, kept, minor, copied, table, nodes),
         NEW o \in DOMAIN memory', memory[o].tag = "locative"
  PROVE  LET p == memory[o].slot[1]  q == memory'[o].slot[1] IN
         \/ Ids({p}) = Ids({q}) /\ Finds(o)'
         \/ q = Nil /\ p[2] \notin Strong
         \/ /\ copied # {}
            /\ \/ q = Nil /\ o \notin Strong
               \/ p[2] \notin Strong /\ Ids({p}) = Ids({q})
<1> DEFINE p == memory[o].slot[1]
           q == memory'[o].slot[1]
           lost == Ids(locatives \ table)
<1>1. /\ Evacuation(Empty, kept, minor, copied, table, nodes)
      /\ \A l \in locatives \ table :
           l[2] \in kept => \/ MemoryAfter(Empty)[l[2]].slot[1][2] \notin Live(Empty)
                            \/ copied # {} /\ l[2] \notin Live(Empty)
  BY DEF Collection
<1>2. /\ Cells /\ TableOK /\ Kept(kept) /\ Moved(kept) /\ Copies(Empty, kept, copied, lost)
      /\ Becoming(Empty) /\ Surviving(Empty, kept, minor)
  BY <1>1, EvacuationIs
<1>l. LocativesOK
  BY DEF HInv
<1>3. o \in kept /\ o \in DOMAIN memory /\ IsCell(memory[o])
  BY <1>2, Objects DEF Kept, Moved
<1>4. 1 \in DOMAIN memory[o].slot /\ p \in Value
  BY <1>3 DEF IsCell, SlotsOf
<1>5. q = SlotAfter(Empty, kept, copied, lost, o, 1)
  BY <1>2, <1>3, <1>4 DEF Copies
<1>6. \A v : Became(Empty, v) = v
  BY DEF Became, Empty
<1>7. Strong \subseteq Live(Empty)
  BY <1>2, LiveHolds, StrongIsHeld
<1>8. CASE o \in lost
  <2>1. q = Nil
    BY <1>5, <1>8 DEF SlotAfter
  <2>2. PICK l \in locatives \ table : l[2] = o
    BY <1>8, IdsOf
  <2>3. MemoryAfter(Empty)[o].slot[1] = p
    BY <1>2, <1>3, <1>4, <1>6, MemoryAfterIs
  <2>4. p[2] \notin Live(Empty) \/ (copied # {} /\ o \notin Live(Empty))
    BY <1>1, <1>3, <2>2, <2>3
  <2> QED
    BY <1>7, <2>1, <2>4
<1>k. Strong \subseteq kept
  BY <1>2, KeptHolds, StrongIsHeld
<1>9. CASE o \notin lost
  <2>1. o \notin Buckets
    BY <1>2 DEF TableOK, Linking
  <2>2. q = Settled(kept, copied, p)
    BY <1>5, <1>6, <1>9, <2>1 DEF SlotAfter
  <2> HIDE DEF p, q
  <2>3. q = Nil <=> p = Nil
    BY <1>4, <2>2, SettledIs
  <2>4. p # Nil => q[2] = p[2]
    BY <1>4, <2>2, SettledIs
  <2>5. Ids({p}) = Ids({q})
    BY <2>3, <2>4, IdsOf
  <2>6. CASE p = Nil
    <3>1. q = Nil
      BY <2>3, <2>6
    <3> QED
      BY <2>5, <3>1 DEF p, q, Finds, Valid
  <2>7. CASE p # Nil /\ p[2] \in kept
    <3>1. q = Old(p[2])
      BY <2>2, <2>7 DEF Settled
    <3>2. Valid(memory[o].slot[1])'
      BY <1>2, <2>7, <3>1, HeapAssumption DEF Valid, Old, Moved, q
    <3> QED
      BY <2>5, <3>2 DEF p, q, Finds
  <2>8. CASE p # Nil /\ p[2] \notin kept
    <3>1. Pointer(o) \in table
      <4>1. table \subseteq locatives
        BY <1>1 DEF Evacuation
      <4> QED
        BY <1>2, <1>l, <1>3, <1>9, <2>8, <4>1, TableOrLost DEF lost, p
    <3>2. Forwarded(MemoryAfter(Empty)[Pointer(o)[2]].slot[1], kept, copied)
      BY <1>1, <3>1 DEF Evacuation
    <3>3. Pointer(o)[2] = o
      BY <1>2, <1>3, Objects
    <3>4. MemoryAfter(Empty)[o].slot[1] = p
      BY <1>2, <1>3, <1>4, <1>6, MemoryAfterIs DEF p
    <3>5. p[2] \in copied
      BY <2>8, <3>2, <3>3, <3>4 DEF Forwarded
    <3>6. p[2] \notin Strong
      BY <1>k, <2>8
    <3> QED
      BY <2>5, <3>5, <3>6 DEF p, q
  <2> QED
    BY <2>6, <2>7, <2>8
<1> QED
  BY <1>8, <1>9

(* A locative follows its object, and is lost only when the program does   *)
(* not hold the object.  After an abandoned minor collection it may also   *)
(* be lost when the program does not hold the locative, and go astray when *)
(* the program does not hold the object.                                   *)
THEOREM LocativesAreFollowed == Spec => LocativesFollow
<1>1. IInv /\ [Next]_vars =>
        [\/ \A o \in {l \in DOMAIN memory : memory[l].tag = "locative"} :
              o \in DOMAIN memory' /\ memory'[o].tag = "locative" =>
                LET p == memory[o].slot[1]  q == memory'[o].slot[1] IN
                \/ Ids({p}) = Ids({q})
                   /\ (Valid(p) => Valid(memory[o].slot[1])')
                \/ q = Nil /\ p[2] \notin Strong
                \/ /\ EscalatedGC
                   /\ \/ q = Nil /\ o \notin Strong
                      \/ p[2] \notin Strong /\ Ids({p}) = Ids({q})
         \/ ReplaceObject]_vars
  <2> SUFFICES ASSUME IInv, Next, ~UNCHANGED vars, ~ReplaceObject,
                      NEW o \in {l \in DOMAIN memory : memory[l].tag = "locative"},
                      o \in DOMAIN memory', memory'[o].tag = "locative"
               PROVE  LET p == memory[o].slot[1]  q == memory'[o].slot[1] IN
                      \/ Ids({p}) = Ids({q}) /\ Finds(o)'
                      \/ q = Nil /\ p[2] \notin Strong
                      \/ /\ EscalatedGC
                         /\ \/ q = Nil /\ o \notin Strong
                            \/ p[2] \notin Strong /\ Ids({p}) = Ids({q})
    BY DEF Finds
  <2>h. HInv
    BY GoodIs DEF Next, Collect, Astray
  <2>0. o \in DOMAIN memory /\ memory[o].tag = "locative"
    OBVIOUS
  <2>1. CASE Mutate
    BY <2>0, <2>1, <2>h, LocativesAreKept, MutateStep, GoodFinds
  <2>2. CASE MinorGC
    BY <2>0, <2>2, <2>h, MinorLoses, MinorGCStep, GoodFinds
  <2>3. CASE ForcedGC \/ EscalatedGC \/ ResizedGC
    <3>1. PICK kept, minor, copied, table, nodes :
            Collection(Empty, kept, minor, copied, table, nodes) /\ (copied # {} => EscalatedGC)
      BY <2>3, <2>h, CollectIs
    <3> QED
      BY <2>0, <2>h, <3>1, CollectionLoses
  <2> QED
    BY <2>1, <2>2, <2>3 DEF Next, Collect, Astray
<1> QED
  BY <1>1, HeapInvariance, PTL DEF Spec, LocativesFollow

-----------------------------------------------------------------------------
(* Collections as the program sees them.                                   *)

(* A chain of buckets is reached from its head.                            *)
LEMMA ChainIsReached ==
  ASSUME NEW mem, NEW v, NEW from, Ids({v}) \subseteq from,
         \A b \in Chain(mem, v) : DOMAIN mem[b].slot = {1, 2} /\ mem[b].tag \in Linking
  PROVE  Chain(mem, v) \subseteq Reachable(mem, from, FALSE)
<1> DEFINE C == Chain(mem, v)
           R == Reachable(mem, from, FALSE)
<1>1. /\ C \subseteq DOMAIN mem /\ Ids({v}) \intersect DOMAIN mem \subseteq C
      /\ \A b \in C : Rest(mem, b) \intersect DOMAIN mem \subseteq C
  BY ChainIsClosed
<1>2. /\ from \intersect DOMAIN mem \subseteq R
      /\ \A x \in R : Ids(Traced(mem[x], FALSE)) \intersect DOMAIN mem \subseteq R
  BY ReachIsClosed
<1>3. ASSUME NEW b \in C, b \in R PROVE Rest(mem, b) \intersect DOMAIN mem \subseteq R
  <2>1. Rest(mem, b) = Ids({mem[b].slot[2]})
    BY RestOfTwo
  <2>2. 2 \in TracedSlots(mem[b], FALSE)
    BY DEF TracedSlots
  <2>3. mem[b].slot[2] \in Traced(mem[b], FALSE)
    BY <2>2 DEF Traced
  <2>4. Ids({mem[b].slot[2]}) \subseteq Ids(Traced(mem[b], FALSE))
    BY <2>3, IdsAreMore
  <2> QED
    BY <1>2, <1>3, <2>1, <2>4
<1> HIDE DEF C, R
<1>4. Ids({v}) \intersect DOMAIN mem \subseteq C \intersect R
  BY <1>1, <1>2
<1>5. \A b \in (C \intersect R) \intersect DOMAIN mem : Rest(mem, b) \intersect DOMAIN mem \subseteq C \intersect R
  BY <1>1, <1>3
<1>6. Chain(mem, v) \subseteq C \intersect R
  BY <1>4, <1>5, ChainIsLeast
<1> QED
  BY <1>6 DEF C, R

(* What one sees of an object.                                             *)
Look(c) ==
  [tag |-> c.tag, name |-> c.name,
   slot |-> [i \in TracedSlots(c, FALSE) |-> Ids({c.slot[i]})]]

(* An object looks the same: it has its kind and its contents.             *)
Alike(o) ==
  /\ memory'[o].tag = memory[o].tag /\ memory'[o].name = memory[o].name
  /\ DOMAIN memory'[o].slot = DOMAIN memory[o].slot
  /\ \A i \in TracedSlots(memory[o], FALSE) :
       Ids({memory'[o].slot[i]}) = Ids({memory[o].slot[i]})

(* If the same objects are held and look alike, nothing is to be seen.     *)
LEMMA SameView ==
  ASSUME Strong' \subseteq Strong, Keepers \subseteq Strong',
         \A o \in Strong' : memory'[o].tag = memory[o].tag,
         \A o \in Keepers : Alike(o)
  PROVE  Keepers' = Keepers /\ View(memory, Keepers)' = View(memory, Keepers)
<1>1. Keepers' = Keepers
  BY DEF Keepers
<1>2. ASSUME NEW o \in Keepers PROVE Look(memory'[o]) = Look(memory[o])
  <2>1. TracedSlots(memory'[o], FALSE) = TracedSlots(memory[o], FALSE)
    BY <1>2 DEF Alike, TracedSlots
  <2>2. [i \in TracedSlots(memory'[o], FALSE) |-> Ids({memory'[o].slot[i]})]
          = [i \in TracedSlots(memory[o], FALSE) |-> Ids({memory[o].slot[i]})]
    BY <2>1 DEF Alike
  <2> QED
    BY <2>2 DEF Alike, Look
<1>3. View(memory, Keepers)' = [o \in Keepers' |-> Look(memory'[o])]
  BY DEF View, Look
<1>4. View(memory, Keepers) = [o \in Keepers |-> Look(memory[o])]
  BY DEF View, Look
<1> QED
  BY <1>1, <1>2, <1>3, <1>4

(* What is strongly held holds what it points to.                          *)
LEMMA StrongHolds ==
  ASSUME HInv
  PROVE  Holding(Empty, Strong)
<1> DEFINE all == Range(reg) \union {static[s] : s \in Global \union {"table"}}
<1>0. Cells /\ Entered
  BY DEF HInv, Types
<1>1. \A v : Became(Empty, v) = v
  BY DEF Became, Empty
<1>2. Strong = Reachable(memory, Ids(all), FALSE)
  BY DEF Strong
<1>3. \A r \in Reg : reg[r] \in all
  BY <1>0 DEF Entered, Range
<1>4. \A s \in Global \union {"table"} : static[s] \in all
  OBVIOUS
<1> HIDE DEF all
<1>5. /\ Strong \subseteq DOMAIN memory /\ Ids(all) \intersect DOMAIN memory \subseteq Strong
      /\ \A x \in Strong : Ids(Traced(memory[x], FALSE)) \intersect DOMAIN memory \subseteq Strong
  BY <1>2, ReachIsClosed
<1>6. \A v \in all : Ids({v}) \intersect DOMAIN memory \subseteq Strong
  BY <1>5, IdsAreMore
<1>7. ASSUME NEW o \in Strong, NEW i \in TracedSlots(memory[o], FALSE)
      PROVE  Ids({memory[o].slot[i]}) \intersect DOMAIN memory \subseteq Strong
  <2>1. memory[o].slot[i] \in Traced(memory[o], FALSE)
    BY DEF Traced
  <2> QED
    BY <1>5, <2>1, IdsAreMore
<1> QED
  BY <1>1, <1>3, <1>4, <1>6, <1>7 DEF Holding

(* A minor collection is invisible.                                        *)
LEMMA MinorIsInvisible ==
  ASSUME HInv, MinorGC
  PROVE  /\ \A r \in Reg : Ids({reg[r]}) = Ids({reg'[r]})
         /\ Strong' = Strong /\ \A o \in Strong : Alike(o)
<1> DEFINE all == Range(reg) \union {static[s] : s \in Global \union {"table"}}
           after == Range(reg') \union {static'[s] : s \in Global \union {"table"}}
<1>0. Types /\ Cells /\ Entered /\ LocativesOK
  BY DEF HInv, Types
<1>1. /\ DOMAIN memory' = DOMAIN heap \union MinorLive
      /\ \A o \in DOMAIN memory' :
           /\ o \in DOMAIN memory /\ memory'[o] = heap'[o] /\ IsCell(heap'[o])
           /\ memory'[o].tag = memory[o].tag /\ memory'[o].name = memory[o].name
  BY MinorObjects
<1>2. Strong \subseteq Seen /\ Strong \subseteq DOMAIN memory'
  BY <1>1, StrongIsLive
<1>3. /\ Seen \subseteq DOMAIN memory
      /\ \A o \in Seen : \A i \in DOMAIN memory[o].slot :
              /\ memory[o].slot[i] \in Value /\ Ids({memory[o].slot[i]}) \subseteq Seen
              /\ \E tags : To(memory[o].slot[i], tags)
      /\ \A r \in Reg : Ids({reg[r]}) \subseteq Seen
      /\ \A s \in Static : Ids({static[s]}) \subseteq Seen
      /\ \A o \in Seen : memory[o].tag = "weak" => o \in Buckets
  BY SeenIsClosed
<1>4. \A r \in Reg : Ids({reg'[r]}) = Ids({reg[r]})
  BY <1>0, MinorRoots, FollowIds DEF Entered
<1>5. \A s \in Static : Ids({static'[s]}) = Ids({static[s]})
  BY <1>0, MinorRoots, FollowIds DEF Entered
<1>6. ASSUME NEW o \in Strong PROVE Alike(o)
  <2>1. /\ o \in DOMAIN memory' /\ IsCell(memory[o]) /\ IsCell(memory'[o])
        /\ memory'[o].tag = memory[o].tag /\ memory'[o].name = memory[o].name
    BY <1>0, <1>1, <1>2, Objects
  <2>2. DOMAIN memory'[o].slot = DOMAIN memory[o].slot
    BY <2>1 DEF IsCell
  <2>3. ASSUME NEW i \in TracedSlots(memory[o], FALSE)
        PROVE  Ids({memory'[o].slot[i]}) = Ids({memory[o].slot[i]})
    <3>1. i \in DOMAIN memory[o].slot /\ ~(memory[o].tag = "locative" /\ i = 1)
      <4>1. i \in DOMAIN memory[o].slot
        BY <2>1, TracedAreSlots
      <4>2. memory[o].tag = "locative" => i = 2
        BY DEF TracedSlots
      <4> QED
        BY <4>1, <4>2
    <3>2. PICK tags : To(memory[o].slot[i], tags)
      BY <1>2, <1>3, <3>1
    <3>3. memory[o].tag = "weak" => o \in Buckets
      BY <1>2, <1>3
    <3>4. memory'[o].slot[i] = Follow(memory[o].slot[i]) /\ memory[o].slot[i] \in Value
      BY <2>1, <3>1, <3>2, <3>3, MinorSlots
    <3> QED
      BY <1>0, <3>4, FollowIds
  <2> QED
    BY <2>1, <2>2, <2>3 DEF Alike
<1>7. Strong' = Strong
  <2> DEFINE D == DOMAIN memory
             DD == DOMAIN memory'
             leads == [x \in D |-> Ids(Traced(memory[x], FALSE))]
             follow == [x \in DD |-> Ids(Traced(memory'[x], FALSE))]
  <2>1. Strong = Closure(D, Ids(all), leads)
    BY DEF Strong, Reachable
  <2>2. Strong' = Closure(DD, Ids(after), follow)
    BY DEF Strong, Reachable
  <2>3. Range(reg) = {reg[r] : r \in Reg} /\ Range(reg') = {reg'[r] : r \in Reg}
    BY <1>0 DEF Entered, Range, MinorGC
  <2>4. Ids(after) = Ids(all)
    <3>1. \A v \in after : \E w \in all : Ids({v}) \subseteq Ids({w})
      BY <1>4, <1>5, <2>3 DEF Static
    <3>2. \A v \in all : \E w \in after : Ids({v}) \subseteq Ids({w})
      BY <1>4, <1>5, <2>3 DEF Static
    <3> HIDE DEF all, after
    <3>3. Ids(after) \subseteq Ids(all)
      BY <3>1, FewerIds
    <3>4. Ids(all) \subseteq Ids(after)
      BY <3>2, FewerIds
    <3> QED
      BY <3>3, <3>4
  <2>5. Ids(all) \subseteq D
    <3>1. \A v \in all : Ids({v}) \intersect Ids(all) \subseteq Seen
      BY <1>3, <2>3 DEF Static
    <3>2. Ids(all) \intersect Ids(all) \subseteq Seen
      <4> HIDE DEF all
      <4> QED
        BY <3>1, IdsOfEach
    <3> QED
      BY <1>3, <3>2
  <2>6. ASSUME NEW x \in Strong
        PROVE  x \in D /\ x \in DD /\ leads[x] = follow[x] /\ leads[x] \subseteq D
    <3>1. x \in D /\ x \in DD
      BY <1>2, <1>3
    <3>2. Alike(x)
      BY <1>6
    <3>3. TracedSlots(memory'[x], FALSE) = TracedSlots(memory[x], FALSE)
      BY <3>2 DEF Alike, TracedSlots
    <3>4. /\ \A v \in Traced(memory'[x], FALSE) :
               \E w \in Traced(memory[x], FALSE) : Ids({v}) \subseteq Ids({w})
          /\ \A v \in Traced(memory[x], FALSE) :
               \E w \in Traced(memory'[x], FALSE) : Ids({v}) \subseteq Ids({w})
      BY <3>2, <3>3 DEF Alike, Traced
    <3>5. Ids(Traced(memory'[x], FALSE)) = Ids(Traced(memory[x], FALSE))
      <4>1. Ids(Traced(memory'[x], FALSE)) \subseteq Ids(Traced(memory[x], FALSE))
        BY <3>4, FewerIds
      <4>2. Ids(Traced(memory[x], FALSE)) \subseteq Ids(Traced(memory'[x], FALSE))
        BY <3>4, FewerIds
      <4> QED
        BY <4>1, <4>2
    <3>6. IsCell(memory[x]) /\ x \in Seen
      BY <1>0, <1>2, <3>1, Objects
    <3>7. \A v \in Traced(memory[x], FALSE) : Ids({v}) \subseteq Seen
      BY <1>3, <3>6, TracedAreSlots DEF Traced
    <3>8. Ids(Traced(memory[x], FALSE)) \subseteq Seen
      BY <3>7 DEF Ids
    <3> QED
      BY <1>3, <3>1, <3>5, <3>8
  <2>7. Strong = Closure(D, Ids(all), leads) /\ Strong' = Closure(DD, Ids(after), follow)
    BY <2>1, <2>2
  <2>8. Ids(all) \intersect D \subseteq Strong
    <3> HIDE DEF D, all, leads
    <3> QED
      BY <2>1, ClosureIsClosed
  <2>9. ASSUME NEW x \in Strong PROVE leads[x] \intersect D \subseteq Strong
    <3> HIDE DEF D, all, leads
    <3> QED
      BY <2>1, <2>9, ClosureIsClosed
  <2>10. Ids(all) \intersect D = Ids(after) \intersect DD
    BY <1>2, <2>4, <2>5, <2>8
  <2>11. \A x \in Strong : x \in DD /\ leads[x] \intersect D = follow[x] \intersect DD
    BY <1>2, <2>6, <2>9
  <2> HIDE DEF D, DD, all, after, leads, follow
  <2> QED
    BY <2>1, <2>2, <2>10, <2>11, ClosureIsLocal
<1> QED
  BY <1>4, <1>6, <1>7

(* The slots of what may be seen lead to survivors, and the move leaves    *)
(* them as they are; only a bucket may lose what it leads to.              *)
LEMMA SlotsSurvive ==
  ASSUME HInv, NEW kept, NEW minor, NEW copied, NEW table, NEW nodes,
         Evacuation(Empty, kept, minor, copied, table, nodes),
         NEW o \in kept \intersect Seen, NEW i \in TracedSlots(memory[o], FALSE),
         o \in Buckets => i = 1
  PROVE  /\ Ids({memory'[o].slot[i]}) = Ids({memory[o].slot[i]})
         /\ Ids({memory[o].slot[i]}) \subseteq kept
         /\ i \in TracedSlots(memory'[o], FALSE)
<1> DEFINE lost == Ids(locatives \ table)
           w == memory[o].slot[i]
<1>1. /\ Cells /\ TableOK /\ Becoming(Empty) /\ Surviving(Empty, kept, minor)
      /\ Kept(kept) /\ Moved(kept) /\ Copies(Empty, kept, copied, lost)
      /\ lost \intersect Buckets = {}
  BY EvacuationIs
<1>2. ContentsOK /\ LocativesOK
  BY DEF HInv
<1>3. o \in DOMAIN memory /\ IsCell(memory[o]) /\ i \in DOMAIN memory[o].slot /\ w \in Value
  BY <1>1, Objects, TracedAreSlots, TracedIs DEF Kept
<1>4. To(w, Plain)
  <2>1. CASE o \in Buckets
    <3>1. To(memory[o].slot[1], {"symbol"})
      BY <1>1, <2>1, BucketsAfter
    <3> QED
      BY <2>1, <3>1 DEF To, Plain
  <2>2. CASE o \notin Buckets
    BY <1>2, <1>3, <2>2 DEF Seen, ContentsOK
  <2> QED
    BY <2>1, <2>2
<1>5. i \in TracedSlots(memory[o], minor)
  BY <1>3 DEF TracedSlots
<1>6. Became(Empty, w) = w
  BY DEF Became, Empty
<1>7. w # Nil => w[2] \in kept
  <2> HIDE DEF w
  <2>1. o \in kept /\ w = memory[o].slot[i]
    BY DEF w
  <2> QED
    BY <1>1, <1>3, <1>4, <1>5, <1>6, <2>1, SurvivingSlots
<1>8. ~(o \in lost /\ i = 1)
  <2> SUFFICES ASSUME o \in lost, i = 1 PROVE FALSE
    OBVIOUS
  <2>1. memory[o].tag = "locative"
    <3>1. PICK l \in locatives \ table : l # Nil /\ l[2] = o
      BY IdsOf
    <3> QED
      BY <1>2, <3>1 DEF LocativesOK, To
  <2> QED
    BY <2>1 DEF TracedSlots
<1>9. memory'[o].slot[i] = Settled(kept, copied, w)
  <2>1. memory'[o].slot[i] = SlotAfter(Empty, kept, copied, lost, o, i)
    BY <1>1, <1>3 DEF Copies
  <2>2. ~(o \in Buckets /\ i = 2)
    OBVIOUS
  <2> HIDE DEF lost
  <2> QED
    BY <1>6, <1>8, <2>1, <2>2 DEF SlotAfter
<1>10. Ids({Settled(kept, copied, w)}) = Ids({w})
  <2>1. Settles(kept, copied)
    BY EvacuatedPointer
  <2> QED
    BY <1>4, <1>7, <2>1 DEF Settles
<1>11. TracedSlots(memory'[o], FALSE) = TracedSlots(memory[o], FALSE)
  BY <1>1 DEF Copies, TracedSlots
<1>12. Ids({w}) \subseteq kept
  BY <1>7, IdsOf
<1> QED
  BY <1>9, <1>10, <1>11, <1>12

(* The roots survive too, all but a chain of buckets.                      *)
LEMMA RootsSurvive ==
  ASSUME HInv, NEW kept, NEW minor, NEW copied, NEW table, NEW nodes,
         Evacuation(Empty, kept, minor, copied, table, nodes)
  PROVE  /\ \A r \in Reg : /\ Ids({reg'[r]}) = Ids({reg[r]})
                           /\ Ids({reg[r]}) \subseteq kept
         /\ \A s \in Global : /\ Ids({static'[s]}) = Ids({static[s]})
                              /\ Ids({static[s]}) \subseteq kept
<1>1. /\ Types /\ HeldOK /\ TableOK /\ Entered /\ Becoming(Empty)
      /\ Surviving(Empty, kept, minor) /\ nodes \subseteq FinNode
      /\ NewRoots(Empty, kept, copied, table, nodes)
  BY EvacuationIs DEF Evacuation
<1>2. Settles(kept, copied)
  BY EvacuatedPointer
<1>3. \A v : Became(Empty, v) = v
  BY DEF Became, Empty
<1>4. /\ \A r \in Reg : reg[r] # Nil => reg[r][2] \in kept
      /\ \A s \in Static : static[s] # Nil => static[s][2] \in kept
  BY <1>1, <1>3, SurvivingRoots
<1>5. ASSUME NEW r \in Reg
      PROVE  Ids({reg'[r]}) = Ids({reg[r]}) /\ Ids({reg[r]}) \subseteq kept
  <2>1. reg'[r] = Settled(kept, copied, reg[r])
    BY <1>1, <1>3 DEF NewRoots
  <2>2. To(reg[r], Plain)
    BY <1>1 DEF HeldOK
  <2>3. reg[r] # Nil => reg[r][2] \in kept
    BY <1>4
  <2>4. Ids({Settled(kept, copied, reg[r])}) = Ids({reg[r]})
    BY <1>2, <2>2, <2>3 DEF Settles
  <2>5. Ids({reg[r]}) \subseteq kept
    BY <2>3, IdsOf
  <2> QED
    BY <2>1, <2>4, <2>5
<1>6. ASSUME NEW s \in Global
      PROVE  Ids({static'[s]}) = Ids({static[s]}) /\ Ids({static[s]}) \subseteq kept
  <2>1. s \in Static /\ s # "table" /\ s \notin nodes
    BY <1>1, HeapAssumption DEF Static
  <2>2. static'[s] = Settled(kept, copied, static[s])
    BY <1>1, <1>3, <2>1 DEF NewRoots
  <2>3. To(static[s], Plain)
    BY <1>1, <2>1 DEF HeldOK
  <2>4. static[s] # Nil => static[s][2] \in kept
    BY <1>4, <2>1
  <2>5. Ids({Settled(kept, copied, static[s])}) = Ids({static[s]})
    BY <1>2, <2>3, <2>4 DEF Settles
  <2>6. Ids({static[s]}) \subseteq kept
    BY <2>4, IdsOf
  <2> QED
    BY <2>2, <2>5, <2>6
<1> QED
  BY <1>5, <1>6

(* The symbol table is held afterwards.                                    *)
LEMMA TableIsStrong ==
  ASSUME HInv, NEW kept, NEW minor, NEW copied, NEW table, NEW nodes,
         Evacuation(Empty, kept, minor, copied, table, nodes)
  PROVE  KeptBuckets(kept) \subseteq Strong'
<1> DEFINE from == Ids(Range(reg') \union {static'[s] : s \in Global \union {"table"}})
<1>1. /\ Cells /\ TableOK /\ Kept(kept) /\ Becoming(Empty)
      /\ Copies(Empty, kept, copied, Ids(locatives \ table))
  BY EvacuationIs
<1>2. KeptBuckets(kept) = Chain(memory', static'["table"])
  BY EvacuatedTable DEF Buckets
<1>3. \A b \in KeptBuckets(kept) : b \in Buckets /\ b \in kept
  BY <1>1 DEF KeptBuckets, Kept
<1>4. \A b \in Chain(memory', static'["table"]) :
        DOMAIN memory'[b].slot = {1, 2} /\ memory'[b].tag \in Linking
  BY <1>1, <1>2, <1>3, BucketsAfter DEF Copies
<1>5. Ids({static'["table"]}) \subseteq from
  BY IdsAreMore
<1>6. Strong' = Reachable(memory', from, FALSE)
  BY DEF Strong
<1> HIDE DEF from
<1> QED
  BY <1>2, <1>4, <1>5, <1>6, ChainIsReached

(* A collection that moves everything is invisible.                        *)
LEMMA CollectionIsInvisible ==
  ASSUME HInv, NEW kept, NEW minor, NEW copied, NEW table, NEW nodes,
         Evacuation(Empty, kept, minor, copied, table, nodes)
  PROVE  /\ \A r \in Reg : Ids({reg[r]}) = Ids({reg'[r]})
         /\ Strong' \subseteq Strong /\ Keepers \subseteq Strong'
         /\ \A o \in Strong' : memory'[o].tag = memory[o].tag
         /\ \A o \in Keepers : Alike(o)
<1> DEFINE L == Strong' \union Buckets
           all == Range(reg') \union {static'[s] : s \in Global \union {"table"}}
<1>1. /\ Cells /\ TableOK /\ Entered /\ Becoming(Empty) /\ Kept(kept) /\ Moved(kept)
      /\ Copies(Empty, kept, copied, Ids(locatives \ table))
      /\ NewRoots(Empty, kept, copied, table, nodes)
  BY EvacuationIs
<1>2. kept \subseteq DOMAIN memory /\ DOMAIN memory' = kept /\ Buckets \subseteq kept
  BY <1>1 DEF Kept, Moved
<1>3. Strong' \subseteq Strong
  BY StrongHolds, StrongAfter
<1>4. Strong \subseteq Seen
  BY StrongIsLive
<1>5. /\ \A r \in Reg : Ids({reg'[r]}) = Ids({reg[r]}) /\ Ids({reg[r]}) \subseteq kept
      /\ \A s \in Global : Ids({static'[s]}) = Ids({static[s]}) /\ Ids({static[s]}) \subseteq kept
  BY RootsSurvive
<1>6. Strong' = Reachable(memory', Ids(all), FALSE)
  BY DEF Strong
<1>7. /\ \A r \in Reg : reg'[r] \in all
      /\ \A s \in Global : static'[s] \in all
  BY <1>1 DEF NewRoots, Range
<1> HIDE DEF all
<1>8. /\ Strong' \subseteq kept /\ Ids(all) \intersect kept \subseteq Strong'
      /\ \A x \in Strong' : Ids(Traced(memory'[x], FALSE)) \intersect kept \subseteq Strong'
  BY <1>2, <1>6, ReachIsClosed
<1>9. \A v \in all : Ids({v}) \intersect kept \subseteq Strong'
  BY <1>8, IdsAreMore
<1>10. /\ \A r \in Reg : Ids({reg[r]}) \subseteq Strong'
       /\ \A s \in Global : Ids({static[s]}) \subseteq Strong'
  BY <1>5, <1>7, <1>9
<1>11. /\ \A b \in Buckets : /\ DOMAIN memory[b].slot = {1, 2} /\ memory[b].tag \in Linking
                             /\ Ids({memory[b].slot[2]}) \subseteq Buckets
                             /\ memory[b].slot[1] # Nil
       /\ Ids({static["table"]}) \subseteq Buckets
  BY <1>1, BucketsAfter
<1>12. ASSUME NEW o \in kept \intersect Seen, NEW i \in TracedSlots(memory[o], FALSE),
              o \in Buckets => i = 1, o \in Strong'
       PROVE  /\ Ids({memory'[o].slot[i]}) = Ids({memory[o].slot[i]})
              /\ Ids({memory[o].slot[i]}) \subseteq Strong'
  <2>1. /\ Ids({memory'[o].slot[i]}) = Ids({memory[o].slot[i]})
        /\ Ids({memory[o].slot[i]}) \subseteq kept
        /\ i \in TracedSlots(memory'[o], FALSE)
    BY <1>12, SlotsSurvive
  <2>2. memory'[o].slot[i] \in Traced(memory'[o], FALSE)
    BY <2>1 DEF Traced
  <2>3. Ids({memory'[o].slot[i]}) \subseteq Ids(Traced(memory'[o], FALSE))
    BY <2>2, IdsAreMore
  <2>4. Ids(Traced(memory'[o], FALSE)) \intersect kept \subseteq Strong'
    BY <1>8, <1>12
  <2> QED
    BY <2>1, <2>3, <2>4
<1>13. ASSUME NEW o \in L, o \in DOMAIN memory, NEW i \in TracedSlots(memory[o], FALSE)
       PROVE  Ids({memory[o].slot[i]}) \subseteq L
  <2>1. CASE o \notin Buckets
    <3>1. o \in Strong' /\ o \in kept \intersect Seen
      BY <1>3, <1>4, <1>8, <2>1
    <3>2. Ids({memory[o].slot[i]}) \subseteq Strong'
      BY <1>12, <2>1, <3>1
    <3> QED
      BY <3>2
  <2>2. CASE o \in Buckets /\ i = 2
    BY <1>11, <2>2
  <2>3. CASE o \in Buckets /\ i # 2
    <3>1. i = 1 /\ o \in kept \intersect Seen
      BY <1>2, <1>11, <2>3 DEF TracedSlots, Seen
    <3>2. Ids({memory[o].slot[1]}) \subseteq kept
      BY <2>3, <3>1, SlotsSurvive
    <3>3. SymbolOf(o) \in kept
      BY <1>11, <2>3, <3>2, IdsOf DEF SymbolOf
    <3>4. o \in Strong'
      BY <2>3, <3>3, TableIsStrong DEF KeptBuckets
    <3>5. Ids({memory[o].slot[i]}) \subseteq Strong'
      BY <1>12, <3>1, <3>4
    <3> QED
      BY <3>5
  <2> QED
    BY <2>1, <2>2, <2>3
<1>14. Holding(Empty, L)
  <2>1. \A v : Became(Empty, v) = v
    BY DEF Became, Empty
  <2>2. /\ \A r \in Reg : Ids({reg[r]}) \subseteq L
        /\ \A s \in Global : Ids({static[s]}) \subseteq L
        /\ Ids({static["table"]}) \subseteq L
    BY <1>10, <1>11
  <2> HIDE DEF L
  <2> QED
    BY <1>13, <2>1, <2>2 DEF Holding
<1>15. Strong \subseteq L
  <2> HIDE DEF L
  <2> QED
    BY <1>14, StrongIsHeld
<1>16. Keepers \subseteq Strong' /\ Keepers \intersect Buckets = {} /\ Keepers \subseteq Strong
  BY <1>11, <1>15 DEF Keepers, Linking
<1>17. ASSUME NEW o \in Keepers PROVE Alike(o)
  <2>1. o \in kept \intersect Seen /\ o \in Strong' /\ o \notin Buckets
    BY <1>3, <1>4, <1>8, <1>16
  <2>2. \A i \in TracedSlots(memory[o], FALSE) :
          Ids({memory'[o].slot[i]}) = Ids({memory[o].slot[i]})
    BY <1>12, <2>1
  <2> QED
    BY <1>1, <2>1, <2>2 DEF Copies, Alike
<1>18. \A o \in Strong' : memory'[o].tag = memory[o].tag
  BY <1>1, <1>8 DEF Copies
<1> QED
  BY <1>3, <1>5, <1>16, <1>17, <1>18

(* No collection changes what the program holds, or what is in it.         *)
THEOREM CollectionsAreInvisible == Spec => CollectionInvisible
<1>1. IInv /\ [Next]_vars =>
        [nursery' = Empty /\ mutations' = {} /\ Collect =>
           /\ \A r \in Reg : Ids({reg[r]}) = Ids({reg'[r]})
           /\ Keepers' = Keepers
           /\ View(memory, Keepers)' = View(memory, Keepers)]_vars
  <2> SUFFICES ASSUME IInv, Collect
               PROVE  /\ \A r \in Reg : Ids({reg[r]}) = Ids({reg'[r]})
                      /\ Keepers' = Keepers
                      /\ View(memory, Keepers)' = View(memory, Keepers)
    OBVIOUS
  <2>h. HInv
    BY GoodIs DEF Collect
  <2>1. /\ \A r \in Reg : Ids({reg[r]}) = Ids({reg'[r]})
        /\ Strong' \subseteq Strong /\ Keepers \subseteq Strong'
        /\ \A o \in Strong' : memory'[o].tag = memory[o].tag
        /\ \A o \in Keepers : Alike(o)
    <3>1. CASE MinorGC
      <4>1. /\ \A r \in Reg : Ids({reg[r]}) = Ids({reg'[r]})
            /\ Strong' = Strong /\ \A o \in Strong : Alike(o)
        BY <2>h, <3>1, MinorIsInvisible
      <4>2. Keepers \subseteq Strong
        BY DEF Keepers
      <4>3. \A o \in Strong : memory'[o].tag = memory[o].tag
        BY <4>1 DEF Alike
      <4> QED
        BY <4>1, <4>2, <4>3
    <3>2. CASE ForcedGC \/ EscalatedGC \/ ResizedGC
      <4>1. PICK kept, minor, copied, table, nodes :
              Collection(Empty, kept, minor, copied, table, nodes)
        BY <2>h, <3>2, CollectIs
      <4>2. Evacuation(Empty, kept, minor, copied, table, nodes)
        BY <4>1 DEF Collection
      <4> QED
        BY <2>h, <4>2, CollectionIsInvisible
    <3> QED
      BY <3>1, <3>2 DEF Collect
  <2> QED
    BY <2>1, SameView
<1> QED
  BY <1>1, HeapInvariance, PTL DEF Spec, CollectionInvisible
=============================================================================
