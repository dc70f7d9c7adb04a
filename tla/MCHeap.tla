------------------------------- MODULE MCHeap -------------------------------
(* Small instances of the memory for TLC.                                  *)
EXTENDS Heap, TLC

CONSTANTS o1, o2, o3, o4, r1, r2, w1, f1, n1, n2, nil

Symmetry == Permutations(Obj) \union Permutations(Reg)

Tags == {memory[o].tag : o \in DOMAIN memory}
Uses(b) == IF b THEN 1 ELSE 0

(* Symbols, locatives, finalizers and static slots: three objects or more  *)
(* with one of these in use, two with all of them; three blocks with what  *)
(* is kept in static slots; four objects only when they are symbols and    *)
(* their buckets.                                                          *)
Finalizing == pending # <<>> \/ \E f \in FinNode : static[f] # Nil
Focus ==
  /\ \/ Cardinality(DOMAIN memory) <= 2
     \/ Uses("symbol" \in Tags) + Uses("locative" \in Tags) + Uses(Finalizing)
        + Uses(\E s \in Global \union FinRoot : static[s] # Nil) <= 1
  /\ half > 2 => Cardinality(DOMAIN memory) > 2
  /\ Cardinality(DOMAIN memory) > 2 /\ Tags = {"block"} =>
       ~Finalizing /\ Cardinality(mutations) <= 1
  /\ Cardinality(DOMAIN memory) = 4 => Tags \subseteq {"symbol", "pair", "weak"}
=============================================================================
