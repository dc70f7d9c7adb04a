-------------------------- MODULE InterruptProofs --------------------------
(***************************************************************************)
(* Proofs about module Interrupts: for any signals, any length of the      *)
(* queue and any depth of nested hooks, no signal is forgotten except in   *)
(* the ways SignalsAccounted names.                                        *)
(***************************************************************************)
EXTENDS Interrupts, SequenceTheorems, TLAPS

(* What a hook has interrupted.                                            *)
Frame == [next : {"program", "handler", "body", "pending"}, reason : Reasons]

(* The program has begun to take an entry: it is there to be taken.        *)
Popping == pc \in {"popping", "popped", "stored"}

EntryToPop ==
  /\ pc = "popping" => count > 0
  /\ pc = "popped" => reg > 0 /\ reg <= count
  /\ pc = "stored" => reg > 0 /\ reg - 1 <= count

(* The timer's entry goes behind those the program has seen, none of which *)
(* is the timer's.                                                         *)
EntryToPush ==
  pc = "pushing" => /\ reg < MaxPending /\ reg <= count
                    /\ \A i \in Slots : i < reg => pending[i] # Timer

(* What arrived since the program loaded the count is known to be at risk. *)
LateEntriesAtRisk ==
  pc \in {"popped", "pushing"} =>
    \A i \in Slots : reg <= i /\ i < count /\ pending[i] \in owed => pending[i] \in lost

(* Only hooks have interrupted something, and the program is outermost.    *)
FramesNest ==
  /\ frames \in Seq(Frame)
  /\ Popping \/ next # "program" => frames # <<>>
  /\ frames # <<>> => frames[1].next = "program"
  /\ pc = "last" => next = "pending"

(* The inductive invariant.                                                *)
IInv ==
  /\ TypeOK
  /\ EntryToPop
  /\ EntryToPush
  /\ LateEntriesAtRisk
  /\ FramesNest
  /\ SignalsAccounted

-----------------------------------------------------------------------------
(* What the C signal handler does to the queue.                            *)

(* It adds an entry behind the others or leaves the queue alone.           *)
LEMMA RaiseAppends ==
  ASSUME TypeOK, NEW r \in Reasons, RaiseInterrupt(r)
  PROVE  \/ /\ r \notin Queued /\ count < MaxPending
            /\ count' = count + 1 /\ pending' = [pending EXCEPT ![count] = r]
         \/ /\ r \in Queued \/ count = MaxPending
            /\ count' = count /\ pending' = pending
<1>1. count \in 0 .. MaxPending /\ MaxPending \in Nat \ {0}
  BY QueueAssumption DEF TypeOK
<1>2. CASE Forces
  <2>1. Queued = {}
    BY <1>2 DEF Forces, Queued
  <2> QED
    BY <1>1, <1>2, <2>1 DEF RaiseInterrupt, Forces
<1>3. CASE ~Forces
  BY <1>1, <1>3 DEF RaiseInterrupt
<1> QED
  BY <1>2, <1>3

(* The queue and the limit keep their types, and no entry is doubled.      *)
LEMMA RaiseType ==
  ASSUME TypeOK, NEW r \in Reasons, RaiseInterrupt(r)
  PROVE  /\ pending' \in [Slots -> Reasons] /\ count' \in 0 .. MaxPending
         /\ limit' \in {"hard", "faked"}
         /\ \A i, j \in 0 .. count' - 1 : pending'[i] = pending'[j] => i = j
<1>1. count \in 0 .. MaxPending /\ MaxPending \in Nat \ {0}
      /\ pending \in [Slots -> Reasons]
  BY QueueAssumption DEF TypeOK
<1>2. limit' \in {"hard", "faked"}
  BY DEF RaiseInterrupt, TypeOK
<1>3. CASE /\ r \notin Queued /\ count < MaxPending
           /\ count' = count + 1 /\ pending' = [pending EXCEPT ![count] = r]
  <2>1. count \in Slots
    BY <1>1, <1>3 DEF Slots
  <2>2. \A i, j \in 0 .. count' - 1 : pending'[i] = pending'[j] => i = j
    BY <1>1, <1>3, <2>1 DEF TypeOK, Queued, Slots
  <2> QED
    BY <1>1, <1>2, <1>3, <2>1, <2>2
<1>4. CASE count' = count /\ pending' = pending
  BY <1>1, <1>2, <1>4 DEF TypeOK
<1> QED
  BY <1>3, <1>4, RaiseAppends

-----------------------------------------------------------------------------
(* Types.                                                                  *)

(* The initial state has its types.                                        *)
LEMMA TypeInit == Init => TypeOK
<1>1. ASSUME Init
      PROVE  /\ pending \in [Slots -> Reasons] /\ count \in 0 .. MaxPending
             /\ used \in 0 .. StackRoom /\ reg \in 0 .. MaxPending /\ reason \in Reasons
  BY <1>1, QueueAssumption DEF Init, Reasons
<1>2. Init => \A i, j \in 0 .. count - 1 : pending[i] = pending[j] => i = j
  BY DEF Init
<1> QED
  BY <1>1, <1>2 DEF Init, TypeOK

(* Every step keeps the types.                                             *)
LEMMA TypeStep ==
  ASSUME TypeOK, EntryToPop, EntryToPush, FramesNest, [Next]_vars
  PROVE  TypeOK'
<1>0. /\ count \in 0 .. MaxPending /\ reg \in 0 .. MaxPending /\ used \in 0 .. StackRoom
      /\ MaxPending \in Nat \ {0} /\ StackRoom \in Nat \ {0}
      /\ pending \in [Slots -> Reasons] /\ Timer \in Reasons
  BY QueueAssumption DEF TypeOK, Reasons
<1>1. ASSUME Call PROVE TypeOK'
  BY <1>1 DEF Call, AtCheck, TypeOK, queueVars, histVars, bounds
<1>2. ASSUME CheckSucceeds PROVE TypeOK'
  <2>1. used' \in 0 .. StackRoom
    BY <1>0, <1>2 DEF CheckSucceeds
  <2> QED
    BY <1>2, <2>1 DEF CheckSucceeds, TypeOK, queueVars, histVars, bounds
<1>3. ASSUME CheckFails PROVE TypeOK'
  BY <1>3 DEF CheckFails, TypeOK, queueVars, histVars, bounds
<1>4. ASSUME TimerExpires PROVE TypeOK'
  BY <1>4 DEF TimerExpires, TypeOK, queueVars, histVars
<1>5. ASSUME TimerQueued PROVE TypeOK'
  <2>1. reg \in Slots /\ reg < MaxPending /\ reg <= count
        /\ \A i \in Slots : i < reg => pending[i] # Timer
    BY <1>0, <1>5 DEF TimerQueued, EntryToPush, Slots
  <2>2. count' = reg + 1 /\ pending' = [pending EXCEPT ![reg] = Timer]
    BY <1>5 DEF TimerQueued
  <2>3. count' \in 0 .. MaxPending /\ pending' \in [Slots -> Reasons]
    BY <1>0, <2>1, <2>2
  <2>4. \A i, j \in 0 .. count' - 1 : pending'[i] = pending'[j] => i = j
    BY <1>0, <2>1, <2>2 DEF TypeOK, Slots
  <2>5. limit' \in {"hard", "faked"}
    BY <1>5 DEF TimerQueued, TypeOK
  <2> QED
    BY <1>5, <2>3, <2>4, <2>5 DEF TimerQueued, TypeOK, histVars, bounds
<1>6. ASSUME Interrupt PROVE TypeOK'
  BY <1>6 DEF Interrupt, TypeOK, histVars, bounds
<1>7. ASSUME Collect PROVE TypeOK'
  <2>1. used' \in 0 .. StackRoom
    BY <1>0, <1>7 DEF Collect
  <2> QED
    BY <1>7, <2>1 DEF Collect, TypeOK, queueVars, histVars, bounds
<1>8. ASSUME PopLoad PROVE TypeOK'
  BY <1>8 DEF PopLoad, TypeOK, queueVars, histVars, bounds
<1>9. ASSUME PopStore PROVE TypeOK'
  <2>1. reg > 0 /\ reg <= count /\ count' = reg - 1 /\ pending' = pending
    BY <1>9 DEF PopStore, EntryToPop
  <2>2. count' \in 0 .. MaxPending
    BY <1>0, <2>1
  <2>3. \A i, j \in 0 .. count' - 1 : pending'[i] = pending'[j] => i = j
    BY <1>0, <2>1 DEF TypeOK
  <2> QED
    BY <1>9, <2>2, <2>3 DEF PopStore, TypeOK, histVars, bounds
<1>10. ASSUME PopRead PROVE TypeOK'
  <2>1. reg - 1 \in Slots
    BY <1>0, <1>10 DEF PopRead, EntryToPop, Slots
  <2>2. reason' \in Reasons
    BY <1>0, <1>10, <2>1 DEF PopRead
  <2> QED
    BY <1>10, <2>2 DEF PopRead, AtCheck, TypeOK, queueVars, histVars, bounds
<1>11. ASSUME HandlerStarts PROVE TypeOK'
  BY <1>11 DEF HandlerStarts, AtCheck, TypeOK, queueVars, bounds
<1>12. ASSUME HandlerReturns PROVE TypeOK'
  BY <1>12 DEF HandlerReturns, AtCheck, TypeOK, queueVars, histVars, bounds
<1>13. ASSUME HandlerEscapes PROVE TypeOK'
  BY <1>13 DEF HandlerEscapes, AtCheck, TypeOK, queueVars, bounds
<1>14. ASSUME MorePending PROVE TypeOK'
  BY <1>14 DEF MorePending, TypeOK, histVars, bounds
<1>15. ASSUME NonePending PROVE TypeOK'
  BY <1>15 DEF NonePending, TypeOK, queueVars, histVars, bounds
<1>16. ASSUME Resume PROVE TypeOK'
  <2>1. frames # <<>> /\ frames \in Seq(Frame)
    BY <1>16 DEF Resume, FramesNest
  <2>2. Last(frames) \in Frame
    BY <2>1 DEF Last
  <2> QED
    BY <1>16, <2>2 DEF Resume, AtCheck, TypeOK, Frame, histVars, bounds
<1>17. ASSUME DispatchInterrupt PROVE TypeOK'
  BY <1>17 DEF DispatchInterrupt, AtCheck, TypeOK, queueVars, histVars, bounds
<1>18. ASSUME NEW s \in Signals, Signal(s) PROVE TypeOK'
  <2>1. /\ pending' \in [Slots -> Reasons] /\ count' \in 0 .. MaxPending
        /\ limit' \in {"hard", "faked"}
        /\ \A i, j \in 0 .. count' - 1 : pending'[i] = pending'[j] => i = j
    BY <1>18, RaiseType DEF Signal, Reasons
  <2>2. owed' \subseteq Signals /\ lost' \subseteq Signals /\ dropped' \subseteq Signals
    BY <1>18 DEF Signal, TypeOK
  <2> QED
    BY <1>18, <2>1, <2>2 DEF Signal, TypeOK
<1>19. ASSUME UNCHANGED vars PROVE TypeOK'
  BY <1>19 DEF TypeOK, vars, queueVars, histVars
<1> QED
  BY <1>1, <1>2, <1>3, <1>4, <1>5, <1>6, <1>7, <1>8, <1>9, <1>10, <1>11, <1>12, <1>13,
     <1>14, <1>15, <1>16, <1>17, <1>18, <1>19 DEF Next, CpuStep

-----------------------------------------------------------------------------
(* Frames and the program's loads of the count.                            *)

(* Steps that change neither the queue nor what is known about it.         *)
Aside ==
  \/ Call \/ CheckSucceeds \/ CheckFails \/ Collect \/ HandlerReturns \/ NonePending
  \/ UNCHANGED vars

(* Hooks stay nested in the program.                                       *)
LEMMA FramesStep ==
  ASSUME TypeOK, FramesNest, [Next]_vars
  PROVE  FramesNest'
<1>0. frames \in Seq(Frame)
  BY DEF FramesNest
<1>1. CASE Aside \/ TimerExpires \/ TimerQueued \/ PopLoad \/ PopStore \/ PopRead
           \/ HandlerStarts \/ MorePending \/ \E s \in Signals : Signal(s)
  <2>1. frames' = frames
    BY <1>1 DEF Aside, Call, CheckSucceeds, CheckFails, Collect, HandlerReturns, NonePending, vars,
       TimerExpires, TimerQueued, PopLoad, PopStore, PopRead, HandlerStarts, MorePending, Signal
  <2>2. Popping' \/ next' # "program" => Popping \/ next # "program"
    BY <1>1 DEF Popping, AtCheck, Aside, Call, CheckSucceeds, CheckFails, Collect, HandlerReturns,
       NonePending, vars, TimerExpires, TimerQueued, PopLoad, PopStore, PopRead, HandlerStarts,
       MorePending, Signal
  <2>3. pc' = "last" => next' = "pending"
    BY <1>1 DEF FramesNest, AtCheck, Aside, Call, CheckSucceeds, CheckFails, Collect,
       HandlerReturns, NonePending, vars, TimerExpires, TimerQueued, PopLoad, PopStore, PopRead,
       HandlerStarts, MorePending, Signal
  <2> QED
    BY <2>1, <2>2, <2>3 DEF FramesNest
<1>2. CASE Interrupt \/ DispatchInterrupt
  <2>1. PICK f \in Frame : /\ frames' = Append(frames, f)
                           /\ frames = <<>> => f.next = "program"
    BY <1>2 DEF Interrupt, DispatchInterrupt, FramesNest, Frame, TypeOK
  <2>2. pc' # "last"
    BY <1>2 DEF Interrupt, DispatchInterrupt, AtCheck
  <2> QED
    BY <1>0, <2>1, <2>2 DEF FramesNest
<1>3. CASE HandlerEscapes
  BY <1>3 DEF HandlerEscapes, AtCheck, FramesNest, Popping
<1>4. CASE Resume
  <2>1. frames # <<>> /\ frames[1].next = "program"
    BY <1>4 DEF Resume, FramesNest
  <2>2. frames' = SubSeq(frames, 1, Len(frames) - 1) /\ next' = frames[Len(frames)].next
        /\ pc' = "check"
    BY <1>0, <1>4, <2>1 DEF Resume, AtCheck, Front, Last
  <2>3. Len(frames) \in Nat \ {0}
    BY <1>0, <2>1
  <2>4. /\ frames' \in Seq(Frame) /\ Len(frames') = Len(frames) - 1
        /\ \A i \in 1 .. Len(frames) - 1 : frames'[i] = frames[i]
    <3> DEFINE top == Len(frames) - 1
    <3>1. top \in Int /\ \A i \in 1 .. top : i \in 1 .. Len(frames)
      BY <2>3
    <3>2. \A i \in 1 .. top : frames[i] \in Frame
      BY <1>0, <3>1
    <3>3. /\ SubSeq(frames, 1, top) \in Seq(Frame)
          /\ Len(SubSeq(frames, 1, top)) = IF 1 <= top THEN top - 1 + 1 ELSE 0
          /\ \A i \in 1 .. top - 1 + 1 : SubSeq(frames, 1, top)[i] = frames[1 + i - 1]
      <4> HIDE DEF top
      <4> QED
        BY <3>1, <3>2, SubSeqProperties
    <3>4. top - 1 + 1 = top /\ \A i \in 1 .. top : 1 + i - 1 = i
      BY <2>3
    <3> QED
      BY <2>2, <2>3, <3>3, <3>4
  <2>5. next' # "program" => frames' # <<>>
    <3>1. Len(frames) # 1 => Len(frames') # 0
      BY <2>3, <2>4
    <3> QED
      BY <2>1, <2>2, <2>3, <2>4, <3>1
  <2>6. frames' # <<>> => frames'[1].next = "program"
    <3>1. frames' # <<>> => Len(frames') # 0
      BY <2>4
    <3>2. frames' # <<>> => 1 \in 1 .. Len(frames) - 1
      BY <2>3, <2>4, <3>1
    <3> QED
      BY <2>1, <2>4, <3>2
  <2> QED
    BY <2>2, <2>4, <2>5, <2>6 DEF FramesNest, Popping
<1> QED
  BY <1>1, <1>2, <1>3, <1>4 DEF Next, CpuStep, Aside

(* The entry the program is about to take stays there, and the slot the    *)
(* timer is about to use stays behind all others.                          *)
LEMMA EntriesStep ==
  ASSUME TypeOK, EntryToPop, EntryToPush, [Next]_vars
  PROVE  EntryToPop' /\ EntryToPush'
<1>0. /\ count \in 0 .. MaxPending /\ reg \in 0 .. MaxPending
      /\ MaxPending \in Nat \ {0} /\ pending \in [Slots -> Reasons]
  BY QueueAssumption DEF TypeOK
<1>1. CASE Aside \/ TimerQueued \/ PopRead \/ HandlerStarts \/ HandlerEscapes \/ Resume
           \/ DispatchInterrupt
  <2>1. pc' \notin {"popping", "popped", "stored", "pushing"} \/ UNCHANGED vars
    BY <1>1 DEF AtCheck, Aside, Call, CheckSucceeds, CheckFails, Collect, HandlerReturns,
       NonePending, TimerQueued, PopRead, HandlerStarts, HandlerEscapes, Resume,
       DispatchInterrupt
  <2> QED
    BY <2>1 DEF EntryToPop, EntryToPush, vars, queueVars
<1>2. CASE TimerExpires
  <2>1. pc' = "pushing" => reg' < MaxPending /\ (count = 0 \/ Timer \notin Queued)
    BY <1>0, <1>2 DEF TimerExpires, Forces
  <2>2. reg' = count /\ count' = count /\ pending' = pending /\ pc' \in {"pushing", "check"}
    BY <1>2 DEF TimerExpires, queueVars
  <2>3. \A i \in Slots : i < count /\ Timer \notin Queued => pending[i] # Timer
    BY <1>0 DEF Queued, Slots
  <2>4. \A i \in Slots : ~(i < 0)
    BY DEF Slots
  <2> QED
    BY <1>0, <2>1, <2>2, <2>3, <2>4 DEF EntryToPop, EntryToPush
<1>3. CASE Interrupt
  BY <1>0, <1>3 DEF Interrupt, InterruptDue, EntryToPop, EntryToPush
<1>4. CASE PopLoad
  BY <1>0, <1>4 DEF PopLoad, EntryToPop, EntryToPush, queueVars
<1>5. CASE PopStore
  BY <1>0, <1>5 DEF PopStore, EntryToPop, EntryToPush
<1>6. CASE MorePending
  BY <1>0, <1>6 DEF MorePending, EntryToPop, EntryToPush
<1>7. ASSUME NEW s \in Signals, Signal(s) PROVE EntryToPop' /\ EntryToPush'
  <2>1. /\ count' >= count /\ count' \in Nat
        /\ \A i \in Slots : i < count => pending'[i] = pending[i]
    BY <1>0, <1>7, RaiseAppends DEF Signal, Reasons, Slots
  <2>2. \A i \in Slots : pending[i] # Timer => pending'[i] # Timer
    BY <1>0, <1>7, RaiseAppends, QueueAssumption DEF Signal, Reasons
  <2>3. pc' = pc /\ reg' = reg
    BY <1>7 DEF Signal
  <2> QED
    BY <1>0, <2>1, <2>2, <2>3 DEF EntryToPop, EntryToPush
<1> QED
  BY <1>1, <1>2, <1>3, <1>4, <1>5, <1>6, <1>7 DEF Next, CpuStep, Aside

-----------------------------------------------------------------------------
(* No signal is forgotten.                                                 *)

(* An entry that arrives behind the program's back is known to be at risk. *)
LEMMA RiskStep ==
  ASSUME TypeOK, EntryToPop, EntryToPush, LateEntriesAtRisk, [Next]_vars
  PROVE  LateEntriesAtRisk'
<1>0. /\ count \in 0 .. MaxPending /\ reg \in 0 .. MaxPending
      /\ MaxPending \in Nat \ {0} /\ pending \in [Slots -> Reasons]
  BY QueueAssumption DEF TypeOK
<1>1. CASE Aside \/ TimerQueued \/ Interrupt \/ PopStore \/ PopRead \/ HandlerStarts
           \/ HandlerEscapes \/ Resume \/ DispatchInterrupt
  <2>1. pc' \notin {"popped", "pushing"} \/ UNCHANGED vars
    BY <1>1 DEF AtCheck, Aside, Call, CheckSucceeds, CheckFails, Collect, HandlerReturns,
       NonePending, TimerQueued, Interrupt, PopStore, PopRead, HandlerStarts, HandlerEscapes,
       Resume, DispatchInterrupt
  <2> QED
    BY <2>1 DEF LateEntriesAtRisk, vars, queueVars, histVars
<1>2. CASE TimerExpires \/ PopLoad \/ MorePending
  <2>1. reg' = count /\ count' = count
    BY <1>2 DEF TimerExpires, PopLoad, MorePending, queueVars
  <2>2. \A i \in Slots : ~(count <= i /\ i < count)
    BY <1>0 DEF Slots
  <2> QED
    BY <2>1, <2>2 DEF LateEntriesAtRisk
<1>3. ASSUME NEW s \in Signals, Signal(s),
             pc' \in {"popped", "pushing"},
             NEW i \in Slots, reg' <= i, i < count', pending'[i] \in owed'
      PROVE  pending'[i] \in lost'
  <2>1. /\ pc \in {"popped", "pushing"} /\ reg' = reg /\ reg <= count
        /\ owed' = owed \union {s} /\ AtRisk(s) = {s} \ {pending[j] : j \in 0 .. reg - 1}
        /\ lost' = (lost \ {s}) \union (AtRisk(s) \intersect owed')
    BY <1>3 DEF Signal, AtRisk, EntryToPop, EntryToPush
  <2>2. CASE s \notin Queued /\ count' = count + 1 /\ pending' = [pending EXCEPT ![count] = s]
             /\ i = count
    <3>1. pending'[i] = s
      BY <1>0, <1>3, <2>2
    <3>2. s \notin {pending[j] : j \in 0 .. reg - 1}
      BY <1>0, <2>1, <2>2 DEF Queued
    <3> QED
      BY <2>1, <3>1, <3>2
  <2>3. CASE pending'[i] = pending[i] /\ i < count /\ pending[i] # s
    BY <1>3, <2>1, <2>3 DEF LateEntriesAtRisk
  <2>4. CASE pending'[i] = pending[i] /\ i < count /\ pending[i] = s
    <3>1. \A j \in 0 .. reg - 1 : pending[j] # pending[i]
      BY <1>0, <1>3, <2>1, <2>4 DEF TypeOK, Slots
    <3> QED
      BY <2>1, <2>4, <3>1
  <2> QED
    BY <1>0, <1>3, <2>2, <2>3, <2>4, RaiseAppends DEF Signal, Reasons, Slots, Queued
<1> QED
  BY <1>1, <1>2, <1>3 DEF Next, CpuStep, Aside, LateEntriesAtRisk

(* What the interrupted hooks hold.                                        *)
InFrames == {frames[i].reason : i \in {j \in DOMAIN frames : frames[j].next = "handler"}}

(* A signal that arrives is queued or dropped, and endangers no other      *)
(* without that being recorded.                                            *)
LEMMA SignalAccounted ==
  ASSUME TypeOK, EntryToPop, SignalsAccounted, NEW s \in Signals, Signal(s)
  PROVE  SignalsAccounted'
<1>0. /\ count \in 0 .. MaxPending /\ reg \in 0 .. MaxPending
      /\ MaxPending \in Nat \ {0} /\ pending \in [Slots -> Reasons]
  BY QueueAssumption DEF TypeOK
<1>1. /\ owed' = owed \union {s}
      /\ lost' = (lost \ {s}) \union (AtRisk(s) \intersect owed')
      /\ dropped' = IF count = MaxPending /\ s \notin Queued THEN dropped \union {s}
                    ELSE dropped \ {s}
      /\ pc' = pc /\ next' = next /\ reason' = reason /\ reg' = reg /\ frames' = frames
  BY DEF Signal
<1>2. \/ /\ s \notin Queued /\ count < MaxPending
         /\ count' = count + 1 /\ pending' = [pending EXCEPT ![count] = s]
      \/ /\ s \in Queued \/ count = MaxPending
         /\ count' = count /\ pending' = pending
  BY RaiseAppends DEF Signal, Reasons
<1>3. Queued \subseteq Queued'
  BY <1>0, <1>2 DEF Queued, Slots
<1>4. s \in Queued' \/ s \in dropped'
  <2>1. CASE count' = count + 1 /\ pending' = [pending EXCEPT ![count] = s] /\ count < MaxPending
    <3>1. pending'[count] = s /\ count \in 0 .. count' - 1
      BY <1>0, <2>1 DEF Slots
    <3> QED
      BY <3>1 DEF Queued
  <2> QED
    BY <1>1, <1>2, <1>3, <2>1
<1>5. ASSUME NEW x \in owed, x # s, x \in InHand
      PROVE  x \in InHand' \union lost'
  <2>1. CASE pc = "stored" /\ x = pending[reg - 1]
    <3>1. reg - 1 \in Slots /\ reg - 1 <= count
      BY <1>0, <2>1 DEF EntryToPop, Slots
    <3>2. CASE count = reg - 1
      BY <1>1, <1>5, <2>1, <3>2 DEF AtRisk
    <3>3. CASE count # reg - 1
      <4>1. pending'[reg - 1] = pending[reg - 1]
        BY <1>0, <1>2, <3>1, <3>3
      <4> QED
        BY <1>1, <2>1, <4>1 DEF InHand
    <3> QED
      BY <3>2, <3>3
  <2>2. CASE ~(pc = "stored" /\ x = pending[reg - 1])
    BY <1>1, <1>5, <2>2 DEF InHand
  <2> QED
    BY <2>1, <2>2
<1> QED
  BY <1>1, <1>3, <1>4, <1>5 DEF SignalsAccounted

(* A step of the program loses no signal that was not at risk.             *)
LEMMA CpuAccounted ==
  ASSUME TypeOK, EntryToPop, EntryToPush, LateEntriesAtRisk, FramesNest, SignalsAccounted,
         CpuStep \/ TimerExpires \/ DispatchInterrupt \/ UNCHANGED vars
  PROVE  SignalsAccounted'
<1>0. /\ count \in 0 .. MaxPending /\ reg \in 0 .. MaxPending
      /\ MaxPending \in Nat \ {0} /\ pending \in [Slots -> Reasons] /\ frames \in Seq(Frame)
  BY QueueAssumption DEF TypeOK, FramesNest
<1>1. CASE UNCHANGED vars
  BY <1>1 DEF SignalsAccounted, Queued, InHand, vars, queueVars, histVars
<1>2. CASE Call \/ CheckSucceeds \/ CheckFails \/ TimerExpires \/ Collect \/ HandlerReturns
           \/ NonePending \/ PopLoad \/ MorePending
  <2>1. /\ pending' = pending /\ count' = count /\ frames' = frames /\ reason' = reason
        /\ owed' = owed /\ lost' = lost /\ dropped' = dropped
    BY <1>2 DEF Call, CheckSucceeds, CheckFails, TimerExpires, Collect, HandlerReturns, NonePending,
       PopLoad, MorePending, queueVars, histVars
  <2>2. /\ pc # "stored" /\ pc' # "stored"
        /\ pc \notin {"popping", "popped", "stored"} /\ next = "handler"
             => pc' \notin {"popping", "popped", "stored"} /\ next' = "handler"
    BY <1>2 DEF Call, CheckSucceeds, CheckFails, TimerExpires, Collect, HandlerReturns, NonePending,
       PopLoad, MorePending, AtCheck
  <2> QED
    BY <2>1, <2>2 DEF SignalsAccounted, Queued, InHand
<1>3. CASE TimerQueued
  <2>1. /\ pc = "pushing" /\ pc' = "check" /\ count' = reg + 1 /\ reg < MaxPending /\ reg <= count
        /\ pending' = [pending EXCEPT ![reg] = Timer]
        /\ frames' = frames /\ reason' = reason /\ next' = next
        /\ owed' = owed /\ lost' = lost /\ dropped' = dropped
    BY <1>3 DEF TimerQueued, EntryToPush, histVars
  <2>2. InHand' = InHand
    BY <2>1 DEF InHand
  <2>3. ASSUME NEW x \in Queued, x \in owed PROVE x \in Queued' \union lost
    <3>1. PICK i \in 0 .. count - 1 : x = pending[i]
      BY DEF Queued
    <3>2. i \in Slots
      BY <1>0 DEF Slots
    <3>3. CASE i < reg
      BY <1>0, <2>1, <3>1, <3>2, <3>3 DEF Queued
    <3>4. CASE reg <= i
      BY <1>0, <2>1, <2>3, <3>1, <3>2, <3>4 DEF LateEntriesAtRisk
    <3> QED
      BY <1>0, <3>3, <3>4
  <2> QED
    BY <2>1, <2>2, <2>3 DEF SignalsAccounted
<1>4. CASE Interrupt \/ DispatchInterrupt
  <2>1. /\ pending' = pending /\ count' = count
        /\ owed' = owed /\ lost' = lost /\ dropped' = dropped
        /\ pc \in {"run", "reclaim"} /\ pc' \in {"popping", "check"}
    BY <1>4 DEF Interrupt, DispatchInterrupt, AtCheck, queueVars, histVars
  <2>2. PICK f \in Frame : /\ frames' = Append(frames, f)
                           /\ next = "handler" => f.next = "handler" /\ f.reason = reason
    BY <1>4 DEF Interrupt, DispatchInterrupt, Frame, TypeOK
  <2>3. /\ DOMAIN frames \subseteq DOMAIN frames' /\ Len(frames) + 1 \in DOMAIN frames'
        /\ \A i \in DOMAIN frames : frames'[i] = frames[i]
        /\ frames'[Len(frames) + 1] = f
    BY <1>0, <2>2
  <2>4. InHand \subseteq InHand'
    <3>1. InFrames \subseteq InFrames'
      BY <2>3 DEF InFrames
    <3>2. next = "handler" => reason \in InFrames'
      BY <2>2, <2>3 DEF InFrames
    <3> QED
      BY <2>1, <3>1, <3>2 DEF InHand, InFrames
  <2> QED
    BY <2>1, <2>4 DEF SignalsAccounted, Queued
<1>5. CASE PopStore
  <2>1. /\ pc = "popped" /\ pc' = "stored" /\ count' = reg - 1 /\ reg > 0 /\ reg <= count
        /\ pending' = pending /\ frames' = frames /\ reg' = reg
        /\ owed' = owed /\ lost' = lost /\ dropped' = dropped
    BY <1>5 DEF PopStore, EntryToPop, histVars
  <2>2. InHand \subseteq InHand' /\ pending[reg - 1] \in InHand'
    BY <2>1 DEF InHand
  <2>3. ASSUME NEW x \in Queued, x \in owed PROVE x \in Queued' \union InHand' \union lost
    <3>1. PICK i \in 0 .. count - 1 : x = pending[i]
      BY DEF Queued
    <3>2. i \in Slots
      BY <1>0 DEF Slots
    <3>3. CASE i < reg - 1
      BY <1>0, <2>1, <3>1, <3>3 DEF Queued
    <3>4. CASE i = reg - 1
      BY <2>2, <3>1, <3>4
    <3>5. CASE reg <= i
      BY <1>0, <2>1, <2>3, <3>1, <3>2, <3>5 DEF LateEntriesAtRisk
    <3> QED
      BY <1>0, <3>3, <3>4, <3>5
  <2> QED
    BY <2>1, <2>2, <2>3 DEF SignalsAccounted
<1>6. CASE PopRead
  <2>1. /\ pc = "stored" /\ pc' = "check" /\ next' = "handler" /\ reason' = pending[reg - 1]
        /\ pending' = pending /\ count' = count /\ frames' = frames
        /\ owed' = owed /\ lost' = lost /\ dropped' = dropped
    BY <1>6 DEF PopRead, AtCheck, queueVars, histVars
  <2>2. InHand \subseteq InHand'
    BY <2>1 DEF InHand
  <2> QED
    BY <2>1, <2>2 DEF SignalsAccounted, Queued
<1>7. CASE HandlerStarts
  <2>1. /\ pc = "run" /\ pending' = pending /\ count' = count /\ frames' = frames
        /\ owed' = owed \ {reason} /\ lost' = lost \ {reason} /\ dropped' = dropped \ {reason}
    BY <1>7 DEF HandlerStarts, AtCheck, queueVars
  <2>2. InHand \subseteq InHand' \union {reason}
    BY <2>1 DEF InHand
  <2> QED
    BY <2>1, <2>2 DEF SignalsAccounted, Queued
<1>8. CASE HandlerEscapes
  <2>1. /\ pc = "run" /\ next = "body" /\ pending' = pending /\ count' = count
        /\ owed' = owed /\ dropped' = dropped
        /\ lost' = lost \union (InFrames \intersect owed)
    BY <1>8 DEF HandlerEscapes, InFrames, queueVars
  <2>2. InHand = InFrames
    BY <2>1 DEF InHand, InFrames
  <2> QED
    BY <2>1, <2>2 DEF SignalsAccounted, Queued
<1>9. CASE Resume
  <2>1. /\ pc = "last" /\ pc' = "check" /\ pending' = pending /\ count' = count
        /\ owed' = owed /\ lost' = lost /\ dropped' = dropped
        /\ next' = Last(frames).next /\ reason' = Last(frames).reason /\ frames' = Front(frames)
    BY <1>9 DEF Resume, AtCheck, histVars
  <2>2. next = "pending" /\ frames # <<>>
    BY <2>1 DEF FramesNest
  <2>3. Len(frames) \in Nat \ {0} /\ DOMAIN frames = 1 .. Len(frames)
    BY <1>0, <2>2
  <2>4. frames' = SubSeq(frames, 1, Len(frames) - 1)
    BY <2>1 DEF Front
  <2>5. \A i \in 1 .. Len(frames) - 1 : i \in DOMAIN frames' /\ frames'[i] = frames[i]
    BY <1>0, <2>3, <2>4
  <2>6. InHand = InFrames
    BY <2>1, <2>2 DEF InHand, InFrames
  <2>7. ASSUME NEW i \in DOMAIN frames, frames[i].next = "handler"
        PROVE  frames[i].reason \in InHand'
    <3>1. CASE i = Len(frames)
      BY <2>1, <2>7, <3>1 DEF InHand, Last
    <3>2. CASE i # Len(frames)
      <4>1. i \in DOMAIN frames' /\ frames'[i] = frames[i]
        BY <2>3, <2>5, <3>2
      <4> QED
        BY <2>7, <4>1 DEF InHand
    <3> QED
      BY <3>1, <3>2
  <2>8. InHand \subseteq InHand'
    BY <2>6, <2>7 DEF InFrames
  <2> QED
    BY <2>1, <2>8 DEF SignalsAccounted, Queued
<1> QED
  BY <1>1, <1>2, <1>3, <1>4, <1>5, <1>6, <1>7, <1>8, <1>9 DEF CpuStep

-----------------------------------------------------------------------------
(* The initial state satisfies the invariant.                              *)
LEMMA IInvInit == Init => IInv
<1> SUFFICES ASSUME Init PROVE IInv
  OBVIOUS
<1>1. TypeOK
  BY TypeInit
<1>2. EntryToPop /\ EntryToPush /\ LateEntriesAtRisk /\ FramesNest /\ SignalsAccounted
  BY DEF Init, EntryToPop, EntryToPush, LateEntriesAtRisk, FramesNest, Popping, SignalsAccounted
<1> QED
  BY <1>1, <1>2 DEF IInv

(* Every step preserves it.                                                *)
LEMMA IInvStep == IInv /\ [Next]_vars => IInv'
<1> SUFFICES ASSUME IInv, [Next]_vars PROVE IInv'
  OBVIOUS
<1>0. /\ TypeOK /\ EntryToPop /\ EntryToPush /\ LateEntriesAtRisk /\ FramesNest
      /\ SignalsAccounted
  BY DEF IInv
<1>1. TypeOK' /\ FramesNest' /\ EntryToPop' /\ EntryToPush' /\ LateEntriesAtRisk'
  BY <1>0, TypeStep, FramesStep, EntriesStep, RiskStep
<1>2. SignalsAccounted'
  BY <1>0, SignalAccounted, CpuAccounted DEF Next
<1> QED
  BY <1>1, <1>2 DEF IInv

(* The queue, the program's loads of its length and the nested hooks agree *)
(* in every reachable state (C_raise_interrupt, handle_interrupt,          *)
(* C_i_pending_interrupt).                                                 *)
THEOREM QueueInvariance == Spec => []IInv
<1> QED
  BY IInvInit, IInvStep, PTL DEF Spec

(* Every variable of the interrupt queue always has its type, and no       *)
(* signal is queued twice (C_raise_interrupt).                             *)
THEOREM QueueTypeCorrect == Spec => []TypeOK
<1>1. IInv => TypeOK
  BY DEF IInv
<1> QED
  BY <1>1, QueueInvariance, PTL

(* Whatever the signals and the length of the queue, a signal whose        *)
(* handler has not started is queued or in a hook's hands, unless it came  *)
(* between a load and a store of the count, a handler escaped, or the      *)
(* queue was full (C_raise_interrupt, handle_interrupt,                    *)
(* ##sys#interrupt-hook).                                                  *)
THEOREM NoSignalForgotten == Spec => []SignalsAccounted
<1>1. IInv => SignalsAccounted
  BY DEF IInv
<1> QED
  BY <1>1, QueueInvariance, PTL
=============================================================================
