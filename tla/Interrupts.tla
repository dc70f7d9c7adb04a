----------------------------- MODULE Interrupts -----------------------------
(***************************************************************************)
(* How a signal becomes a call of its Scheme handler (src/runtime.c,       *)
(* src/library.scm): the C signal handler queues it and makes the stack    *)
(* look full, the next stack check ends up in handle_interrupt, and        *)
(* ##sys#interrupt-hook calls the handler and drains the queue.            *)
(*                                                                         *)
(* The C signal handler runs with all signals masked, so it is one step,   *)
(* and it may come between any two steps of the program, which shares      *)
(* pending_interrupts with it and no lock.  In the program an increment or *)
(* decrement of pending_interrupts_count is a load and a store.            *)
(*                                                                         *)
(* "pc" is where the program executes; at a stack check "next" is what     *)
(* follows when the check succeeds.  "frames" are the computations         *)
(* handle_interrupt has interrupted, each of them at a stack check.        *)
(***************************************************************************)
EXTENDS Naturals, Sequences, FiniteSets, SequencesExt

CONSTANTS
  Signals,     \* signals that have a handler
  Timer,       \* C_TIMER_INTERRUPT_NUMBER
  MaxPending,  \* MAX_PENDING_INTERRUPTS
  StackRoom,   \* calls until the stack is really full
  MaxRaises,   \* bound: signals that arrive
  MaxTimers    \* bound: how often the timer counter runs out

ASSUME QueueAssumption ==
  /\ Timer \notin Signals /\ IsFiniteSet(Signals)
  /\ MaxPending \in Nat \ {0} /\ StackRoom \in Nat \ {0}
  /\ MaxRaises \in Nat /\ MaxTimers \in Nat

VARIABLES
  pending,  \* pending_interrupts
  count,    \* pending_interrupts_count
  handling, \* handling_interrupts
  limit,    \* C_stack_limit: the hard limit, or faked
  used,     \* how much of the stack is used
  pc, next, \* see above
  reason,   \* the argument of the hook that executes
  reg,      \* the count, as last loaded by the program
  frames,   \* interrupted computations, the innermost last
  owed,     \* history: signals raised whose handler has not started since
  lost,     \* history: owed signals that hit a window or were abandoned
  dropped,  \* history: owed signals that found the queue full
  raises, timers

queueVars == <<pending, count, handling, limit>>
histVars  == <<owed, lost, dropped>>
bounds    == <<raises, timers>>
vars == <<queueVars, used, pc, next, reason, reg, frames, histVars, bounds>>

Reasons == Signals \union {Timer}
Slots   == 0 .. MaxPending - 1
Queued  == {pending[i] : i \in 0 .. count - 1}

Init ==
  /\ pending = [i \in Slots |-> Timer] /\ count = 0
  /\ handling = FALSE /\ limit = "hard"
  /\ used = 0
  /\ pc = "run" /\ next = "program"
  /\ reason = Timer /\ reg = 0
  /\ frames = <<>>
  /\ owed = {} /\ lost = {} /\ dropped = {}
  /\ raises = 0 /\ timers = 0

-----------------------------------------------------------------------------
(* The C signal handler.                                                   *)

(* The first signal forces the next stack check, others wait in the queue. *)
Forces == count = 0 /\ ~handling

(* A queue that takes a signal again and again.                            *)
RaiseAnyway(r) ==
  /\ limit' = IF Forces THEN "faked" ELSE limit
  /\ IF count < MaxPending
     THEN pending' = [pending EXCEPT ![count] = r] /\ count' = count + 1
     ELSE UNCHANGED <<pending, count>>

(* C_raise_interrupt                                                       *)
RaiseInterrupt(r) ==
  /\ limit' = IF Forces THEN "faked" ELSE limit
  /\ IF Forces \/ (count < MaxPending /\ r \notin Queued)
     THEN pending' = [pending EXCEPT ![count] = r] /\ count' = count + 1
     ELSE UNCHANGED <<pending, count>>

(* Between a load of the count and its store an entry that is added is     *)
(* cut off, and between the store and the read it overwrites the one that  *)
(* is being taken.                                                         *)
AtRisk(s) ==
  CASE pc \in {"popped", "pushing"}     -> {s} \ {pending[i] : i \in 0 .. reg - 1}
    [] pc = "stored" /\ count = reg - 1 -> {pending[reg - 1]} \ {s}
    [] OTHER                           -> {}

(* global_signal_handler                                                   *)
Signal(s) ==
  /\ raises < MaxRaises /\ raises' = raises + 1
  /\ RaiseInterrupt(s)
  /\ owed' = owed \union {s}
  /\ lost' = (lost \ {s}) \union (AtRisk(s) \intersect owed')
  /\ dropped' = IF count = MaxPending /\ s \notin Queued THEN dropped \union {s} ELSE dropped \ {s}
  /\ UNCHANGED <<handling, used, pc, next, reason, reg, frames, timers>>

-----------------------------------------------------------------------------
(* The stack check at the entry of every procedure.                        *)

AtCheck(n) == pc' = "check" /\ next' = n

(* The program calls a procedure or returns to a continuation.             *)
Call ==
  /\ pc = "run" /\ next = "program"
  /\ AtCheck("program")
  /\ UNCHANGED <<queueVars, used, reason, reg, frames, histVars, bounds>>

CheckSucceeds ==
  /\ pc = "check" /\ limit = "hard" /\ used < StackRoom
  /\ pc' = "run"
  /\ used' = used + 1
  /\ UNCHANGED <<queueVars, next, reason, reg, frames, histVars, bounds>>

CheckFails ==
  /\ pc = "check" /\ (limit = "faked" \/ used = StackRoom)
  /\ pc' = "reclaim"
  /\ UNCHANGED <<queueVars, used, next, reason, reg, frames, histVars, bounds>>

(* The timer counter runs out: the program itself is in C_raise_interrupt. *)
TimerExpires ==
  /\ pc = "check" /\ timers < MaxTimers
  /\ timers' = timers + 1
  /\ reg' = count
  /\ pc' = IF Forces \/ (count < MaxPending /\ Timer \notin Queued) THEN "pushing" ELSE "check"
  /\ UNCHANGED <<queueVars, used, next, reason, frames, histVars, raises>>

TimerQueued ==
  /\ pc = "pushing"
  /\ pending' = [pending EXCEPT ![reg] = Timer]
  /\ count' = reg + 1
  /\ limit' = IF reg = 0 /\ ~handling THEN "faked" ELSE limit
  /\ pc' = "check"
  /\ UNCHANGED <<handling, used, next, reason, reg, frames, histVars, bounds>>

(* A C_reclaim that looks at the queue only when the limit is faked.       *)
InterruptDueIfForced == count > 0 /\ limit = "faked"

(* What C_reclaim asks before it collects.                                 *)
InterruptDue == count > 0

(* C_reclaim with interrupts pending: handle_interrupt.                    *)
Interrupt ==
  /\ pc = "reclaim" /\ InterruptDue
  /\ limit' = "hard"
  /\ frames' = Append(frames, [next |-> next, reason |-> reason])
  /\ pc' = "popping"
  /\ UNCHANGED <<pending, count, handling, used, next, reason, reg, histVars, bounds>>

(* C_reclaim otherwise: a collection empties the stack, and the procedure  *)
(* is entered again.                                                       *)
Collect ==
  /\ pc = "reclaim" /\ ~InterruptDue
  /\ used' = 0
  /\ pc' = "check"
  /\ UNCHANGED <<queueVars, next, reason, reg, frames, histVars, bounds>>

-----------------------------------------------------------------------------
(* pending_interrupts[ --pending_interrupts_count ], in handle_interrupt   *)
(* and in C_i_pending_interrupt.                                           *)

PopLoad ==
  /\ pc = "popping"
  /\ reg' = count
  /\ pc' = "popped"
  /\ UNCHANGED <<queueVars, used, next, reason, frames, histVars, bounds>>

PopStore ==
  /\ pc = "popped"
  /\ count' = reg - 1
  /\ pc' = "stored"
  /\ UNCHANGED <<pending, handling, limit, used, next, reason, reg, frames, histVars, bounds>>

(* The oldest entry is read although the newest is dropped.                *)
PopReadOldest ==
  /\ pc = "stored"
  /\ reason' = pending[0]
  /\ AtCheck("handler")
  /\ UNCHANGED <<queueVars, used, reg, frames, histVars, bounds>>

PopRead ==
  /\ pc = "stored"
  /\ reason' = pending[reg - 1]
  /\ AtCheck("handler")
  /\ UNCHANGED <<queueVars, used, reg, frames, histVars, bounds>>

-----------------------------------------------------------------------------
(* ##sys#interrupt-hook                                                    *)

(* The handler of the signal is called; the timer has none, its thread     *)
(* switch is over when the hook goes on.                                   *)
HandlerStarts ==
  /\ pc = "run" /\ next = "handler"
  /\ owed' = owed \ {reason} /\ lost' = lost \ {reason} /\ dropped' = dropped \ {reason}
  /\ AtCheck(IF reason = Timer THEN "pending" ELSE "body")
  /\ UNCHANGED <<queueVars, used, reason, reg, frames, bounds>>

HandlerReturns ==
  /\ pc = "run" /\ next = "body"
  /\ AtCheck("pending")
  /\ UNCHANGED <<queueVars, used, reason, reg, frames, histVars, bounds>>

(* The handler calls a continuation captured in the program: the hook and  *)
(* whatever it interrupted never go on.                                    *)
HandlerEscapes ==
  /\ pc = "run" /\ next = "body"
  /\ AtCheck("program")
  /\ frames' = <<>>
  /\ lost' = lost \union ({frames[i].reason : i \in {j \in DOMAIN frames : frames[j].next = "handler"}}
                          \intersect owed)
  /\ UNCHANGED <<queueVars, used, reason, reg, owed, dropped, bounds>>

(* C_i_pending_interrupt: there is another one ...                         *)
MorePending ==
  /\ pc = "run" /\ next = "pending" /\ count > 0
  /\ handling' = TRUE
  /\ reg' = count
  /\ pc' = "popped"
  /\ UNCHANGED <<pending, count, limit, used, next, reason, frames, histVars, bounds>>

(* ... or there is none, and in a second step the flag is cleared and the  *)
(* interrupted computation goes on where it was, at a stack check.         *)
NonePending ==
  /\ pc = "run" /\ next = "pending" /\ count = 0
  /\ pc' = "last"
  /\ UNCHANGED <<queueVars, used, next, reason, reg, frames, histVars, bounds>>

Resume ==
  /\ pc = "last"
  /\ handling' = FALSE
  /\ AtCheck(Last(frames).next)
  /\ reason' = Last(frames).reason
  /\ frames' = Front(frames)
  /\ UNCHANGED <<pending, count, limit, used, reg, histVars, bounds>>

(* A system call of the program fails with EINTR: ##sys#dispatch-interrupt *)
(* drains the queue and then makes the call again.                         *)
DispatchInterrupt ==
  /\ pc = "run" /\ next = "program" /\ raises > 0
  /\ frames' = Append(frames, [next |-> "program", reason |-> reason])
  /\ AtCheck("pending")
  /\ UNCHANGED <<queueVars, used, reason, reg, histVars, bounds>>

-----------------------------------------------------------------------------
CpuStep ==
  \/ Call \/ CheckSucceeds \/ CheckFails \/ TimerQueued \/ Interrupt \/ Collect
  \/ PopLoad \/ PopStore \/ PopRead \/ HandlerStarts \/ HandlerReturns \/ HandlerEscapes
  \/ MorePending \/ NonePending \/ Resume

Next == CpuStep \/ TimerExpires \/ DispatchInterrupt \/ \E s \in Signals : Signal(s)

Spec     == Init /\ [][Next]_vars
FairSpec == Spec /\ WF_vars(CpuStep)

-----------------------------------------------------------------------------
(* Every variable has its type; no signal is queued twice.                 *)
TypeOK ==
  /\ pending \in [Slots -> Reasons] /\ count \in 0 .. MaxPending
  /\ handling \in BOOLEAN /\ limit \in {"hard", "faked"}
  /\ used \in 0 .. StackRoom /\ reg \in 0 .. MaxPending
  /\ pc \in {"run", "check", "reclaim", "popping", "popped", "stored", "pushing", "last"}
  /\ next \in {"program", "handler", "body", "pending"}
  /\ reason \in Reasons
  /\ owed \subseteq Signals /\ lost \subseteq Signals /\ dropped \subseteq Signals
  /\ \A i, j \in 0 .. count - 1 : pending[i] = pending[j] => i = j

(* What the hooks that have begun have taken out of the queue and not      *)
(* handed to a handler yet.                                                *)
InHand ==
  {frames[i].reason : i \in {j \in DOMAIN frames : frames[j].next = "handler"}}
    \union (IF pc \notin {"popping", "popped", "stored"} /\ next = "handler" THEN {reason} ELSE {})
    \union (IF pc = "stored" THEN {pending[reg - 1]} ELSE {})

(* "Signals will be queued (up to a certain limit)": until its handler     *)
(* starts a signal is in the queue or in a hook's hands, however hooks are *)
(* nested and interrupted, unless it came between a load and a store of    *)
(* the count, a handler escaped from the hook, or the queue was full.      *)
SignalsAccounted == owed \subseteq Queued \union InHand \union lost \union dropped

(* The stack limit is faked and nothing is pending.                        *)
Spinning == limit = "faked" /\ count = 0

(* A signal's handler runs in the end, whether or not it could force a     *)
(* stack check, and also after another handler has escaped.                *)
SignalsHandled ==
  \A s \in Signals : s \in owed ~> s \notin owed \/ s \in lost \union dropped \/ Spinning
=============================================================================
