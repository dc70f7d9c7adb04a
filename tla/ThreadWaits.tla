---------------------------- MODULE ThreadWaits ----------------------------
(***************************************************************************)
(* What the scheduler promises: a thread that waits goes on only when      *)
(* something it waits for has happened (its deadline has passed, its       *)
(* descriptor is ready, the thread it joined has ended, its mutex was      *)
(* abandoned), and everybody who waits for a thread or a mutex goes on     *)
(* when the thread ends.  Only the primordial thread may be woken for no   *)
(* such reason, because it has to look after signals.  There are no        *)
(* queues, lists or system calls here.                                     *)
(***************************************************************************)
EXTENDS Naturals

CONSTANTS Threads, Primordial, NoBlock

VARIABLES
  mode,       \* new, runnable, running, waiting, ended or gone
  cond,       \* what a waiting thread waits for: a deadline and an object
  prim,       \* the thread that looks after signals
  now,        \* the clock
  fdReady,    \* what is ready on each descriptor
  abandoned   \* the mutexes whose owner has ended

vars == <<mode, cond, prim, now, fdReady, abandoned>>

NoCond == [dl |-> 0, obj |-> NoBlock]

Init ==
  /\ mode = [t \in Threads |-> IF t = Primordial THEN "running" ELSE "new"]
  /\ cond = [t \in Threads |-> NoCond]
  /\ prim = Primordial
  /\ now = 0
  /\ fdReady \in [DOMAIN fdReady -> {{}}]
  /\ abandoned \in [DOMAIN abandoned -> {FALSE}]

Wants(d) == IF d = "all" THEN {"in", "out"} ELSE {d}

Happened(c) ==
  \/ c.dl # 0 /\ c.dl <= now
  \/ c.obj.on = "fd" /\ Wants(c.obj.dir) \intersect fdReady[c.obj.fd] # {}
  \/ c.obj.on = "thread" /\ mode[c.obj.th] = "ended"
  \/ c.obj.on = "mutex" /\ abandoned[c.obj.mx]

SetMode(S, m)  == mode' = [t \in Threads |-> IF t \in S THEN m ELSE mode[t]]
ClearCond(S)   == cond' = [t \in Threads |-> IF t \in S THEN NoCond ELSE cond[t]]
Idle           == \A t \in Threads : mode[t] # "running"

Start(t) ==
  /\ mode[t] = "new"
  /\ SetMode({t}, "runnable")
  /\ UNCHANGED <<cond, prim, now, fdReady, abandoned>>

Run(t) ==
  /\ Idle /\ mode[t] = "runnable"
  /\ SetMode({t}, "running")
  /\ UNCHANGED <<cond, prim, now, fdReady, abandoned>>

Pause(t) ==
  /\ mode[t] = "running"
  /\ SetMode({t}, "runnable")
  /\ UNCHANGED <<cond, prim, now, fdReady, abandoned>>

Wait(t) ==
  /\ mode[t] = "running"
  /\ SetMode({t}, "waiting")
  /\ \E c \in {cond'[t]} : c # NoCond /\ cond' = [cond EXCEPT ![t] = c]
  /\ UNCHANGED <<prim, now, fdReady, abandoned>>

(* The threads of S go on, each for a reason of its own.                   *)
Wake(S) ==
  /\ \A t \in S : mode[t] = "waiting" /\ (t = prim \/ Happened(cond[t]))
  /\ SetMode(S, "runnable")
  /\ ClearCond(S)
  /\ UNCHANGED <<prim, now, fdReady, abandoned>>

(* Thread t ends and its mutexes M are abandoned: all who waited for them  *)
(* go on, and nobody else but the primordial thread.                       *)
End(t, M) ==
  LET S == {x \in Threads \ {t} : /\ mode[x] = "waiting"
                                  /\ \/ cond[x].obj.on = "thread" /\ cond[x].obj.th = t
                                     \/ cond[x].obj.on = "mutex" /\ cond[x].obj.mx \in M}
  IN  /\ mode[t] # "ended"
      /\ abandoned' = [m \in DOMAIN abandoned |-> abandoned[m] \/ m \in M]
      /\ \E X \in SUBSET ({prim} \ {t}) :
           /\ \A x \in X : mode[x] = "waiting"
           /\ mode' = [x \in Threads |-> IF x = t THEN "ended"
                                         ELSE IF x \in S \union X THEN "runnable" ELSE mode[x]]
           /\ ClearCond(S \union X \union {t})
      /\ UNCHANGED <<prim, now, fdReady>>

(* A child process goes on with thread t alone.                            *)
Fork(t) ==
  /\ mode[t] = "running"
  /\ prim' = t
  /\ \E S \in SUBSET {x \in Threads \ {t} : mode[x] = "waiting"} :
       SetMode(S, "gone") /\ ClearCond(S)
  /\ UNCHANGED <<now, fdReady, abandoned>>

World ==
  /\ now' \in {now, now + 1}
  /\ DOMAIN fdReady' = DOMAIN fdReady
  /\ UNCHANGED <<mode, cond, prim, abandoned>>

Next ==
  \/ \E t \in Threads : Start(t) \/ Run(t) \/ Pause(t) \/ Wait(t) \/ Fork(t)
  \/ \E t \in Threads, M \in SUBSET DOMAIN abandoned : End(t, M)
  \/ \E S \in SUBSET Threads : Wake(S)
  \/ World

Spec == Init /\ [][Next]_vars
=============================================================================
