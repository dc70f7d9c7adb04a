-------------------------------- MODULE Tcp --------------------------------
(***************************************************************************)
(* Connections of src/tcp.scm: tcp-connect, tcp-listen, tcp-accept and     *)
(* tcp-close on one listener, and the ports they make (module TcpPorts).   *)
(* Every connection is between two threads of this process, so each of     *)
(* its steps competes with all others for the one processor.               *)
(***************************************************************************)
EXTENDS TcpPorts

CONSTANTS
  Acceptors,       \* threads that call tcp-accept on the listener
  ConnectTimeout,  \* is tcp-connect-timeout set?
  AcceptTimeout    \* is tcp-accept-timeout set?

VARIABLES
  listening,   \* the listener's descriptor is open
  backlog,     \* connections established and not accepted yet
  cpc, cTmo,   \* where the thread that connects is, and its slot 13
  apc, aTmo    \* the same for the threads that accept

setupVars == <<listening, backlog, cpc, cTmo, apc, aTmo>>
vars      == <<ioVars, setupVars>>

Client(k) == <<k, "client">>
Server(k) == <<k, "server">>

Init ==
  /\ PortsInit
  /\ listening = TRUE /\ backlog = <<>>
  /\ cpc = [k \in Conns |-> "user"] /\ cTmo = [k \in Conns |-> FALSE]
  /\ apc = [a \in Acceptors |-> "user"] /\ aTmo = [a \in Acceptors |-> FALSE]

-----------------------------------------------------------------------------
(* The kernel.                                                             *)

(* A connection is established, and waits in the backlog.                  *)
Handshake(k) ==
  /\ net[k] = "syn" /\ listening
  /\ net' = [net EXCEPT ![k] = "queued"]
  /\ backlog' = Append(backlog, k)
  /\ UNCHANGED <<stuck, portVars, readVars, writeVars, fdOpen, pipe, shut, histVars, bounds,
                 listening, cpc, cTmo, apc, aTmo>>

Refuse(k) ==
  /\ net[k] = "syn"
  /\ net' = [net EXCEPT ![k] = "refused"]
  /\ UNCHANGED <<stuck, portVars, readVars, writeVars, fdOpen, pipe, shut, histVars, bounds, setupVars>>

-----------------------------------------------------------------------------
(* tcp-connect                                                             *)

(* connect(2) on a non-blocking socket succeeds or fails at once, or it is *)
(* in progress and the thread waits.                                       *)
Connect(k) ==
  /\ cpc[k] = "user" /\ Idle
  /\ \/ /\ net' = [net EXCEPT ![k] = "syn"]
        /\ cpc' = [cpc EXCEPT ![k] = "wait"]
        /\ fdOpen' = [fdOpen EXCEPT ![Client(k)] = TRUE]
        /\ UNCHANGED backlog
     \/ /\ listening
        /\ net' = [net EXCEPT ![k] = "queued"]
        /\ backlog' = Append(backlog, k)
        /\ cpc' = [cpc EXCEPT ![k] = "woken"]
        /\ fdOpen' = [fdOpen EXCEPT ![Client(k)] = TRUE]
     \/ /\ net' = [net EXCEPT ![k] = "refused"]
        /\ cpc' = [cpc EXCEPT ![k] = "failed"]
        /\ UNCHANGED <<fdOpen, backlog>>
  /\ UNCHANGED <<stuck, portVars, readVars, writeVars, pipe, shut, histVars, bounds, listening, cTmo, apc,
                 aTmo>>

(* The scheduler resumes it: slot 13 is set by the deadline alone.         *)
ConnectWoken(k) ==
  /\ cpc[k] = "wait" /\ Idle
  /\ \/ net[k] # "syn" /\ UNCHANGED <<cTmo, bounds>>
     \/ signals < MaxSignals /\ signals' = signals + 1 /\ UNCHANGED <<cTmo, errors>>
     \/ /\ ConnectTimeout /\ errors < MaxErrors /\ errors' = errors + 1
        /\ cTmo' = [cTmo EXCEPT ![k] = TRUE]
        /\ UNCHANGED signals
  /\ cpc' = [cpc EXCEPT ![k] = "woken"]
  /\ UNCHANGED <<stuck, portVars, readVars, writeVars, sockVars, histVars, listening, backlog, apc, aTmo>>

(* get-socket-error: SO_ERROR tells whether the connection has failed.     *)
SocketError(k) == Lost(Client(k))

(* The ports are made, unless the socket has an error; what slot 13 says   *)
(* is not looked at.                                                       *)
ConnectReturns(k) ==
  /\ cpc[k] = "woken" /\ ~SocketError(k)
  /\ OpenPorts(Client(k))
  /\ cpc' = [cpc EXCEPT ![k] = "ports"]
  /\ UNCHANGED <<listening, backlog, cTmo, apc, aTmo>>

ConnectFails(k) ==
  /\ cpc[k] = "woken" /\ SocketError(k)
  /\ fdOpen' = [fdOpen EXCEPT ![Client(k)] = FALSE]
  /\ cpc' = [cpc EXCEPT ![k] = "failed"]
  /\ UNCHANGED <<stuck, portVars, readVars, writeVars, net, pipe, shut, histVars, bounds, listening,
                 backlog, cTmo, apc, aTmo>>

-----------------------------------------------------------------------------
(* tcp-accept                                                              *)

(* The thread waits for the listener, with a deadline if there is one.     *)
(* Bound: it does so only as long as there may be another connection.      *)
Accept(a) ==
  /\ listening /\ apc[a] = "user" /\ Idle
  /\ \E k \in Conns : net[k] \in {"none", "syn", "queued"}
  /\ apc' = [apc EXCEPT ![a] = "wait"]
  /\ aTmo' = [aTmo EXCEPT ![a] = FALSE]
  /\ UNCHANGED <<ioVars, listening, backlog, cpc, cTmo>>

(* The listener is readable: the scheduler wakes everybody who waits for   *)
(* it, or a deadline or a signal wakes one.                                *)
AcceptWoken ==
  /\ Idle
  /\ \/ /\ backlog # <<>> \/ ~listening
        /\ \E a \in Acceptors : apc[a] = "wait"
        /\ apc' = [a \in Acceptors |-> IF apc[a] = "wait" THEN "woken" ELSE apc[a]]
        /\ UNCHANGED <<aTmo, bounds>>
     \/ \E a \in Acceptors :
          /\ apc[a] = "wait"
          /\ apc' = [apc EXCEPT ![a] = "woken"]
          /\ \/ /\ AcceptTimeout /\ errors < MaxErrors /\ errors' = errors + 1
                /\ aTmo' = [aTmo EXCEPT ![a] = TRUE]
                /\ UNCHANGED signals
             \/ signals < MaxSignals /\ signals' = signals + 1 /\ UNCHANGED <<aTmo, errors>>
  /\ UNCHANGED <<stuck, portVars, readVars, writeVars, sockVars, histVars, listening, backlog, cpc, cTmo>>

(* accept(2) returns the oldest connection of the backlog.                 *)
AcceptReturns(a) ==
  LET k == Head(backlog)
  IN  /\ apc[a] = "stuck" \/ (apc[a] = "woken" /\ ~aTmo[a] /\ Idle)
      /\ listening /\ backlog # <<>>
      /\ stuck' = FALSE
      /\ backlog' = Tail(backlog)
      /\ net' = [net EXCEPT ![k] = "accepted"]
      /\ fdOpen' = [fdOpen EXCEPT ![Server(k)] = TRUE]
      /\ iopen' = [iopen EXCEPT ![Server(k)] = TRUE]
      /\ oopen' = [oopen EXCEPT ![Server(k)] = TRUE]
      /\ apc' = [apc EXCEPT ![a] = "user"]
      /\ UNCHANGED <<iclosed, oclosed, abandoned, unread, outbuf, readVars, writeVars, pipe, shut,
                     histVars, bounds, listening, cpc, cTmo, aTmo>>

(* accept(2) finds the backlog empty: the listener is in blocking mode, so *)
(* the whole process stops.                                                *)
AcceptBlocks(a) ==
  /\ apc[a] = "woken" /\ ~aTmo[a] /\ listening /\ backlog = <<>> /\ Idle
  /\ apc' = [apc EXCEPT ![a] = "stuck"]
  /\ stuck' = TRUE
  /\ UNCHANGED <<portVars, readVars, writeVars, sockVars, histVars, bounds, listening, backlog, cpc, cTmo, aTmo>>

(* A signal interrupts it: its handler runs, and the thread waits again.   *)
AcceptInterrupted(a) ==
  /\ apc[a] = "stuck"
  /\ apc' = [apc EXCEPT ![a] = "wait"]
  /\ stuck' = FALSE
  /\ UNCHANGED <<portVars, readVars, writeVars, sockVars, histVars, bounds, listening, backlog,
                 cpc, cTmo, aTmo>>

(* The timeout is raised, or accept(2) finds the listener closed.          *)
AcceptFails(a) ==
  /\ apc[a] = "woken" /\ (aTmo[a] \/ ~listening) /\ Idle
  /\ apc' = [apc EXCEPT ![a] = "user"]
  /\ UNCHANGED <<ioVars, listening, backlog, cpc, cTmo, aTmo>>

(* tcp-close: the kernel resets what is in the backlog.                    *)
CloseListener ==
  /\ listening /\ Idle
  /\ listening' = FALSE
  /\ net' = [k \in Conns |-> IF net[k] \in {"queued", "syn"} THEN "reset" ELSE net[k]]
  /\ backlog' = <<>>
  /\ UNCHANGED <<stuck, portVars, readVars, writeVars, fdOpen, pipe, shut, histVars, bounds, cpc, cTmo,
                 apc, aTmo>>

-----------------------------------------------------------------------------
ConnectStep(k) == Connect(k) \/ ConnectWoken(k) \/ ConnectReturns(k) \/ ConnectFails(k)

AcceptStep(a) ==
  \/ Accept(a) \/ AcceptReturns(a) \/ AcceptBlocks(a) \/ AcceptInterrupted(a) \/ AcceptFails(a)

Next ==
  \/ \E k \in Conns : ConnectStep(k) \/ Handshake(k) \/ Refuse(k)
  \/ \E a \in Acceptors : AcceptStep(a)
  \/ AcceptWoken \/ CloseListener
  \/ PortsStep /\ UNCHANGED setupVars

Spec == Init /\ [][Next]_vars

(* A thread that can read again and again gets the processor, because the  *)
(* ready queue is first-in first-out; and every program reads until it has *)
(* read the end of file or closed the port.                                *)
Fairness ==
  /\ \A e \in Ends : SF_vars((ReadStep(e) \/ StartRead(e, 1)) /\ UNCHANGED setupVars)
  /\ WF_vars((\E e \in Ends : WriteStep(e)) /\ UNCHANGED setupVars)

FairSpec == Spec /\ Fairness

-----------------------------------------------------------------------------
(* What end e has still to send of what was written to it.                 *)
Unsent(e) == IF opc[e] = "user" THEN outbuf[e] ELSE out[e]

(* Every byte written at one end is read once and in order at the other,   *)
(* or it is still on its way, through timeouts, partial sends and closing, *)
(* unless a call failed that had done part of its work; and no read        *)
(* delivers more than it was asked for.                                    *)
NothingLost ==
  \A e \in Ends :
    /\ e \notin torn =>
         got[Peer(e)] \o taken[Peer(e)] \o unread[Peer(e)] \o pipe[e] \o Unsent(e)
           = Upto(written[e])
    /\ Len(taken[e]) + want[e] <= 2 /\ Len(unread[e]) <= InBufSize

(* A read returns end-of-file only when everything written at the other    *)
(* end has been read: "closing the output port will flush automatically".  *)
EofIsEnd ==
  \A e \in Ends : eof[Peer(e)] /\ e \notin torn \union failedClose =>
    oclosed[e] /\ got[Peer(e)] = Upto(written[e])

(* A descriptor is open while a thread reads or sends through it, and      *)
(* closed once both ports are, unless flushing failed in the close.        *)
DescriptorsFollowPorts ==
  \A e \in Ends :
    /\ ipc[e] # "user" \/ (opc[e] # "user" /\ e \notin torn) => fdOpen[e]
    /\ iclosed[e] /\ oclosed[e] /\ opc[e] = "user" /\ e \notin failedClose => ~fdOpen[e]

(* Whoever closes an output port and gets no error has sent all that was   *)
(* written to it, on a connection that exists, unless an earlier call has  *)
(* failed half done: also if tcp-connect came back before the connection   *)
(* was decided, and it was refused later, or if another thread has closed  *)
(* the input port while the close was flushing.                            *)
CloseReportsLoss ==
  \A e \in Ends : oclosed[e] /\ opc[e] = "user" /\ e \notin failedClose =>
    /\ outbuf[e] = <<>>
    /\ e \notin torn /\ written[e] > 0 => net[e[1]] \notin {"syn", "refused"}

(* Whoever keeps reading learns that the other end has closed its port.    *)
EofArrives ==
  \A e \in Ends :
    oclosed[e] /\ opc[e] = "user" /\ ~abandoned[e] /\ e \notin failedClose /\ iopen[Peer(e)]
      ~> eof[Peer(e)] \/ iclosed[Peer(e)] \/ stuck
=============================================================================
