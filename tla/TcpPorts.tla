------------------------------ MODULE TcpPorts ------------------------------
(***************************************************************************)
(* The input and output port that io-ports (src/tcp.scm) puts on a         *)
(* connected socket, at both ends of every connection of the process.      *)
(*                                                                         *)
(* Each end has one thread that uses its input port and one that uses its  *)
(* output port.  tcp.scm is compiled with disable-interrupts, so a thread  *)
(* that reads or sends keeps the processor until it waits or its call      *)
(* returns.  The scheduler appears as what it promises (ThreadWaits): a    *)
(* waiting thread goes on when its descriptor is ready, when its deadline  *)
(* strikes (slot 13 is set), or, if a signal forces the primordial thread, *)
(* for no reason at all.                                                   *)
(*                                                                         *)
(* Data: the n-th byte a thread writes at an end is the number n.          *)
(***************************************************************************)
EXTENDS Naturals, Sequences, FiniteSets, SequencesExt

CONSTANTS
  Conns,        \* connections
  OutBufSize,   \* tcp-buffer-size, 0 for #f
  InBufSize,    \* +input-buffer-size+
  ChunkSize,    \* +output-chunk-size+
  PipeSize,     \* what the kernel holds of one direction
  ReadTimeout,  \* is tcp-read-timeout set?
  WriteTimeout, \* is tcp-write-timeout set?
  MaxBytes,     \* bound: bytes written at an end, by the end's side
  MaxErrors,    \* bound: timeouts that strike
  MaxSignals    \* bound: waits a signal ends

Sides == {"client", "server"}
Ends  == Conns \X Sides

Peer(e) == <<e[1], IF e[2] = "client" THEN "server" ELSE "client">>

ASSUME BufferAssumption ==
  /\ OutBufSize \in Nat /\ MaxErrors \in Nat /\ MaxSignals \in Nat
  /\ InBufSize \in Nat \ {0} /\ ChunkSize \in Nat \ {0} /\ PipeSize \in Nat \ {0}
  /\ MaxBytes \in [Sides -> Nat]

VARIABLES
  iopen, oopen,     \* slot 8 of the two ports: still open?
  iclosed, oclosed, \* the flags of io-ports
  abandoned,        \* slot 2 of the port data: output port abandoned?
  unread,           \* buf from bufindex to buflen
  outbuf,           \* outbuf, empty without buffering
  stuck,            \* the whole process is stopped in a system call
  ipc,              \* where the reading thread is
  want,             \* how many bytes its call is still to deliver
  taken,            \* the bytes its call has delivered so far
  opc,              \* where the writing thread is
  out,              \* what output has still to send
  why,              \* who called output: write, flush or close
  net,              \* what the kernel knows of a connection
  fdOpen,           \* the socket's descriptor is open
  pipe,             \* bytes sent at an end and not received at the other
  shut,             \* this end has shut down writing
  written,          \* history: how many bytes were written to the port
  got,              \* history: what reads have returned
  eof,              \* history: has a read returned #!eof?
  torn,             \* history: ends where a failed call was half done
  failedClose,      \* history: ends whose close-output-port raised an error
  errors, signals   \* how many timeouts and signals there have been

portVars  == <<iopen, oopen, iclosed, oclosed, abandoned, unread, outbuf>>
readVars  == <<ipc, want, taken>>
writeVars == <<opc, out, why>>
sockVars  == <<net, fdOpen, pipe, shut>>
histVars  == <<written, got, eof, torn, failedClose>>
bounds    == <<errors, signals>>
ioVars    == <<stuck, portVars, readVars, writeVars, sockVars, histVars, bounds>>

(* Nobody is in the middle of a call and has the processor.                *)
Idle == ~stuck /\ \A e \in Ends : ipc[e] # "read" /\ opc[e] # "send"

Upto(n)  == [i \in 1 .. n |-> i]
Least(S) == CHOOSE n \in S : \A m \in S : n <= m

PortsInit ==
  /\ stuck = FALSE
  /\ iopen = [e \in Ends |-> FALSE] /\ oopen = [e \in Ends |-> FALSE]
  /\ iclosed = [e \in Ends |-> FALSE] /\ oclosed = [e \in Ends |-> FALSE]
  /\ abandoned = [e \in Ends |-> FALSE]
  /\ unread = [e \in Ends |-> <<>>] /\ outbuf = [e \in Ends |-> <<>>]
  /\ ipc = [e \in Ends |-> "user"] /\ want = [e \in Ends |-> 0]
  /\ taken = [e \in Ends |-> <<>>]
  /\ opc = [e \in Ends |-> "user"] /\ out = [e \in Ends |-> <<>>]
  /\ why = [e \in Ends |-> "write"]
  /\ net = [k \in Conns |-> "none"]
  /\ fdOpen = [e \in Ends |-> FALSE] /\ pipe = [e \in Ends |-> <<>>]
  /\ shut = [e \in Ends |-> FALSE]
  /\ written = [e \in Ends |-> 0] /\ got = [e \in Ends |-> <<>>]
  /\ eof = [e \in Ends |-> FALSE] /\ torn = {} /\ failedClose = {}
  /\ errors = 0 /\ signals = 0

(* io-ports on the socket of end e.                                        *)
OpenPorts(e) ==
  /\ iopen' = [iopen EXCEPT ![e] = TRUE]
  /\ oopen' = [oopen EXCEPT ![e] = TRUE]
  /\ UNCHANGED <<stuck, iclosed, oclosed, abandoned, unread, outbuf, readVars, writeVars, sockVars,
                 histVars, bounds>>

-----------------------------------------------------------------------------
(* The input port.                                                         *)

(* read-char (n = 1) and read-string! are called; a peek-char does no more *)
(* than the read-input of a read-char.                                     *)
StartRead(e, n) ==
  /\ iopen[e] /\ ipc[e] = "user" /\ Idle /\ ~eof[e]
  /\ ipc' = [ipc EXCEPT ![e] = "read"]
  /\ want' = [want EXCEPT ![e] = n]
  /\ UNCHANGED <<stuck, portVars, taken, writeVars, sockVars, histVars, bounds>>

(* Bytes are copied out of buf, as many as there are and are wanted.       *)
Take(e) ==
  LET n == Least({want[e], Len(unread[e])})
      s == taken[e] \o SubSeq(unread[e], 1, n)
      done == n = want[e]
  IN  /\ ipc[e] = "read" /\ unread[e] # <<>>
      /\ unread' = [unread EXCEPT ![e] = SubSeq(@, n + 1, Len(@))]
      /\ want' = [want EXCEPT ![e] = @ - n]
      /\ taken' = [taken EXCEPT ![e] = IF done THEN <<>> ELSE s]
      /\ got' = [got EXCEPT ![e] = IF done THEN @ \o s ELSE @]
      /\ ipc' = [ipc EXCEPT ![e] = IF done THEN "user" ELSE "read"]
      /\ UNCHANGED <<stuck, iopen, oopen, iclosed, oclosed, abandoned, outbuf, writeVars, sockVars,
                     written, eof, torn, failedClose, bounds>>

(* read-buffered returns what is in buf and never waits.                   *)
ReadBuffered(e) ==
  /\ iopen[e] /\ ipc[e] = "user" /\ Idle /\ unread[e] # <<>>
  /\ got' = [got EXCEPT ![e] = @ \o unread[e]]
  /\ unread' = [unread EXCEPT ![e] = <<>>]
  /\ UNCHANGED <<stuck, iopen, oopen, iclosed, oclosed, abandoned, outbuf, readVars, writeVars,
                 sockVars, written, eof, torn, failedClose, bounds>>

(* The connection is gone for good / the other end has closed its socket.  *)
Lost(e)        == net[e[1]] \in {"refused", "reset"}
PeerGone(e)    == iclosed[Peer(e)] /\ oclosed[Peer(e)] /\ ~fdOpen[Peer(e)]
NoMoreInput(e) == shut[Peer(e)] \/ Lost(e)

(* read-input: recv delivers some of what the kernel has.                  *)
Recv(e) ==
  LET p == pipe[Peer(e)]
  IN  /\ ipc[e] = "read" /\ unread[e] = <<>> /\ p # <<>>
      /\ \E n \in 1 .. Least({InBufSize, Len(p)}) :
           /\ unread' = [unread EXCEPT ![e] = SubSeq(p, 1, n)]
           /\ pipe' = [pipe EXCEPT ![Peer(e)] = SubSeq(p, n + 1, Len(p))]
      /\ UNCHANGED <<stuck, iopen, oopen, iclosed, oclosed, abandoned, outbuf, readVars, writeVars,
                     net, fdOpen, shut, histVars, bounds>>

(* read-input: recv returns 0, and the call ends with what it has.         *)
RecvEof(e) ==
  /\ ipc[e] = "read" /\ unread[e] = <<>> /\ pipe[Peer(e)] = <<>> /\ shut[Peer(e)]
  /\ ipc' = [ipc EXCEPT ![e] = "user"]
  /\ got' = [got EXCEPT ![e] = @ \o taken[e]]
  /\ taken' = [taken EXCEPT ![e] = <<>>]
  /\ eof' = [eof EXCEPT ![e] = taken[e] = <<>>]
  /\ want' = [want EXCEPT ![e] = 0]
  /\ UNCHANGED <<stuck, portVars, writeVars, sockVars, written, torn, failedClose, bounds>>

(* read-input: recv would block, and the thread waits.                     *)
RecvWait(e) ==
  /\ ipc[e] = "read" /\ unread[e] = <<>> /\ pipe[Peer(e)] = <<>> /\ ~NoMoreInput(e)
  /\ ipc' = [ipc EXCEPT ![e] = "wait"]
  /\ UNCHANGED <<stuck, portVars, want, taken, writeVars, sockVars, histVars, bounds>>

(* The scheduler resumes it, in vain after a signal, and read-input tries   *)
(* again with the same deadline.                                           *)
ReadWoken(e) ==
  /\ ipc[e] = "wait" /\ Idle
  /\ \/ (pipe[Peer(e)] # <<>> \/ NoMoreInput(e)) /\ UNCHANGED signals
     \/ signals < MaxSignals /\ signals' = signals + 1
  /\ ipc' = [ipc EXCEPT ![e] = "read"]
  /\ UNCHANGED <<stuck, portVars, want, taken, writeVars, sockVars, histVars, errors>>

(* A read ends in an exception: what it has already taken is gone.         *)
ReadRaises(e) ==
  /\ ipc' = [ipc EXCEPT ![e] = "user"]
  /\ taken' = [taken EXCEPT ![e] = <<>>]
  /\ want' = [want EXCEPT ![e] = 0]
  /\ torn' = IF taken[e] # <<>> THEN torn \union {Peer(e)} ELSE torn
  /\ UNCHANGED <<stuck, portVars, writeVars, sockVars, written, got, eof, failedClose, signals>>

(* Slot 13 is set after the wait.                                          *)
ReadTimesOut(e) ==
  /\ ipc[e] = "wait" /\ Idle /\ ReadTimeout /\ errors < MaxErrors
  /\ errors' = errors + 1
  /\ ReadRaises(e)

(* read-input: recv fails.                                                 *)
RecvFails(e) ==
  /\ ipc[e] = "read" /\ unread[e] = <<>> /\ pipe[Peer(e)] = <<>> /\ Lost(e) /\ ~shut[Peer(e)]
  /\ UNCHANGED errors
  /\ ReadRaises(e)

(* close-input-port                                                        *)
CloseInput(e) ==
  /\ iopen[e] /\ ipc[e] = "user" /\ Idle
  /\ iopen' = [iopen EXCEPT ![e] = FALSE]
  /\ iclosed' = [iclosed EXCEPT ![e] = TRUE]
  /\ fdOpen' = [fdOpen EXCEPT ![e] = @ /\ ~oclosed[e]]
  /\ shut' = [shut EXCEPT ![e] = @ \/ oclosed[e]]
  /\ torn' = IF oclosed[e] /\ opc[e] # "user" THEN torn \union {e} ELSE torn
  /\ UNCHANGED <<stuck, oopen, oclosed, abandoned, unread, outbuf, readVars, writeVars, net, pipe,
                 written, got, eof, failedClose, bounds>>

-----------------------------------------------------------------------------
(* The output port.                                                        *)

(* output is called with everything that is buffered.                      *)
Output(e, s, reason) ==
  /\ out' = [out EXCEPT ![e] = s]
  /\ why' = [why EXCEPT ![e] = reason]
  /\ opc' = [opc EXCEPT ![e] = "send"]

(* write-string: buffered until there is enough, or sent at once.          *)
Write(e, n) ==
  LET s == outbuf[e] \o SubSeq(Upto(written[e] + n), written[e] + 1, written[e] + n)
  IN  /\ oopen[e] /\ opc[e] = "user" /\ Idle /\ written[e] + n <= MaxBytes[e[2]]
      /\ written' = [written EXCEPT ![e] = @ + n]
      /\ outbuf' = [outbuf EXCEPT ![e] = IF OutBufSize = 0 THEN @ ELSE s]
      /\ \/ Len(s) >= OutBufSize /\ Output(e, s, "write")
         \/ Len(s) < OutBufSize /\ UNCHANGED writeVars
      /\ UNCHANGED <<stuck, iopen, oopen, iclosed, oclosed, abandoned, unread, readVars, sockVars, got,
                     eof, torn, failedClose, bounds>>

(* flush-output                                                            *)
Flush(e) ==
  /\ oopen[e] /\ opc[e] = "user" /\ Idle /\ outbuf[e] # <<>>
  /\ Output(e, outbuf[e], "flush")
  /\ UNCHANGED <<stuck, portVars, readVars, sockVars, histVars, bounds>>

(* output: send takes what the kernel has room for, at most a chunk.       *)
Send(e) ==
  /\ opc[e] = "send" /\ out[e] # <<>> /\ fdOpen[e]
  /\ net[e[1]] \in {"queued", "accepted"} /\ ~PeerGone(e)
  /\ Len(pipe[e]) < PipeSize
  /\ \E n \in 1 .. Least({ChunkSize, Len(out[e]), PipeSize - Len(pipe[e])}) :
       /\ pipe' = [pipe EXCEPT ![e] = @ \o SubSeq(out[e], 1, n)]
       /\ out' = [out EXCEPT ![e] = SubSeq(@, n + 1, Len(@))]
  /\ UNCHANGED <<stuck, portVars, readVars, opc, why, net, fdOpen, shut, histVars, bounds>>

(* output: send would block, and the thread waits.                         *)
Stalled(e) ==
  /\ fdOpen[e] /\ ~PeerGone(e)
  /\ net[e[1]] = "syn" \/ (net[e[1]] \in {"queued", "accepted"} /\ Len(pipe[e]) = PipeSize)

SendWait(e) ==
  /\ opc[e] = "send" /\ out[e] # <<>> /\ Stalled(e)
  /\ opc' = [opc EXCEPT ![e] = "wait"]
  /\ UNCHANGED <<stuck, portVars, readVars, out, why, sockVars, histVars, bounds>>

SendWoken(e) ==
  /\ opc[e] = "wait" /\ Idle
  /\ \/ ~Stalled(e) /\ UNCHANGED signals
     \/ signals < MaxSignals /\ signals' = signals + 1
  /\ opc' = [opc EXCEPT ![e] = "send"]
  /\ UNCHANGED <<stuck, portVars, readVars, out, why, sockVars, histVars, errors>>

(* A close that leaves the connection as it is until both ports are closed.*)
ShutDownWithSocket(e) ==
  /\ fdOpen' = [fdOpen EXCEPT ![e] = @ /\ ~iclosed[e]]
  /\ shut' = [shut EXCEPT ![e] = @ \/ iclosed[e]]

(* A close that does not ask whether the other port is still open.         *)
ShutDownClosesSocket(e) ==
  /\ fdOpen' = [fdOpen EXCEPT ![e] = FALSE]
  /\ shut' = [shut EXCEPT ![e] = TRUE]

(* The end of a close: shut down for writing, unless the port is abandoned,*)
(* and close the descriptor once the input port is closed, too.            *)
ShutDown(e) ==
  /\ fdOpen' = [fdOpen EXCEPT ![e] = @ /\ ~iclosed[e]]
  /\ shut' = [shut EXCEPT ![e] = @ \/ ~abandoned[e] \/ iclosed[e]]

(* An output whose caller does not empty the buffer.                       *)
OutputReturnsKeepsBuffer(e) ==
  /\ opc[e] = "send" /\ out[e] = <<>>
  /\ opc' = [opc EXCEPT ![e] = "user"]
  /\ why' = [why EXCEPT ![e] = "write"]
  /\ \/ why[e] = "close" /\ ShutDown(e)
     \/ why[e] # "close" /\ UNCHANGED <<fdOpen, shut>>
  /\ UNCHANGED <<stuck, portVars, readVars, out, net, pipe, histVars, bounds>>

(* output returns, and its caller empties the buffer or finishes a close.  *)
OutputReturns(e) ==
  /\ opc[e] = "send" /\ out[e] = <<>>
  /\ opc' = [opc EXCEPT ![e] = "user"]
  /\ outbuf' = [outbuf EXCEPT ![e] = <<>>]
  /\ why' = [why EXCEPT ![e] = "write"]
  /\ \/ why[e] = "close" /\ ShutDown(e)
     \/ why[e] # "close" /\ UNCHANGED <<stuck, fdOpen, shut>>
  /\ UNCHANGED <<stuck, iopen, oopen, iclosed, oclosed, abandoned, unread, readVars, out, net, pipe,
                 histVars, bounds>>

(* An output whose caller has emptied the buffer before it called.         *)
OutputRaisesEmptied(e) ==
  /\ opc' = [opc EXCEPT ![e] = "user"]
  /\ outbuf' = [outbuf EXCEPT ![e] = <<>>]
  /\ torn' = IF out[e] # outbuf[e] THEN torn \union {e} ELSE torn
  /\ failedClose' = IF why[e] = "close" THEN failedClose \union {e} ELSE failedClose
  /\ out' = [out EXCEPT ![e] = <<>>]
  /\ why' = [why EXCEPT ![e] = "write"]
  /\ UNCHANGED <<stuck, iopen, oopen, iclosed, oclosed, abandoned, unread, readVars, sockVars,
                 written, got, eof, signals>>

(* output ends in an exception: the buffer stays as it was.                *)
OutputRaises(e) ==
  /\ opc' = [opc EXCEPT ![e] = "user"]
  /\ torn' = IF out[e] # outbuf[e] THEN torn \union {e} ELSE torn
  /\ failedClose' = IF why[e] = "close" THEN failedClose \union {e} ELSE failedClose
  /\ out' = [out EXCEPT ![e] = <<>>]
  /\ why' = [why EXCEPT ![e] = "write"]
  /\ UNCHANGED <<stuck, portVars, readVars, sockVars, written, got, eof, signals>>

WriteTimesOut(e) ==
  /\ opc[e] = "wait" /\ Idle /\ WriteTimeout /\ errors < MaxErrors
  /\ errors' = errors + 1
  /\ OutputRaises(e)

SendFails(e) ==
  /\ opc[e] = "send" /\ out[e] # <<>>
  /\ ~fdOpen[e] \/ Lost(e) \/ PeerGone(e)
  /\ UNCHANGED errors
  /\ OutputRaises(e)

(* A close that drops what is buffered.                                    *)
CloseOutputWithoutFlush(e) ==
  /\ oopen[e] /\ opc[e] = "user" /\ Idle
  /\ oopen' = [oopen EXCEPT ![e] = FALSE]
  /\ oclosed' = [oclosed EXCEPT ![e] = TRUE]
  /\ ShutDown(e)
  /\ UNCHANGED <<stuck, iopen, iclosed, abandoned, unread, outbuf, readVars, writeVars, net, pipe,
                 histVars, bounds>>

(* close-output-port: the port counts as closed before it is flushed.      *)
CloseOutput(e) ==
  /\ oopen[e] /\ opc[e] = "user" /\ Idle
  /\ oopen' = [oopen EXCEPT ![e] = FALSE]
  /\ oclosed' = [oclosed EXCEPT ![e] = TRUE]
  /\ \/ outbuf[e] # <<>> /\ Output(e, outbuf[e], "close") /\ UNCHANGED <<stuck, fdOpen, shut>>
     \/ outbuf[e] = <<>> /\ ShutDown(e) /\ UNCHANGED writeVars
  /\ UNCHANGED <<stuck, iopen, iclosed, abandoned, unread, outbuf, readVars, net, pipe, histVars, bounds>>

(* tcp-abandon-port                                                        *)
AbandonPort(e) ==
  /\ oopen[e] /\ opc[e] = "user" /\ Idle
  /\ abandoned' = [abandoned EXCEPT ![e] = TRUE]
  /\ UNCHANGED <<stuck, iopen, oopen, iclosed, oclosed, unread, outbuf, readVars, writeVars, sockVars,
                 histVars, bounds>>

(* What a program does with the ports, and what the ports then do.         *)
UseStep(e) ==
  \/ \E n \in 1 .. 2 : StartRead(e, n) \/ Write(e, n)
  \/ ReadBuffered(e) \/ Flush(e) \/ CloseInput(e) \/ CloseOutput(e) \/ AbandonPort(e)

ReadStep(e) ==
  \/ Take(e) \/ Recv(e) \/ RecvEof(e) \/ RecvWait(e) \/ ReadWoken(e) \/ RecvFails(e)

WriteStep(e) ==
  Send(e) \/ SendWait(e) \/ SendWoken(e) \/ OutputReturns(e) \/ SendFails(e)

PortsStep ==
  \E e \in Ends :
    UseStep(e) \/ ReadStep(e) \/ WriteStep(e) \/ ReadTimesOut(e) \/ WriteTimesOut(e)
=============================================================================
