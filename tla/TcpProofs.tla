----------------------------- MODULE TcpProofs -----------------------------
(***************************************************************************)
(* Theorems about module Tcp, for any connections, accepting threads,      *)
(* buffer sizes, timeouts and bounds.                                      *)
(***************************************************************************)
EXTENDS Tcp, FiniteSetTheorems, SequenceTheorems, TLAPS

(* What ports and sockets are: open, closed, shut down, or read to the end.*)
FlagTypes ==
  /\ iopen \in [Ends -> BOOLEAN] /\ oopen \in [Ends -> BOOLEAN]
  /\ iclosed \in [Ends -> BOOLEAN] /\ oclosed \in [Ends -> BOOLEAN]
  /\ fdOpen \in [Ends -> BOOLEAN] /\ shut \in [Ends -> BOOLEAN] /\ eof \in [Ends -> BOOLEAN]

(* Bytes, and how many.                                                    *)
ByteTypes ==
  /\ unread \in [Ends -> Seq(Nat)] /\ outbuf \in [Ends -> Seq(Nat)]
  /\ taken \in [Ends -> Seq(Nat)] /\ out \in [Ends -> Seq(Nat)]
  /\ pipe \in [Ends -> Seq(Nat)] /\ got \in [Ends -> Seq(Nat)]
  /\ want \in [Ends -> Nat] /\ written \in [Ends -> Nat]

(* Where threads are in their calls, and connections in the kernel.        *)
CallTypes ==
  /\ ipc \in [Ends -> {"user", "read", "wait"}]
  /\ opc \in [Ends -> {"user", "send", "wait"}]
  /\ why \in [Ends -> {"write", "flush", "close"}]
  /\ torn \subseteq Ends /\ failedClose \subseteq Ends
  /\ net \in [Conns -> {"none", "syn", "queued", "accepted", "refused", "reset"}]
  /\ cpc \in [Conns -> {"user", "wait", "woken", "failed", "ports"}]
  /\ backlog \in Seq(Conns)

(* All of it: the type invariant.                                          *)
Types == FlagTypes /\ ByteTypes /\ CallTypes

-----------------------------------------------------------------------------
(* Ends, and pieces of sequences.                                          *)

(* The two ends of a connection are each other's peers.                    *)
LEMMA EndsOfConns ==
  /\ \A e \in Ends : /\ Peer(e) \in Ends /\ Peer(Peer(e)) = e /\ Peer(e) # e
                     /\ e[1] \in Conns /\ e[2] \in Sides
                     /\ e = Client(e[1]) \/ e = Server(e[1])
  /\ \A k \in Conns : /\ Client(k) \in Ends /\ Server(k) \in Ends
                      /\ Client(k)[1] = k /\ Server(k)[1] = k
                      /\ \A m \in Conns : Client(k) # Server(m)
                      /\ \A m \in Conns : Client(k) = Client(m) \/ Server(k) = Server(m) => k = m
BY DEF Ends, Sides, Peer, Client, Server

(* The least of two numbers, and of three.                                 *)
LEMMA LeastOf ==
  ASSUME NEW a \in Nat, NEW b \in Nat
  PROVE  Least({a, b}) \in {a, b} /\ Least({a, b}) <= a /\ Least({a, b}) <= b
<1>1. \E n \in {a, b} : \A m \in {a, b} : n <= m
  OBVIOUS
<1> QED
  BY <1>1 DEF Least

(* The same of three.                                                      *)
LEMMA LeastOfThree ==
  ASSUME NEW a \in Nat, NEW b \in Nat, NEW c \in Nat
  PROVE  /\ Least({a, b, c}) \in {a, b, c}
         /\ Least({a, b, c}) <= a /\ Least({a, b, c}) <= b /\ Least({a, b, c}) <= c
<1>1. \E n \in {a, b, c} : \A m \in {a, b, c} : n <= m
  OBVIOUS
<1> QED
  BY <1>1 DEF Least

(* The two pieces of a sequence that is cut are the sequence.              *)
LEMMA Pieces ==
  ASSUME NEW s \in Seq(Nat), NEW n \in 0 .. Len(s)
  PROVE  /\ SubSeq(s, 1, n) \in Seq(Nat) /\ SubSeq(s, n + 1, Len(s)) \in Seq(Nat)
         /\ Len(SubSeq(s, 1, n)) = n /\ Len(SubSeq(s, n + 1, Len(s))) = Len(s) - n
         /\ SubSeq(s, 1, n) \o SubSeq(s, n + 1, Len(s)) = s
<1>1. Len(s) \in Nat /\ n \in Nat /\ n <= Len(s) /\ \A i \in 1 .. Len(s) : s[i] \in Nat
  BY LenProperties, ElementOfSeq
<1>2. \A i \in 1 .. n : s[i] \in Nat
  BY <1>1
<1>3. \A i \in n + 1 .. Len(s) : s[i] \in Nat
  BY <1>1
<1>4. SubSeq(s, 1, n) \in Seq(Nat) /\ Len(SubSeq(s, 1, n)) = IF 1 <= n THEN n - 1 + 1 ELSE 0
  BY <1>1, <1>2, SubSeqProperties
<1>5. /\ SubSeq(s, n + 1, Len(s)) \in Seq(Nat)
      /\ Len(SubSeq(s, n + 1, Len(s))) = IF n + 1 <= Len(s) THEN Len(s) - (n + 1) + 1 ELSE 0
  BY <1>1, <1>3, SubSeqProperties
<1>6. SubSeq(s, 1, n) \o SubSeq(s, n + 1, Len(s)) = SubSeq(s, 1, Len(s))
  <2>1. 1 \in 1 .. Len(s) + 1 /\ n \in 1 - 1 .. Len(s) /\ Len(s) \in n .. Len(s)
    BY <1>1
  <2> QED
    BY <2>1, ConcatAdjacentSubSeq
<1>7. SubSeq(s, 1, Len(s)) = s
  BY SubSeqFull
<1>8. (IF 1 <= n THEN n - 1 + 1 ELSE 0) = n
  BY <1>1
<1>9. (IF n + 1 <= Len(s) THEN Len(s) - (n + 1) + 1 ELSE 0) = Len(s) - n
  BY <1>1
<1>10. Len(SubSeq(s, 1, n)) = n
  BY <1>4, <1>8
<1>11. Len(SubSeq(s, n + 1, Len(s))) = Len(s) - n
  BY <1>5, <1>9
<1> QED
  BY <1>4, <1>5, <1>6, <1>7, <1>10, <1>11, Zenon

(* Writing n more bytes after w of them.                                   *)
LEMMA MoreBytes ==
  ASSUME NEW w \in Nat, NEW n \in Nat
  PROVE  /\ Upto(w) \in Seq(Nat) /\ SubSeq(Upto(w + n), w + 1, w + n) \in Seq(Nat)
         /\ Upto(w) \o SubSeq(Upto(w + n), w + 1, w + n) = Upto(w + n)
<1>1. \A m \in Nat : Upto(m) \in Seq(Nat) /\ Len(Upto(m)) = m
  BY DEF Upto
<1>2. w + n \in Nat /\ w \in 0 .. Len(Upto(w + n)) /\ Len(Upto(w + n)) = w + n
  BY <1>1
<1>3. /\ SubSeq(Upto(w + n), 1, w) \o SubSeq(Upto(w + n), w + 1, w + n) = Upto(w + n)
      /\ SubSeq(Upto(w + n), w + 1, w + n) \in Seq(Nat)
  BY <1>1, <1>2, Pieces
<1>4. SubSeq(Upto(w + n), 1, w) = Upto(w)
  BY <1>1, <1>2 DEF Upto
<1> QED
  BY <1>1, <1>3, <1>4

-----------------------------------------------------------------------------
(* Types.                                                                  *)

(* The types are right at first.                                           *)
LEMMA TypesInit == Init => Types
BY EndsOfConns DEF Init, PortsInit, Types, FlagTypes, ByteTypes, CallTypes

(* The steps that open or close something, or come to the end of a file.   *)
FlagStep ==
  \/ \E k \in Conns : Connect(k) \/ ConnectReturns(k) \/ ConnectFails(k)
  \/ \E a \in Acceptors : AcceptReturns(a)
  \/ \E e \in Ends : CloseInput(e) \/ CloseOutput(e) \/ OutputReturns(e) \/ RecvEof(e)

(* No other step opens or closes anything.                                 *)
LEMMA OtherFlags ==
  ASSUME [Next]_vars
  PROVE  FlagStep \/ UNCHANGED <<iopen, oopen, iclosed, oclosed, fdOpen, shut, eof>>
<1> USE DEF setupVars, ioVars, portVars, readVars, writeVars, sockVars, histVars, bounds
<1>1. ASSUME NEW e \in Ends,
             UseStep(e) \/ ReadStep(e) \/ WriteStep(e) \/ ReadTimesOut(e) \/ WriteTimesOut(e)
      PROVE  FlagStep \/ UNCHANGED <<iopen, oopen, iclosed, oclosed, fdOpen, shut, eof>>
  BY <1>1 DEF FlagStep, UseStep, ReadStep, WriteStep, StartRead, Write, ReadBuffered, Flush,
     AbandonPort, Take, Recv, RecvWait, ReadWoken, RecvFails, ReadTimesOut, ReadRaises,
     Send, SendWait, SendWoken, SendFails, WriteTimesOut, OutputRaises
<1>2. ASSUME NEW k \in Conns, ConnectStep(k) \/ Handshake(k) \/ Refuse(k)
      PROVE  FlagStep \/ UNCHANGED <<iopen, oopen, iclosed, oclosed, fdOpen, shut, eof>>
  BY <1>2 DEF FlagStep, ConnectStep, ConnectWoken, Handshake, Refuse
<1>3. ASSUME NEW a \in Acceptors, AcceptStep(a)
      PROVE  FlagStep \/ UNCHANGED <<iopen, oopen, iclosed, oclosed, fdOpen, shut, eof>>
  BY <1>3 DEF FlagStep, AcceptStep, Accept, AcceptBlocks, AcceptInterrupted, AcceptFails
<1>4. CASE AcceptWoken \/ CloseListener \/ UNCHANGED vars
  BY <1>4 DEF AcceptWoken, CloseListener, vars
<1> QED
  BY <1>1, <1>2, <1>3, <1>4 DEF Next, PortsStep

(* Every step keeps the types of the flags.                                *)
LEMMA FlagTypesStep ==
  ASSUME Types, [Next]_vars
  PROVE  FlagTypes'
<1> USE DEF setupVars, ioVars, portVars, readVars, writeVars, sockVars, histVars, bounds
<1>0. FlagTypes
  BY DEF Types
<1>1. ASSUME NEW k \in Conns, Connect(k) \/ ConnectReturns(k) \/ ConnectFails(k)
      PROVE  FlagTypes'
  BY <1>0, <1>1 DEF Connect, ConnectReturns, OpenPorts, ConnectFails, FlagTypes
<1>2. ASSUME NEW a \in Acceptors, AcceptReturns(a) PROVE FlagTypes'
  BY <1>0, <1>2 DEF AcceptReturns, FlagTypes
<1>3. ASSUME NEW e \in Ends, CloseInput(e) PROVE FlagTypes'
  BY <1>0, <1>3 DEF CloseInput, FlagTypes
<1>4. ASSUME NEW e \in Ends, CloseOutput(e) \/ OutputReturns(e) PROVE FlagTypes'
  BY <1>0, <1>4 DEF CloseOutput, OutputReturns, ShutDown, FlagTypes
<1>5. ASSUME NEW e \in Ends, RecvEof(e) PROVE FlagTypes'
  BY <1>0, <1>5 DEF RecvEof, FlagTypes
<1>6. CASE UNCHANGED <<iopen, oopen, iclosed, oclosed, fdOpen, shut, eof>>
  BY <1>0, <1>6 DEF FlagTypes
<1> QED
  BY <1>1, <1>2, <1>3, <1>4, <1>5, <1>6, OtherFlags DEF FlagStep

(* The steps that move bytes.                                              *)
ByteStep ==
  \E e \in Ends :
    \/ \E n \in 1 .. 2 : StartRead(e, n) \/ Write(e, n)
    \/ ReadBuffered(e) \/ Take(e) \/ Recv(e) \/ RecvEof(e) \/ RecvFails(e) \/ ReadTimesOut(e)
    \/ Flush(e) \/ CloseOutput(e) \/ Send(e) \/ OutputReturns(e) \/ SendFails(e)
    \/ WriteTimesOut(e)

(* What those steps change.                                                *)
byteVars == <<unread, outbuf, taken, out, pipe, got, want, written>>

(* No other step moves bytes.                                              *)
LEMMA OtherBytes ==
  ASSUME [Next]_vars
  PROVE  ByteStep \/ UNCHANGED byteVars
<1> USE DEF setupVars, ioVars, portVars, readVars, writeVars, sockVars, histVars, bounds, byteVars
<1>1. ASSUME NEW e \in Ends,
             UseStep(e) \/ ReadStep(e) \/ WriteStep(e) \/ ReadTimesOut(e) \/ WriteTimesOut(e)
      PROVE  ByteStep \/ UNCHANGED byteVars
  BY <1>1 DEF ByteStep, UseStep, ReadStep, WriteStep, CloseInput,
     AbandonPort, RecvWait, ReadWoken, SendWait, SendWoken
<1>2. ASSUME NEW k \in Conns, ConnectStep(k) \/ Handshake(k) \/ Refuse(k)
      PROVE  UNCHANGED byteVars
  BY <1>2 DEF ConnectStep, Connect, ConnectWoken, ConnectReturns, OpenPorts, ConnectFails,
     Handshake, Refuse
<1>3. ASSUME NEW a \in Acceptors, AcceptStep(a)
      PROVE  UNCHANGED byteVars
  BY <1>3 DEF AcceptStep, Accept, AcceptReturns, AcceptBlocks, AcceptInterrupted, AcceptFails
<1>4. CASE AcceptWoken \/ CloseListener \/ UNCHANGED vars
  BY <1>4 DEF AcceptWoken, CloseListener, vars
<1> QED
  BY <1>1, <1>2, <1>3, <1>4 DEF Next, PortsStep

(* What the steps that copy bytes do to them: s is what goes first, and r  *)
(* what remains.                                                           *)
Takes(e, s, r) ==
  /\ unread[e] = s \o r /\ Len(s) <= want[e] /\ Len(r) <= Len(unread[e])
  /\ unread' = [unread EXCEPT ![e] = r]
  /\ want' = [want EXCEPT ![e] = @ - Len(s)]
  /\ \/ /\ ipc' = [ipc EXCEPT ![e] = "user"]
        /\ got' = [got EXCEPT ![e] = @ \o (taken[e] \o s)]
        /\ taken' = [taken EXCEPT ![e] = <<>>]
     \/ /\ ipc' = [ipc EXCEPT ![e] = "read"]
        /\ got' = [got EXCEPT ![e] = @]
        /\ taken' = [taken EXCEPT ![e] = taken[e] \o s]
  /\ UNCHANGED <<outbuf, out, pipe, written, opc, torn>>

(* read-char and its like take what they want from the input buffer, or    *)
(* all there is.                                                           *)
LEMMA TakeBytes ==
  ASSUME Types, NEW e \in Ends, Take(e)
  PROVE  \E s \in Seq(Nat), r \in Seq(Nat) : Takes(e, s, r)
<1> DEFINE n == Least({want[e], Len(unread[e])})
           s == SubSeq(unread[e], 1, n)
           r == SubSeq(unread[e], n + 1, Len(unread[e]))
<1>1. /\ unread[e] \in Seq(Nat) /\ want[e] \in Nat /\ Len(unread[e]) \in Nat
  BY LenProperties DEF Types, ByteTypes
<1>2. n \in 0 .. Len(unread[e]) /\ n <= want[e]
  BY <1>1, LeastOf
<1>3. /\ s \in Seq(Nat) /\ r \in Seq(Nat) /\ s \o r = unread[e]
      /\ Len(s) = n /\ Len(r) = Len(unread[e]) - n
  BY <1>1, <1>2, Pieces
<1>4. /\ unread' = [unread EXCEPT ![e] = r]
      /\ want' = [want EXCEPT ![e] = @ - n]
      /\ taken' = [taken EXCEPT ![e] = IF n = want[e] THEN <<>> ELSE taken[e] \o s]
      /\ got' = [got EXCEPT ![e] = IF n = want[e] THEN @ \o (taken[e] \o s) ELSE @]
      /\ ipc' = [ipc EXCEPT ![e] = IF n = want[e] THEN "user" ELSE "read"]
  BY DEF Take
<1>5. UNCHANGED <<outbuf, out, pipe, written, opc, torn>>
  BY DEF Take, writeVars, sockVars
<1> HIDE DEF n, s, r
<1>6. \/ /\ ipc' = [ipc EXCEPT ![e] = "user"]
         /\ got' = [got EXCEPT ![e] = @ \o (taken[e] \o s)]
         /\ taken' = [taken EXCEPT ![e] = <<>>]
      \/ /\ ipc' = [ipc EXCEPT ![e] = "read"]
         /\ got' = [got EXCEPT ![e] = @]
         /\ taken' = [taken EXCEPT ![e] = taken[e] \o s]
  BY <1>4
<1>7. Len(s) <= want[e] /\ Len(r) <= Len(unread[e]) /\ want' = [want EXCEPT ![e] = @ - Len(s)]
  BY <1>1, <1>2, <1>3, <1>4
<1>8. Takes(e, s, r)
  BY <1>3, <1>4, <1>5, <1>6, <1>7 DEF Takes
<1> QED
  BY <1>3, <1>8

(* recv fills the empty input buffer from the pipe.                        *)
Receives(e, s, r) ==
  /\ unread[e] = <<>> /\ pipe[Peer(e)] = s \o r /\ Len(s) <= InBufSize
  /\ unread' = [unread EXCEPT ![e] = s]
  /\ pipe' = [pipe EXCEPT ![Peer(e)] = r]
  /\ UNCHANGED <<outbuf, taken, out, got, want, written, ipc, opc, torn>>

(* recv takes the beginning of what is in the pipe.                        *)
LEMMA RecvBytes ==
  ASSUME Types, NEW e \in Ends, Recv(e)
  PROVE  \E s \in Seq(Nat), r \in Seq(Nat) : Receives(e, s, r)
<1> DEFINE p == pipe[Peer(e)]
<1>1. p \in Seq(Nat) /\ Len(p) \in Nat
  BY EndsOfConns, LenProperties DEF Types, ByteTypes
<1>2. PICK n \in 1 .. Least({InBufSize, Len(p)}) :
        /\ unread' = [unread EXCEPT ![e] = SubSeq(p, 1, n)]
        /\ pipe' = [pipe EXCEPT ![Peer(e)] = SubSeq(p, n + 1, Len(p))]
  BY DEF Recv
<1> HIDE DEF p
<1>3. Least({InBufSize, Len(p)}) \in Nat /\ Least({InBufSize, Len(p)}) <= Len(p)
      /\ Least({InBufSize, Len(p)}) <= InBufSize
  BY <1>1, LeastOf, BufferAssumption
<1>4. n \in 0 .. Len(p) /\ n <= InBufSize
  BY <1>1, <1>3, BufferAssumption
<1>5. /\ SubSeq(p, 1, n) \in Seq(Nat) /\ SubSeq(p, n + 1, Len(p)) \in Seq(Nat)
      /\ SubSeq(p, 1, n) \o SubSeq(p, n + 1, Len(p)) = p /\ Len(SubSeq(p, 1, n)) = n
  BY <1>1, <1>4, Pieces
<1>6. unread[e] = <<>>
  BY DEF Recv
<1>7. Len(SubSeq(p, 1, n)) <= InBufSize
  BY <1>4, <1>5
<1>8. UNCHANGED <<outbuf, taken, out, got, want, written, ipc, opc, torn>>
  BY DEF Recv, writeVars, readVars, histVars
<1>9. Receives(e, SubSeq(p, 1, n), SubSeq(p, n + 1, Len(p)))
  BY <1>2, <1>5, <1>6, <1>7, <1>8 DEF Receives, p
<1> QED
  BY <1>5, <1>9

(* send passes on the beginning of what is to go out.                      *)
Sends(e, s, r) ==
  /\ out[e] = s \o r
  /\ pipe' = [pipe EXCEPT ![e] = @ \o s]
  /\ out' = [out EXCEPT ![e] = r]
  /\ UNCHANGED <<unread, outbuf, taken, got, want, written, ipc, opc, torn>>

(* send takes at most a chunk, and at most what the pipe has room for.     *)
LEMMA SendBytes ==
  ASSUME Types, NEW e \in Ends, Send(e)
  PROVE  \E s \in Seq(Nat), r \in Seq(Nat) : Sends(e, s, r)
<1> DEFINE p == out[e]
<1>1. p \in Seq(Nat) /\ Len(p) \in Nat /\ pipe[e] \in Seq(Nat) /\ Len(pipe[e]) \in Nat
  BY LenProperties DEF Types, ByteTypes
<1>2. PICK n \in 1 .. Least({ChunkSize, Len(p), PipeSize - Len(pipe[e])}) :
        /\ pipe' = [pipe EXCEPT ![e] = @ \o SubSeq(p, 1, n)]
        /\ out' = [out EXCEPT ![e] = SubSeq(p, n + 1, Len(p))]
  BY DEF Send
<1> DEFINE room == PipeSize - Len(pipe[e])
<1>3. room \in Nat /\ ChunkSize \in Nat
  BY <1>1, BufferAssumption DEF Send
<1> HIDE DEF p, room
<1>4. Least({ChunkSize, Len(p), room}) \in Nat /\ Least({ChunkSize, Len(p), room}) <= Len(p)
  BY <1>1, <1>3, LeastOfThree
<1>5. n \in 0 .. Len(p)
  BY <1>1, <1>4 DEF room
<1>6. /\ SubSeq(p, 1, n) \in Seq(Nat) /\ SubSeq(p, n + 1, Len(p)) \in Seq(Nat)
      /\ SubSeq(p, 1, n) \o SubSeq(p, n + 1, Len(p)) = p
  BY <1>1, <1>5, Pieces
<1>7. UNCHANGED <<unread, outbuf, taken, got, want, written, ipc, opc, torn>>
  BY DEF Send, portVars, readVars, histVars
<1>8. Sends(e, SubSeq(p, 1, n), SubSeq(p, n + 1, Len(p)))
  BY <1>2, <1>6, <1>7 DEF Sends, p
<1> QED
  BY <1>6, <1>8

(* n bytes are written, into the buffer or, with what is in it, on their   *)
(* way.                                                                    *)
Writes(e, n, s) ==
  /\ Upto(written[e]) \o s = Upto(written[e] + n)
  /\ written' = [written EXCEPT ![e] = @ + n]
  /\ \/ outbuf' = [outbuf EXCEPT ![e] = outbuf[e] \o s]
     \/ outbuf' = outbuf
  /\ opc[e] = "user"
  /\ \/ /\ out' = [out EXCEPT ![e] = outbuf[e] \o s]
        /\ opc' = [opc EXCEPT ![e] = "send"]
     \/ /\ UNCHANGED <<out, opc>>
        /\ outbuf' = [outbuf EXCEPT ![e] = outbuf[e] \o s]
  /\ UNCHANGED <<unread, taken, pipe, got, want, ipc, torn>>

(* A write appends the bytes after the last one written, whether they stay *)
(* in the buffer or not.                                                   *)
LEMMA WriteBytes ==
  ASSUME Types, NEW e \in Ends, NEW n \in 1 .. 2, Write(e, n)
  PROVE  \E s \in Seq(Nat) : Writes(e, n, s)
<1> DEFINE s == SubSeq(Upto(written[e] + n), written[e] + 1, written[e] + n)
<1>1. outbuf \in [Ends -> Seq(Nat)] /\ written \in [Ends -> Nat] /\ OutBufSize \in Nat
  BY BufferAssumption DEF Types, ByteTypes
<1>2. s \in Seq(Nat) /\ Upto(written[e]) \o s = Upto(written[e] + n)
  <2>1. written[e] \in Nat /\ n \in Nat
    BY <1>1
  <2> QED
    BY <2>1, MoreBytes
<1>3. /\ written' = [written EXCEPT ![e] = @ + n]
      /\ outbuf' = [outbuf EXCEPT ![e] = IF OutBufSize = 0 THEN @ ELSE outbuf[e] \o s]
      /\ \/ Output(e, outbuf[e] \o s, "write")
         \/ Len(outbuf[e] \o s) < OutBufSize /\ UNCHANGED writeVars
  BY DEF Write
<1> HIDE DEF s
<1>5. Len(outbuf[e] \o s) \in Nat
  BY <1>1, <1>2, ConcatProperties, LenProperties
<1>6. OutBufSize = 0 => outbuf' = outbuf /\ ~(Len(outbuf[e] \o s) < OutBufSize)
  BY <1>1, <1>3, <1>5
<1>7. opc[e] = "user" /\ UNCHANGED <<unread, taken, pipe, got, want, ipc, torn>>
  BY DEF Write, readVars, sockVars
<1>8. Writes(e, n, s)
  BY <1>2, <1>3, <1>6, <1>7 DEF Writes, Output, writeVars
<1> QED
  BY <1>2, <1>8

(* The kinds of steps that move bytes: those of a read, ...                *)
LEMMA ByteTypesRead ==
  ASSUME Types, NEW e \in Ends,
         \/ \E n \in 1 .. 2 : StartRead(e, n)
         \/ ReadBuffered(e) \/ Take(e) \/ Recv(e) \/ RecvEof(e) \/ RecvFails(e) \/ ReadTimesOut(e)
  PROVE  ByteTypes'
<1> USE DEF setupVars, ioVars, portVars, readVars, writeVars, sockVars, histVars, bounds
<1>0. ByteTypes /\ Peer(e) \in Ends /\ <<>> \in Seq(Nat)
  BY EndsOfConns DEF Types
<1>c. \A s \in Seq(Nat), r \in Seq(Nat) : s \o r \in Seq(Nat)
  BY ConcatProperties
<1>1. ASSUME NEW n \in 1 .. 2, StartRead(e, n) PROVE ByteTypes'
  <2>1. UNCHANGED <<unread, outbuf, taken, out, pipe, got, written>> /\ want' = [want EXCEPT ![e] = n]
    BY <1>1 DEF StartRead
  <2>2. n \in Nat
    OBVIOUS
  <2> QED
    BY <1>0, <2>1, <2>2 DEF ByteTypes
<1>2. CASE ReadBuffered(e)
  <2>1. /\ UNCHANGED <<outbuf, taken, out, pipe, want, written>>
        /\ got' = [got EXCEPT ![e] = @ \o unread[e]] /\ unread' = [unread EXCEPT ![e] = <<>>]
    BY <1>2 DEF ReadBuffered
  <2>2. got[e] \o unread[e] \in Seq(Nat)
    BY <1>0, <1>c DEF ByteTypes
  <2> QED
    BY <1>0, <2>1, <2>2 DEF ByteTypes
<1>3. CASE Take(e)
  <2>1. PICK s \in Seq(Nat), r \in Seq(Nat) : Takes(e, s, r)
    BY <1>3, TakeBytes
  <2>2. taken[e] \in Seq(Nat) /\ got[e] \in Seq(Nat) /\ want[e] \in Nat /\ Len(s) \in Nat
    BY <1>0, LenProperties DEF ByteTypes
  <2>3. taken[e] \o s \in Seq(Nat) /\ got[e] \o (taken[e] \o s) \in Seq(Nat)
    BY <1>c, <2>2
  <2>4. want[e] - Len(s) \in Nat
    BY <2>1, <2>2 DEF Takes
  <2>5. /\ unread' = [unread EXCEPT ![e] = r] /\ want' = [want EXCEPT ![e] = want[e] - Len(s)]
        /\ \/ got' = [got EXCEPT ![e] = got[e] \o (taken[e] \o s)]
           \/ got' = [got EXCEPT ![e] = got[e]]
        /\ \/ taken' = [taken EXCEPT ![e] = <<>>]
           \/ taken' = [taken EXCEPT ![e] = taken[e] \o s]
        /\ UNCHANGED <<outbuf, out, pipe, written>>
    BY <2>1 DEF Takes
  <2> QED
    BY <1>0, <2>2, <2>3, <2>4, <2>5 DEF ByteTypes
<1>4. CASE Recv(e)
  <2>1. PICK s \in Seq(Nat), r \in Seq(Nat) : Receives(e, s, r)
    BY <1>4, RecvBytes
  <2> QED
    BY <1>0, <2>1 DEF Receives, ByteTypes
<1>5. CASE RecvEof(e)
  <2>1. /\ UNCHANGED <<unread, outbuf, out, pipe, written>>
        /\ got' = [got EXCEPT ![e] = @ \o taken[e]] /\ taken' = [taken EXCEPT ![e] = <<>>]
        /\ want' = [want EXCEPT ![e] = 0]
    BY <1>5 DEF RecvEof
  <2>2. got[e] \o taken[e] \in Seq(Nat)
    BY <1>0, <1>c DEF ByteTypes
  <2> QED
    BY <1>0, <2>1, <2>2 DEF ByteTypes
<1>6. CASE RecvFails(e) \/ ReadTimesOut(e)
  <2>1. /\ UNCHANGED <<unread, outbuf, out, pipe, got, written>>
        /\ want' = [want EXCEPT ![e] = 0] /\ taken' = [taken EXCEPT ![e] = <<>>]
    BY <1>6 DEF RecvFails, ReadTimesOut, ReadRaises
  <2> QED
    BY <1>0, <2>1 DEF ByteTypes
<1> QED
  BY <1>1, <1>2, <1>3, <1>4, <1>5, <1>6

(* ... and those of a write.                                               *)
LEMMA ByteTypesWrite ==
  ASSUME Types, NEW e \in Ends,
         \/ \E n \in 1 .. 2 : Write(e, n)
         \/ Flush(e) \/ CloseOutput(e) \/ Send(e) \/ OutputReturns(e) \/ SendFails(e)
         \/ WriteTimesOut(e)
  PROVE  ByteTypes'
<1> USE DEF setupVars, ioVars, portVars, readVars, writeVars, sockVars, histVars, bounds
<1>0. ByteTypes /\ <<>> \in Seq(Nat)
  BY DEF Types
<1>c. \A s \in Seq(Nat), r \in Seq(Nat) : s \o r \in Seq(Nat)
  BY ConcatProperties
<1>1. ASSUME NEW n \in 1 .. 2, Write(e, n) PROVE ByteTypes'
  <2>1. PICK s \in Seq(Nat) : Writes(e, n, s)
    BY <1>1, WriteBytes
  <2>2. outbuf[e] \o s \in Seq(Nat) /\ n \in Nat
    BY <1>0, <1>c DEF ByteTypes
  <2>3. UNCHANGED <<unread, taken, pipe, got, want>>
    BY <2>1 DEF Writes
  <2>4. outbuf' \in [Ends -> Seq(Nat)]
    BY <1>0, <2>1, <2>2 DEF Writes, ByteTypes
  <2>5. out' \in [Ends -> Seq(Nat)]
    BY <1>0, <2>1, <2>2 DEF Writes, ByteTypes
  <2>6. written' \in [Ends -> Nat]
    BY <1>0, <2>1, <2>2 DEF Writes, ByteTypes
  <2> QED
    BY <1>0, <2>3, <2>4, <2>5, <2>6 DEF ByteTypes
<1>2. CASE Flush(e) \/ CloseOutput(e)
  BY <1>0, <1>2 DEF Flush, CloseOutput, Output, ByteTypes
<1>3. CASE Send(e)
  <2>1. PICK s \in Seq(Nat), r \in Seq(Nat) : Sends(e, s, r)
    BY <1>3, SendBytes
  <2>2. pipe[e] \o s \in Seq(Nat)
    BY <1>0, <1>c DEF ByteTypes
  <2> QED
    BY <1>0, <2>1, <2>2 DEF Sends, ByteTypes
<1>4. CASE OutputReturns(e)
  BY <1>0, <1>4 DEF OutputReturns, ByteTypes
<1>5. CASE SendFails(e) \/ WriteTimesOut(e)
  BY <1>0, <1>5 DEF SendFails, WriteTimesOut, OutputRaises, ByteTypes
<1> QED
  BY <1>1, <1>2, <1>3, <1>4, <1>5

(* Every step keeps the types of the bytes.                                *)
LEMMA ByteTypesStep ==
  ASSUME Types, [Next]_vars
  PROVE  ByteTypes'
<1>1. CASE ByteStep
  BY <1>1, ByteTypesRead, ByteTypesWrite DEF ByteStep
<1>2. CASE UNCHANGED byteVars
  BY <1>2 DEF Types, ByteTypes, byteVars
<1> QED
  BY <1>1, <1>2, OtherBytes

(* Where a step leaves threads and connections.                            *)
LEMMA CallTypesStep ==
  ASSUME Types, [Next]_vars
  PROVE  CallTypes'
<1> USE DEF setupVars, ioVars, portVars, readVars, writeVars, sockVars, histVars, bounds
<1>0. CallTypes /\ \A e \in Ends : Peer(e) \in Ends
  BY EndsOfConns DEF Types
<1>1. ASSUME NEW e \in Ends, UseStep(e), UNCHANGED setupVars PROVE CallTypes'
  <2>1. CASE CloseInput(e) \/ CloseOutput(e) \/ AbandonPort(e) \/ ReadBuffered(e) \/ Flush(e)
    <3>1. UNCHANGED <<ipc, failedClose, net, cpc, backlog>> /\ torn' \in {torn, torn \union {e}}
      BY <1>1, <2>1 DEF CloseInput, CloseOutput, ReadBuffered, Flush, AbandonPort
    <3>2. /\ opc' = opc \/ opc' = [opc EXCEPT ![e] = "send"]
          /\ \/ why' = why
             \/ why' = [why EXCEPT ![e] = "flush"] \/ why' = [why EXCEPT ![e] = "close"]
      BY <1>1, <2>1 DEF CloseInput, CloseOutput, ReadBuffered, Flush, AbandonPort, Output
    <3> QED
      BY <1>0, <3>1, <3>2 DEF CallTypes
  <2>2. ASSUME NEW n \in 1 .. 2, StartRead(e, n) \/ Write(e, n) PROVE CallTypes'
    BY <1>0, <1>1, <2>2 DEF StartRead, Write, Output, CallTypes
  <2> QED
    BY <1>1, <2>1, <2>2 DEF UseStep
<1>2. ASSUME NEW e \in Ends, ReadStep(e) \/ ReadTimesOut(e), UNCHANGED setupVars PROVE CallTypes'
  <2>1. CASE Take(e) \/ Recv(e) \/ RecvEof(e) \/ RecvWait(e) \/ ReadWoken(e)
    BY <1>0, <1>2, <2>1 DEF Take, Recv, RecvEof, RecvWait, ReadWoken, CallTypes
  <2>2. CASE RecvFails(e) \/ ReadTimesOut(e)
    BY <1>0, <1>2, <2>2 DEF RecvFails, ReadTimesOut, ReadRaises, CallTypes
  <2> QED
    BY <1>2, <2>1, <2>2 DEF ReadStep
<1>3. ASSUME NEW e \in Ends, WriteStep(e) \/ WriteTimesOut(e), UNCHANGED setupVars PROVE CallTypes'
  <2>1. CASE Send(e) \/ SendWait(e) \/ SendWoken(e) \/ OutputReturns(e)
    BY <1>0, <1>3, <2>1 DEF Send, SendWait, SendWoken, OutputReturns, CallTypes
  <2>2. CASE SendFails(e) \/ WriteTimesOut(e)
    BY <1>0, <1>3, <2>2 DEF SendFails, WriteTimesOut, OutputRaises, CallTypes
  <2> QED
    BY <1>3, <2>1, <2>2 DEF WriteStep
<1>4. ASSUME NEW k \in Conns, ConnectStep(k) \/ Handshake(k) \/ Refuse(k) PROVE CallTypes'
  <2>1. Append(backlog, k) \in Seq(Conns)
    BY <1>0, AppendProperties DEF CallTypes
  <2>2. CASE Connect(k) \/ Handshake(k)
    BY <1>0, <2>1, <2>2 DEF Connect, Handshake, CallTypes
  <2>3. CASE ConnectWoken(k) \/ ConnectReturns(k) \/ ConnectFails(k) \/ Refuse(k)
    BY <1>0, <2>3 DEF ConnectWoken, ConnectReturns, OpenPorts, ConnectFails, Refuse, CallTypes
  <2> QED
    BY <1>4, <2>2, <2>3 DEF ConnectStep
<1>5. ASSUME NEW a \in Acceptors, AcceptStep(a) PROVE CallTypes'
  <2>1. CASE AcceptReturns(a)
    <3>1. Head(backlog) \in Conns /\ Tail(backlog) \in Seq(Conns)
      BY <1>0, <2>1, HeadTailProperties DEF AcceptReturns, CallTypes
    <3> QED
      BY <1>0, <2>1, <3>1 DEF AcceptReturns, CallTypes
  <2>2. CASE Accept(a) \/ AcceptBlocks(a) \/ AcceptInterrupted(a) \/ AcceptFails(a)
    BY <1>0, <2>2 DEF Accept, AcceptBlocks, AcceptInterrupted, AcceptFails, CallTypes
  <2> QED
    BY <1>5, <2>1, <2>2 DEF AcceptStep
<1>6. CASE AcceptWoken \/ CloseListener \/ UNCHANGED vars
  <2>1. /\ UNCHANGED <<ipc, opc, why, torn, failedClose, cpc>>
        /\ backlog' = backlog \/ backlog' = <<>>
        /\ \/ net' = net
           \/ net' = [k \in Conns |-> IF net[k] \in {"queued", "syn"} THEN "reset" ELSE net[k]]
    BY <1>6 DEF AcceptWoken, CloseListener, vars
  <2>2. <<>> \in Seq(Conns)
    OBVIOUS
  <2> QED
    BY <1>0, <2>1, <2>2 DEF CallTypes
<1> QED
  BY <1>1, <1>2, <1>3, <1>4, <1>5, <1>6 DEF Next, PortsStep

(* Every step keeps the types.                                             *)
LEMMA TypesStep == Types /\ [Next]_vars => Types'
BY FlagTypesStep, ByteTypesStep, CallTypesStep DEF Types
-----------------------------------------------------------------------------
(* No byte is lost.                                                        *)

(* A call that has returned has handed over, or lost, what it had taken.   *)
TakenOnlyInACall == \A e \in Ends : ipc[e] = "user" => taken[e] = <<>>

(* The bytes written at end e, from those read longest ago.                *)
Stream(e) == got[Peer(e)] \o taken[Peer(e)] \o unread[Peer(e)] \o pipe[e] \o Unsent(e)

(* The bytes written are those read and those on the way, in order.        *)
Streams == \A e \in Ends : e \notin torn => Stream(e) = Upto(written[e])

(* A call takes no more bytes than it was asked for, and recv no more than *)
(* the input buffer holds.                                                 *)
CallsAreShort ==
  \A e \in Ends : Len(taken[e]) + want[e] <= 2 /\ Len(unread[e]) <= InBufSize

(* What happens to the pieces of a stream in the steps that move a byte    *)
(* from one of them to the next.                                           *)
LEMMA Assoc ==
  ASSUME NEW a \in Seq(Nat), NEW b \in Seq(Nat), NEW c \in Seq(Nat)
  PROVE  a \o b \o c = a \o (b \o c)
BY ConcatAssociative

(* Pieces of a stream joined are one.                                      *)
LEMMA Joined ==
  ASSUME NEW a \in Seq(Nat), NEW b \in Seq(Nat)
  PROVE  a \o b \in Seq(Nat)
BY ConcatProperties

(* An empty piece adds nothing to a stream.                                *)
LEMMA EmptyEnd ==
  ASSUME NEW a \in Seq(Nat)
  PROVE  a \o <<>> = a
BY ConcatEmptySeq

(* Bytes that pass from the pipe into an empty input buffer keep their     *)
(* places.                                                                 *)
LEMMA RecvMoves ==
  ASSUME NEW a \in Seq(Nat), NEW s \in Seq(Nat), NEW r \in Seq(Nat)
  PROVE  a \o s \o r = a \o <<>> \o (s \o r)
<1>1. a \o s \o r = a \o (s \o r)
  BY Assoc, Zenon
<1>2. a \o <<>> = a
  BY EmptyEnd, Zenon
<1> QED
  BY <1>1, <1>2, Zenon

(* What of a stream has left the thread that writes it.                    *)
Left(e) == got[Peer(e)] \o taken[Peer(e)] \o unread[Peer(e)] \o pipe[e]

(* The steps that move no byte.                                            *)
LEMMA OtherCalls ==
  ASSUME Types, [Next]_vars
  PROVE  \/ ByteStep
         \/ /\ UNCHANGED byteVars /\ torn \subseteq torn'
            /\ \A e \in Ends : /\ opc'[e] = "user" <=> opc[e] = "user"
                               /\ ipc'[e] = "user" <=> ipc[e] = "user"
<1> USE DEF setupVars, ioVars, portVars, readVars, writeVars, sockVars, histVars, bounds
<1>0. opc \in [Ends -> {"user", "send", "wait"}] /\ ipc \in [Ends -> {"user", "read", "wait"}]
  BY DEF Types, CallTypes
<1>1. ASSUME NEW e \in Ends, CloseInput(e) \/ AbandonPort(e) \/ RecvWait(e) \/ ReadWoken(e)
      PROVE  torn \subseteq torn' /\ opc' = opc
             /\ \A d \in Ends : ipc'[d] = "user" <=> ipc[d] = "user"
  BY <1>0, <1>1 DEF CloseInput, AbandonPort, RecvWait, ReadWoken
<1>2. ASSUME NEW e \in Ends, SendWait(e) \/ SendWoken(e)
      PROVE  torn' = torn /\ ipc' = ipc
             /\ \A d \in Ends : opc'[d] = "user" <=> opc[d] = "user"
  BY <1>0, <1>2 DEF SendWait, SendWoken
<1>3. CASE ~ByteStep /\ PortsStep
  <2>1. \E e \in Ends : \/ CloseInput(e) \/ AbandonPort(e) \/ RecvWait(e) \/ ReadWoken(e)
                       \/ SendWait(e) \/ SendWoken(e)
    BY <1>3 DEF PortsStep, UseStep, ReadStep, WriteStep, ByteStep
  <2> QED
    BY <1>1, <1>2, <1>3, <2>1, OtherBytes
<1>4. ASSUME NEW k \in Conns, ConnectStep(k) \/ Handshake(k) \/ Refuse(k)
      PROVE  UNCHANGED <<ipc, opc, torn>>
  BY <1>4 DEF ConnectStep, Connect, ConnectWoken, ConnectReturns, OpenPorts, ConnectFails,
     Handshake, Refuse
<1>5. ASSUME NEW a \in Acceptors, AcceptStep(a)
      PROVE  UNCHANGED <<ipc, opc, torn>>
  BY <1>5 DEF AcceptStep, Accept, AcceptReturns, AcceptBlocks, AcceptInterrupted, AcceptFails
<1>6. CASE AcceptWoken \/ CloseListener \/ UNCHANGED vars
  <2>1. UNCHANGED <<ipc, opc, torn>>
    BY <1>6 DEF AcceptWoken, CloseListener, vars
  <2> QED
    BY <2>1, OtherBytes
<1> QED
  BY <1>3, <1>4, <1>5, <1>6, OtherBytes DEF Next

(* The pieces of a stream.                                                 *)
LEMMA StreamPieces ==
  ASSUME Types, NEW e \in Ends
  PROVE  /\ got[Peer(e)] \in Seq(Nat) /\ taken[Peer(e)] \in Seq(Nat)
         /\ unread[Peer(e)] \in Seq(Nat) /\ pipe[e] \in Seq(Nat)
         /\ Unsent(e) \in Seq(Nat) /\ written[e] \in Nat
         /\ Stream(e) = Left(e) \o Unsent(e)
BY EndsOfConns DEF Types, ByteTypes, Unsent, Stream, Left

(* A read step, by the thread at end d, moves bytes of the other end.      *)
LEMMA StreamsRead ==
  ASSUME Types, TakenOnlyInACall, Streams, NEW d \in Ends,
         \/ \E n \in 1 .. 2 : StartRead(d, n)
         \/ ReadBuffered(d) \/ Take(d) \/ Recv(d) \/ RecvEof(d) \/ RecvFails(d) \/ ReadTimesOut(d)
  PROVE  Streams'
<1> USE DEF portVars, readVars, writeVars, sockVars, histVars, bounds
<1> SUFFICES ASSUME NEW e \in Ends, e \notin torn'
             PROVE  (Stream(e) = Upto(written[e]))'
  BY DEF Streams
<1>1. UNCHANGED <<written, outbuf, out, opc>> /\ torn \subseteq torn'
  BY DEF StartRead, ReadBuffered, Take, Recv, RecvEof, RecvFails, ReadTimesOut, ReadRaises
<1>2. Stream(e) = Left(e) \o Unsent(e) /\ Stream(e) = Upto(written[e])
  BY <1>1, StreamPieces DEF Streams
<1> SUFFICES Left(e)' = Left(e)
  BY <1>1, <1>2 DEF Stream, Left, Unsent
<1>3. /\ got \in [Ends -> Seq(Nat)] /\ taken \in [Ends -> Seq(Nat)]
      /\ unread \in [Ends -> Seq(Nat)] /\ pipe \in [Ends -> Seq(Nat)]
      /\ d = Peer(e) <=> e = Peer(d)
  BY EndsOfConns DEF Types, ByteTypes
<1>4. CASE d # Peer(e)
  <2>1. got'[Peer(e)] = got[Peer(e)] /\ taken'[Peer(e)] = taken[Peer(e)] /\ unread'[Peer(e)] = unread[Peer(e)]
    <3>1. Peer(e) \in Ends
      BY EndsOfConns
    <3>2. CASE ReadBuffered(d)
      <4>1. got' = [got EXCEPT ![d] = @ \o unread[d]] /\ unread' = [unread EXCEPT ![d] = <<>>] /\ taken' = taken
        BY <3>2 DEF ReadBuffered
      <4> QED
        BY <1>3, <1>4, <3>1, <4>1
    <3>3. CASE Take(d)
      <4>1. PICK s \in Seq(Nat), r \in Seq(Nat) : Takes(d, s, r)
        BY <3>3, TakeBytes
      <4> QED
        BY <1>3, <1>4, <3>1, <4>1 DEF Takes
    <3>4. CASE Recv(d) \/ \E n \in 1 .. 2 : StartRead(d, n)
      <4>1. PICK s \in Seq(Nat) : UNCHANGED <<got, taken>> /\ (unread' = unread \/ unread' = [unread EXCEPT ![d] = s])
        <5>1. CASE Recv(d)
          BY <5>1, RecvBytes DEF Receives
        <5>2. CASE \E n \in 1 .. 2 : StartRead(d, n)
          <6>1. UNCHANGED <<got, taken, unread>>
            BY <5>2 DEF StartRead
          <6>2. <<>> \in Seq(Nat)
            OBVIOUS
          <6> QED
            BY <6>1, <6>2
        <5> QED
          BY <3>4, <5>1, <5>2
      <4> QED
        BY <1>3, <1>4, <3>1, <4>1
    <3>5. CASE RecvEof(d) \/ RecvFails(d) \/ ReadTimesOut(d)
      <4>1. /\ got' = got \/ got' = [got EXCEPT ![d] = @ \o taken[d]]
            /\ taken' = [taken EXCEPT ![d] = <<>>] /\ unread' = unread
        BY <3>5 DEF RecvEof, RecvFails, ReadTimesOut, ReadRaises
      <4> QED
        BY <1>3, <1>4, <3>1, <4>1
    <3> QED
      BY <3>2, <3>3, <3>4, <3>5
  <2>2. pipe'[e] = pipe[e]
    BY <1>3, <1>4 DEF StartRead, ReadBuffered, Take, Recv, RecvEof, RecvFails, ReadTimesOut, ReadRaises
  <2> QED
    BY <2>1, <2>2 DEF Left
<1>5. ASSUME d = Peer(e), \E n \in 1 .. 2 : StartRead(d, n) PROVE Left(e)' = Left(e)
  BY <1>5 DEF StartRead, Left
<1>6. ASSUME d = Peer(e), ReadBuffered(d) PROVE Left(e)' = Left(e)
  <2>1. /\ taken' = taken /\ taken[d] = <<>> /\ pipe' = pipe
        /\ got'[d] = got[d] \o unread[d] /\ unread'[d] = <<>>
    BY <1>3, <1>6 DEF ReadBuffered, TakenOnlyInACall
  <2>2. (got[d] \o unread[d]) \o <<>> \o <<>> = got[d] \o <<>> \o unread[d]
    <3>1. got[d] \in Seq(Nat) /\ unread[d] \in Seq(Nat)
      BY <1>3
    <3>2. got[d] \o unread[d] \in Seq(Nat)
      BY <3>1, Joined
    <3>3. got[d] \o <<>> = got[d]
      BY <3>1, EmptyEnd, Zenon
    <3>4. (got[d] \o unread[d]) \o <<>> = got[d] \o unread[d]
      BY <3>2, EmptyEnd, Zenon
    <3> QED
      BY <3>3, <3>4, Zenon
  <2> QED
    BY <1>6, <2>1, <2>2 DEF Left
<1>7. ASSUME d = Peer(e), Take(d) PROVE Left(e)' = Left(e)
  <2>1. PICK s \in Seq(Nat), r \in Seq(Nat) : Takes(d, s, r)
    BY <1>7, TakeBytes
  <2>2. /\ unread[d] = s \o r /\ unread'[d] = r /\ pipe' = pipe
        /\ \/ got'[d] = got[d] \o (taken[d] \o s) /\ taken'[d] = <<>>
           \/ got'[d] = got[d] /\ taken'[d] = taken[d] \o s
    BY <1>3, <2>1 DEF Takes
  <2>3. got[d] \in Seq(Nat) /\ taken[d] \in Seq(Nat)
    BY <1>3
  <2>4. /\ (got[d] \o (taken[d] \o s)) \o <<>> \o r = got[d] \o taken[d] \o (s \o r)
        /\ got[d] \o (taken[d] \o s) \o r = got[d] \o taken[d] \o (s \o r)
    <3>1. got[d] \o (taken[d] \o s) \o r = got[d] \o taken[d] \o (s \o r)
      <4>1. got[d] \o taken[d] \in Seq(Nat) /\ s \in Seq(Nat) /\ r \in Seq(Nat)
        BY <2>1, <2>3, Joined
      <4>2. got[d] \o taken[d] \o s = got[d] \o (taken[d] \o s)
        BY <2>3, <4>1, Assoc, Zenon
      <4>3. got[d] \o taken[d] \o s \o r = got[d] \o taken[d] \o (s \o r)
        BY <4>1, Assoc, Zenon
      <4> QED
        BY <4>2, <4>3, Zenon
    <3>2. got[d] \o (taken[d] \o s) \in Seq(Nat)
      BY <2>3, Joined
    <3>3. (got[d] \o (taken[d] \o s)) \o <<>> = got[d] \o (taken[d] \o s)
      BY <3>2, EmptyEnd, Zenon
    <3> QED
      BY <3>1, <3>3, Zenon
  <2> QED
    BY <1>7, <2>2, <2>4 DEF Left
<1>8. ASSUME d = Peer(e), Recv(d) PROVE Left(e)' = Left(e)
  <2>1. PICK s \in Seq(Nat), r \in Seq(Nat) : Receives(d, s, r)
    BY <1>8, RecvBytes
  <2>2. /\ unread[d] = <<>> /\ unread'[d] = s /\ pipe[e] = s \o r /\ pipe'[e] = r
        /\ got' = got /\ taken' = taken
    BY <1>3, <1>8, <2>1 DEF Receives
  <2>3. got[d] \o taken[d] \in Seq(Nat)
    BY <1>3, Joined
  <2>4. got[d] \o taken[d] \o s \o r = got[d] \o taken[d] \o <<>> \o (s \o r)
    BY <2>1, <2>3, RecvMoves, Zenon
  <2> QED
    BY <1>8, <2>2, <2>4 DEF Left
<1>9. ASSUME d = Peer(e), RecvEof(d) PROVE Left(e)' = Left(e)
  <2>1. /\ got'[d] = got[d] \o taken[d] /\ taken'[d] = <<>> /\ unread' = unread /\ pipe' = pipe
    BY <1>3, <1>9 DEF RecvEof
  <2>2. got[d] \in Seq(Nat) /\ taken[d] \in Seq(Nat)
    BY <1>3
  <2>3. (got[d] \o taken[d]) \o <<>> = got[d] \o taken[d]
    <3>1. got[d] \o taken[d] \in Seq(Nat)
      BY <2>2, Joined
    <3> QED
      BY <3>1, EmptyEnd, Zenon
  <2> QED
    BY <1>9, <2>1, <2>3 DEF Left
<1>10. ASSUME d = Peer(e), RecvFails(d) \/ ReadTimesOut(d) PROVE Left(e)' = Left(e)
  <2>1. /\ taken' = [taken EXCEPT ![d] = <<>>] /\ UNCHANGED <<got, unread, pipe>>
        /\ taken[d] # <<>> => e \in torn'
    BY <1>3, <1>10 DEF RecvFails, ReadTimesOut, ReadRaises
  <2> QED
    BY <1>3, <1>10, <2>1 DEF Left
<1> QED
  BY <1>4, <1>5, <1>6, <1>7, <1>8, <1>9, <1>10

(* A write step, by the thread at end e, moves bytes of its own.           *)
LEMMA StreamsWrite ==
  ASSUME Types, Streams, NEW d \in Ends,
         \/ \E n \in 1 .. 2 : Write(d, n)
         \/ Flush(d) \/ CloseOutput(d) \/ Send(d) \/ OutputReturns(d) \/ SendFails(d)
         \/ WriteTimesOut(d)
  PROVE  Streams'
<1> USE DEF portVars, readVars, writeVars, sockVars, histVars, bounds
<1> SUFFICES ASSUME NEW e \in Ends, e \notin torn'
             PROVE  (Stream(e) = Upto(written[e]))'
  BY DEF Streams
<1>1. UNCHANGED <<got, taken, unread>> /\ torn \subseteq torn'
  BY DEF Write, Flush, CloseOutput, Send, OutputReturns, SendFails, WriteTimesOut, OutputRaises
<1>2. Stream(e) = Left(e) \o Unsent(e) /\ Stream(e) = Upto(written[e])
  BY <1>1, StreamPieces DEF Streams
<1>3. /\ outbuf \in [Ends -> Seq(Nat)] /\ out \in [Ends -> Seq(Nat)] /\ pipe \in [Ends -> Seq(Nat)]
      /\ written \in [Ends -> Nat] /\ opc \in [Ends -> {"user", "send", "wait"}]
  BY DEF Types, ByteTypes, CallTypes
<1>4. CASE d # e
  <2>1. pipe'[e] = pipe[e] /\ outbuf'[e] = outbuf[e] /\ written'[e] = written[e]
    BY <1>3, <1>4 DEF Write, Flush, CloseOutput, Send, OutputReturns, SendFails, WriteTimesOut, OutputRaises
  <2>2. out'[e] = out[e] /\ opc'[e] = opc[e]
    BY <1>3, <1>4 DEF Write, Flush, CloseOutput, Send, OutputReturns, SendFails, WriteTimesOut, OutputRaises,
       Output
  <2> QED
    BY <1>1, <1>2, <2>1, <2>2 DEF Stream, Unsent
<1>8. /\ Left(e) \in Seq(Nat) /\ Unsent(e) \in Seq(Nat) /\ pipe[e] \in Seq(Nat)
      /\ got[Peer(e)] \o taken[Peer(e)] \o unread[Peer(e)] \in Seq(Nat)
  <2>1. /\ got[Peer(e)] \in Seq(Nat) /\ taken[Peer(e)] \in Seq(Nat) /\ unread[Peer(e)] \in Seq(Nat)
        /\ pipe[e] \in Seq(Nat) /\ Unsent(e) \in Seq(Nat)
    BY StreamPieces
  <2>2. got[Peer(e)] \o taken[Peer(e)] \in Seq(Nat)
    BY <2>1, Joined
  <2>3. got[Peer(e)] \o taken[Peer(e)] \o unread[Peer(e)] \in Seq(Nat)
    BY <2>1, <2>2, Joined
  <2>4. Left(e) \in Seq(Nat)
    BY <2>1, <2>3, Joined DEF Left
  <2> QED
    BY <2>1, <2>3, <2>4
<1>5. ASSUME d = e, NEW n \in 1 .. 2, Write(e, n) PROVE (Stream(e) = Upto(written[e]))'
  <2>1. PICK s \in Seq(Nat) : Writes(e, n, s)
    BY <1>5, WriteBytes
  <2>2. /\ Unsent(e) = outbuf[e] /\ Unsent(e)' = outbuf[e] \o s /\ pipe' = pipe
        /\ written'[e] = written[e] + n
    BY <1>3, <2>1 DEF Writes, Unsent
  <2>3. Left(e) \o (Unsent(e) \o s) = Left(e) \o Unsent(e) \o s
    BY <1>8, <2>1, Assoc, Zenon
  <2>4. Stream(e)' = Left(e) \o Unsent(e) \o s
    BY <1>1, <2>2, <2>3 DEF Stream, Left
  <2>5. Upto(written[e]) \o s = Upto(written[e] + n)
    BY <2>1 DEF Writes
  <2> QED
    BY <1>2, <2>2, <2>4, <2>5 DEF Upto
<1>6. ASSUME d = e, Flush(e) \/ CloseOutput(e) \/ OutputReturns(e) \/ SendFails(e) \/ WriteTimesOut(e)
      PROVE  (Stream(e) = Upto(written[e]))'
  <2>1. UNCHANGED <<pipe, written>>
    BY <1>6 DEF Flush, CloseOutput, OutputReturns, SendFails, WriteTimesOut, OutputRaises
  <2>2. Unsent(e)' = Unsent(e)
    <3>1. CASE Flush(e) \/ CloseOutput(e)
      BY <1>3, <3>1 DEF Flush, CloseOutput, Output, Unsent
    <3>2. CASE OutputReturns(e)
      BY <1>3, <3>2 DEF OutputReturns, Unsent
    <3>3. CASE SendFails(e) \/ WriteTimesOut(e)
      BY <1>3, <3>3 DEF SendFails, WriteTimesOut, OutputRaises, Unsent
    <3> QED
      BY <1>6, <3>1, <3>2, <3>3
  <2> QED
    BY <1>1, <1>2, <2>1, <2>2 DEF Stream
<1>7. ASSUME d = e, Send(e) PROVE (Stream(e) = Upto(written[e]))'
  <2>1. PICK s \in Seq(Nat), r \in Seq(Nat) : Sends(e, s, r)
    BY <1>7, SendBytes
  <2>2. /\ Unsent(e) = s \o r /\ Unsent(e)' = r /\ pipe'[e] = pipe[e] \o s
        /\ written' = written
    BY <1>3, <1>7, <2>1 DEF Sends, Unsent, Send
  <2>3. got[Peer(e)] \o taken[Peer(e)] \o unread[Peer(e)] \o (pipe[e] \o s) \o r
          = got[Peer(e)] \o taken[Peer(e)] \o unread[Peer(e)] \o pipe[e] \o (s \o r)
    <3> DEFINE a == got[Peer(e)] \o taken[Peer(e)] \o unread[Peer(e)]
               p == pipe[e]
    <3>1. a \in Seq(Nat) /\ p \in Seq(Nat) /\ s \in Seq(Nat) /\ r \in Seq(Nat)
      BY <1>8, <2>1
    <3> HIDE DEF a, p
    <3>2. a \o p \in Seq(Nat)
      BY <3>1, Joined
    <3>3. a \o p \o s = a \o (p \o s)
      BY <3>1, Assoc, Zenon
    <3>4. a \o p \o s \o r = a \o p \o (s \o r)
      BY <3>1, <3>2, Assoc, Zenon
    <3> QED
      BY <3>3, <3>4, Zenon DEF a, p
  <2> QED
    BY <1>1, <1>2, <2>2, <2>3 DEF Stream
<1> QED
  BY <1>4, <1>5, <1>6, <1>7

(* The calls.  A read asks for one byte or two, and delivers no more.      *)
LEMMA CallsStep ==
  ASSUME Types, TakenOnlyInACall, CallsAreShort, [Next]_vars
  PROVE  TakenOnlyInACall' /\ CallsAreShort'
<1> USE DEF portVars, readVars, writeVars, sockVars, histVars, bounds
<1>0. /\ ipc \in [Ends -> {"user", "read", "wait"}] /\ taken \in [Ends -> Seq(Nat)]
      /\ unread \in [Ends -> Seq(Nat)] /\ want \in [Ends -> Nat]
      /\ \A s \in Seq(Nat) : Len(s) \in Nat
  BY LenProperties DEF Types, ByteTypes, CallTypes
<1>e. Len(<<>>) = 0 /\ InBufSize \in Nat
  BY BufferAssumption
<1>1. ASSUME NEW d \in Ends, NEW n \in 1 .. 2, StartRead(d, n)
      PROVE  TakenOnlyInACall' /\ CallsAreShort'
  <2>1. /\ ipc' = [ipc EXCEPT ![d] = "read"] /\ want' = [want EXCEPT ![d] = n]
        /\ UNCHANGED <<taken, unread>> /\ taken[d] = <<>> /\ n \in Nat /\ n <= 2
    BY <1>1 DEF StartRead, TakenOnlyInACall
  <2>2. TakenOnlyInACall'
    BY <1>0, <2>1 DEF TakenOnlyInACall
  <2>3. CallsAreShort'
    BY <1>0, <1>e, <2>1 DEF CallsAreShort
  <2> QED
    BY <2>2, <2>3
<1>2. ASSUME NEW d \in Ends, Take(d)
      PROVE  TakenOnlyInACall' /\ CallsAreShort'
  <2>1. PICK s \in Seq(Nat), r \in Seq(Nat) : Takes(d, s, r)
    BY <1>2, TakeBytes
  <2>2. /\ Len(s) \in Nat /\ Len(r) \in Nat /\ want[d] \in Nat /\ Len(taken[d]) \in Nat
        /\ Len(unread[d]) \in Nat
    BY <1>0
  <2>3. /\ Len(s) <= want[d] /\ Len(r) <= Len(unread[d]) /\ unread' = [unread EXCEPT ![d] = r]
        /\ want' = [want EXCEPT ![d] = want[d] - Len(s)]
    BY <2>1 DEF Takes
  <2>4. Len(taken[d] \o s) = Len(taken[d]) + Len(s)
    BY <1>0, ConcatProperties
  <2>5. \/ ipc' = [ipc EXCEPT ![d] = "user"] /\ taken' = [taken EXCEPT ![d] = <<>>]
        \/ ipc' = [ipc EXCEPT ![d] = "read"] /\ taken' = [taken EXCEPT ![d] = taken[d] \o s]
    BY <2>1 DEF Takes
  <2>6. TakenOnlyInACall'
    BY <1>0, <2>5 DEF TakenOnlyInACall
  <2>7. ASSUME NEW e \in Ends PROVE Len(unread'[e]) <= InBufSize
    BY <1>0, <1>e, <2>2, <2>3 DEF CallsAreShort
  <2>8. Len(taken'[d]) + want'[d] <= 2
    <3>1. Len(taken[d]) + want[d] <= 2
      BY DEF CallsAreShort
    <3>2. want'[d] = want[d] - Len(s) /\ (taken'[d] = <<>> \/ taken'[d] = taken[d] \o s)
      BY <1>0, <2>3, <2>5
    <3>3. CASE taken'[d] = <<>>
      BY <1>e, <2>2, <2>3, <3>1, <3>2, <3>3
    <3>4. CASE taken'[d] = taken[d] \o s
      BY <2>2, <2>3, <2>4, <3>1, <3>2, <3>4
    <3> QED
      BY <3>2, <3>3, <3>4
  <2>9. ASSUME NEW e \in Ends, e # d PROVE Len(taken'[e]) + want'[e] <= 2
    BY <1>0, <2>3, <2>5, <2>9 DEF CallsAreShort
  <2> QED
    BY <2>6, <2>7, <2>8, <2>9 DEF CallsAreShort
<1>3. ASSUME NEW d \in Ends, Recv(d)
      PROVE  TakenOnlyInACall' /\ CallsAreShort'
  <2>1. PICK s \in Seq(Nat), r \in Seq(Nat) : Receives(d, s, r)
    BY <1>3, RecvBytes
  <2> QED
    BY <1>0, <2>1 DEF Receives, TakenOnlyInACall, CallsAreShort
<1>4. ASSUME NEW d \in Ends, RecvEof(d) \/ RecvFails(d) \/ ReadTimesOut(d)
      PROVE  TakenOnlyInACall' /\ CallsAreShort'
  <2>1. /\ ipc' = [ipc EXCEPT ![d] = "user"] /\ want' = [want EXCEPT ![d] = 0]
        /\ taken' = [taken EXCEPT ![d] = <<>>] /\ unread' = unread
    BY <1>4 DEF RecvEof, RecvFails, ReadTimesOut, ReadRaises
  <2>2. CallsAreShort'
    BY <1>0, <1>e, <2>1 DEF CallsAreShort
  <2> QED
    BY <1>0, <2>1, <2>2 DEF TakenOnlyInACall
<1>5. ASSUME NEW d \in Ends, ReadBuffered(d)
      PROVE  TakenOnlyInACall' /\ CallsAreShort'
  <2>1. unread' = [unread EXCEPT ![d] = <<>>] /\ UNCHANGED <<ipc, want, taken>>
    BY <1>5 DEF ReadBuffered
  <2> QED
    BY <1>0, <1>e, <2>1 DEF TakenOnlyInACall, CallsAreShort
<1>6. ASSUME NEW d \in Ends,
             \/ \E n \in 1 .. 2 : Write(d, n)
             \/ Flush(d) \/ CloseOutput(d) \/ Send(d) \/ OutputReturns(d) \/ SendFails(d)
             \/ WriteTimesOut(d)
      PROVE  TakenOnlyInACall' /\ CallsAreShort'
  <2>1. UNCHANGED <<unread, ipc, want, taken>>
    BY <1>6 DEF Write, Flush, CloseOutput, Send, OutputReturns, SendFails, WriteTimesOut, OutputRaises
  <2> QED
    BY <2>1 DEF TakenOnlyInACall, CallsAreShort
<1>7. CASE UNCHANGED byteVars /\ \A e \in Ends : ipc'[e] = "user" <=> ipc[e] = "user"
  BY <1>7 DEF byteVars, TakenOnlyInACall, CallsAreShort
<1> QED
  BY <1>1, <1>2, <1>3, <1>4, <1>5, <1>6, <1>7, OtherCalls DEF ByteStep

(* No step loses or reorders a byte.                                       *)
LEMMA StreamsStep ==
  ASSUME Types, TakenOnlyInACall, Streams, [Next]_vars
  PROVE  Streams'
<1>1. CASE ByteStep
  BY <1>1, StreamsRead, StreamsWrite DEF ByteStep
<1>2. CASE /\ UNCHANGED byteVars /\ torn \subseteq torn'
           /\ \A e \in Ends : opc'[e] = "user" <=> opc[e] = "user"
  BY <1>2 DEF byteVars, Streams, Stream, Unsent
<1> QED
  BY <1>1, <1>2, OtherCalls

(* Nothing is written at first.                                            *)
LEMMA BytesInit == Init => TakenOnlyInACall /\ CallsAreShort /\ Streams
<1> SUFFICES ASSUME Init PROVE TakenOnlyInACall /\ CallsAreShort /\ Streams
  OBVIOUS
<1>1. TakenOnlyInACall
  BY DEF Init, PortsInit, TakenOnlyInACall
<1>2. CallsAreShort
  BY BufferAssumption DEF Init, PortsInit, CallsAreShort
<1>3. ASSUME NEW e \in Ends PROVE Stream(e) = Upto(written[e])
  <2>1. Stream(e) = <<>> \o <<>> \o <<>> \o <<>> \o <<>> /\ written[e] = 0
    BY EndsOfConns DEF Init, PortsInit, Stream, Unsent
  <2>2. <<>> \o <<>> = <<>> /\ Upto(0) = <<>>
    BY DEF Upto
  <2> QED
    BY <2>1, <2>2
<1> QED
  BY <1>1, <1>2, <1>3 DEF Streams

-----------------------------------------------------------------------------
(* Opening and closing.                                                    *)

(* A port counts as closed from the moment its close begins: the call that *)
(* flushes for a close is known by its reason, and leaves the buffer       *)
(* empty; nothing but that shuts an end down, unless something failed.     *)
ClosingIsClosed ==
  \A e \in Ends :
    /\ iopen[e] => ~iclosed[e]
    /\ oopen[e] => ~oclosed[e]
    /\ opc[e] # "user" => (why[e] = "close" <=> oclosed[e])
    /\ oclosed[e] /\ opc[e] = "user" /\ e \notin failedClose => outbuf[e] = <<>>
    /\ shut[e] /\ e \notin torn \union failedClose =>
         oclosed[e] /\ opc[e] = "user" /\ outbuf[e] = <<>>

(* After the end of file there is nothing on the way.                      *)
EofDone ==
  \A e \in Ends : eof[e] =>
    /\ ipc[e] = "user" /\ unread[e] = <<>>
    /\ Peer(e) \notin torn \union failedClose => pipe[Peer(e)] = <<>> /\ shut[Peer(e)]

(* An end that has never had ports.                                        *)
NoPorts(e) == ~iopen[e] /\ ~oopen[e] /\ ~iclosed[e] /\ ~oclosed[e]

(* Ports come in pairs, on a descriptor, and calls go through them.        *)
PortsExist ==
  \A e \in Ends :
    /\ iopen[e] \/ iclosed[e] <=> oopen[e] \/ oclosed[e]
    /\ iopen[e] \/ oopen[e] => fdOpen[e]
    /\ ipc[e] # "user" => iopen[e]
    /\ opc[e] # "user" => oopen[e] \/ oclosed[e]
    /\ opc[e] # "user" /\ e \notin torn => fdOpen[e]
    /\ iclosed[e] /\ oclosed[e] /\ opc[e] = "user" /\ e \notin failedClose => ~fdOpen[e]

(* Before tcp-connect returns, and before the connection is accepted.      *)
SetUp ==
  \A k \in Conns :
    /\ net[k] = "none" <=> cpc[k] = "user"
    /\ cpc[k] \in {"wait", "woken"} => fdOpen[Client(k)]
    /\ cpc[k] # "ports" => NoPorts(Client(k))
    /\ net[k] \in {"none", "syn", "queued"} => NoPorts(Server(k))

(* Each connection that is queued waits in the backlog once.               *)
BacklogIsQueued ==
  /\ \A i \in 1 .. Len(backlog) : net[backlog[i]] = "queued"
  /\ \A i \in 1 .. Len(backlog), j \in 1 .. Len(backlog) : backlog[i] = backlog[j] => i = j

(* Every step keeps the backlog one of queued connections.                 *)
LEMMA BacklogStep ==
  ASSUME Types, SetUp, BacklogIsQueued, [Next]_vars
  PROVE  BacklogIsQueued'
<1> USE DEF setupVars, ioVars, portVars, readVars, writeVars, sockVars, histVars, bounds
<1>0. /\ net \in [Conns -> {"none", "syn", "queued", "accepted", "refused", "reset"}]
      /\ cpc \in [Conns -> {"user", "wait", "woken", "failed", "ports"}]
      /\ backlog \in Seq(Conns) /\ Len(backlog) \in Nat
      /\ \A i \in 1 .. Len(backlog) : backlog[i] \in Conns
  BY LenProperties, ElementOfSeq DEF Types, CallTypes
<1>1. ASSUME NEW k \in Conns, net[k] # "queued", backlog' = Append(backlog, k),
             net' = [net EXCEPT ![k] = "queued"]
      PROVE  BacklogIsQueued'
  <2>1. /\ Len(backlog') = Len(backlog) + 1 /\ backlog'[Len(backlog) + 1] = k
        /\ \A i \in 1 .. Len(backlog) : backlog'[i] = backlog[i]
    BY <1>0, <1>1, AppendProperties
  <2>2. \A i \in 1 .. Len(backlog') : i \in 1 .. Len(backlog) \/ i = Len(backlog) + 1
    BY <1>0, <2>1
  <2>3. \A i \in 1 .. Len(backlog) : backlog[i] # k
    BY <1>0, <1>1 DEF BacklogIsQueued
  <2>4. \A i \in 1 .. Len(backlog) : net'[backlog'[i]] = "queued" /\ i # Len(backlog) + 1
    BY <1>0, <1>1, <2>1, <2>3 DEF BacklogIsQueued
  <2>5. net'[k] = "queued"
    BY <1>0, <1>1
  <2> QED
    BY <2>1, <2>2, <2>3, <2>4, <2>5 DEF BacklogIsQueued
<1>2. ASSUME backlog' = backlog, \A k \in Conns : net[k] = "queued" => net'[k] = "queued"
      PROVE  BacklogIsQueued'
  BY <1>0, <1>2 DEF BacklogIsQueued
<1>3. ASSUME NEW k \in Conns, ConnectStep(k) \/ Handshake(k) \/ Refuse(k) PROVE BacklogIsQueued'
  <2>1. CASE Connect(k)
    <3>1. net[k] = "none"
      BY <2>1 DEF Connect, SetUp
    <3> QED
      BY <1>0, <1>1, <1>2, <2>1, <3>1 DEF Connect
  <2>2. CASE Handshake(k)
    BY <1>1, <2>2 DEF Handshake
  <2>3. CASE ConnectWoken(k) \/ ConnectReturns(k) \/ ConnectFails(k) \/ Refuse(k)
    BY <1>0, <1>2, <2>3 DEF ConnectWoken, ConnectReturns, OpenPorts, ConnectFails, Refuse
  <2> QED
    BY <1>3, <2>1, <2>2, <2>3 DEF ConnectStep
<1>4. ASSUME NEW a \in Acceptors, AcceptStep(a) PROVE BacklogIsQueued'
  <2>1. CASE AcceptReturns(a)
    <3>1. backlog # <<>> /\ backlog' = Tail(backlog) /\ net' = [net EXCEPT ![Head(backlog)] = "accepted"]
      BY <2>1 DEF AcceptReturns
    <3>2. /\ Head(backlog) = backlog[1] /\ Len(backlog') = Len(backlog) - 1 /\ Len(backlog) > 0
          /\ \A i \in 1 .. Len(backlog') : backlog'[i] = backlog[i + 1]
      BY <1>0, <3>1, HeadTailProperties, EmptySeq
    <3>3. \A i \in 1 .. Len(backlog') : i \in Nat /\ i + 1 \in 1 .. Len(backlog) /\ i + 1 # 1
      BY <1>0, <3>2
    <3>4. 1 \in 1 .. Len(backlog)
      BY <1>0, <3>2
    <3>5. \A i \in 1 .. Len(backlog') : net'[backlog'[i]] = "queued"
      BY <1>0, <3>1, <3>2, <3>3, <3>4 DEF BacklogIsQueued
    <3>6. \A i \in 1 .. Len(backlog'), j \in 1 .. Len(backlog') : i + 1 = j + 1 => i = j
      BY <3>3
    <3> QED
      BY <3>2, <3>3, <3>5, <3>6 DEF BacklogIsQueued
  <2>2. CASE Accept(a) \/ AcceptBlocks(a) \/ AcceptInterrupted(a) \/ AcceptFails(a)
    BY <1>2, <2>2 DEF Accept, AcceptBlocks, AcceptInterrupted, AcceptFails
  <2> QED
    BY <1>4, <2>1, <2>2 DEF AcceptStep
<1>5. CASE CloseListener
  BY <1>5 DEF CloseListener, BacklogIsQueued
<1>6. CASE AcceptWoken \/ UNCHANGED vars
  BY <1>2, <1>6 DEF AcceptWoken, vars
<1>7. CASE PortsStep /\ UNCHANGED setupVars
  <2>1. ASSUME NEW e \in Ends, UseStep(e) PROVE net' = net
    BY <2>1 DEF UseStep, StartRead, Write, ReadBuffered, Flush, CloseInput, CloseOutput, AbandonPort
  <2>2. ASSUME NEW e \in Ends, ReadStep(e) \/ ReadTimesOut(e) PROVE net' = net
    BY <2>2 DEF ReadStep, Take, Recv, RecvEof, RecvWait, ReadWoken, RecvFails, ReadTimesOut, ReadRaises
  <2>3. ASSUME NEW e \in Ends, WriteStep(e) \/ WriteTimesOut(e) PROVE net' = net
    BY <2>3 DEF WriteStep, Send, SendWait, SendWoken, OutputReturns, SendFails, WriteTimesOut, OutputRaises
  <2> QED
    BY <1>2, <1>7, <2>1, <2>2, <2>3 DEF PortsStep
<1> QED
  BY <1>3, <1>4, <1>5, <1>6, <1>7 DEF Next

(* The head of the backlog has no ports yet.                               *)
LEMMA AcceptedIsNew ==
  ASSUME Types, SetUp, BacklogIsQueued, NEW a \in Acceptors, AcceptReturns(a)
  PROVE  /\ Head(backlog) \in Conns /\ net[Head(backlog)] = "queued"
         /\ NoPorts(Server(Head(backlog)))
<1>1. backlog \in Seq(Conns) /\ backlog # <<>>
  BY DEF Types, CallTypes, AcceptReturns
<1>2. Head(backlog) = backlog[1] /\ Head(backlog) \in Conns /\ 1 \in 1 .. Len(backlog)
  BY <1>1, HeadTailProperties, EmptySeq, LenProperties
<1>3. net[Head(backlog)] = "queued"
  BY <1>2 DEF BacklogIsQueued
<1> QED
  BY <1>2, <1>3 DEF SetUp

(* Every step keeps connections and the ends they have reached in          *)
(* agreement.                                                              *)
LEMMA SetUpStep ==
  ASSUME Types, SetUp, BacklogIsQueued, PortsExist, [Next]_vars
  PROVE  SetUp'
<1> USE DEF setupVars, ioVars, portVars, readVars, writeVars, sockVars, histVars, bounds
<1>0. /\ net \in [Conns -> {"none", "syn", "queued", "accepted", "refused", "reset"}]
      /\ cpc \in [Conns -> {"user", "wait", "woken", "failed", "ports"}]
      /\ FlagTypes
      /\ \A k \in Conns : Client(k) \in Ends /\ Server(k) \in Ends
      /\ \A k \in Conns, m \in Conns : /\ Client(k) # Server(m) /\ Server(m) # Client(k)
                                       /\ Client(k) = Client(m) => k = m
                                       /\ Server(k) = Server(m) => k = m
  BY EndsOfConns DEF Types, CallTypes
<1>1. ASSUME NEW e \in Ends, ~NoPorts(e), UNCHANGED <<net, cpc>>,
             \A d \in Ends \ {e} : /\ iopen'[d] = iopen[d] /\ oopen'[d] = oopen[d]
                                   /\ iclosed'[d] = iclosed[d] /\ oclosed'[d] = oclosed[d]
                                   /\ fdOpen'[d] = fdOpen[d]
      PROVE  SetUp'
  BY <1>0, <1>1 DEF SetUp, NoPorts
<1>2. ASSUME NEW k \in Conns, ConnectStep(k) \/ Handshake(k) \/ Refuse(k) PROVE SetUp'
  <2>1. CASE Connect(k)
    <3>1. /\ cpc[k] = "user" /\ UNCHANGED <<iopen, oopen, iclosed, oclosed>>
          /\ \E x \in {"syn", "queued", "refused"} : net' = [net EXCEPT ![k] = x]
          /\ \/ fdOpen' = [fdOpen EXCEPT ![Client(k)] = TRUE]
             \/ cpc' = [cpc EXCEPT ![k] = "failed"] /\ fdOpen' = fdOpen
          /\ \E x \in {"wait", "woken", "failed"} : cpc' = [cpc EXCEPT ![k] = x]
      BY <2>1 DEF Connect
    <3> QED
      BY <1>0, <3>1 DEF SetUp, NoPorts, FlagTypes
  <2>2. CASE ConnectWoken(k)
    BY <1>0, <2>2 DEF ConnectWoken, SetUp, NoPorts, FlagTypes
  <2>3. CASE ConnectReturns(k)
    <3>1. /\ cpc[k] = "woken" /\ cpc' = [cpc EXCEPT ![k] = "ports"]
          /\ iopen' = [iopen EXCEPT ![Client(k)] = TRUE] /\ oopen' = [oopen EXCEPT ![Client(k)] = TRUE]
          /\ UNCHANGED <<iclosed, oclosed, net, fdOpen>>
      BY <2>3 DEF ConnectReturns, OpenPorts
    <3> QED
      BY <1>0, <3>1 DEF SetUp, NoPorts, FlagTypes
  <2>4. CASE ConnectFails(k)
    BY <1>0, <2>4 DEF ConnectFails, SetUp, NoPorts, FlagTypes
  <2>5. CASE Handshake(k) \/ Refuse(k)
    BY <1>0, <2>5 DEF Handshake, Refuse, SetUp, NoPorts, FlagTypes
  <2> QED
    BY <1>2, <2>1, <2>2, <2>3, <2>4, <2>5 DEF ConnectStep
<1>3. ASSUME NEW a \in Acceptors, AcceptStep(a) PROVE SetUp'
  <2>1. CASE AcceptReturns(a)
    <3>1. PICK k \in Conns : k = Head(backlog)
      BY <2>1, AcceptedIsNew
    <3>2. /\ net[k] = "queued" /\ net' = [net EXCEPT ![k] = "accepted"]
          /\ iopen' = [iopen EXCEPT ![Server(k)] = TRUE] /\ oopen' = [oopen EXCEPT ![Server(k)] = TRUE]
          /\ fdOpen' = [fdOpen EXCEPT ![Server(k)] = TRUE]
          /\ UNCHANGED <<iclosed, oclosed, cpc>>
      BY <2>1, <3>1, AcceptedIsNew DEF AcceptReturns
    <3> QED
      BY <1>0, <3>2 DEF SetUp, NoPorts, FlagTypes
  <2>2. CASE Accept(a) \/ AcceptBlocks(a) \/ AcceptInterrupted(a) \/ AcceptFails(a)
    BY <2>2 DEF Accept, AcceptBlocks, AcceptInterrupted, AcceptFails, SetUp, NoPorts
  <2> QED
    BY <1>3, <2>1, <2>2 DEF AcceptStep
<1>4. CASE CloseListener
  BY <1>0, <1>4 DEF CloseListener, SetUp, NoPorts
<1>5. CASE AcceptWoken \/ UNCHANGED vars
  BY <1>5 DEF AcceptWoken, vars, SetUp, NoPorts
<1>6. ASSUME NEW e \in Ends, UNCHANGED setupVars,
             UseStep(e) \/ ReadStep(e) \/ WriteStep(e) \/ ReadTimesOut(e) \/ WriteTimesOut(e)
      PROVE  SetUp'
  <2>1. CASE CloseInput(e)
    <3>1. ~NoPorts(e) /\ UNCHANGED <<net, cpc>>
      BY <1>6, <2>1 DEF CloseInput, NoPorts
    <3> QED
      BY <1>0, <1>1, <2>1, <3>1 DEF CloseInput, FlagTypes
  <2>2. CASE CloseOutput(e)
    <3>1. ~NoPorts(e) /\ UNCHANGED <<net, cpc>>
      BY <1>6, <2>2 DEF CloseOutput, NoPorts
    <3> QED
      BY <1>0, <1>1, <2>2, <3>1 DEF CloseOutput, ShutDown, FlagTypes
  <2>3. CASE OutputReturns(e)
    <3>1. ~NoPorts(e) /\ UNCHANGED <<net, cpc>>
      BY <1>6, <2>3 DEF OutputReturns, PortsExist, NoPorts
    <3> QED
      BY <1>0, <1>1, <2>3, <3>1 DEF OutputReturns, ShutDown, FlagTypes
  <2>4. CASE ~(CloseInput(e) \/ CloseOutput(e) \/ OutputReturns(e))
    <3>1. UNCHANGED <<net, cpc, iopen, oopen, iclosed, oclosed, fdOpen>>
      BY <1>6, <2>4 DEF UseStep, ReadStep, WriteStep, StartRead, Write, ReadBuffered, Flush,
         AbandonPort, Take, Recv, RecvEof, RecvWait, ReadWoken, RecvFails, ReadTimesOut,
         ReadRaises, Send, SendWait, SendWoken, SendFails, WriteTimesOut, OutputRaises
    <3> QED
      BY <3>1 DEF SetUp, NoPorts
  <2> QED
    BY <2>1, <2>2, <2>3, <2>4
<1> QED
  BY <1>2, <1>3, <1>4, <1>5, <1>6 DEF Next, PortsStep

(* A step of the connections leaves the ports alone, but for those that it *)
(* makes, where there were none.                                           *)
Opens(e) ==
  /\ NoPorts(e) /\ iopen' = [iopen EXCEPT ![e] = TRUE] /\ oopen' = [oopen EXCEPT ![e] = TRUE]
  /\ fdOpen' = [fdOpen EXCEPT ![e] = TRUE]

(* The descriptor of a connection that has no ports.                       *)
Touches(e) ==
  /\ NoPorts(e) /\ UNCHANGED <<iopen, oopen>>
  /\ \E x \in BOOLEAN : fdOpen' = [fdOpen EXCEPT ![e] = x]

(* A step that sets up or accepts a connection touches no port that exists *)
(* already.                                                                *)
LEMMA ConnectionsAndPorts ==
  ASSUME Types, SetUp, BacklogIsQueued, [Next]_vars, ~(PortsStep /\ UNCHANGED setupVars)
  PROVE  /\ UNCHANGED <<iclosed, oclosed, outbuf, unread, ipc, opc, why, pipe, shut, eof, torn, failedClose>>
         /\ \/ UNCHANGED <<iopen, oopen, fdOpen>>
            \/ \E e \in Ends : Opens(e) \/ Touches(e)
<1> USE DEF setupVars, ioVars, portVars, readVars, writeVars, sockVars, histVars, bounds
<1>0. fdOpen \in [Ends -> BOOLEAN] /\ \A k \in Conns : Client(k) \in Ends /\ Server(k) \in Ends
  BY EndsOfConns DEF Types, FlagTypes
<1>1. ASSUME NEW k \in Conns, ConnectStep(k) \/ Handshake(k) \/ Refuse(k)
      PROVE  \/ UNCHANGED <<iopen, oopen, fdOpen>>
             \/ \E e \in Ends : Opens(e) \/ Touches(e)
  <2>1. CASE Connect(k) \/ ConnectFails(k)
    <3>1. NoPorts(Client(k)) /\ UNCHANGED <<iopen, oopen>>
      BY <2>1 DEF Connect, ConnectFails, SetUp
    <3>2. \/ fdOpen' = fdOpen
          \/ \E x \in BOOLEAN : fdOpen' = [fdOpen EXCEPT ![Client(k)] = x]
      BY <2>1 DEF Connect, ConnectFails
    <3>3. fdOpen' = fdOpen \/ Touches(Client(k))
      BY <3>1, <3>2 DEF Touches
    <3> QED
      BY <1>0, <3>1, <3>3
  <2>2. CASE ConnectReturns(k)
    <3>1. /\ NoPorts(Client(k)) /\ fdOpen' = fdOpen /\ fdOpen[Client(k)] = TRUE
          /\ iopen' = [iopen EXCEPT ![Client(k)] = TRUE] /\ oopen' = [oopen EXCEPT ![Client(k)] = TRUE]
      BY <1>0, <2>2 DEF ConnectReturns, OpenPorts, SetUp
    <3>2. fdOpen' = [fdOpen EXCEPT ![Client(k)] = TRUE]
      BY <1>0, <3>1
    <3> QED
      BY <1>0, <3>1, <3>2 DEF Opens
  <2>3. CASE ConnectWoken(k) \/ Handshake(k) \/ Refuse(k)
    BY <2>3 DEF ConnectWoken, Handshake, Refuse
  <2> QED
    BY <1>1, <2>1, <2>2, <2>3 DEF ConnectStep
<1>2. ASSUME NEW a \in Acceptors, AcceptStep(a)
      PROVE  \/ UNCHANGED <<iopen, oopen, fdOpen>>
             \/ \E e \in Ends : Opens(e) \/ Touches(e)
  <2>1. CASE AcceptReturns(a)
    <3>1. PICK k \in Conns : k = Head(backlog)
      BY <2>1, AcceptedIsNew
    <3>2. Opens(Server(k))
      BY <2>1, <3>1, AcceptedIsNew DEF AcceptReturns, Opens
    <3> QED
      BY <1>0, <3>2
  <2>2. CASE Accept(a) \/ AcceptBlocks(a) \/ AcceptInterrupted(a) \/ AcceptFails(a)
    BY <2>2 DEF Accept, AcceptBlocks, AcceptInterrupted, AcceptFails
  <2> QED
    BY <1>2, <2>1, <2>2 DEF AcceptStep
<1>3. CASE AcceptWoken \/ CloseListener \/ UNCHANGED vars
  BY <1>3 DEF AcceptWoken, CloseListener, vars
<1>4. ASSUME NEW k \in Conns, ConnectStep(k) \/ Handshake(k) \/ Refuse(k)
      PROVE  UNCHANGED <<iclosed, oclosed, outbuf, unread, ipc, opc, why, pipe, shut, eof, torn, failedClose>>
  BY <1>4 DEF ConnectStep, Connect, ConnectWoken, ConnectReturns, OpenPorts, ConnectFails, Handshake, Refuse
<1>5. ASSUME NEW a \in Acceptors, AcceptStep(a)
      PROVE  UNCHANGED <<iclosed, oclosed, outbuf, unread, ipc, opc, why, pipe, shut, eof, torn, failedClose>>
  BY <1>5 DEF AcceptStep, Accept, AcceptReturns, AcceptBlocks, AcceptInterrupted, AcceptFails
<1>6. CASE AcceptWoken \/ CloseListener \/ UNCHANGED vars
  BY <1>6 DEF AcceptWoken, CloseListener, vars
<1> QED
  BY <1>1, <1>2, <1>3, <1>4, <1>5, <1>6 DEF Next

(* Every step keeps ports and descriptors in agreement.                    *)
LEMMA PortsExistStep ==
  ASSUME Types, SetUp, BacklogIsQueued, ClosingIsClosed, PortsExist, [Next]_vars
  PROVE  PortsExist'
<1> USE DEF setupVars, ioVars, portVars, readVars, writeVars, sockVars, histVars, bounds
<1>0. /\ FlagTypes /\ opc \in [Ends -> {"user", "send", "wait"}] /\ ipc \in [Ends -> {"user", "read", "wait"}]
  BY DEF Types, CallTypes
<1>1. CASE ~(PortsStep /\ UNCHANGED setupVars)
  <2>1. UNCHANGED <<iclosed, oclosed, ipc, opc, torn, failedClose>>
    BY <1>1, ConnectionsAndPorts
  <2>2. CASE UNCHANGED <<iopen, oopen, fdOpen>>
    BY <2>1, <2>2 DEF PortsExist
  <2>3. ASSUME NEW e \in Ends, Opens(e) PROVE PortsExist'
    BY <1>0, <2>1, <2>3 DEF Opens, NoPorts, PortsExist, FlagTypes
  <2>4. ASSUME NEW e \in Ends, Touches(e) PROVE PortsExist'
    BY <1>0, <2>1, <2>4 DEF Touches, NoPorts, PortsExist, FlagTypes
  <2> QED
    BY <1>1, <2>2, <2>3, <2>4, ConnectionsAndPorts
<1>2. ASSUME NEW e \in Ends, CloseInput(e) PROVE PortsExist'
  <2>1. /\ iopen[e] /\ ipc[e] = "user"
        /\ iopen' = [iopen EXCEPT ![e] = FALSE] /\ iclosed' = [iclosed EXCEPT ![e] = TRUE]
        /\ fdOpen' = [fdOpen EXCEPT ![e] = fdOpen[e] /\ ~oclosed[e]]
        /\ torn' = IF oclosed[e] /\ opc[e] # "user" THEN torn \union {e} ELSE torn
        /\ UNCHANGED <<oopen, oclosed, ipc, opc, failedClose>>
    BY <1>2 DEF CloseInput
  <2> QED
    BY <1>0, <2>1 DEF PortsExist, ClosingIsClosed, FlagTypes
<1>3. ASSUME NEW e \in Ends, CloseOutput(e) PROVE PortsExist'
  <2>1. /\ oopen[e] /\ opc[e] = "user"
        /\ oopen' = [oopen EXCEPT ![e] = FALSE] /\ oclosed' = [oclosed EXCEPT ![e] = TRUE]
        /\ \/ opc' = [opc EXCEPT ![e] = "send"] /\ fdOpen' = fdOpen
           \/ opc' = opc /\ fdOpen' = [fdOpen EXCEPT ![e] = fdOpen[e] /\ ~iclosed[e]]
        /\ UNCHANGED <<iopen, iclosed, ipc, torn, failedClose>>
    BY <1>3 DEF CloseOutput, Output, ShutDown
  <2> QED
    BY <1>0, <2>1 DEF PortsExist, ClosingIsClosed, FlagTypes
<1>4. ASSUME NEW e \in Ends, OutputReturns(e) PROVE PortsExist'
  <2>1. /\ opc[e] # "user" /\ opc' = [opc EXCEPT ![e] = "user"]
        /\ \/ why[e] = "close" /\ fdOpen' = [fdOpen EXCEPT ![e] = fdOpen[e] /\ ~iclosed[e]]
           \/ why[e] # "close" /\ fdOpen' = fdOpen
        /\ UNCHANGED <<iopen, iclosed, oopen, oclosed, ipc, torn, failedClose>>
    BY <1>4 DEF OutputReturns, ShutDown
  <2> QED
    BY <1>0, <2>1 DEF PortsExist, ClosingIsClosed, FlagTypes
<1>5. ASSUME NEW e \in Ends, SendFails(e) \/ WriteTimesOut(e) PROVE PortsExist'
  <2>1. /\ opc[e] # "user" /\ opc' = [opc EXCEPT ![e] = "user"] /\ torn \subseteq torn'
        /\ failedClose' = IF why[e] = "close" THEN failedClose \union {e} ELSE failedClose
        /\ UNCHANGED <<iopen, iclosed, oopen, oclosed, ipc, fdOpen>>
    BY <1>5 DEF SendFails, WriteTimesOut, OutputRaises
  <2> QED
    BY <1>0, <2>1 DEF PortsExist, ClosingIsClosed, FlagTypes
<1>6. ASSUME NEW e \in Ends, \/ \E n \in 1 .. 2 : StartRead(e, n)
                             \/ ReadStep(e) \/ ReadTimesOut(e)
      PROVE  PortsExist'
  <2>1. /\ iopen[e] /\ torn \subseteq torn' /\ \E x \in {"user", "read", "wait"} : ipc' = [ipc EXCEPT ![e] = x]
    <3>1. CASE RecvFails(e) \/ ReadTimesOut(e)
      BY <1>0, <3>1 DEF RecvFails, ReadTimesOut, ReadRaises, PortsExist
    <3>2. CASE Take(e) \/ RecvEof(e) \/ RecvWait(e) \/ ReadWoken(e) \/ \E n \in 1 .. 2 : StartRead(e, n)
      BY <1>0, <3>2 DEF Take, RecvEof, RecvWait, ReadWoken, StartRead, PortsExist
    <3>3. CASE Recv(e)
      BY <1>0, <3>3 DEF Recv, PortsExist
    <3> QED
      BY <1>6, <3>1, <3>2, <3>3 DEF ReadStep
  <2>2. UNCHANGED <<iopen, iclosed, oopen, oclosed, opc, fdOpen, failedClose>>
    BY <1>6 DEF ReadStep, Take, Recv, RecvEof, RecvWait, ReadWoken, StartRead, RecvFails, ReadTimesOut, ReadRaises
  <2> QED
    BY <1>0, <2>1, <2>2 DEF PortsExist, FlagTypes
<1>7. ASSUME NEW e \in Ends, \/ \E n \in 1 .. 2 : Write(e, n)
                             \/ Flush(e) \/ Send(e) \/ SendWait(e) \/ SendWoken(e)
      PROVE  PortsExist'
  <2>1. oopen[e] \/ opc[e] # "user"
    BY <1>7 DEF Write, Flush, Send, SendWait, SendWoken
  <2>2. opc' = opc \/ \E x \in {"send", "wait"} : opc' = [opc EXCEPT ![e] = x]
    BY <1>7 DEF Write, Flush, Send, SendWait, SendWoken, Output
  <2>3. UNCHANGED <<iopen, iclosed, oopen, oclosed, ipc, fdOpen, torn, failedClose>>
    BY <1>7 DEF Write, Flush, Send, SendWait, SendWoken
  <2> QED
    BY <1>0, <2>1, <2>2, <2>3 DEF PortsExist, FlagTypes
<1>8. ASSUME NEW e \in Ends, ReadBuffered(e) \/ AbandonPort(e) PROVE PortsExist'
  BY <1>8 DEF ReadBuffered, AbandonPort, PortsExist
<1> QED
  BY <1>1, <1>2, <1>3, <1>4, <1>5, <1>6, <1>7, <1>8 DEF PortsStep, UseStep, WriteStep

(* Every step keeps flags, buffers and calls that close in agreement.      *)
LEMMA ClosingStep ==
  ASSUME Types, SetUp, BacklogIsQueued, PortsExist, ClosingIsClosed, [Next]_vars
  PROVE  ClosingIsClosed'
<1> USE DEF setupVars, ioVars, portVars, readVars, writeVars, sockVars, histVars, bounds
<1>0. /\ FlagTypes /\ opc \in [Ends -> {"user", "send", "wait"}]
      /\ why \in [Ends -> {"write", "flush", "close"}]
      /\ outbuf \in [Ends -> Seq(Nat)]
  BY DEF Types, CallTypes, ByteTypes
<1>1. CASE ~(PortsStep /\ UNCHANGED setupVars)
  <2>1. UNCHANGED <<iclosed, oclosed, outbuf, opc, why, shut, torn, failedClose>>
    BY <1>1, ConnectionsAndPorts
  <2>2. CASE UNCHANGED <<iopen, oopen, fdOpen>>
    BY <2>1, <2>2 DEF ClosingIsClosed
  <2>3. ASSUME NEW e \in Ends, Opens(e) PROVE ClosingIsClosed'
    BY <1>0, <2>1, <2>3 DEF Opens, NoPorts, ClosingIsClosed, FlagTypes
  <2>4. ASSUME NEW e \in Ends, Touches(e) PROVE ClosingIsClosed'
    BY <2>1, <2>4 DEF Touches, ClosingIsClosed
  <2> QED
    BY <1>1, <2>2, <2>3, <2>4, ConnectionsAndPorts
<1>2. ASSUME NEW e \in Ends, CloseInput(e) PROVE ClosingIsClosed'
  <2>1. /\ iopen' = [iopen EXCEPT ![e] = FALSE] /\ iclosed' = [iclosed EXCEPT ![e] = TRUE]
        /\ shut' = [shut EXCEPT ![e] = shut[e] \/ oclosed[e]]
        /\ torn' = IF oclosed[e] /\ opc[e] # "user" THEN torn \union {e} ELSE torn
        /\ UNCHANGED <<oopen, oclosed, opc, why, outbuf, failedClose>>
    BY <1>2 DEF CloseInput
  <2> QED
    BY <1>0, <2>1 DEF ClosingIsClosed, FlagTypes
<1>3. ASSUME NEW e \in Ends, CloseOutput(e) PROVE ClosingIsClosed'
  <2>1. /\ oopen[e] /\ opc[e] = "user"
        /\ oopen' = [oopen EXCEPT ![e] = FALSE] /\ oclosed' = [oclosed EXCEPT ![e] = TRUE]
        /\ UNCHANGED <<iopen, iclosed, outbuf, torn, failedClose>>
        /\ \/ /\ opc' = [opc EXCEPT ![e] = "send"] /\ why' = [why EXCEPT ![e] = "close"]
              /\ shut' = shut
           \/ /\ outbuf[e] = <<>> /\ UNCHANGED <<opc, why>>
              /\ shut' = [shut EXCEPT ![e] = shut[e] \/ ~abandoned[e] \/ iclosed[e]]
    BY <1>3 DEF CloseOutput, Output, ShutDown
  <2> QED
    BY <1>0, <2>1 DEF ClosingIsClosed, FlagTypes
<1>4. ASSUME NEW e \in Ends, OutputReturns(e) PROVE ClosingIsClosed'
  <2>1. /\ opc[e] # "user" /\ opc' = [opc EXCEPT ![e] = "user"]
        /\ why' = [why EXCEPT ![e] = "write"] /\ outbuf' = [outbuf EXCEPT ![e] = <<>>]
        /\ \/ why[e] = "close" /\ shut' = [shut EXCEPT ![e] = shut[e] \/ ~abandoned[e] \/ iclosed[e]]
           \/ why[e] # "close" /\ shut' = shut
        /\ UNCHANGED <<iopen, iclosed, oopen, oclosed, torn, failedClose>>
    BY <1>4 DEF OutputReturns, ShutDown
  <2> QED
    BY <1>0, <2>1 DEF ClosingIsClosed, FlagTypes
<1>5. ASSUME NEW e \in Ends, SendFails(e) \/ WriteTimesOut(e) PROVE ClosingIsClosed'
  <2>1. /\ opc[e] # "user" /\ opc' = [opc EXCEPT ![e] = "user"]
        /\ why' = [why EXCEPT ![e] = "write"]
        /\ torn \subseteq torn'
        /\ failedClose' = IF why[e] = "close" THEN failedClose \union {e} ELSE failedClose
        /\ UNCHANGED <<iopen, iclosed, oopen, oclosed, outbuf, shut>>
    BY <1>5 DEF SendFails, WriteTimesOut, OutputRaises
  <2> QED
    BY <1>0, <2>1 DEF ClosingIsClosed, FlagTypes
<1>6. ASSUME NEW e \in Ends, \/ \E n \in 1 .. 2 : Write(e, n)
                             \/ Flush(e)
      PROVE  ClosingIsClosed'
  <2>1. /\ oopen[e] /\ opc[e] = "user"
        /\ \/ /\ opc' = [opc EXCEPT ![e] = "send"]
              /\ \E x \in {"write", "flush"} : why' = [why EXCEPT ![e] = x]
           \/ UNCHANGED <<opc, why>>
        /\ \A d \in Ends \ {e} : outbuf'[d] = outbuf[d]
        /\ UNCHANGED <<iopen, iclosed, oopen, oclosed, shut, torn, failedClose>>
    BY <1>0, <1>6 DEF Write, Flush, Output
  <2> QED
    BY <1>0, <2>1 DEF ClosingIsClosed, FlagTypes
<1>7. ASSUME NEW e \in Ends, SendWait(e) \/ SendWoken(e) PROVE ClosingIsClosed'
  <2>1. opc[e] # "user" /\ \E x \in {"send", "wait"} : opc' = [opc EXCEPT ![e] = x]
    BY <1>7 DEF SendWait, SendWoken
  <2>2. UNCHANGED <<iopen, iclosed, oopen, oclosed, why, outbuf, shut, torn, failedClose>>
    BY <1>7 DEF SendWait, SendWoken
  <2> QED
    BY <1>0, <2>1, <2>2 DEF ClosingIsClosed
<1>8. ASSUME NEW e \in Ends,
             \/ \E n \in 1 .. 2 : StartRead(e, n)
             \/ ReadBuffered(e) \/ AbandonPort(e) \/ ReadStep(e) \/ ReadTimesOut(e) \/ Send(e)
      PROVE  ClosingIsClosed'
  <2>1. UNCHANGED <<iopen, iclosed, oopen, oclosed, opc, why, outbuf, shut, failedClose>> /\ torn \subseteq torn'
    BY <1>8 DEF StartRead, ReadBuffered, AbandonPort, ReadStep, Take, Recv, RecvEof, RecvWait, ReadWoken,
       RecvFails, ReadTimesOut, ReadRaises, Send
  <2> QED
    BY <2>1 DEF ClosingIsClosed
<1> QED
  BY <1>1, <1>2, <1>3, <1>4, <1>5, <1>6, <1>7, <1>8 DEF PortsStep, UseStep, WriteStep

(* The end of file is seen when the pipe is empty and shut down; nothing   *)
(* enters it afterwards.                                                   *)
LEMMA EofStep ==
  ASSUME Types, SetUp, BacklogIsQueued, ClosingIsClosed, TakenOnlyInACall, EofDone, [Next]_vars
  PROVE  EofDone'
<1> USE DEF setupVars, ioVars, portVars, readVars, writeVars, sockVars, histVars, bounds
<1>0. /\ FlagTypes /\ ipc \in [Ends -> {"user", "read", "wait"}]
      /\ unread \in [Ends -> Seq(Nat)] /\ pipe \in [Ends -> Seq(Nat)]
      /\ \A e \in Ends : Peer(e) \in Ends /\ Peer(Peer(e)) = e
  BY EndsOfConns DEF Types, CallTypes, ByteTypes
<1>1. CASE ~(PortsStep /\ UNCHANGED setupVars)
  <2>1. UNCHANGED <<unread, ipc, pipe, shut, eof, torn, failedClose>>
    BY <1>1, ConnectionsAndPorts
  <2> QED
    BY <2>1 DEF EofDone
<1>2. ASSUME NEW e \in Ends, RecvEof(e) PROVE EofDone'
  <2>1. /\ unread[e] = <<>> /\ pipe[Peer(e)] = <<>> /\ shut[Peer(e)]
        /\ ipc' = [ipc EXCEPT ![e] = "user"]
        /\ \E x \in BOOLEAN : eof' = [eof EXCEPT ![e] = x]
        /\ UNCHANGED <<unread, pipe, shut, torn, failedClose>>
    BY <1>2 DEF RecvEof
  <2> QED
    BY <1>0, <2>1 DEF EofDone, FlagTypes
<1>3. ASSUME NEW e \in Ends, Send(e) PROVE EofDone'
  <2>1. /\ opc[e] # "user" /\ \A d \in Ends \ {e} : pipe'[d] = pipe[d]
        /\ UNCHANGED <<ipc, unread, eof, shut, torn, failedClose>>
    BY <1>0, <1>3 DEF Send
  <2>2. shut[e] => e \in torn \union failedClose
    BY <2>1 DEF ClosingIsClosed
  <2> QED
    BY <1>0, <2>1, <2>2 DEF EofDone
<1>4. ASSUME NEW e \in Ends, CloseInput(e) \/ CloseOutput(e) \/ OutputReturns(e) PROVE EofDone'
  <2>1. /\ \A d \in Ends : shut[d] => shut'[d]
        /\ torn \subseteq torn' /\ UNCHANGED <<ipc, unread, eof, pipe, failedClose>>
    BY <1>0, <1>4 DEF CloseInput, CloseOutput, OutputReturns, ShutDown, FlagTypes
  <2> QED
    BY <1>0, <2>1 DEF EofDone
<1>5. ASSUME NEW e \in Ends, SendFails(e) \/ WriteTimesOut(e) PROVE EofDone'
  <2>1. /\ torn \subseteq torn' /\ failedClose \subseteq failedClose'
        /\ UNCHANGED <<ipc, unread, eof, pipe, shut>>
    BY <1>5 DEF SendFails, WriteTimesOut, OutputRaises
  <2> QED
    BY <1>0, <2>1 DEF EofDone
<1>6. ASSUME NEW e \in Ends, \/ \E n \in 1 .. 2 : StartRead(e, n)
                             \/ Take(e) \/ RecvWait(e) \/ ReadWoken(e) \/ RecvFails(e) \/ ReadTimesOut(e)
                             \/ ReadBuffered(e)
      PROVE  EofDone'
  <2>1. ~eof[e]
    <3>1. CASE \E n \in 1 .. 2 : StartRead(e, n)
      BY <3>1 DEF StartRead
    <3>2. CASE ReadBuffered(e)
      BY <3>2 DEF ReadBuffered, EofDone
    <3>3. CASE Take(e) \/ RecvWait(e) \/ ReadWoken(e) \/ RecvFails(e) \/ ReadTimesOut(e)
      BY <3>3 DEF Take, RecvWait, ReadWoken, RecvFails, ReadTimesOut, EofDone
    <3> QED
      BY <1>6, <3>1, <3>2, <3>3
  <2>2. \A d \in Ends \ {e} : ipc'[d] = ipc[d] /\ unread'[d] = unread[d]
    BY <1>0, <1>6 DEF StartRead, Take, RecvWait, ReadWoken, RecvFails, ReadTimesOut, ReadRaises, ReadBuffered
  <2>3. torn \subseteq torn' /\ UNCHANGED <<eof, pipe, shut, failedClose>>
    BY <1>6 DEF StartRead, Take, RecvWait, ReadWoken, RecvFails, ReadTimesOut, ReadRaises, ReadBuffered
  <2> QED
    BY <1>0, <2>1, <2>2, <2>3 DEF EofDone
<1>7. ASSUME NEW e \in Ends, Recv(e) PROVE EofDone'
  <2>1. /\ ipc[e] = "read" /\ pipe[Peer(e)] # <<>>
        /\ \A d \in Ends \ {e} : unread'[d] = unread[d]
        /\ \A d \in Ends \ {Peer(e)} : pipe'[d] = pipe[d]
        /\ UNCHANGED <<ipc, eof, shut, torn, failedClose>>
    BY <1>0, <1>7 DEF Recv
  <2> QED
    BY <1>0, <2>1 DEF EofDone
<1>8. ASSUME NEW e \in Ends, \/ \E n \in 1 .. 2 : Write(e, n)
                             \/ Flush(e) \/ AbandonPort(e) \/ SendWait(e) \/ SendWoken(e)
      PROVE  EofDone'
  <2>1. UNCHANGED <<ipc, unread, eof, pipe, shut, torn, failedClose>>
    BY <1>8 DEF Write, Flush, AbandonPort, SendWait, SendWoken
  <2> QED
    BY <2>1 DEF EofDone
<1> QED
  BY <1>1, <1>2, <1>3, <1>4, <1>5, <1>6, <1>7, <1>8 DEF PortsStep, UseStep, ReadStep, WriteStep

(* What holds of connections, ports, calls and bytes in every state.       *)
TcpInv ==
  /\ Types
  /\ TakenOnlyInACall /\ CallsAreShort /\ Streams
  /\ ClosingIsClosed /\ EofDone /\ PortsExist /\ SetUp /\ BacklogIsQueued

(* The invariant holds at first,                                           *)
LEMMA TcpInvInit == Init => TcpInv
<1> SUFFICES ASSUME Init PROVE TcpInv
  OBVIOUS
<1>1. Types /\ TakenOnlyInACall /\ CallsAreShort /\ Streams
  BY TypesInit, BytesInit
<1>2. ClosingIsClosed /\ EofDone /\ PortsExist /\ SetUp
  BY EndsOfConns DEF Init, PortsInit, ClosingIsClosed, EofDone, PortsExist, SetUp, NoPorts
<1>3. BacklogIsQueued
  BY DEF Init, BacklogIsQueued
<1> QED
  BY <1>1, <1>2, <1>3 DEF TcpInv

(* and every step keeps it.                                                *)
LEMMA TcpInvStep == TcpInv /\ [Next]_vars => TcpInv'
BY TypesStep, CallsStep, StreamsStep, ClosingStep, EofStep, PortsExistStep, SetUpStep, BacklogStep DEF TcpInv

(* The invariant holds in every state, for any connections, accepting      *)
(* threads, buffer sizes, timeouts and bounds.                             *)
THEOREM TcpInvariance == Spec => []TcpInv
BY TcpInvInit, TcpInvStep, PTL DEF Spec

(* Every byte written at one end is read once and in order at the other,   *)
(* or is still on its way, in the buffers of the ports, in a call or in    *)
(* the kernel, unless a call failed that had done part of its work; and no *)
(* read delivers more than it was asked for.                               *)
THEOREM NoByteIsLost == Spec => []NothingLost
<1>1. TcpInv => NothingLost
  BY DEF TcpInv, CallsAreShort, Streams, Stream, NothingLost
<1> QED
  BY <1>1, TcpInvariance, PTL

(* A read returns end-of-file only after everything written at the other   *)
(* end, and only once that end's output port is closed, unless a call      *)
(* there failed: a close flushes before it shuts the connection down.      *)
THEOREM EofComesLast == Spec => []EofIsEnd
<1>1. ASSUME TcpInv, NEW e \in Ends, eof[Peer(e)], e \notin torn \union failedClose
      PROVE  oclosed[e] /\ got[Peer(e)] = Upto(written[e])
  <2>1. Types /\ Peer(e) \in Ends /\ Peer(Peer(e)) = e
    BY <1>1, EndsOfConns DEF TcpInv
  <2>2. ipc[Peer(e)] = "user" /\ unread[Peer(e)] = <<>> /\ pipe[e] = <<>> /\ shut[e]
    BY <1>1, <2>1 DEF TcpInv, EofDone
  <2>3. oclosed[e] /\ opc[e] = "user" /\ outbuf[e] = <<>> /\ taken[Peer(e)] = <<>>
    BY <1>1, <2>1, <2>2 DEF TcpInv, ClosingIsClosed, TakenOnlyInACall
  <2>4. got[Peer(e)] \in Seq(Nat)
    BY <2>1, StreamPieces
  <2>5. Stream(e) = got[Peer(e)] \o <<>> \o <<>> \o <<>> \o <<>>
    BY <2>2, <2>3 DEF Stream, Unsent
  <2>6. got[Peer(e)] \o <<>> = got[Peer(e)]
    BY <2>4, ConcatEmptySeq
  <2>7. Stream(e) = Upto(written[e])
    BY <1>1 DEF TcpInv, Streams
  <2> QED
    BY <2>3, <2>5, <2>6, <2>7
<1>2. TcpInv => EofIsEnd
  BY <1>1 DEF EofIsEnd
<1> QED
  BY <1>2, TcpInvariance, PTL

(* A descriptor stays open while a thread reads or sends through it, and   *)
(* is closed with the second of its ports, unless that close failed.       *)
THEOREM DescriptorsLiveAsLongAsPorts == Spec => []DescriptorsFollowPorts
<1>1. TcpInv => DescriptorsFollowPorts
  BY DEF TcpInv, PortsExist, DescriptorsFollowPorts
<1> QED
  BY <1>1, TcpInvariance, PTL

-----------------------------------------------------------------------------
(* What was sent went through a connection.                                *)

(* Some byte written at end e has left the thread that wrote it.           *)
Reached(e) ==
  \/ got[Peer(e)] # <<>> \/ taken[Peer(e)] # <<>> \/ unread[Peer(e)] # <<>> \/ pipe[e] # <<>>

(* Only connections that were established have carried anything.           *)
Connected == \A e \in Ends : Reached(e) => net[e[1]] \notin {"none", "syn", "refused"}

(* A connection that is established is never one to be established again,  *)
(* or refused.                                                             *)
LEMMA NetStep ==
  ASSUME TcpInv, [Next]_vars, NEW k \in Conns, net[k] \notin {"none", "syn", "refused"}
  PROVE  net'[k] \notin {"none", "syn", "refused"}
<1> USE DEF setupVars, ioVars, portVars, readVars, writeVars, sockVars, histVars, bounds
<1>0. /\ net \in [Conns -> {"none", "syn", "queued", "accepted", "refused", "reset"}]
      /\ \A m \in Conns : net[m] = "none" <=> cpc[m] = "user"
  BY DEF TcpInv, Types, CallTypes, SetUp
<1>1. ASSUME NEW m \in Conns, ConnectStep(m) \/ Handshake(m) \/ Refuse(m)
      PROVE  net'[k] \notin {"none", "syn", "refused"}
  <2>1. CASE net' = net
    BY <2>1
  <2>2. ASSUME net' # net PROVE net[m] \in {"none", "syn"} /\ \E x : net' = [net EXCEPT ![m] = x]
    BY <1>0, <1>1, <2>2 DEF ConnectStep, Connect, ConnectWoken, ConnectReturns, OpenPorts,
       ConnectFails, Handshake, Refuse
  <2> QED
    BY <1>0, <2>1, <2>2
<1>2. ASSUME NEW a \in Acceptors, AcceptStep(a)
      PROVE  net'[k] \notin {"none", "syn", "refused"}
  BY <1>0, <1>2 DEF AcceptStep, Accept, AcceptReturns, AcceptBlocks, AcceptInterrupted, AcceptFails
<1>3. CASE AcceptWoken \/ CloseListener \/ UNCHANGED vars
  BY <1>0, <1>3 DEF AcceptWoken, CloseListener, vars
<1>4. ASSUME NEW e \in Ends,
             UseStep(e) \/ ReadStep(e) \/ WriteStep(e) \/ ReadTimesOut(e) \/ WriteTimesOut(e)
      PROVE  net' = net
  BY <1>4 DEF UseStep, ReadStep, WriteStep, StartRead, Write, ReadBuffered, Flush, CloseInput,
     CloseOutput, AbandonPort, Take, Recv, RecvEof, RecvWait, ReadWoken, RecvFails, ReadTimesOut,
     ReadRaises, Send, SendWait, SendWoken, OutputReturns, SendFails, WriteTimesOut, OutputRaises
<1> QED
  BY <1>1, <1>2, <1>3, <1>4 DEF Next, PortsStep

(* A byte leaves its writer by send only, on a connection.                 *)
LEMMA ReachedStep ==
  ASSUME TcpInv, [Next]_vars, NEW e \in Ends, Reached(e)'
  PROVE  Reached(e) \/ net[e[1]] \notin {"none", "syn", "refused"}
<1> USE DEF setupVars, ioVars, portVars, readVars, writeVars, sockVars, histVars, bounds
<1>0. /\ Types /\ ByteTypes
      /\ \A d \in Ends : Peer(d) \in Ends /\ Peer(Peer(d)) = d
      /\ e[1] \in Conns
  BY EndsOfConns DEF TcpInv, Types
<1>1. ASSUME NEW d \in Ends, \/ \E n \in 1 .. 2 : StartRead(d, n) \/ Write(d, n)
                             \/ Flush(d) \/ CloseOutput(d) \/ OutputReturns(d)
                             \/ SendFails(d) \/ WriteTimesOut(d)
      PROVE  Reached(e)
  <2>1. UNCHANGED <<got, taken, unread, pipe>>
    BY <1>1 DEF StartRead, Write, Flush, CloseOutput, OutputReturns, SendFails, WriteTimesOut,
       OutputRaises
  <2> QED
    BY <2>1 DEF Reached
<1>2. ASSUME NEW d \in Ends, ReadBuffered(d) \/ Take(d)
      PROVE  Reached(e)
  <2>1. /\ unread[d] # <<>> /\ pipe' = pipe
        /\ \A c \in Ends \ {d} : /\ got'[c] = got[c] /\ taken'[c] = taken[c]
                                /\ unread'[c] = unread[c]
    BY <1>0, <1>2 DEF ReadBuffered, Take, ByteTypes
  <2> QED
    BY <1>0, <2>1 DEF Reached
<1>3. ASSUME NEW d \in Ends, Recv(d)
      PROVE  Reached(e)
  <2>1. /\ pipe[Peer(d)] # <<>> /\ got' = got /\ taken' = taken
        /\ \A c \in Ends \ {d} : unread'[c] = unread[c]
        /\ \A c \in Ends \ {Peer(d)} : pipe'[c] = pipe[c]
    BY <1>0, <1>3 DEF Recv, ByteTypes
  <2> QED
    BY <1>0, <2>1 DEF Reached
<1>4. ASSUME NEW d \in Ends, RecvEof(d)
      PROVE  Reached(e)
  <2>1. /\ unread' = unread /\ pipe' = pipe /\ taken'[d] = <<>> /\ got'[d] = got[d] \o taken[d]
        /\ \A c \in Ends \ {d} : got'[c] = got[c] /\ taken'[c] = taken[c]
    BY <1>0, <1>4 DEF RecvEof, ByteTypes
  <2>2. got[d] = <<>> /\ taken[d] = <<>> => got'[d] = <<>>
    BY <2>1, EmptyEnd
  <2> QED
    BY <1>0, <2>1, <2>2 DEF Reached
<1>5. ASSUME NEW d \in Ends, RecvFails(d) \/ ReadTimesOut(d)
      PROVE  Reached(e)
  <2>1. /\ UNCHANGED <<got, unread, pipe>> /\ taken'[d] = <<>>
        /\ \A c \in Ends \ {d} : taken'[c] = taken[c]
    BY <1>0, <1>5 DEF RecvFails, ReadTimesOut, ReadRaises, ByteTypes
  <2> QED
    BY <1>0, <2>1 DEF Reached
<1>6. ASSUME NEW d \in Ends, Send(d)
      PROVE  Reached(e) \/ net[e[1]] \notin {"none", "syn", "refused"}
  <2>1. /\ net[d[1]] \in {"queued", "accepted"} /\ UNCHANGED <<got, taken, unread>>
        /\ \A c \in Ends \ {d} : pipe'[c] = pipe[c]
    BY <1>0, <1>6 DEF Send, ByteTypes
  <2> QED
    BY <2>1 DEF Reached
<1>7. CASE UNCHANGED byteVars
  BY <1>7 DEF byteVars, Reached
<1> QED
  BY <1>1, <1>2, <1>3, <1>4, <1>5, <1>6, <1>7, OtherBytes DEF ByteStep

(* A thread that closes an output port and is told of no error has sent    *)
(* everything through a connection: a flush that fails leaves its bytes in *)
(* the buffer, where the close finds them, and fails in turn.              *)
THEOREM LossesAreReported == Spec => []CloseReportsLoss
<1>1. Init => Connected
  BY EndsOfConns DEF Init, PortsInit, Connected, Reached
<1>2. TcpInv /\ Connected /\ [Next]_vars => Connected'
  <2> SUFFICES ASSUME TcpInv, Connected, [Next]_vars, NEW e \in Ends, Reached(e)'
               PROVE  net'[e[1]] \notin {"none", "syn", "refused"}
    BY DEF Connected
  <2>1. net[e[1]] \notin {"none", "syn", "refused"}
    BY ReachedStep DEF Connected
  <2> QED
    BY <2>1, NetStep, EndsOfConns
<1>3. TcpInv /\ Connected => CloseReportsLoss
  <2> SUFFICES ASSUME TcpInv, Connected, NEW e \in Ends,
                      oclosed[e], opc[e] = "user", e \notin failedClose
               PROVE  /\ outbuf[e] = <<>>
                      /\ e \notin torn /\ written[e] > 0 => net[e[1]] \notin {"syn", "refused"}
    BY DEF CloseReportsLoss
  <2>1. outbuf[e] = <<>>
    BY DEF TcpInv, ClosingIsClosed
  <2>2. ASSUME e \notin torn, written[e] > 0 PROVE Reached(e)
    <3>1. Stream(e) = Upto(written[e]) /\ written[e] \in Nat
      BY <2>2 DEF TcpInv, Streams, Types, ByteTypes
    <3>2. Len(Upto(written[e])) = written[e]
      BY <3>1 DEF Upto
    <3>3. ASSUME ~Reached(e) PROVE FALSE
      <4>1. Stream(e) = <<>> \o <<>> \o <<>> \o <<>> \o <<>>
        BY <2>1, <3>3 DEF Reached, Stream, Unsent
      <4>2. <<>> \o <<>> = <<>>
        OBVIOUS
      <4>3. Stream(e) = <<>>
        BY <4>1, <4>2
      <4> QED
        BY <2>2, <3>1, <3>2, <4>3
    <3> QED
      BY <3>3
  <2> QED
    BY <2>1, <2>2 DEF Connected
<1> QED
  BY <1>1, <1>2, <1>3, TcpInvariance, PTL DEF Spec
=============================================================================
