------------------------------ MODULE RudpSocket ------------------------------
(***************************************************************************)
(* One established RUDP connection (RUDP/rudp_socket.py, class RudpSocket, *)
(* with the part of RudpServer that routes packets to it): both endpoints, *)
(* each of them a sender and a receiver, over a datagram network that may  *)
(* lose, reorder and duplicate whatever was sent.                          *)
(*                                                                         *)
(* Initially the three-way handshake has completed on both sides and the   *)
(* client's last ACK of it is still in the network (RudpHandshake models   *)
(* how the endpoints get here).  A packet with a bad CRC is dropped by     *)
(* the codec, so corruption is loss.  Time is abstracted: the RTO timer of *)
(* a waiting sender may fire at any moment.                                *)
(*                                                                         *)
(* The payload of chunk i of message k is <<k, i>>; the payload of the     *)
(* only chunk of a zero-length message is <<>>.                            *)
(***************************************************************************)
EXTENDS Integers, Sequences, FiniteSets

CONSTANTS
  MsgSizes,      \* the sizes, in chunks of MSS bytes, a message may have
  MaxMsgs,       \* how many messages each side sends: a bound for TLC
  MaxRetries,    \* MAX_RETRIES
  DupAckThresh,  \* DUP_ACK_THRESH
  WindowCap,     \* WINDOW_CAP
  RecvBufSize,   \* RECV_BUF_SIZE
  InitSsthresh,  \* INIT_SSTHRESH
  SlowSend       \* may /tmp/rudp_slowsend.json ask for a pause between batches

Side == {"client", "server"}
Peer(s) == IF s = "client" THEN "server" ELSE "client"

ASSUME ConstantsAssumption ==
  /\ MsgSizes \subseteq Nat
  /\ MaxMsgs \in [Side -> Nat]
  /\ MaxRetries \in Nat
  /\ DupAckThresh \in Nat \ {0}
  /\ WindowCap \in Nat \ {0}
  /\ RecvBufSize \in Nat
  /\ InitSsthresh \in Nat \ {0}
  /\ SlowSend \in BOOLEAN

VARIABLES
  \* what the application asked for: history, read by no action of the code
  submitted,   \* sizes of the messages handed to send()
  stream,      \* every chunk _enqueue_chunks has created; chunk q has seq q
  \* sender
  sendSeq,     \* _send_seq
  sendBuf,     \* _send_buf: seq -> the packet's chunk, frozen ack and window, retries
  firstSeq,    \* seqs[0] of the message being sent (its last is sendSeq - 1)
  nextSeq,     \* seqs[next_to_send]
  pc,          \* where the coroutine in send() is
  ackEvent,    \* _ack_event
  \* congestion and flow control
  peerWindow,  \* _peer_window
  cwnd,        \* int(_cwnd)
  ssthresh,    \* int(_ssthresh)
  dupAcks,     \* _dup_ack_count
  lastAck,     \* _last_ack
  \* receiver
  recvSeq,     \* _recv_seq
  recvOoo,     \* _recv_ooo: seq -> chunk
  absorbed,    \* every chunk _absorb_chunk has appended, in order
  taken,       \* how many messages recv() has returned
  eof,         \* messages queued ahead of the first b'' (NoEof: none queued)
  \* connection
  closed,      \* _closed
  registered,  \* is the server's socket in RudpServer._connections
  net          \* every packet ever sent: receiving one leaves it there

appVars  == <<submitted, stream>>
sndVars  == <<sendSeq, sendBuf, firstSeq, nextSeq, pc, ackEvent>>
ccVars   == <<peerWindow, cwnd, ssthresh, dupAcks, lastAck>>
rcvVars  == <<recvSeq, recvOoo, absorbed, taken, eof>>
connVars == <<closed, registered>>
vars == <<appVars, sndVars, ccVars, rcvVars, connVars, net>>

NoEof == -1
Unsent == {"idle", "failed"}     \* send() is not running

MinOf(a, b) == IF a <= b THEN a ELSE b
MaxOf(a, b) == IF a >= b THEN a ELSE b

-----------------------------------------------------------------------------
(* Chunks, messages and packets.                                           *)

Chunk == [payload : Seq(Nat), end : BOOLEAN]

ChunksOf(k, n) ==
  IF n = 0 THEN <<[payload |-> <<>>, end |-> TRUE]>>
  ELSE [i \in 1..n |-> [payload |-> <<k, i>>, end |-> i = n]]

Ends(cs) == {i \in DOMAIN cs : cs[i].end}
NumMsgs(cs) == Cardinality(Ends(cs))

\* The messages that _absorb_chunk joins out of the chunks cs: each goes up
\* to and including the next chunk with MSG_END.
EndOf(cs, j) ==
  IF j = 0 THEN 0
  ELSE CHOOSE e \in Ends(cs) : Cardinality({x \in Ends(cs) : x <= e}) = j
Messages(cs) ==
  [j \in 1..NumMsgs(cs) |-> SubSeq(cs, EndOf(cs, j - 1) + 1, EndOf(cs, j))]

\* _adv_window: 64 minus the complete messages nobody has read.
AdvWindow(cs, t) == MaxOf(0, RecvBufSize - (NumMsgs(cs) - t))

DataPkt(s, q, e) ==
  [dst |-> Peer(s), kind |-> "DATA", seq |-> q,
   chunk |-> e.chunk, ack |-> e.ack, win |-> e.win]
AckPkt(s, a, w) == [dst |-> Peer(s), kind |-> "ACK", ack |-> a, win |-> w]
FinPkt(s) == [dst |-> Peer(s), kind |-> "FIN"]
RstPkt(s) == [dst |-> Peer(s), kind |-> "RST"]

Packet ==
  [dst : Side, kind : {"DATA"}, seq : Nat, chunk : Chunk, ack : Nat, win : Nat]
    \cup [dst : Side, kind : {"ACK"}, ack : Nat, win : Nat]
    \cup [dst : Side, kind : {"FIN", "RST"}]

\* Entries of the send buffer.
Entry == [chunk : Chunk, ack : Nat, win : Nat, retries : Nat]

-----------------------------------------------------------------------------
Init ==
  /\ submitted = [s \in Side |-> <<>>]
  /\ stream = [s \in Side |-> <<>>]
  /\ sendSeq = [s \in Side |-> 1]
  /\ sendBuf = [s \in Side |-> <<>>]
  /\ firstSeq = [s \in Side |-> 1]
  /\ nextSeq = [s \in Side |-> 1]
  /\ pc = [s \in Side |-> "idle"]
  /\ ackEvent = [s \in Side |-> FALSE]
  /\ peerWindow = [s \in Side |-> IF s = "client" THEN MaxOf(1, RecvBufSize)
                                  ELSE WindowCap]
  /\ cwnd = [s \in Side |-> 1]
  /\ ssthresh = [s \in Side |-> InitSsthresh]
  /\ dupAcks = [s \in Side |-> 0]
  /\ lastAck = [s \in Side |-> 0]
  /\ recvSeq = [s \in Side |-> 1]
  /\ recvOoo = [s \in Side |-> <<>>]
  /\ absorbed = [s \in Side |-> <<>>]
  /\ taken = [s \in Side |-> 0]
  /\ eof = [s \in Side |-> NoEof]
  /\ closed = [s \in Side |-> FALSE]
  /\ registered = TRUE
  /\ net = {AckPkt("client", 1, RecvBufSize)}

-----------------------------------------------------------------------------
(* Windows.  _cwnd and _ssthresh are floats of which only the integer part *)
(* is kept; the code reads no more of _cwnd than int(_cwnd), and where the *)
(* comparison _cwnd < _ssthresh depends on the fraction both outcomes are  *)
(* possible.                                                               *)

EffectiveWindow(s) ==
  MaxOf(1, MinOf(MinOf(cwnd[s], peerWindow[s]), WindowCap))

\* n ACKed packets: slow start (+1 each) below ssthresh, then +1/cwnd each,
\* which moves the integer part by 0 or 1; the cap is applied at the end.
GrownCwnd(w, ss, n) ==
  LET least == IF w + n <= ss THEN w + n ELSE MaxOf(w, ss)
  IN  {MinOf(x, WindowCap) : x \in least..(w + n)}

\* Mutant of HalvedCwnd: no lower bound of one packet.
HalvedToZero(w) == w \div 2

HalvedCwnd(w) == MaxOf(w \div 2, 1)

-----------------------------------------------------------------------------
(* send()                                                                  *)

Unacked(s, buf) == {q \in DOMAIN buf : firstSeq[s] <= q /\ q < sendSeq[s]}

\* Mutant of FillTo: what is in flight already is not counted.
FillToUncounted(next, end, inFlight, window) == MinOf(next + window, end)

\* _fill_window: the index it stops at.  Every chunk of the message that is
\* not ACKed counts as in flight, the ones never transmitted included.  The
\* ACKed ones, which it skips, are all those before the last inFlight.
FillTo(next, end, inFlight, window) ==
  IF inFlight >= window THEN next
  ELSE MinOf(MaxOf(next, end - inFlight) + (window - inFlight), end)

Transmit(s, buf, Q) == {DataPkt(s, q, buf[q]) : q \in Q \cap DOMAIN buf}

\* After filling the window: an optional pause (only for a message of several
\* chunks), then _ack_event.clear() and the wait.
AfterFill(s, multi) ==
  \/ /\ pc' = [pc EXCEPT ![s] = "waiting"]
     /\ ackEvent' = [ackEvent EXCEPT ![s] = FALSE]
  \/ /\ SlowSend /\ multi
     /\ pc' = [pc EXCEPT ![s] = "pausing"]
     /\ UNCHANGED ackEvent

\* send(data) up to its first await: the chunks are enqueued and the window
\* filled.
Send(s, n) ==
  /\ pc[s] = "idle" /\ ~closed[s]
  /\ Len(submitted[s]) < MaxMsgs[s]
  /\ LET cs   == ChunksOf(Len(submitted[s]) + 1, n)
         lo   == sendSeq[s]
         end  == lo + Len(cs)
         new  == [q \in lo..(end - 1) |->
                    [chunk |-> cs[q - lo + 1], ack |-> recvSeq[s],
                     win |-> AdvWindow(absorbed[s], taken[s]), retries |-> 0]]
         next == FillTo(lo, end, Len(cs), EffectiveWindow(s))
     IN  /\ submitted' = [submitted EXCEPT ![s] = Append(@, n)]
         /\ stream' = [stream EXCEPT ![s] = @ \o cs]
         /\ sendBuf' = [sendBuf EXCEPT ![s] =
              [q \in DOMAIN @ \cup DOMAIN new |->
                 IF q \in DOMAIN new THEN new[q] ELSE @[q]]]
         /\ sendSeq' = [sendSeq EXCEPT ![s] = end]
         /\ firstSeq' = [firstSeq EXCEPT ![s] = lo]
         /\ nextSeq' = [nextSeq EXCEPT ![s] = next]
         /\ net' = net \cup Transmit(s, new, lo..(next - 1))
         /\ AfterFill(s, Len(cs) > 1)
  /\ UNCHANGED <<ccVars, rcvVars, connVars>>

\* The sleep of a paused batch ends; whatever ACKs came in meanwhile, their
\* event is cleared.
EndPause(s) ==
  /\ pc[s] = "pausing"
  /\ pc' = [pc EXCEPT ![s] = "waiting"]
  /\ ackEvent' = [ackEvent EXCEPT ![s] = FALSE]
  /\ UNCHANGED <<appVars, sendSeq, sendBuf, firstSeq, nextSeq, ccVars, rcvVars,
                 connVars, net>>

\* The wait ends, by an ACK or by the timer, and every chunk is ACKed.
Return(s) ==
  /\ pc[s] = "waiting"
  /\ Unacked(s, sendBuf[s]) = {}
  /\ pc' = [pc EXCEPT ![s] = "idle"]
  /\ UNCHANGED <<appVars, sendSeq, sendBuf, firstSeq, nextSeq, ackEvent, ccVars,
                 rcvVars, connVars, net>>

\* The wait ends by an ACK and chunks are left: fill the window again.
Refill(s) ==
  /\ pc[s] = "waiting" /\ ackEvent[s]
  /\ Unacked(s, sendBuf[s]) # {}
  /\ LET next == FillTo(nextSeq[s], sendSeq[s],
                        Cardinality(Unacked(s, sendBuf[s])), EffectiveWindow(s))
     IN  /\ net' = net \cup Transmit(s, sendBuf[s], nextSeq[s]..(next - 1))
         /\ nextSeq' = [nextSeq EXCEPT ![s] = next]
  /\ AfterFill(s, sendSeq[s] - firstSeq[s] > 1)
  /\ UNCHANGED <<appVars, sendSeq, sendBuf, firstSeq, ccVars, rcvVars, connVars>>

Retries(s) ==
  LET q == CHOOSE x \in Unacked(s, sendBuf[s]) :
             \A y \in Unacked(s, sendBuf[s]) : x <= y
  IN  sendBuf[s][q].retries

\* Mutant of Retried: the retry is not counted.
RetriedUncounted(buf, U) == buf

Retried(buf, U) ==
  [q \in DOMAIN buf |->
     IF q \in U THEN [buf[q] EXCEPT !.retries = @ + 1] ELSE buf[q]]

\* The timer fires (it may win against an ACK of the same loop iteration):
\* go-back-N, every chunk not ACKed is retransmitted whatever the window.
Rto(s) ==
  /\ pc[s] = "waiting"
  /\ LET U == Unacked(s, sendBuf[s])
     IN  /\ U # {}
         /\ Retries(s) < MaxRetries
         /\ sendBuf' = [sendBuf EXCEPT ![s] = Retried(@, U)]
         /\ net' = net \cup Transmit(s, sendBuf[s], U)
  /\ nextSeq' = [nextSeq EXCEPT ![s] = sendSeq[s]]
  /\ ssthresh' = [ssthresh EXCEPT ![s] = HalvedCwnd(cwnd[s])]
  /\ cwnd' = [cwnd EXCEPT ![s] = 1]
  /\ dupAcks' = [dupAcks EXCEPT ![s] = 0]
  /\ AfterFill(s, sendSeq[s] - firstSeq[s] > 1)
  /\ UNCHANGED <<appVars, sendSeq, firstSeq, peerWindow, lastAck, rcvVars, connVars>>

\* The timer fires once too often: send() raises RudpTimeout.
GiveUp(s) ==
  /\ pc[s] = "waiting"
  /\ Unacked(s, sendBuf[s]) # {}
  /\ Retries(s) >= MaxRetries
  /\ closed' = [closed EXCEPT ![s] = TRUE]
  /\ pc' = [pc EXCEPT ![s] = "failed"]
  /\ UNCHANGED <<appVars, sendSeq, sendBuf, firstSeq, nextSeq, ackEvent, ccVars,
                 rcvVars, registered, net>>

-----------------------------------------------------------------------------
(* on_packet(), and the routing in front of it: the server side reaches it *)
(* only through a registered connection, which is forgotten after the      *)
(* packet if the socket is closed by then.                                 *)

Routed(s) == s = "server" => registered
Deregister(s, isClosed) == registered' = (registered /\ ~(s = "server" /\ isClosed))

\* The ACK field of a packet: _process_new_ack, _process_dup_ack or nothing.
NewAck(s, p) ==
  LET done == {q \in DOMAIN sendBuf[s] : q < p.ack}
  IN  /\ p.ack > lastAck[s]
      /\ sendBuf' = [sendBuf EXCEPT ![s] = [q \in DOMAIN @ \ done |-> @[q]]]
      /\ lastAck' = [lastAck EXCEPT ![s] = p.ack]
      /\ IF done = {} THEN UNCHANGED <<cwnd, dupAcks>>
         ELSE /\ \E w \in GrownCwnd(cwnd[s], ssthresh[s], Cardinality(done)) :
                   cwnd' = [cwnd EXCEPT ![s] = w]
              /\ dupAcks' = [dupAcks EXCEPT ![s] = 0]
      /\ ackEvent' = [ackEvent EXCEPT ![s] = TRUE]
      /\ UNCHANGED ssthresh

IsDupAck(s, p) == p.ack = lastAck[s] /\ DOMAIN sendBuf[s] # {}
AtThreshold(s) == dupAcks[s] + 1 = DupAckThresh

DupAck(s, p) ==
  /\ IsDupAck(s, p)
  /\ IF AtThreshold(s)
     THEN /\ ssthresh' = [ssthresh EXCEPT ![s] = HalvedCwnd(cwnd[s])]
          /\ cwnd' = [cwnd EXCEPT ![s] = HalvedCwnd(cwnd[s])]
          /\ dupAcks' = [dupAcks EXCEPT ![s] = 0]
     ELSE /\ dupAcks' = [dupAcks EXCEPT ![s] = @ + 1]
          /\ UNCHANGED <<cwnd, ssthresh>>
  /\ ackEvent' = [ackEvent EXCEPT ![s] = TRUE]
  /\ UNCHANGED <<sendBuf, lastAck>>

NoAck(s, p) ==
  /\ p.ack <= lastAck[s] /\ ~IsDupAck(s, p)
  /\ UNCHANGED <<sendBuf, lastAck, cwnd, ssthresh, dupAcks, ackEvent>>

ProcessAck(s, p) ==
  /\ peerWindow' = [peerWindow EXCEPT ![s] = MaxOf(1, p.win)]
  /\ NewAck(s, p) \/ DupAck(s, p) \/ NoAck(s, p)

\* What the third duplicate ACK sends again: the first chunk not ACKed.
FastRetransmit(s, p) ==
  LET missing == {q \in DOMAIN sendBuf[s] : q >= p.ack}
  IN  IF IsDupAck(s, p) /\ AtThreshold(s)
      THEN Transmit(s, sendBuf[s], {q \in missing : \A r \in missing : q <= r})
      ELSE {}

\* Mutants of InOrder, Ahead and Behind: the buffered run is not counted in
\* _recv_seq; a chunk is absorbed ahead of its turn; a duplicate is absorbed.
InOrderUncounted(s, p) ==
  /\ p.seq = recvSeq[s]
  /\ absorbed' = [absorbed EXCEPT ![s] = @ \o <<p.chunk>> \o
       (IF p.seq + 1 \in DOMAIN recvOoo[s] THEN <<recvOoo[s][p.seq + 1]>> ELSE <<>>)]
  /\ recvSeq' = [recvSeq EXCEPT ![s] = p.seq + 1]
  /\ UNCHANGED recvOoo

AheadAbsorbed(s, p) ==
  /\ p.seq > recvSeq[s]
  /\ absorbed' = [absorbed EXCEPT ![s] = Append(@, p.chunk)]
  /\ recvSeq' = [recvSeq EXCEPT ![s] = p.seq + 1]
  /\ UNCHANGED recvOoo

BehindAbsorbed(s, p) ==
  /\ p.seq < recvSeq[s]
  /\ Len(absorbed[s]) < 4
  /\ absorbed' = [absorbed EXCEPT ![s] = Append(@, p.chunk)]
  /\ UNCHANGED <<recvSeq, recvOoo>>

\* _deliver_data: in order, the chunk and the run of buffered chunks that
\* follows it are absorbed; ahead, it is buffered; behind, it is discarded.
InOrder(s, p) ==
  LET ooo == recvOoo[s]
  IN  /\ p.seq = recvSeq[s]
      /\ \E n \in (p.seq + 1)..(p.seq + 1 + Cardinality(DOMAIN ooo)) :
           /\ n \notin DOMAIN ooo
           /\ \A m \in (p.seq + 1)..(n - 1) : m \in DOMAIN ooo
           /\ absorbed' = [absorbed EXCEPT ![s] =
                @ \o <<p.chunk>> \o [i \in 1..(n - p.seq - 1) |-> ooo[p.seq + i]]]
           /\ recvOoo' = [recvOoo EXCEPT ![s] =
                [q \in DOMAIN ooo \ ((p.seq + 1)..(n - 1)) |-> ooo[q]]]
           /\ recvSeq' = [recvSeq EXCEPT ![s] = n]

Ahead(s, p) ==
  /\ p.seq > recvSeq[s]
  /\ recvOoo' = [recvOoo EXCEPT ![s] =
       [q \in DOMAIN @ \cup {p.seq} |-> IF q = p.seq THEN p.chunk ELSE @[q]]]
  /\ UNCHANGED <<recvSeq, absorbed>>

Behind(s, p) ==
  /\ p.seq < recvSeq[s]
  /\ UNCHANGED <<recvSeq, recvOoo, absorbed>>

\* A DATA packet: its ACK field, then its chunk, then a cumulative ACK.  A
\* chunk without payload is neither delivered nor ACKed.
OnData(s, p) ==
  /\ p \in net /\ p.dst = s /\ p.kind = "DATA" /\ Routed(s)
  /\ ProcessAck(s, p)
  /\ IF p.chunk.payload = <<>>
     THEN /\ UNCHANGED <<recvSeq, recvOoo, absorbed>>
          /\ net' = net \cup FastRetransmit(s, p)
     ELSE /\ InOrder(s, p) \/ Ahead(s, p) \/ Behind(s, p)
          /\ net' = net \cup FastRetransmit(s, p) \cup
               {AckPkt(s, recvSeq'[s], AdvWindow(absorbed'[s], taken[s]))}
  /\ Deregister(s, closed[s])
  /\ UNCHANGED <<appVars, sendSeq, firstSeq, nextSeq, pc, taken, eof, closed>>

OnAck(s, p) ==
  /\ p \in net /\ p.dst = s /\ p.kind = "ACK" /\ Routed(s)
  /\ ProcessAck(s, p)
  /\ net' = net \cup FastRetransmit(s, p)
  /\ Deregister(s, closed[s])
  /\ UNCHANGED <<appVars, sendSeq, firstSeq, nextSeq, pc, rcvVars, closed>>

\* A b'' goes into the receive queue; only the first one matters, since the
\* application stops reading there.
MarkEof(s) ==
  eof' = [eof EXCEPT ![s] = IF @ = NoEof THEN NumMsgs(absorbed[s]) ELSE @]

OnFin(s) ==
  /\ FinPkt(Peer(s)) \in net /\ Routed(s)
  /\ closed' = [closed EXCEPT ![s] = TRUE]
  /\ net' = net \cup {FinPkt(s)}
  /\ MarkEof(s)
  /\ Deregister(s, TRUE)
  /\ UNCHANGED <<appVars, sndVars, ccVars, recvSeq, recvOoo, absorbed, taken>>

OnRst(s) ==
  /\ RstPkt(Peer(s)) \in net /\ Routed(s)
  /\ closed' = [closed EXCEPT ![s] = TRUE]
  /\ MarkEof(s)
  /\ Deregister(s, TRUE)
  /\ UNCHANGED <<appVars, sndVars, ccVars, recvSeq, recvOoo, absorbed, taken, net>>

\* A packet for a connection the server has forgotten is answered by RST.
Reject(p) ==
  /\ p \in net /\ p.dst = "server" /\ ~registered
  /\ net' = net \cup {RstPkt("server")}
  /\ UNCHANGED <<appVars, sndVars, ccVars, rcvVars, connVars>>

-----------------------------------------------------------------------------
(* The application's other calls.                                          *)

\* recv() returns the oldest complete message.
Recv(s) ==
  /\ taken[s] < NumMsgs(absorbed[s])
  /\ eof[s] # NoEof => taken[s] < eof[s]
  /\ taken' = [taken EXCEPT ![s] = @ + 1]
  /\ UNCHANGED <<appVars, sndVars, ccVars, recvSeq, recvOoo, absorbed, eof,
                 connVars, net>>

\* Mutant of Close: it does not wait for the send() that is running.
CloseAnytime(s) ==
  /\ ~closed[s]
  /\ closed' = [closed EXCEPT ![s] = TRUE]
  /\ net' = net \cup {FinPkt(s)}
  /\ UNCHANGED <<appVars, sndVars, ccVars, rcvVars, registered>>

\* close(), which no caller reaches while its own send() is running.
Close(s) ==
  /\ pc[s] \in Unsent /\ ~closed[s]
  /\ closed' = [closed EXCEPT ![s] = TRUE]
  /\ net' = net \cup {FinPkt(s)}
  /\ UNCHANGED <<appVars, sndVars, ccVars, rcvVars, registered>>

-----------------------------------------------------------------------------
Receive(s) ==
  \/ \E p \in net : OnData(s, p)
  \/ \E p \in net : OnAck(s, p)
  \/ OnFin(s)
  \/ OnRst(s)

SenderStep(s) == EndPause(s) \/ Return(s) \/ Refill(s) \/ Rto(s) \/ GiveUp(s)

Next ==
  \/ \E s \in Side : \E n \in MsgSizes : Send(s, n)
  \/ \E s \in Side : SenderStep(s)
  \/ \E s \in Side : Receive(s)
  \/ \E s \in Side : Recv(s) \/ Close(s)
  \/ \E p \in net : Reject(p)

Spec == Init /\ [][Next]_vars

\* The event loop runs a coroutine whose wait or sleep has ended, and the timer
\* of one that goes on waiting fires.  Nothing is promised about the network.
Fairness ==
  \A s \in Side : /\ WF_vars(EndPause(s))
                  /\ WF_vars(Return(s))
                  /\ WF_vars(Rto(s) \/ GiveUp(s))
FairSpec == Spec /\ Fairness

-----------------------------------------------------------------------------
SeqMap(f, S) == DOMAIN f \subseteq Nat /\ \A q \in DOMAIN f : f[q] \in S

TypeOK ==
  /\ submitted \in [Side -> Seq(Nat)]
  /\ stream \in [Side -> Seq(Chunk)]
  /\ sendSeq \in [Side -> Nat]
  /\ DOMAIN sendBuf = Side
  /\ \A s \in Side : SeqMap(sendBuf[s], Entry)
  /\ firstSeq \in [Side -> Nat]
  /\ nextSeq \in [Side -> Nat]
  /\ pc \in [Side -> {"idle", "waiting", "pausing", "failed"}]
  /\ ackEvent \in [Side -> BOOLEAN]
  /\ peerWindow \in [Side -> Nat \ {0}]
  /\ cwnd \in [Side -> Nat \ {0}]
  /\ ssthresh \in [Side -> Nat \ {0}]
  /\ dupAcks \in [Side -> Nat]
  /\ lastAck \in [Side -> Nat]
  /\ recvSeq \in [Side -> Nat]
  /\ DOMAIN recvOoo = Side
  /\ \A s \in Side : SeqMap(recvOoo[s], Chunk)
  /\ absorbed \in [Side -> Seq(Chunk)]
  /\ taken \in [Side -> Nat]
  /\ eof \in [Side -> Nat \cup {NoEof}]
  /\ closed \in [Side -> BOOLEAN]
  /\ registered \in BOOLEAN
  /\ net \subseteq Packet

-----------------------------------------------------------------------------
(* Properties.                                                             *)

\* Out-of-order packets are buffered, duplicates discarded (rudp_socket.py
\* lines 14 and 410-421): what a side has absorbed is exactly the beginning
\* of what its peer has enqueued, nothing lost, repeated or swapped.
ExactlyOnceInOrder ==
  \A s \in Side :
    /\ Len(absorbed[s]) <= Len(stream[Peer(s)])
    /\ \A i \in 1..Len(absorbed[s]) : absorbed[s][i] = stream[Peer(s)][i]

\* MSG_END framing (lines 46-49 and 423-432): the messages put in the receive
\* queue are, one for one, the first messages given to the peer's send().
WholeMessages ==
  \A s \in Side :
    LET got == Messages(absorbed[s])
    IN  /\ Len(got) <= Len(submitted[Peer(s)])
        /\ \A j \in DOMAIN got : got[j] = ChunksOf(j, submitted[Peer(s)][j])

\* send() returns normally (lines 333-334) only when the peer's socket has
\* absorbed every chunk: a sender that is not sending and did not fail has
\* nothing in doubt.
ReturnMeansAbsorbed ==
  \A s \in Side : pc[s] = "idle" => Len(absorbed[Peer(s)]) = Len(stream[s])

\* The end-of-stream b'' of a connection this side has not closed itself, from
\* a peer whose last send() did not fail, comes after every message of that
\* peer (lines 365-381): nothing it sent is cut off.
EofComesLast ==
  [][\A s \in Side :
       ( /\ eof[s] = NoEof /\ eof'[s] # NoEof
         /\ ~closed[s] /\ pc[Peer(s)] # "failed" )
       => eof'[s] = Len(submitted[Peer(s)])]_vars

(* Why they hold: an inductive invariant.                                  *)

\* The sequence numbers count the chunks created and absorbed, and a receiver
\* is never ahead of its peer.
Positions ==
  \A s \in Side : /\ sendSeq[s] = Len(stream[s]) + 1
                  /\ recvSeq[s] = Len(absorbed[s]) + 1
                  /\ recvSeq[s] <= sendSeq[Peer(s)]

\* Chunk c stands at position q of the stream st.
At(st, q, c) == q \in 1..Len(st) /\ c = st[q]

\* A sequence number means the same chunk wherever it is: in the network, in
\* the send buffer and in the reorder buffer.
SeqFaithful ==
  /\ \A p \in net : p.kind = "DATA" => At(stream[Peer(p.dst)], p.seq, p.chunk)
  /\ \A s \in Side : \A q \in DOMAIN sendBuf[s] : At(stream[s], q, sendBuf[s][q].chunk)
  /\ \A s \in Side : \A q \in DOMAIN recvOoo[s] : At(stream[Peer(s)], q, recvOoo[s][q])

\* No ACK field, sent or frozen in the send buffer, claims more than the side
\* that wrote it has absorbed.
AckFaithful ==
  /\ \A p \in net : p.kind \in {"DATA", "ACK"} => p.ack <= recvSeq[Peer(p.dst)]
  /\ \A s \in Side : \A q \in DOMAIN sendBuf[s] : sendBuf[s][q].ack <= recvSeq[s]

\* What has left the send buffer has been absorbed by the peer; the buffer
\* holds chunks of the current message only, and none between two send()s.
BufferCovers ==
  \A s \in Side :
    /\ \A q \in 1..Len(stream[s]) : q \notin DOMAIN sendBuf[s] => q < recvSeq[Peer(s)]
    /\ \A q \in DOMAIN sendBuf[s] : firstSeq[s] <= q
    /\ pc[s] = "idle" => DOMAIN sendBuf[s] = {}

IInv ==
  /\ TypeOK
  /\ Positions
  /\ SeqFaithful
  /\ AckFaithful
  /\ BufferCovers
  /\ ExactlyOnceInOrder

\* What the connection promises its users: a pair of reliable streams whose
\* send() always ends (ReliableStream), chunks being what flows.
SendState == [s \in Side |-> IF pc[s] = "idle" THEN "ready"
                             ELSE IF pc[s] = "failed" THEN "broken" ELSE "busy"]
Abstract == INSTANCE ReliableStream WITH
  sent <- stream, got <- absorbed, state <- SendState

\* The connection implements the two reliable streams (safety).
ImplementsStreams == Abstract!Spec

\* "The remote peer caps its in-flight count at effective_window" (lines 34-35),
\* a time-out apart: when chunks are transmitted for the first time, what is in
\* flight afterwards is within the window that the sender has at that moment,
\* however cwnd and the peer's window have shrunk since the last.  Only the
\* go-back-N retransmission exceeds it.
InFlight(s) == {q \in Unacked(s, sendBuf[s]) : q < nextSeq[s]}
WindowKept ==
  [][\A s \in Side :
       /\ ~(InFlight(s)' \subseteq InFlight(s))
       /\ \A q \in InFlight(s)' : sendBuf'[s][q].retries = 0
       => Cardinality(InFlight(s)') <= EffectiveWindow(s)]_vars

\* From some moment on no packet arrives: those of a message are finitely many,
\* and no network repeats one forever.
Quiet == <>[][~ \E s \in Side : Receive(s)]_vars

\* Every send() ends, with all its chunks absorbed by the peer or with
\* RudpTimeout after MAX_RETRIES retransmissions (lines 266-280, 332-350).  ACKs
\* that came in forever could restart the wait, and its timer, forever.
EverySendEnds == Quiet => Abstract!Live
=============================================================================
