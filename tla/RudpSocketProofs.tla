--------------------------- MODULE RudpSocketProofs ---------------------------
(***************************************************************************)
(* Proofs about RudpSocket for every number and size of messages, every    *)
(* window and every retry limit.                                           *)
(***************************************************************************)
EXTENDS RudpSocket, FiniteSetTheorems, SequenceTheorems, TLAPS

-----------------------------------------------------------------------------
(* Lemmas about the operators.                                             *)

\* The two sides are each other's peers.
LEMMA PeerFacts ==
  ASSUME NEW s \in Side
  PROVE  /\ Peer(s) \in Side
         /\ Peer(Peer(s)) = s
         /\ Peer(s) # s
BY DEF Side, Peer

\* A message of n chunks is a nonempty sequence of chunks.
LEMMA ChunksType ==
  ASSUME NEW k \in Nat, NEW n \in Nat
  PROVE  /\ ChunksOf(k, n) \in Seq(Chunk)
         /\ Len(ChunksOf(k, n)) \in Nat \ {0}
<1>1. CASE n = 0
  <2>1. [payload |-> <<>>, end |-> TRUE] \in Chunk
    BY DEF Chunk
  <2>2. QED BY <1>1, <2>1 DEF ChunksOf
<1>2. CASE n # 0
  <2>1. \A i \in 1..n : [payload |-> <<k, i>>, end |-> i = n] \in Chunk
    <3> SUFFICES ASSUME NEW i \in 1..n
                 PROVE  [payload |-> <<k, i>>, end |-> i = n] \in Chunk
      OBVIOUS
    <3>1. <<k, i>> \in Seq(Nat)
      OBVIOUS
    <3>2. (i = n) \in BOOLEAN
      OBVIOUS
    <3>3. QED BY <3>1, <3>2 DEF Chunk
  <2>2. [i \in 1..n |-> [payload |-> <<k, i>>, end |-> i = n]] \in Seq(Chunk)
    BY <2>1
  <2>3. Len([i \in 1..n |-> [payload |-> <<k, i>>, end |-> i = n]]) = n
    OBVIOUS
  <2>4. QED BY <1>2, <2>2, <2>3 DEF ChunksOf
<1>3. QED BY <1>1, <1>2

\* Counting messages and computing the advertised window give numbers.
LEMMA AdvWindowType ==
  ASSUME NEW cs \in Seq(Chunk), NEW t \in Nat
  PROVE  /\ NumMsgs(cs) \in Nat
         /\ AdvWindow(cs, t) \in Nat
<1>1. IsFiniteSet(DOMAIN cs)
  BY FS_Interval
<1>2. Ends(cs) \subseteq DOMAIN cs
  BY DEF Ends
<1>3. NumMsgs(cs) \in Nat
  BY <1>1, <1>2, FS_Subset, FS_CardinalityType DEF NumMsgs
<1>4. RecvBufSize \in Nat
  BY ConstantsAssumption
<1>5. AdvWindow(cs, t) \in Nat
  BY <1>3, <1>4 DEF AdvWindow, MaxOf
<1>6. QED BY <1>3, <1>5

\* A set of positions of a sequence has a cardinality.
LEMMA PositionSets ==
  ASSUME NEW S, NEW cs \in Seq(S), NEW T, T \subseteq 1..Len(cs)
  PROVE  IsFiniteSet(T) /\ Cardinality(T) \in Nat
<1>1. IsFiniteSet(1..Len(cs))
  BY FS_Interval
<1>2. QED BY <1>1, FS_Subset, FS_CardinalityType

\* The window arithmetic stays within positive numbers.
LEMMA CwndType ==
  ASSUME NEW w \in Nat \ {0}, NEW ss \in Nat \ {0}, NEW n \in Nat
  PROVE  /\ GrownCwnd(w, ss, n) \subseteq Nat \ {0}
         /\ HalvedCwnd(w) \in Nat \ {0}
<1>1. WindowCap \in Nat \ {0}
  BY ConstantsAssumption
<1>2. GrownCwnd(w, ss, n) \subseteq Nat \ {0}
  BY <1>1 DEF GrownCwnd, MinOf, MaxOf
<1>3. HalvedCwnd(w) \in Nat \ {0}
  BY DEF HalvedCwnd, MaxOf
<1>4. QED BY <1>2, <1>3

\* Where _fill_window stops.
LEMMA FillToType ==
  ASSUME NEW next \in Nat, NEW end \in Nat, NEW f \in Nat, NEW w \in Nat
  PROVE  FillTo(next, end, f, w) \in Nat
BY DEF FillTo, MinOf, MaxOf

\* What a packet of each kind is made of.
LEMMA PacketFields ==
  ASSUME NEW p \in Packet
  PROVE  /\ p.dst \in Side
         /\ p.kind \in {"DATA", "ACK", "FIN", "RST"}
         /\ p.kind = "DATA" => p.seq \in Nat /\ p.chunk \in Chunk
         /\ p.kind \in {"DATA", "ACK"} => p.ack \in Nat /\ p.win \in Nat
BY DEF Packet

\* Appending a chunk and a run of chunks.
LEMMA AppendRun ==
  ASSUME NEW S, NEW a \in Seq(S), NEW c \in S, NEW k \in Nat,
         NEW b, b \in [1..k -> S]
  PROVE  /\ a \o <<c>> \o b \in Seq(S)
         /\ Len(a \o <<c>> \o b) = Len(a) + 1 + k
         /\ \A i \in 1..(Len(a) + 1 + k) :
              (a \o <<c>> \o b)[i] = IF i <= Len(a) THEN a[i]
                                     ELSE IF i = Len(a) + 1 THEN c
                                     ELSE b[i - Len(a) - 1]
<1> DEFINE one == <<c>>
           ac  == a \o one
<1>1. b \in Seq(S) /\ Len(b) = k
  OBVIOUS
<1>2. one \in Seq(S) /\ Len(one) = 1 /\ one[1] = c
  OBVIOUS
<1> HIDE DEF one
<1>8. Len(a) \in Nat
  BY LenProperties
<1>9. /\ ac \in Seq(S)
      /\ Len(ac) = Len(a) + Len(one)
      /\ \A i \in 1..(Len(a) + Len(one)) :
           ac[i] = IF i <= Len(a) THEN a[i] ELSE one[i - Len(a)]
  BY <1>2, ConcatProperties
<1>3. /\ ac \in Seq(S)
      /\ Len(ac) = Len(a) + 1
      /\ \A i \in 1..(Len(a) + 1) :
           ac[i] = IF i <= Len(a) THEN a[i] ELSE one[i - Len(a)]
  BY <1>2, <1>9
<1>4. \A i \in 1..(Len(a) + 1) : ac[i] = IF i <= Len(a) THEN a[i] ELSE c
  <2> TAKE i \in 1..(Len(a) + 1)
  <2>1. CASE i <= Len(a)
    BY <2>1, <1>3
  <2>2. CASE i = Len(a) + 1
    <3>1. i - Len(a) = 1
      BY <1>8, <2>2
    <3>2. ~(i <= Len(a))
      BY <1>8, <2>2
    <3>3. QED BY <1>2, <1>3, <3>1, <3>2
  <2>3. i <= Len(a) \/ i = Len(a) + 1
    BY <1>8
  <2>4. QED BY <2>1, <2>2, <2>3
<1> HIDE DEF ac
<1>5. /\ ac \o b \in Seq(S)
      /\ Len(ac \o b) = Len(ac) + Len(b)
      /\ \A i \in 1..(Len(ac) + Len(b)) :
           (ac \o b)[i] = IF i <= Len(ac) THEN ac[i] ELSE b[i - Len(ac)]
  BY <1>1, <1>3, ConcatProperties
<1>6. \A i \in 1..(Len(a) + 1 + k) :
        (ac \o b)[i] = IF i <= Len(a) THEN a[i]
                       ELSE IF i = Len(a) + 1 THEN c ELSE b[i - Len(a) - 1]
  BY <1>8, <1>1, <1>3, <1>4, <1>5
<1>7. QED BY <1>1, <1>3, <1>5, <1>6 DEF ac, one

-----------------------------------------------------------------------------
(* Every action preserves the inductive invariant.                         *)

\* The type invariant, side by side.
LEMMA TypeFacts ==
  ASSUME TypeOK, NEW s \in Side
  PROVE  /\ submitted[s] \in Seq(Nat) /\ Len(submitted[s]) \in Nat
         /\ stream[s] \in Seq(Chunk) /\ Len(stream[s]) \in Nat
         /\ absorbed[s] \in Seq(Chunk) /\ Len(absorbed[s]) \in Nat
         /\ sendSeq[s] \in Nat /\ firstSeq[s] \in Nat /\ nextSeq[s] \in Nat
         /\ recvSeq[s] \in Nat /\ taken[s] \in Nat /\ lastAck[s] \in Nat
         /\ dupAcks[s] \in Nat
         /\ peerWindow[s] \in Nat \ {0} /\ cwnd[s] \in Nat \ {0}
         /\ ssthresh[s] \in Nat \ {0}
         /\ SeqMap(sendBuf[s], Entry) /\ SeqMap(recvOoo[s], Chunk)
<1>1. /\ submitted[s] \in Seq(Nat) /\ stream[s] \in Seq(Chunk)
      /\ absorbed[s] \in Seq(Chunk)
  BY DEF TypeOK
<1>2. /\ Len(submitted[s]) \in Nat /\ Len(stream[s]) \in Nat
      /\ Len(absorbed[s]) \in Nat
  BY <1>1, LenProperties
<1>3. QED BY <1>1, <1>2 DEF TypeOK

\* A window is a positive number.
LEMMA WindowType ==
  ASSUME TypeOK, NEW s \in Side
  PROVE  EffectiveWindow(s) \in Nat \ {0}
BY TypeFacts, ConstantsAssumption DEF EffectiveWindow, MaxOf, MinOf

\* After the handshake, before the first send().
LEMMA InitInv == Init => IInv
<1> SUFFICES ASSUME Init PROVE IInv
  OBVIOUS
<1> USE ConstantsAssumption
<1>1. TypeOK
  <2>1. net \subseteq Packet
    BY DEF Init, AckPkt, Packet, Peer, Side
  <2>2. /\ peerWindow \in [Side -> Nat \ {0}]
        /\ cwnd \in [Side -> Nat \ {0}]
        /\ ssthresh \in [Side -> Nat \ {0}]
    BY DEF Init, MaxOf
  <2>3. DOMAIN sendBuf = Side /\ DOMAIN recvOoo = Side
    BY DEF Init
  <2>4. \A s \in Side : SeqMap(sendBuf[s], Entry) /\ SeqMap(recvOoo[s], Chunk)
    BY DEF Init, SeqMap
  <2>5. QED BY <2>1, <2>2, <2>3, <2>4 DEF TypeOK, Init, NoEof
<1>2. Positions
  BY PeerFacts DEF Positions, Init
<1>3. SeqFaithful
  BY DEF SeqFaithful, Init, AckPkt
<1>4. AckFaithful
  BY PeerFacts DEF AckFaithful, Init, AckPkt, Side
<1>5. BufferCovers
  BY DEF BufferCovers, Init
<1>6. ExactlyOnceInOrder
  BY PeerFacts DEF ExactlyOnceInOrder, Init
<1>7. QED BY <1>1, <1>2, <1>3, <1>4, <1>5, <1>6 DEF IInv

\* send() up to its first await.
LEMMA SendInv ==
  ASSUME IInv, NEW s \in Side, NEW n \in MsgSizes, Send(s, n)
  PROVE  IInv'
<1> DEFINE cs   == ChunksOf(Len(submitted[s]) + 1, n)
           lo   == sendSeq[s]
           end  == lo + Len(cs)
           new  == [q \in lo..(end - 1) |->
                      [chunk |-> cs[q - lo + 1], ack |-> recvSeq[s],
                       win |-> AdvWindow(absorbed[s], taken[s]), retries |-> 0]]
           next == FillTo(lo, end, Len(cs), EffectiveWindow(s))
<1> USE PeerFacts
<1>1. n \in Nat /\ Len(submitted[s]) + 1 \in Nat /\ TypeOK
  BY ConstantsAssumption, TypeFacts DEF IInv
<1>2. cs \in Seq(Chunk) /\ Len(cs) \in Nat \ {0}
  BY <1>1, ChunksType
<1> HIDE DEF cs
<1>3. /\ lo \in Nat \ {0} /\ end \in Nat
      /\ lo = Len(stream[s]) + 1
      /\ Len(stream[s]) \in Nat
  <2>1. sendSeq[s] \in Nat /\ Len(stream[s]) \in Nat /\ sendSeq[s] = Len(stream[s]) + 1
    BY <1>1, TypeFacts DEF IInv, Positions
  <2>2. QED BY <1>2, <2>1
<1>4. /\ stream' = [stream EXCEPT ![s] = @ \o cs]
      /\ submitted' = [submitted EXCEPT ![s] = Append(@, n)]
      /\ sendBuf' = [sendBuf EXCEPT ![s] =
              [q \in DOMAIN @ \cup DOMAIN new |->
                 IF q \in DOMAIN new THEN new[q] ELSE @[q]]]
      /\ sendSeq' = [sendSeq EXCEPT ![s] = end]
      /\ firstSeq' = [firstSeq EXCEPT ![s] = lo]
      /\ nextSeq' = [nextSeq EXCEPT ![s] = next]
      /\ net' = net \cup Transmit(s, new, lo..(next - 1))
      /\ AfterFill(s, Len(cs) > 1)
      /\ pc[s] = "idle"
      /\ UNCHANGED <<ccVars, rcvVars, connVars>>
  BY DEF Send, cs
<1>5. DOMAIN sendBuf[s] = {}
  BY <1>4 DEF IInv, BufferCovers
<1>6. /\ sendBuf'[s] = new
      /\ \A t \in Side : t # s => sendBuf'[t] = sendBuf[t]
  <2>1. DOMAIN new = lo..(end - 1)
    OBVIOUS
  <2>2. [q \in DOMAIN sendBuf[s] \cup DOMAIN new |->
          IF q \in DOMAIN new THEN new[q] ELSE sendBuf[s][q]] = new
    BY <1>5
  <2>3. QED BY <1>4, <2>2 DEF IInv, TypeOK
<1>7. /\ stream'[s] = stream[s] \o cs
      /\ stream'[s] \in Seq(Chunk)
      /\ Len(stream'[s]) = Len(stream[s]) + Len(cs)
      /\ \A i \in 1..Len(stream[s]) : stream'[s][i] = stream[s][i]
      /\ \A i \in 1..Len(cs) : stream'[s][Len(stream[s]) + i] = cs[i]
      /\ \A t \in Side : t # s => stream'[t] = stream[t]
  <2>1. stream[s] \in Seq(Chunk)
    BY DEF IInv, TypeOK
  <2>2. stream'[s] = stream[s] \o cs
    BY <1>4 DEF IInv, TypeOK
  <2>3. /\ stream'[s] \in Seq(Chunk)
        /\ Len(stream'[s]) = Len(stream[s]) + Len(cs)
        /\ \A i \in 1..(Len(stream[s]) + Len(cs)) :
              stream'[s][i] = IF i <= Len(stream[s]) THEN stream[s][i]
                              ELSE cs[i - Len(stream[s])]
    BY <1>2, <2>1, <2>2, ConcatProperties
  <2>4. ASSUME NEW i \in 1..Len(cs)
        PROVE  stream'[s][Len(stream[s]) + i] = cs[i]
    <3>1. /\ Len(stream[s]) + i \in 1..(Len(stream[s]) + Len(cs))
          /\ ~(Len(stream[s]) + i <= Len(stream[s]))
          /\ Len(stream[s]) + i - Len(stream[s]) = i
      BY <1>2, <1>3
    <3>2. QED BY <2>3, <3>1
  <2>5. ASSUME NEW i \in 1..Len(stream[s])
        PROVE  stream'[s][i] = stream[s][i]
    BY <1>2, <1>3, <2>3
  <2>6. \A t \in Side : t # s => stream'[t] = stream[t]
    BY <1>4 DEF IInv, TypeOK
  <2>7. QED BY <2>2, <2>3, <2>4, <2>5, <2>6
<1>8. ASSUME NEW t \in Side, NEW q, NEW c, At(stream[t], q, c)
      PROVE  At(stream'[t], q, c)
  <2>1. CASE t = s
    BY <1>2, <1>3, <1>7, <1>8, <2>1 DEF At
  <2>2. CASE t # s
    BY <1>7, <1>8, <2>2 DEF At
  <2>3. QED BY <2>1, <2>2
<1>9. \A q \in DOMAIN new : /\ q \in lo..(end - 1)
                            /\ new[q] \in Entry
                            /\ new[q].ack = recvSeq[s]
                            /\ new[q].chunk = cs[q - lo + 1]
                            /\ At(stream'[s], q, new[q].chunk)
  <2> SUFFICES ASSUME NEW q \in lo..(end - 1)
               PROVE  /\ new[q] \in Entry
                      /\ new[q].ack = recvSeq[s]
                      /\ new[q].chunk = cs[q - lo + 1]
                      /\ At(stream'[s], q, new[q].chunk)
    OBVIOUS
  <2>1. q - lo + 1 \in 1..Len(cs) /\ q = Len(stream[s]) + (q - lo + 1)
    BY <1>2, <1>3
  <2>2. cs[q - lo + 1] \in Chunk
    BY <1>2, <2>1, ElementOfSeq
  <2>3. AdvWindow(absorbed[s], taken[s]) \in Nat
    BY AdvWindowType DEF IInv, TypeOK
  <2>4. recvSeq[s] \in Nat
    BY DEF IInv, TypeOK
  <2>5. stream'[s][q] = cs[q - lo + 1]
    BY <1>7, <2>1
  <2>6. q \in 1..Len(stream'[s])
    BY <1>2, <1>3, <1>7
  <2>7. QED BY <2>2, <2>3, <2>4, <2>5, <2>6 DEF Entry, At
<1> HIDE DEF new
<1>10. ASSUME NEW p \in net' \ net
       PROVE  \E q \in DOMAIN new : p = DataPkt(s, q, new[q])
  BY <1>4 DEF Transmit
<1>11. TypeOK'
  <2>1. next \in Nat
    BY <1>1, <1>2, <1>3, WindowType, FillToType
  <2>2. net' \subseteq Packet
    <3> SUFFICES ASSUME NEW p \in net' \ net PROVE p \in Packet
      BY DEF IInv, TypeOK
    <3>1. PICK q \in DOMAIN new : p = DataPkt(s, q, new[q])
      BY <1>10
    <3>2. q \in Nat /\ new[q] \in Entry
      BY <1>3, <1>9
    <3>3. QED BY <3>1, <3>2 DEF DataPkt, Entry, Packet
  <2>3. SeqMap(sendBuf'[s], Entry)
    <3>1. DOMAIN new \subseteq Nat
      BY <1>3, <1>9
    <3>2. QED BY <1>6, <1>9, <3>1 DEF SeqMap
  <2>4. submitted' \in [Side -> Seq(Nat)]
    BY <1>1, <1>4 DEF IInv, TypeOK
  <2>5. /\ pc' \in [Side -> {"idle", "waiting", "pausing", "failed"}]
        /\ ackEvent' \in [Side -> BOOLEAN]
    BY <1>4 DEF AfterFill, IInv, TypeOK
  <2>6. stream' \in [Side -> Seq(Chunk)]
    BY <1>4, <1>7 DEF IInv, TypeOK
  <2>7. DOMAIN sendBuf' = Side /\ \A t \in Side : SeqMap(sendBuf'[t], Entry)
    BY <1>4, <1>6, <2>3 DEF IInv, TypeOK
  <2> HIDE DEF next
  <2>8. QED BY <1>3, <1>4, <2>1, <2>2, <2>4, <2>5, <2>6, <2>7
          DEF IInv, TypeOK, ccVars, rcvVars, connVars
<1>12. Positions'
  <2>1. recvSeq' = recvSeq /\ absorbed' = absorbed
    BY <1>4 DEF rcvVars
  <2>2. sendSeq'[s] = end /\ \A t \in Side : t # s => sendSeq'[t] = sendSeq[t]
    BY <1>4 DEF IInv, TypeOK
  <2> SUFFICES ASSUME NEW t \in Side
               PROVE  /\ sendSeq'[t] = Len(stream'[t]) + 1
                      /\ recvSeq[t] = Len(absorbed[t]) + 1
                      /\ recvSeq[t] <= sendSeq'[Peer(t)]
    BY <2>1 DEF Positions
  <2>3. sendSeq'[t] = Len(stream'[t]) + 1
    <3>1. CASE t = s
      <4>1. sendSeq'[s] = Len(stream[s]) + 1 + Len(cs)
        BY <1>3, <2>2
      <4>2. Len(stream'[s]) + 1 = Len(stream[s]) + 1 + Len(cs)
        BY <1>2, <1>3, <1>7
      <4>3. QED BY <3>1, <4>1, <4>2
    <3>2. CASE t # s
      BY <1>7, <2>2, <3>2 DEF IInv, Positions
    <3>3. QED BY <3>1, <3>2
  <2>4. recvSeq[t] <= sendSeq'[Peer(t)]
    <3>1. recvSeq[t] <= sendSeq[Peer(t)] /\ recvSeq[t] \in Nat
      BY <1>1, TypeFacts DEF IInv, Positions
    <3>2. CASE Peer(t) = s
      BY <1>2, <1>3, <2>2, <3>1, <3>2
    <3>3. CASE Peer(t) # s
      BY <2>2, <3>1, <3>3
    <3>4. QED BY <3>2, <3>3
  <2>5. QED BY <2>3, <2>4 DEF IInv, Positions
<1>13. SeqFaithful'
  <2>1. ASSUME NEW p \in net', p.kind = "DATA"
        PROVE  At(stream'[Peer(p.dst)], p.seq, p.chunk)
    <3>1. CASE p \in net
      <4>1. p.dst \in Side
        BY <3>1, PacketFields DEF IInv, TypeOK
      <4>2. QED BY <1>8, <2>1, <3>1, <4>1 DEF IInv, SeqFaithful
    <3>2. CASE p \notin net
      <4>1. PICK q \in DOMAIN new : p = DataPkt(s, q, new[q])
        BY <1>10, <3>2
      <4>2. p.dst = Peer(s) /\ p.seq = q /\ p.chunk = new[q].chunk
        BY <4>1 DEF DataPkt
      <4>3. At(stream'[s], q, new[q].chunk)
        BY <1>9
      <4>4. Peer(p.dst) = s
        BY <4>2
      <4>5. QED BY <4>2, <4>3, <4>4
    <3>3. QED BY <3>1, <3>2
  <2>2. ASSUME NEW t \in Side, NEW q \in DOMAIN sendBuf'[t]
        PROVE  At(stream'[t], q, sendBuf'[t][q].chunk)
    <3>1. CASE t = s
      BY <1>6, <1>9, <3>1
    <3>2. CASE t # s
      <4>1. sendBuf'[t] = sendBuf[t] /\ At(stream[t], q, sendBuf[t][q].chunk)
        BY <1>6, <3>2 DEF IInv, SeqFaithful
      <4>2. QED BY <1>8, <4>1
    <3>3. QED BY <3>1, <3>2
  <2>3. ASSUME NEW t \in Side, NEW q \in DOMAIN recvOoo'[t]
        PROVE  At(stream'[Peer(t)], q, recvOoo'[t][q])
    <3>1. recvOoo' = recvOoo
      BY <1>4 DEF rcvVars
    <3>2. At(stream[Peer(t)], q, recvOoo[t][q])
      BY <3>1 DEF IInv, SeqFaithful
    <3>3. QED BY <1>8, <3>1, <3>2
  <2>4. QED BY <2>1, <2>2, <2>3 DEF SeqFaithful
<1>14. AckFaithful'
  <2>1. recvSeq' = recvSeq
    BY <1>4 DEF rcvVars
  <2>2. ASSUME NEW p \in net', p.kind \in {"DATA", "ACK"}
        PROVE  p.ack <= recvSeq[Peer(p.dst)]
    <3>1. CASE p \in net
      BY <2>2, <3>1 DEF IInv, AckFaithful
    <3>2. CASE p \notin net
      <4>1. PICK q \in DOMAIN new : p = DataPkt(s, q, new[q])
        BY <1>10, <3>2
      <4>2. p.dst = Peer(s) /\ p.ack = recvSeq[s] /\ recvSeq[s] \in Nat
        BY <1>9, <4>1 DEF DataPkt, IInv, TypeOK
      <4>3. QED BY <4>2
    <3>3. QED BY <3>1, <3>2
  <2>3. ASSUME NEW t \in Side, NEW q \in DOMAIN sendBuf'[t]
        PROVE  sendBuf'[t][q].ack <= recvSeq[t]
    <3>1. CASE t = s
      <4>1. recvSeq[s] \in Nat
        BY DEF IInv, TypeOK
      <4>2. QED BY <1>6, <1>9, <3>1, <4>1
    <3>2. CASE t # s
      BY <1>6, <3>2 DEF IInv, AckFaithful
    <3>3. QED BY <3>1, <3>2
  <2>4. QED BY <2>1, <2>2, <2>3 DEF AckFaithful
<1>15. BufferCovers'
  <2>1. recvSeq' = recvSeq
    BY <1>4 DEF rcvVars
  <2>2. /\ firstSeq'[s] = lo /\ pc'[s] # "idle"
        /\ \A t \in Side : t # s => firstSeq'[t] = firstSeq[t] /\ pc'[t] = pc[t]
    BY <1>4 DEF IInv, TypeOK, AfterFill
  <2>3. \A q \in 1..Len(stream[s]) : q < recvSeq[Peer(s)]
    BY <1>5 DEF IInv, BufferCovers
  <2>4. ASSUME NEW q \in 1..Len(stream'[s]), q \notin DOMAIN sendBuf'[s]
        PROVE  q < recvSeq[Peer(s)]
    <3>1. DOMAIN new = lo..(end - 1)
      BY DEF new
    <3>2. q \in 1..Len(stream[s])
      BY <1>2, <1>3, <1>6, <1>7, <2>4, <3>1
    <3>3. QED BY <2>3, <3>2
  <2>5. \A q \in DOMAIN sendBuf'[s] : firstSeq'[s] <= q
    BY <1>3, <1>6, <1>9, <2>2
  <2>6. QED BY <1>6, <1>7, <2>1, <2>2, <2>4, <2>5 DEF IInv, BufferCovers
<1>16. ExactlyOnceInOrder'
  <2>1. absorbed' = absorbed
    BY <1>4 DEF rcvVars
  <2>2. \A t \in Side : Len(absorbed[t]) \in Nat /\ Len(stream[t]) \in Nat
    BY <1>1, TypeFacts
  <2> SUFFICES ASSUME NEW t \in Side
               PROVE  /\ Len(absorbed[t]) <= Len(stream'[Peer(t)])
                      /\ \A i \in 1..Len(absorbed[t]) :
                           absorbed[t][i] = stream'[Peer(t)][i]
    BY <2>1 DEF ExactlyOnceInOrder
  <2>3. /\ Len(absorbed[t]) <= Len(stream[Peer(t)])
        /\ \A i \in 1..Len(absorbed[t]) : absorbed[t][i] = stream[Peer(t)][i]
    BY DEF IInv, ExactlyOnceInOrder
  <2>4. CASE Peer(t) # s
    BY <1>7, <2>3, <2>4
  <2>5. CASE Peer(t) = s
    BY <1>2, <1>7, <2>2, <2>3, <2>5
  <2>6. QED BY <2>4, <2>5
<1>17. QED BY <1>11, <1>12, <1>13, <1>14, <1>15, <1>16 DEF IInv

\* The send buffers only lose chunks that the peer has absorbed.
BufferShrinks ==
  \A s \in Side :
    /\ DOMAIN sendBuf'[s] \subseteq DOMAIN sendBuf[s]
    /\ \A q \in DOMAIN sendBuf'[s] : /\ sendBuf'[s][q].chunk = sendBuf[s][q].chunk
                                     /\ sendBuf'[s][q].ack = sendBuf[s][q].ack
    /\ \A q \in DOMAIN sendBuf[s] \ DOMAIN sendBuf'[s] : q < recvSeq[Peer(s)]

\* The receivers only move forward, along the peer's stream.
ReceiverAdvances ==
  \A s \in Side :
    /\ recvSeq[s] <= recvSeq'[s]
    /\ recvSeq'[s] = Len(absorbed'[s]) + 1
    /\ recvSeq'[s] <= sendSeq[Peer(s)]
    /\ \A i \in 1..Len(absorbed'[s]) : absorbed'[s][i] = stream[Peer(s)][i]
    /\ \A q \in DOMAIN recvOoo'[s] : At(stream[Peer(s)], q, recvOoo'[s][q])

\* New packets carry the chunk of their sequence number and an honest ACK.
HonestPacket(p) ==
  /\ p.kind = "DATA" => At(stream[Peer(p.dst)], p.seq, p.chunk)
  /\ p.kind \in {"DATA", "ACK"} => p.ack <= recvSeq'[Peer(p.dst)]

\* A step that starts no send() preserves the invariant if it respects the
\* three conditions above and returns from send() only with an empty buffer.
LEMMA FrameInv ==
  ASSUME IInv, TypeOK', UNCHANGED <<stream, sendSeq, firstSeq>>,
         BufferShrinks, ReceiverAdvances,
         \A p \in net' \ net : HonestPacket(p),
         \A s \in Side : pc'[s] = "idle" => pc[s] = "idle" \/ DOMAIN sendBuf[s] = {}
  PROVE  IInv'
<1> USE PeerFacts
<1>1. TypeOK
  BY DEF IInv
<1>2. \A s \in Side : /\ recvSeq[s] \in Nat /\ recvSeq'[s] \in Nat
                      /\ sendSeq[s] \in Nat
                      /\ Len(stream[s]) \in Nat /\ Len(absorbed'[s]) \in Nat
  <2> TAKE s \in Side
  <2>1. /\ recvSeq[s] \in Nat /\ sendSeq[s] \in Nat /\ Len(stream[s]) \in Nat
    BY <1>1, TypeFacts
  <2>2. recvSeq'[s] \in Nat /\ absorbed'[s] \in Seq(Chunk)
    BY DEF TypeOK
  <2>3. QED BY <2>1, <2>2, LenProperties
<1>3. Positions'
  BY DEF IInv, Positions, ReceiverAdvances
<1>4. SeqFaithful'
  <2>1. ASSUME NEW p \in net', p.kind = "DATA"
        PROVE  At(stream[Peer(p.dst)], p.seq, p.chunk)
    BY <2>1 DEF IInv, SeqFaithful, HonestPacket
  <2>2. ASSUME NEW s \in Side, NEW q \in DOMAIN sendBuf'[s]
        PROVE  At(stream[s], q, sendBuf'[s][q].chunk)
    BY DEF IInv, SeqFaithful, BufferShrinks
  <2>3. ASSUME NEW s \in Side, NEW q \in DOMAIN recvOoo'[s]
        PROVE  At(stream[Peer(s)], q, recvOoo'[s][q])
    BY DEF ReceiverAdvances
  <2>4. QED BY <2>1, <2>2, <2>3 DEF SeqFaithful
<1>5. AckFaithful'
  <2>1. ASSUME NEW p \in net', p.kind \in {"DATA", "ACK"}
        PROVE  p.ack <= recvSeq'[Peer(p.dst)]
    <3>1. CASE p \in net
      <4>1. p.dst \in Side /\ p.ack \in Nat
        BY <1>1, <2>1, <3>1, PacketFields DEF TypeOK
      <4>2. p.ack <= recvSeq[Peer(p.dst)]
        BY <2>1, <3>1 DEF IInv, AckFaithful
      <4>3. recvSeq[Peer(p.dst)] <= recvSeq'[Peer(p.dst)]
        BY <4>1 DEF ReceiverAdvances
      <4>4. QED BY <1>2, <4>1, <4>2, <4>3
    <3>2. CASE p \notin net
      BY <2>1, <3>2 DEF HonestPacket
    <3>3. QED BY <3>1, <3>2
  <2>2. ASSUME NEW s \in Side, NEW q \in DOMAIN sendBuf'[s]
        PROVE  sendBuf'[s][q].ack <= recvSeq'[s]
    <3>1. q \in DOMAIN sendBuf[s] /\ sendBuf'[s][q].ack = sendBuf[s][q].ack
      BY DEF BufferShrinks
    <3>2. sendBuf[s][q].ack <= recvSeq[s] /\ sendBuf[s][q].ack \in Nat
      BY <1>1, <3>1, TypeFacts DEF IInv, AckFaithful, SeqMap, Entry
    <3>3. recvSeq[s] <= recvSeq'[s]
      BY DEF ReceiverAdvances
    <3>4. QED BY <1>2, <3>1, <3>2, <3>3
  <2>3. QED BY <2>1, <2>2 DEF AckFaithful
<1>6. BufferCovers'
  <2> SUFFICES ASSUME NEW s \in Side
               PROVE  /\ \A q \in 1..Len(stream[s]) :
                           q \notin DOMAIN sendBuf'[s] => q < recvSeq'[Peer(s)]
                      /\ \A q \in DOMAIN sendBuf'[s] : firstSeq[s] <= q
                      /\ pc'[s] = "idle" => DOMAIN sendBuf'[s] = {}
    BY DEF BufferCovers
  <2>1. ASSUME NEW q \in 1..Len(stream[s]), q \notin DOMAIN sendBuf'[s]
        PROVE  q < recvSeq'[Peer(s)]
    <3>1. q < recvSeq[Peer(s)]
      BY <2>1 DEF IInv, BufferCovers, BufferShrinks
    <3>2. recvSeq[Peer(s)] <= recvSeq'[Peer(s)]
      BY DEF ReceiverAdvances
    <3>3. QED BY <1>2, <3>1, <3>2
  <2>2. \A q \in DOMAIN sendBuf'[s] : firstSeq[s] <= q
    BY DEF IInv, BufferCovers, BufferShrinks
  <2>3. ASSUME pc'[s] = "idle" PROVE DOMAIN sendBuf'[s] = {}
    BY <2>3 DEF IInv, BufferCovers, BufferShrinks
  <2>4. QED BY <2>1, <2>2, <2>3
<1>7. ExactlyOnceInOrder'
  <2> SUFFICES ASSUME NEW s \in Side
               PROVE  /\ Len(absorbed'[s]) <= Len(stream[Peer(s)])
                      /\ \A i \in 1..Len(absorbed'[s]) :
                           absorbed'[s][i] = stream[Peer(s)][i]
    BY DEF ExactlyOnceInOrder
  <2>1. /\ recvSeq'[s] = Len(absorbed'[s]) + 1
        /\ recvSeq'[s] <= sendSeq[Peer(s)]
        /\ \A i \in 1..Len(absorbed'[s]) : absorbed'[s][i] = stream[Peer(s)][i]
    BY DEF ReceiverAdvances
  <2>2. sendSeq[Peer(s)] = Len(stream[Peer(s)]) + 1
    BY DEF IInv, Positions
  <2>3. QED BY <1>2, <2>1, <2>2
<1>8. QED BY <1>3, <1>4, <1>5, <1>6, <1>7 DEF IInv

\* Leaving the receivers, or the send buffers, alone is enough.
LEMMA SameReceiver ==
  ASSUME IInv, UNCHANGED <<recvSeq, absorbed, recvOoo>>
  PROVE  ReceiverAdvances
<1> SUFFICES ASSUME NEW s \in Side
             PROVE  /\ recvSeq[s] <= recvSeq[s]
                    /\ recvSeq[s] = Len(absorbed[s]) + 1
                    /\ recvSeq[s] <= sendSeq[Peer(s)]
                    /\ \A i \in 1..Len(absorbed[s]) : absorbed[s][i] = stream[Peer(s)][i]
                    /\ \A q \in DOMAIN recvOoo[s] : At(stream[Peer(s)], q, recvOoo[s][q])
  BY DEF ReceiverAdvances
<1>1. recvSeq[s] \in Nat
  BY TypeFacts DEF IInv
<1>2. QED BY <1>1 DEF IInv, Positions, ExactlyOnceInOrder, SeqFaithful

LEMMA SameBuffer ==
  ASSUME UNCHANGED sendBuf
  PROVE  BufferShrinks
BY DEF BufferShrinks

\* What _fill_window, the timer and fast retransmit send out of the buffer.
LEMMA TransmitFacts ==
  ASSUME IInv, NEW s \in Side, NEW Q, NEW p \in Transmit(s, sendBuf[s], Q)
  PROVE  /\ p \in Packet
         /\ p.dst = Peer(s) /\ p.kind = "DATA"
         /\ At(stream[s], p.seq, p.chunk)
         /\ p.ack <= recvSeq[s]
<1>1. PICK q \in DOMAIN sendBuf[s] : p = DataPkt(s, q, sendBuf[s][q])
  BY DEF Transmit
<1>2. q \in Nat /\ sendBuf[s][q] \in Entry
  BY TypeFacts DEF IInv, SeqMap
<1>3. p \in Packet
  BY <1>1, <1>2, PeerFacts DEF DataPkt, Entry, Packet
<1>4. At(stream[s], q, sendBuf[s][q].chunk) /\ sendBuf[s][q].ack <= recvSeq[s]
  BY DEF IInv, SeqFaithful, AckFaithful
<1>5. QED BY <1>1, <1>3, <1>4 DEF DataPkt

\* Sending out of the buffer while the receivers stand still is harmless.
LEMMA TransmitHonest ==
  ASSUME IInv, UNCHANGED recvSeq, NEW s \in Side, NEW Q
  PROVE  /\ \A p \in Transmit(s, sendBuf[s], Q) : HonestPacket(p)
         /\ net \cup Transmit(s, sendBuf[s], Q) \subseteq Packet
<1>1. ASSUME NEW p \in Transmit(s, sendBuf[s], Q) PROVE HonestPacket(p)
  <2>1. Peer(p.dst) = s
    BY TransmitFacts, PeerFacts
  <2>2. QED BY <2>1, TransmitFacts DEF HonestPacket
<1>2. QED BY <1>1, TransmitFacts DEF IInv, TypeOK

\* The pause between two batches ends.
LEMMA EndPauseInv ==
  ASSUME IInv, NEW s \in Side, EndPause(s)
  PROVE  IInv'
<1>1. TypeOK'
  BY DEF IInv, TypeOK, EndPause, appVars, ccVars, rcvVars, connVars
<1>2. BufferShrinks
  BY SameBuffer DEF EndPause
<1>3. ReceiverAdvances
  BY SameReceiver DEF EndPause, rcvVars
<1>4. QED BY <1>1, <1>2, <1>3, FrameInv DEF EndPause, appVars, IInv, TypeOK

\* send() returns: with everything ACKed the buffer is empty.
LEMMA ReturnInv ==
  ASSUME IInv, NEW s \in Side, Return(s)
  PROVE  IInv'
<1>1. TypeOK'
  BY DEF IInv, TypeOK, Return, appVars, ccVars, rcvVars, connVars
<1>2. BufferShrinks
  BY SameBuffer DEF Return
<1>3. ReceiverAdvances
  BY SameReceiver DEF Return, rcvVars
<1>4. DOMAIN sendBuf[s] = {}
  <2>1. ASSUME NEW q \in DOMAIN sendBuf[s] PROVE FALSE
    <3>1. q \in 1..Len(stream[s]) /\ firstSeq[s] <= q
      BY DEF IInv, SeqFaithful, At, BufferCovers
    <3>2. q < sendSeq[s]
      BY <3>1, TypeFacts DEF IInv, Positions
    <3>3. q \in Unacked(s, sendBuf[s])
      BY <3>1, <3>2 DEF Unacked
    <3>4. QED BY <3>3 DEF Return
  <2>2. QED BY <2>1
<1>5. \A t \in Side : pc'[t] = "idle" => pc[t] = "idle" \/ DOMAIN sendBuf[t] = {}
  BY <1>4 DEF Return, IInv, TypeOK
<1>6. QED BY <1>1, <1>2, <1>3, <1>5, FrameInv DEF Return, appVars

\* The window is filled again after an ACK.
LEMMA RefillInv ==
  ASSUME IInv, NEW s \in Side, Refill(s)
  PROVE  IInv'
<1> DEFINE next == FillTo(nextSeq[s], sendSeq[s],
                          Cardinality(Unacked(s, sendBuf[s])), EffectiveWindow(s))
<1>1. /\ net' = net \cup Transmit(s, sendBuf[s], nextSeq[s]..(next - 1))
      /\ nextSeq' = [nextSeq EXCEPT ![s] = next]
      /\ AfterFill(s, sendSeq[s] - firstSeq[s] > 1)
      /\ UNCHANGED <<submitted, stream, sendSeq, sendBuf, firstSeq, ccVars, rcvVars,
                     connVars>>
  BY DEF Refill, appVars
<1>2. next \in Nat
  <2>1. Unacked(s, sendBuf[s]) \subseteq 1..Len(stream[s])
    BY DEF Unacked, IInv, SeqFaithful, At
  <2>2. Cardinality(Unacked(s, sendBuf[s])) \in Nat
    BY <2>1, PositionSets, TypeFacts DEF IInv
  <2>3. QED BY <2>2, TypeFacts, WindowType, FillToType DEF IInv
<1> HIDE DEF next
<1>3. UNCHANGED <<recvSeq, absorbed, recvOoo>>
  BY <1>1 DEF rcvVars
<1>4. net' \subseteq Packet
  BY <1>1, <1>3, TransmitHonest
<1>5. /\ pc' \in [Side -> {"idle", "waiting", "pausing", "failed"}]
      /\ ackEvent' \in [Side -> BOOLEAN]
      /\ nextSeq' \in [Side -> Nat]
  BY <1>1, <1>2 DEF AfterFill, IInv, TypeOK
<1>6. TypeOK'
  BY <1>1, <1>4, <1>5 DEF IInv, TypeOK, ccVars, rcvVars, connVars
<1>7. BufferShrinks
  BY <1>1, SameBuffer
<1>8. ReceiverAdvances
  BY <1>3, SameReceiver
<1>9. \A p \in net' \ net : HonestPacket(p)
  BY <1>1, <1>3, TransmitHonest
<1>10. \A t \in Side : pc'[t] = "idle" => pc[t] = "idle"
  BY <1>1 DEF AfterFill, IInv, TypeOK
<1>11. QED BY <1>1, <1>6, <1>7, <1>8, <1>9, <1>10, FrameInv

\* Go-back-N: only the retry counts of the buffer change.
LEMMA RtoInv ==
  ASSUME IInv, NEW s \in Side, Rto(s)
  PROVE  IInv'
<1> DEFINE U == Unacked(s, sendBuf[s])
<1>1. /\ sendBuf' = [sendBuf EXCEPT ![s] = Retried(@, U)]
      /\ net' = net \cup Transmit(s, sendBuf[s], U)
      /\ nextSeq' = [nextSeq EXCEPT ![s] = sendSeq[s]]
      /\ ssthresh' = [ssthresh EXCEPT ![s] = HalvedCwnd(cwnd[s])]
      /\ cwnd' = [cwnd EXCEPT ![s] = 1]
      /\ dupAcks' = [dupAcks EXCEPT ![s] = 0]
      /\ AfterFill(s, sendSeq[s] - firstSeq[s] > 1)
      /\ UNCHANGED <<submitted, stream, sendSeq, firstSeq, peerWindow, lastAck,
                     rcvVars, connVars>>
  BY DEF Rto, appVars
<1> HIDE DEF U
<1>2. UNCHANGED <<recvSeq, absorbed, recvOoo>>
  BY <1>1 DEF rcvVars
<1>3. \A t \in Side : t # s => sendBuf'[t] = sendBuf[t]
  BY <1>1 DEF IInv, TypeOK
<1>4. /\ DOMAIN sendBuf'[s] = DOMAIN sendBuf[s]
      /\ \A q \in DOMAIN sendBuf[s] :
           sendBuf'[s][q] = IF q \in U
                            THEN [sendBuf[s][q] EXCEPT !.retries = @ + 1]
                            ELSE sendBuf[s][q]
  <2>1. DOMAIN sendBuf = Side
    BY DEF IInv, TypeOK
  <2>2. sendBuf'[s] = Retried(sendBuf[s], U)
    BY <1>1, <2>1
  <2>3. QED BY <2>2 DEF Retried
<1>5. SeqMap(sendBuf[s], Entry)
  BY TypeFacts DEF IInv
<1>6. \A q \in DOMAIN sendBuf[s] : /\ sendBuf'[s][q] \in Entry
                                   /\ sendBuf'[s][q].chunk = sendBuf[s][q].chunk
                                   /\ sendBuf'[s][q].ack = sendBuf[s][q].ack
  <2> TAKE q \in DOMAIN sendBuf[s]
  <2>1. sendBuf[s][q] \in Entry
    BY <1>5 DEF SeqMap
  <2>2. [sendBuf[s][q] EXCEPT !.retries = @ + 1] \in Entry
    BY <2>1 DEF Entry
  <2>3. CASE q \in U
    <3>1. sendBuf'[s][q] = [sendBuf[s][q] EXCEPT !.retries = @ + 1]
      BY <1>4, <2>3
    <3>2. QED BY <2>1, <2>2, <3>1 DEF Entry
  <2>4. CASE q \notin U
    BY <1>4, <2>1, <2>4
  <2>5. QED BY <2>3, <2>4
<1>7. BufferShrinks
  <2> SUFFICES ASSUME NEW t \in Side
               PROVE  /\ DOMAIN sendBuf'[t] = DOMAIN sendBuf[t]
                      /\ \A q \in DOMAIN sendBuf[t] :
                           /\ sendBuf'[t][q].chunk = sendBuf[t][q].chunk
                           /\ sendBuf'[t][q].ack = sendBuf[t][q].ack
    BY DEF BufferShrinks
  <2>1. QED BY <1>3, <1>4, <1>6
<1>8. DOMAIN sendBuf' = Side /\ \A t \in Side : SeqMap(sendBuf'[t], Entry)
  <2>1. SeqMap(sendBuf'[s], Entry)
    BY <1>4, <1>5, <1>6 DEF SeqMap
  <2>2. QED BY <1>1, <1>3, <2>1 DEF IInv, TypeOK
<1>9. net' \subseteq Packet /\ \A p \in net' \ net : HonestPacket(p)
  BY <1>1, <1>2, TransmitHonest
<1>10. /\ pc' \in [Side -> {"idle", "waiting", "pausing", "failed"}]
       /\ ackEvent' \in [Side -> BOOLEAN]
       /\ \A t \in Side : pc'[t] = "idle" => pc[t] = "idle"
  BY <1>1 DEF AfterFill, IInv, TypeOK
<1>11. /\ nextSeq' \in [Side -> Nat]
       /\ ssthresh' \in [Side -> Nat \ {0}]
       /\ cwnd' \in [Side -> Nat \ {0}]
       /\ dupAcks' \in [Side -> Nat]
  <2>1. HalvedCwnd(cwnd[s]) \in Nat \ {0}
    BY CwndType, TypeFacts DEF IInv
  <2>2. QED BY <1>1, <2>1 DEF IInv, TypeOK
<1>12. TypeOK'
  BY <1>1, <1>8, <1>9, <1>10, <1>11 DEF IInv, TypeOK, rcvVars, connVars
<1>13. ReceiverAdvances
  BY <1>2, SameReceiver
<1>14. QED BY <1>1, <1>7, <1>9, <1>10, <1>12, <1>13, FrameInv

\* send() raises RudpTimeout.
LEMMA GiveUpInv ==
  ASSUME IInv, NEW s \in Side, GiveUp(s)
  PROVE  IInv'
<1>1. TypeOK'
  BY DEF IInv, TypeOK, GiveUp, appVars, ccVars, rcvVars
<1>2. BufferShrinks
  BY SameBuffer DEF GiveUp
<1>3. ReceiverAdvances
  BY SameReceiver DEF GiveUp, rcvVars
<1>4. QED BY <1>1, <1>2, <1>3, FrameInv DEF GiveUp, appVars, IInv, TypeOK

\* The ACK field of a packet removes from the send buffer only what the peer
\* has absorbed.
LEMMA AckEffect ==
  ASSUME IInv, NEW s \in Side, NEW p \in net, p.dst = s, p.kind \in {"DATA", "ACK"},
         ProcessAck(s, p)
  PROVE  /\ BufferShrinks
         /\ DOMAIN sendBuf' = Side /\ \A t \in Side : SeqMap(sendBuf'[t], Entry)
         /\ peerWindow' \in [Side -> Nat \ {0}]
         /\ cwnd' \in [Side -> Nat \ {0}]
         /\ ssthresh' \in [Side -> Nat \ {0}]
         /\ dupAcks' \in [Side -> Nat]
         /\ lastAck' \in [Side -> Nat]
         /\ ackEvent' \in [Side -> BOOLEAN]
<1>1. TypeOK
  BY DEF IInv
<1>2. p.ack \in Nat /\ p.win \in Nat
  BY <1>1, PacketFields DEF TypeOK
<1>3. p.ack <= recvSeq[Peer(s)]
  BY DEF IInv, AckFaithful
<1>4. peerWindow' \in [Side -> Nat \ {0}]
  <2>1. MaxOf(1, p.win) \in Nat \ {0}
    BY <1>2 DEF MaxOf
  <2>2. QED BY <1>1, <2>1 DEF ProcessAck, TypeOK
<1>5. CASE NewAck(s, p)
  <2> DEFINE done == {q \in DOMAIN sendBuf[s] : q < p.ack}
  <2>1. /\ sendBuf' = [sendBuf EXCEPT ![s] = [q \in DOMAIN @ \ done |-> @[q]]]
        /\ lastAck' = [lastAck EXCEPT ![s] = p.ack]
        /\ IF done = {} THEN UNCHANGED <<cwnd, dupAcks>>
           ELSE /\ \E w \in GrownCwnd(cwnd[s], ssthresh[s], Cardinality(done)) :
                     cwnd' = [cwnd EXCEPT ![s] = w]
                /\ dupAcks' = [dupAcks EXCEPT ![s] = 0]
        /\ ackEvent' = [ackEvent EXCEPT ![s] = TRUE]
        /\ UNCHANGED ssthresh
    BY <1>5 DEF NewAck
  <2>2. done \subseteq 1..Len(stream[s])
    BY DEF IInv, SeqFaithful, At
  <2>3. Cardinality(done) \in Nat
    BY <1>1, <2>2, PositionSets, TypeFacts
  <2>4. GrownCwnd(cwnd[s], ssthresh[s], Cardinality(done)) \subseteq Nat \ {0}
    BY <1>1, <2>3, CwndType, TypeFacts
  <2>5. cwnd' \in [Side -> Nat \ {0}] /\ dupAcks' \in [Side -> Nat]
    <3> HIDE DEF done
    <3>1. cwnd \in [Side -> Nat \ {0}] /\ dupAcks \in [Side -> Nat]
      BY <1>1 DEF TypeOK
    <3>2. CASE done = {}
      BY <2>1, <3>1, <3>2
    <3>3. CASE done # {}
      <4>1. PICK w \in GrownCwnd(cwnd[s], ssthresh[s], Cardinality(done)) :
              cwnd' = [cwnd EXCEPT ![s] = w]
        BY <2>1, <3>3
      <4>2. w \in Nat \ {0}
        BY <2>4
      <4>3. cwnd' \in [Side -> Nat \ {0}]
        BY <3>1, <4>1, <4>2
      <4>4. dupAcks' = [dupAcks EXCEPT ![s] = 0]
        BY <2>1, <3>3
      <4>5. QED BY <3>1, <4>3, <4>4
    <3>4. QED BY <3>2, <3>3
  <2>6. /\ sendBuf'[s] = [q \in DOMAIN sendBuf[s] \ done |-> sendBuf[s][q]]
        /\ \A t \in Side : t # s => sendBuf'[t] = sendBuf[t]
        /\ DOMAIN sendBuf' = Side
    BY <1>1, <2>1 DEF TypeOK
  <2>7. ASSUME NEW t \in Side
        PROVE  /\ DOMAIN sendBuf'[t] \subseteq DOMAIN sendBuf[t]
               /\ \A q \in DOMAIN sendBuf'[t] : sendBuf'[t][q] = sendBuf[t][q]
               /\ \A q \in DOMAIN sendBuf[t] \ DOMAIN sendBuf'[t] : q < recvSeq[Peer(t)]
    <3>1. CASE t = s
      <4>1. \A q \in done : q < recvSeq[Peer(s)]
        <5> TAKE q \in done
        <5>1. q \in Nat /\ q < p.ack
          BY <1>1, TypeFacts DEF SeqMap
        <5>2. recvSeq[Peer(s)] \in Nat
          BY <1>1, TypeFacts, PeerFacts
        <5>3. QED BY <1>2, <1>3, <5>1, <5>2
      <4> HIDE DEF done
      <4>2. QED BY <2>6, <3>1, <4>1
    <3>2. CASE t # s
      BY <2>6, <3>2
    <3>3. QED BY <3>1, <3>2
  <2>8. BufferShrinks
    BY <2>7 DEF BufferShrinks
  <2>9. \A t \in Side : SeqMap(sendBuf'[t], Entry)
    BY <1>1, <2>7, TypeFacts DEF SeqMap
  <2>10. lastAck' \in [Side -> Nat] /\ ackEvent' \in [Side -> BOOLEAN]
         /\ ssthresh' \in [Side -> Nat \ {0}]
    BY <1>1, <1>2, <2>1 DEF TypeOK
  <2>11. QED BY <1>4, <2>5, <2>6, <2>8, <2>9, <2>10
<1>6. CASE DupAck(s, p)
  <2>1. HalvedCwnd(cwnd[s]) \in Nat \ {0}
    BY <1>1, CwndType, TypeFacts
  <2>2. /\ cwnd' \in [Side -> Nat \ {0}]
        /\ ssthresh' \in [Side -> Nat \ {0}]
        /\ dupAcks' \in [Side -> Nat]
    <3>1. /\ cwnd \in [Side -> Nat \ {0}] /\ ssthresh \in [Side -> Nat \ {0}]
          /\ dupAcks \in [Side -> Nat]
      BY <1>1 DEF TypeOK
    <3>2. CASE AtThreshold(s)
      <4>1. /\ ssthresh' = [ssthresh EXCEPT ![s] = HalvedCwnd(cwnd[s])]
            /\ cwnd' = [cwnd EXCEPT ![s] = HalvedCwnd(cwnd[s])]
            /\ dupAcks' = [dupAcks EXCEPT ![s] = 0]
        BY <1>6, <3>2 DEF DupAck
      <4>2. QED BY <2>1, <3>1, <4>1
    <3>3. CASE ~AtThreshold(s)
      <4>1. /\ dupAcks' = [dupAcks EXCEPT ![s] = @ + 1]
            /\ UNCHANGED <<cwnd, ssthresh>>
        BY <1>6, <3>3 DEF DupAck
      <4>2. QED BY <3>1, <4>1
    <3>4. QED BY <3>2, <3>3
  <2>3. /\ UNCHANGED <<sendBuf, lastAck>>
        /\ ackEvent' = [ackEvent EXCEPT ![s] = TRUE]
    BY <1>6 DEF DupAck
  <2>4. QED BY <1>1, <1>4, <2>2, <2>3, SameBuffer DEF TypeOK
<1>7. CASE NoAck(s, p)
  BY <1>1, <1>4, <1>7, SameBuffer DEF NoAck, TypeOK
<1>8. QED BY <1>5, <1>6, <1>7 DEF ProcessAck

\* Fast retransmit sends out of the buffer.
LEMMA FastRetransmitFacts ==
  ASSUME IInv, NEW s \in Side, NEW p, NEW r \in FastRetransmit(s, p)
  PROVE  /\ r \in Packet
         /\ r.dst = Peer(s) /\ r.kind = "DATA"
         /\ At(stream[s], r.seq, r.chunk)
         /\ r.ack <= recvSeq[s]
<1> DEFINE missing == {q \in DOMAIN sendBuf[s] : q >= p.ack}
<1>1. r \in Transmit(s, sendBuf[s], {q \in missing : \A t \in missing : q <= t})
  BY DEF FastRetransmit
<1>2. QED BY <1>1, TransmitFacts

\* An ACK arrives.
LEMMA OnAckInv ==
  ASSUME IInv, NEW s \in Side, NEW p \in net, OnAck(s, p)
  PROVE  IInv'
<1>1. /\ p.dst = s /\ p.kind = "ACK"
      /\ ProcessAck(s, p)
      /\ net' = net \cup FastRetransmit(s, p)
      /\ Deregister(s, closed[s])
      /\ UNCHANGED <<submitted, stream, sendSeq, firstSeq, nextSeq, pc, rcvVars, closed>>
  BY DEF OnAck, appVars
<1>2. UNCHANGED <<recvSeq, absorbed, recvOoo, taken, eof>>
  BY <1>1 DEF rcvVars
<1>3. \A r \in FastRetransmit(s, p) : r \in Packet /\ HonestPacket(r)
  <2> TAKE r \in FastRetransmit(s, p)
  <2>1. Peer(r.dst) = s
    BY FastRetransmitFacts, PeerFacts
  <2>2. QED BY <1>2, <2>1, FastRetransmitFacts DEF HonestPacket
<1>4. net' \subseteq Packet
  BY <1>1, <1>3 DEF IInv, TypeOK
<1>5. registered' \in BOOLEAN
  BY <1>1 DEF Deregister
<1>6. BufferShrinks
  BY <1>1, AckEffect
<1>7. TypeOK'
  <2>1. /\ DOMAIN sendBuf' = Side /\ \A t \in Side : SeqMap(sendBuf'[t], Entry)
        /\ peerWindow' \in [Side -> Nat \ {0}]
        /\ cwnd' \in [Side -> Nat \ {0}]
        /\ ssthresh' \in [Side -> Nat \ {0}]
        /\ dupAcks' \in [Side -> Nat]
        /\ lastAck' \in [Side -> Nat]
        /\ ackEvent' \in [Side -> BOOLEAN]
    BY <1>1, AckEffect
  <2>2. QED BY <1>1, <1>2, <1>4, <1>5, <2>1 DEF IInv, TypeOK
<1>8. ReceiverAdvances
  BY <1>2, SameReceiver
<1>9. QED BY <1>1, <1>3, <1>6, <1>7, <1>8, FrameInv

\* The chunk of a DATA packet goes into the receiver: a run of the peer's
\* stream is absorbed, or the chunk is buffered under its position.
LEMMA DeliverEffect ==
  ASSUME IInv, NEW s \in Side, NEW p \in net, p.dst = s, p.kind = "DATA",
         InOrder(s, p) \/ Ahead(s, p) \/ Behind(s, p)
  PROVE  /\ recvSeq' \in [Side -> Nat]
         /\ absorbed' \in [Side -> Seq(Chunk)]
         /\ DOMAIN recvOoo' = Side /\ \A t \in Side : SeqMap(recvOoo'[t], Chunk)
         /\ ReceiverAdvances
<1> USE PeerFacts
<1>1. TypeOK
  BY DEF IInv
<1>2. p.seq \in Nat /\ p.chunk \in Chunk /\ At(stream[Peer(s)], p.seq, p.chunk)
  BY <1>1, PacketFields DEF TypeOK, IInv, SeqFaithful
<1>3. /\ recvSeq[s] \in Nat /\ recvSeq[s] = Len(absorbed[s]) + 1
      /\ absorbed[s] \in Seq(Chunk) /\ Len(absorbed[s]) \in Nat
      /\ stream[Peer(s)] \in Seq(Chunk) /\ Len(stream[Peer(s)]) \in Nat
      /\ sendSeq[Peer(s)] = Len(stream[Peer(s)]) + 1
      /\ recvSeq[s] <= sendSeq[Peer(s)]
  BY <1>1, TypeFacts DEF IInv, Positions
<1>4. \A q \in DOMAIN recvOoo[s] :
        At(stream[Peer(s)], q, recvOoo[s][q]) /\ recvOoo[s][q] \in Chunk /\ q \in Nat
  BY <1>1, TypeFacts DEF IInv, SeqFaithful, SeqMap
<1>5. \A i \in 1..Len(absorbed[s]) : absorbed[s][i] = stream[Peer(s)][i]
  BY DEF IInv, ExactlyOnceInOrder
<1>6. ASSUME /\ recvSeq[s] <= recvSeq'[s]
             /\ recvSeq'[s] = Len(absorbed'[s]) + 1
             /\ recvSeq'[s] <= sendSeq[Peer(s)]
             /\ \A i \in 1..Len(absorbed'[s]) : absorbed'[s][i] = stream[Peer(s)][i]
             /\ \A q \in DOMAIN recvOoo'[s] : At(stream[Peer(s)], q, recvOoo'[s][q]),
             \A t \in Side : t # s => /\ recvSeq'[t] = recvSeq[t]
                                      /\ absorbed'[t] = absorbed[t]
                                      /\ recvOoo'[t] = recvOoo[t]
      PROVE  ReceiverAdvances
  <2> SUFFICES ASSUME NEW t \in Side, t # s
               PROVE  /\ recvSeq[t] <= recvSeq[t]
                      /\ recvSeq[t] = Len(absorbed[t]) + 1
                      /\ recvSeq[t] <= sendSeq[Peer(t)]
                      /\ \A i \in 1..Len(absorbed[t]) : absorbed[t][i] = stream[Peer(t)][i]
                      /\ \A q \in DOMAIN recvOoo[t] : At(stream[Peer(t)], q, recvOoo[t][q])
    BY <1>6 DEF ReceiverAdvances
  <2>1. recvSeq[t] \in Nat
    BY <1>1, TypeFacts
  <2>2. QED BY <2>1 DEF IInv, Positions, ExactlyOnceInOrder, SeqFaithful
<1>7. CASE InOrder(s, p)
  <2> DEFINE ooo == recvOoo[s]
  <2>1. PICK n \in (p.seq + 1)..(p.seq + 1 + Cardinality(DOMAIN ooo)) :
           /\ n \notin DOMAIN ooo
           /\ \A m \in (p.seq + 1)..(n - 1) : m \in DOMAIN ooo
           /\ absorbed' = [absorbed EXCEPT ![s] =
                @ \o <<p.chunk>> \o [i \in 1..(n - p.seq - 1) |-> ooo[p.seq + i]]]
           /\ recvOoo' = [recvOoo EXCEPT ![s] =
                [q \in DOMAIN ooo \ ((p.seq + 1)..(n - 1)) |-> ooo[q]]]
           /\ recvSeq' = [recvSeq EXCEPT ![s] = n]
    BY <1>7 DEF InOrder
  <2>2. p.seq = recvSeq[s]
    BY <1>7 DEF InOrder
  <2>3. n \in Nat /\ n >= p.seq + 1
    <3>1. DOMAIN ooo \subseteq 1..Len(stream[Peer(s)])
      BY <1>4 DEF At
    <3>2. Cardinality(DOMAIN ooo) \in Nat
      BY <1>3, <3>1, PositionSets
    <3>3. QED BY <1>2, <3>2
  <2> DEFINE k   == n - p.seq - 1
             run == [i \in 1..k |-> ooo[p.seq + i]]
             a   == absorbed[s] \o <<p.chunk>> \o run
  <2>4. k \in Nat /\ n = p.seq + 1 + k
    BY <1>2, <2>3
  <2>5. \A i \in 1..k : p.seq + i \in DOMAIN ooo
    <3> TAKE i \in 1..k
    <3>1. p.seq + i \in (p.seq + 1)..(n - 1)
      BY <1>2, <2>4
    <3>2. QED BY <2>1, <3>1
  <2>6. run \in [1..k -> Chunk] /\ \A i \in 1..k : run[i] = stream[Peer(s)][p.seq + i]
    BY <1>4, <2>5 DEF At
  <2>7. /\ absorbed'[s] = a /\ recvSeq'[s] = n
        /\ recvOoo'[s] = [q \in DOMAIN ooo \ ((p.seq + 1)..(n - 1)) |-> ooo[q]]
        /\ \A t \in Side : t # s => /\ recvSeq'[t] = recvSeq[t]
                                    /\ absorbed'[t] = absorbed[t]
                                    /\ recvOoo'[t] = recvOoo[t]
    BY <1>1, <2>1 DEF TypeOK
  <2> HIDE DEF k, run
  <2>8. /\ a \in Seq(Chunk)
        /\ Len(a) = Len(absorbed[s]) + 1 + k
        /\ \A i \in 1..(Len(absorbed[s]) + 1 + k) :
              a[i] = IF i <= Len(absorbed[s]) THEN absorbed[s][i]
                     ELSE IF i = Len(absorbed[s]) + 1 THEN p.chunk
                     ELSE run[i - Len(absorbed[s]) - 1]
    <3>1. absorbed[s] \in Seq(Chunk) /\ p.chunk \in Chunk
      BY <1>2, <1>3
    <3>2. k \in Nat /\ run \in [1..k -> Chunk]
      BY <2>4, <2>6
    <3>3. QED BY <3>1, <3>2, AppendRun
  <2> HIDE DEF a
  <2>9. n = Len(a) + 1
    BY <1>3, <2>2, <2>4, <2>8
  <2>10. n <= sendSeq[Peer(s)]
    <3>1. p.seq <= Len(stream[Peer(s)])
      BY <1>2 DEF At
    <3>2. CASE k = 0
      BY <1>2, <1>3, <2>4, <3>1, <3>2
    <3>3. CASE k # 0
      <4>1. p.seq + k \in DOMAIN ooo
        BY <2>4, <2>5, <3>3
      <4>2. p.seq + k <= Len(stream[Peer(s)])
        BY <1>4, <4>1 DEF At
      <4>3. QED BY <1>2, <1>3, <2>4, <4>2
    <3>4. QED BY <3>2, <3>3
  <2>11. \A i \in 1..Len(a) : a[i] = stream[Peer(s)][i]
    <3> TAKE i \in 1..Len(a)
    <3>1. CASE i <= Len(absorbed[s])
      BY <1>3, <1>5, <2>4, <2>8, <3>1
    <3>2. CASE i = Len(absorbed[s]) + 1
      <4>1. a[i] = p.chunk
        BY <1>3, <2>4, <2>8, <3>2
      <4>2. i = p.seq
        BY <1>3, <2>2, <3>2
      <4>3. QED BY <1>2, <4>1, <4>2 DEF At
    <3>3. CASE i > Len(absorbed[s]) + 1
      <4>1. i - Len(absorbed[s]) - 1 \in 1..k
        BY <1>3, <2>4, <2>8, <3>3
      <4>2. a[i] = run[i - Len(absorbed[s]) - 1]
        BY <1>3, <2>4, <2>8, <3>3
      <4>3. p.seq + (i - Len(absorbed[s]) - 1) = i
        <5>1. /\ i \in Int /\ Len(absorbed[s]) \in Nat
              /\ p.seq = Len(absorbed[s]) + 1
          BY <1>3, <2>2
        <5>2. QED BY <5>1
      <4>4. QED BY <2>6, <4>1, <4>2, <4>3
    <3>4. QED BY <1>3, <2>4, <2>8, <3>1, <3>2, <3>3
  <2>12. /\ SeqMap(recvOoo'[s], Chunk)
         /\ \A q \in DOMAIN recvOoo'[s] : At(stream[Peer(s)], q, recvOoo'[s][q])
    BY <1>4, <2>7 DEF SeqMap
  <2>13. recvSeq[s] <= n
    BY <1>2, <1>3, <2>2, <2>3
  <2>14. ReceiverAdvances
    BY <1>6, <2>7, <2>9, <2>10, <2>11, <2>12, <2>13
  <2>15. /\ recvSeq' \in [Side -> Nat] /\ absorbed' \in [Side -> Seq(Chunk)]
         /\ DOMAIN recvOoo' = Side
    <3>1. /\ recvSeq \in [Side -> Nat] /\ absorbed \in [Side -> Seq(Chunk)]
          /\ DOMAIN recvOoo = Side
      BY <1>1 DEF TypeOK
    <3>2. absorbed' = [absorbed EXCEPT ![s] = a]
      BY <2>1 DEF a, run, k
    <3>3. DOMAIN recvOoo' = Side
      BY <2>1, <3>1
    <3>4. recvSeq' \in [Side -> Nat]
      BY <2>1, <2>3, <3>1
    <3>5. absorbed' \in [Side -> Seq(Chunk)]
      BY <2>8, <3>1, <3>2
    <3>6. QED BY <3>3, <3>4, <3>5
  <2>16. \A t \in Side : SeqMap(recvOoo'[t], Chunk)
    BY <1>1, <2>7, <2>12, TypeFacts
  <2>17. QED BY <2>14, <2>15, <2>16
<1>8. CASE Ahead(s, p)
  <2>1. recvOoo' = [recvOoo EXCEPT ![s] =
          [q \in DOMAIN @ \cup {p.seq} |-> IF q = p.seq THEN p.chunk ELSE @[q]]]
    BY <1>8 DEF Ahead
  <2>2. UNCHANGED <<recvSeq, absorbed>>
    BY <1>8 DEF Ahead
  <2>3. DOMAIN recvOoo = Side
    BY <1>1 DEF TypeOK
  <2>4. /\ recvOoo'[s] = [q \in DOMAIN recvOoo[s] \cup {p.seq} |->
                            IF q = p.seq THEN p.chunk ELSE recvOoo[s][q]]
        /\ DOMAIN recvOoo' = Side
        /\ \A t \in Side : t # s => recvOoo'[t] = recvOoo[t]
    BY <2>1, <2>3
  <2>5. /\ SeqMap(recvOoo'[s], Chunk)
        /\ \A q \in DOMAIN recvOoo'[s] : At(stream[Peer(s)], q, recvOoo'[s][q])
    BY <1>2, <1>4, <2>4 DEF SeqMap
  <2>6. ReceiverAdvances
    <3>1. /\ recvSeq[s] <= recvSeq'[s]
          /\ recvSeq'[s] = Len(absorbed'[s]) + 1
          /\ recvSeq'[s] <= sendSeq[Peer(s)]
          /\ \A i \in 1..Len(absorbed'[s]) : absorbed'[s][i] = stream[Peer(s)][i]
      BY <1>3, <1>5, <2>2
    <3>2. \A t \in Side : t # s => /\ recvSeq'[t] = recvSeq[t]
                                   /\ absorbed'[t] = absorbed[t]
                                   /\ recvOoo'[t] = recvOoo[t]
      BY <2>2, <2>4
    <3>3. QED BY <1>6, <2>5, <3>1, <3>2
  <2>7. QED BY <1>1, <2>2, <2>4, <2>5, <2>6, TypeFacts DEF TypeOK
<1>9. CASE Behind(s, p)
  <2>1. UNCHANGED <<recvSeq, absorbed, recvOoo>>
    BY <1>9 DEF Behind
  <2>2. QED BY <1>1, <2>1, SameReceiver DEF TypeOK
<1>10. QED BY <1>7, <1>8, <1>9

\* A DATA packet arrives.
LEMMA OnDataInv ==
  ASSUME IInv, NEW s \in Side, NEW p \in net, OnData(s, p)
  PROVE  IInv'
<1> USE PeerFacts
<1>1. /\ p.dst = s /\ p.kind = "DATA"
      /\ ProcessAck(s, p)
      /\ Deregister(s, closed[s])
      /\ UNCHANGED <<submitted, stream, sendSeq, firstSeq, nextSeq, pc, taken, eof, closed>>
  BY DEF OnData, appVars
<1>2. TypeOK
  BY DEF IInv
<1>3. /\ BufferShrinks
      /\ DOMAIN sendBuf' = Side /\ \A t \in Side : SeqMap(sendBuf'[t], Entry)
      /\ peerWindow' \in [Side -> Nat \ {0}]
      /\ cwnd' \in [Side -> Nat \ {0}]
      /\ ssthresh' \in [Side -> Nat \ {0}]
      /\ dupAcks' \in [Side -> Nat]
      /\ lastAck' \in [Side -> Nat]
      /\ ackEvent' \in [Side -> BOOLEAN]
  BY <1>1, AckEffect
<1>4. registered' \in BOOLEAN
  BY <1>1 DEF Deregister
<1>5. ASSUME /\ recvSeq' \in [Side -> Nat]
             /\ absorbed' \in [Side -> Seq(Chunk)]
             /\ DOMAIN recvOoo' = Side /\ \A t \in Side : SeqMap(recvOoo'[t], Chunk)
             /\ ReceiverAdvances,
             \A r \in net' \ net : r \in Packet /\ HonestPacket(r)
      PROVE  IInv'
  <2>1. net' \subseteq Packet
    BY <1>2, <1>5 DEF TypeOK
  <2>2. TypeOK'
    BY <1>1, <1>2, <1>3, <1>4, <1>5, <2>1 DEF TypeOK
  <2>3. QED BY <1>1, <1>3, <1>5, <2>2, FrameInv
<1>6. ASSUME ReceiverAdvances, recvSeq' \in [Side -> Nat], NEW r \in FastRetransmit(s, p)
      PROVE  r \in Packet /\ HonestPacket(r)
  <2>1. Peer(r.dst) = s /\ r \in Packet /\ r.ack <= recvSeq[s] /\ r.kind = "DATA"
        /\ At(stream[s], r.seq, r.chunk)
    BY <1>6, FastRetransmitFacts
  <2>2. r.ack \in Nat
    BY <2>1, PacketFields
  <2>3. recvSeq[s] <= recvSeq'[s] /\ recvSeq[s] \in Nat /\ recvSeq'[s] \in Nat
    BY <1>2, <1>6, TypeFacts DEF ReceiverAdvances
  <2>4. r.ack <= recvSeq'[s]
    BY <2>1, <2>2, <2>3
  <2>5. QED BY <2>1, <2>4 DEF HonestPacket
<1>7. CASE p.chunk.payload = <<>>
  <2>1. /\ UNCHANGED <<recvSeq, recvOoo, absorbed>>
        /\ net' = net \cup FastRetransmit(s, p)
    BY <1>7 DEF OnData
  <2>2. ReceiverAdvances
    BY <2>1, SameReceiver
  <2>3. /\ recvSeq' \in [Side -> Nat]
        /\ absorbed' \in [Side -> Seq(Chunk)]
        /\ DOMAIN recvOoo' = Side /\ \A t \in Side : SeqMap(recvOoo'[t], Chunk)
    BY <1>2, <2>1 DEF TypeOK
  <2>4. \A r \in net' \ net : r \in Packet /\ HonestPacket(r)
    BY <1>6, <2>1, <2>2, <2>3
  <2>5. QED BY <1>5, <2>2, <2>3, <2>4
<1>8. CASE p.chunk.payload # <<>>
  <2> DEFINE reply == AckPkt(s, recvSeq'[s], AdvWindow(absorbed'[s], taken[s]))
  <2>1. /\ InOrder(s, p) \/ Ahead(s, p) \/ Behind(s, p)
        /\ net' = net \cup FastRetransmit(s, p) \cup {reply}
    BY <1>8 DEF OnData
  <2>2. /\ recvSeq' \in [Side -> Nat]
        /\ absorbed' \in [Side -> Seq(Chunk)]
        /\ DOMAIN recvOoo' = Side /\ \A t \in Side : SeqMap(recvOoo'[t], Chunk)
        /\ ReceiverAdvances
    BY <1>1, <2>1, DeliverEffect
  <2>3. recvSeq'[s] \in Nat /\ AdvWindow(absorbed'[s], taken[s]) \in Nat
    BY <1>2, <2>2, AdvWindowType, TypeFacts
  <2>4. reply \in Packet
    BY <2>3 DEF AckPkt, Packet
  <2>5. reply.ack = recvSeq'[s] /\ reply.kind = "ACK" /\ Peer(reply.dst) = s
    BY DEF AckPkt
  <2> HIDE DEF reply
  <2>6. HonestPacket(reply)
    BY <2>3, <2>5 DEF HonestPacket
  <2>7. \A r \in net' \ net : r \in Packet /\ HonestPacket(r)
    BY <1>6, <2>1, <2>2, <2>4, <2>6
  <2>8. QED BY <1>5, <2>2, <2>7
<1>9. QED BY <1>7, <1>8

\* FIN, RST, a packet without a connection, recv() and close() touch neither
\* the send buffers nor the absorbed chunks.
LEMMA ControlInv ==
  ASSUME IInv, NEW s \in Side,
         \/ OnFin(s) \/ OnRst(s) \/ Recv(s) \/ Close(s)
         \/ \E p \in net : Reject(p)
  PROVE  IInv'
<1> USE PeerFacts
<1>1. UNCHANGED <<submitted, stream, sendSeq, sendBuf, firstSeq, nextSeq, pc, ackEvent,
                  ccVars, recvSeq, absorbed, recvOoo>>
  BY DEF OnFin, OnRst, Recv, Close, Reject, appVars, sndVars, rcvVars
<1>2. \A t \in Side : NumMsgs(absorbed[t]) \in Nat
  BY AdvWindowType, TypeFacts DEF IInv
<1>3. eof' \in [Side -> Nat \cup {NoEof}]
  <2>1. eof \in [Side -> Nat \cup {NoEof}]
    BY DEF IInv, TypeOK
  <2>2. CASE MarkEof(s)
    BY <1>2, <2>1, <2>2 DEF MarkEof
  <2>3. CASE UNCHANGED eof
    BY <2>1, <2>3
  <2>4. MarkEof(s) \/ UNCHANGED eof
    BY DEF OnFin, OnRst, Recv, Close, Reject, rcvVars
  <2>5. QED BY <2>2, <2>3, <2>4
<1>4. /\ taken' \in [Side -> Nat]
      /\ closed' \in [Side -> BOOLEAN]
      /\ registered' \in BOOLEAN
  <2>1. /\ taken \in [Side -> Nat] /\ closed \in [Side -> BOOLEAN]
        /\ registered \in BOOLEAN
    BY DEF IInv, TypeOK
  <2>2. UNCHANGED taken \/ taken' = [taken EXCEPT ![s] = @ + 1]
    BY DEF OnFin, OnRst, Recv, Close, Reject, rcvVars
  <2>3. UNCHANGED closed \/ closed' = [closed EXCEPT ![s] = TRUE]
    BY DEF OnFin, OnRst, Recv, Close, Reject, connVars
  <2>4. UNCHANGED registered \/ Deregister(s, TRUE)
    BY DEF OnFin, OnRst, Recv, Close, Reject, connVars
  <2>5. registered' \in BOOLEAN
    BY <2>1, <2>4 DEF Deregister
  <2>6. taken' \in [Side -> Nat]
    <3>1. CASE UNCHANGED taken
      BY <2>1, <3>1
    <3>2. CASE taken' = [taken EXCEPT ![s] = @ + 1]
      BY <2>1, <3>2
    <3>3. QED BY <2>2, <3>1, <3>2
  <2>7. closed' \in [Side -> BOOLEAN]
    BY <2>1, <2>3
  <2>8. QED BY <2>5, <2>6, <2>7
<1>5. net' \subseteq net \cup {FinPkt(s), RstPkt("server")}
  BY DEF OnFin, OnRst, Recv, Close, Reject
<1>6. FinPkt(s) \in Packet /\ RstPkt("server") \in Packet
  BY DEF FinPkt, RstPkt, Packet, Side, Peer
<1>7. net' \subseteq Packet /\ \A p \in net' \ net : HonestPacket(p)
  <2>1. HonestPacket(FinPkt(s)) /\ HonestPacket(RstPkt("server"))
    BY DEF HonestPacket, FinPkt, RstPkt
  <2>2. net \subseteq Packet
    BY DEF IInv, TypeOK
  <2>3. QED BY <1>5, <1>6, <2>1, <2>2
<1>8. TypeOK'
  BY <1>1, <1>3, <1>4, <1>7 DEF IInv, TypeOK, ccVars
<1>9. BufferShrinks /\ ReceiverAdvances
  BY <1>1, SameBuffer, SameReceiver
<1>10. QED BY <1>1, <1>7, <1>8, <1>9, FrameInv

\* A step that changes nothing.
LEMMA StutterInv ==
  ASSUME IInv, UNCHANGED vars
  PROVE  IInv'
<1>1. UNCHANGED <<submitted, stream, sendSeq, sendBuf, firstSeq, nextSeq, pc, ackEvent,
                  peerWindow, cwnd, ssthresh, dupAcks, lastAck,
                  recvSeq, recvOoo, absorbed, taken, eof, closed, registered, net>>
  BY DEF vars, appVars, sndVars, ccVars, rcvVars, connVars
<1>2. TypeOK'
  BY <1>1 DEF IInv, TypeOK
<1>3. BufferShrinks /\ ReceiverAdvances
  BY <1>1, SameBuffer, SameReceiver
<1>4. QED BY <1>1, <1>2, <1>3, FrameInv

\* With an empty buffer and nobody ahead, the peer stands at the stream's end.
LEMMA EmptyMeansAbsorbed ==
  ASSUME IInv, NEW s \in Side, DOMAIN sendBuf[s] = {}
  PROVE  Len(absorbed[Peer(s)]) = Len(stream[s])
<1> DEFINE n == Len(stream[s])
           m == Len(absorbed[Peer(s)])
<1>1. n \in Nat /\ m \in Nat
  BY PeerFacts, TypeFacts DEF IInv
<1>2. recvSeq[Peer(s)] = m + 1 /\ m <= n
  BY PeerFacts DEF IInv, Positions, ExactlyOnceInOrder
<1>3. \A q \in 1..n : q < recvSeq[Peer(s)]
  BY DEF IInv, BufferCovers
<1>4. n # 0 => n < m + 1
  BY <1>1, <1>2, <1>3
<1>5. QED BY <1>1, <1>2, <1>4

-----------------------------------------------------------------------------
(* Theorems of the specification.                                          *)

\* The invariant holds in every reachable state.
THEOREM Inductive == Spec => []IInv
<1>1. Init => IInv
  BY InitInv
<1>2. IInv /\ [Next]_vars => IInv'
  <2> SUFFICES ASSUME IInv, [Next]_vars PROVE IInv'
    OBVIOUS
  <2>1. ASSUME NEW s \in Side, NEW n \in MsgSizes, Send(s, n) PROVE IInv'
    BY <2>1, SendInv
  <2>2. ASSUME NEW s \in Side, SenderStep(s) PROVE IInv'
    BY <2>2, EndPauseInv, ReturnInv, RefillInv, RtoInv, GiveUpInv DEF SenderStep
  <2>3. ASSUME NEW s \in Side, Receive(s) PROVE IInv'
    BY <2>3, OnDataInv, OnAckInv, ControlInv DEF Receive
  <2>4. ASSUME NEW s \in Side, Recv(s) \/ Close(s) PROVE IInv'
    BY <2>4, ControlInv
  <2>5. ASSUME NEW p \in net, Reject(p) PROVE IInv'
    <3>1. "server" \in Side
      BY DEF Side
    <3>2. QED BY <2>5, <3>1, ControlInv
  <2>6. CASE UNCHANGED vars
    BY <2>6, StutterInv
  <2>7. QED BY <2>1, <2>2, <2>3, <2>4, <2>5, <2>6 DEF Next
<1>3. QED BY <1>1, <1>2, PTL DEF Spec

\* Type correctness.
THEOREM TypeCorrect == Spec => []TypeOK
<1>1. IInv => TypeOK
  BY DEF IInv
<1>2. QED BY <1>1, Inductive, PTL

\* Each side absorbs exactly a prefix of its peer's stream, however packets are
\* lost, repeated and reordered.
THEOREM DeliveryCorrect == Spec => []ExactlyOnceInOrder
<1>1. IInv => ExactlyOnceInOrder
  BY DEF IInv
<1>2. QED BY <1>1, Inductive, PTL

\* When send() has returned normally the peer has absorbed every chunk.
THEOREM ReturnCorrect == Spec => []ReturnMeansAbsorbed
<1>1. IInv => ReturnMeansAbsorbed
  BY EmptyMeansAbsorbed DEF ReturnMeansAbsorbed, IInv, BufferCovers
<1>2. QED BY <1>1, Inductive, PTL

-----------------------------------------------------------------------------
(* Framing: the messages that MSG_END cuts out of the stream.              *)

\* b[j] is the position in the stream st of the last chunk of message j.
Bounds(b, st, sub) ==
  /\ b \in [0..Len(sub) -> Nat]
  /\ b[0] = 0 /\ b[Len(sub)] = Len(st)
  /\ \A i, j \in 0..Len(sub) : i < j => b[i] < b[j]
  /\ \A j \in 1..Len(sub) :
       /\ b[j] = b[j - 1] + Len(ChunksOf(j, sub[j]))
       /\ \A i \in 1..Len(ChunksOf(j, sub[j])) :
            st[b[j - 1] + i] = ChunksOf(j, sub[j])[i]
  /\ \A q \in 1..Len(st) : \E j \in 1..Len(sub) : b[j - 1] < q /\ q <= b[j]

\* The stream is the messages given to send(), one after the other.
Framed == \A s \in Side : \E b : Bounds(b, stream[s], submitted[s])

\* Only the last chunk of a message has MSG_END.
LEMMA ChunkEnds ==
  ASSUME NEW k \in Nat, NEW n \in Nat, NEW i \in 1..Len(ChunksOf(k, n))
  PROVE  ChunksOf(k, n)[i].end <=> i = Len(ChunksOf(k, n))
<1>1. CASE n = 0
  <2>1. ChunksOf(k, n) = <<[payload |-> <<>>, end |-> TRUE]>>
    BY <1>1 DEF ChunksOf
  <2>2. Len(ChunksOf(k, n)) = 1 /\ ChunksOf(k, n)[1].end = TRUE
    BY <2>1
  <2>3. QED BY <2>2
<1>2. CASE n # 0
  <2>1. ChunksOf(k, n) = [j \in 1..n |-> [payload |-> <<k, j>>, end |-> j = n]]
    BY <1>2 DEF ChunksOf
  <2>2. Len(ChunksOf(k, n)) = n
    BY <2>1
  <2>3. ChunksOf(k, n)[i] = [payload |-> <<k, i>>, end |-> i = n]
    BY <2>1, <2>2
  <2>4. [payload |-> <<k, i>>, end |-> i = n].end <=> i = n
    OBVIOUS
  <2>5. QED BY <2>2, <2>3, <2>4
<1>3. QED BY <1>1, <1>2

\* The next message extends the stream by its chunks.
LEMMA BoundsSend ==
  ASSUME NEW sub \in Seq(Nat), NEW st \in Seq(Chunk), NEW b, Bounds(b, st, sub),
         NEW n \in Nat
  PROVE  \E d : Bounds(d, st \o ChunksOf(Len(sub) + 1, n), Append(sub, n))
<1> DEFINE N   == Len(sub)
           cs  == ChunksOf(N + 1, n)
           new == st \o cs
           all == Append(sub, n)
           d   == [j \in 0..(N + 1) |-> IF j = N + 1 THEN Len(st) + Len(cs) ELSE b[j]]
<1>1. /\ N \in Nat /\ cs \in Seq(Chunk) /\ Len(cs) \in Nat \ {0} /\ Len(st) \in Nat
  BY ChunksType
<1>2. /\ Len(all) = N + 1 /\ all[N + 1] = n
      /\ \A j \in 1..N : all[j] = sub[j]
  BY <1>1
<1>3. /\ Len(new) = Len(st) + Len(cs)
      /\ \A i \in 1..(Len(st) + Len(cs)) :
           new[i] = IF i <= Len(st) THEN st[i] ELSE cs[i - Len(st)]
  BY <1>1, ConcatProperties
<1>4. /\ b \in [0..N -> Nat] /\ b[0] = 0 /\ b[N] = Len(st)
      /\ \A i, j \in 0..N : i < j => b[i] < b[j]
  BY DEF Bounds
<1>5. /\ d \in [0..(N + 1) -> Nat] /\ d[N + 1] = Len(st) + Len(cs)
      /\ \A j \in 0..N : d[j] = b[j] /\ d[j] <= Len(st)
  <2>1. \A j \in 0..N : b[j] \in Nat /\ b[j] <= Len(st)
    <3> TAKE j \in 0..N
    <3>1. j < N \/ j = N
      BY <1>1
    <3>2. b[j] \in Nat /\ N \in 0..N
      BY <1>1, <1>4
    <3>3. j < N => b[j] < Len(st)
      BY <1>4, <3>2
    <3>4. b[j] <= Len(st)
      BY <1>1, <1>4, <3>1, <3>2, <3>3
    <3>5. QED BY <3>2, <3>4
  <2>2. \A j \in 0..N : d[j] = b[j]
    BY <1>1
  <2>3. d \in [0..(N + 1) -> Nat]
    BY <1>1, <2>1
  <2>4. QED BY <1>1, <2>1, <2>2, <2>3
<1> HIDE DEF d, new, all
<1>6. ASSUME NEW j \in 1..N
      PROVE  /\ d[j] = d[j - 1] + Len(ChunksOf(j, all[j]))
             /\ \A i \in 1..Len(ChunksOf(j, all[j])) :
                  new[d[j - 1] + i] = ChunksOf(j, all[j])[i]
  <2> DEFINE cj == ChunksOf(j, sub[j])
  <2>1. j \in 0..N /\ j - 1 \in 0..N
    BY <1>1
  <2>2. /\ b[j] = b[j - 1] + Len(cj)
        /\ \A i \in 1..Len(cj) : st[b[j - 1] + i] = cj[i]
    BY DEF Bounds
  <2>3. ChunksOf(j, all[j]) = cj /\ Len(cj) \in Nat
    <3>1. sub[j] \in Nat
      BY <1>1
    <3>2. QED BY <1>2, <3>1, ChunksType
  <2> HIDE DEF cj
  <2>4. b[j] <= Len(st) /\ b[j - 1] \in Nat /\ d[j] = b[j] /\ d[j - 1] = b[j - 1]
    BY <1>4, <1>5, <2>1
  <2>5. ASSUME NEW i \in 1..Len(cj)
        PROVE  new[b[j - 1] + i] = cj[i]
    <3>1. b[j - 1] + i \in 1..(Len(st) + Len(cs)) /\ b[j - 1] + i <= Len(st)
      BY <1>1, <2>2, <2>3, <2>4
    <3>2. QED BY <1>3, <2>2, <3>1
  <2>6. QED BY <2>2, <2>3, <2>4, <2>5
<1>7. /\ d[N + 1] = d[N] + Len(ChunksOf(N + 1, all[N + 1]))
      /\ \A i \in 1..Len(ChunksOf(N + 1, all[N + 1])) :
           new[d[N] + i] = ChunksOf(N + 1, all[N + 1])[i]
  <2>1. d[N] = Len(st) /\ ChunksOf(N + 1, all[N + 1]) = cs
    <3>1. N \in 0..N
      BY <1>1
    <3>2. d[N] = Len(st)
      BY <1>4, <1>5, <3>1
    <3>3. ChunksOf(N + 1, all[N + 1]) = cs
      <4>1. all[N + 1] = n
        BY <1>2
      <4>2. QED BY <4>1
    <3>4. QED BY <3>2, <3>3
  <2> HIDE DEF cs
  <2>2. ASSUME NEW i \in 1..Len(cs)
        PROVE  new[Len(st) + i] = cs[i]
    <3>1. /\ Len(st) + i \in 1..(Len(st) + Len(cs)) /\ ~(Len(st) + i <= Len(st))
          /\ Len(st) + i - Len(st) = i
      BY <1>1
    <3>2. QED BY <1>3, <3>1
  <2>3. QED BY <1>5, <2>1, <2>2
<1> HIDE DEF cs
<1>8. \A j \in 1..(N + 1) :
        /\ d[j] = d[j - 1] + Len(ChunksOf(j, all[j]))
        /\ \A i \in 1..Len(ChunksOf(j, all[j])) :
             new[d[j - 1] + i] = ChunksOf(j, all[j])[i]
  <2> TAKE j \in 1..(N + 1)
  <2>1. j \in 1..N \/ (j = N + 1 /\ j - 1 = N)
    BY <1>1
  <2>2. QED BY <1>6, <1>7, <2>1
<1>9. ASSUME NEW i \in 0..(N + 1), NEW j \in 0..(N + 1), i < j
      PROVE  d[i] < d[j]
  <2>1. i \in 0..N /\ (j \in 0..N \/ j = N + 1)
    BY <1>1, <1>9
  <2>2. CASE j \in 0..N
    BY <1>4, <1>5, <1>9, <2>1, <2>2
  <2>3. CASE j = N + 1
    <3>1. d[i] <= Len(st) /\ d[i] \in Nat
      BY <1>5, <2>1
    <3>2. QED BY <1>1, <1>5, <2>3, <3>1
  <2>4. QED BY <2>1, <2>2, <2>3
<1>10. ASSUME NEW q \in 1..Len(new)
       PROVE  \E j \in 1..(N + 1) : d[j - 1] < q /\ q <= d[j]
  <2>1. CASE q <= Len(st)
    <3>1. PICK j \in 1..N : b[j - 1] < q /\ q <= b[j]
      BY <1>1, <2>1 DEF Bounds
    <3>2. j \in 1..(N + 1) /\ j \in 0..N /\ j - 1 \in 0..N
      BY <1>1
    <3>3. d[j - 1] = b[j - 1] /\ d[j] = b[j]
      BY <1>5, <3>2
    <3>4. QED BY <3>1, <3>2, <3>3
  <2>2. CASE q > Len(st)
    <3>1. d[N] = Len(st) /\ N + 1 \in 1..(N + 1) /\ N + 1 - 1 = N
      BY <1>1, <1>4, <1>5
    <3>2. q <= d[N + 1]
      BY <1>1, <1>3, <1>5
    <3>3. d[N + 1 - 1] < q
      BY <1>1, <2>2, <3>1
    <3>4. QED BY <3>1, <3>2, <3>3
  <2>3. QED BY <1>1, <1>3, <2>1, <2>2
<1>11. d[0] = 0 /\ d[N + 1] = Len(new)
  BY <1>1, <1>3, <1>4, <1>5
<1>12. Bounds(d, new, all)
  BY <1>2, <1>5, <1>8, <1>9, <1>10, <1>11 DEF Bounds
<1>13. QED BY <1>12 DEF new, all, cs

\* The chunks with MSG_END among the first ones of a stream are the last chunks
\* of its first messages, and counting them finds each.
LEMMA PrefixEnds ==
  ASSUME NEW sub \in Seq(Nat), NEW st \in Seq(Chunk), NEW b, Bounds(b, st, sub),
         NEW ab \in Seq(Chunk), Len(ab) <= Len(st),
         \A i \in 1..Len(ab) : ab[i] = st[i]
  PROVE  \E m \in 0..Len(sub) :
           /\ NumMsgs(ab) = m /\ b[m] <= Len(ab)
           /\ m < Len(sub) => Len(ab) < b[m + 1]
           /\ \A j \in 0..m : EndOf(ab, j) = b[j]
<1> DEFINE N == Len(sub)
<1>1. /\ N \in Nat /\ Len(st) \in Nat /\ Len(ab) \in Nat
      /\ \A j \in 0..N : b[j] \in Nat
      /\ b[0] = 0 /\ b[N] = Len(st)
      /\ \A i, j \in 0..N : i < j => b[i] < b[j]
  BY DEF Bounds
<1>2. PICK m \in 0..N : b[m] <= Len(ab) /\ (m < N => Len(ab) < b[m + 1])
  <2>1. CASE Len(ab) = Len(st)
    BY <1>1, <2>1
  <2>2. CASE Len(ab) # Len(st)
    <3>1. Len(ab) + 1 \in 1..Len(st)
      BY <1>1, <2>2
    <3>2. PICK j \in 1..N : b[j - 1] < Len(ab) + 1 /\ Len(ab) + 1 <= b[j]
      BY <3>1 DEF Bounds
    <3>3. j - 1 \in 0..N /\ j \in 0..N /\ j - 1 + 1 = j
      BY <1>1
    <3>4. b[j - 1] \in Nat /\ b[j] \in Nat
      BY <1>1, <3>3
    <3>5. b[j - 1] <= Len(ab) /\ Len(ab) < b[j]
      BY <1>1, <3>2, <3>4
    <3>6. QED BY <3>3, <3>5
  <2>3. QED BY <2>1, <2>2
<1>3. \A j \in 0..N : b[j] <= Len(ab) <=> j <= m
  <2> TAKE j \in 0..N
  <2>1. CASE j <= m
    <3>1. j = m \/ b[j] < b[m]
      BY <1>1, <1>2, <2>1
    <3>2. b[j] \in Nat /\ b[m] \in Nat
      BY <1>1, <1>2
    <3>3. QED BY <1>1, <1>2, <2>1, <3>1, <3>2
  <2>2. CASE ~(j <= m)
    <3>1. m < N /\ m + 1 \in 0..N /\ (j = m + 1 \/ m + 1 < j)
      BY <1>1, <1>2, <2>2
    <3>2. j = m + 1 \/ b[m + 1] < b[j]
      BY <1>1, <3>1
    <3>3. b[j] \in Nat /\ b[m + 1] \in Nat /\ Len(ab) < b[m + 1]
      BY <1>1, <1>2, <3>1
    <3>4. Len(ab) < b[j]
      BY <1>1, <3>2, <3>3
    <3>5. QED BY <1>1, <2>2, <3>3, <3>4
  <2>3. QED BY <2>1, <2>2
\* The ends of the stream.
<1>4. \A j \in 1..N : b[j] \in 1..Len(st) /\ st[b[j]].end
  <2> TAKE j \in 1..N
  <2> DEFINE c == ChunksOf(j, sub[j])
  <2>1. j \in Nat /\ sub[j] \in Nat /\ j \in 0..N /\ j - 1 \in 0..N
    BY <1>1
  <2>2. Len(c) \in Nat \ {0} /\ Len(c) \in 1..Len(c)
    <3>1. Len(c) \in Nat \ {0}
      BY <2>1, ChunksType
    <3> HIDE DEF c
    <3>2. QED BY <3>1
  <2>3. b[j] = b[j - 1] + Len(c) /\ st[b[j - 1] + Len(c)] = c[Len(c)]
    BY <2>2 DEF Bounds
  <2>4. c[Len(c)].end
    BY <2>1, <2>2, ChunkEnds
  <2> HIDE DEF c
  <2>5. b[j - 1] \in Nat /\ b[j] \in Nat /\ b[j] <= Len(st)
    <3>1. b[j - 1] \in Nat /\ b[j] \in Nat
      BY <1>1, <2>1
    <3>2. N \in 0..N /\ (j = N \/ j < N)
      BY <1>1
    <3>3. j = N \/ b[j] < b[N]
      BY <1>1, <2>1, <3>2
    <3>4. QED BY <1>1, <3>1, <3>3
  <2>6. b[j] \in 1..Len(st)
    <3> DEFINE k == Len(c)
               x == b[j - 1]
               y == b[j]
               n == Len(st)
    <3>1. /\ n \in Nat /\ k \in Nat \ {0} /\ y = x + k
          /\ x \in Nat /\ y \in Nat /\ y <= n
      BY <1>1, <2>2, <2>3, <2>5
    <3> HIDE DEF k, x, y, n
    <3>2. y \in 1..n
      BY <3>1
    <3>3. QED BY <3>2 DEF y, n
  <2>7. st[b[j]].end
    BY <2>3, <2>4
  <2>8. QED BY <2>6, <2>7
<1>5. ASSUME NEW q \in 1..Len(st), st[q].end
      PROVE  \E j \in 1..N : q = b[j]
  <2>1. PICK j \in 1..N : b[j - 1] < q /\ q <= b[j]
    BY DEF Bounds
  <2> DEFINE c == ChunksOf(j, sub[j])
             i == q - b[j - 1]
  <2>2. /\ j \in Nat /\ sub[j] \in Nat /\ j - 1 \in 0..N
        /\ b[j - 1] \in Nat /\ b[j] = b[j - 1] + Len(c) /\ Len(c) \in Nat
    <3>1. j \in Nat /\ sub[j] \in Nat /\ j - 1 \in 0..N
      BY <1>1
    <3>2. QED BY <1>1, <3>1, ChunksType DEF Bounds
  <2>3. i \in 1..Len(c) /\ b[j - 1] + i = q
    <3> DEFINE k == Len(c)
               x == b[j - 1]
    <3>1. q \in Int /\ x \in Nat /\ k \in Nat /\ x < q /\ q <= x + k
      BY <2>1, <2>2
    <3> HIDE DEF k, x
    <3>2. q - x \in 1..k /\ x + (q - x) = q
      BY <3>1
    <3>3. QED BY <3>2 DEF k, x
  <2>4. \A x \in 1..Len(c) : st[b[j - 1] + x] = c[x]
    BY DEF Bounds
  <2>5. c[i].end
    BY <1>5, <2>3, <2>4
  <2>6. i = Len(c)
    <3>1. c[i].end <=> i = Len(c)
      <4> HIDE DEF i
      <4>1. QED BY <2>2, <2>3, ChunkEnds
    <3>2. QED BY <2>5, <3>1
  <2>7. q = b[j]
    BY <2>2, <2>3, <2>6
  <2>8. QED BY <2>7
<1>6. Ends(ab) = {b[j] : j \in 1..m}
  <2>1. ASSUME NEW q \in Ends(ab) PROVE \E j \in 1..m : q = b[j]
    <3>1. q \in 1..Len(ab) /\ ab[q].end
      BY DEF Ends
    <3>2. q \in 1..Len(st) /\ st[q].end
      BY <1>1, <3>1
    <3>3. PICK j \in 1..N : q = b[j]
      BY <1>5, <3>2
    <3>4. j \in 1..m
      BY <1>1, <1>3, <3>1, <3>3
    <3>5. QED BY <3>3, <3>4
  <2>2. ASSUME NEW j \in 1..m PROVE b[j] \in Ends(ab)
    <3>1. j \in 1..N /\ j \in 0..N /\ j <= m
      BY <1>1, <1>2
    <3>2. b[j] \in 1..Len(ab) /\ st[b[j]].end
      BY <1>1, <1>3, <1>4, <3>1
    <3>3. QED BY <3>2 DEF Ends
  <2>3. QED BY <2>1, <2>2
<1>7. ASSUME NEW j \in 0..m
      PROVE  Cardinality({b[i] : i \in 1..j}) = j
  <2> DEFINE S == {b[i] : i \in 1..j}
             f == [i \in 1..j |-> b[i]]
  <2>1. \A i, k \in 1..j : i # k => b[i] # b[k]
    <3> SUFFICES ASSUME NEW i \in 1..j, NEW k \in 1..j, i < k
                 PROVE  b[i] # b[k]
      OBVIOUS
    <3>1. i \in 0..N /\ k \in 0..N
      BY <1>1, <1>2
    <3>2. b[i] \in Nat /\ b[k] \in Nat /\ b[i] < b[k]
      BY <1>1, <3>1
    <3>3. QED BY <3>2
  <2>2. f \in Bijection(1..j, S)
    <3>1. f \in [1..j -> S] /\ \A i \in 1..j : f[i] = b[i]
      OBVIOUS
    <3>2. \A e \in S : \E i \in 1..j : f[i] = e
      OBVIOUS
    <3> HIDE DEF f, S
    <3>3. f \in Injection(1..j, S)
      BY <2>1, <3>1 DEF Injection, IsInjective
    <3>4. f \in Surjection(1..j, S)
      BY <3>1, <3>2 DEF Surjection
    <3>5. QED BY <3>3, <3>4 DEF Bijection
  <2>3. ExistsBijection(1..j, S)
    BY <2>2 DEF ExistsBijection
  <2>4. j \in Nat
    BY <1>1, <1>2
  <2> HIDE DEF S, f
  <2>5. Cardinality(S) = j
    BY <2>3, <2>4, FS_CountingElements
  <2>6. QED BY <2>5 DEF S
<1>8. NumMsgs(ab) = m
  BY <1>1, <1>2, <1>6, <1>7 DEF NumMsgs
<1>9. ASSUME NEW j \in 1..m
      PROVE  {x \in Ends(ab) : x <= b[j]} = {b[i] : i \in 1..j}
  <2>1. j \in 0..N /\ \A i \in 1..m : i \in 0..N
    BY <1>1, <1>2
  <2>2. \A i \in 1..m : b[i] <= b[j] <=> i <= j
    <3> TAKE i \in 1..m
    <3>1. b[i] \in Nat /\ b[j] \in Nat /\ i \in Nat /\ j \in Nat
      BY <1>1, <2>1
    <3>2. /\ i < j => b[i] < b[j]
          /\ j < i => b[j] < b[i]
      BY <1>1, <2>1
    <3>3. QED BY <3>1, <3>2
  <2>3. QED BY <1>6, <2>2
<1>10. \A j \in 0..m : EndOf(ab, j) = b[j]
  <2> SUFFICES ASSUME NEW j \in 0..m, j # 0 PROVE EndOf(ab, j) = b[j]
    BY <1>1 DEF EndOf
  <2> DEFINE P(e) == Cardinality({x \in Ends(ab) : x <= e}) = j
  <2>1. j \in 1..m /\ j \in 0..m
    BY <1>1, <1>2
  <2>2. b[j] \in Ends(ab) /\ P(b[j])
    BY <1>6, <1>7, <1>9, <2>1
  <2>3. ASSUME NEW e \in Ends(ab), P(e) PROVE e = b[j]
    <3>1. PICK i \in 1..m : e = b[i]
      BY <1>6
    <3>2. i \in 0..m
      OBVIOUS
    <3>3. i = j
      BY <1>7, <1>9, <2>3, <3>1, <3>2
    <3>4. QED BY <3>1, <3>3
  <2>4. EndOf(ab, j) = CHOOSE e \in Ends(ab) : P(e)
    BY DEF EndOf
  <2> HIDE DEF P
  <2>5. QED BY <2>2, <2>3, <2>4
<1>11. QED BY <1>2, <1>8, <1>10

\* Cutting a prefix of the stream at the chunks with MSG_END gives the messages
\* that were sent.
LEMMA PrefixMessages ==
  ASSUME NEW sub \in Seq(Nat), NEW st \in Seq(Chunk), NEW b, Bounds(b, st, sub),
         NEW ab \in Seq(Chunk), Len(ab) <= Len(st),
         \A i \in 1..Len(ab) : ab[i] = st[i]
  PROVE  /\ Len(Messages(ab)) <= Len(sub)
         /\ \A j \in DOMAIN Messages(ab) : Messages(ab)[j] = ChunksOf(j, sub[j])
<1>1. PICK m \in 0..Len(sub) :
         /\ NumMsgs(ab) = m /\ b[m] <= Len(ab)
         /\ \A j \in 0..m : EndOf(ab, j) = b[j]
  BY PrefixEnds
<1>2. /\ Len(sub) \in Nat /\ Len(st) \in Nat /\ Len(ab) \in Nat
      /\ \A j \in 0..Len(sub) : b[j] \in Nat
      /\ \A i, j \in 0..Len(sub) : i < j => b[i] < b[j]
  <2>1. Len(sub) \in Nat /\ Len(st) \in Nat /\ Len(ab) \in Nat
    OBVIOUS
  <2>2. b \in [0..Len(sub) -> Nat]
    BY DEF Bounds
  <2>3. \A i, j \in 0..Len(sub) : i < j => b[i] < b[j]
    BY DEF Bounds
  <2>4. QED BY <2>1, <2>2, <2>3
<1>3. /\ Messages(ab) = [j \in 1..m |-> SubSeq(ab, EndOf(ab, j - 1) + 1, EndOf(ab, j))]
      /\ m \in Nat /\ m <= Len(sub)
  BY <1>1, <1>2 DEF Messages
<1>4. Len(Messages(ab)) = m /\ DOMAIN Messages(ab) = 1..m
  BY <1>3
<1>5. ASSUME NEW j \in 1..m
      PROVE  Messages(ab)[j] = ChunksOf(j, sub[j])
  <2> DEFINE c == ChunksOf(j, sub[j])
             lo == b[j - 1]
  <2>1. j \in Nat /\ j \in 0..m /\ j - 1 \in 0..m /\ j \in 1..Len(sub) /\ sub[j] \in Nat
    BY <1>2, <1>3
  <2>2. Messages(ab)[j] = SubSeq(ab, lo + 1, b[j])
    BY <1>1, <1>3, <2>1
  <2>3. c \in Seq(Chunk) /\ Len(c) \in Nat /\ lo \in Nat /\ b[j] = lo + Len(c)
    <3>1. j - 1 \in 0..Len(sub)
      BY <1>2, <1>3, <2>1
    <3>2. QED BY <1>2, <2>1, <3>1, ChunksType DEF Bounds
  <2>4. b[j] <= Len(ab)
    <3>1. j \in 0..Len(sub) /\ (j = m \/ b[j] < b[m])
      BY <1>1, <1>2, <1>3, <2>1
    <3>2. b[j] \in Nat /\ b[m] \in Nat
      BY <1>1, <1>2, <3>1
    <3>3. QED BY <1>1, <1>2, <3>1, <3>2
  <2>5. \A i \in 1..Len(c) : st[lo + i] = c[i]
    BY <2>1 DEF Bounds
  <2> HIDE DEF c, lo
  <2>6. \A i \in 1..Len(c) : ab[lo + i] = c[i]
    <3> TAKE i \in 1..Len(c)
    <3>1. lo + i \in 1..Len(ab)
      BY <1>2, <2>3, <2>4
    <3>2. QED BY <2>5, <3>1
  <2>7. SubSeq(ab, lo + 1, lo + Len(c)) = c
    <3> DEFINE u == SubSeq(ab, lo + 1, lo + Len(c))
    <3>1. \A i \in (lo + 1)..(lo + Len(c)) : ab[i] \in Chunk
      BY <1>2, <2>3, <2>4, ElementOfSeq
    <3>2. /\ u \in Seq(Chunk)
          /\ Len(u) = IF lo + 1 <= lo + Len(c) THEN lo + Len(c) - (lo + 1) + 1 ELSE 0
          /\ \A i \in 1..(lo + Len(c) - (lo + 1) + 1) : u[i] = ab[lo + 1 + i - 1]
      BY <2>3, <3>1, SubSeqProperties
    <3>3. Len(u) = Len(c) /\ lo + Len(c) - (lo + 1) + 1 = Len(c)
      BY <2>3, <3>2
    <3>4. \A i \in 1..Len(c) : u[i] = c[i]
      <4> TAKE i \in 1..Len(c)
      <4>1. u[i] = ab[lo + 1 + i - 1] /\ lo + 1 + i - 1 = lo + i
        BY <2>3, <3>2, <3>3
      <4>2. QED BY <2>6, <4>1
    <3> HIDE DEF u
    <3>5. u = c
      BY <2>3, <3>2, <3>3, <3>4, SeqEqual
    <3>6. QED BY <3>5 DEF u
  <2>8. QED BY <2>2, <2>3, <2>7 DEF c
<1>6. QED BY <1>3, <1>4, <1>5

\* No step but send() touches what was asked for; send() extends it by one
\* message.
LEMMA FramedStep ==
  ASSUME IInv, Framed, [Next]_vars
  PROVE  Framed'
<1>1. ASSUME NEW s \in Side, NEW n \in MsgSizes, Send(s, n)
      PROVE  Framed'
  <2> DEFINE cs == ChunksOf(Len(submitted[s]) + 1, n)
  <2>1. /\ submitted' = [submitted EXCEPT ![s] = Append(@, n)]
        /\ stream' = [stream EXCEPT ![s] = @ \o cs]
    BY <1>1 DEF Send
  <2> HIDE DEF cs
  <2>2. /\ submitted'[s] = Append(submitted[s], n)
        /\ stream'[s] = stream[s] \o cs
        /\ \A t \in Side : t # s => submitted'[t] = submitted[t] /\ stream'[t] = stream[t]
    BY <2>1 DEF IInv, TypeOK
  <2>3. n \in Nat /\ submitted[s] \in Seq(Nat) /\ stream[s] \in Seq(Chunk)
    BY ConstantsAssumption, TypeFacts DEF IInv
  <2>4. PICK b : Bounds(b, stream[s], submitted[s])
    BY DEF Framed
  <2>5. \E d : Bounds(d, stream[s] \o cs, Append(submitted[s], n))
    BY <2>3, <2>4, BoundsSend DEF cs
  <2>6. ASSUME NEW t \in Side
        PROVE  \E d : Bounds(d, stream'[t], submitted'[t])
    <3>1. CASE t = s
      BY <2>2, <2>5, <3>1
    <3>2. CASE t # s
      BY <2>2, <3>2 DEF Framed
    <3>3. QED BY <3>1, <3>2
  <2>7. QED BY <2>6 DEF Framed
<1>2. CASE UNCHANGED <<submitted, stream>>
  BY <1>2 DEF Framed
<1>3. ASSUME NEW s \in Side, SenderStep(s) \/ Receive(s) \/ Recv(s) \/ Close(s)
      PROVE  UNCHANGED <<submitted, stream>>
  BY <1>3 DEF SenderStep, EndPause, Return, Refill, Rto, GiveUp, Receive, OnData,
     OnAck, OnFin, OnRst, Recv, Close, appVars
<1>4. ASSUME NEW p \in net, Reject(p)
      PROVE  UNCHANGED <<submitted, stream>>
  BY <1>4 DEF Reject, appVars
<1>5. UNCHANGED vars => UNCHANGED <<submitted, stream>>
  BY DEF vars, appVars
<1>6. QED BY <1>1, <1>2, <1>3, <1>4, <1>5 DEF Next

\* Before the first send() the stream and the messages are empty.
LEMMA FramedInit == Init => Framed
<1> SUFFICES ASSUME Init, NEW s \in Side
             PROVE  \E b : Bounds(b, stream[s], submitted[s])
  BY DEF Framed
<1> DEFINE b == [j \in 0..0 |-> 0]
<1>1. stream[s] = <<>> /\ submitted[s] = <<>>
  BY DEF Init
<1>2. b \in [0..0 -> Nat] /\ b[0] = 0
  OBVIOUS
<1>3. \A i, j \in 0..0 : ~(i < j)
  OBVIOUS
<1> HIDE DEF b
<1>4. Bounds(b, <<>>, <<>>)
  BY <1>2, <1>3 DEF Bounds
<1>5. QED BY <1>1, <1>4

\* The stream is framed at all times.
LEMMA AlwaysFramed == Spec => []Framed
<1>1. IInv /\ Framed /\ [Next]_vars => Framed'
  BY FramedStep
<1>2. QED BY <1>1, FramedInit, Inductive, PTL DEF Spec

\* MSG_END framing: what recv() can return are, one for one, the first messages
\* given to the peer's send(), whatever is lost, repeated and reordered.
THEOREM MessagesCorrect == Spec => []WholeMessages
<1>1. ASSUME IInv, Framed PROVE WholeMessages
  <2> SUFFICES ASSUME NEW s \in Side
               PROVE  /\ Len(Messages(absorbed[s])) <= Len(submitted[Peer(s)])
                      /\ \A j \in DOMAIN Messages(absorbed[s]) :
                           Messages(absorbed[s])[j] = ChunksOf(j, submitted[Peer(s)][j])
    BY DEF WholeMessages
  <2>1. Peer(s) \in Side
    BY PeerFacts
  <2>2. /\ submitted[Peer(s)] \in Seq(Nat) /\ stream[Peer(s)] \in Seq(Chunk)
        /\ absorbed[s] \in Seq(Chunk)
    BY <1>1, <2>1, TypeFacts DEF IInv
  <2>3. PICK b : Bounds(b, stream[Peer(s)], submitted[Peer(s)])
    BY <1>1, <2>1 DEF Framed
  <2>4. /\ Len(absorbed[s]) <= Len(stream[Peer(s)])
        /\ \A i \in 1..Len(absorbed[s]) : absorbed[s][i] = stream[Peer(s)][i]
    BY <1>1 DEF IInv, ExactlyOnceInOrder
  <2>5. QED BY <2>2, <2>3, <2>4, PrefixMessages
<1>2. IInv /\ Framed => WholeMessages
  BY <1>1
<1>3. QED BY <1>2, Inductive, AlwaysFramed, PTL

-----------------------------------------------------------------------------
(* Closing: the end of the stream.                                         *)

\* A FIN or RST comes from a side that is closed, the server forgets only a
\* closed socket, and who closes while the peer is open is not sending.
Closures ==
  /\ \A p \in net : p.kind \in {"FIN", "RST"} => closed[Peer(p.dst)]
  /\ ~registered => closed["server"]
  /\ \A s \in Side : closed[s] /\ ~closed[Peer(s)] => pc[s] \in Unsent

\* A closed socket stays closed.
LEMMA StaysClosed ==
  ASSUME IInv, [Next]_vars, NEW s \in Side, closed[s]
  PROVE  closed'[s]
<1>1. \/ UNCHANGED closed
      \/ \E t \in Side : closed' = [closed EXCEPT ![t] = TRUE]
  <2>1. ASSUME NEW t \in Side, \E n \in MsgSizes : Send(t, n)
        PROVE  UNCHANGED closed
    BY <2>1 DEF Send, connVars
  <2>2. ASSUME NEW t \in Side, SenderStep(t) \/ Receive(t) \/ Recv(t) \/ Close(t)
        PROVE  UNCHANGED closed \/ closed' = [closed EXCEPT ![t] = TRUE]
    BY <2>2 DEF SenderStep, EndPause, Return, Refill, Rto, GiveUp, Receive, OnData,
       OnAck, OnFin, OnRst, Recv, Close, connVars
  <2>3. ASSUME NEW p \in net, Reject(p) PROVE UNCHANGED closed
    BY <2>3 DEF Reject, connVars
  <2>4. UNCHANGED vars => UNCHANGED closed
    BY DEF vars, connVars
  <2>5. QED BY <2>1, <2>2, <2>3, <2>4 DEF Next
<1>2. closed \in [Side -> BOOLEAN]
  BY DEF IInv, TypeOK
<1>3. QED BY <1>1, <1>2

\* What is left to show of a step: its new packets, its deregistration and the
\* side it closes or lets send.
LEMMA ClosuresFrame ==
  ASSUME IInv, Closures, [Next]_vars,
         \A p \in net' \ net : p.kind \in {"FIN", "RST"} => closed'[Peer(p.dst)],
         registered /\ ~registered' => closed'["server"],
         \A s \in Side : \/ pc'[s] \in Unsent
                         \/ closed'[s] => closed'[Peer(s)]
                         \/ closed'[s] = closed[s] /\ pc[s] \notin Unsent
  PROVE  Closures'
<1>1. ASSUME NEW p \in net', p.kind \in {"FIN", "RST"}
      PROVE  closed'[Peer(p.dst)]
  <2>1. CASE p \in net
    <3>1. p.dst \in Side
      BY <2>1, PacketFields DEF IInv, TypeOK
    <3>2. closed[Peer(p.dst)]
      BY <1>1, <2>1 DEF Closures
    <3>3. QED BY <3>1, <3>2, PeerFacts, StaysClosed
  <2>2. CASE p \notin net
    BY <1>1, <2>2
  <2>3. QED BY <2>1, <2>2
<1>2. ~registered' => closed'["server"]
  BY StaysClosed DEF Closures, Side
<1>3. ASSUME NEW s \in Side, closed'[s], ~closed'[Peer(s)]
      PROVE  pc'[s] \in Unsent
  <2>1. ~closed[Peer(s)]
    BY <1>3, PeerFacts, StaysClosed
  <2>2. ~(closed[s] /\ pc[s] \notin Unsent)
    BY <2>1 DEF Closures
  <2>3. QED BY <1>3, <2>2
<1>4. QED BY <1>1, <1>2, <1>3 DEF Closures

\* Sending and giving up: no FIN, no RST, and only a side that is not closed
\* leaves idle.
LEMMA ClosuresSender ==
  ASSUME IInv, Closures, [Next]_vars, NEW s \in Side,
         SenderStep(s) \/ \E n \in MsgSizes : Send(s, n)
  PROVE  Closures'
<1>1. \A p \in net' \ net : p.kind = "DATA"
  <2>1. ASSUME NEW n \in MsgSizes, Send(s, n), NEW p \in net' \ net
        PROVE  p.kind = "DATA"
    <3>1. \A buf, Q : \A r \in Transmit(s, buf, Q) : r.kind = "DATA"
      BY DEF Transmit, DataPkt
    <3>2. \E buf, Q : net' = net \cup Transmit(s, buf, Q)
      BY <2>1 DEF Send
    <3>3. QED BY <2>1, <3>1, <3>2
  <2>2. ASSUME SenderStep(s), NEW p \in net' \ net
        PROVE  p.kind = "DATA"
    <3>1. CASE EndPause(s) \/ Return(s) \/ GiveUp(s)
      BY <2>2, <3>1 DEF EndPause, Return, GiveUp
    <3>2. CASE Refill(s) \/ Rto(s)
      <4>1. PICK Q : net' = net \cup Transmit(s, sendBuf[s], Q)
        BY <3>2 DEF Refill, Rto
      <4>2. p \in Transmit(s, sendBuf[s], Q)
        BY <2>2, <4>1
      <4>3. QED BY <4>2, TransmitFacts
    <3>3. QED BY <2>2, <3>1, <3>2 DEF SenderStep
  <2>3. QED BY <2>1, <2>2
<1>2. UNCHANGED registered
  BY DEF Send, SenderStep, EndPause, Return, Refill, Rto, GiveUp, connVars
<1>3. /\ pc \in [Side -> {"idle", "waiting", "pausing", "failed"}]
      /\ closed \in [Side -> BOOLEAN]
  BY DEF IInv, TypeOK
<1>4. ASSUME NEW t \in Side
      PROVE  \/ pc'[t] \in Unsent
             \/ closed'[t] => closed'[Peer(t)]
             \/ closed'[t] = closed[t] /\ pc[t] \notin Unsent
  <2>1. ASSUME NEW n \in MsgSizes, Send(s, n), t = s
        PROVE  ~closed'[t]
    BY <2>1 DEF Send, connVars
  <2>2. CASE SenderStep(s) /\ t = s
    <3>1. CASE GiveUp(s)
      BY <1>3, <2>2, <3>1 DEF GiveUp, Unsent
    <3>2. CASE ~GiveUp(s)
      BY <2>2, <3>2 DEF SenderStep, EndPause, Return, Refill, Rto, Unsent, connVars
    <3>3. QED BY <3>1, <3>2
  <2>3. CASE t # s
    <3>1. closed'[t] = closed[t]
      BY <1>3, <2>3 DEF Send, SenderStep, EndPause, Return, Refill, Rto, GiveUp, connVars
    <3>2. pc'[t] = pc[t]
      BY <1>3, <2>3 DEF Send, SenderStep, EndPause, Return, Refill, Rto, GiveUp, AfterFill
    <3>3. QED BY <3>1, <3>2
  <2>4. QED BY <2>1, <2>2, <2>3
<1>5. \A p \in net' \ net : p.kind \notin {"FIN", "RST"}
  BY <1>1
<1>6. QED BY <1>2, <1>4, <1>5, ClosuresFrame

\* Receiving DATA or an ACK: no FIN, no RST, nobody closes.
LEMMA ClosuresReceive ==
  ASSUME IInv, Closures, [Next]_vars, NEW s \in Side, NEW p \in net,
         OnData(s, p) \/ OnAck(s, p)
  PROVE  Closures'
<1>1. \A r \in net' \ net : r.kind \in {"DATA", "ACK"}
  <2>1. \A r \in net' \ net : r \in FastRetransmit(s, p) \/
          r = AckPkt(s, recvSeq'[s], AdvWindow(absorbed'[s], taken[s]))
    BY DEF OnData, OnAck
  <2>2. \A r \in FastRetransmit(s, p) : r.kind = "DATA"
    BY FastRetransmitFacts
  <2>3. \A a, w : AckPkt(s, a, w).kind = "ACK"
    BY DEF AckPkt
  <2>4. QED BY <2>1, <2>2, <2>3
<1>2. UNCHANGED <<closed, pc>> /\ Deregister(s, closed[s])
  BY DEF OnData, OnAck
<1>3. registered /\ ~registered' => closed'["server"]
  BY <1>2 DEF Deregister
<1>4. \A t \in Side : \/ pc'[t] \in Unsent
                      \/ closed'[t] => closed'[Peer(t)]
                      \/ closed'[t] = closed[t] /\ pc[t] \notin Unsent
  BY <1>2
<1>5. \A r \in net' \ net : r.kind \notin {"FIN", "RST"}
  BY <1>1
<1>6. QED BY <1>3, <1>4, <1>5, ClosuresFrame

\* A FIN or an RST arrives: both sides are closed.
LEMMA ClosuresEnd ==
  ASSUME IInv, Closures, [Next]_vars, NEW s \in Side, OnFin(s) \/ OnRst(s)
  PROVE  Closures' /\ closed[Peer(s)]
<1> USE PeerFacts
<1>1. closed \in [Side -> BOOLEAN]
  BY DEF IInv, TypeOK
<1>2. closed[Peer(s)]
  <2>1. \E p \in net : p.kind \in {"FIN", "RST"} /\ p.dst = s
    BY DEF OnFin, OnRst, FinPkt, RstPkt
  <2>2. QED BY <2>1 DEF Closures
<1>3. /\ closed' = [closed EXCEPT ![s] = TRUE]
      /\ Deregister(s, TRUE)
      /\ net' \subseteq net \cup {FinPkt(s)}
  BY DEF OnFin, OnRst
<1>4. closed'[s] /\ closed'[Peer(s)]
  BY <1>1, <1>2, <1>3
<1>5. \A t \in Side : closed'[t]
  BY <1>4 DEF Side, Peer
<1>6. \A p \in net' \ net : closed'[Peer(p.dst)]
  BY <1>3, <1>4 DEF FinPkt
<1>7. closed'["server"]
  BY <1>5 DEF Side
<1>8. QED BY <1>2, <1>5, <1>6, <1>7, ClosuresFrame

\* Every step keeps the record of who has closed.
LEMMA ClosuresStep ==
  ASSUME IInv, Closures, [Next]_vars
  PROVE  Closures'
<1> USE PeerFacts
<1>1. ASSUME NEW s \in Side, SenderStep(s) \/ \E n \in MsgSizes : Send(s, n)
      PROVE  Closures'
  BY <1>1, ClosuresSender
<1>2. ASSUME NEW s \in Side, Receive(s)
      PROVE  Closures'
  BY <1>2, ClosuresReceive, ClosuresEnd DEF Receive
<1>3. ASSUME NEW s \in Side, Close(s)
      PROVE  Closures'
  <2>1. closed \in [Side -> BOOLEAN]
    BY DEF IInv, TypeOK
  <2>2. /\ pc[s] \in Unsent /\ closed' = [closed EXCEPT ![s] = TRUE]
        /\ net' = net \cup {FinPkt(s)} /\ UNCHANGED <<pc, registered>>
    BY <1>3 DEF Close, sndVars
  <2>3. \A p \in net' \ net : closed'[Peer(p.dst)]
    BY <2>1, <2>2 DEF FinPkt
  <2>4. \A t \in Side : \/ pc'[t] \in Unsent
                        \/ closed'[t] = closed[t] /\ pc[t] \notin Unsent
    BY <2>1, <2>2
  <2>5. QED BY <2>2, <2>3, <2>4, ClosuresFrame
<1>4. ASSUME NEW s \in Side, Recv(s)
      PROVE  Closures'
  BY <1>4 DEF Closures, Recv, connVars, sndVars
<1>5. ASSUME NEW p \in net, Reject(p)
      PROVE  Closures'
  <2>1. /\ ~registered /\ net' = net \cup {RstPkt("server")}
        /\ UNCHANGED <<closed, pc, registered>>
    BY <1>5 DEF Reject, connVars, sndVars
  <2>2. closed["server"] /\ Peer(RstPkt("server").dst) = "server"
    BY <2>1 DEF Closures, RstPkt, Side, Peer
  <2>3. QED BY <2>1, <2>2 DEF Closures
<1>6. CASE UNCHANGED vars
  BY <1>6 DEF Closures, vars, connVars, sndVars
<1>7. QED BY <1>1, <1>2, <1>3, <1>4, <1>5, <1>6 DEF Next

\* After the handshake nobody has closed.
LEMMA ClosuresInit == Init => Closures
BY PeerFacts DEF Init, Closures, AckPkt

\* The number of messages that have been absorbed with the whole stream.
LEMMA AllMessages ==
  ASSUME IInv, Framed, NEW s \in Side, Len(absorbed[s]) = Len(stream[Peer(s)])
  PROVE  NumMsgs(absorbed[s]) = Len(submitted[Peer(s)])
<1> DEFINE sub == submitted[Peer(s)]
           st  == stream[Peer(s)]
           ab  == absorbed[s]
<1>1. Peer(s) \in Side
  BY PeerFacts
<1>2. sub \in Seq(Nat) /\ st \in Seq(Chunk) /\ ab \in Seq(Chunk)
  BY <1>1, TypeFacts DEF IInv
<1>3. PICK b : Bounds(b, st, sub)
  BY <1>1 DEF Framed
<1>4. Len(ab) <= Len(st) /\ \A i \in 1..Len(ab) : ab[i] = st[i]
  BY DEF IInv, ExactlyOnceInOrder
<1>5. Len(ab) = Len(st)
  OBVIOUS
<1> HIDE DEF sub, st, ab
<1>6. PICK m \in 0..Len(sub) :
         /\ NumMsgs(ab) = m /\ b[m] <= Len(ab)
         /\ m < Len(sub) => Len(ab) < b[m + 1]
  BY <1>2, <1>3, <1>4, PrefixEnds
<1>7. Len(sub) \in Nat /\ Len(st) \in Nat
  BY <1>2
<1>8. /\ b[Len(sub)] = Len(st)
      /\ \A i \in 0..Len(sub) : b[i] \in Nat
      /\ \A i, j \in 0..Len(sub) : i < j => b[i] < b[j]
  BY <1>3 DEF Bounds
<1>9. ~(m < Len(sub))
  <2> SUFFICES ASSUME m < Len(sub) PROVE FALSE
    OBVIOUS
  <2>1. m + 1 \in 0..Len(sub) /\ Len(sub) \in 0..Len(sub)
    BY <1>6, <1>7
  <2>2. m + 1 = Len(sub) \/ b[m + 1] < b[Len(sub)]
    BY <1>6, <1>7, <1>8, <2>1
  <2>3. b[m + 1] \in Nat /\ b[m + 1] <= Len(st)
    BY <1>7, <1>8, <2>1, <2>2
  <2>4. QED BY <1>5, <1>6, <1>7, <2>3
<1>10. NumMsgs(ab) = Len(sub)
  BY <1>6, <1>7, <1>9
<1>11. QED BY <1>10 DEF ab, sub

\* The b'' that ends a peer's stream comes after all its messages, unless this
\* side had closed the connection or the peer's send() failed.
THEOREM EofCorrect == Spec => EofComesLast
<1> DEFINE Last(s) == ( /\ eof[s] = NoEof /\ eof'[s] # NoEof
                        /\ ~closed[s] /\ pc[Peer(s)] # "failed" )
                      => eof'[s] = Len(submitted[Peer(s)])
<1>1. ASSUME IInv, Framed, Closures, [Next]_vars
      PROVE  \A s \in Side : Last(s)
  <2> SUFFICES ASSUME NEW s \in Side, eof[s] = NoEof, eof'[s] # NoEof,
                      ~closed[s], pc[Peer(s)] # "failed"
               PROVE  eof'[s] = Len(submitted[Peer(s)])
    OBVIOUS
  <2> USE <1>1
  <2>1. eof \in [Side -> Nat \cup {NoEof}]
    BY DEF IInv, TypeOK
  <2>2. OnFin(s) \/ OnRst(s)
    <3>1. ASSUME NEW t \in Side, t # s, OnFin(t) \/ OnRst(t) PROVE eof'[s] = eof[s]
      BY <2>1, <3>1 DEF OnFin, OnRst, MarkEof
    <3>2. ASSUME NEW t \in Side,
                 \/ \E n \in MsgSizes : Send(t, n)
                 \/ SenderStep(t) \/ Recv(t) \/ Close(t)
                 \/ \E p \in net : OnData(t, p) \/ OnAck(t, p)
          PROVE  UNCHANGED eof
      BY <3>2 DEF Send, SenderStep, EndPause, Return, Refill, Rto, GiveUp, Recv, Close,
         OnData, OnAck, rcvVars
    <3>3. ASSUME NEW p \in net, Reject(p) PROVE UNCHANGED eof
      BY <3>3 DEF Reject, rcvVars
    <3>4. UNCHANGED vars => UNCHANGED eof
      BY DEF vars, rcvVars
    <3>5. QED BY <3>1, <3>2, <3>3, <3>4 DEF Next, Receive
  <2>3. closed[Peer(s)]
    BY <2>2, ClosuresEnd
  <2>4. Peer(s) \in Side /\ Peer(Peer(s)) = s
    BY PeerFacts
  <2>5. pc[Peer(s)] = "idle"
    BY <2>3, <2>4 DEF Closures, Unsent
  <2>6. Len(absorbed[s]) = Len(stream[Peer(s)])
    BY <2>4, <2>5, EmptyMeansAbsorbed DEF IInv, BufferCovers
  <2>7. eof'[s] = NumMsgs(absorbed[s])
    BY <2>1, <2>2 DEF OnFin, OnRst, MarkEof
  <2>8. QED BY <2>6, <2>7, AllMessages
<1>2. IInv /\ Closures /\ [Next]_vars => Closures'
  BY ClosuresStep
<1>3. Spec => []Closures
  BY <1>2, ClosuresInit, Inductive, PTL DEF Spec
<1>4. IInv /\ Framed /\ Closures /\ [Next]_vars => [\A s \in Side : Last(s)]_vars
  BY <1>1
<1>5. QED BY <1>3, <1>4, Inductive, AlwaysFramed, PTL DEF Spec, EofComesLast

-----------------------------------------------------------------------------
(* The window.                                                             *)

\* Nothing new is in flight when the sender's pointers stay where they are and
\* its buffer does not grow.
LEMMA NothingNew ==
  ASSUME NEW s \in Side,
         firstSeq'[s] = firstSeq[s], sendSeq'[s] = sendSeq[s], nextSeq'[s] = nextSeq[s],
         DOMAIN sendBuf'[s] \subseteq DOMAIN sendBuf[s]
  PROVE  InFlight(s)' \subseteq InFlight(s)
BY DEF InFlight, Unacked

\* What is not ACKed of a message are finitely many chunks.
LEMMA UnackedFinite ==
  ASSUME IInv, NEW s \in Side
  PROVE  /\ IsFiniteSet(Unacked(s, sendBuf[s]))
         /\ Cardinality(Unacked(s, sendBuf[s])) \in Nat
<1>1. Unacked(s, sendBuf[s]) \subseteq 1..Len(stream[s])
  BY DEF Unacked, IInv, SeqFaithful, At
<1>2. QED BY <1>1, PositionSets, TypeFacts DEF IInv

\* A message that does not fit the window is not begun at all, and one that fits
\* is within it as a whole.
LEMMA SendWindow ==
  ASSUME IInv, NEW s \in Side, NEW n \in MsgSizes, Send(s, n),
         ~(InFlight(s)' \subseteq InFlight(s))
  PROVE  Cardinality(InFlight(s)') <= EffectiveWindow(s)
<1> DEFINE cs == ChunksOf(Len(submitted[s]) + 1, n)
           lo == sendSeq[s]
           W  == EffectiveWindow(s)
           next == FillTo(lo, lo + Len(cs), Len(cs), W)
           k  == Len(cs)
<1>1. n \in Nat /\ Len(submitted[s]) + 1 \in Nat /\ TypeOK
  BY ConstantsAssumption, TypeFacts DEF IInv
<1>2. cs \in Seq(Chunk) /\ k \in Nat \ {0}
  BY <1>1, ChunksType
<1>3. /\ sendSeq' = [sendSeq EXCEPT ![s] = lo + k]
      /\ firstSeq' = [firstSeq EXCEPT ![s] = lo]
      /\ nextSeq' = [nextSeq EXCEPT ![s] = next]
  BY DEF Send
<1>4. sendSeq'[s] = lo + k /\ firstSeq'[s] = lo /\ nextSeq'[s] = next
  BY <1>1, <1>3 DEF TypeOK
<1>5. lo \in Nat /\ W \in Nat \ {0}
  BY <1>1, TypeFacts, WindowType
<1> HIDE DEF cs, W, k
<1>6. \A q \in InFlight(s)' : lo <= q /\ q < lo + k /\ q < next
  BY <1>4 DEF InFlight, Unacked
<1>7. DOMAIN sendBuf'[s] \subseteq Nat
  BY SendInv, TypeFacts DEF IInv, TypeOK, SeqMap
<1>8. k < W
  <2> SUFFICES ASSUME k >= W PROVE FALSE
    BY <1>2, <1>5
  <2>1. next = lo
    BY DEF FillTo, k
  <2>2. \A q \in InFlight(s)' : q \in Nat
    BY <1>7 DEF InFlight, Unacked
  <2>3. InFlight(s)' = {}
    BY <1>5, <1>6, <2>1, <2>2
  <2>4. QED BY <2>3
<1>9. InFlight(s)' \subseteq lo..(lo + k - 1)
  <2>1. \A q \in InFlight(s)' : q \in Nat
    BY <1>7 DEF InFlight, Unacked
  <2>2. \A q \in InFlight(s)' : lo <= q /\ q <= lo + k - 1
    BY <1>2, <1>5, <1>6, <2>1
  <2> DEFINE F == InFlight(s)'
             a == lo
             z == lo + k - 1
  <2>3. a \in Int /\ z \in Int /\ F = InFlight(s)'
    BY <1>2, <1>5
  <2>4. \A q \in F : q \in Int /\ a <= q /\ q <= z
    BY <2>1, <2>2
  <2> HIDE DEF F, a, z
  <2>5. F \subseteq a..z
    BY <2>3, <2>4
  <2>6. QED BY <2>5 DEF F, a, z
<1>10. IsFiniteSet(lo..(lo + k - 1)) /\ Cardinality(lo..(lo + k - 1)) = k
  <2> DEFINE a == lo
             b == lo + k - 1
  <2>1. a \in Int /\ b \in Int /\ b - a + 1 = k /\ a <= b
    BY <1>2, <1>5 DEF k
  <2> HIDE DEF a, b
  <2>2. IsFiniteSet(a..b) /\ Cardinality(a..b) = b - a + 1
    BY <2>1, FS_Interval
  <2>3. QED BY <2>1, <2>2 DEF a, b
<1>11. Cardinality(InFlight(s)') <= k /\ Cardinality(InFlight(s)') \in Nat
  <2> DEFINE F == InFlight(s)'
             I == lo..(lo + k - 1)
  <2>1. IsFiniteSet(I) /\ Cardinality(I) = k /\ F \in SUBSET I
    BY <1>9, <1>10
  <2> HIDE DEF F, I
  <2>2. IsFiniteSet(F) /\ Cardinality(F) <= k
    BY <2>1, FS_Subset
  <2>3. Cardinality(F) \in Nat
    BY <2>2, FS_CardinalityType
  <2>4. QED BY <2>2, <2>3 DEF F
<1>12. QED BY <1>2, <1>5, <1>8, <1>11 DEF W

\* Refilling counts every chunk that is not ACKed.
LEMMA RefillWindow ==
  ASSUME IInv, NEW s \in Side, Refill(s), ~(InFlight(s)' \subseteq InFlight(s))
  PROVE  Cardinality(InFlight(s)') <= EffectiveWindow(s)
<1> DEFINE U == Unacked(s, sendBuf[s])
           W == EffectiveWindow(s)
           next == FillTo(nextSeq[s], sendSeq[s], Cardinality(U), W)
<1>1. /\ nextSeq' = [nextSeq EXCEPT ![s] = next]
      /\ UNCHANGED <<sendSeq, sendBuf, firstSeq>>
  BY DEF Refill
<1>2. nextSeq'[s] = next
  BY <1>1 DEF IInv, TypeOK
<1>3. IsFiniteSet(U) /\ Cardinality(U) \in Nat /\ W \in Nat \ {0}
  BY UnackedFinite, WindowType DEF IInv
<1>4. ~(Cardinality(U) >= W)
  <2> SUFFICES ASSUME Cardinality(U) >= W PROVE FALSE
    OBVIOUS
  <2>1. next = nextSeq[s]
    BY DEF FillTo
  <2>2. QED BY <1>1, <1>2, <2>1, NothingNew
<1>5. InFlight(s)' \subseteq U
  BY <1>1 DEF InFlight, Unacked
<1>6. Cardinality(InFlight(s)') <= Cardinality(U) /\ Cardinality(InFlight(s)') \in Nat
  BY <1>3, <1>5, FS_Subset, FS_CardinalityType
<1> HIDE DEF U, W
<1>7. QED BY <1>3, <1>4, <1>6 DEF W

\* What a time-out puts in flight has been retried.
LEMMA RtoRetries ==
  ASSUME IInv, NEW s \in Side, Rto(s), NEW q \in InFlight(s)'
  PROVE  sendBuf'[s][q].retries # 0
<1> DEFINE U == Unacked(s, sendBuf[s])
<1>1. sendBuf' = [sendBuf EXCEPT ![s] = Retried(@, U)] /\ UNCHANGED <<firstSeq, sendSeq>>
  BY DEF Rto
<1>2. sendBuf'[s] = Retried(sendBuf[s], U)
  BY <1>1 DEF IInv, TypeOK
<1>3. DOMAIN sendBuf'[s] = DOMAIN sendBuf[s]
  BY <1>2 DEF Retried
<1>4. q \in U /\ q \in DOMAIN sendBuf[s]
  BY <1>1, <1>3 DEF InFlight, Unacked
<1>5. sendBuf'[s][q] = [sendBuf[s][q] EXCEPT !.retries = @ + 1]
  BY <1>2, <1>4 DEF Retried
<1>6. sendBuf[s][q] \in Entry
  BY <1>4, TypeFacts DEF IInv, SeqMap
<1>7. QED BY <1>5, <1>6 DEF Entry

\* No other step puts anything in flight.
LEMMA ElseNothingNew ==
  ASSUME IInv, NEW s \in Side, [Next]_vars,
         ~ \E n \in MsgSizes : Send(s, n), ~Refill(s), ~Rto(s)
  PROVE  InFlight(s)' \subseteq InFlight(s)
<1>1. ASSUME NEW t \in Side, t # s,
             \/ \E n \in MsgSizes : Send(t, n)
             \/ Refill(t) \/ Rto(t)
      PROVE  InFlight(s)' \subseteq InFlight(s)
  <2>1. TypeOK
    BY DEF IInv
  <2>2. CASE \E n \in MsgSizes : Send(t, n)
    <3>1. /\ \E x : firstSeq' = [firstSeq EXCEPT ![t] = x]
          /\ \E x : sendSeq' = [sendSeq EXCEPT ![t] = x]
          /\ \E x : nextSeq' = [nextSeq EXCEPT ![t] = x]
          /\ \E x : sendBuf' = [sendBuf EXCEPT ![t] = x]
      BY <2>2, Zenon DEF Send
    <3>2. /\ firstSeq'[s] = firstSeq[s] /\ sendSeq'[s] = sendSeq[s]
          /\ nextSeq'[s] = nextSeq[s] /\ sendBuf'[s] = sendBuf[s]
      BY <1>1, <2>1, <3>1 DEF TypeOK
    <3>3. QED BY <3>2, NothingNew
  <2>3. CASE Refill(t) \/ Rto(t)
    <3>1. /\ UNCHANGED <<firstSeq, sendSeq>>
          /\ \E x : nextSeq' = [nextSeq EXCEPT ![t] = x]
          /\ sendBuf' = sendBuf \/ \E x : sendBuf' = [sendBuf EXCEPT ![t] = x]
      BY <2>3, Zenon DEF Refill, Rto
    <3>2. /\ firstSeq'[s] = firstSeq[s] /\ sendSeq'[s] = sendSeq[s]
          /\ nextSeq'[s] = nextSeq[s] /\ sendBuf'[s] = sendBuf[s]
      BY <1>1, <2>1, <3>1 DEF TypeOK
    <3>3. QED BY <3>2, NothingNew
  <2>4. QED BY <1>1, <2>2, <2>3
<1>2. ASSUME UNCHANGED <<firstSeq, sendSeq, nextSeq, sendBuf>>
      PROVE  InFlight(s)' \subseteq InFlight(s)
  BY <1>2, NothingNew
<1>3. ASSUME NEW t \in Side,
             EndPause(t) \/ Return(t) \/ GiveUp(t) \/ OnFin(t) \/ OnRst(t)
             \/ Recv(t) \/ Close(t)
      PROVE  UNCHANGED <<firstSeq, sendSeq, nextSeq, sendBuf>>
  BY <1>3 DEF EndPause, Return, GiveUp, OnFin, OnRst, Recv, Close, sndVars
<1>4. ASSUME NEW p \in net, Reject(p)
      PROVE  UNCHANGED <<firstSeq, sendSeq, nextSeq, sendBuf>>
  BY <1>4 DEF Reject, sndVars
<1>5. ASSUME NEW t \in Side, NEW p \in net, OnData(t, p) \/ OnAck(t, p)
      PROVE  InFlight(s)' \subseteq InFlight(s)
  <2>1. /\ p.dst = t /\ p.kind \in {"DATA", "ACK"} /\ ProcessAck(t, p)
        /\ UNCHANGED <<firstSeq, sendSeq, nextSeq>>
    BY <1>5 DEF OnData, OnAck
  <2>2. BufferShrinks
    BY <2>1, AckEffect
  <2>3. QED BY <2>1, <2>2, NothingNew DEF BufferShrinks
<1>6. CASE UNCHANGED vars
  BY <1>2, <1>6 DEF vars, sndVars
<1>7. QED BY <1>1, <1>2, <1>3, <1>4, <1>5, <1>6 DEF Next, SenderStep, Receive

\* First transmissions stay within the window of the moment (_fill_window,
\* rudp_socket.py:253-264); go-back-N (line 266) alone does not.
THEOREM WindowCorrect == Spec => WindowKept
<1> DEFINE Kept(s) == ( /\ ~(InFlight(s)' \subseteq InFlight(s))
                        /\ \A q \in InFlight(s)' : sendBuf'[s][q].retries = 0 )
                      => Cardinality(InFlight(s)') <= EffectiveWindow(s)
<1>1. ASSUME IInv, [Next]_vars
      PROVE  \A s \in Side : Kept(s)
  <2> SUFFICES ASSUME NEW s \in Side,
                      ~(InFlight(s)' \subseteq InFlight(s)),
                      \A q \in InFlight(s)' : sendBuf'[s][q].retries = 0
               PROVE  Cardinality(InFlight(s)') <= EffectiveWindow(s)
    OBVIOUS
  <2> USE <1>1
  <2>1. CASE \E n \in MsgSizes : Send(s, n)
    BY <2>1, SendWindow
  <2>2. CASE Refill(s)
    BY <2>2, RefillWindow
  <2>3. CASE Rto(s)
    BY <2>3, RtoRetries
  <2>4. QED BY <2>1, <2>2, <2>3, ElseNothingNew
<1>2. IInv /\ [Next]_vars => [\A s \in Side : Kept(s)]_vars
  BY <1>1
<1>3. QED BY <1>2, Inductive, PTL DEF Spec, WindowKept

-----------------------------------------------------------------------------
(* Refinement: a connection is a pair of reliable streams.                 *)

\* Steps that leave the three mapped values alone are stuttering steps.
LEMMA StutterMap ==
  ASSUME UNCHANGED <<stream, absorbed>>,
         \A s \in Side : SendState'[s] = SendState[s]
  PROVE  UNCHANGED Abstract!vars
<1>1. SendState' = SendState
  BY DEF SendState
<1>2. QED BY <1>1 DEF Abstract!vars

\* A call of send() hands over at least one chunk more.
LEMMA SubmitMap ==
  ASSUME IInv, NEW s \in Side, NEW n \in MsgSizes, Send(s, n)
  PROVE  Abstract!Submit(s)
<1> DEFINE cs == ChunksOf(Len(submitted[s]) + 1, n)
<1>1. TypeOK /\ n \in Nat /\ Len(submitted[s]) + 1 \in Nat
  BY ConstantsAssumption, TypeFacts DEF IInv
<1>2. cs \in Seq(Chunk) /\ Len(cs) \in Nat \ {0}
  BY <1>1, ChunksType
<1>3. /\ stream' = [stream EXCEPT ![s] = @ \o cs]
      /\ UNCHANGED absorbed
      /\ pc[s] = "idle"
      /\ AfterFill(s, Len(cs) > 1)
  BY DEF Send, rcvVars
<1> HIDE DEF cs
<1>4. /\ stream[s] \in Seq(Chunk) /\ Len(stream[s]) \in Nat
      /\ stream \in [Side -> Seq(Chunk)]
  BY <1>1, TypeFacts DEF TypeOK
<1>5. stream'[s] = stream[s] \o cs
  BY <1>3, <1>4
<1>6. /\ Len(stream[s] \o cs) = Len(stream[s]) + Len(cs)
      /\ \A i \in 1..(Len(stream[s]) + Len(cs)) :
           (stream[s] \o cs)[i] = IF i <= Len(stream[s]) THEN stream[s][i]
                                  ELSE cs[i - Len(stream[s])]
      /\ stream[s] \o cs \in Seq(Chunk)
  BY <1>2, <1>4, ConcatProperties
<1>7. SubSeq(stream[s] \o cs, 1, Len(stream[s])) = stream[s]
  <2> DEFINE t == stream[s] \o cs
             u == SubSeq(t, 1, Len(stream[s]))
  <2>1. \A i \in 1..Len(stream[s]) : t[i] \in Chunk /\ t[i] = stream[s][i]
    <3> TAKE i \in 1..Len(stream[s])
    <3>1. t[i] = stream[s][i]
      BY <1>2, <1>4, <1>6
    <3>2. stream[s][i] \in Chunk
      BY <1>4, ElementOfSeq
    <3>3. QED BY <3>1, <3>2
  <2> HIDE DEF t
  <2>2. /\ u \in Seq(Chunk) /\ Len(u) = Len(stream[s])
        /\ \A i \in 1..Len(stream[s]) : u[i] = t[i]
    BY <1>4, <2>1, SubSeqProperties
  <2> HIDE DEF u
  <2>3. u = stream[s]
    BY <1>4, <2>1, <2>2, SeqEqual
  <2>4. QED BY <2>3 DEF t, u
<1>8. SendState[s] = "ready" /\ SendState' = [SendState EXCEPT ![s] = "busy"]
  <2>1. PICK x \in {"waiting", "pausing"} : pc' = [pc EXCEPT ![s] = x]
    BY <1>3 DEF AfterFill
  <2>2. pc \in [Side -> {"idle", "waiting", "pausing", "failed"}]
    BY <1>1 DEF TypeOK
  <2>3. QED BY <1>3, <2>1, <2>2 DEF SendState
<1>9. stream' = [stream EXCEPT ![s] = stream'[s]]
  BY <1>3, <1>5
<1>10. Len(stream'[s]) > Len(stream[s])
  BY <1>2, <1>4, <1>5, <1>6
<1>11. SubSeq(stream'[s], 1, Len(stream[s])) = stream[s]
  BY <1>5, <1>7
<1>12. QED BY <1>3, <1>8, <1>9, <1>10, <1>11 DEF Abstract!Submit

\* A DATA packet makes more of the peer's stream arrive, or nothing.
LEMMA ArriveMap ==
  ASSUME IInv, IInv', NEW s \in Side, NEW p \in net, OnData(s, p)
  PROVE  Abstract!Arrive(s) \/ UNCHANGED Abstract!vars
<1> USE PeerFacts
<1>1. UNCHANGED <<stream, pc>>
  BY DEF OnData, appVars
<1>2. SendState' = SendState
  BY <1>1 DEF SendState
<1>3. CASE UNCHANGED absorbed
  BY <1>1, <1>2, <1>3 DEF Abstract!vars
<1>4. CASE ~UNCHANGED absorbed
  <2> DEFINE a == absorbed'[s]
             b == stream[Peer(s)]
             n == Len(a)
  <2>1. InOrder(s, p)
    BY <1>4 DEF OnData, Ahead, Behind
  <2>2. \E x : absorbed' = [absorbed EXCEPT ![s] = x]
    BY <2>1 DEF InOrder
  <2>3. absorbed' = [absorbed EXCEPT ![s] = a]
    BY <2>2 DEF IInv, TypeOK
  <2>4. /\ a \in Seq(Chunk) /\ b \in Seq(Chunk)
        /\ Len(a) \in Nat /\ Len(b) \in Nat
        /\ Len(absorbed[s]) \in Nat
    <3>1. a \in Seq(Chunk)
      BY DEF IInv, TypeOK
    <3>2. QED BY <3>1, LenProperties, TypeFacts DEF IInv
  <2>5. n <= Len(b) /\ \A i \in 1..n : a[i] = b[i]
    BY <1>1 DEF IInv, ExactlyOnceInOrder
  <2>6. Len(absorbed[s]) < n
    <3>1. /\ recvSeq[s] = Len(absorbed[s]) + 1 /\ recvSeq'[s] = n + 1
          /\ recvSeq[s] \in Nat /\ recvSeq \in [Side -> Nat]
      BY TypeFacts DEF IInv, Positions, TypeOK
    <3>2. p.seq = recvSeq[s] /\ \E m : m > p.seq /\ recvSeq' = [recvSeq EXCEPT ![s] = m]
      <4>1. PICK m \in (p.seq + 1)..(p.seq + 1 + Cardinality(DOMAIN recvOoo[s])) :
               recvSeq' = [recvSeq EXCEPT ![s] = m]
        BY <2>1 DEF InOrder
      <4>2. p.seq = recvSeq[s]
        BY <2>1 DEF InOrder
      <4>3. Cardinality(DOMAIN recvOoo[s]) \in Nat
        <5>1. DOMAIN recvOoo[s] \subseteq 1..Len(b)
          BY DEF IInv, SeqFaithful, At
        <5>2. QED BY <2>4, <5>1, PositionSets
      <4>4. m > p.seq
        BY <3>1, <4>2, <4>3
      <4>5. QED BY <4>1, <4>2, <4>4
    <3>3. recvSeq'[s] > recvSeq[s]
      BY <3>1, <3>2
    <3>4. QED BY <2>4, <3>1, <3>3
  <2>7. a = SubSeq(b, 1, n)
    <3> HIDE DEF a, b
    <3>1. \A i \in 1..n : b[i] \in Chunk
      BY <2>4, <2>5, ElementOfSeq
    <3>2. /\ SubSeq(b, 1, n) \in Seq(Chunk) /\ Len(SubSeq(b, 1, n)) = n
          /\ \A i \in 1..n : SubSeq(b, 1, n)[i] = b[i]
      BY <2>4, <3>1, SubSeqProperties
    <3>3. QED BY <2>4, <2>5, <3>2, SeqEqual
  <2>8. n \in (Len(absorbed[s]) + 1)..Len(b)
    BY <2>4, <2>5, <2>6
  <2>9. QED BY <1>1, <1>2, <2>3, <2>7, <2>8 DEF Abstract!Arrive, Abstract!Peer, Peer
<1>5. QED BY <1>3, <1>4

\* send() returns: everything has arrived, as ReturnMeansAbsorbed says.
LEMMA ConfirmMap ==
  ASSUME IInv, IInv', NEW s \in Side, Return(s)
  PROVE  Abstract!Confirm(s)
<1> USE PeerFacts
<1>1. /\ pc[s] = "waiting" /\ pc' = [pc EXCEPT ![s] = "idle"]
      /\ UNCHANGED <<stream, absorbed>>
  BY DEF Return, appVars, rcvVars
<1>2. pc'[s] = "idle"
  BY <1>1 DEF IInv, TypeOK
<1>3. Len(absorbed[Peer(s)]) = Len(stream[s])
  <2>1. DOMAIN sendBuf[s] = {}
    BY <1>2 DEF Return, IInv, BufferCovers
  <2>2. QED BY <2>1, EmptyMeansAbsorbed
<1>4. /\ absorbed[Peer(s)] \in Seq(Chunk) /\ stream[s] \in Seq(Chunk)
      /\ Len(absorbed[Peer(s)]) = Len(stream[s])
  BY <1>1, <1>3, TypeFacts DEF IInv
<1>5. \A i \in 1..Len(absorbed[Peer(s)]) : absorbed[Peer(s)][i] = stream[s][i]
  BY DEF IInv, ExactlyOnceInOrder
<1>6. absorbed[Peer(s)] = stream[s]
  BY <1>4, <1>5, SeqEqual
<1>7. SendState[s] = "busy" /\ SendState' = [SendState EXCEPT ![s] = "ready"]
  BY <1>1 DEF SendState, IInv, TypeOK
<1>8. QED BY <1>1, <1>6, <1>7 DEF Abstract!Confirm, Abstract!Peer, Peer

\* send() raises RudpTimeout: the stream is broken.
LEMMA BreakMap ==
  ASSUME IInv, NEW s \in Side, GiveUp(s)
  PROVE  Abstract!Break(s)
<1>1. /\ pc[s] = "waiting" /\ pc' = [pc EXCEPT ![s] = "failed"]
      /\ UNCHANGED <<stream, absorbed>>
  BY DEF GiveUp, appVars, rcvVars
<1>2. SendState[s] = "busy" /\ SendState' = [SendState EXCEPT ![s] = "broken"]
  BY <1>1 DEF SendState, IInv, TypeOK
<1>3. QED BY <1>1, <1>2 DEF Abstract!Break

\* Every behaviour of the connection is a behaviour of two reliable streams.
THEOREM StreamRefinement == Spec => ImplementsStreams
<1>1. Init => Abstract!Init
  BY DEF Init, Abstract!Init, SendState, Abstract!Side, Side
<1>2. IInv /\ IInv' /\ [Next]_vars => [Abstract!Next]_(Abstract!vars)
  <2> SUFFICES ASSUME IInv, IInv', [Next]_vars
               PROVE  Abstract!Next \/ UNCHANGED Abstract!vars
    OBVIOUS
  <2> USE DEF Abstract!Next, Abstract!Side, Side
  <2>1. ASSUME NEW s \in Side, NEW n \in MsgSizes, Send(s, n)
        PROVE  Abstract!Next
    BY <2>1, SubmitMap
  <2>2. ASSUME NEW s \in Side, EndPause(s) \/ Refill(s) \/ Rto(s)
        PROVE  UNCHANGED Abstract!vars
    <3>1. UNCHANGED <<stream, absorbed>>
      BY <2>2 DEF EndPause, Refill, Rto, appVars, rcvVars
    <3>2. \A t \in Side : SendState'[t] = SendState[t]
      BY <2>2 DEF EndPause, Refill, Rto, AfterFill, SendState, IInv, TypeOK
    <3>3. QED BY <3>1, <3>2, StutterMap
  <2>3. ASSUME NEW s \in Side, Return(s) \/ GiveUp(s)
        PROVE  Abstract!Next
    BY <2>3, ConfirmMap, BreakMap
  <2>4. ASSUME NEW s \in Side, NEW p \in net, OnData(s, p)
        PROVE  Abstract!Next \/ UNCHANGED Abstract!vars
    BY <2>4, ArriveMap
  <2>5. ASSUME NEW s \in Side,
               \/ \E p \in net : OnAck(s, p)
               \/ OnFin(s) \/ OnRst(s) \/ Recv(s) \/ Close(s)
               \/ \E p \in net : Reject(p)
        PROVE  UNCHANGED Abstract!vars
    <3>1. UNCHANGED <<stream, absorbed, pc>>
      BY <2>5 DEF OnAck, OnFin, OnRst, Recv, Close, Reject, appVars, sndVars, rcvVars
    <3>2. QED BY <3>1, StutterMap DEF SendState
  <2>6. CASE UNCHANGED vars
    <3>1. UNCHANGED <<stream, absorbed, pc>>
      BY <2>6 DEF vars, appVars, sndVars, rcvVars
    <3>2. QED BY <3>1, StutterMap DEF SendState
  <2>7. QED
    BY <2>1, <2>2, <2>3, <2>4, <2>5, <2>6 DEF Next, SenderStep, Receive
<1>3. QED BY <1>1, <1>2, Inductive, PTL DEF Spec, ImplementsStreams, Abstract!Spec
=============================================================================
