------------------------- MODULE RudpHandshakeProofs -------------------------
(***************************************************************************)
(* Proofs about RudpHandshake for every number of addresses, sockets,      *)
(* messages and restarts, whatever the network loses, delays or repeats.   *)
(***************************************************************************)
EXTENDS RudpHandshake, FiniteSetTheorems, SequenceTheorems, TLAPS

-----------------------------------------------------------------------------
(* The inductive invariant.                                                *)

\* A reorder buffer is finite, so that the run that follows a chunk ends.
Buffered ==
  /\ \A a \in Addr : IsFiniteSet(client[a].rx.ooo)
  /\ \A i \in DOMAIN socks : IsFiniteSet(socks[i].rx.ooo)

\* What a server socket has delivered are the messages up to _recv_seq.
InOrder(rx) ==
  /\ Len(rx.got) = rx.recv - 1
  /\ \A k \in DOMAIN rx.got : rx.got[k] = k

SocketsInOrder == \A i \in DOMAIN socks : InOrder(socks[i].rx)

\* A SYN+ACK was sent by a socket, and sockets are never forgotten.
Answered ==
  \A a \in Addr :
    ToClient(a, "SYN+ACK", 0) \in net \/ client[a].phase = "connected" =>
      \E i \in DOMAIN socks : socks[i].addr = a

IInv ==
  /\ TypeOK
  /\ Buffered
  /\ SocketsInOrder
  /\ Answered
  /\ OpenSocketsRouted
  /\ AcceptedOnce

-----------------------------------------------------------------------------
(* Lemmas about the receiver.                                              *)

\* A nonempty set of naturals has a least element.
LEMMA Least ==
  ASSUME NEW S, S \subseteq Nat, S # {}
  PROVE  \E m \in S : \A k \in S : m <= k
<1>1. PICK m \in S : \A k \in S : <<k, m>> \notin OpToRel(<, Nat)
  BY WFMin, NatLessThanWellFounded, Zenon
<1>2. \A k \in S : ~(k < m)
  BY <1>1, Zenon DEF OpToRel
<1>3. \A k \in S : m <= k
  BY <1>2
<1>4. QED BY <1>3

\* The run of buffered chunks after recv has an end, and it is the one found.
LEMMA RunEndFacts ==
  ASSUME NEW rx \in Receiver, IsFiniteSet(rx.ooo)
  PROVE  /\ RunEnd(rx) \in Nat
         /\ RunEnd(rx) > rx.recv
<1> DEFINE r == rx.recv
           n == Cardinality(rx.ooo)
           S == (r + 1) .. (r + 1 + n)
<1>1. r \in Nat /\ rx.ooo \subseteq Nat /\ n \in Nat
  BY FS_CardinalityType DEF Receiver
<1>2. IsFiniteSet(S) /\ Cardinality(S) = n + 1
  <2> DEFINE a == r + 1
             b == r + 1 + n
  <2>1. a \in Int /\ b \in Int /\ a <= b /\ b - a + 1 = n + 1
    BY <1>1
  <2> HIDE DEF a, b
  <2>2. IsFiniteSet(a .. b) /\ Cardinality(a .. b) = IF a > b THEN 0 ELSE b - a + 1
    BY <2>1, FS_Interval
  <2>3. IsFiniteSet(a .. b) /\ Cardinality(a .. b) = n + 1
    BY <2>1, <2>2
  <2>4. QED BY <2>3 DEF a, b
<1>3. S \ rx.ooo # {}
  <2> SUFFICES ASSUME S \subseteq rx.ooo PROVE FALSE
    OBVIOUS
  <2>1. Cardinality(S) <= n
    BY FS_Subset
  <2>2. QED BY <1>1, <1>2, <2>1
<1>4. PICK e \in S \ rx.ooo : \A k \in S \ rx.ooo : e <= k
  <2>1. S \ rx.ooo \subseteq Nat
    BY <1>1
  <2>2. QED BY <1>3, <2>1, Least
<1>5. \A m \in (r + 1) .. (e - 1) : m \in rx.ooo
  BY <1>1, <1>4
<1>6. \E x \in S : x \notin rx.ooo /\ \A m \in (r + 1) .. (x - 1) : m \in rx.ooo
  BY <1>4, <1>5
<1>7. RunEnd(rx) \in S
  BY <1>6 DEF RunEnd
<1>8. QED BY <1>1, <1>7

\* Appending a run of chunks.
LEMMA AppendRun ==
  ASSUME NEW g \in Seq(Nat), NEW q \in Nat, NEW e \in Nat, e > q
  PROVE  /\ g \o [i \in 1 .. (e - q) |-> q + i - 1] \in Seq(Nat)
         /\ Len(g \o [i \in 1 .. (e - q) |-> q + i - 1]) = Len(g) + e - q
         /\ \A k \in 1 .. (Len(g) + e - q) :
              (g \o [i \in 1 .. (e - q) |-> q + i - 1])[k] =
                 IF k <= Len(g) THEN g[k] ELSE q + k - Len(g) - 1
<1> DEFINE n == e - q
           run == [i \in 1 .. n |-> q + i - 1]
<1>1. n \in Nat /\ Len(g) \in Nat
  BY LenProperties
<1>2. \A i \in 1 .. n : q + i - 1 \in Nat
  BY <1>1
<1> HIDE DEF n
<1>3. run \in Seq(Nat) /\ Len(run) = n /\ \A i \in 1 .. n : run[i] = q + i - 1
  BY <1>1, <1>2
<1> HIDE DEF run
<1>4. /\ g \o run \in Seq(Nat)
      /\ Len(g \o run) = Len(g) + Len(run)
      /\ \A k \in 1 .. (Len(g) + Len(run)) :
           (g \o run)[k] = IF k <= Len(g) THEN g[k] ELSE run[k - Len(g)]
  BY <1>3, ConcatProperties
<1>5. \A k \in 1 .. (Len(g) + n) :
        (g \o run)[k] = IF k <= Len(g) THEN g[k] ELSE q + k - Len(g) - 1
  <2> TAKE k \in 1 .. (Len(g) + n)
  <2>1. CASE k <= Len(g)
    BY <1>3, <1>4, <2>1
  <2>2. CASE ~(k <= Len(g))
    <3>1. k - Len(g) \in 1 .. n
      BY <1>1, <2>2
    <3>2. (g \o run)[k] = run[k - Len(g)]
      BY <1>3, <1>4, <2>2
    <3>3. QED BY <1>1, <1>3, <2>2, <3>1, <3>2
  <2>3. QED BY <2>1, <2>2
<1>6. Len(g) + n = Len(g) + e - q
  BY <1>1 DEF n
<1>7. QED BY <1>3, <1>4, <1>5, <1>6 DEF run, n

\* A receiver stays one, and one in order stays in order, whichever chunk comes.
LEMMA DeliveredFacts ==
  ASSUME NEW rx \in Receiver, IsFiniteSet(rx.ooo), NEW q \in Nat
  PROVE  /\ Delivered(rx, q) \in Receiver
         /\ IsFiniteSet(Delivered(rx, q).ooo)
         /\ InOrder(rx) => InOrder(Delivered(rx, q))
<1>1. rx.recv \in Nat /\ rx.ooo \in SUBSET Nat /\ rx.got \in Seq(Nat)
  BY DEF Receiver
<1>2. CASE q = rx.recv
  <2> DEFINE e == RunEnd(rx)
             o == rx.ooo \ ((q + 1) .. e)
             g == rx.got \o [i \in 1 .. (e - q) |-> q + i - 1]
  <2>1. e \in Nat /\ e > q
    BY <1>2, RunEndFacts
  <2>2. o \in SUBSET Nat /\ IsFiniteSet(o)
    BY <1>1, FS_Subset
  <2>3. /\ g \in Seq(Nat) /\ Len(g) = Len(rx.got) + e - q
        /\ \A k \in 1 .. (Len(rx.got) + e - q) :
             g[k] = IF k <= Len(rx.got) THEN rx.got[k]
                    ELSE q + k - Len(rx.got) - 1
    BY <1>1, <2>1, AppendRun
  <2>4. Delivered(rx, q) = [recv |-> e, ooo |-> o, got |-> g]
    BY <1>2 DEF Delivered
  <2> HIDE DEF e, o, g
  <2>5. ASSUME InOrder(rx) PROVE InOrder(Delivered(rx, q))
    <3>1. Len(rx.got) = q - 1 /\ \A k \in DOMAIN rx.got : rx.got[k] = k
      BY <1>2, <2>5 DEF InOrder
    <3>2. Len(rx.got) \in Nat /\ DOMAIN rx.got = 1 .. Len(rx.got)
      BY <1>1, LenProperties
    <3>3. Len(g) = e - 1 /\ DOMAIN g = 1 .. (e - 1)
      BY <2>1, <2>3, <3>1, LenProperties
    <3>4. \A k \in 1 .. (e - 1) : g[k] = k
      <4> TAKE k \in 1 .. (e - 1)
      <4>1. g[k] = IF k <= Len(rx.got) THEN rx.got[k]
                   ELSE q + k - Len(rx.got) - 1
        BY <2>1, <2>3, <3>1
      <4>2. k <= Len(rx.got) => rx.got[k] = k
        BY <2>1, <3>1, <3>2
      <4>3. QED BY <2>1, <3>1, <3>2, <4>1, <4>2
    <3>5. QED BY <2>4, <3>3, <3>4 DEF InOrder
  <2>6. QED BY <2>1, <2>2, <2>3, <2>4, <2>5 DEF Receiver
<1>3. CASE q > rx.recv
  <2>1. Delivered(rx, q) = [rx EXCEPT !.ooo = rx.ooo \cup {q}]
    BY <1>1, <1>3 DEF Delivered
  <2>2. IsFiniteSet(rx.ooo \cup {q}) /\ rx.ooo \cup {q} \in SUBSET Nat
    BY <1>1, FS_AddElement
  <2>3. QED BY <2>1, <2>2 DEF Receiver, InOrder
<1>4. CASE q < rx.recv
  <2>1. Delivered(rx, q) = rx
    BY <1>1, <1>4 DEF Delivered
  <2>2. QED BY <2>1
<1>5. QED BY <1>1, <1>2, <1>3, <1>4

\* A receiver that has got nothing.
LEMMA FreshFacts ==
  ASSUME NEW n \in Nat
  PROVE  /\ Fresh(n) \in Receiver /\ IsFiniteSet(Fresh(n).ooo)
         /\ InOrder(Fresh(1))
BY FS_EmptySet DEF Fresh, Receiver, InOrder

\* Replacing one socket.
LEMMA SocketChanged ==
  ASSUME TypeOK, NEW i \in DOMAIN socks, NEW s \in Socket,
         socks' = [socks EXCEPT ![i] = s]
  PROVE  /\ socks' \in Seq(Socket)
         /\ DOMAIN socks' = DOMAIN socks
         /\ socks'[i] = s
         /\ \A j \in DOMAIN socks : j # i => socks'[j] = socks[j]
BY DEF TypeOK

-----------------------------------------------------------------------------
(* Steps.                                                                  *)

LEMMA InitInv == Init => IInv
<1> SUFFICES ASSUME Init PROVE IInv
  OBVIOUS
<1>1. DOMAIN socks = {} /\ DOMAIN accepts = {} /\ DOMAIN table = {}
  BY DEF Init
<1>2. Fresh(0) \in Receiver /\ IsFiniteSet(Fresh(0).ooo)
  BY FreshFacts
<1>3. TypeOK
  <2>1. client \in [Addr -> Client]
    BY <1>2, ConstantsAssumption DEF Init, Client
  <2>2. restarts \in 0 .. MaxRestarts
    BY ConstantsAssumption DEF Init
  <2>3. socks \in Seq(Socket) /\ accepts \in Seq(DOMAIN socks)
    BY DEF Init
  <2>4. QED BY <1>1, <2>1, <2>2, <2>3 DEF Init, TypeOK
<1>4. Buffered
  BY <1>1, <1>2 DEF Init, Buffered
<1>5. SocketsInOrder /\ OpenSocketsRouted /\ AcceptedOnce
  BY <1>1 DEF SocketsInOrder, OpenSocketsRouted, AcceptedOnce
<1>6. Answered
  BY DEF Init, Answered
<1>7. QED BY <1>3, <1>4, <1>5, <1>6 DEF IInv

\* What a client does changes the client, and the network, to which it adds no
\* SYN+ACK.
LEMMA ClientInv ==
  ASSUME IInv, NEW a \in Addr, ClientStep(a)
  PROVE  IInv'
<1>1. TypeOK /\ client[a] \in Client /\ client[a].rx \in Receiver
  BY DEF IInv, TypeOK, Client
<1>2. UNCHANGED <<socks, table, accepts, restarts>>
  BY DEF ClientStep, Connect, ConnectTimeout, OnSynAck, ClientOnData, ClientOnFin,
         ClientOnRst, ClientSend, ClientClose
<1>3. PICK c2 \in Client : /\ client' = [client EXCEPT ![a] = c2]
                           /\ IsFiniteSet(c2.rx.ooo)
                           /\ c2.phase = "connected" =>
                                \/ client[a].phase = "connected"
                                \/ ToClient(a, "SYN+ACK", 0) \in net
  <2> DEFINE Goal(c2) == /\ client' = [client EXCEPT ![a] = c2]
                         /\ IsFiniteSet(c2.rx.ooo)
                         /\ c2.phase = "connected" =>
                              \/ client[a].phase = "connected"
                              \/ ToClient(a, "SYN+ACK", 0) \in net
  <2>0. IsFiniteSet(client[a].rx.ooo)
    BY DEF IInv, Buffered
  <2>1. CASE Connect(a)
    <3> DEFINE c2 == [client[a] EXCEPT !.phase = "connecting", !.seq = 1]
    <3>1. c2 \in Client /\ Goal(c2)
      BY <1>1, <2>0, <2>1 DEF Connect, Client
    <3>2. QED BY <3>1
  <2>2. CASE ConnectTimeout(a)
    <3> DEFINE c2 == [client[a] EXCEPT !.phase = "failed"]
    <3>1. c2 \in Client /\ Goal(c2)
      BY <1>1, <2>0, <2>2 DEF ConnectTimeout, Client
    <3>2. QED BY <3>1
  <2>3. CASE OnSynAck(a)
    <3> DEFINE rx2 == [client[a].rx EXCEPT !.recv = 1]
               n == client[a].synacks + 1
               c2 == [client[a] EXCEPT !.phase = "connected", !.rx = rx2,
                                       !.synacks = n]
    <3>1. rx2 \in Receiver /\ rx2.ooo = client[a].rx.ooo
      BY <1>1 DEF Receiver
    <3>2. n \in 0 .. MaxSynAcks
      BY <1>1, <2>3, ConstantsAssumption DEF OnSynAck, Client
    <3>3. client' = [client EXCEPT ![a] = c2]
      BY <1>1, <2>3 DEF OnSynAck, Client
    <3>4. ToClient(a, "SYN+ACK", 0) \in net
      BY <2>3 DEF OnSynAck
    <3> HIDE DEF n, rx2
    <3>5. c2 \in Client /\ c2.rx = rx2
      BY <1>1, <3>1, <3>2 DEF Client
    <3> HIDE DEF c2
    <3>6. QED BY <2>0, <3>1, <3>3, <3>4, <3>5
  <2>4. ASSUME NEW q \in 1 .. MaxData, ClientOnData(a, q)
        PROVE  \E c2 \in Client : Goal(c2)
    <3> DEFINE rx2 == Delivered(client[a].rx, q)
               c2 == [client[a] EXCEPT !.rx = rx2]
    <3>1. rx2 \in Receiver /\ IsFiniteSet(rx2.ooo)
      BY <1>1, <2>0, DeliveredFacts
    <3>2. client' = [client EXCEPT ![a] = c2]
      BY <2>4 DEF ClientOnData
    <3> HIDE DEF rx2
    <3>3. c2 \in Client /\ c2.rx = rx2 /\ c2.phase = client[a].phase
      BY <1>1, <3>1 DEF Client
    <3>4. QED BY <3>1, <3>2, <3>3
  <2>5. CASE ClientOnFin(a) \/ ClientOnRst(a) \/ ClientClose(a)
    <3> DEFINE c2 == [client[a] EXCEPT !.closed = TRUE]
    <3>1. c2 \in Client /\ Goal(c2)
      BY <1>1, <2>0, <2>5 DEF ClientOnFin, ClientOnRst, ClientClose, Client
    <3>2. QED BY <3>1
  <2>6. CASE ClientSend(a)
    <3> DEFINE n == client[a].seq + 1
               c2 == [client[a] EXCEPT !.seq = n]
    <3>1. n \in Nat
      BY <1>1 DEF Client
    <3>2. client' = [client EXCEPT ![a] = c2]
      BY <2>6 DEF ClientSend
    <3> HIDE DEF n
    <3>3. c2 \in Client /\ c2.rx = client[a].rx /\ c2.phase = client[a].phase
      BY <1>1, <3>1 DEF Client
    <3>4. QED BY <2>0, <3>2, <3>3
  <2>7. QED BY <2>1, <2>2, <2>3, <2>4, <2>5, <2>6 DEF ClientStep
<1>4. PICK new \in SUBSET Packet : /\ net' = net \cup new
                                   /\ \A p \in new : p.to = "server"
  <2>1. \A q \in Nat, k \in {"SYN", "ACK", "DATA", "FIN"} :
          ToServer(a, k, q) \in Packet /\ ToServer(a, k, q).to = "server"
    BY DEF ToServer, Packet
  <2>2. client[a].seq \in Nat
    BY <1>1 DEF Client
  <2>3. \/ net' = net \cup {}
        \/ \E q \in Nat, k \in {"SYN", "ACK", "DATA", "FIN"} :
             net' = net \cup {ToServer(a, k, q)}
    BY <2>2 DEF ClientStep, Connect, ConnectTimeout, OnSynAck, ClientOnData,
                ClientOnFin, ClientOnRst, ClientSend, ClientClose
  <2>4. CASE net' = net \cup {}
    <3>1. {} \in SUBSET Packet /\ \A p \in {} : p.to = "server"
      OBVIOUS
    <3>2. QED BY <2>4, <3>1, Zenon
  <2>5. ASSUME NEW q \in Nat, NEW k \in {"SYN", "ACK", "DATA", "FIN"},
               net' = net \cup {ToServer(a, k, q)}
        PROVE  \E new \in SUBSET Packet : /\ net' = net \cup new
                                         /\ \A p \in new : p.to = "server"
    <3>1. {ToServer(a, k, q)} \in SUBSET Packet
      BY <2>1
    <3>2. \A p \in {ToServer(a, k, q)} : p.to = "server"
      BY <2>1
    <3>3. QED BY <2>5, <3>1, <3>2
  <2>6. QED BY <2>3, <2>4, <2>5
<1>5. /\ client' \in [Addr -> Client] /\ client'[a] = c2
      /\ \A b \in Addr : b # a => client'[b] = client[b]
  BY <1>1, <1>3 DEF TypeOK
<1>6. TypeOK'
  BY <1>1, <1>2, <1>4, <1>5 DEF TypeOK
<1>7. Buffered'
  BY <1>2, <1>3, <1>5 DEF IInv, Buffered
<1>8. SocketsInOrder' /\ OpenSocketsRouted' /\ AcceptedOnce'
  BY <1>2 DEF IInv, SocketsInOrder, OpenSocketsRouted, AcceptedOnce
<1>9. Answered'
  <2>1. \A b \in Addr : ToClient(b, "SYN+ACK", 0) \in net' =>
          ToClient(b, "SYN+ACK", 0) \in net
    BY <1>4 DEF ToClient
  <2>2. QED BY <1>2, <1>3, <1>5, <2>1 DEF IInv, Answered
<1>10. QED BY <1>6, <1>7, <1>8, <1>9 DEF IInv

\* A step of one socket that keeps its address and receives in order, with
\* whatever is sent but no SYN+ACK.
LEMMA SocketStep ==
  ASSUME IInv, NEW i \in DOMAIN socks, NEW s \in Socket,
         socks' = [socks EXCEPT ![i] = s],
         s.addr = socks[i].addr, IsFiniteSet(s.rx.ooo), InOrder(s.rx),
         NEW new \in SUBSET Packet, \A p \in new : p.kind # "SYN+ACK",
         net' = net \cup new, client' = client, restarts' = restarts
  PROVE  /\ socks' \in Seq(Socket) /\ DOMAIN socks' = DOMAIN socks
         /\ socks'[i] = s
         /\ \A j \in DOMAIN socks : j # i => socks'[j] = socks[j]
         /\ \A j \in DOMAIN socks : socks'[j].addr = socks[j].addr
         /\ client' \in [Addr -> Client] /\ restarts' \in 0 .. MaxRestarts
         /\ net' \subseteq Packet
         /\ Buffered' /\ SocketsInOrder' /\ Answered'
<1>1. TypeOK
  BY DEF IInv
<1>2. /\ socks' \in Seq(Socket) /\ DOMAIN socks' = DOMAIN socks
      /\ socks'[i] = s
      /\ \A j \in DOMAIN socks : j # i => socks'[j] = socks[j]
  BY <1>1, SocketChanged
<1>3. \A j \in DOMAIN socks : socks'[j].addr = socks[j].addr
  BY <1>2
<1>4. Buffered' /\ SocketsInOrder'
  BY <1>2 DEF IInv, Buffered, SocketsInOrder
<1>5. \A b \in Addr : ToClient(b, "SYN+ACK", 0) \in net' =>
        ToClient(b, "SYN+ACK", 0) \in net
  BY DEF ToClient
<1>6. Answered'
  BY <1>2, <1>3, <1>5 DEF IInv, Answered
<1>7. QED BY <1>1, <1>2, <1>3, <1>4, <1>6 DEF TypeOK

\* What the routing needs of a packet from a: only the entry of a closed
\* socket goes, and a socket that was closed stays closed.
LEMMA RoutedStep ==
  ASSUME IInv, NEW a \in DOMAIN table, NEW isClosed \in BOOLEAN,
         table' = Popped(a, isClosed),
         isClosed => socks'[table[a]].closed,
         DOMAIN socks' = DOMAIN socks,
         \A j \in DOMAIN socks : /\ socks'[j].addr = socks[j].addr
                                 /\ socks[j].closed => socks'[j].closed
  PROVE  /\ DOMAIN table' \subseteq Addr
         /\ \A b \in DOMAIN table' : table'[b] \in DOMAIN socks'
         /\ OpenSocketsRouted'
<1>1. DOMAIN table' \subseteq DOMAIN table
  BY DEF Popped
<1>2. \A b \in DOMAIN table' : table'[b] = table[b]
  BY DEF Popped
<1>3. DOMAIN table \subseteq Addr /\ \A b \in DOMAIN table : table[b] \in DOMAIN socks
  BY DEF IInv, TypeOK
<1>4. \A b \in DOMAIN table' : socks'[table'[b]].addr = b
  BY <1>1, <1>2, <1>3 DEF IInv, OpenSocketsRouted
<1>5. ASSUME NEW j \in DOMAIN socks, ~socks'[j].closed
      PROVE  socks[j].addr \in DOMAIN table' /\ table'[socks[j].addr] = j
  <2>1. socks[j].addr \in DOMAIN table /\ table[socks[j].addr] = j
    BY <1>5 DEF IInv, OpenSocketsRouted
  <2>2. ~(isClosed /\ socks[j].addr = a)
    BY <1>5, <2>1
  <2>3. QED BY <1>2, <2>1, <2>2 DEF Popped
<1>6. QED BY <1>1, <1>2, <1>3, <1>4, <1>5 DEF OpenSocketsRouted

\* What the accept queue needs of a step: handlers and queue stay as they were.
LEMMA AcceptedStep ==
  ASSUME IInv, accepts' = accepts, DOMAIN socks' = DOMAIN socks,
         \A j \in DOMAIN socks : (socks'[j].handler = "queued") <=>
                                 (socks[j].handler = "queued")
  PROVE  /\ accepts' \in Seq(DOMAIN socks')
         /\ AcceptedOnce'
BY DEF IInv, TypeOK, AcceptedOnce

LEMMA OnDataInv ==
  ASSUME IInv, NEW a \in Addr, NEW q \in 1 .. MaxData, OnData(a, q)
  PROVE  IInv'
<1> DEFINE i == table[a]
           rx2 == Delivered(socks[i].rx, q)
           s == [socks[i] EXCEPT !.rx = rx2]
<1>1. a \in DOMAIN table /\ i \in DOMAIN socks /\ socks[i] \in Socket
  BY DEF OnData, IInv, TypeOK
<1>2. /\ socks[i].rx \in Receiver /\ IsFiniteSet(socks[i].rx.ooo)
      /\ InOrder(socks[i].rx) /\ socks[i].closed \in BOOLEAN
  BY <1>1 DEF IInv, Buffered, SocketsInOrder, Socket
<1>3. /\ UNCHANGED <<client, accepts, restarts, net>>
      /\ socks' = [socks EXCEPT ![i] = s]
      /\ table' = Popped(a, socks[i].closed)
  BY DEF OnData
<1>4. rx2 \in Receiver /\ IsFiniteSet(rx2.ooo) /\ InOrder(rx2)
  BY <1>2, DeliveredFacts, ConstantsAssumption
<1> HIDE DEF rx2
<1>5. /\ s \in Socket /\ s.addr = socks[i].addr /\ s.rx = rx2
      /\ s.closed = socks[i].closed /\ s.handler = socks[i].handler
  BY <1>1, <1>4 DEF Socket
<1> HIDE DEF s, i
<1>6. /\ socks' \in Seq(Socket) /\ DOMAIN socks' = DOMAIN socks
      /\ socks'[i] = s
      /\ \A j \in DOMAIN socks : j # i => socks'[j] = socks[j]
      /\ \A j \in DOMAIN socks : socks'[j].addr = socks[j].addr
      /\ client' \in [Addr -> Client] /\ restarts' \in 0 .. MaxRestarts
      /\ net' \subseteq Packet
      /\ Buffered' /\ SocketsInOrder' /\ Answered'
  <2>1. net' = net \cup {} /\ {} \in SUBSET Packet
    BY <1>3
  <2>2. QED BY <1>1, <1>3, <1>4, <1>5, <2>1, SocketStep
<1>7. \A j \in DOMAIN socks : /\ socks'[j].closed = socks[j].closed
                              /\ socks'[j].handler = socks[j].handler
  BY <1>5, <1>6
<1>8. /\ DOMAIN table' \subseteq Addr
      /\ \A b \in DOMAIN table' : table'[b] \in DOMAIN socks'
      /\ OpenSocketsRouted'
  BY <1>1, <1>2, <1>3, <1>6, <1>7, RoutedStep DEF i
<1>9. accepts' \in Seq(DOMAIN socks') /\ AcceptedOnce'
  BY <1>3, <1>6, <1>7, AcceptedStep
<1>10. QED BY <1>6, <1>8, <1>9 DEF IInv, TypeOK

LEMMA OnAckInv ==
  ASSUME IInv, NEW a \in Addr, OnAck(a)
  PROVE  IInv'
<1>1. a \in DOMAIN table /\ table[a] \in DOMAIN socks /\ socks[table[a]] \in Socket
  BY DEF OnAck, IInv, TypeOK
<1>2. socks[table[a]].closed \in BOOLEAN
  BY <1>1 DEF Socket
<1>3. /\ UNCHANGED <<client, socks, accepts, restarts, net>>
      /\ table' = Popped(a, socks[table[a]].closed)
  BY DEF OnAck
<1>4. /\ DOMAIN table' \subseteq Addr
      /\ \A b \in DOMAIN table' : table'[b] \in DOMAIN socks'
      /\ OpenSocketsRouted'
  BY <1>1, <1>2, <1>3, RoutedStep
<1>5. QED
  BY <1>3, <1>4 DEF IInv, TypeOK, Buffered, SocketsInOrder, Answered, AcceptedOnce

LEMMA OnFinInv ==
  ASSUME IInv, NEW a \in Addr, OnFin(a)
  PROVE  IInv'
<1> DEFINE i == table[a]
           s == [socks[i] EXCEPT !.closed = TRUE]
           new == {ToClient(a, "FIN", 0)}
<1>1. a \in DOMAIN table /\ i \in DOMAIN socks /\ socks[i] \in Socket
  BY DEF OnFin, IInv, TypeOK
<1>2. IsFiniteSet(socks[i].rx.ooo) /\ InOrder(socks[i].rx)
  BY <1>1 DEF IInv, Buffered, SocketsInOrder
<1>3. /\ UNCHANGED <<client, accepts, restarts>>
      /\ socks' = [socks EXCEPT ![i] = s]
      /\ table' = Popped(a, TRUE)
      /\ net' = net \cup new
  BY DEF OnFin
<1>4. /\ s \in Socket /\ s.addr = socks[i].addr /\ s.rx = socks[i].rx
      /\ s.closed = TRUE /\ s.handler = socks[i].handler
  BY <1>1 DEF Socket
<1>5. new \in SUBSET Packet /\ \A p \in new : p.kind # "SYN+ACK"
  BY DEF ToClient, Packet
<1> HIDE DEF s, i, new
<1>6. /\ socks' \in Seq(Socket) /\ DOMAIN socks' = DOMAIN socks
      /\ socks'[i] = s
      /\ \A j \in DOMAIN socks : j # i => socks'[j] = socks[j]
      /\ \A j \in DOMAIN socks : socks'[j].addr = socks[j].addr
      /\ client' \in [Addr -> Client] /\ restarts' \in 0 .. MaxRestarts
      /\ net' \subseteq Packet
      /\ Buffered' /\ SocketsInOrder' /\ Answered'
  BY <1>1, <1>2, <1>3, <1>4, <1>5, SocketStep
<1>7. \A j \in DOMAIN socks : /\ socks[j].closed => socks'[j].closed
                              /\ socks'[j].handler = socks[j].handler
  BY <1>4, <1>6
<1>8. /\ DOMAIN table' \subseteq Addr
      /\ \A b \in DOMAIN table' : table'[b] \in DOMAIN socks'
      /\ OpenSocketsRouted'
  BY <1>1, <1>3, <1>4, <1>6, <1>7, RoutedStep DEF i
<1>9. accepts' \in Seq(DOMAIN socks') /\ AcceptedOnce'
  BY <1>3, <1>6, <1>7, AcceptedStep
<1>10. QED BY <1>6, <1>8, <1>9 DEF IInv, TypeOK

\* A handler answers or ends: its socket may close, the table stays.
LEMMA HandlerInv ==
  ASSUME IInv, NEW i \in DOMAIN socks, Reply(i) \/ End(i)
  PROVE  IInv'
<1>1. socks[i] \in Socket /\ socks[i].handler = "serving"
  BY DEF IInv, TypeOK, Reply, End
<1>2. IsFiniteSet(socks[i].rx.ooo) /\ InOrder(socks[i].rx)
  BY DEF IInv, Buffered, SocketsInOrder
<1>3. UNCHANGED <<client, table, accepts, restarts>>
  BY DEF Reply, End
<1>4. PICK s \in Socket : /\ socks' = [socks EXCEPT ![i] = s]
                          /\ s.addr = socks[i].addr /\ s.rx = socks[i].rx
                          /\ socks[i].closed => s.closed
                          /\ s.handler # "queued"
  <2>1. CASE Reply(i)
    <3> DEFINE n == socks[i].seq + 1
               s == [socks[i] EXCEPT !.seq = n]
    <3>1. n \in Nat /\ socks' = [socks EXCEPT ![i] = s]
      BY <1>1, <2>1 DEF Reply, Socket
    <3> HIDE DEF n
    <3>2. s \in Socket /\ s.addr = socks[i].addr /\ s.rx = socks[i].rx
          /\ s.closed = socks[i].closed /\ s.handler = "serving"
      BY <1>1, <3>1 DEF Socket
    <3> HIDE DEF s
    <3>3. QED BY <3>1, <3>2
  <2>2. CASE End(i)
    <3> DEFINE s == [socks[i] EXCEPT !.handler = "ended", !.closed = TRUE]
    <3>1. socks' = [socks EXCEPT ![i] = s]
      BY <1>1, <2>2 DEF End, Socket
    <3>2. s \in Socket /\ s.addr = socks[i].addr /\ s.rx = socks[i].rx
          /\ s.closed = TRUE /\ s.handler = "ended"
      BY <1>1 DEF Socket
    <3> HIDE DEF s
    <3>3. QED BY <3>1, <3>2
  <2>3. QED BY <2>1, <2>2
<1>5. PICK new \in SUBSET Packet : /\ net' = net \cup new
                                   /\ \A p \in new : p.kind # "SYN+ACK"
  <2>1. socks[i].addr \in Addr /\ socks[i].seq \in Nat
    BY <1>1 DEF Socket
  <2>2. \A q \in Nat, k \in {"DATA", "FIN"} :
          /\ {ToClient(socks[i].addr, k, q)} \in SUBSET Packet
          /\ \A p \in {ToClient(socks[i].addr, k, q)} : p.kind # "SYN+ACK"
    BY <2>1 DEF ToClient, Packet
  <2>3. {} \in SUBSET Packet /\ \A p \in {} : p.kind # "SYN+ACK"
    OBVIOUS
  <2>4. \/ net' = net \cup {}
        \/ net' = net \cup {ToClient(socks[i].addr, "DATA", socks[i].seq)}
        \/ net' = net \cup {ToClient(socks[i].addr, "FIN", 0)}
    BY DEF Reply, End
  <2>5. 0 \in Nat
    OBVIOUS
  <2>6. QED BY <2>1, <2>2, <2>3, <2>4, <2>5, Zenon
<1>6. /\ socks' \in Seq(Socket) /\ DOMAIN socks' = DOMAIN socks
      /\ socks'[i] = s
      /\ \A j \in DOMAIN socks : j # i => socks'[j] = socks[j]
      /\ \A j \in DOMAIN socks : socks'[j].addr = socks[j].addr
      /\ client' \in [Addr -> Client] /\ restarts' \in 0 .. MaxRestarts
      /\ net' \subseteq Packet
      /\ Buffered' /\ SocketsInOrder' /\ Answered'
  BY <1>2, <1>3, <1>4, <1>5, SocketStep
<1>7. \A j \in DOMAIN socks : /\ socks[j].closed => socks'[j].closed
                              /\ (socks'[j].handler = "queued") <=>
                                 (socks[j].handler = "queued")
  BY <1>1, <1>4, <1>6
<1>8. OpenSocketsRouted'
  BY <1>3, <1>6, <1>7 DEF IInv, TypeOK, OpenSocketsRouted
<1>9. accepts' \in Seq(DOMAIN socks') /\ AcceptedOnce'
  BY <1>3, <1>6, <1>7, AcceptedStep
<1>10. QED BY <1>3, <1>6, <1>8, <1>9 DEF IInv, TypeOK

\* A SYN opens a socket of its own, at the end of the table and of the queue.
LEMMA OnSynInv ==
  ASSUME IInv, NEW a \in Addr, OnSyn(a)
  PROVE  IInv'
<1> DEFINE n == Len(socks) + 1
           s == [addr |-> a, seq |-> 1, rx |-> Fresh(1), closed |-> FALSE,
                 handler |-> "queued"]
<1>1. /\ socks \in Seq(Socket) /\ accepts \in Seq(DOMAIN socks)
      /\ DOMAIN table \subseteq Addr
      /\ \A b \in DOMAIN table : table[b] \in DOMAIN socks
      /\ a \notin DOMAIN table
  BY DEF OnSyn, IInv, TypeOK
<1>2. Len(socks) \in Nat /\ DOMAIN socks = 1 .. Len(socks) /\ n \notin DOMAIN socks
  BY <1>1, LenProperties
<1>3. /\ Fresh(1) \in Receiver /\ IsFiniteSet(Fresh(1).ooo) /\ InOrder(Fresh(1))
  BY FreshFacts
<1>4. /\ s \in Socket /\ s.addr = a /\ s.rx = Fresh(1) /\ ~s.closed
      /\ s.handler = "queued"
  BY <1>3 DEF Socket
<1>5. /\ socks' = Append(socks, s)
      /\ accepts' = Append(accepts, n)
      /\ table' = [b \in DOMAIN table \cup {a} |-> IF b = a THEN n ELSE table[b]]
      /\ net' = net \cup {ToClient(a, "SYN+ACK", 0)}
      /\ UNCHANGED <<client, restarts>>
  BY DEF OnSyn
<1> HIDE DEF s
<1>6. /\ socks' \in Seq(Socket) /\ DOMAIN socks' = DOMAIN socks \cup {n}
      /\ socks'[n] = s
      /\ \A j \in DOMAIN socks : socks'[j] = socks[j]
  <2>1. socks' \in Seq(Socket) /\ Len(socks') = n
    BY <1>1, <1>4, <1>5, AppendProperties
  <2>2. \A j \in 1 .. Len(socks) : socks'[j] = socks[j]
    BY <1>1, <1>4, <1>5, AppendProperties
  <2>3. socks'[n] = s
    BY <1>1, <1>4, <1>5, AppendProperties
  <2>4. DOMAIN socks' = 1 .. n
    BY <2>1, LenProperties
  <2>5. QED BY <1>2, <2>1, <2>2, <2>3, <2>4
<1> HIDE DEF n
<1>7. /\ DOMAIN table' = DOMAIN table \cup {a} /\ table'[a] = n
      /\ \A b \in DOMAIN table : table'[b] = table[b]
  BY <1>1, <1>5
<1>8. /\ accepts' \in Seq(DOMAIN socks')
      /\ DOMAIN accepts' = DOMAIN accepts \cup {Len(accepts) + 1}
      /\ accepts'[Len(accepts) + 1] = n
      /\ Len(accepts) + 1 \notin DOMAIN accepts
      /\ \A k \in DOMAIN accepts : accepts'[k] = accepts[k] /\ accepts[k] \in DOMAIN socks
  <2>1. accepts \in Seq(DOMAIN socks') /\ n \in DOMAIN socks'
    BY <1>1, <1>6
  <2>2. accepts' \in Seq(DOMAIN socks') /\ Len(accepts') = Len(accepts) + 1
    BY <1>5, <2>1, AppendProperties
  <2>3. \A k \in 1 .. Len(accepts) : accepts'[k] = accepts[k]
    BY <1>5, <2>1, AppendProperties
  <2>4. accepts'[Len(accepts) + 1] = n
    BY <1>5, <2>1, AppendProperties
  <2>5. DOMAIN accepts = 1 .. Len(accepts) /\ Len(accepts) \in Nat
    BY <1>1, LenProperties
  <2>6. DOMAIN accepts' = 1 .. (Len(accepts) + 1)
    BY <2>2, LenProperties
  <2>7. \A k \in DOMAIN accepts : accepts[k] \in DOMAIN socks
    BY <1>1
  <2>8. QED BY <2>2, <2>3, <2>4, <2>5, <2>6, <2>7
<1>9. TypeOK'
  <2>1. net' \subseteq Packet
    BY <1>5 DEF IInv, TypeOK, ToClient, Packet
  <2>2. QED BY <1>1, <1>5, <1>6, <1>7, <1>8, <2>1 DEF IInv, TypeOK
<1>10. Buffered' /\ SocketsInOrder'
  BY <1>3, <1>4, <1>5, <1>6 DEF IInv, Buffered, SocketsInOrder
<1>11. OpenSocketsRouted'
  <2>1. \A b \in DOMAIN table : socks[table[b]].addr = b
    BY DEF IInv, OpenSocketsRouted
  <2>2. \A b \in DOMAIN table' : socks'[table'[b]].addr = b
    BY <1>1, <1>4, <1>6, <1>7, <2>1
  <2>3. \A j \in DOMAIN socks :
          ~socks[j].closed => /\ socks[j].addr \in DOMAIN table
                              /\ table[socks[j].addr] = j
    BY DEF IInv, OpenSocketsRouted
  <2>4. \A j \in DOMAIN socks' :
          ~socks'[j].closed => /\ socks'[j].addr \in DOMAIN table'
                               /\ table'[socks'[j].addr] = j
    BY <1>4, <1>6, <1>7, <2>3
  <2>5. QED BY <2>2, <2>4 DEF OpenSocketsRouted
<1>12. AcceptedOnce'
  <2>1. \A j, k \in DOMAIN accepts : j # k => accepts[j] # accepts[k]
    BY DEF IInv, AcceptedOnce
  <2>2. \A j, k \in DOMAIN accepts' : j # k => accepts'[j] # accepts'[k]
    BY <1>2, <1>8, <2>1
  <2>3. \A j \in DOMAIN socks :
          (socks[j].handler = "queued") <=> \E k \in DOMAIN accepts : accepts[k] = j
    BY DEF IInv, AcceptedOnce
  <2>4. \A j \in DOMAIN socks' :
          (socks'[j].handler = "queued") <=> \E k \in DOMAIN accepts' : accepts'[k] = j
    <3> TAKE j \in DOMAIN socks'
    <3>1. CASE j = n
      BY <1>4, <1>6, <1>8, <3>1
    <3>2. CASE j # n
      <4>1. j \in DOMAIN socks /\ socks'[j] = socks[j]
        BY <1>6, <3>2
      <4>2. (\E k \in DOMAIN accepts' : accepts'[k] = j) <=>
            (\E k \in DOMAIN accepts : accepts[k] = j)
        BY <1>8, <3>2
      <4>3. QED BY <2>3, <4>1, <4>2
    <3>3. QED BY <3>1, <3>2
  <2>5. QED BY <2>2, <2>4 DEF AcceptedOnce
<1>13. Answered'
  <2>1. \A b \in Addr : b # a /\ ToClient(b, "SYN+ACK", 0) \in net' =>
          ToClient(b, "SYN+ACK", 0) \in net
    BY <1>5 DEF ToClient
  <2>2. \E j \in DOMAIN socks' : socks'[j].addr = a
    BY <1>4, <1>6
  <2>3. ASSUME NEW b \in Addr, \E j \in DOMAIN socks : socks[j].addr = b
        PROVE  \E j \in DOMAIN socks' : socks'[j].addr = b
    BY <1>6, <2>3
  <2>4. QED BY <1>5, <2>1, <2>2, <2>3 DEF IInv, Answered
<1>14. QED BY <1>9, <1>10, <1>11, <1>12, <1>13 DEF IInv

LEMMA OnStrayInv ==
  ASSUME IInv, NEW p \in net, OnStray(p)
  PROVE  IInv'
<1>1. /\ net' = net \cup {ToClient(p.addr, "RST", 0)}
      /\ UNCHANGED <<client, socks, table, accepts, restarts>>
  BY DEF OnStray
<1>2. net' \subseteq Packet
  BY <1>1 DEF IInv, TypeOK, ToClient, Packet
<1>3. \A b \in Addr : ToClient(b, "SYN+ACK", 0) \in net' =>
        ToClient(b, "SYN+ACK", 0) \in net
  BY <1>1 DEF ToClient
<1>4. Answered'
  BY <1>1, <1>3 DEF IInv, Answered
<1>5. QED
  BY <1>1, <1>2, <1>4 DEF IInv, TypeOK, Buffered, SocketsInOrder,
     OpenSocketsRouted, AcceptedOnce

\* The accept loop takes the head of the queue, which is its socket's only place.
LEMMA AcceptInv ==
  ASSUME IInv, Accept
  PROVE  IInv'
<1> DEFINE i == Head(accepts)
           s == [socks[i] EXCEPT !.handler = "serving"]
<1>1. /\ accepts \in Seq(DOMAIN socks) /\ accepts # <<>> /\ socks \in Seq(Socket)
      /\ i \in DOMAIN socks /\ socks[i] \in Socket
  BY DEF Accept, IInv, TypeOK
<1>2. /\ i = accepts[1] /\ 1 \in DOMAIN accepts
      /\ Tail(accepts) \in Seq(DOMAIN socks)
      /\ DOMAIN Tail(accepts) = 1 .. (Len(accepts) - 1)
      /\ \A k \in 1 .. (Len(accepts) - 1) : Tail(accepts)[k] = accepts[k + 1]
      /\ DOMAIN accepts = 1 .. Len(accepts) /\ Len(accepts) \in Nat
  BY <1>1
<1>3. IsFiniteSet(socks[i].rx.ooo) /\ InOrder(socks[i].rx)
  BY <1>1 DEF IInv, Buffered, SocketsInOrder
<1>4. /\ UNCHANGED <<client, table, restarts, net>>
      /\ socks' = [socks EXCEPT ![i] = s]
      /\ accepts' = Tail(accepts)
  BY DEF Accept
<1>5. /\ s \in Socket /\ s.addr = socks[i].addr /\ s.rx = socks[i].rx
      /\ s.closed = socks[i].closed /\ s.handler = "serving"
  BY <1>1 DEF Socket
<1> HIDE DEF s, i
<1>6. /\ socks' \in Seq(Socket) /\ DOMAIN socks' = DOMAIN socks
      /\ socks'[i] = s
      /\ \A j \in DOMAIN socks : j # i => socks'[j] = socks[j]
      /\ \A j \in DOMAIN socks : socks'[j].addr = socks[j].addr
      /\ client' \in [Addr -> Client] /\ restarts' \in 0 .. MaxRestarts
      /\ net' \subseteq Packet
      /\ Buffered' /\ SocketsInOrder' /\ Answered'
  <2>1. net' = net \cup {} /\ {} \in SUBSET Packet
    BY <1>4
  <2>2. QED BY <1>1, <1>3, <1>4, <1>5, <2>1, SocketStep
<1>7. \A j \in DOMAIN socks : socks'[j].closed = socks[j].closed
  BY <1>5, <1>6
<1>8. TypeOK'
  BY <1>2, <1>4, <1>6 DEF IInv, TypeOK
<1>9. OpenSocketsRouted'
  BY <1>4, <1>6, <1>7 DEF IInv, TypeOK, OpenSocketsRouted
<1>10. AcceptedOnce'
  <2>1. \A j, k \in DOMAIN accepts : j # k => accepts[j] # accepts[k]
    BY DEF IInv, AcceptedOnce
  <2>2. \A j, k \in DOMAIN accepts' : j # k => accepts'[j] # accepts'[k]
    <3> TAKE j, k \in DOMAIN accepts'
    <3>1. /\ j + 1 \in DOMAIN accepts /\ k + 1 \in DOMAIN accepts
          /\ accepts'[j] = accepts[j + 1] /\ accepts'[k] = accepts[k + 1]
          /\ j # k => j + 1 # k + 1
      BY <1>2, <1>4
    <3>2. QED BY <2>1, <3>1
  <2>3. \A j \in DOMAIN socks :
          (socks[j].handler = "queued") <=> \E k \in DOMAIN accepts : accepts[k] = j
    BY DEF IInv, AcceptedOnce
  <2>4. ASSUME NEW j \in DOMAIN socks'
        PROVE  (socks'[j].handler = "queued") <=>
               \E k \in DOMAIN accepts' : accepts'[k] = j
    <3>1. CASE j = i
      <4>1. \A k \in DOMAIN accepts' : accepts'[k] # i
        <5> TAKE k \in DOMAIN accepts'
        <5>1. k + 1 \in DOMAIN accepts /\ k + 1 # 1 /\ accepts'[k] = accepts[k + 1]
          BY <1>2, <1>4
        <5>2. QED BY <1>2, <2>1, <5>1
      <4>2. QED BY <1>5, <1>6, <3>1, <4>1
    <3>2. CASE j # i
      <4>1. ASSUME NEW k \in DOMAIN accepts, accepts[k] = j
            PROVE  \E l \in DOMAIN accepts' : accepts'[l] = j
        <5>1. k # 1
          BY <1>2, <3>2, <4>1
        <5>2. k - 1 \in DOMAIN accepts' /\ accepts'[k - 1] = accepts[k]
          BY <1>2, <1>4, <5>1
        <5>3. QED BY <4>1, <5>2
      <4>2. ASSUME NEW k \in DOMAIN accepts', accepts'[k] = j
            PROVE  \E l \in DOMAIN accepts : accepts[l] = j
        <5>1. k + 1 \in DOMAIN accepts /\ accepts'[k] = accepts[k + 1]
          BY <1>2, <1>4
        <5>2. QED BY <4>2, <5>1
      <4>3. socks'[j] = socks[j] /\ j \in DOMAIN socks
        BY <1>6, <3>2
      <4>4. QED BY <2>3, <4>1, <4>2, <4>3
    <3>3. QED BY <3>1, <3>2
  <2>5. QED BY <2>2, <2>4 DEF AcceptedOnce
<1>11. QED BY <1>6, <1>8, <1>9, <1>10 DEF IInv

\* Of a server that died no socket is open, and none waits.
LEMMA RestartInv ==
  ASSUME IInv, Restart
  PROVE  IInv'
<1>1. /\ socks \in Seq(Socket) /\ restarts \in 0 .. MaxRestarts
      /\ \A j \in DOMAIN socks : socks[j] \in Socket
  BY DEF IInv, TypeOK
<1>2. /\ socks' = [i \in DOMAIN socks |->
                     [socks[i] EXCEPT !.closed = TRUE, !.handler = "ended"]]
      /\ table' = <<>> /\ accepts' = <<>>
      /\ restarts < MaxRestarts /\ restarts' = restarts + 1
      /\ UNCHANGED <<client, net>>
  BY DEF Restart
<1>3. DOMAIN table' = {} /\ DOMAIN accepts' = {} /\ accepts' \in Seq(DOMAIN socks')
  <2>1. <<>> \in Seq(DOMAIN socks') /\ DOMAIN <<>> = {}
    OBVIOUS
  <2>2. table' = <<>> /\ accepts' = <<>>
    BY <1>2
  <2>3. QED BY <2>1, <2>2, Zenon
<1>4. DOMAIN socks' = DOMAIN socks
  BY <1>2
<1>5. \A j \in DOMAIN socks :
        /\ socks'[j] \in Socket /\ socks'[j].addr = socks[j].addr
        /\ socks'[j].rx = socks[j].rx /\ socks'[j].closed = TRUE
        /\ socks'[j].handler = "ended"
  BY <1>1, <1>2 DEF Socket
<1>6. socks' \in Seq(Socket)
  <2>1. DOMAIN socks = 1 .. Len(socks) /\ Len(socks) \in Nat
    BY <1>1, LenProperties
  <2>2. socks' \in [1 .. Len(socks) -> Socket]
    BY <1>2, <1>5, <2>1
  <2>3. QED BY <2>1, <2>2
<1>7. restarts' \in 0 .. MaxRestarts
  <2>1. restarts < MaxRestarts /\ restarts' = restarts + 1
    BY DEF Restart
  <2>2. QED BY <1>1, <2>1, ConstantsAssumption
<1>8. TypeOK'
  BY <1>2, <1>3, <1>6, <1>7 DEF IInv, TypeOK
<1>9. Buffered' /\ SocketsInOrder' /\ Answered'
  <2>1. client' = client /\ net' = net
    BY <1>2
  <2>2. Buffered'
    BY <1>4, <1>5, <2>1 DEF IInv, Buffered
  <2>3. SocketsInOrder'
    BY <1>4, <1>5 DEF IInv, SocketsInOrder
  <2>4. Answered'
    BY <1>4, <1>5, <2>1 DEF IInv, Answered
  <2>5. QED BY <2>2, <2>3, <2>4
<1>10. OpenSocketsRouted' /\ AcceptedOnce'
  BY <1>3, <1>4, <1>5 DEF OpenSocketsRouted, AcceptedOnce
<1>11. QED BY <1>8, <1>9, <1>10 DEF IInv

LEMMA StutterInv ==
  ASSUME IInv, UNCHANGED vars
  PROVE  IInv'
BY DEF vars, IInv, TypeOK, Buffered, SocketsInOrder, Answered, OpenSocketsRouted,
       AcceptedOnce

-----------------------------------------------------------------------------
(* Theorems.                                                               *)

\* Every step of clients, dispatcher, accept loop and handlers keeps IInv.
THEOREM Inductive == Spec => []IInv
<1>1. Init => IInv
  BY InitInv
<1>2. IInv /\ [Next]_vars => IInv'
  <2> SUFFICES ASSUME IInv, [Next]_vars PROVE IInv'
    OBVIOUS
  <2>1. ASSUME NEW a \in Addr, ClientStep(a) \/ Dispatch(a)
        PROVE  IInv'
    BY <2>1, ClientInv, OnSynInv, OnAckInv, OnFinInv, OnDataInv DEF Dispatch
  <2>2. CASE \E p \in net : OnStray(p)
    BY <2>2, OnStrayInv
  <2>3. CASE Accept
    BY <2>3, AcceptInv
  <2>4. CASE \E i \in DOMAIN socks : Reply(i) \/ End(i)
    BY <2>4, HandlerInv
  <2>5. CASE Restart
    BY <2>5, RestartInv
  <2>6. CASE UNCHANGED vars
    BY <2>6, StutterInv
  <2>7. QED BY <2>1, <2>2, <2>3, <2>4, <2>5, <2>6 DEF Next
<1>3. QED BY <1>1, <1>2, PTL DEF Spec

\* Clients, sockets, table, queue and network keep their types.
THEOREM TypeCorrect == Spec => []TypeOK
<1>1. IInv => TypeOK
  BY DEF IInv
<1>2. QED BY <1>1, Inductive, PTL

\* Every open socket is the one its address leads to.
THEOREM RoutingCorrect == Spec => []OpenSocketsRouted
<1>1. IInv => OpenSocketsRouted
  BY DEF IInv
<1>2. QED BY <1>1, Inductive, PTL

\* No connection is left out of the accept queue or handled twice.
THEOREM AcceptCorrect == Spec => []AcceptedOnce
<1>1. IInv => AcceptedOnce
  BY DEF IInv
<1>2. QED BY <1>1, Inductive, PTL

\* A connected client has a socket of its own, which receives in order.
THEOREM ConnectCorrect == Spec => []ConnectedToServer
<1>1. IInv => ConnectedToServer
  BY DEF IInv, Answered, SocketsInOrder, InOrder, ConnectedToServer
<1>2. QED BY <1>1, Inductive, PTL

-----------------------------------------------------------------------------
(* What a client reads.                                                    *)

\* Before its first SYN+ACK a client waits for chunk 0, which nobody sends: what
\* comes is buffered.  From then on it receives like a server socket, until a
\* second SYN+ACK winds it back.
ClientsInOrder ==
  \A a \in Addr :
    /\ client[a].synacks = 0 => client[a].rx.recv = 0 /\ client[a].rx.got = <<>>
    /\ client[a].synacks = 1 => InOrder(client[a].rx)

\* The step of one client.
LEMMA ClientReads ==
  ASSUME IInv, ClientsInOrder, NEW a \in Addr, ClientStep(a)
  PROVE  ClientsInOrder'
<1> DEFINE c == client[a]
           Holds(d) == /\ d.synacks = 0 => d.rx.recv = 0 /\ d.rx.got = <<>>
                       /\ d.synacks = 1 => InOrder(d.rx)
<1>1. /\ client \in [Addr -> Client] /\ c \in Client /\ c.rx \in Receiver
      /\ IsFiniteSet(c.rx.ooo) /\ c.synacks \in Nat
  BY DEF IInv, TypeOK, Buffered, Client
<1>2. Holds(c)
  BY DEF ClientsInOrder
<1>3. \A b \in Addr : b # a => client'[b] = client[b]
  BY <1>1 DEF ClientStep, Connect, ConnectTimeout, OnSynAck, ClientOnData,
              ClientOnFin, ClientOnRst, ClientSend, ClientClose
<1>4. Holds(client'[a])
  <2>1. CASE \/ Connect(a) \/ ConnectTimeout(a) \/ ClientOnFin(a) \/ ClientOnRst(a)
             \/ ClientSend(a) \/ ClientClose(a)
    <3>1. client'[a].synacks = c.synacks /\ client'[a].rx = c.rx
      BY <1>1, <2>1 DEF Connect, ConnectTimeout, ClientOnFin, ClientOnRst,
                        ClientSend, ClientClose, Client
    <3>2. QED BY <1>2, <3>1
  <2>2. CASE OnSynAck(a)
    <3>1. client'[a].synacks = c.synacks + 1
      BY <1>1, <2>2 DEF OnSynAck, Client
    <3>2. client'[a].rx.recv = 1 /\ client'[a].rx.got = c.rx.got
      BY <1>1, <2>2 DEF OnSynAck, Client, Receiver
    <3>3. c.synacks = 0 => InOrder(client'[a].rx)
      BY <1>2, <3>2 DEF InOrder
    <3>4. QED BY <1>1, <3>1, <3>3
  <2>3. ASSUME NEW q \in 1 .. MaxData, ClientOnData(a, q)
        PROVE  Holds(client'[a])
    <3>1. q \in Nat /\ q > 0
      BY ConstantsAssumption
    <3>2. client'[a].synacks = c.synacks /\ client'[a].rx = Delivered(c.rx, q)
      BY <1>1, <2>3 DEF ClientOnData, Client
    <3>3. c.synacks = 1 => InOrder(Delivered(c.rx, q))
      BY <1>1, <1>2, <3>1, DeliveredFacts
    <3>4. c.rx.recv = 0 => /\ Delivered(c.rx, q).recv = 0
                           /\ Delivered(c.rx, q).got = c.rx.got
      BY <1>1, <3>1 DEF Delivered, Receiver
    <3>5. QED BY <1>2, <3>2, <3>3, <3>4
  <2>4. QED BY <2>1, <2>2, <2>3 DEF ClientStep
<1>5. QED BY <1>2, <1>3, <1>4 DEF ClientsInOrder

\* No other step touches a client.
LEMMA ClientsUntouched ==
  ASSUME Next, ~ \E a \in Addr : ClientStep(a)
  PROVE  UNCHANGED client
BY DEF Next, Dispatch, OnSyn, OnAck, OnFin, OnData, OnStray, Accept, Reply, End,
       Restart

\* Replies reach a client's application in order and once each, as long as one
\* SYN+ACK has come.
THEOREM ReceiveCorrect == Spec => []ClientInOrder
<1>1. Init => ClientsInOrder
  BY DEF Init, ClientsInOrder, Fresh
<1>2. IInv /\ ClientsInOrder /\ [Next]_vars => ClientsInOrder'
  <2> SUFFICES ASSUME IInv, ClientsInOrder, [Next]_vars PROVE ClientsInOrder'
    OBVIOUS
  <2>1. CASE \E a \in Addr : ClientStep(a)
    BY <2>1, ClientReads
  <2>2. CASE UNCHANGED client
    BY <2>2 DEF ClientsInOrder
  <2>3. UNCHANGED vars => UNCHANGED client
    BY DEF vars
  <2>4. QED BY <2>1, <2>2, <2>3, ClientsUntouched
<1>3. IInv /\ ClientsInOrder => ClientInOrder
  <2> SUFFICES ASSUME IInv, ClientsInOrder, NEW a \in Addr, client[a].synacks <= 1,
                      NEW k \in DOMAIN client[a].rx.got
               PROVE  client[a].rx.got[k] = k
    BY DEF ClientInOrder
  <2>1. client[a].synacks \in Nat
    BY DEF IInv, TypeOK, Client
  <2>2. client[a].synacks # 0
    BY DEF ClientsInOrder
  <2>3. QED BY <2>1, <2>2 DEF ClientsInOrder, InOrder
<1>4. QED BY <1>1, <1>2, <1>3, Inductive, PTL DEF Spec
=============================================================================
