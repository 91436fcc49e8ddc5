----------------------------- MODULE RudpHandshake -----------------------------
(***************************************************************************)
(* How RUDP connections begin and end (RUDP/rudp_socket.py): rudp_connect  *)
(* on the clients' side, RudpServer's table of connections and its accept  *)
(* queue on the server's, and the exam server's accept loop.  A datagram   *)
(* may be lost, delayed or duplicated, and the server may be restarted     *)
(* (docker-compose.yml: restart unless-stopped), which loses the table.    *)
(*                                                                         *)
(* Each client address (a UDP port of its own) connects once.  On an open  *)
(* connection both sides send one-chunk messages: the send window, ACKs    *)
(* and retransmissions are the business of RudpSocket, here a packet in    *)
(* the network can simply arrive any number of times.                      *)
(***************************************************************************)
EXTENDS Integers, Sequences, FiniteSets

CONSTANTS
  Addr,         \* client addresses
  MaxData,      \* messages a client sends: a bound for TLC
  MaxSocks,     \* server sockets ever created: a bound for TLC
  MaxSynAcks,   \* SYN+ACKs a client receives: a bound for TLC
  MaxRestarts   \* restarts of the server: a bound for TLC

ASSUME ConstantsAssumption ==
  /\ MaxData \in Nat /\ MaxSocks \in Nat
  /\ MaxSynAcks \in Nat /\ MaxRestarts \in Nat

VARIABLES
  client,    \* per address, rudp_connect and the client's RudpSocket
  socks,     \* every RudpSocket the server has created, in order
  table,     \* RudpServer._connections: address -> index in socks
  accepts,   \* RudpServer._accept_queue
  restarts,  \* how often the server was restarted
  net        \* every packet ever sent
vars == <<client, socks, table, accepts, restarts, net>>

\* Only the sequence numbers of data are read by anyone; a SYN's is 0, and
\* those of ACK, FIN and RST are written as 0.

\* The receiver of a side: _recv_seq, _recv_ooo and what was delivered.
Receiver == [recv : Nat, ooo : SUBSET Nat, got : Seq(Nat)]
Client == [phase : {"new", "connecting", "connected", "failed"}, seq : Nat,
           synacks : 0..MaxSynAcks, rx : Receiver, closed : BOOLEAN]
Socket == [addr : Addr, seq : Nat, rx : Receiver, closed : BOOLEAN,
           handler : {"queued", "serving", "ended"}]
Packet == [to : {"client", "server"}, addr : Addr, seq : Nat,
           kind : {"SYN", "SYN+ACK", "ACK", "DATA", "FIN", "RST"}]

ToServer(a, k, q) == [to |-> "server", addr |-> a, kind |-> k, seq |-> q]
ToClient(a, k, q) == [to |-> "client", addr |-> a, kind |-> k, seq |-> q]

Fresh(n) == [recv |-> n, ooo |-> {}, got |-> <<>>]

Init ==
  /\ client = [a \in Addr |-> [phase |-> "new", seq |-> 0, synacks |-> 0,
                               rx |-> Fresh(0), closed |-> FALSE]]
  /\ socks = <<>>
  /\ table = <<>>
  /\ accepts = <<>>
  /\ restarts = 0
  /\ net = {}

\* Mutant of Delivered: a chunk from beyond a gap is handed on at once.
DeliveredUnordered(rx, q) ==
  IF q >= rx.recv THEN [rx EXCEPT !.recv = q + 1, !.got = Append(@, q)] ELSE rx

\* Mutant of Delivered: a duplicate of the latest chunk is delivered again.
DeliveredAgain(rx, q) ==
  CASE q = rx.recv -> [rx EXCEPT !.recv = @ + 1, !.got = Append(@, q)]
    [] q > rx.recv -> [rx EXCEPT !.ooo = @ \cup {q}]
    [] q < rx.recv -> IF Len(rx.got) < MaxData + 1 THEN [rx EXCEPT !.got = Append(@, q)]
                      ELSE rx

\* _deliver_data: where the run of buffered chunks after recv ends, and the
\* receiver after chunk q.
RunEnd(rx) ==
  CHOOSE n \in (rx.recv + 1)..(rx.recv + 1 + Cardinality(rx.ooo)) :
    n \notin rx.ooo /\ \A m \in (rx.recv + 1)..(n - 1) : m \in rx.ooo

Delivered(rx, q) ==
  CASE q = rx.recv ->
         [recv |-> RunEnd(rx), ooo |-> rx.ooo \ ((q + 1)..RunEnd(rx)),
          got |-> rx.got \o [i \in 1..(RunEnd(rx) - q) |-> q + i - 1]]
    [] q > rx.recv -> [rx EXCEPT !.ooo = @ \cup {q}]
    [] q < rx.recv -> rx

-----------------------------------------------------------------------------
(* The client.                                                             *)

\* rudp_connect: the SYN is sent once and never again.
Connect(a) ==
  /\ client[a].phase = "new"
  /\ client' = [client EXCEPT ![a].phase = "connecting", ![a].seq = 1]
  /\ net' = net \cup {ToServer(a, "SYN", 0)}
  /\ UNCHANGED <<socks, table, accepts, restarts>>

\* CONNECT_TIMEOUT: the transport is closed, nothing is told to the server.
ConnectTimeout(a) ==
  /\ client[a].phase = "connecting"
  /\ client' = [client EXCEPT ![a].phase = "failed"]
  /\ UNCHANGED <<socks, table, accepts, restarts, net>>

\* Any SYN+ACK, whenever it comes, sets _recv_seq and is ACKed.
OnSynAck(a) ==
  /\ client[a].phase \in {"connecting", "connected"}
  /\ ToClient(a, "SYN+ACK", 0) \in net
  /\ client[a].synacks < MaxSynAcks
  /\ client' = [client EXCEPT ![a].phase = "connected", ![a].rx.recv = 1,
                              ![a].synacks = @ + 1]
  /\ net' = net \cup {ToServer(a, "ACK", 0)}
  /\ UNCHANGED <<socks, table, accepts, restarts>>

\* Data, FIN and RST reach the socket from the first SYN on, connected or not.
Open(a) == client[a].phase \in {"connecting", "connected"}

ClientOnData(a, q) ==
  /\ Open(a) /\ ToClient(a, "DATA", q) \in net
  /\ client' = [client EXCEPT ![a].rx = Delivered(@, q)]
  /\ net' = net \cup {ToServer(a, "ACK", 0)}
  /\ UNCHANGED <<socks, table, accepts, restarts>>

ClientOnFin(a) ==
  /\ Open(a) /\ ToClient(a, "FIN", 0) \in net
  /\ client' = [client EXCEPT ![a].closed = TRUE]
  /\ net' = net \cup {ToServer(a, "FIN", 0)}
  /\ UNCHANGED <<socks, table, accepts, restarts>>

ClientOnRst(a) ==
  /\ Open(a) /\ ToClient(a, "RST", 0) \in net
  /\ client' = [client EXCEPT ![a].closed = TRUE]
  /\ UNCHANGED <<socks, table, accepts, restarts, net>>

ClientSend(a) ==
  /\ client[a].phase = "connected" /\ ~client[a].closed
  /\ client[a].seq <= MaxData
  /\ net' = net \cup {ToServer(a, "DATA", client[a].seq)}
  /\ client' = [client EXCEPT ![a].seq = @ + 1]
  /\ UNCHANGED <<socks, table, accepts, restarts>>

ClientClose(a) ==
  /\ client[a].phase = "connected" /\ ~client[a].closed
  /\ client' = [client EXCEPT ![a].closed = TRUE]
  /\ net' = net \cup {ToServer(a, "FIN", 0)}
  /\ UNCHANGED <<socks, table, accepts, restarts>>

-----------------------------------------------------------------------------
(* The server's _dispatch.                                                 *)

\* A SYN from an address without a connection opens one, which the accept
\* loop will find in its queue: nothing waits for the handshake's last ACK.
\* Any other SYN is ignored.
OnSyn(a) ==
  /\ ToServer(a, "SYN", 0) \in net /\ a \notin DOMAIN table
  /\ Len(socks) < MaxSocks
  /\ LET i == Len(socks) + 1
     IN  /\ socks' = Append(socks, [addr |-> a, seq |-> 1, rx |-> Fresh(1),
                                    closed |-> FALSE, handler |-> "queued"])
         /\ table' = [b \in DOMAIN table \cup {a} |-> IF b = a THEN i ELSE table[b]]
         /\ accepts' = Append(accepts, i)
  /\ net' = net \cup {ToClient(a, "SYN+ACK", 0)}
  /\ UNCHANGED <<client, restarts>>

\* Anything else from such an address is answered by RST.
OnStray(p) ==
  /\ p \in net /\ p.to = "server" /\ p.kind # "SYN"
  /\ p.addr \notin DOMAIN table
  /\ net' = net \cup {ToClient(p.addr, "RST", 0)}
  /\ UNCHANGED <<client, socks, table, accepts, restarts>>

\* Mutant of Popped: the entry goes whether the socket is closed or not.
PoppedAlways(a, isClosed) == [b \in DOMAIN table \ {a} |-> table[b]]

\* The entry of a socket that is closed after one of its packets goes.
Popped(a, isClosed) ==
  IF isClosed THEN [b \in DOMAIN table \ {a} |-> table[b]] ELSE table

OnData(a, q) ==
  /\ ToServer(a, "DATA", q) \in net /\ a \in DOMAIN table
  /\ socks' = [socks EXCEPT ![table[a]].rx = Delivered(@, q)]
  /\ table' = Popped(a, socks[table[a]].closed)
  /\ UNCHANGED <<client, accepts, restarts, net>>

OnAck(a) ==
  /\ ToServer(a, "ACK", 0) \in net /\ a \in DOMAIN table
  /\ table' = Popped(a, socks[table[a]].closed)
  /\ UNCHANGED <<client, socks, accepts, restarts, net>>

OnFin(a) ==
  /\ ToServer(a, "FIN", 0) \in net /\ a \in DOMAIN table
  /\ socks' = [socks EXCEPT ![table[a]].closed = TRUE]
  /\ table' = Popped(a, TRUE)
  /\ net' = net \cup {ToClient(a, "FIN", 0)}
  /\ UNCHANGED <<client, accepts, restarts>>

-----------------------------------------------------------------------------
(* The exam server: the accept loop, and its handlers.                     *)

\* Mutant of Accept: the queue is only looked at.
AcceptPeek ==
  /\ accepts # <<>>
  /\ socks' = [socks EXCEPT ![Head(accepts)].handler = "serving"]
  /\ UNCHANGED <<client, table, accepts, restarts, net>>

Accept ==
  /\ accepts # <<>>
  /\ socks' = [socks EXCEPT ![Head(accepts)].handler = "serving"]
  /\ accepts' = Tail(accepts)
  /\ UNCHANGED <<client, table, restarts, net>>

\* A handler answers the messages it received, one by one.
Reply(i) ==
  /\ socks[i].handler = "serving" /\ ~socks[i].closed
  /\ socks[i].seq <= Len(socks[i].rx.got)
  /\ net' = net \cup {ToClient(socks[i].addr, "DATA", socks[i].seq)}
  /\ socks' = [socks EXCEPT ![i].seq = @ + 1]
  /\ UNCHANGED <<client, table, accepts, restarts>>

\* Mutant of End: the handler leaves its socket open.
EndUnclosed(i) ==
  /\ socks[i].handler = "serving"
  /\ socks' = [socks EXCEPT ![i].handler = "ended"]
  /\ UNCHANGED <<client, table, accepts, restarts, net>>

\* RECV_TIMEOUT, the end of the stream or an error: the handler closes the
\* socket, whose entry stays in the table.
End(i) ==
  /\ socks[i].handler = "serving"
  /\ socks' = [socks EXCEPT ![i].handler = "ended", ![i].closed = TRUE]
  /\ net' = IF socks[i].closed THEN net
            ELSE net \cup {ToClient(socks[i].addr, "FIN", 0)}
  /\ UNCHANGED <<client, table, accepts, restarts>>

\* Mutant of Restart: the table survives its sockets.
RestartKeepsTable ==
  /\ restarts < MaxRestarts
  /\ restarts' = restarts + 1
  /\ socks' = <<>>
  /\ accepts' = <<>>
  /\ UNCHANGED <<client, table, net>>

\* The process ends and another takes its place: no packet says so.
Restart ==
  /\ restarts < MaxRestarts
  /\ restarts' = restarts + 1
  /\ socks' = [i \in DOMAIN socks |->
                 [socks[i] EXCEPT !.closed = TRUE, !.handler = "ended"]]
  /\ table' = <<>>
  /\ accepts' = <<>>
  /\ UNCHANGED <<client, net>>

-----------------------------------------------------------------------------
ClientStep(a) ==
  \/ Connect(a) \/ ConnectTimeout(a) \/ OnSynAck(a)
  \/ \E q \in 1..MaxData : ClientOnData(a, q)
  \/ ClientOnFin(a) \/ ClientOnRst(a) \/ ClientSend(a) \/ ClientClose(a)

Dispatch(a) ==
  \/ OnSyn(a) \/ OnAck(a) \/ OnFin(a)
  \/ \E q \in 1..MaxData : OnData(a, q)

Next ==
  \/ \E a \in Addr : ClientStep(a) \/ Dispatch(a)
  \/ \E p \in net : OnStray(p)
  \/ Accept
  \/ \E i \in DOMAIN socks : Reply(i) \/ End(i)
  \/ Restart

Spec == Init /\ [][Next]_vars

\* The accept loop runs, and a handler whose client is silent times out.
Fairness ==
  /\ WF_vars(Accept)
  /\ \A i \in 1..MaxSocks : WF_vars(i \in DOMAIN socks /\ End(i))
FairSpec == Spec /\ Fairness

-----------------------------------------------------------------------------
TypeOK ==
  /\ client \in [Addr -> Client]
  /\ socks \in Seq(Socket)
  /\ DOMAIN table \subseteq Addr
  /\ \A a \in DOMAIN table : table[a] \in DOMAIN socks
  /\ accepts \in Seq(DOMAIN socks)
  /\ restarts \in 0..MaxRestarts
  /\ net \subseteq Packet

\* Every socket that is open is the one its address leads to, and so the only
\* one of its address (lines 482-516): no packet for it gets an RST or
\* another socket, and no SYN opens a second one.
OpenSocketsRouted ==
  /\ \A a \in DOMAIN table : socks[table[a]].addr = a
  /\ \A i \in DOMAIN socks :
       ~socks[i].closed => /\ socks[i].addr \in DOMAIN table
                           /\ table[socks[i].addr] = i

\* No connection is left out or handled twice (lines 478-479 and 506): a socket
\* waits for its handler exactly if it stands in the accept queue, once.
AcceptedOnce ==
  /\ \A i, j \in DOMAIN accepts : i # j => accepts[i] # accepts[j]
  /\ \A i \in DOMAIN socks :
       (socks[i].handler = "queued") <=> \E j \in DOMAIN accepts : accepts[j] = i

\* A client that believes it is connected was answered by a server socket of
\* its own, whose messages are received from the first on, once each and in
\* order.
ConnectedToServer ==
  /\ \A a \in Addr : client[a].phase = "connected" =>
       \E i \in DOMAIN socks : socks[i].addr = a
  /\ \A i \in DOMAIN socks :
       \A k \in DOMAIN socks[i].rx.got : socks[i].rx.got[k] = k

\* A client that heard one SYN+ACK reads the replies in order and once each,
\* however late, often or disordered they come (_deliver_data, lines 411-421,
\* after _recv_seq was set by the SYN+ACK).
ClientInOrder ==
  \A a \in Addr : client[a].synacks <= 1 =>
    \A k \in DOMAIN client[a].rx.got : client[a].rx.got[k] = k

\* A connection nobody uses does not stay open (RECV_TIMEOUT, lines 352-363):
\* what the SYN of a client that gave up has opened is closed in the end.
HalfOpenEnds ==
  \A a \in Addr :
    (client[a].phase = "failed") ~>
      (\A i \in DOMAIN socks : socks[i].addr = a => socks[i].closed)

\* rudp_socket.py:421 ("else: duplicate -- discard"): no chunk is delivered
\* to the client's application twice.
ClientExactlyOnce ==
  \A a \in Addr : \A i, j \in DOMAIN client[a].rx.got :
    i # j => client[a].rx.got[i] # client[a].rx.got[j]
=============================================================================
