----------------------------- MODULE MCResolver -----------------------------
(* Small instances of the resolver. *)
EXTENDS Resolver, DnsPacket

CONSTANTS t1, t2
TwoThreads == {t1, t2}

Q(name, type) == [name |-> name, type |-> type, rd |-> TRUE]

\* A name with addresses, one with records of other types only, one that does
\* not exist, asked for its address and its PTR record, and a query without RD.
Queries ==
  {Q(<<"server", "exam", "lan">>, "A"), Q(<<"exam", "lan">>, "ANY"),
   Q(<<"nosuch", "exam", "lan">>, "A"), Q(<<"nosuch", "exam", "lan">>, "PTR"),
   [Q(<<"server", "exam", "lan">>, "A") EXCEPT !.rd = FALSE]}

-----------------------------------------------------------------------------
(* The same as characters: labels that look like a length or the end of a name, *)
(* the last ASCII character, and the longest label that is no pointer.          *)

LabelText ==
  [server |-> <<0, 127>>, exam |-> <<1>>, lan |-> <<108, 0>>,
   nosuch |-> [i \in 1 .. 191 |-> 63]]
NameText == [name \in {q.name : q \in Queries} |->
               Joined([i \in DOMAIN name |-> LabelText[name[i]]])]
NameSurvives == [name \in DOMAIN NameText |->
                   NameRoundTrips(NameText[name]) /\ BadNamesRefused(NameText[name])]

TypeNumber == [A |-> 1, PTR |-> 12, ANY |-> 255]
RcodeNumber == [NOERROR |-> 0, SERVFAIL |-> 2, NXDOMAIN |-> 3]

\* Answers hold addresses only; their last bytes, and a TTL that fills its field.
Addresses == <<"10.99.0.20", "10.99.0.21", "10.99.0.22">>
RecordBytes(name, r) ==
  [name |-> NameText[name], rtype |-> TypeNumber[r.type], ttl |-> 2147483647,
   rdata |-> <<10, 99, 0, CHOOSE i \in DOMAIN Addresses : Addresses[i] = r.data>>]

\* What passes between a client and the resolver is decoded as it was encoded:
\* the name each thread was asked, as it is or behind a pointer, and the whole
\* answer it gives, cut to a datagram where it is longer.  What is damaged in its
\* name is not taken for another name.
PacketRoundTrips ==
  \A t \in Thread :
    /\ th[t].pc \in {"mode", "relay"} => NameSurvives[th[t].q.name]
    /\ th[t].pc = "done" /\ th[t].fn # "trace" =>
         LET name == th[t].q.name
             rrs  == SetToSeq({RecordBytes(name, r) : r \in th[t].rrs})
         IN ResponseRoundTrips(4660,
              <<[qname |-> NameText[name], qtype |-> TypeNumber[th[t].q.type]]>>,
              <<rrs, <<>>, rrs>>,
              [qr |-> 0, opcode |-> 0, aa |-> 0, tc |-> 0,
               rd |-> IF th[t].q.rd THEN 1 ELSE 0, ra |-> 1,
               rcode |-> RcodeNumber[th[t].rcode]])
=============================================================================
