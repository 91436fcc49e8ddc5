----------------------------- MODULE DnsPacket -----------------------------
(***************************************************************************)
(* The DNS message codec of all the name servers (dns_packet.py) and the   *)
(* UDP limit of their common base (dns_server.py), over bytes.  A name is  *)
(* a Python string, the sequence of its characters' codes.                 *)
(***************************************************************************)
EXTENDS Naturals, Sequences, SequencesExt

CONSTANT UdpMax   \* 512

U16(n) == <<(n \div 256) % 256, n % 256>>
U32(n) == U16(n \div 65536) \o U16(n % 65536)
Get16(buf, o) == buf[o + 1] * 256 + buf[o + 2]
Get32(buf, o) == Get16(buf, o) * 65536 + Get16(buf, o + 2)

-----------------------------------------------------------------------------
(* Names *)

Dot == 46
Ascii(s) == \A i \in DOMAIN s : s[i] < 128

\* split('.') and '.'.join
Labels(name) ==
  LET from[i \in 1 .. Len(name) + 1] ==
        LET dots == {j \in i .. Len(name) : name[j] = Dot} IN
        IF dots = {} THEN <<SubSeq(name, i, Len(name))>>
        ELSE <<SubSeq(name, i, Min(dots) - 1)>> \o from[Min(dots) + 1]
  IN from[1]
Joined(labels) ==
  IF labels = <<>> THEN <<>>
  ELSE Tail(FlattenSeq([i \in DOMAIN labels |-> <<Dot>> \o labels[i]]))

\* A trailing dot is dropped.  A label raises that is not ASCII, or whose length
\* is no byte.
EncodeName(name) ==
  LET text   == IF name # <<>> /\ Last(name) = Dot THEN Front(name) ELSE name
      labels == IF text = <<>> THEN <<>> ELSE Labels(text)
  IN [ok |-> \A i \in DOMAIN labels : Ascii(labels[i]) /\ Len(labels[i]) < 256,
      bytes |-> FlattenSeq([i \in DOMAIN labels |-> <<Len(labels[i])>> \o labels[i]])
                  \o <<0>>]

Bad == [ok |-> FALSE, name |-> <<>>, end |-> 0]

\* A plausible slip: the end is sought behind what the pointer points to.
DecodeNameFollow(buf, offset) ==
  LET d[o \in Nat, visited \in SUBSET Nat] ==
        IF o >= Len(buf) THEN Bad
        ELSE LET n == buf[o + 1] IN
             IF n = 0 THEN [ok |-> TRUE, name |-> <<>>, end |-> o + 1]
             ELSE IF n >= 192 THEN d[(n % 64) * 256 + buf[o + 2], visited]
             ELSE LET r == d[o + 1 + n, visited] IN
                  [r EXCEPT !.name = <<SubSeq(buf, o + 2, o + 1 + n)>> \o @]
  IN [d[offset, {}] EXCEPT !.name = Joined(@)]

\* The labels from an offset on, following pointers, and the offset behind the
\* name, which is behind the first pointer where there is one.  A pointer may
\* be followed once; a label that is cut short or not ASCII raises.
DecodeName(buf, offset) ==
  LET d[o \in Nat, visited \in SUBSET Nat] ==
        IF o >= Len(buf) THEN Bad
        ELSE LET n == buf[o + 1] IN
             IF n = 0 THEN [ok |-> TRUE, name |-> <<>>, end |-> o + 1]
             ELSE IF n >= 192
               THEN IF o + 1 >= Len(buf) THEN Bad
                    ELSE LET ptr == (n % 64) * 256 + buf[o + 2] IN
                         IF ptr \in visited THEN Bad
                         ELSE [d[ptr, visited \cup {ptr}] EXCEPT !.end = o + 2]
             ELSE IF o + 1 + n > Len(buf) \/ ~Ascii(SubSeq(buf, o + 2, o + 1 + n))
               THEN Bad
             ELSE LET r == d[o + 1 + n, visited] IN
                  [r EXCEPT !.name = <<SubSeq(buf, o + 2, o + 1 + n)>> \o @]
  IN [d[offset, {}] EXCEPT !.name = Joined(@)]

-----------------------------------------------------------------------------
(* The header *)

MakeFlags(f) ==
  f.qr * 2^15 + (f.opcode % 16) * 2^11 + f.aa * 2^10 + f.tc * 2^9 + f.rd * 2^8
    + f.ra * 2^7 + (f.rcode % 16)

FlagsOf(w) ==
  [qr |-> (w \div 2^15) % 2, opcode |-> (w \div 2^11) % 16,
   aa |-> (w \div 2^10) % 2, tc |-> (w \div 2^9) % 2, rd |-> (w \div 2^8) % 2,
   ra |-> (w \div 2^7) % 2, rcode |-> w % 16]

-----------------------------------------------------------------------------
(* Questions, records, messages, of names that can be encoded. *)

QuestionBytes(q) == EncodeName(q.qname).bytes \o U16(q.qtype) \o U16(1)

RRBytes(rr) ==
  EncodeName(rr.name).bytes \o U16(rr.rtype) \o U16(1) \o U32(rr.ttl)
    \o U16(Len(rr.rdata)) \o rr.rdata

ParseQuestion(data, o) ==
  LET n == DecodeName(data, o) IN
  [item |-> [qname |-> n.name, qtype |-> Get16(data, n.end)], end |-> n.end + 4]

ParseRR(data, o) ==
  LET n == DecodeName(data, o)
      len == Get16(data, n.end + 8)
  IN [item |-> [name |-> n.name, rtype |-> Get16(data, n.end),
                ttl |-> Get32(data, n.end + 4),
                rdata |-> SubSeq(data, n.end + 11, n.end + 10 + len)],
      end |-> n.end + 10 + len]

\* count questions or records in a row, from an offset on.
ParseMany(data, o, count, questions) ==
  LET Parse(end) == IF questions THEN ParseQuestion(data, end) ELSE ParseRR(data, end)
      p[k \in 0 .. count] ==
        IF k = 0 THEN [items |-> <<>>, end |-> o]
        ELSE LET q == Parse(p[k - 1].end) IN
             [items |-> Append(p[k - 1].items, q.item), end |-> q.end]
  IN p[count]

BuildResponse(id, req, questions, sections, f) ==
  U16(id) \o U16(MakeFlags([f EXCEPT !.qr = 1, !.opcode = req.opcode,
                                     !.rd = req.rd, !.tc = 0]))
    \o U16(Len(questions)) \o U16(Len(sections[1])) \o U16(Len(sections[2]))
    \o U16(Len(sections[3]))
    \o FlattenSeq([i \in DOMAIN questions |-> QuestionBytes(questions[i])])
    \o FlattenSeq([i \in DOMAIN FlattenSeq(sections) |-> RRBytes(FlattenSeq(sections)[i])])

ParseResponse(data) ==
  LET q  == ParseMany(data, 12, Get16(data, 4), TRUE)
      an == ParseMany(data, q.end, Get16(data, 6), FALSE)
      ns == ParseMany(data, an.end, Get16(data, 8), FALSE)
      ar == ParseMany(data, ns.end, Get16(data, 10), FALSE)
  IN [id |-> Get16(data, 0), flags |-> FlagsOf(Get16(data, 2)),
      questions |-> q.items, sections |-> <<an.items, ns.items, ar.items>>]

\* What is too long for a datagram is cut and says so: _send_query then asks
\* again over TCP.
UdpReply(resp) ==
  IF Len(resp) <= UdpMax THEN resp
  ELSE LET flags == Get16(resp, 2)
           tc == IF FlagsOf(flags).tc = 1 THEN flags ELSE flags + 2^9
       IN SubSeq(resp, 1, 2) \o U16(tc) \o SubSeq(resp, 5, UdpMax)

-----------------------------------------------------------------------------
(* Properties *)

\* A name is decoded as it was encoded, with a final dot or without, from wherever
\* it lies, through a pointer to it and through one from its first label to its
\* others, the end being behind the pointer.
NameRoundTrips(name) ==
  LET bytes == EncodeName(name).bytes
      first == 1 + bytes[1]
      buf   == <<0>> \o bytes \o <<192, 1>> \o SubSeq(bytes, 1, first)
                 \o <<192, 1 + first, 7>>
      ref   == 1 + Len(bytes)
  IN /\ EncodeName(name).ok /\ EncodeName(Append(name, Dot)).bytes = bytes
     /\ DecodeName(buf, 1) = [ok |-> TRUE, name |-> name, end |-> ref]
     /\ DecodeName(buf, ref) = [ok |-> TRUE, name |-> name, end |-> ref + 2]
     /\ DecodeName(buf, ref + 2) = [ok |-> TRUE, name |-> name, end |-> Len(buf) - 1]

\* A name that is cut short, at whatever byte, is an error, and so are half a
\* pointer, a pointer to itself, and a character or byte that is not ASCII: no
\* label is read that was not sent.
BadNamesRefused(name) ==
  LET bytes == EncodeName(name).bytes IN
  /\ \A n \in 0 .. Len(bytes) - 1 : ~DecodeName(SubSeq(bytes, 1, n), 0).ok
  /\ ~DecodeName(<<192>>, 0).ok /\ ~DecodeName(<<192, 0>>, 0).ok
  /\ ~EncodeName([name EXCEPT ![1] = @ + 128]).ok
  /\ ~DecodeName([bytes EXCEPT ![2] = @ + 128], 0).ok

\* What is parsed is what was answered, and of an answer too long for a datagram
\* the identifier, the code and the cut are still seen.
ResponseRoundTrips(id, questions, sections, f) ==
  LET resp  == BuildResponse(id, f, questions, sections, f)
      udp   == UdpReply(resp)
      flags == [f EXCEPT !.qr = 1, !.tc = 0]
  IN /\ ParseResponse(resp) =
          [id |-> id, flags |-> flags, questions |-> questions, sections |-> sections]
     /\ Get16(udp, 0) = id
     /\ FlagsOf(Get16(udp, 2)) =
          [flags EXCEPT !.tc = IF Len(resp) > UdpMax THEN 1 ELSE 0]
=============================================================================
