--------------------------- MODULE ResolverProofs ---------------------------
(***************************************************************************)
(* Proofs about Resolver for every set of names and types that clients ask *)
(* for, every number of threads, and every sequence of switches, lost      *)
(* queries and expiries.                                                   *)
(***************************************************************************)
EXTENDS Resolver, TLAPS

-----------------------------------------------------------------------------
(* The inductive invariant.                                                *)

RR == UNION {Zone[l] : l \in DOMAIN Zone}

Keys == {<<q.name, q.type>> : q \in Query} \cup {<<q.name, "CNAME">> : q \in Query}

Pcs == {"idle", "mode", "relay", "get", "delete", "ask", "trace", "done"}
Types == {q.type : q \in Query} \cup {"CNAME", None}
Ways == {None, "iterative", "recursive", "trace"}
Servers == {None, "root", "tld", "auth"}
Hops == 0 .. 2
Codes == {None, "NOERROR", "NXDOMAIN", "SERVFAIL", "ERROR", "NO_NS"}
Answers == SUBSET RR

RequestState ==
  [pc : Pcs, q : Query \cup {None}, type : Types, fn : Ways, cur : Ways,
   server : Servers, hops : Hops, rcode : Codes, rrs : Answers, excuse : BOOLEAN]

\* A walk goes down the hierarchy, and comes to the authoritative server with
\* names of its zone only.
Down(server, hops, name) ==
  \/ server = "root" /\ hops = 0
  \/ server = "tld" /\ hops = 1
  \/ server = "auth" /\ hops = 2 /\ GetSld(name) = "exam"

\* What a request may be answered.
Right(q, type, rcode, rrs) ==
  /\ rcode = "NXDOMAIN" => ~Exists(q.name)
  /\ rcode = "NOERROR" /\ type = "A" => rrs # {} /\ rrs = Records(q.name, "A")

\* What justifies that a query fails without an excuse.
Empty(q, type) ==
  (Exists(q.name) \/ type = "PTR") /\ Records(q.name, type) = {}

Good(r) ==
  /\ r \in RequestState
  /\ r.pc # "idle" => r.q \in Query /\ r.type \in {r.q.type, "CNAME"}
  /\ r.pc \in {"ask", "trace"} => Down(r.server, r.hops, r.q.name)
  /\ r.pc = "relay" => ~r.q.rd
  /\ r.pc = "trace" => r.type = "A"
  /\ r.pc = "done" =>
       /\ r.q.rd => Right(r.q, r.type, r.rcode, r.rrs)
       /\ r.rcode = "SERVFAIL" => r.excuse \/ Empty(r.q, r.q.type)

\* An entry of the cache is right for its key.
GoodEntry(k, e) ==
  e # None => /\ e.expires \in Nat /\ e.rrs \in SUBSET RR
              /\ e.rrs # {} /\ e.rrs = Records(k[1], k[2])

IInv ==
  /\ now \in Nat /\ mode \in {"iterative", "recursive"} /\ rootFlag \in BOOLEAN
  /\ DOMAIN cache = Keys /\ \A k \in Keys : GoodEntry(k, cache[k])
  /\ DOMAIN th = Thread /\ \A t \in Thread : Good(th[t])

-----------------------------------------------------------------------------
(* Lemmas about names and the servers of the hierarchy.                    *)

LEMMA PairFacts ==
  ASSUME NEW S, NEW a \in S, NEW b \in S
  PROVE  /\ <<a, b>> \in Seq(S) /\ <<a, b>> # <<>> /\ Len(<<a, b>>) = 2
         /\ <<a, b>>[1] = a /\ <<a, b>>[2] = b
OBVIOUS

\* Only names below exam.lan have a label of the zone.
LEMMA ZoneNames ==
  ASSUME NEW name \in Seq(STRING), Exists(name)
  PROVE  GetTld(name) = "lan" /\ GetSld(name) = "exam"
<1>1. Label(name) \in {"@", "ns1", "server", "server1", "tcp-sync"}
  BY DEF Exists, Zone
<1>2. name = <<"exam", "lan">> \/ (Len(name) = 3 /\ Tail(name) = <<"exam", "lan">>)
  BY <1>1 DEF Label
<1>3. CASE name = <<"exam", "lan">>
  BY <1>3 DEF GetTld, GetSld, Last
<1>4. CASE Len(name) = 3 /\ Tail(name) = <<"exam", "lan">>
  <2>1. name # <<>> /\ Tail(name)[1] = name[2] /\ Tail(name)[2] = name[3]
    BY <1>4
  <2>2. name[2] = "exam" /\ name[3] = "lan"
    <3>1. <<"exam", "lan">>[1] = "exam" /\ <<"exam", "lan">>[2] = "lan"
      BY PairFacts
    <3>2. Tail(name)[1] = "exam" /\ Tail(name)[2] = "lan"
      BY <1>4, <3>1, Zenon
    <3>3. QED BY <2>1, <3>2
  <2>3. QED BY <1>4, <2>1, <2>2 DEF GetTld, GetSld, Last
<1>5. QED BY <1>2, <1>3, <1>4

LEMMA ReverseFacts ==
  ASSUME NEW S, NEW s \in Seq(S), s # <<>>
  PROVE  /\ Reverse(s) \in Seq(S) /\ Len(Reverse(s)) = Len(s)
         /\ Reverse(s)[1] = s[Len(s)]
BY DEF Reverse

\* A name below lan is none of the reverse map.
LEMMA NotReverse ==
  ASSUME NEW name \in Seq(STRING), GetSld(name) = "exam"
  PROVE  Len(name) >= 2 /\ ~IsSuffix(<<"in-addr", "arpa">>, name)
<1>1. Len(name) \in Nat /\ Len(name) >= 2 /\ name[Len(name)] = "lan"
  BY DEF GetSld, Last
<1> DEFINE s == <<"in-addr", "arpa">>
           S == {"in-addr", "arpa"}
<1>2. SUFFICES ASSUME IsSuffix(s, name) PROVE FALSE
  BY <1>1
<1>3. /\ Reverse(s) \in Seq(S) /\ Len(Reverse(s)) = 2 /\ Reverse(s)[1] = "arpa"
  <2>1. s \in Seq(S) /\ s # <<>> /\ Len(s) = 2 /\ s[2] = "arpa"
    BY PairFacts
  <2> HIDE DEF s, S
  <2>2. QED BY <2>1, ReverseFacts
<1> HIDE DEF s, S
<1>4. /\ Reverse(name) \in Seq(STRING) /\ Len(Reverse(name)) = Len(name)
      /\ Reverse(name)[1] = "lan"
  BY <1>1, ReverseFacts
<1>5. SubSeq(Reverse(s), 1, 2) = SubSeq(Reverse(name), 1, 2)
  BY <1>2, <1>3 DEF IsSuffix, IsPrefix
<1>6. SubSeq(Reverse(s), 1, 2)[1] = "arpa" /\ SubSeq(Reverse(name), 1, 2)[1] = "lan"
  BY <1>1, <1>3, <1>4
<1>7. QED BY <1>5, <1>6

\* The records of the zone, by type.
LEMMA RecordsFacts ==
  ASSUME NEW name, NEW type
  PROVE  /\ Records(name, type) \in SUBSET RR
         /\ ~Exists(name) => Records(name, type) = {}
         /\ type = "PTR" => Records(name, type) = {}
         /\ OfType(Records(name, type), type) # {} =>
              OfType(Records(name, type), type) = Records(name, type)
         /\ type = "A" => OfType(Records(name, type), type) = Records(name, type)
<1>1. \A l \in DOMAIN Zone : \A r \in Zone[l] : r.type # "ANY"
  <2>1. ASSUME NEW l \in DOMAIN Zone, NEW r \in Zone[l]
        PROVE  r.type # "ANY"
    <3>1. \/ r = [type |-> "SOA", data |-> "serial"]
          \/ r = [type |-> "NS", data |-> "ns1.exam.lan"]
          \/ \E data : r = [type |-> "A", data |-> data]
      BY DEF Zone, A
    <3>2. QED BY <3>1
  <2>2. QED BY <2>1
<1>2. CASE Label(name) \notin DOMAIN Zone
  BY <1>2 DEF Records, OfType, Exists
<1>3. CASE Label(name) \in DOMAIN Zone
  <2>1. Records(name, type) =
          {r \in Zone[Label(name)] : type = "ANY" \/ (type = "A" /\ r.type = "A")}
    BY <1>3 DEF Records
  <2>2. QED BY <1>1, <1>3, <2>1 DEF OfType, Exists, RR
<1>4. QED BY <1>2, <1>3

\* The authoritative server, asked within its zone, answers its records, and
\* NXDOMAIN of nothing that exists.
LEMMA AuthFacts ==
  ASSUME NEW name \in Seq(STRING), NEW type, GetSld(name) = "exam"
  PROVE  LET r == AuthReply(name, type) IN
           \/ r = NxDomain /\ ~Exists(name)
           \/ /\ r = Reply("NOERROR", TRUE, Records(name, type), None)
              /\ Exists(name) \/ type = "PTR"
<1>1. CASE type = "PTR"
  <2>1. AuthReply(name, type) = Reply("NOERROR", TRUE, {}, None)
    BY <1>1, NotReverse DEF AuthReply, PtrReply
  <2>2. QED BY <1>1, <2>1, RecordsFacts
<1>2. CASE type # "PTR"
  BY <1>2 DEF AuthReply, Exists
<1>3. QED BY <1>1, <1>2

\* What a server of the walk replies: NXDOMAIN only of names that do not exist,
\* records only of the zone, and otherwise the way down.
RightReply(x, server, name, type, rd) ==
  /\ x.rcode \in {"NOERROR", "NXDOMAIN"}
  /\ x.rcode = "NXDOMAIN" => ~Exists(name) /\ x.answers = {} /\ x.next = None
  /\ x.answers \in SUBSET RR
  /\ OfType(x.answers, type) # {} => OfType(x.answers, type) = Records(name, type)
  /\ type = "A" => OfType(x.answers, type) = x.answers
  /\ \/ x.next = None
     \/ server = "root" /\ x.next = "tld"
     \/ server = "tld" /\ x.next = "auth" /\ GetSld(name) = "exam"
  /\ x.next = None /\ x.rcode = "NOERROR" /\ ~rd =>
       /\ x.aa /\ x.answers = Records(name, type)
       /\ Exists(name) \/ type = "PTR"

LEMMA ReplyFacts ==
  ASSUME NEW name \in Seq(STRING), NEW type, NEW rd \in BOOLEAN,
         NEW server \in {"root", "tld", "auth"}, server = "auth" => GetSld(name) = "exam",
         NEW r \in Replies(server, name, type, rd)
  PROVE  RightReply(r, server, name, type, rd)
<1> DEFINE P(x) == RightReply(x, server, name, type, rd)
<1>1. None \notin {"root", "tld", "auth"} /\ OfType({}, type) = {} /\ {} \in SUBSET RR
  BY ResolverConstants DEF OfType
\* Replies without answers.
<1>2. ~Exists(name) => P(NxDomain)
  BY <1>1 DEF NxDomain, Reply, RightReply
<1>3. server = "root" => P(RootReply(name))
  <2>1. CASE GetTld(name) = "lan"
    BY <1>1, <2>1 DEF RootReply, Reply, RightReply
  <2>2. CASE GetTld(name) # "lan"
    BY <1>2, <2>2, ZoneNames DEF RootReply
  <2>3. QED BY <2>1, <2>2
<1>4. server = "tld" => P(TldReply(name))
  <2>1. CASE GetSld(name) = "exam"
    BY <1>1, <2>1 DEF TldReply, Reply, RightReply
  <2>2. CASE GetSld(name) # "exam"
    BY <1>2, <2>2, ZoneNames DEF TldReply
  <2>3. QED BY <2>1, <2>2
\* The authority's, and what the root finds when it walks itself.
<1>5. server = "auth" => P(AuthReply(name, type))
  <2> SUFFICES ASSUME server = "auth" PROVE P(AuthReply(name, type))
    OBVIOUS
  <2>1. CASE AuthReply(name, type) = NxDomain /\ ~Exists(name)
    BY <1>2, <2>1
  <2>2. CASE /\ AuthReply(name, type) = Reply("NOERROR", TRUE, Records(name, type), None)
             /\ Exists(name) \/ type = "PTR"
    BY <1>1, <2>2, RecordsFacts DEF Reply, RightReply
  <2>3. QED BY <2>1, <2>2, AuthFacts
<1>6. ASSUME server = "root", rd, NEW x \in RecursiveResolve(name, type), x # None
      PROVE  P(x)
  <2>1. CASE TldReply(name).rcode = "NXDOMAIN"
    <3>1. x = NxDomain
      BY <1>6, <2>1 DEF RecursiveResolve
    <3>2. GetSld(name) # "exam"
      BY <2>1 DEF TldReply, Reply
    <3>3. QED BY <1>2, <3>1, <3>2, ZoneNames
  <2>2. CASE TldReply(name).rcode # "NXDOMAIN"
    <3>1. GetSld(name) = "exam"
      BY <2>2 DEF TldReply, NxDomain, Reply
    <3>2. CASE AuthReply(name, type) = NxDomain /\ ~Exists(name)
      <4>1. x = NxDomain
        BY <1>6, <2>2, <3>2 DEF RecursiveResolve, NxDomain, Reply
      <4>2. QED BY <1>2, <3>2, <4>1
    <3>3. CASE AuthReply(name, type) = Reply("NOERROR", TRUE, Records(name, type), None)
      <4> DEFINE o == OfType(Records(name, type), type)
      <4>1. x = Reply("NOERROR", FALSE, o, None) /\ o # {}
        BY <1>6, <2>2, <3>3 DEF RecursiveResolve, Reply
      <4>2. /\ o = Records(name, type) /\ o \in SUBSET RR
            /\ OfType(o, type) = o
        BY <4>1, RecordsFacts
      <4>3. x.rcode = "NOERROR" /\ x.answers = o /\ x.next = None
        BY <4>1 DEF Reply
      <4> HIDE DEF o
      <4>4. QED BY <1>6, <4>2, <4>3 DEF RightReply
    <3>4. QED BY <3>1, <3>2, <3>3, AuthFacts
  <2>3. QED BY <2>1, <2>2
<1> HIDE DEF P
<1>7. P(r)
  <2>1. CASE server = "root"
    <3>1. \/ r = RootReply(name)
          \/ rd /\ r \in HandleRecursive(name, type)
      BY <2>1 DEF Replies
    <3>2. ASSUME rd, r \in HandleRecursive(name, type)
          PROVE  P(r)
      <4>1. \/ r = RootReply(name)
            \/ r # None /\ r \in RecursiveResolve(name, type)
        BY <3>2 DEF HandleRecursive
      <4>2. QED BY <1>3, <1>6, <2>1, <3>2, <4>1
    <3>3. QED BY <1>3, <2>1, <3>1, <3>2
  <2>2. CASE server = "tld"
    BY <1>4, <2>2 DEF Replies
  <2>3. CASE server = "auth"
    BY <1>5, <2>3 DEF Replies
  <2>4. QED BY <2>1, <2>2, <2>3
<1>8. QED BY <1>7 DEF P

-----------------------------------------------------------------------------
(* Lemmas about requests.                                                  *)

LEMMA RequestFacts ==
  ASSUME NEW r, Good(r), r.pc # "idle"
  PROVE  /\ r.q \in Query /\ r.q.name \in Seq(STRING) /\ r.q.rd \in BOOLEAN
         /\ <<r.q.name, r.type>> \in Keys
BY ResolverConstants DEF Good, Keys

\* What changes of a request when it is finished, and when it goes on.
LEMMA Finished ==
  ASSUME NEW r \in RequestState, NEW rcode \in Codes, NEW rrs \in Answers
  PROVE  LET f == Finish(r, rcode, rrs) IN
           /\ f \in RequestState /\ f.pc = "done" /\ f.q = r.q /\ f.type = r.type
           /\ f.rcode = rcode /\ f.rrs = rrs /\ f.excuse = r.excuse
<1> DEFINE d == "done"
           n == None
           z == 0
           f == [r EXCEPT !.pc = d, !.cur = n, !.hops = z, !.rcode = rcode, !.rrs = rrs]
<1>1. d \in Pcs /\ n \in Ways /\ z \in Hops
  BY DEF Pcs, Ways, Hops
<1>2. d = "done" /\ Finish(r, rcode, rrs) = f
  BY DEF Finish
<1> HIDE DEF d, n, z
<1>3. /\ f \in RequestState /\ f.pc = d /\ f.q = r.q /\ f.type = r.type
      /\ f.rcode = rcode /\ f.rrs = rrs /\ f.excuse = r.excuse
  BY <1>1 DEF RequestState
<1>4. QED BY <1>2, <1>3

LEMMA Excused ==
  ASSUME NEW r \in RequestState, NEW f, f = [r EXCEPT !.excuse = TRUE]
  PROVE  /\ f \in RequestState /\ f.pc = r.pc /\ f.q = r.q /\ f.type = r.type
         /\ f.server = r.server /\ f.hops = r.hops /\ f.rcode = r.rcode
         /\ f.rrs = r.rrs /\ f.excuse
BY DEF RequestState

LEMMA AtFirst == Idle \in RequestState /\ Idle.pc = "idle" /\ Idle.hops = 0
<1>1. /\ "idle" \in Pcs /\ None \in Types /\ None \in Ways /\ None \in Servers
      /\ 0 \in Hops /\ None \in Codes /\ {} \in Answers
  BY DEF Pcs, Types, Ways, Servers, Hops, Codes, Answers
<1>2. QED BY <1>1 DEF Idle, RequestState

LEMMA GoodFinish ==
  ASSUME NEW r, Good(r), r.pc # "idle",
         NEW rcode \in {"NOERROR", "NXDOMAIN", "SERVFAIL", "ERROR", "NO_NS"},
         NEW rrs \in SUBSET RR,
         r.q.rd => Right(r.q, r.type, rcode, rrs),
         rcode = "SERVFAIL" => r.excuse \/ Empty(r.q, r.q.type)
  PROVE  Good(Finish(r, rcode, rrs))
<1> DEFINE f == Finish(r, rcode, rrs)
<1>1. r \in RequestState
  BY DEF Good
<1>2. /\ f \in RequestState /\ f.pc = "done" /\ f.q = r.q /\ f.type = r.type
      /\ f.rcode = rcode /\ f.rrs = rrs /\ f.excuse = r.excuse
  <2>1. rcode \in Codes /\ rrs \in Answers
    BY DEF Codes, Answers
  <2>2. QED BY <1>1, <2>1, Finished
<1> HIDE DEF f
<1>3. QED BY <1>2 DEF Good, f

LEMMA GoodAsk ==
  ASSUME NEW r, Good(r), r.pc # "idle"
  PROVE  Good(Ask(r))
<1> DEFINE f == Ask(r)
<1>1. r \in RequestState
  BY DEF Good
<1>2. /\ f \in RequestState /\ f.pc = "ask" /\ f.q = r.q /\ f.type = r.type
      /\ f.server = "root" /\ f.hops = 0
  <2> DEFINE pc == "ask"
             server == "root"
             hops == 0
  <2>1. pc \in Pcs /\ server \in Servers /\ hops \in Hops
    BY DEF Pcs, Servers, Hops
  <2>2. f = [r EXCEPT !.pc = pc, !.server = server, !.hops = hops]
    BY DEF Ask
  <2>3. pc = "ask" /\ server = "root" /\ hops = 0
    OBVIOUS
  <2> HIDE DEF pc, server, hops, f
  <2>4. QED BY <1>1, <2>1, <2>2, <2>3 DEF RequestState
<1> HIDE DEF f
<1>3. QED BY <1>2 DEF Good, Down, f

LEMMA GoodFollow ==
  ASSUME NEW r, Good(r), r.pc \in {"ask", "trace"},
         NEW next, next = IF r.server = "root" THEN "tld" ELSE "auth",
         r.server # "auth", r.server = "tld" => GetSld(r.q.name) = "exam"
  PROVE  Good(Follow(r, next))
<1> DEFINE hops == r.hops + 1
           f == [r EXCEPT !.server = next, !.hops = hops]
<1>1. r \in RequestState /\ Down(r.server, r.hops, r.q.name)
  BY DEF Good
<1>2. /\ Down(next, hops, r.q.name) /\ next \in Servers /\ hops \in Hops
  BY <1>1 DEF Down, Servers, Hops
<1>3. Follow(r, next) = f
  BY DEF Follow
<1> HIDE DEF hops
<1>4. /\ f \in RequestState /\ f.pc = r.pc /\ f.q = r.q /\ f.type = r.type
      /\ f.server = next /\ f.hops = hops
  BY <1>1, <1>2 DEF RequestState
<1> HIDE DEF f
<1>5. QED BY <1>2, <1>3, <1>4 DEF Good

\* A name and type that got its records, NXDOMAIN or a justified failure is
\* answered right, or asked again as CNAME.
LEMMA GoodAnswered ==
  ASSUME NEW r, Good(r), r.pc \in {"get", "ask"},
         NEW rcode \in {"NOERROR", "NXDOMAIN", "SERVFAIL"}, NEW rrs \in SUBSET RR,
         rcode = "NXDOMAIN" => ~Exists(r.q.name),
         rrs # {} => rrs = Records(r.q.name, r.type),
         rcode = "SERVFAIL" => r.excuse \/ Empty(r.q, r.type)
  PROVE  Good(Answered(r, rrs, rcode))
<1>1. r \in RequestState /\ r.q \in Query /\ r.type \in {r.q.type, "CNAME"}
  BY DEF Good
<1>2. CASE rcode = "NOERROR" /\ rrs = {} /\ r.type # "CNAME"
  <2> DEFINE f == [r EXCEPT !.pc = "get", !.type = "CNAME", !.cur = r.fn,
                            !.server = "root", !.hops = 0]
  <2>1. Answered(r, rrs, rcode) = f
    BY <1>2 DEF Answered
  <2>2. f \in RequestState /\ f.pc = "get" /\ f.q = r.q /\ f.type = "CNAME"
    <3> DEFINE pc == "get"
               type == "CNAME"
               server == "root"
               hops == 0
    <3>1. /\ pc \in Pcs /\ type \in Types /\ server \in Servers /\ hops \in Hops
          /\ r.fn \in Ways
      BY <1>1 DEF Pcs, Types, Servers, Hops, RequestState
    <3>2. f = [r EXCEPT !.pc = pc, !.type = type, !.cur = r.fn, !.server = server,
                        !.hops = hops]
      OBVIOUS
    <3>3. pc = "get" /\ type = "CNAME"
      OBVIOUS
    <3> HIDE DEF pc, type, server, hops, f
    <3>4. QED BY <1>1, <3>1, <3>2, <3>3 DEF RequestState
  <2> HIDE DEF f
  <2>3. QED BY <1>1, <2>1, <2>2 DEF Good
<1>3. CASE ~(rcode = "NOERROR" /\ rrs = {} /\ r.type # "CNAME")
  <2> DEFINE code == IF r.type = "CNAME" THEN "NOERROR" ELSE rcode
  <2>1. Answered(r, rrs, rcode) = Finish(r, code, rrs)
    BY <1>3 DEF Answered
  <2>2. code \in {"NOERROR", "NXDOMAIN", "SERVFAIL", "ERROR", "NO_NS"}
    OBVIOUS
  <2>3. Right(r.q, r.type, code, rrs)
    BY <1>3 DEF Right
  <2>4. code = "SERVFAIL" => r.excuse \/ Empty(r.q, r.q.type)
    BY <1>1
  <2> HIDE DEF code
  <2>5. QED BY <2>1, <2>2, <2>3, <2>4, GoodFinish
<1>4. QED BY <1>2, <1>3

\* The step of one request, which leaves the cache alone or puts right records.
LEMMA OneRequest ==
  ASSUME IInv, NEW t \in Thread, NEW f, Good(f), th' = [th EXCEPT ![t] = f],
         UNCHANGED <<now, mode, rootFlag>>,
         UNCHANGED cache \/ \E k \in Keys : \E e : GoodEntry(k, e) /\ cache' = [cache EXCEPT ![k] = e]
  PROVE  IInv'
<1>1. DOMAIN th' = Thread /\ \A u \in Thread : Good(th'[u])
  BY DEF IInv
<1>2. DOMAIN cache' = Keys /\ \A k \in Keys : GoodEntry(k, cache'[k])
  BY DEF IInv
<1>3. QED BY <1>1, <1>2 DEF IInv

-----------------------------------------------------------------------------
(* The steps.                                                              *)

LEMMA Start ==
  ASSUME Init
  PROVE  IInv
<1>1. Good(Idle)
  BY AtFirst DEF Good
<1>2. DOMAIN th = Thread /\ \A t \in Thread : Good(th[t])
  BY <1>1 DEF Init
<1>3. DOMAIN cache = Keys /\ \A k \in Keys : GoodEntry(k, cache[k])
  BY DEF Init, Keys, GoodEntry
<1>4. QED BY <1>2, <1>3 DEF Init, IInv

LEMMA RequestStep ==
  ASSUME IInv, NEW t \in Thread, NEW q \in Query, Request(t, q)
  PROVE  IInv'
<1> DEFINE f == [Idle EXCEPT !.q = q, !.type = q.type, !.server = "root",
                             !.pc = IF q.rd THEN "mode" ELSE "relay"]
<1>1. th' = [th EXCEPT ![t] = f] /\ UNCHANGED <<now, mode, rootFlag, cache>>
  BY DEF Request
<1>2. /\ f \in RequestState /\ f.q = q /\ f.type = q.type
      /\ f.pc = IF q.rd THEN "mode" ELSE "relay"
  <2> DEFINE pc == IF q.rd THEN "mode" ELSE "relay"
             type == q.type
             server == "root"
  <2>1. pc \in Pcs /\ type \in Types /\ server \in Servers
    BY DEF Pcs, Types, Servers
  <2>2. f = [Idle EXCEPT !.q = q, !.type = type, !.server = server, !.pc = pc]
    OBVIOUS
  <2> HIDE DEF pc, type, server, f
  <2>3. f \in RequestState /\ f.q = q /\ f.type = type /\ f.pc = pc
    BY <2>1, <2>2, AtFirst DEF RequestState
  <2>4. QED BY <2>3 DEF pc, type
<1> HIDE DEF f
<1>3. Good(f)
  BY <1>2 DEF Good
<1>4. QED BY <1>1, <1>3, OneRequest

LEMMA StartTraceStep ==
  ASSUME IInv, NEW t \in Thread, NEW q \in Query, StartTrace(t, q)
  PROVE  IInv'
<1> DEFINE f == [Idle EXCEPT !.pc = "trace", !.fn = "trace",
                             !.server = "root", !.q = q, !.type = "A"]
<1>1. /\ th' = [th EXCEPT ![t] = f] /\ UNCHANGED <<now, mode, rootFlag, cache>>
      /\ q.rd /\ q.type = "A"
  BY DEF StartTrace
<1>2. /\ f \in RequestState /\ f.q = q /\ f.type = "A" /\ f.pc = "trace"
      /\ f.server = "root" /\ f.hops = 0
  <2> DEFINE pc == "trace"
             type == "A"
             server == "root"
  <2>1. pc \in Pcs /\ type \in Types /\ pc \in Ways /\ server \in Servers
    BY <1>1 DEF Pcs, Types, Ways, Servers
  <2>2. f = [Idle EXCEPT !.pc = pc, !.fn = pc, !.server = server, !.q = q,
                         !.type = type]
    OBVIOUS
  <2> HIDE DEF pc, type, server, f
  <2>3. /\ f \in RequestState /\ f.q = q /\ f.type = type /\ f.pc = pc
        /\ f.server = server /\ f.hops = 0
    BY <2>1, <2>2, AtFirst DEF RequestState
  <2>4. QED BY <2>3 DEF pc, type, server
<1> HIDE DEF f
<1>3. Good(f)
  BY <1>1, <1>2 DEF Good, Down
<1>4. QED BY <1>1, <1>3, OneRequest

LEMMA RelayStep ==
  ASSUME IInv, NEW t \in Thread, Relay(t)
  PROVE  IInv'
<1>1. PICK r : r = th[t]
  OBVIOUS
<1>2. Good(r) /\ r.pc = "relay" /\ ~r.q.rd
  BY <1>1 DEF IInv, Relay, Good
<1>3. PICK x \in Replies("root", r.q.name, r.type, FALSE) :
        th' = [th EXCEPT ![t] = Finish(r, "NOERROR", x.answers)]
  BY <1>1 DEF Relay
<1>4. x.answers \in SUBSET RR
  BY <1>2, RequestFacts, ReplyFacts DEF RightReply
<1>5. Good(Finish(r, "NOERROR", x.answers))
  BY <1>2, <1>4, GoodFinish
<1>6. UNCHANGED <<now, mode, rootFlag, cache>>
  BY DEF Relay
<1>7. QED BY <1>3, <1>5, <1>6, OneRequest

LEMMA ReloadModeStep ==
  ASSUME IInv, NEW t \in Thread, ReloadMode(t)
  PROVE  IInv'
<1>1. PICK r, m : r = th[t] /\ m = mode
  OBVIOUS
<1> DEFINE f == [r EXCEPT !.pc = "get", !.fn = m, !.cur = m]
<1>2. Good(r) /\ r \in RequestState /\ r.pc = "mode" /\ m \in {"iterative", "recursive"}
  BY <1>1 DEF IInv, ReloadMode, Good
<1>3. th' = [th EXCEPT ![t] = f] /\ UNCHANGED <<now, mode, rootFlag, cache>>
  BY <1>1 DEF ReloadMode
<1>4. f \in RequestState /\ f.q = r.q /\ f.type = r.type /\ f.pc = "get"
  <2> DEFINE pc == "get"
  <2>1. pc = "get" /\ pc \in Pcs /\ m \in Ways
    BY <1>2 DEF Pcs, Ways
  <2>2. f = [r EXCEPT !.pc = pc, !.fn = m, !.cur = m]
    OBVIOUS
  <2> HIDE DEF pc, f
  <2>3. QED BY <1>2, <2>1, <2>2 DEF RequestState
<1> HIDE DEF f
<1>5. Good(f)
  BY <1>2, <1>4 DEF Good
<1>6. QED BY <1>3, <1>5, OneRequest

\* What is found in the cache is right.
LEMMA CacheGetStep ==
  ASSUME IInv, NEW t \in Thread, CacheGet(t)
  PROVE  IInv'
<1>1. PICK r, e : r = th[t] /\ e = cache[<<r.q.name, r.type>>]
  OBVIOUS
<1>2. Good(r) /\ r.pc = "get" /\ <<r.q.name, r.type>> \in Keys /\ r \in RequestState
  BY <1>1, RequestFacts DEF IInv, CacheGet, Good
<1>3. e # None => e.rrs \in SUBSET RR /\ e.rrs # {} /\ e.rrs = Records(r.q.name, r.type)
  BY <1>1, <1>2 DEF IInv, GoodEntry
<1>4. PICK f : /\ th' = [th EXCEPT ![t] = f]
               /\ \/ f = Ask(r)
                  \/ f = [r EXCEPT !.pc = "delete"]
                  \/ e # None /\ f = Answered(r, e.rrs, "NOERROR")
  BY <1>1 DEF CacheGet, Key
<1>5. Good([r EXCEPT !.pc = "delete"])
  <2> DEFINE g == [r EXCEPT !.pc = "delete"]
  <2>1. g \in RequestState /\ g.q = r.q /\ g.type = r.type /\ g.pc = "delete"
    <3> DEFINE pc == "delete"
    <3>1. pc = "delete" /\ pc \in Pcs /\ None \in Ways
      BY DEF Pcs, Ways
    <3>2. g = [r EXCEPT !.pc = pc]
      OBVIOUS
    <3> HIDE DEF pc, g
    <3>3. QED BY <1>2, <3>1, <3>2 DEF RequestState
  <2> HIDE DEF g
  <2>2. Good(g)
    BY <1>2, <2>1 DEF Good
  <2>3. QED BY <2>2 DEF g
<1>6. Good(f)
  <2>1. CASE f = Ask(r)
    BY <1>2, <2>1, GoodAsk
  <2>2. CASE e # None /\ f = Answered(r, e.rrs, "NOERROR")
    BY <1>2, <1>3, <2>2, GoodAnswered
  <2>3. QED BY <1>4, <1>5, <2>1, <2>2
<1>7. UNCHANGED <<now, mode, rootFlag, cache>>
  BY DEF CacheGet
<1>8. QED BY <1>4, <1>6, <1>7, OneRequest

LEMMA CacheDeleteStep ==
  ASSUME IInv, NEW t \in Thread, CacheDelete(t)
  PROVE  IInv'
<1>1. PICK r, k : r = th[t] /\ k = <<r.q.name, r.type>>
  OBVIOUS
<1>2. Good(r) /\ r.pc = "delete" /\ k \in Keys /\ r \in RequestState
  BY <1>1, RequestFacts DEF IInv, CacheDelete, Good
<1> DEFINE f == [Finish(r, "SERVFAIL", {}) EXCEPT !.excuse = TRUE]
<1>3. UNCHANGED <<now, mode, rootFlag>>
  BY DEF CacheDelete
<1>4. CASE cache[k] = None
  <2>1. th' = [th EXCEPT ![t] = f] /\ UNCHANGED cache
    BY <1>1, <1>4 DEF CacheDelete, Key
  <2>2. /\ f \in RequestState /\ f.pc = "done" /\ f.q = r.q /\ f.type = r.type
        /\ f.rcode = "SERVFAIL" /\ f.excuse
    <3>1. "SERVFAIL" \in Codes /\ {} \in Answers
      BY DEF Codes, Answers
    <3> DEFINE g == Finish(r, "SERVFAIL", {})
    <3>2. /\ g \in RequestState /\ g.pc = "done" /\ g.q = r.q /\ g.type = r.type
          /\ g.rcode = "SERVFAIL"
      BY <1>2, <3>1, Finished
    <3>3. f = [g EXCEPT !.excuse = TRUE]
      OBVIOUS
    <3> HIDE DEF g, f
    <3>4. QED BY <3>2, <3>3, Excused
  <2> HIDE DEF f
  <2>3. Good(f)
    BY <1>2, <2>2 DEF Good, Right
  <2>4. QED BY <1>3, <2>1, <2>3, OneRequest
<1>5. CASE cache[k] # None
  <2>1. th' = [th EXCEPT ![t] = Ask(r)] /\ cache' = [cache EXCEPT ![k] = None]
    BY <1>1, <1>5 DEF CacheDelete, Key
  <2>2. GoodEntry(k, None)
    BY DEF GoodEntry
  <2>3. Good(Ask(r))
    BY <1>2, GoodAsk
  <2>4. QED BY <1>2, <1>3, <2>1, <2>2, <2>3, OneRequest
<1>6. QED BY <1>4, <1>5

\* Lost queries excuse the failure of a walk, and have it begin that the root was
\* asked for.
LEMMA QueryLostStep ==
  ASSUME IInv, NEW t \in Thread, QueryLost(t)
  PROVE  IInv'
<1>1. PICK r : r = th[t]
  OBVIOUS
<1>2. Good(r) /\ r.pc = "ask" /\ r \in RequestState
  BY <1>1 DEF IInv, QueryLost, Good
<1> DEFINE g == [r EXCEPT !.pc = "get", !.cur = "iterative"]
           e == [r EXCEPT !.excuse = TRUE]
           f == IF r.cur = "recursive" THEN g ELSE Answered(e, {}, "SERVFAIL")
<1>3. th' = [th EXCEPT ![t] = f] /\ UNCHANGED <<now, mode, rootFlag, cache>>
  BY <1>1 DEF QueryLost
<1>4. Good(g)
  <2> DEFINE pc == "get"
             cur == "iterative"
  <2>1. pc = "get" /\ pc \in Pcs /\ cur \in Ways
    BY DEF Pcs, Ways
  <2>2. g = [r EXCEPT !.pc = pc, !.cur = cur]
    OBVIOUS
  <2> HIDE DEF pc, cur, g
  <2>3. g \in RequestState /\ g.q = r.q /\ g.type = r.type /\ g.pc = "get"
    BY <1>2, <2>1, <2>2 DEF RequestState
  <2>4. QED BY <1>2, <2>3 DEF Good
<1>5. Good(Answered(e, {}, "SERVFAIL"))
  <2>1. /\ e \in RequestState /\ e.pc = r.pc /\ e.q = r.q /\ e.type = r.type
        /\ e.server = r.server /\ e.hops = r.hops /\ e.excuse
    BY <1>2, Excused
  <2> HIDE DEF e
  <2>2. Good(e)
    BY <1>2, <2>1 DEF Good
  <2>3. QED BY <1>2, <2>1, <2>2, GoodAnswered
<1>6. Good(f)
  BY <1>4, <1>5
<1> HIDE DEF f
<1>7. QED BY <1>3, <1>6, OneRequest

\* What is put into the cache is right for the name and type that were asked.
LEMMA PutFacts ==
  ASSUME IInv, NEW t \in Thread, NEW r, r = th[t], r.pc # "idle", NEW rrs \in SUBSET RR,
         rrs # {} => rrs = Records(r.q.name, r.type), CachePut(t, rrs)
  PROVE  \/ UNCHANGED cache
         \/ \E k \in Keys : \E e : GoodEntry(k, e) /\ cache' = [cache EXCEPT ![k] = e]
<1>1. CASE rrs = {}
  BY <1>1 DEF CachePut
<1>2. CASE rrs # {}
  <2> DEFINE k == <<r.q.name, r.type>>
             e == [rrs |-> rrs, expires |-> now + Ttl]
  <2>1. cache' = [cache EXCEPT ![k] = e]
    BY <1>2 DEF CachePut, Key
  <2>2. k \in Keys
    BY RequestFacts DEF IInv
  <2>3. k[1] = r.q.name /\ k[2] = r.type
    OBVIOUS
  <2>4. e.rrs = rrs /\ e.expires \in Nat
    BY ResolverConstants DEF IInv
  <2> HIDE DEF k, e
  <2>5. GoodEntry(k, e)
    BY <1>2, <2>3, <2>4 DEF GoodEntry
  <2>6. QED BY <2>1, <2>2, <2>5
<1>3. QED BY <1>1, <1>2

\* A reply that the walk gets takes it one server down, or ends it rightly.
LEMMA IterateStep ==
  ASSUME IInv, NEW t \in Thread, NEW r, r = th[t], r.pc = "ask", r.cur # "recursive",
         NEW x \in Replies(r.server, r.q.name, r.type, FALSE), Iterate(t, x),
         UNCHANGED <<now, mode, rootFlag>>
  PROVE  IInv'
<1>1. /\ Good(r) /\ r \in RequestState /\ Down(r.server, r.hops, r.q.name)
      /\ r.q \in Query /\ r.q.name \in Seq(STRING)
  BY RequestFacts DEF IInv, Good
<1>2. r.server \in {"root", "tld", "auth"} /\ (r.server = "auth" => GetSld(r.q.name) = "exam")
  BY <1>1 DEF Down
<1> DEFINE rrs == OfType(x.answers, r.type)
<1>3. /\ x.rcode \in {"NOERROR", "NXDOMAIN"}
      /\ x.rcode = "NXDOMAIN" => ~Exists(r.q.name)
      /\ rrs \in SUBSET RR /\ (rrs # {} => rrs = Records(r.q.name, r.type))
      /\ \/ x.next = None
         \/ r.server = "root" /\ x.next = "tld"
         \/ r.server = "tld" /\ x.next = "auth" /\ GetSld(r.q.name) = "exam"
      /\ x.next = None /\ x.rcode = "NOERROR" =>
           /\ x.aa /\ x.answers = Records(r.q.name, r.type)
           /\ Exists(r.q.name) \/ r.type = "PTR"
  <2>1. RightReply(x, r.server, r.q.name, r.type, FALSE)
    BY <1>1, <1>2, ReplyFacts
  <2>2. OfType(x.answers, r.type) \in SUBSET x.answers
    BY DEF OfType
  <2>3. x.answers \in SUBSET RR
    BY <2>1 DEF RightReply
  <2>4. QED BY <2>1, <2>2, <2>3 DEF RightReply
<1> HIDE DEF rrs
<1>4. \/ x.rcode = "NXDOMAIN" /\ th' = [th EXCEPT ![t] = Answered(r, {}, "NXDOMAIN")]
         /\ UNCHANGED cache
      \/ /\ x.rcode # "NXDOMAIN"
         /\ th' = [th EXCEPT ![t] = Answered(r, rrs, "NOERROR")] /\ CachePut(t, rrs)
      \/ /\ x.rcode # "NXDOMAIN" /\ ~(x.aa /\ x.answers # {}) /\ UNCHANGED cache
         /\ th' = [th EXCEPT ![t] =
              IF x.next = None \/ r.hops = 15 THEN Answered(r, {}, "SERVFAIL")
              ELSE Follow(r, x.next)]
  <2>1. CASE x.rcode = "NXDOMAIN"
    BY <2>1 DEF Iterate
  <2>2. CASE x.rcode # "NXDOMAIN" /\ x.aa /\ x.answers # {}
    BY <2>2 DEF Iterate, rrs
  <2>3. CASE x.rcode # "NXDOMAIN" /\ ~(x.aa /\ x.answers # {})
    BY <2>3 DEF Iterate
  <2>4. QED BY <2>1, <2>2, <2>3
<1>5. CASE /\ x.rcode = "NXDOMAIN" /\ th' = [th EXCEPT ![t] = Answered(r, {}, "NXDOMAIN")]
           /\ UNCHANGED cache
  <2>1. Good(Answered(r, {}, "NXDOMAIN"))
    BY <1>1, <1>3, <1>5, GoodAnswered
  <2>2. QED BY <1>5, <2>1, OneRequest
<1>6. CASE th' = [th EXCEPT ![t] = Answered(r, rrs, "NOERROR")] /\ CachePut(t, rrs)
  <2>1. Good(Answered(r, rrs, "NOERROR"))
    BY <1>1, <1>3, GoodAnswered
  <2>2. QED BY <1>3, <1>6, <2>1, PutFacts, OneRequest
<1>7. CASE /\ x.rcode # "NXDOMAIN" /\ ~(x.aa /\ x.answers # {}) /\ UNCHANGED cache
           /\ th' = [th EXCEPT ![t] =
                IF x.next = None \/ r.hops = 15 THEN Answered(r, {}, "SERVFAIL")
                ELSE Follow(r, x.next)]
  <2>1. CASE x.next = None
    <3>1. Empty(r.q, r.type)
      BY <1>3, <1>7, <2>1 DEF Empty
    <3>2. Good(Answered(r, {}, "SERVFAIL"))
      BY <1>1, <3>1, GoodAnswered
    <3>3. QED BY <1>7, <2>1, <3>2, OneRequest
  <2>2. CASE x.next # None
    <3>1. r.hops # 15 /\ x.next = IF r.server = "root" THEN "tld" ELSE "auth"
      BY <1>1, <1>3, <2>2 DEF Down
    <3>2. th' = [th EXCEPT ![t] = Follow(r, x.next)]
      BY <1>7, <2>2, <3>1
    <3>3. r.server # "auth" /\ (r.server = "tld" => GetSld(r.q.name) = "exam")
      BY <1>3, <2>2
    <3>4. Good(Follow(r, x.next))
      BY <1>1, <3>1, <3>3, GoodFollow
    <3>5. QED BY <1>7, <3>2, <3>4, OneRequest
  <2>3. QED BY <2>1, <2>2
<1>8. QED BY <1>4, <1>5, <1>6, <1>7

\* So does a reply of the root that walked itself, or could not.
LEMMA DelegateStep ==
  ASSUME IInv, NEW t \in Thread, NEW r, r = th[t], r.pc = "ask",
         NEW x \in Replies(r.server, r.q.name, r.type, TRUE), Delegate(t, x),
         UNCHANGED <<now, mode, rootFlag>>
  PROVE  IInv'
<1>1. /\ Good(r) /\ r \in RequestState /\ Down(r.server, r.hops, r.q.name)
      /\ r.q \in Query /\ r.q.name \in Seq(STRING)
  BY RequestFacts DEF IInv, Good
<1>2. r.server \in {"root", "tld", "auth"} /\ (r.server = "auth" => GetSld(r.q.name) = "exam")
  BY <1>1 DEF Down
<1> DEFINE rrs == OfType(x.answers, r.type)
           g == [r EXCEPT !.pc = "get", !.cur = "iterative"]
<1>3. /\ x.rcode = "NXDOMAIN" => ~Exists(r.q.name)
      /\ rrs \in SUBSET RR /\ (rrs # {} => rrs = Records(r.q.name, r.type))
  <2>1. RightReply(x, r.server, r.q.name, r.type, TRUE)
    BY <1>1, <1>2, ReplyFacts
  <2>2. OfType(x.answers, r.type) \in SUBSET x.answers
    BY DEF OfType
  <2>3. x.answers \in SUBSET RR
    BY <2>1 DEF RightReply
  <2>4. QED BY <2>1, <2>2, <2>3 DEF RightReply
<1> HIDE DEF rrs
<1>4. \/ x.rcode = "NXDOMAIN" /\ th' = [th EXCEPT ![t] = Answered(r, {}, "NXDOMAIN")]
         /\ UNCHANGED cache
      \/ th' = [th EXCEPT ![t] = g] /\ UNCHANGED cache
      \/ th' = [th EXCEPT ![t] = Answered(r, rrs, "NOERROR")] /\ CachePut(t, rrs)
  BY DEF Delegate, rrs
<1>5. CASE /\ x.rcode = "NXDOMAIN" /\ th' = [th EXCEPT ![t] = Answered(r, {}, "NXDOMAIN")]
           /\ UNCHANGED cache
  <2>1. Good(Answered(r, {}, "NXDOMAIN"))
    BY <1>1, <1>3, <1>5, GoodAnswered
  <2>2. QED BY <1>5, <2>1, OneRequest
<1>6. CASE th' = [th EXCEPT ![t] = g] /\ UNCHANGED cache
  <2> DEFINE pc == "get"
             cur == "iterative"
  <2>1. pc = "get" /\ pc \in Pcs /\ cur \in Ways
    BY DEF Pcs, Ways
  <2>2. g = [r EXCEPT !.pc = pc, !.cur = cur]
    OBVIOUS
  <2> HIDE DEF pc, cur, g
  <2>3. g \in RequestState /\ g.q = r.q /\ g.type = r.type /\ g.pc = "get"
    BY <1>1, <2>1, <2>2 DEF RequestState
  <2>4. Good(g)
    BY <1>1, <2>3 DEF Good
  <2>5. QED BY <1>6, <2>4, OneRequest
<1>7. CASE th' = [th EXCEPT ![t] = Answered(r, rrs, "NOERROR")] /\ CachePut(t, rrs)
  <2>1. Good(Answered(r, rrs, "NOERROR"))
    BY <1>1, <1>3, GoodAnswered
  <2>2. QED BY <1>3, <1>7, <2>1, PutFacts, OneRequest
<1>8. QED BY <1>4, <1>5, <1>6, <1>7

LEMMA QueryAnsweredStep ==
  ASSUME IInv, NEW t \in Thread, QueryAnswered(t)
  PROVE  IInv'
<1>1. PICK r : r = th[t]
  OBVIOUS
<1>2. PICK x \in Replies(r.server, r.q.name, r.type, r.cur = "recursive") :
        IF r.cur = "recursive" THEN Delegate(t, x) ELSE Iterate(t, x)
  BY <1>1 DEF QueryAnswered
<1>3. r.pc = "ask" /\ UNCHANGED <<now, mode, rootFlag>>
  BY <1>1 DEF QueryAnswered
<1>4. CASE r.cur = "recursive"
  <2>1. (r.cur = "recursive") = TRUE
    BY <1>4
  <2>2. x \in Replies(r.server, r.q.name, r.type, TRUE) /\ Delegate(t, x)
    BY <1>2, <2>1
  <2>3. QED BY <1>1, <1>3, <2>2, DelegateStep
<1>5. CASE r.cur # "recursive"
  <2>1. (r.cur = "recursive") = FALSE
    BY <1>5
  <2>2. x \in Replies(r.server, r.q.name, r.type, FALSE) /\ Iterate(t, x)
    BY <1>2, <2>1
  <2>3. QED BY <1>1, <1>3, <1>5, <2>2, IterateStep
<1>6. QED BY <1>4, <1>5

\* The trace takes the same way down; whatever it ends with is right.
LEMMA TraceNextStep ==
  ASSUME IInv, NEW t \in Thread, TraceStep(t)
  PROVE  IInv'
<1>1. PICK r : r = th[t]
  OBVIOUS
<1>2. /\ Good(r) /\ r.pc = "trace" /\ r.type = "A"
      /\ Down(r.server, r.hops, r.q.name)
      /\ r.q \in Query /\ r.q.name \in Seq(STRING)
  BY <1>1, RequestFacts DEF IInv, TraceStep, Good
<1>3. r.server \in {"root", "tld", "auth"} /\ (r.server = "auth" => GetSld(r.q.name) = "exam")
  BY <1>2 DEF Down
<1>4. UNCHANGED <<now, mode, rootFlag, cache>>
  BY DEF TraceStep
<1>5. PICK x \in Replies(r.server, r.q.name, "A", TRUE) \cup {None} :
        th' = [th EXCEPT ![t] =
          IF x = None THEN Finish(r, "ERROR", {})
          ELSE IF x.answers # {} THEN Finish(r, "NOERROR", x.answers)
          ELSE IF x.next = None
            THEN Finish(r, IF x.rcode = "NXDOMAIN" THEN x.rcode ELSE "NO_NS", {})
          ELSE IF r.hops = 5 THEN Finish(r, "ERROR", {})
          ELSE Follow(r, x.next)]
  BY <1>1 DEF TraceStep
<1>6. PICK f :
        /\ th' = [th EXCEPT ![t] = f]
        /\ \/ f = Finish(r, "ERROR", {})
           \/ x # None /\ x.answers # {} /\ f = Finish(r, "NOERROR", x.answers)
           \/ x # None /\ x.rcode = "NXDOMAIN" /\ f = Finish(r, "NXDOMAIN", {})
           \/ f = Finish(r, "NO_NS", {})
           \/ x # None /\ x.next # None /\ f = Follow(r, x.next)
  BY <1>5
<1>7. x # None => RightReply(x, r.server, r.q.name, "A", TRUE)
  BY <1>2, <1>3, ReplyFacts
<1>8. Good(f)
  <2>1. CASE f = Finish(r, "ERROR", {}) \/ f = Finish(r, "NO_NS", {})
    BY <1>2, <2>1, GoodFinish DEF Right
  <2>2. CASE x # None /\ x.answers # {} /\ f = Finish(r, "NOERROR", x.answers)
    <3>1. x.answers \in SUBSET RR /\ x.answers = Records(r.q.name, "A")
      BY <1>7, <2>2 DEF RightReply
    <3>2. Right(r.q, r.type, "NOERROR", x.answers)
      BY <2>2, <3>1 DEF Right
    <3>3. QED BY <1>2, <2>2, <3>1, <3>2, GoodFinish
  <2>3. CASE x # None /\ x.rcode = "NXDOMAIN" /\ f = Finish(r, "NXDOMAIN", {})
    <3>1. Right(r.q, r.type, "NXDOMAIN", {})
      BY <1>7, <2>3 DEF RightReply, Right
    <3>2. QED BY <1>2, <2>3, <3>1, GoodFinish
  <2>4. CASE x # None /\ x.next # None /\ f = Follow(r, x.next)
    <3>1. /\ x.next = IF r.server = "root" THEN "tld" ELSE "auth"
          /\ r.server # "auth" /\ (r.server = "tld" => GetSld(r.q.name) = "exam")
      BY <1>7, <2>4 DEF RightReply
    <3>2. QED BY <1>2, <2>4, <3>1, GoodFollow
  <2>5. QED BY <1>6, <2>1, <2>2, <2>3, <2>4
<1>9. QED BY <1>4, <1>6, <1>8, OneRequest

LEMMA OtherSteps ==
  ASSUME IInv, Switch \/ Tick \/ UNCHANGED vars
  PROVE  IInv'
<1>1. UNCHANGED <<cache, th>>
  BY DEF Switch, Tick, vars
<1>2. now' \in Nat /\ mode' \in {"iterative", "recursive"} /\ rootFlag' \in BOOLEAN
  <2>1. CASE Switch
    <3>1. now' \in Nat /\ rootFlag' \in {rootFlag, ~rootFlag}
      BY <2>1 DEF IInv, Switch
    <3>2. mode' \in {"iterative", "recursive"}
      BY <2>1 DEF IInv, Switch
    <3>3. QED BY <3>1, <3>2 DEF IInv
  <2>2. CASE Tick \/ UNCHANGED vars
    BY <2>2 DEF IInv, Tick, vars
  <2>3. QED BY <2>1, <2>2
<1>3. QED BY <1>1, <1>2 DEF IInv

-----------------------------------------------------------------------------
(* The theorems.                                                           *)

\* The invariant holds in every reachable state.
THEOREM Inductive == Spec => []IInv
<1>1. Init => IInv
  BY Start
<1>2. IInv /\ [Next]_vars => IInv'
  <2> SUFFICES ASSUME IInv, [Next]_vars PROVE IInv'
    OBVIOUS
  <2>1. ASSUME NEW t \in Thread, NEW q \in Query, Request(t, q) \/ StartTrace(t, q)
        PROVE  IInv'
    BY <2>1, RequestStep, StartTraceStep
  <2>2. ASSUME NEW t \in Thread, Step(t)
        PROVE  IInv'
    BY <2>2, RelayStep, ReloadModeStep, CacheGetStep, CacheDeleteStep, QueryLostStep,
       QueryAnsweredStep, TraceNextStep DEF Step
  <2>3. QED BY <2>1, <2>2, OtherSteps DEF Next
<1>3. QED BY <1>1, <1>2, PTL DEF Spec

\* Every variable keeps its type, and no walk asks more than three servers, so
\* that the limits of resolver_server.py and admin_server.py never decide.
THEOREM TypeCorrect == Spec => []TypeOK
<1>1. IInv => TypeOK
  BY DEF IInv, GoodEntry, Good, RequestState, Pcs, Servers, Hops, TypeOK
<1>2. QED BY <1>1, Inductive, PTL

\* Whatever the modes, the threads that share the cache, and the servers that do
\* not answer: addresses, NXDOMAIN and the entries of the cache are the zone's.
THEOREM AnswersCorrect == Spec => []AnswerCorrect
<1>1. IInv => AnswerCorrect
  <2> SUFFICES ASSUME IInv PROVE AnswerCorrect
    OBVIOUS
  <2>1. \A k \in DOMAIN cache : cache[k] # None =>
           cache[k].rrs # {} /\ cache[k].rrs = Records(k[1], k[2])
    BY DEF IInv, GoodEntry
  <2>2. ASSUME NEW t \in Thread, th[t].pc = "done", th[t].q.rd
        PROVE  Right(th[t].q, th[t].type, th[t].rcode, th[t].rrs)
    BY <2>2 DEF IInv, Good
  <2>3. QED BY <2>1, <2>2 DEF AnswerCorrect, Right
<1>2. QED BY <1>1, Inductive, PTL

\* A query fails only for a server that did not answer, a race for an expired
\* entry, or a name without records of the type.
THEOREM FailuresJustified == Spec => []ServfailJustified
<1>1. IInv => ServfailJustified
  BY DEF IInv, Good, Empty, ServfailJustified
<1>2. QED BY <1>1, Inductive, PTL
=============================================================================
