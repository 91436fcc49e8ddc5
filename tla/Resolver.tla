------------------------------ MODULE Resolver ------------------------------
(***************************************************************************)
(* Name resolution: the resolver (resolver_server.py), whose threads, one  *)
(* per request, share a cache without a lock, walks root, TLD and          *)
(* authoritative servers, or asks the root to walk for it, as a file that  *)
(* the dashboard rewrites at run time says.  The administrator's trace     *)
(* walks the same servers.  Names are in lower case, without a final dot.  *)
(***************************************************************************)
EXTENDS Naturals, Sequences, SequencesExt

CONSTANTS
  Thread, None,
  Query,          \* what clients ask: [name, type, rd]
  Ttl,            \* 300 s
  MaxTime, MaxQueries, MaxSwitches

ASSUME ResolverConstants ==
  /\ None \notin {"root", "tld", "auth"}
  /\ Query \subseteq [name : Seq(STRING), type : STRING, rd : BOOLEAN]
  /\ Ttl \in Nat \ {0}

VARIABLES
  now,
  mode,           \* /tmp/dns_mode.json of the resolver
  rootFlag,       \* /tmp/dns_recursive.json of the root
  cache,          \* _cache: records and expiry of a name and a type
  th,             \* the requests: one thread each
  left            \* queries and switches still to come (bounds)

vars == <<now, mode, rootFlag, cache, th, left>>

-----------------------------------------------------------------------------
(* The servers of the hierarchy. *)

Reply(rcode, aa, answers, next) ==
  [rcode |-> rcode, aa |-> aa, answers |-> answers, next |-> next]

NxDomain == Reply("NXDOMAIN", FALSE, {}, None)

\* root_server.py: the delegation of lan, or NXDOMAIN.
GetTld(name) == IF name = <<>> THEN "" ELSE Last(name)
RootReply(name) ==
  IF GetTld(name) = "lan" THEN Reply("NOERROR", FALSE, {}, "tld") ELSE NxDomain

\* tld_server.py: the delegation of exam.lan, or NXDOMAIN.
GetSld(name) ==
  IF Len(name) >= 2 /\ Last(name) = "lan" THEN name[Len(name) - 1] ELSE ""
\* A plausible slip: the glue names the TLD server itself.
TldReplyLame(name) ==
  IF GetSld(name) = "exam" THEN Reply("NOERROR", FALSE, {}, "tld") ELSE NxDomain

TldReply(name) ==
  IF GetSld(name) = "exam" THEN Reply("NOERROR", FALSE, {}, "auth") ELSE NxDomain

\* auth_server.py: the zone, as records of a label.
A(data) == [type |-> "A", data |-> data]
Zone == [label \in {"@", "ns1", "server", "server1", "tcp-sync"} |->
  CASE label = "@"        -> {[type |-> "SOA", data |-> "serial"],
                              [type |-> "NS", data |-> "ns1.exam.lan"]}
    [] label = "ns1"      -> {A("10.99.0.12")}
    [] label = "server"   -> {A("10.99.0.20"), A("10.99.0.21"), A("10.99.0.22")}
    [] label = "server1"  -> {A("10.99.0.20")}
    [] label = "tcp-sync" -> {A("10.99.0.23")}]

\* The label of a name below exam.lan, "" outside; deeper names have none.
Label(name) ==
  IF name = <<"exam", "lan">> THEN "@"
  ELSE IF Len(name) = 3 /\ Tail(name) = <<"exam", "lan">> THEN Head(name) ELSE ""

\* Records of a name, {} when it has none or does not exist.
Records(name, type) ==
  IF Label(name) \notin DOMAIN Zone THEN {}
  ELSE {r \in Zone[Label(name)] : type = "ANY" \/ (type = "A" /\ r.type = "A")}

\* The reverse map answers whoever asks this server itself.
PtrReply(name) ==
  IF IsSuffix(<<"in-addr", "arpa">>, name) /\ Head(name) \in {"1", "2", "3", "12", "20", "21", "22", "23", "24"}
    THEN Reply("NOERROR", TRUE, {[type |-> "PTR", data |-> Head(name)]}, None)
    ELSE Reply("NOERROR", TRUE, {}, None)

AuthReply(name, type) ==
  IF type = "PTR" THEN PtrReply(name)
  ELSE IF Label(name) \notin DOMAIN Zone THEN NxDomain
  ELSE Reply("NOERROR", TRUE, Records(name, type), None)

OfType(rrs, type) == {r \in rrs : r.type = type}

\* What the root finds when it walks itself: None when a server of the walk
\* does not answer or has no such record, and it falls back on the referral.
RecursiveResolve(name, type) ==
  LET t == TldReply(name)
      a == AuthReply(name, type)
  IN IF t.rcode = "NXDOMAIN" \/ a.rcode = "NXDOMAIN" THEN {NxDomain, None}
     ELSE IF OfType(a.answers, type) = {} THEN {None}
     ELSE {None, Reply("NOERROR", FALSE, OfType(a.answers, type), None)}

HandleRecursive(name, type) ==
  {IF r = None THEN RootReply(name) ELSE r : r \in RecursiveResolve(name, type)}

\* What a query to a server may return.
Replies(server, name, type, rd) ==
  CASE server = "root" ->
         IF rd /\ rootFlag /\ RootReply(name) # NxDomain
           THEN HandleRecursive(name, type) ELSE {RootReply(name)}
    [] server = "tld"  -> {TldReply(name)}
    [] server = "auth" -> {AuthReply(name, type)}

-----------------------------------------------------------------------------
(* The resolver's threads. *)

Idle == [pc |-> "idle", q |-> None, type |-> None, fn |-> None, cur |-> None,
         server |-> None, hops |-> 0, rcode |-> None, rrs |-> {},
         excuse |-> FALSE]

\* RESOLUTION_MODE is the start's choice; docker-compose.yml starts the root
\* with RECURSIVE_CAPABLE=0.
Init ==
  /\ now = 0
  /\ mode \in {"iterative", "recursive"} /\ rootFlag = FALSE
  /\ cache = [k \in {<<q.name, q.type>> : q \in Query}
                      \cup {<<q.name, "CNAME">> : q \in Query} |-> None]
  /\ th = [t \in Thread |-> Idle]
  /\ left = [queries |-> MaxQueries, switches |-> MaxSwitches]

Finish(r, rcode, rrs) ==
  [r EXCEPT !.pc = "done", !.cur = None, !.hops = 0, !.rcode = rcode, !.rrs = rrs]

Key(t) == <<th[t].q.name, th[t].type>>

\* Threads take one request each, and leave: the same thread may stand for
\* several in turn.
Request(t, q) ==
  /\ th[t].pc \in {"idle", "done"}
  /\ left.queries > 0
  /\ left' = [left EXCEPT !.queries = @ - 1]
  /\ th' = [th EXCEPT ![t] =
       [Idle EXCEPT !.q = q, !.type = q.type, !.server = "root",
          !.pc = IF q.rd THEN "mode" ELSE "relay"]]
  /\ UNCHANGED <<now, mode, rootFlag, cache>>

\* Without RD the root's own reply is handed on, or an empty one.
Relay(t) ==
  /\ th[t].pc = "relay"
  /\ \E r \in Replies("root", th[t].q.name, th[t].type, FALSE) :
       th' = [th EXCEPT ![t] = Finish(@, "NOERROR", r.answers)]
  /\ UNCHANGED <<now, mode, rootFlag, cache, left>>

\* _resolve_with_cname chooses the way to resolve once for both its queries.
ReloadMode(t) ==
  /\ th[t].pc = "mode"
  /\ th' = [th EXCEPT ![t].pc = "get", ![t].fn = mode, ![t].cur = mode]
  /\ UNCHANGED <<now, mode, rootFlag, cache, left>>

\* A name or type that is answered: a positive answer without records is asked
\* again as CNAME (no record of the zone is one: nothing is ever chained).
Answered(r, rrs, rcode) ==
  IF rcode = "NOERROR" /\ rrs = {} /\ r.type # "CNAME"
    THEN [r EXCEPT !.pc = "get", !.type = "CNAME", !.cur = r.fn,
                   !.server = "root", !.hops = 0]
    ELSE Finish(r, IF r.type = "CNAME" THEN "NOERROR" ELSE rcode, rrs)

\* The next query goes where a referral points.
Follow(r, next) == [r EXCEPT !.server = next, !.hops = @ + 1]

Ask(r) == [r EXCEPT !.pc = "ask", !.server = "root", !.hops = 0]

\* _cache_get looks first and deletes afterwards.
CacheGet(t) ==
  /\ th[t].pc = "get"
  /\ th' = [th EXCEPT ![t] =
       LET e == cache[Key(t)] IN
         IF e = None THEN Ask(@)
         ELSE IF now > e.expires THEN [@ EXCEPT !.pc = "delete"]
         ELSE Answered(@, e.rrs, "NOERROR")]
  /\ UNCHANGED <<now, mode, rootFlag, cache, left>>

\* del raises KeyError when another thread was faster, and the client is told
\* that the server failed.
CacheDelete(t) ==
  /\ th[t].pc = "delete"
  /\ IF cache[Key(t)] = None
       THEN /\ th' = [th EXCEPT ![t] =
                 [Finish(@, "SERVFAIL", {}) EXCEPT !.excuse = TRUE]]
            /\ UNCHANGED cache
       ELSE /\ th' = [th EXCEPT ![t] = Ask(@)]
            /\ cache' = [cache EXCEPT ![Key(t)] = None]
  /\ UNCHANGED <<now, mode, rootFlag, left>>

\* A plausible slip: what a referral's server returned is kept unfiltered.
CachePutAll(t, rrs) ==
  cache' = [cache EXCEPT ![Key(t)] = [rrs |-> rrs, expires |-> now + Ttl]]

CachePut(t, rrs) ==
  cache' = IF rrs = {} THEN cache
           ELSE [cache EXCEPT ![Key(t)] = [rrs |-> rrs, expires |-> now + Ttl]]

\* No answer within 3 s, over UDP or TCP.
QueryLost(t) ==
  /\ th[t].pc = "ask"
  /\ th' = [th EXCEPT ![t] =
       IF @.cur = "recursive" THEN [@ EXCEPT !.pc = "get", !.cur = "iterative"]
       ELSE Answered([@ EXCEPT !.excuse = TRUE], {}, "SERVFAIL")]
  /\ UNCHANGED <<now, mode, rootFlag, cache, left>>

\* _resolve_iterative after a reply.
Iterate(t, r) ==
  LET rrs == OfType(r.answers, th[t].type) IN
  IF r.rcode = "NXDOMAIN"
    THEN th' = [th EXCEPT ![t] = Answered(@, {}, "NXDOMAIN")] /\ UNCHANGED cache
  ELSE IF r.aa /\ r.answers # {}
    THEN th' = [th EXCEPT ![t] = Answered(@, rrs, "NOERROR")] /\ CachePut(t, rrs)
  ELSE /\ th' = [th EXCEPT ![t] =
            IF r.next = None \/ @.hops = 15 THEN Answered(@, {}, "SERVFAIL")
            ELSE Follow(@, r.next)]
       /\ UNCHANGED cache

\* A plausible slip: a referral from the root counts as its failure.
DelegateOnly(t, r) ==
  LET rrs == OfType(r.answers, th[t].type) IN
  /\ th' = [th EXCEPT ![t] =
       IF rrs = {} THEN Answered(@, {}, IF r.rcode = "NOERROR" THEN "SERVFAIL" ELSE r.rcode)
       ELSE Answered(@, rrs, "NOERROR")]
  /\ CachePut(t, rrs)

\* A plausible slip: the fallback asks the root to walk once more.
DelegateAgain(t, r) ==
  LET rrs == OfType(r.answers, th[t].type) IN
  IF r.rcode = "NXDOMAIN"
    THEN th' = [th EXCEPT ![t] = Answered(@, {}, "NXDOMAIN")] /\ UNCHANGED cache
  ELSE IF rrs = {} THEN th' = [th EXCEPT ![t].pc = "get"] /\ UNCHANGED cache
  ELSE th' = [th EXCEPT ![t] = Answered(@, rrs, "NOERROR")] /\ CachePut(t, rrs)

\* _resolve_recursive_delegate after a reply: without an answer it starts over.
Delegate(t, r) ==
  LET rrs == OfType(r.answers, th[t].type) IN
  IF r.rcode = "NXDOMAIN"
    THEN th' = [th EXCEPT ![t] = Answered(@, {}, "NXDOMAIN")] /\ UNCHANGED cache
  ELSE IF rrs = {}
    THEN /\ th' = [th EXCEPT ![t].pc = "get", ![t].cur = "iterative"]
         /\ UNCHANGED cache
  ELSE th' = [th EXCEPT ![t] = Answered(@, rrs, "NOERROR")] /\ CachePut(t, rrs)

QueryAnswered(t) ==
  /\ th[t].pc = "ask"
  /\ \E r \in Replies(th[t].server, th[t].q.name, th[t].type,
                      th[t].cur = "recursive") :
       IF th[t].cur = "recursive" THEN Delegate(t, r) ELSE Iterate(t, r)
  /\ UNCHANGED <<now, mode, rootFlag, left>>

-----------------------------------------------------------------------------
(* The administrator's trace, the dashboard's switches, time. *)

StartTrace(t, q) ==
  /\ th[t].pc \in {"idle", "done"} /\ left.queries > 0
  /\ q.rd /\ q.type = "A"
  /\ left' = [left EXCEPT !.queries = @ - 1]
  /\ th' = [th EXCEPT ![t] = [Idle EXCEPT !.pc = "trace", !.fn = "trace",
                                          !.server = "root", !.q = q, !.type = "A"]]
  /\ UNCHANGED <<now, mode, rootFlag, cache>>

\* _dns_iterative_trace: six servers at most, an answer whatever its flags.  The
\* flags of its queries, 0x0100, ask for recursion.
TraceStep(t) ==
  /\ th[t].pc = "trace"
  /\ \E r \in Replies(th[t].server, th[t].q.name, "A", TRUE) \cup {None} :
       th' = [th EXCEPT ![t] =
         IF r = None THEN Finish(@, "ERROR", {})
         ELSE IF r.answers # {} THEN Finish(@, "NOERROR", r.answers)
         ELSE IF r.next = None
           THEN Finish(@, IF r.rcode = "NXDOMAIN" THEN r.rcode ELSE "NO_NS", {})
         ELSE IF @.hops = 5 THEN Finish(@, "ERROR", {})
         ELSE Follow(@, r.next)]
  /\ UNCHANGED <<now, mode, rootFlag, cache, left>>

\* The dashboard writes the two files one after the other.
Switch ==
  /\ left.switches > 0
  /\ left' = [left EXCEPT !.switches = @ - 1]
  /\ \/ mode' \in {"iterative", "recursive"} \ {mode} /\ UNCHANGED rootFlag
     \/ rootFlag' = ~rootFlag /\ UNCHANGED mode
  /\ UNCHANGED <<now, cache, th>>

Tick ==
  /\ now < MaxTime
  /\ now' = now + 1
  /\ UNCHANGED <<mode, rootFlag, cache, th, left>>

Step(t) ==
  \/ Relay(t) \/ ReloadMode(t) \/ CacheGet(t) \/ CacheDelete(t)
  \/ QueryLost(t) \/ QueryAnswered(t) \/ TraceStep(t)

Next ==
  \/ \E t \in Thread : \/ \E q \in Query : Request(t, q) \/ StartTrace(t, q)
                       \/ Step(t)
  \/ Switch \/ Tick

Spec == Init /\ [][Next]_vars

\* Threads run, and every query has its time-out.
FairSpec == Spec /\ \A t \in Thread : WF_vars(Step(t))

-----------------------------------------------------------------------------
(* Properties *)

Exists(name) == Label(name) \in DOMAIN Zone

\* Every variable keeps its type; a walk asks three servers at most, so that
\* neither the resolver's limit of 16 nor the trace's of 6 ever decides.
TypeOK ==
  /\ now \in Nat /\ mode \in {"iterative", "recursive"} /\ rootFlag \in BOOLEAN
  /\ \A k \in DOMAIN cache : cache[k] # None => cache[k].expires \in Nat
  /\ \A t \in Thread :
       /\ th[t].pc \in {"idle", "mode", "relay", "get", "delete", "ask", "trace",
                        "done"}
       /\ th[t].server \in {None, "root", "tld", "auth"}
       /\ th[t].hops \in 0 .. 2

\* Whatever the mode, the cache, the switches and the servers that fail, an
\* answer is right: an address query that succeeds returns exactly the
\* records of the zone, NXDOMAIN is said only of names that do not exist, and
\* the cache holds nothing else.  The trace agrees.
AnswerCorrect ==
  /\ \A k \in DOMAIN cache : cache[k] # None =>
       cache[k].rrs # {} /\ cache[k].rrs = Records(k[1], k[2])
  /\ \A t \in Thread : th[t].pc = "done" /\ th[t].q.rd =>
       /\ th[t].rcode = "NXDOMAIN" => ~Exists(th[t].q.name)
       /\ th[t].rcode = "NOERROR" /\ th[t].type = "A" =>
            th[t].rrs # {} /\ th[t].rrs = Records(th[t].q.name, "A")

\* The resolver fails a query only because a server did not answer, or because
\* the name has no record of that type, or because two threads found the same
\* entry expired.  A name that does not exist is told so, but not to who asks
\* for its PTR record, which the authoritative server seeks in its reverse map.
ServfailJustified ==
  \A t \in Thread : th[t].pc = "done" /\ th[t].rcode = "SERVFAIL" =>
    \/ th[t].excuse
    \/ /\ Exists(th[t].q.name) \/ th[t].q.type = "PTR"
       /\ Records(th[t].q.name, th[t].q.type) = {}

\* Every request is answered: no walk, fallback or alias goes round for ever.
EveryQueryAnswered ==
  \A t \in Thread : th[t].pc \notin {"idle", "done"} ~> th[t].pc = "done"
=============================================================================
