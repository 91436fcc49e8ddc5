------------------------------ MODULE DhcpProofs ------------------------------
(***************************************************************************)
(* Proofs about Dhcp for every number of clients and addresses, every      *)
(* lease time and any number of restarts.                                  *)
(***************************************************************************)
EXTENDS Dhcp, TLAPS

-----------------------------------------------------------------------------
(* Lemmas about the tables.                                                *)

\* The empty table.
LEMMA EmptyTable ==
  /\ DOMAIN <<>> = {}
  /\ \A S, T : Partial(<<>>, S, T)
BY DEF Partial

\* What cleanup_leases leaves: the leases that have not expired, and two
\* indexes that still agree.
LEMMA CleanupFacts ==
  ASSUME TypeOK, SameLeases(byMac, byIp)
  PROVE  /\ Partial(Current(byMac), Mac, Lease)
         /\ Partial(CurrentByIp, Ip, Mac)
         /\ DOMAIN Current(byMac) = {m \in DOMAIN byMac : byMac[m].exp > now}
         /\ \A m \in DOMAIN Current(byMac) : Current(byMac)[m] = byMac[m]
         /\ DOMAIN CurrentByIp \subseteq DOMAIN byIp
         /\ \A ip \in DOMAIN CurrentByIp : CurrentByIp[ip] = byIp[ip]
         /\ SameLeases(Current(byMac), CurrentByIp)
         /\ Partial(Current(offers), Mac, Offer)
         /\ DOMAIN Current(offers) \subseteq DOMAIN offers
         /\ \A m \in DOMAIN Current(offers) : Current(offers)[m] = offers[m]
<1> DEFINE kept == {m \in DOMAIN byMac : byMac[m].exp > now}
           left == {ip \in DOMAIN byIp :
                      \A m \in DOMAIN byMac : byMac[m].exp <= now => byMac[m].ip # ip}
<1>1. /\ Partial(byMac, Mac, Lease)
      /\ Partial(byIp, Ip, Mac)
      /\ Partial(offers, Mac, Offer)
      /\ now \in Nat
  BY DEF TypeOK
<1>2. /\ Partial(Current(byMac), Mac, Lease)
      /\ DOMAIN Current(byMac) = kept
      /\ \A m \in kept : Current(byMac)[m] = byMac[m]
  BY <1>1 DEF Current, Restricted, Partial
<1>3. /\ Partial(CurrentByIp, Ip, Mac)
      /\ DOMAIN CurrentByIp = left
      /\ \A ip \in left : CurrentByIp[ip] = byIp[ip]
  BY <1>1 DEF CurrentByIp, Restricted, Partial
<1>4. /\ Partial(Current(offers), Mac, Offer)
      /\ DOMAIN Current(offers) \subseteq DOMAIN offers
      /\ \A m \in DOMAIN Current(offers) : Current(offers)[m] = offers[m]
  BY <1>1 DEF Current, Restricted, Partial
<1>5. \A m \in DOMAIN byMac : byMac[m].exp \in Nat
  BY <1>1 DEF Partial, Lease
<1>6. \A m \in kept : byMac[m].ip \in left /\ byIp[byMac[m].ip] = m
  BY <1>1, <1>5 DEF SameLeases
<1>7. \A ip \in left : byIp[ip] \in kept /\ byMac[byIp[ip]].ip = ip
  BY <1>1, <1>5 DEF SameLeases
<1>8. SameLeases(Current(byMac), CurrentByIp)
  BY <1>2, <1>3, <1>6, <1>7 DEF SameLeases
<1>9. QED BY <1>2, <1>3, <1>4, <1>8

\* Of two tables with the same live leases, the live leases stay the same as
\* time passes.
LEMMA LiveLater ==
  ASSUME NEW bm, NEW t \in Nat, NEW u \in Nat, t <= u, Partial(bm, Mac, Lease)
  PROVE  Live(bm, u) = [m \in Mac |-> {l \in Live(bm, t)[m] : l.exp > u}]
<1>1. \A m \in Mac : m \in DOMAIN bm => bm[m].exp \in Nat
  BY DEF Partial, Lease
<1>2. ASSUME NEW m \in Mac
      PROVE  Live(bm, u)[m] = {l \in Live(bm, t)[m] : l.exp > u}
  <2>1. CASE m \in DOMAIN bm
    BY <1>1, <2>1 DEF Live
  <2>2. CASE m \notin DOMAIN bm
    BY <2>2 DEF Live
  <2>3. QED BY <2>1, <2>2
<1>3. QED BY <1>2 DEF Live

\* Cleaning up takes no live lease away.
LEMMA LiveCurrent ==
  ASSUME TypeOK, SameLeases(byMac, byIp)
  PROVE  Live(Current(byMac), now) = Live(byMac, now)
<1>1. \A m \in Mac : Live(Current(byMac), now)[m] = Live(byMac, now)[m]
  <2> SUFFICES ASSUME NEW m \in Mac
               PROVE  Live(Current(byMac), now)[m] = Live(byMac, now)[m]
    OBVIOUS
  <2>1. CASE m \in DOMAIN Current(byMac)
    BY <2>1, CleanupFacts DEF Live
  <2>2. CASE m \in DOMAIN byMac /\ m \notin DOMAIN Current(byMac)
    BY <2>2, CleanupFacts DEF Live
  <2>3. CASE m \notin DOMAIN byMac
    BY <2>3, CleanupFacts DEF Live
  <2>4. QED BY <2>1, <2>2, <2>3
<1>2. QED BY <1>1 DEF Live

-----------------------------------------------------------------------------
(* Steps.                                                                  *)

LEMMA InitInv == Init => IInv
<1> SUFFICES ASSUME Init PROVE IInv
  OBVIOUS
<1>1. Ip \subseteq Nat
  BY DEF Ip
<1>2. TypeOK
  BY <1>1, EmptyTable DEF Init, NoFile, TypeOK, Client
<1>3. IndexesAgree
  BY EmptyTable DEF Init, NoFile, IndexesAgree, SameLeases
<1>4. DiskAgrees
  BY DEF Init, NoFile, DiskAgrees
<1>5. OffersMatchLeases
  BY EmptyTable DEF Init, OffersMatchLeases
<1>6. QED BY <1>2, <1>3, <1>4, <1>5 DEF IInv

\* What a client does changes nothing the server has.
LEMMA ClientInv ==
  ASSUME IInv, NEW m \in Mac, ClientStep(m)
  PROVE  IInv'
<1>1. UNCHANGED <<srvVars, now>>
  BY DEF ClientStep, Discover, RunFails, Release, OnOffer, OnAck
<1>2. client' \in [Mac -> Client] /\ net' \subseteq Packet
  <2> USE DEF IInv, TypeOK
  <2>1. CASE Discover(m)
    <3>1. client[m].xid + 1 \in Nat
      BY DEF Client
    <3>2. QED BY <2>1, <3>1 DEF Discover, Client, Packet
  <2>2. CASE RunFails(m)
    BY <2>2 DEF RunFails, Client
  <2>3. CASE Release(m)
    BY <2>3 DEF Release, Client, Packet
  <2>4. ASSUME NEW ip \in Ip, OnOffer(m, ip)
        PROVE  client' \in [Mac -> Client] /\ net' \subseteq Packet
    <3>1. ip \in Nat
      BY DEF Ip
    <3>2. client[m] \in Client
      OBVIOUS
    <3>3. Request(m, client[m].xid, ip) \in Packet
      BY <3>2 DEF Client, Packet, Request
    <3>4. net' \subseteq Packet
      BY <2>4, <3>3 DEF OnOffer
    <3>5. [client[m] EXCEPT !.phase = "requesting", !.ip = ip] \in Client
      BY <3>1, <3>2 DEF Client
    <3>6. client' = [client EXCEPT ![m] =
                       [client[m] EXCEPT !.phase = "requesting", !.ip = ip]]
      BY <2>4, <3>2 DEF OnOffer, Client
    <3>7. QED BY <3>4, <3>5, <3>6
  <2>5. ASSUME NEW p \in net, OnAck(m, p)
        PROVE  client' \in [Mac -> Client] /\ net' \subseteq Packet
    <3>1. p \in Packet /\ p.kind = "ack"
      BY <2>5 DEF OnAck
    <3>2. p.ip \in Nat /\ p.exp \in Nat
      BY <3>1 DEF Packet, Ip
    <3>3. [client[m] EXCEPT !.phase = "bound", !.ip = p.ip, !.exp = p.exp] \in Client
      BY <3>2 DEF Client
    <3>4. client' = [client EXCEPT ![m] =
             [client[m] EXCEPT !.phase = "bound", !.ip = p.ip, !.exp = p.exp]]
      BY <2>5 DEF OnAck, Client
    <3>5. QED BY <2>5, <3>3, <3>4 DEF OnAck
  <2>6. QED BY <2>1, <2>2, <2>3, <2>4, <2>5 DEF ClientStep
<1>3. TypeOK'
  BY <1>1, <1>2 DEF IInv, TypeOK, srvVars
<1>4. IndexesAgree'
  BY <1>1 DEF IInv, IndexesAgree, srvVars
<1>5. DiskAgrees'
  BY <1>1 DEF IInv, DiskAgrees, srvVars
<1>6. OffersMatchLeases'
  BY <1>1 DEF IInv, OffersMatchLeases, srvVars
<1>7. QED BY <1>3, <1>4, <1>5, <1>6 DEF IInv

\* Time passes.
LEMMA TickInv ==
  ASSUME IInv, Tick
  PROVE  IInv'
<1>1. now \in Nat /\ now' = now + 1 /\ UNCHANGED <<srvVars, client, net>>
  BY DEF IInv, TypeOK, Tick
<1>2. TypeOK'
  BY <1>1 DEF IInv, TypeOK, srvVars
<1>3. IndexesAgree'
  BY <1>1 DEF IInv, IndexesAgree, srvVars
<1>4. DiskAgrees'
  <2>1. /\ now \in Nat /\ now' \in Nat /\ now <= now'
        /\ Partial(byMac, Mac, Lease) /\ Partial(disk.byMac, Mac, Lease)
    BY <1>1 DEF IInv, TypeOK
  <2>2. Live(byMac, now') = [m \in Mac |-> {l \in Live(byMac, now)[m] : l.exp > now'}]
    BY <2>1, LiveLater
  <2>3. Live(disk.byMac, now') =
          [m \in Mac |-> {l \in Live(disk.byMac, now)[m] : l.exp > now'}]
    <3> DEFINE saved == disk.byMac
    <3>1. Partial(saved, Mac, Lease)
      BY <2>1
    <3> HIDE DEF saved
    <3>2. Live(saved, now') = [m \in Mac |-> {l \in Live(saved, now)[m] : l.exp > now'}]
      BY <2>1, <3>1, LiveLater
    <3>3. QED BY <3>2 DEF saved
  <2>4. ~cleared => Live(byMac, now') = Live(disk.byMac, now')
    BY <2>2, <2>3 DEF IInv, DiskAgrees
  <2>5. QED BY <1>1, <2>4 DEF IInv, DiskAgrees, srvVars
<1>5. OffersMatchLeases'
  <2>1. \A m \in DOMAIN byMac : byMac[m].exp \in Nat
    BY DEF IInv, TypeOK, Partial, Lease
  <2>2. QED BY <1>1, <2>1 DEF IInv, OffersMatchLeases, srvVars
<1>6. QED BY <1>2, <1>3, <1>4, <1>5 DEF IInv

\* A restart: the file is the memory, and has the same live leases, or there is
\* no file, and then there are none.
LEMMA RestartInv ==
  ASSUME IInv, Restart
  PROVE  /\ IInv'
         /\ ~cleared => Live(byMac', now') = Live(byMac, now)
         /\ cleared => Live(byMac', now') = [m \in Mac |-> {}]
         /\ cleared' = FALSE
<1>1. /\ byMac' = disk.byMac /\ byIp' = disk.byIp /\ offers' = <<>>
      /\ restarts' \in Nat
      /\ cleared' = FALSE
      /\ lostUntil' \in {now + LeaseSec, lostUntil}
      /\ UNCHANGED <<disk, client, now, net>>
  BY DEF Restart, StartedWith, IInv, TypeOK
<1>2. TypeOK'
  <2>1. lostUntil' \in Nat
    BY <1>1, ConstantsAssumption DEF IInv, TypeOK
  <2>2. QED BY <1>1, <2>1, EmptyTable DEF IInv, TypeOK
<1>3. IndexesAgree'
  BY <1>1 DEF IInv, IndexesAgree
<1>4. ~cleared => Live(byMac', now') = Live(byMac, now)
  BY <1>1 DEF IInv, DiskAgrees
<1>5. cleared => Live(byMac', now') = [m \in Mac |-> {}]
  <2>1. cleared => byMac' = <<>>
    BY <1>1 DEF IInv, DiskAgrees, NoFile
  <2>2. QED BY <2>1, EmptyTable DEF Live
<1>6. DiskAgrees'
  BY <1>1 DEF DiskAgrees
<1>7. OffersMatchLeases'
  BY <1>1, EmptyTable DEF OffersMatchLeases
<1>8. QED BY <1>1, <1>2, <1>3, <1>4, <1>5, <1>6, <1>7 DEF IInv

\* The runner removes the file.
LEMMA ClearInv ==
  ASSUME IInv, ClearLeases
  PROVE  IInv'
<1>1. /\ disk' = NoFile /\ cleared' = TRUE
      /\ UNCHANGED <<byMac, byIp, offers, restarts, lostUntil, client, now, net>>
  BY DEF ClearLeases
<1>2. TypeOK'
  <2>1. /\ DOMAIN disk' = {"byMac", "byIp"}
        /\ disk'.byMac = <<>> /\ disk'.byIp = <<>>
    BY <1>1 DEF NoFile
  <2>2. QED BY <1>1, <2>1, EmptyTable DEF IInv, TypeOK
<1>3. IndexesAgree'
  <2>1. SameLeases(disk'.byMac, disk'.byIp)
    BY <1>1, EmptyTable DEF NoFile, SameLeases
  <2>2. QED BY <1>1, <2>1 DEF IInv, IndexesAgree
<1>4. DiskAgrees'
  BY <1>1 DEF DiskAgrees
<1>5. OffersMatchLeases'
  BY <1>1 DEF IInv, OffersMatchLeases
<1>6. QED BY <1>2, <1>3, <1>4, <1>5 DEF IInv

\* A packet that makes the server only clean up.
LEMMA BadRequestInv ==
  ASSUME IInv, NEW m \in Mac, NEW x \in Nat, NEW ip \in Ip, OnBadRequest(m, x, ip)
  PROVE  IInv' /\ Live(byMac', now') = Live(byMac, now)
<1>1. /\ byMac' = Current(byMac) /\ byIp' = CurrentByIp /\ offers' = Current(offers)
      /\ UNCHANGED <<disk, restarts, cleared, lostUntil, client, now>>
      /\ net' = net \cup {[kind |-> "nak", mac |-> m, xid |-> x]}
  BY DEF OnBadRequest, Cleanup
<1>2. TypeOK /\ SameLeases(byMac, byIp)
  BY DEF IInv, IndexesAgree
<1>3. TypeOK'
  BY <1>1, <1>2, CleanupFacts DEF TypeOK, Packet
<1>4. IndexesAgree'
  BY <1>1, <1>2, CleanupFacts DEF IInv, IndexesAgree
<1>5. Live(byMac', now') = Live(byMac, now)
  BY <1>1, <1>2, LiveCurrent
<1>6. DiskAgrees'
  BY <1>1, <1>5 DEF IInv, DiskAgrees
<1>7. OffersMatchLeases'
  BY <1>1, <1>2, CleanupFacts DEF IInv, OffersMatchLeases
<1>8. QED BY <1>3, <1>4, <1>5, <1>6, <1>7 DEF IInv

\* A request that is granted: its client had no other address, and the address
\* no other client.
LEMMA GrantFacts ==
  ASSUME IInv, NEW m \in Mac, NEW x \in Nat, NEW ip \in Ip, Grantable(m, x, ip)
  PROVE  /\ m \in DOMAIN Current(byMac) => byMac[m].ip = ip
         /\ \A n \in DOMAIN Current(byMac) \ {m} : byMac[n].ip # ip
<1>1. TypeOK /\ SameLeases(byMac, byIp)
  BY DEF IInv, IndexesAgree
<1>2. m \in DOMAIN Current(byMac) => byMac[m].ip = ip
  <2>1. CASE Leased(m, ip)
    BY <2>1 DEF Leased
  <2>2. CASE Offered(m, x, ip)
    <3>1. m \in DOMAIN offers /\ offers[m].ip = ip
      BY <2>2, <1>1, CleanupFacts DEF Offered
    <3>2. QED BY <3>1, <1>1, CleanupFacts DEF IInv, OffersMatchLeases
  <2>3. QED BY <2>1, <2>2 DEF Grantable
<1>3. ASSUME NEW n \in DOMAIN Current(byMac) \ {m}, byMac[n].ip = ip
      PROVE  FALSE
  <2>1. ip \in DOMAIN CurrentByIp /\ byIp[ip] = n
    BY <1>1, <1>3, CleanupFacts DEF SameLeases
  <2>2. QED BY <2>1, <1>3 DEF Grantable, Taken
<1>4. QED BY <1>2, <1>3

LEMMA RequestInv ==
  ASSUME IInv, NEW m \in Mac, NEW x \in Nat, NEW ip \in Ip, OnRequest(m, x, ip)
  PROVE  /\ IInv'
         /\ Live(byMac', now') =
              [Live(byMac, now) EXCEPT ![m] = {[ip |-> ip, exp |-> now + LeaseSec]}]
         /\ now' = now /\ cleared' = FALSE
<1> DEFINE lease == [ip |-> ip, exp |-> now + LeaseSec]
           old == Current(byMac)
           oldIp == CurrentByIp
<1>1. /\ byMac' = Extended(old, m, lease) /\ byIp' = Extended(oldIp, ip, m)
      /\ disk' = [byMac |-> byMac', byIp |-> byIp']
      /\ offers' = Restricted(Current(offers), Mac \ {m})
      /\ net' = net \cup {[kind |-> "ack", mac |-> m, xid |-> x, ip |-> ip,
                           exp |-> now + LeaseSec]}
      /\ cleared' = FALSE
      /\ UNCHANGED <<restarts, lostUntil, client, now>>
  BY DEF OnRequest
<1>2. TypeOK /\ SameLeases(byMac, byIp)
  BY DEF IInv, IndexesAgree
<1>3. /\ Partial(old, Mac, Lease)
      /\ DOMAIN old = {n \in DOMAIN byMac : byMac[n].exp > now}
      /\ \A n \in DOMAIN old : old[n] = byMac[n]
      /\ Partial(oldIp, Ip, Mac)
      /\ SameLeases(old, oldIp)
      /\ Partial(Current(offers), Mac, Offer)
      /\ DOMAIN Current(offers) \subseteq DOMAIN offers
      /\ \A n \in DOMAIN Current(offers) : Current(offers)[n] = offers[n]
      /\ Live(old, now) = Live(byMac, now)
  BY <1>2, CleanupFacts, LiveCurrent
<1>4. /\ m \in DOMAIN old => old[m].ip = ip
      /\ \A n \in DOMAIN old \ {m} : old[n].ip # ip
  BY <1>3, GrantFacts DEF OnRequest
<1>5. lease \in Lease /\ lease.exp > now /\ lease.ip = ip
  BY <1>2, ConstantsAssumption DEF TypeOK, Lease
<1> HIDE DEF lease, old, oldIp
<1>6. /\ Partial(byMac', Mac, Lease)
      /\ DOMAIN byMac' = DOMAIN old \cup {m}
      /\ byMac'[m] = lease
      /\ \A n \in DOMAIN old \ {m} : byMac'[n] = old[n]
  BY <1>1, <1>3, <1>5 DEF Extended, Partial
<1>7. /\ Partial(byIp', Ip, Mac)
      /\ DOMAIN byIp' = DOMAIN oldIp \cup {ip}
      /\ byIp'[ip] = m
      /\ \A j \in DOMAIN oldIp \ {ip} : byIp'[j] = oldIp[j]
  BY <1>1, <1>3 DEF Extended, Partial
<1>8. /\ Partial(offers', Mac, Offer)
      /\ DOMAIN offers' \subseteq DOMAIN offers \ {m}
      /\ \A n \in DOMAIN offers' : offers'[n] = offers[n]
  BY <1>1, <1>3 DEF Restricted, Partial
<1>9. TypeOK'
  <2>1. [kind |-> "ack", mac |-> m, xid |-> x, ip |-> ip, exp |-> now + LeaseSec] \in Packet
    BY <1>2, ConstantsAssumption DEF TypeOK, Packet
  <2>2. net' \subseteq Packet
    BY <1>1, <1>2, <2>1 DEF TypeOK
  <2>3. /\ DOMAIN disk' = {"byMac", "byIp"}
        /\ Partial(disk'.byMac, Mac, Lease) /\ Partial(disk'.byIp, Ip, Mac)
    BY <1>1, <1>6, <1>7
  <2>4. QED BY <1>1, <1>2, <1>6, <1>7, <1>8, <2>2, <2>3 DEF TypeOK
<1>10. SameLeases(byMac', byIp')
  <2>1. ASSUME NEW n \in DOMAIN byMac'
        PROVE  byMac'[n].ip \in DOMAIN byIp' /\ byIp'[byMac'[n].ip] = n
    <3>1. CASE n = m
      BY <3>1, <1>5, <1>6, <1>7
    <3>2. CASE n # m
      BY <3>2, <2>1, <1>3, <1>4, <1>6, <1>7 DEF SameLeases
    <3>3. QED BY <3>1, <3>2
  <2>2. ASSUME NEW j \in DOMAIN byIp'
        PROVE  byIp'[j] \in DOMAIN byMac' /\ byMac'[byIp'[j]].ip = j
    <3>1. CASE j = ip
      BY <3>1, <1>5, <1>6, <1>7
    <3>2. CASE j # ip
      BY <3>2, <2>2, <1>3, <1>4, <1>6, <1>7 DEF SameLeases
    <3>3. QED BY <3>1, <3>2
  <2>3. QED BY <2>1, <2>2 DEF SameLeases
<1>11. IndexesAgree'
  BY <1>1, <1>10 DEF IndexesAgree
<1>12. DiskAgrees'
  BY <1>1 DEF DiskAgrees
<1>13. OffersMatchLeases'
  <2> SUFFICES ASSUME NEW n \in DOMAIN offers' \cap DOMAIN byMac', byMac'[n].exp > now'
               PROVE  offers'[n].ip = byMac'[n].ip
    BY DEF OffersMatchLeases
  <2>1. n \in DOMAIN offers /\ n \in DOMAIN old /\ n # m
    BY <1>6, <1>8
  <2>2. offers'[n] = offers[n] /\ byMac'[n] = byMac[n] /\ byMac[n].exp > now
    BY <2>1, <1>3, <1>6, <1>8
  <2>3. n \in DOMAIN byMac
    BY <2>1, <1>3
  <2>4. QED BY <2>1, <2>2, <2>3 DEF IInv, OffersMatchLeases
<1>14. Live(byMac', now') = [Live(byMac, now) EXCEPT ![m] = {lease}]
  <2>1. ASSUME NEW n \in Mac
        PROVE  Live(byMac', now)[n] = [Live(old, now) EXCEPT ![m] = {lease}][n]
    <3>1. CASE n = m
      BY <3>1, <1>5, <1>6 DEF Live
    <3>2. CASE n # m /\ n \in DOMAIN old
      BY <3>2, <1>6 DEF Live
    <3>3. CASE n # m /\ n \notin DOMAIN old
      BY <3>3, <1>6 DEF Live
    <3>4. QED BY <3>1, <3>2, <3>3
  <2>2. /\ Live(byMac', now) = [n \in Mac |-> Live(byMac', now)[n]]
        /\ Live(old, now) = [n \in Mac |-> Live(old, now)[n]]
    BY DEF Live
  <2>3. Live(byMac', now) = [Live(old, now) EXCEPT ![m] = {lease}]
    BY <2>1, <2>2
  <2>4. now' = now
    BY <1>1
  <2>5. QED BY <2>3, <2>4, <1>3
<1>15. QED BY <1>1, <1>9, <1>11, <1>12, <1>13, <1>14 DEF IInv, lease

\* A lease that is given up, if there is one.
LEMMA ReleaseInv ==
  ASSUME IInv, NEW m \in Mac, NEW x \in Nat, OnRelease(m, x)
  PROVE  /\ IInv'
         /\ Live(byMac', now') = [Live(byMac, now) EXCEPT ![m] = {}]
         /\ now' = now
         /\ cleared' = (cleared /\ Live(byMac, now)[m] = {})
<1> DEFINE old == Current(byMac)
           oldIp == CurrentByIp
           freed == {ip \in Ip : ~Leased(m, ip)}
<1>1. /\ byMac' = Restricted(old, Mac \ {m}) /\ byIp' = Restricted(oldIp, freed)
      /\ disk' = IF m \in DOMAIN old THEN [byMac |-> byMac', byIp |-> byIp'] ELSE disk
      /\ offers' = Current(offers)
      /\ cleared' = (cleared /\ m \notin DOMAIN old)
      /\ UNCHANGED <<restarts, lostUntil, client, now, net>>
  BY DEF OnRelease
<1>2. TypeOK /\ SameLeases(byMac, byIp)
  BY DEF IInv, IndexesAgree
<1>3. /\ Partial(old, Mac, Lease)
      /\ DOMAIN old = {n \in DOMAIN byMac : byMac[n].exp > now}
      /\ \A n \in DOMAIN old : old[n] = byMac[n]
      /\ Partial(oldIp, Ip, Mac)
      /\ SameLeases(old, oldIp)
      /\ Live(old, now) = Live(byMac, now)
  BY <1>2, CleanupFacts, LiveCurrent
<1>4. /\ Partial(offers', Mac, Offer)
      /\ DOMAIN offers' \subseteq DOMAIN offers
      /\ \A n \in DOMAIN offers' : offers'[n] = offers[n]
  BY <1>1, <1>2, CleanupFacts
<1>5. \A ip \in Ip : ip \in freed <=> ~(m \in DOMAIN old /\ old[m].ip = ip)
  BY <1>3 DEF Leased
<1> HIDE DEF old, oldIp, freed
<1>6. /\ Partial(byMac', Mac, Lease)
      /\ DOMAIN byMac' = DOMAIN old \ {m}
      /\ \A n \in DOMAIN byMac' : byMac'[n] = old[n]
  BY <1>1, <1>3 DEF Restricted, Partial
<1>7. /\ Partial(byIp', Ip, Mac)
      /\ DOMAIN byIp' = DOMAIN oldIp \cap freed
      /\ \A j \in DOMAIN byIp' : byIp'[j] = oldIp[j]
  BY <1>1, <1>3 DEF Restricted, Partial
<1>8. SameLeases(byMac', byIp')
  <2>1. ASSUME NEW n \in DOMAIN byMac'
        PROVE  byMac'[n].ip \in DOMAIN byIp' /\ byIp'[byMac'[n].ip] = n
    <3>1. n \in DOMAIN old /\ n # m /\ byMac'[n] = old[n]
      BY <2>1, <1>6
    <3>2. old[n].ip \in DOMAIN oldIp /\ oldIp[old[n].ip] = n
      BY <3>1, <1>3 DEF SameLeases
    <3>3. old[n].ip \in Ip
      BY <3>2, <1>3 DEF Partial
    <3>4. ~(m \in DOMAIN old /\ old[m].ip = old[n].ip)
      BY <3>1, <3>2, <1>3 DEF SameLeases
    <3>5. old[n].ip \in freed
      BY <3>3, <3>4, <1>5
    <3>6. QED BY <3>1, <3>2, <3>5, <1>7
  <2>2. ASSUME NEW j \in DOMAIN byIp'
        PROVE  byIp'[j] \in DOMAIN byMac' /\ byMac'[byIp'[j]].ip = j
    <3>1. j \in DOMAIN oldIp /\ j \in freed /\ j \in Ip /\ byIp'[j] = oldIp[j]
      BY <2>2, <1>7 DEF Partial
    <3>2. oldIp[j] \in DOMAIN old /\ old[oldIp[j]].ip = j
      BY <3>1, <1>3 DEF SameLeases
    <3>3. oldIp[j] # m
      BY <3>1, <3>2, <1>5
    <3>4. QED BY <3>1, <3>2, <3>3, <1>6
  <2>3. QED BY <2>1, <2>2 DEF SameLeases
<1>9. Live(byMac', now') = [Live(byMac, now) EXCEPT ![m] = {}]
  <2>1. ASSUME NEW n \in Mac
        PROVE  Live(byMac', now)[n] = [Live(old, now) EXCEPT ![m] = {}][n]
    <3>1. CASE n = m
      BY <3>1, <1>6 DEF Live
    <3>2. CASE n # m /\ n \in DOMAIN old
      BY <3>2, <1>6 DEF Live
    <3>3. CASE n # m /\ n \notin DOMAIN old
      BY <3>3, <1>6 DEF Live
    <3>4. QED BY <3>1, <3>2, <3>3
  <2>2. /\ Live(byMac', now) = [n \in Mac |-> Live(byMac', now)[n]]
        /\ Live(old, now) = [n \in Mac |-> Live(old, now)[n]]
    BY DEF Live
  <2>3. Live(byMac', now) = [Live(old, now) EXCEPT ![m] = {}]
    BY <2>1, <2>2
  <2>4. now' = now
    BY <1>1
  <2>5. QED BY <2>3, <2>4, <1>3
<1>10. TypeOK' /\ IndexesAgree' /\ DiskAgrees'
  <2>1. CASE m \in DOMAIN old
    <3>1. disk' = [byMac |-> byMac', byIp |-> byIp']
      BY <2>1, <1>1
    <3>2. /\ DOMAIN disk' = {"byMac", "byIp"}
          /\ disk'.byMac = byMac' /\ disk'.byIp = byIp'
      BY <3>1
    <3>3. cleared' = FALSE
      BY <2>1, <1>1
    <3>4. TypeOK'
      BY <1>1, <1>2, <1>4, <1>6, <1>7, <3>2, <3>3 DEF TypeOK
    <3>5. IndexesAgree' /\ DiskAgrees'
      BY <1>8, <3>2, <3>3 DEF IndexesAgree, DiskAgrees
    <3>6. QED BY <3>4, <3>5
  <2>2. CASE m \notin DOMAIN old
    <3>1. disk' = disk /\ cleared' = cleared
      BY <2>2, <1>1 DEF IInv, TypeOK
    <3>2. TypeOK'
      BY <1>1, <1>2, <1>4, <1>6, <1>7, <3>1 DEF TypeOK
    <3>3. IndexesAgree'
      BY <1>8, <3>1 DEF IInv, IndexesAgree
    <3>4. Live(old, now)[m] = {}
      BY <2>2 DEF Live
    <3>5. Live(byMac', now') = Live(byMac, now)
      BY <1>3, <1>9, <3>4 DEF Live
    <3>6. DiskAgrees'
      BY <1>1, <3>1, <3>5 DEF IInv, DiskAgrees
    <3>7. QED BY <3>2, <3>3, <3>6
  <2>3. QED BY <2>1, <2>2
<1>11. OffersMatchLeases'
  <2> SUFFICES ASSUME NEW n \in DOMAIN offers' \cap DOMAIN byMac', byMac'[n].exp > now'
               PROVE  offers'[n].ip = byMac'[n].ip
    BY DEF OffersMatchLeases
  <2>1. offers'[n] = offers[n] /\ byMac'[n] = byMac[n] /\ byMac[n].exp > now
    BY <1>1, <1>3, <1>4, <1>6
  <2>2. n \in DOMAIN byMac /\ n \in DOMAIN offers
    BY <1>3, <1>4, <1>6
  <2>3. QED BY <2>1, <2>2 DEF IInv, OffersMatchLeases
<1>12. cleared' = (cleared /\ Live(byMac, now)[m] = {})
  <2>1. m \in DOMAIN old <=> Live(old, now)[m] # {}
    BY <1>3 DEF Live
  <2>2. QED BY <2>1, <1>1, <1>3
<1>13. QED BY <1>1, <1>9, <1>10, <1>11, <1>12 DEF IInv

\* The address an offer is made of, when time has passed since the cleanup.
LEMMA DiscoverInv ==
  ASSUME IInv, NEW m \in Mac, NEW x \in Nat, OnDiscover(m, x)
  PROVE  /\ IInv'
         /\ now' \in {now, now + 1}
         /\ Live(byMac', now') = Live(byMac, now')
         /\ UNCHANGED <<cleared, lostUntil>>
<1> DEFINE old == Current(byMac)
           kept == Current(offers)
           held == {ip \in Ip : /\ m \in DOMAIN byMac
                                /\ byMac[m].ip = ip /\ byMac[m].exp > now'}
           choice == IF held # {} THEN held ELSE Lowest(Free)
<1>1. /\ byMac' = old /\ byIp' = CurrentByIp
      /\ now' \in {now, now + 1}
      /\ UNCHANGED <<disk, restarts, cleared, lostUntil, client>>
  BY DEF OnDiscover, Cleanup
<1>2. \/ offers' = kept /\ UNCHANGED net
      \/ \E ip \in choice :
           /\ offers' = Extended(kept, m, [ip |-> ip, xid |-> x, exp |-> now' + OfferTtl])
           /\ net' = net \cup {[kind |-> "offer", mac |-> m, xid |-> x, ip |-> ip]}
  BY DEF OnDiscover
<1>3. /\ TypeOK /\ SameLeases(byMac, byIp)
      /\ now \in Nat /\ now' \in Nat /\ now <= now'
  BY <1>1 DEF IInv, IndexesAgree, TypeOK
<1>4. /\ Partial(old, Mac, Lease)
      /\ DOMAIN old = {n \in DOMAIN byMac : byMac[n].exp > now}
      /\ \A n \in DOMAIN old : old[n] = byMac[n]
      /\ Partial(CurrentByIp, Ip, Mac)
      /\ SameLeases(old, CurrentByIp)
      /\ Live(old, now) = Live(byMac, now)
  BY <1>3, CleanupFacts, LiveCurrent
<1>5. /\ Partial(kept, Mac, Offer)
      /\ DOMAIN kept \subseteq DOMAIN offers
      /\ \A n \in DOMAIN kept : kept[n] = offers[n]
  BY <1>3, CleanupFacts
<1>6. \A n \in DOMAIN byMac : byMac[n].exp \in Nat
  BY <1>3 DEF TypeOK, Partial, Lease
<1>7. choice \subseteq Ip
  BY DEF Lowest, Free
<1>8. \A ip \in choice : (m \in DOMAIN byMac /\ byMac[m].exp > now') => byMac[m].ip = ip
  <2>1. m \in DOMAIN byMac => byMac[m].ip \in Ip
    BY <1>3 DEF TypeOK, Partial, Lease
  <2>2. QED BY <2>1
<1>9. now' + OfferTtl \in Nat
  <2>1. \A t \in Nat : t + OfferTtl \in Nat
    BY ConstantsAssumption
  <2>2. QED BY <1>3, <2>1
<1> HIDE DEF old, kept, held, choice
<1>10. IndexesAgree'
  BY <1>1, <1>4 DEF IInv, IndexesAgree
<1>11. Live(byMac', now') = Live(byMac, now')
  <2>1. Partial(byMac, Mac, Lease)
    BY <1>3 DEF TypeOK
  <2>2. /\ Live(byMac, now') = [n \in Mac |-> {l \in Live(byMac, now)[n] : l.exp > now'}]
        /\ Live(old, now') = [n \in Mac |-> {l \in Live(old, now)[n] : l.exp > now'}]
    BY <2>1, <1>3, <1>4, LiveLater
  <2>3. QED BY <2>2, <1>1, <1>4
<1>12. DiskAgrees'
  <2> DEFINE saved == disk.byMac
  <2>1. Partial(byMac, Mac, Lease) /\ Partial(saved, Mac, Lease)
    BY <1>3 DEF TypeOK
  <2>2. ~cleared => Live(byMac, now) = Live(saved, now)
    BY DEF IInv, DiskAgrees
  <2> HIDE DEF saved
  <2>3. /\ Live(byMac, now') = [n \in Mac |-> {l \in Live(byMac, now)[n] : l.exp > now'}]
        /\ Live(saved, now') = [n \in Mac |-> {l \in Live(saved, now)[n] : l.exp > now'}]
    BY <2>1, <1>3, LiveLater
  <2>4. ~cleared => Live(byMac', now') = Live(saved, now')
    BY <2>2, <2>3, <1>11
  <2>5. cleared => disk = NoFile
    BY DEF IInv, DiskAgrees
  <2>6. QED BY <1>1, <2>4, <2>5 DEF DiskAgrees, saved
<1>13. ASSUME NEW n \in DOMAIN kept, n \in DOMAIN old, old[n].exp > now'
       PROVE  kept[n].ip = old[n].ip
  <2>1. n \in DOMAIN byMac /\ n \in DOMAIN offers /\ byMac[n].exp > now
    BY <1>13, <1>4, <1>5
  <2>2. QED BY <2>1, <1>4, <1>5, <1>13 DEF IInv, OffersMatchLeases
<1>14. CASE offers' = kept /\ UNCHANGED net
  <2>1. TypeOK'
    BY <1>14, <1>1, <1>3, <1>4, <1>5 DEF TypeOK
  <2>2. OffersMatchLeases'
    BY <1>14, <1>1, <1>13 DEF OffersMatchLeases
  <2>3. QED BY <2>1, <2>2, <1>1, <1>10, <1>11, <1>12 DEF IInv
<1>15. ASSUME NEW ip \in choice,
              offers' = Extended(kept, m, [ip |-> ip, xid |-> x, exp |-> now' + OfferTtl]),
              net' = net \cup {[kind |-> "offer", mac |-> m, xid |-> x, ip |-> ip]}
       PROVE  /\ IInv' /\ now' \in {now, now + 1} /\ Live(byMac', now') = Live(byMac, now')
              /\ UNCHANGED <<cleared, lostUntil>>
  <2> DEFINE offer == [ip |-> ip, xid |-> x, exp |-> now' + OfferTtl]
  <2>1. ip \in Ip
    BY <1>7
  <2>2. offer \in Offer /\ offer.ip = ip
    <3> HIDE DEF offer
    <3>2. offer = [ip |-> ip, xid |-> x, exp |-> now' + OfferTtl]
      BY DEF offer
    <3>3. QED BY <2>1, <1>9, <3>2 DEF Offer
  <2>3. offers' = Extended(kept, m, offer)
    BY <1>15
  <2> HIDE DEF offer
  <2>4. /\ Partial(offers', Mac, Offer)
        /\ DOMAIN offers' = DOMAIN kept \cup {m}
        /\ offers'[m] = offer
        /\ \A n \in DOMAIN kept \ {m} : offers'[n] = kept[n]
    BY <2>2, <2>3, <1>5 DEF Extended, Partial
  <2>5. net' \subseteq Packet
    BY <1>15, <2>1, <1>3 DEF TypeOK, Packet
  <2>6. TypeOK'
    BY <2>4, <2>5, <1>1, <1>3, <1>4 DEF TypeOK
  <2>7. OffersMatchLeases'
    <3> SUFFICES ASSUME NEW n \in DOMAIN offers' \cap DOMAIN byMac', byMac'[n].exp > now'
                 PROVE  offers'[n].ip = byMac'[n].ip
      BY DEF OffersMatchLeases
    <3>1. CASE n = m
      <4>1. m \in DOMAIN byMac /\ byMac'[m] = byMac[m] /\ byMac[m].exp > now'
        BY <3>1, <1>1, <1>4
      <4>2. QED BY <3>1, <4>1, <1>8, <2>2, <2>4
    <3>2. CASE n # m
      BY <3>2, <1>1, <1>13, <2>4
    <3>3. QED BY <3>1, <3>2
  <2>8. QED BY <2>6, <2>7, <1>1, <1>10, <1>11, <1>12 DEF IInv
<1>16. QED BY <1>2, <1>14, <1>15

-----------------------------------------------------------------------------
(* Theorems.                                                               *)

\* Every step keeps the invariant.
LEMMA NextInv == IInv /\ [Next]_vars => IInv'
<1> SUFFICES ASSUME IInv, [Next]_vars PROVE IInv'
  OBVIOUS
<1>1. ASSUME NEW m \in Mac, ClientStep(m) PROVE IInv'
  BY <1>1, ClientInv
<1>2. ASSUME NEW m \in Mac, NEW x \in 1..MaxAttempts[m], ServerStep(m, x)
      PROVE  IInv'
  <2>1. x \in Nat
    BY ConstantsAssumption
  <2>2. CASE OnDiscover(m, x)
    BY <2>1, <2>2, DiscoverInv
  <2>3. CASE OnRelease(m, x)
    BY <2>1, <2>3, ReleaseInv
  <2>4. ASSUME NEW ip \in Ip, OnRequest(m, x, ip) PROVE IInv'
    BY <2>1, <2>4, RequestInv
  <2>5. ASSUME NEW ip \in Ip, OnBadRequest(m, x, ip) PROVE IInv'
    BY <2>1, <2>5, BadRequestInv
  <2>6. QED BY <1>2, <2>2, <2>3, <2>4, <2>5 DEF ServerStep
<1>3. CASE Restart
  BY <1>3, RestartInv
<1>4. CASE Tick
  BY <1>4, TickInv
<1>5. CASE ClearLeases
  BY <1>5, ClearInv
<1>6. CASE UNCHANGED vars
  BY <1>6 DEF vars, srvVars, IInv, TypeOK, IndexesAgree, DiskAgrees, OffersMatchLeases
<1>7. QED BY <1>1, <1>2, <1>3, <1>4, <1>5, <1>6 DEF Next

\* The inductive invariant holds for any clients, pool, lease time, and any
\* restarts, losses and duplications (DHCP/dhcp_server.py).
THEOREM Inductive == Spec => []IInv
<1>1. Init => IInv
  BY InitInv
<1>2. IInv /\ [Next]_vars => IInv'
  BY NextInv
<1>3. QED BY <1>1, <1>2, PTL DEF Spec

\* The variables keep their types, the offered addresses stay in the pool.
THEOREM TypeCorrect == Spec => []TypeOK
<1>1. IInv => TypeOK
  BY DEF IInv
<1>2. QED BY <1>1, Inductive, PTL

\* by_mac and by_ip always describe the same leases, in memory and on disk
\* (lines 37-43, 185-187 and 195-198).
THEOREM IndexesCorrect == Spec => []IndexesAgree
<1>1. IInv => IndexesAgree
  BY DEF IInv
<1>2. QED BY <1>1, Inductive, PTL

\* leases.json holds every lease that has not expired, and no other (lines 25-35
\* and 187), from every save until run_scenarios.py, line 237, removes the file;
\* then there is nothing in it until the next save.
THEOREM DiskCorrect == Spec => []DiskAgrees
<1>1. IInv => DiskAgrees
  BY DEF IInv
<1>2. QED BY <1>1, Inductive, PTL

\* A step of the server is a grant, a release or the passing of time of
\* ExclusiveLeases, or nothing of it.
LEMMA StepRefines == IInv /\ [Next]_vars => [Abstract!Next]_(Abstract!vars)
<1> SUFFICES ASSUME IInv, [Next]_vars
             PROVE  Abstract!Next \/ UNCHANGED <<LiveLease, Recorded, now>>
  BY DEF Abstract!vars
<1> USE DEF LiveLease, Recorded
<1>1. /\ now \in Nat /\ TypeOK /\ SameLeases(byMac, byIp)
      /\ Partial(byMac, Mac, Lease)
  BY DEF IInv, TypeOK, IndexesAgree
<1>2. ASSUME now' = now + 1,
             Live(byMac', now') = Live(byMac, now'), cleared' = cleared
      PROVE  Abstract!Pass
  <2>1. now' \in Nat /\ now < now' /\ now <= now'
    BY <1>1, <1>2
  <2>2. Live(byMac, now') = [m \in Mac |-> {l \in Live(byMac, now)[m] : l.exp > now'}]
    BY <1>1, <2>1, LiveLater
  <2>3. QED BY <1>2, <2>1, <2>2 DEF Abstract!Pass
<1>3. ASSUME NEW m \in Mac, NEW x \in 1..MaxAttempts[m], ServerStep(m, x)
      PROVE  Abstract!Next \/ UNCHANGED <<LiveLease, Recorded, now>>
  <2>1. x \in Nat
    BY ConstantsAssumption
  <2>2. CASE OnDiscover(m, x)
    <3>1. /\ now' \in {now, now + 1}
          /\ Live(byMac', now') = Live(byMac, now')
          /\ cleared' = cleared
      BY <2>1, <2>2, DiscoverInv
    <3>2. CASE now' = now
      BY <3>1, <3>2
    <3>3. CASE now' = now + 1
      BY <3>1, <3>3, <1>2 DEF Abstract!Next
    <3>4. QED BY <3>1, <3>2, <3>3
  <2>3. CASE OnRelease(m, x)
    <3>1. /\ Live(byMac', now') = [Live(byMac, now) EXCEPT ![m] = {}]
          /\ now' = now
          /\ cleared' = (cleared /\ Live(byMac, now)[m] = {})
      BY <2>1, <2>3, ReleaseInv
    <3>2. CASE Live(byMac, now)[m] # {}
      <4>1. Abstract!GiveUp(m)
        BY <3>1, <3>2 DEF Abstract!GiveUp
      <4>2. QED BY <4>1 DEF Abstract!Next
    <3>3. CASE Live(byMac, now)[m] = {}
      <4>1. cleared' = cleared
        BY <1>1, <3>1, <3>3 DEF TypeOK
      <4>2. LiveLease' = LiveLease
        BY <3>1, <3>3 DEF Live
      <4>3. QED BY <3>1, <4>1, <4>2
    <3>4. QED BY <3>2, <3>3
  <2>4. ASSUME NEW ip \in Ip, OnRequest(m, x, ip)
        PROVE  Abstract!Next
    <3>1. /\ Live(byMac', now') =
               [Live(byMac, now) EXCEPT ![m] = {[ip |-> ip, exp |-> now + LeaseSec]}]
          /\ now' = now /\ cleared' = FALSE
      BY <2>1, <2>4, RequestInv
    <3>2. Grantable(m, x, ip)
      BY <2>4 DEF OnRequest
    <3>3. /\ m \in DOMAIN Current(byMac) => byMac[m].ip = ip
          /\ \A n \in DOMAIN Current(byMac) \ {m} : byMac[n].ip # ip
      BY <2>1, <3>2, GrantFacts
    <3>4. DOMAIN Current(byMac) = {n \in DOMAIN byMac : byMac[n].exp > now}
      BY <1>1, CleanupFacts
    <3>5. \A n \in Mac : \A l \in Live(byMac, now)[n] :
            n \in DOMAIN Current(byMac) /\ l = byMac[n]
      BY <3>4 DEF Live
    <3>6. /\ \A n \in Mac \ {m} : \A l \in Live(byMac, now)[n] : l.ip # ip
          /\ \A l \in Live(byMac, now)[m] : l.ip = ip
      BY <3>3, <3>5
    <3>7. Abstract!Grant(m, ip)
      BY <3>1, <3>6 DEF Abstract!Grant
    <3>8. QED BY <3>7 DEF Abstract!Next
  <2>5. ASSUME NEW ip \in Ip, OnBadRequest(m, x, ip)
        PROVE  UNCHANGED <<LiveLease, Recorded, now>>
    <3>1. now' = now /\ cleared' = cleared
      BY <2>5 DEF OnBadRequest
    <3>2. Live(byMac', now') = Live(byMac, now)
      BY <2>1, <2>5, BadRequestInv
    <3>3. QED BY <3>1, <3>2
  <2>6. QED BY <1>3, <2>2, <2>3, <2>4, <2>5 DEF ServerStep
<1>4. ASSUME NEW m \in Mac, ClientStep(m)
      PROVE  UNCHANGED <<LiveLease, Recorded, now>>
  <2>1. byMac' = byMac /\ cleared' = cleared /\ now' = now
    BY <1>4 DEF ClientStep, Discover, RunFails, Release, OnOffer, OnAck, srvVars
  <2>2. QED BY <2>1
<1>5. CASE Restart
  <2>1. /\ ~cleared => Live(byMac', now') = Live(byMac, now)
        /\ cleared => Live(byMac', now') = [m \in Mac |-> {}]
        /\ cleared' = FALSE
    BY <1>5, RestartInv
  <2>2. now' = now
    BY <1>5 DEF Restart, StartedWith
  <2>3. CASE cleared
    <3>1. Abstract!Forget
      BY <2>1, <2>2, <2>3 DEF Abstract!Forget
    <3>2. QED BY <3>1 DEF Abstract!Next
  <2>4. CASE ~cleared
    BY <2>1, <2>2, <2>4
  <2>5. QED BY <2>3, <2>4
<1>6. CASE ClearLeases
  <2>1. Abstract!Erase
    BY <1>6 DEF ClearLeases, Abstract!Erase
  <2>2. QED BY <2>1 DEF Abstract!Next
<1>7. CASE Tick
  <2>1. now' = now + 1 /\ byMac' = byMac /\ cleared' = cleared
    BY <1>7 DEF Tick, srvVars
  <2>2. QED BY <2>1, <1>2 DEF Abstract!Next
<1>8. CASE UNCHANGED vars
  BY <1>8 DEF vars, srvVars
<1>9. QED BY <1>3, <1>4, <1>5, <1>6, <1>7, <1>8 DEF Next

\* The server implements exclusive leases, whatever the network does and
\* however often it is restarted: a lease that has not expired is its client's
\* alone, and is forgotten only by a restart that finds leases.json removed.
THEOREM LeaseRefinement == Spec => ImplementsLeases
<1>1. Init => Abstract!Init
  <2> SUFFICES ASSUME Init PROVE Abstract!Init
    OBVIOUS
  <2>1. Live(byMac, now) = [m \in Mac |-> {}]
    BY EmptyTable DEF Init, Live
  <2>2. now \in Nat
    BY DEF Init
  <2>3. Recorded
    BY DEF Init, Recorded
  <2>4. QED BY <2>1, <2>2, <2>3 DEF Abstract!Init, LiveLease
<1>2. IInv /\ [Next]_vars => [Abstract!Next]_(Abstract!vars)
  BY StepRefines
<1>3. QED BY <1>1, <1>2, Inductive, PTL DEF Spec, ImplementsLeases, Abstract!Spec

-----------------------------------------------------------------------------
(* Containers that keep their leases have addresses of their own.          *)

Kept(m) == \A p \in net : p.kind = "release" => p.mac # m

\* m has a lease of ip until exp, or a longer one, unless that has passed or was
\* forgotten.
Held(m, ip, exp) ==
  exp > now /\ exp > lostUntil => \E l \in Live(byMac, now)[m] : l.ip = ip /\ l.exp >= exp

\* What the server acknowledged to a client that never gave a lease up, the
\* server remembers while leases.json is not removed; and it leases nothing
\* for longer than LEASE_SEC.
LeasesKept ==
  /\ lostUntil <= now + LeaseSec
  /\ \A m \in Mac : \A l \in Live(byMac, now)[m] : l.exp <= now + LeaseSec
  /\ \A p \in net : p.kind = "ack" /\ Kept(p.mac) => Held(p.mac, p.ip, p.exp)
  /\ \A m \in Mac : client[m].phase = "bound" /\ Kept(m) =>
        Held(m, client[m].ip, client[m].exp)

\* What a step does to a lease, and what it acknowledges.
KeepsLease(m, l) ==
  l.exp > now' /\ l.exp > lostUntil' =>
    \E k \in Live(byMac', now')[m] : k.ip = l.ip /\ k.exp >= l.exp

GoodStep ==
  /\ now' \in Nat /\ now <= now' /\ net \subseteq net'
  /\ lostUntil' \in Nat /\ lostUntil <= lostUntil' /\ lostUntil' <= now' + LeaseSec
  /\ \A m \in Mac : Kept(m) => \A l \in Live(byMac, now)[m] : KeepsLease(m, l)
  /\ \A m \in Mac : \A k \in Live(byMac', now')[m] : k.exp <= now' + LeaseSec
  /\ \A p \in net' : p.kind = "ack" =>
       p \in net \/ \E k \in Live(byMac', now')[p.mac] : k.ip = p.ip /\ k.exp >= p.exp

\* Live leases are leases, and end in the future.
LEMMA LiveType ==
  ASSUME NEW bm, Partial(bm, Mac, Lease), NEW t \in Nat, NEW m \in Mac,
         NEW l \in Live(bm, t)[m]
  PROVE  l \in Lease /\ l.exp \in Nat /\ l.exp > t
<1>1. m \in DOMAIN bm /\ l = bm[m] /\ l.exp > t
  BY DEF Live
<1>2. QED BY <1>1 DEF Partial, Lease

\* Steps that leave the live leases to time.
LEMMA TimeStep ==
  ASSUME IInv, LeasesKept, now' \in {now, now + 1},
         Live(byMac', now') = Live(byMac, now'), net \subseteq net',
         lostUntil' = lostUntil,
         \A p \in net' : p.kind = "ack" => p \in net
  PROVE  GoodStep
<1>1. /\ now \in Nat /\ Partial(byMac, Mac, Lease) /\ LeaseSec \in Nat
      /\ lostUntil \in Nat
  BY ConstantsAssumption DEF IInv, TypeOK
<1>2. now' \in Nat /\ now <= now'
  BY <1>1
<1>3. Live(byMac, now') = [m \in Mac |-> {l \in Live(byMac, now)[m] : l.exp > now'}]
  BY <1>1, <1>2, LiveLater
<1>4. \A m \in Mac : \A l \in Live(byMac, now)[m] : l.exp \in Nat /\ l.exp <= now + LeaseSec
  BY <1>1, LiveType DEF LeasesKept
<1>5. ASSUME NEW m \in Mac, NEW l \in Live(byMac, now)[m]
      PROVE  KeepsLease(m, l)
  BY <1>3, <1>4, <1>5 DEF KeepsLease
<1>6. ASSUME NEW m \in Mac, NEW k \in Live(byMac', now')[m]
      PROVE  k.exp <= now' + LeaseSec
  <2>1. k \in Live(byMac, now)[m]
    BY <1>3
  <2>2. QED BY <1>1, <1>2, <1>4, <2>1
<1>7. lostUntil' \in Nat /\ lostUntil <= lostUntil' /\ lostUntil' <= now' + LeaseSec
  <2>1. lostUntil <= now + LeaseSec /\ lostUntil' = lostUntil
    BY DEF LeasesKept
  <2>2. \A a, b, c, d \in Nat : a <= b /\ c <= a + d => c <= b + d
    OBVIOUS
  <2>3. lostUntil <= now' + LeaseSec
    BY <1>1, <1>2, <2>1, <2>2
  <2>4. lostUntil \in Nat /\ lostUntil <= lostUntil
    BY <1>1
  <2>5. QED BY <2>1, <2>3, <2>4, Zenon
<1>8. QED BY <1>2, <1>5, <1>6, <1>7 DEF GoodStep

LEMMA RequestGood ==
  ASSUME IInv, LeasesKept, NEW m \in Mac, NEW x \in Nat, NEW ip \in Ip,
         OnRequest(m, x, ip)
  PROVE  GoodStep
<1>1. /\ now \in Nat /\ Partial(byMac, Mac, Lease) /\ LeaseSec \in Nat \ {0}
      /\ TypeOK /\ SameLeases(byMac, byIp)
  BY ConstantsAssumption DEF IInv, TypeOK, IndexesAgree
<1> DEFINE e == [ip |-> ip, exp |-> now + LeaseSec]
<1>2. /\ Live(byMac', now') = [Live(byMac, now) EXCEPT ![m] = {e}]
      /\ now' = now
  BY RequestInv
<1>3. Live(byMac, now) = [n \in Mac |-> Live(byMac, now)[n]]
  BY DEF Live
<1>4. \A n \in Mac : Live(byMac', now')[n] = IF n = m THEN {e} ELSE Live(byMac, now)[n]
  BY <1>2, <1>3
<1>5. \A n \in Mac : \A l \in Live(byMac, now)[n] : l.exp \in Nat /\ l.exp <= now + LeaseSec
  BY <1>1, LiveType DEF LeasesKept
<1>6. \A l \in Live(byMac, now)[m] : l.ip = ip
  <2>1. Grantable(m, x, ip)
    BY DEF OnRequest
  <2>2. m \in DOMAIN Current(byMac) => byMac[m].ip = ip
    BY <2>1, GrantFacts
  <2>3. DOMAIN Current(byMac) = {n \in DOMAIN byMac : byMac[n].exp > now}
    BY <1>1, CleanupFacts
  <2>4. QED BY <2>2, <2>3 DEF Live
<1>7. e.ip = ip /\ e.exp = now + LeaseSec
  OBVIOUS
<1> HIDE DEF e
<1>8. ASSUME NEW n \in Mac, NEW l \in Live(byMac, now)[n]
      PROVE  KeepsLease(n, l)
  <2>1. CASE n = m
    BY <1>4, <1>5, <1>6, <1>7, <2>1 DEF KeepsLease
  <2>2. CASE n # m
    BY <1>4, <1>5, <2>2 DEF KeepsLease
  <2>3. QED BY <2>1, <2>2
<1>9. \A n \in Mac : \A k \in Live(byMac', now')[n] : k.exp <= now' + LeaseSec
  BY <1>1, <1>2, <1>4, <1>5, <1>7
<1>10. /\ net \subseteq net'
       /\ \A p \in net' : p \in net \/ (p.mac = m /\ p.ip = ip /\ p.exp = now + LeaseSec)
  BY DEF OnRequest
<1>11. e \in Live(byMac', now')[m] /\ e.exp >= now + LeaseSec
  BY <1>1, <1>4, <1>7
<1>12. \A p \in net' :
         p \in net \/ \E k \in Live(byMac', now')[p.mac] : k.ip = p.ip /\ k.exp >= p.exp
  BY <1>7, <1>10, <1>11
<1>13. lostUntil' \in Nat /\ lostUntil <= lostUntil' /\ lostUntil' <= now' + LeaseSec
  BY <1>1, <1>2 DEF OnRequest, LeasesKept, TypeOK
<1>14. QED BY <1>1, <1>2, <1>8, <1>9, <1>10, <1>12, <1>13 DEF GoodStep

\* A release takes the lease of its sender only.
LEMMA ReleaseGood ==
  ASSUME IInv, LeasesKept, NEW m \in Mac, NEW x \in Nat, OnRelease(m, x)
  PROVE  GoodStep
<1>1. now \in Nat /\ Partial(byMac, Mac, Lease)
  BY DEF IInv, TypeOK
<1>2. Live(byMac', now') = [Live(byMac, now) EXCEPT ![m] = {}] /\ now' = now
  BY ReleaseInv
<1>3. Live(byMac, now) = [n \in Mac |-> Live(byMac, now)[n]]
  BY DEF Live
<1>4. \A n \in Mac : Live(byMac', now')[n] = IF n = m THEN {} ELSE Live(byMac, now)[n]
  BY <1>2, <1>3
<1>5. ~Kept(m) /\ net' = net
  BY DEF OnRelease, Kept
<1>6. \A n \in Mac : \A l \in Live(byMac, now)[n] : l.exp \in Nat /\ l.exp <= now + LeaseSec
  BY <1>1, LiveType DEF LeasesKept
<1>7. ASSUME NEW n \in Mac, Kept(n), NEW l \in Live(byMac, now)[n]
      PROVE  KeepsLease(n, l)
  BY <1>4, <1>5, <1>6, <1>7 DEF KeepsLease
<1>8. lostUntil' \in Nat /\ lostUntil <= lostUntil' /\ lostUntil' <= now' + LeaseSec
  BY <1>1, <1>2 DEF OnRelease, LeasesKept, IInv, TypeOK
<1>9. QED BY <1>1, <1>2, <1>4, <1>5, <1>6, <1>7, <1>8 DEF GoodStep

\* A restart forgets what would have expired by lostUntil, or nothing.
LEMMA RestartGood ==
  ASSUME IInv, LeasesKept, Restart
  PROVE  GoodStep
<1>1. /\ now \in Nat /\ lostUntil \in Nat /\ LeaseSec \in Nat
      /\ Partial(byMac, Mac, Lease)
  BY ConstantsAssumption DEF IInv, TypeOK
<1>2. /\ now' = now /\ net' = net
      /\ lostUntil' = IF cleared THEN now + LeaseSec ELSE lostUntil
  BY DEF Restart, StartedWith
<1>3. /\ ~cleared => Live(byMac', now') = Live(byMac, now)
      /\ cleared => Live(byMac', now') = [m \in Mac |-> {}]
  BY RestartInv
<1>4. CASE ~cleared
  BY <1>1, <1>2, <1>3, <1>4, TimeStep
<1>5. CASE cleared
  <2>1. lostUntil' = now + LeaseSec
    BY <1>2, <1>5
  <2>2. \A m \in Mac : \A l \in Live(byMac, now)[m] :
          l.exp \in Nat /\ l.exp <= now + LeaseSec
    BY <1>1, LiveType DEF LeasesKept
  <2>3. \A m \in Mac : \A l \in Live(byMac, now)[m] : ~(l.exp > lostUntil')
    BY <1>1, <2>1, <2>2
  <2>4. \A m \in Mac : \A l \in Live(byMac, now)[m] : KeepsLease(m, l)
    BY <2>3 DEF KeepsLease
  <2>5. \A m \in Mac : Live(byMac', now')[m] = {}
    BY <1>3, <1>5
  <2>6. lostUntil' \in Nat /\ lostUntil <= lostUntil' /\ lostUntil' <= now' + LeaseSec
    BY <1>1, <1>2, <2>1 DEF LeasesKept
  <2>7. QED BY <1>1, <1>2, <2>4, <2>5, <2>6 DEF GoodStep
<1>6. QED BY <1>4, <1>5

LEMMA EveryStepGood ==
  ASSUME IInv, LeasesKept, [Next]_vars
  PROVE  GoodStep
<1>1. now \in Nat /\ now + 1 # now
  BY DEF IInv, TypeOK
<1>2. ASSUME NEW m \in Mac, NEW x \in 1..MaxAttempts[m], ServerStep(m, x)
      PROVE  GoodStep
  <2>1. x \in Nat
    BY ConstantsAssumption
  <2>2. CASE OnDiscover(m, x)
    <3>1. /\ now' \in {now, now + 1} /\ Live(byMac', now') = Live(byMac, now')
          /\ lostUntil' = lostUntil
      BY <2>1, <2>2, DiscoverInv
    <3>2. \/ net' = net
          \/ \E ip : net' = net \cup {[kind |-> "offer", mac |-> m, xid |-> x, ip |-> ip]}
      BY <2>2 DEF OnDiscover
    <3>3. net \subseteq net' /\ \A p \in net' : p.kind = "ack" => p \in net
      BY <3>2
    <3>4. QED BY <3>1, <3>3, TimeStep
  <2>3. CASE OnRelease(m, x)
    BY <2>1, <2>3, ReleaseGood
  <2>4. ASSUME NEW ip \in Ip, OnRequest(m, x, ip)
        PROVE  GoodStep
    BY <2>1, <2>4, RequestGood
  <2>5. ASSUME NEW ip \in Ip, OnBadRequest(m, x, ip)
        PROVE  GoodStep
    <3>1. /\ now' = now /\ net \subseteq net' /\ lostUntil' = lostUntil
          /\ \A p \in net' : p.kind = "ack" => p \in net
      BY <2>5 DEF OnBadRequest
    <3>2. Live(byMac', now') = Live(byMac, now)
      BY <2>1, <2>5, BadRequestInv
    <3>3. QED BY <3>1, <3>2, TimeStep
  <2>6. QED BY <1>2, <2>2, <2>3, <2>4, <2>5 DEF ServerStep
<1>3. ASSUME NEW m \in Mac, ClientStep(m)
      PROVE  GoodStep
  <2>1. UNCHANGED srvVars /\ now' = now
    BY <1>3 DEF ClientStep, Discover, RunFails, Release, OnOffer, OnAck
  <2>2. net \subseteq net' /\ \A p \in net' : p.kind = "ack" => p \in net
    <3>1. Discover(m) => net' = net \cup {[kind |-> "discover", mac |-> m,
                                           xid |-> client[m].xid + 1]}
      BY DEF Discover
    <3>2. Release(m) => net' = net \cup {[kind |-> "release", mac |-> m,
                                          xid |-> client[m].xid]}
      BY DEF Release
    <3>3. \A ip \in Ip : OnOffer(m, ip) =>
            net' = net \cup {[kind |-> "request", mac |-> m, xid |-> client[m].xid,
                              ip |-> ip]}
      BY DEF OnOffer, Request
    <3>4. RunFails(m) \/ (\E p \in net : OnAck(m, p)) => net' = net
      BY DEF RunFails, OnAck
    <3>5. QED BY <1>3, <3>1, <3>2, <3>3, <3>4 DEF ClientStep
  <2>3. QED BY <2>1, <2>2, TimeStep DEF srvVars
<1>4. CASE Restart
  BY <1>4, RestartGood
<1>5. CASE ClearLeases
  BY <1>5, TimeStep DEF ClearLeases
<1>6. CASE Tick
  BY <1>6, TimeStep DEF Tick, srvVars
<1>7. CASE UNCHANGED vars
  BY <1>7, TimeStep DEF vars, srvVars
<1>8. QED BY <1>2, <1>3, <1>4, <1>5, <1>6, <1>7 DEF Next

\* A client's own step: it is bound by an acknowledgement only.
LEMMA BoundByAck ==
  ASSUME IInv, [Next]_vars, NEW m \in Mac, client'[m].phase = "bound"
  PROVE  \/ client'[m] = client[m]
         \/ \E p \in net : /\ p.kind = "ack" /\ p.mac = m
                          /\ client'[m].ip = p.ip /\ client'[m].exp = p.exp
<1>1. client \in [Mac -> Client]
  BY DEF IInv, TypeOK
<1>2. ASSUME NEW n \in Mac, ClientStep(n)
      PROVE  \/ client'[m] = client[m]
             \/ \E p \in net : /\ p.kind = "ack" /\ p.mac = m
                              /\ client'[m].ip = p.ip /\ client'[m].exp = p.exp
  <2>1. CASE n # m
    BY <1>1, <1>2, <2>1 DEF ClientStep, Discover, RunFails, Release, OnOffer, OnAck
  <2>2. CASE n = m
    <3>1. ASSUME NEW p \in net, OnAck(m, p)
          PROVE  p.kind = "ack" /\ p.mac = m /\ client'[m].ip = p.ip /\ client'[m].exp = p.exp
      BY <1>1, <3>1 DEF OnAck, Client
    <3>2. ~Discover(m) /\ ~RunFails(m) /\ ~Release(m) /\ \A ip \in Ip : ~OnOffer(m, ip)
      BY <1>1 DEF Discover, RunFails, Release, OnOffer, Client
    <3>3. QED BY <1>2, <2>2, <3>1, <3>2 DEF ClientStep
  <2>3. QED BY <2>1, <2>2
<1>3. CASE UNCHANGED client
  BY <1>3
<1>4. QED BY <1>2, <1>3 DEF Next, ServerStep, OnDiscover, OnRelease, OnRequest,
         OnBadRequest, Restart, StartedWith, ClearLeases, Tick, vars

LEMMA LeasesKeptStep == IInv /\ LeasesKept /\ [Next]_vars => LeasesKept'
<1> SUFFICES ASSUME IInv, LeasesKept, [Next]_vars PROVE LeasesKept'
  OBVIOUS
<1>1. GoodStep
  BY EveryStepGood
<1>2. /\ now \in Nat /\ lostUntil \in Nat /\ Partial(byMac, Mac, Lease)
      /\ net \subseteq Packet /\ client \in [Mac -> Client]
  BY DEF IInv, TypeOK
<1>3. ASSUME NEW m \in Mac, NEW ip, NEW exp \in Nat, Kept(m)', Kept(m) => Held(m, ip, exp)
      PROVE  Held(m, ip, exp)'
  <2>1. Kept(m)
    BY <1>1, <1>3 DEF Kept, GoodStep
  <2>2. SUFFICES ASSUME exp > now', exp > lostUntil'
                 PROVE  \E k \in Live(byMac', now')[m] : k.ip = ip /\ k.exp >= exp
    BY DEF Held
  <2>3. PICK l \in Live(byMac, now)[m] : l.ip = ip /\ l.exp >= exp
    BY <1>1, <1>2, <1>3, <2>1, <2>2 DEF Held, GoodStep
  <2>4. l.exp \in Nat /\ l.exp > now' /\ l.exp > lostUntil'
    BY <1>1, <1>2, <2>2, <2>3, LiveType DEF GoodStep
  <2>5. PICK k \in Live(byMac', now')[m] : k.ip = l.ip /\ k.exp >= l.exp
    BY <1>1, <2>1, <2>4 DEF GoodStep, KeepsLease
  <2>6. k.exp \in Nat
    <3>1. Partial(byMac', Mac, Lease)
      BY NextInv DEF IInv, TypeOK
    <3>2. now' \in Nat
      BY <1>1 DEF GoodStep
    <3>3. QED BY <3>1, <3>2, LiveType
  <2>7. QED BY <2>3, <2>4, <2>5, <2>6
<1>4. ASSUME NEW p \in net', p.kind = "ack", Kept(p.mac)'
      PROVE  Held(p.mac, p.ip, p.exp)'
  <2>1. CASE p \in net
    <3>1. p.mac \in Mac /\ p.exp \in Nat
      BY <1>2, <1>4, <2>1 DEF Packet
    <3>2. QED BY <1>3, <1>4, <2>1, <3>1 DEF LeasesKept
  <2>2. CASE p \notin net
    BY <1>1, <1>4, <2>2 DEF GoodStep, Held
  <2>3. QED BY <2>1, <2>2
<1>5. ASSUME NEW m \in Mac, client'[m].phase = "bound", Kept(m)'
      PROVE  Held(m, client[m].ip, client[m].exp)'
  <2>1. CASE client'[m] = client[m]
    <3>1. client[m].exp \in Nat
      BY <1>2 DEF Client
    <3>2. PICK ip, exp : ip = client[m].ip /\ exp = client[m].exp
      OBVIOUS
    <3>3. Held(m, ip, exp)'
      BY <1>3, <1>5, <2>1, <3>1, <3>2 DEF LeasesKept
    <3>4. QED BY <2>1, <3>2, <3>3 DEF Held
  <2>2. CASE client'[m] # client[m]
    <3>1. PICK p \in net : /\ p.kind = "ack" /\ p.mac = m
                           /\ client'[m].ip = p.ip /\ client'[m].exp = p.exp
      BY <1>5, <2>2, BoundByAck
    <3>2. p \in net'
      BY <1>1, <3>1 DEF GoodStep
    <3>3. Held(m, p.ip, p.exp)'
      BY <1>4, <1>5, <3>1, <3>2
    <3>4. QED BY <3>1, <3>3 DEF Held
  <2>3. QED BY <2>1, <2>2
<1>6. \A m \in Mac : \A k \in Live(byMac', now')[m] : k.exp <= now' + LeaseSec
  BY <1>1 DEF GoodStep
<1>7. lostUntil' <= now' + LeaseSec
  BY <1>1 DEF GoodStep
<1>8. QED BY <1>4, <1>5, <1>6, <1>7 DEF LeasesKept

\* Containers that keep their leases share no address, except with one whose
\* lease has expired without its noticing, or was forgotten with leases.json
\* (dhcp_server.py, alloc_ip and REQUEST; dhcp_client.py never renews;
\* run_scenarios.py, line 237).
THEOREM AddressesCorrect == Spec => []LeasedAddressesUnique
<1>1. Init => LeasesKept
  BY EmptyTable, ConstantsAssumption DEF Init, LeasesKept, Live
<1>2. IInv /\ LeasesKept => LeasedAddressesUnique
  <2> SUFFICES ASSUME IInv, LeasesKept,
                      NEW m \in Mac, NEW n \in Mac, Kept(m), Kept(n), m # n,
                      client[m].phase = "bound", client[n].phase = "bound",
                      client[m].ip = client[n].ip
               PROVE  \E c \in {m, n} : client[c].exp <= now \/ client[c].exp <= lostUntil
    BY DEF LeasedAddressesUnique, Kept
  <2>1. /\ now \in Nat /\ lostUntil \in Nat
        /\ client[m].exp \in Nat /\ client[n].exp \in Nat
    BY DEF IInv, TypeOK, Client
  <2>2. SUFFICES ASSUME \A c \in {m, n} : client[c].exp > now /\ client[c].exp > lostUntil
                 PROVE  FALSE
    BY <2>1
  <2>3. /\ m \in DOMAIN byMac /\ byMac[m].ip = client[m].ip
        /\ n \in DOMAIN byMac /\ byMac[n].ip = client[n].ip
    BY <2>2 DEF LeasesKept, Held, Live
  <2>4. QED BY <2>3 DEF IInv, IndexesAgree, SameLeases
<1>3. QED BY <1>1, <1>2, LeasesKeptStep, Inductive, PTL DEF Spec
=============================================================================
