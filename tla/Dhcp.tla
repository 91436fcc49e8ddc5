--------------------------------- MODULE Dhcp ---------------------------------
(***************************************************************************)
(* The DHCP server (DHCP/dhcp_server.py) and the clients that run          *)
(* DHCP/dhcp_client.py under DHCP/entrypoint.sh, over a network that may   *)
(* lose, reorder and duplicate packets.  The server may be restarted       *)
(* (docker-compose.yml: restart unless-stopped): it then reads back the    *)
(* leases of leases.json, and its offers are lost.  The scenario runner    *)
(* (run_scenarios.py) removes that file under the running server whenever  *)
(* it recreates a client; the server keeps its memory.                     *)
(*                                                                         *)
(* The server handles one packet at a time.  A packet whose handling       *)
(* writes leases.json is answered after the file is replaced, in one       *)
(* step: a crash in between is a restart after a step whose answer the     *)
(* network loses, and a crash before it is the loss of the packet.         *)
(***************************************************************************)
EXTENDS Integers, FiniteSets

CONSTANTS
  Mac,          \* clients
  PoolSize,     \* addresses POOL_START..POOL_END, numbered from 1
  LeaseSec,     \* LEASE_SEC
  OfferTtl,     \* OFFER_TTL
  MaxTime,      \* a bound for TLC
  MaxAttempts,  \* runs of dhcp_client.py per client: a bound for TLC
  MaxRestarts   \* restarts of the server: a bound for TLC

Ip == 1..PoolSize

ASSUME ConstantsAssumption ==
  /\ PoolSize \in Nat /\ LeaseSec \in Nat \ {0} /\ OfferTtl \in Nat \ {0}
  /\ MaxTime \in Nat /\ MaxAttempts \in [Mac -> Nat] /\ MaxRestarts \in Nat

VARIABLES
  byMac,     \* st["by_mac"]: mac -> lease
  byIp,      \* st["by_ip"]: ip -> mac
  disk,      \* what load_state finds in leases.json: nothing if there is no file
  offers,    \* mac -> offer
  restarts,  \* of the server
  client,    \* per mac, what its dhcp_client.py or its network is doing
  cleared,   \* history: leases.json was removed, and not written since
  lostUntil, \* history: what a restart forgot would have expired by then
  now,       \* the clock
  net        \* every packet ever sent

srvVars == <<byMac, byIp, disk, offers, restarts, cleared, lostUntil>>
vars == <<srvVars, client, now, net>>

Lease == [ip : Ip, exp : Nat]
Offer == [ip : Ip, xid : Nat, exp : Nat]
Client == [phase : {"idle", "selecting", "requesting", "bound"},
           xid : Nat,    \* of the latest run; every run draws a new one
           ip : Nat,     \* offered_ip, then assigned_ip
           exp : Nat]    \* when the lease expires, which the client ignores
Packet ==
  [kind : {"discover", "release", "nak"}, mac : Mac, xid : Nat]
    \cup [kind : {"request", "offer"}, mac : Mac, xid : Nat, ip : Ip]
    \cup [kind : {"ack"}, mac : Mac, xid : Nat, ip : Ip, exp : Nat]

Restricted(f, S) == [x \in DOMAIN f \cap S |-> f[x]]
Extended(f, x, v) == [y \in DOMAIN f \cup {x} |-> IF y = x THEN v ELSE f[y]]

NoFile == [byMac |-> <<>>, byIp |-> <<>>]

Init ==
  /\ byMac = <<>> /\ byIp = <<>>
  /\ disk = NoFile
  /\ offers = <<>>
  /\ restarts = 0
  /\ cleared = FALSE /\ lostUntil = 0
  /\ client = [m \in Mac |-> [phase |-> "idle", xid |-> 0, ip |-> 0, exp |-> 0]]
  /\ now = 0
  /\ net = {}

-----------------------------------------------------------------------------
(* The server.                                                             *)

\* Mutant of CurrentByIp: the expired leases stay in by_ip.
UncleanByIp == byIp

\* What cleanup_leases, and the loop over the offers, leave of the tables
\* before any packet is handled.
Current(f) == Restricted(f, {m \in DOMAIN f : f[m].exp > now})

CurrentByIp ==
  Restricted(byIp, {ip \in DOMAIN byIp :
                      \A m \in DOMAIN byMac : byMac[m].exp <= now => byMac[m].ip # ip})

Cleanup == byMac' = Current(byMac) /\ byIp' = CurrentByIp

\* Mutant of Free: one address past the end of the pool.
FreeOneMore == (1..(PoolSize + 1)) \ DOMAIN CurrentByIp

\* alloc_ip: the lowest address without a lease; offers are not looked at.
Free == Ip \ DOMAIN CurrentByIp
Lowest(S) == {x \in S : \A y \in S : x <= y}

\* DISCOVER.  The clock is read again, so a lease that cleanup_leases kept may
\* have expired by then.
OnDiscover(m, x) ==
  /\ [kind |-> "discover", mac |-> m, xid |-> x] \in net
  /\ Cleanup
  /\ now' \in {now, now + 1} /\ now' <= MaxTime
  /\ LET held   == {ip \in Ip : /\ m \in DOMAIN byMac
                                /\ byMac[m].ip = ip /\ byMac[m].exp > now'}
         choice == IF held # {} THEN held ELSE Lowest(Free)
     IN  IF choice = {}
         THEN offers' = Current(offers) /\ UNCHANGED net
         ELSE \E ip \in choice :
                /\ offers' = Extended(Current(offers), m,
                                      [ip |-> ip, xid |-> x, exp |-> now' + OfferTtl])
                /\ net' = net \cup {[kind |-> "offer", mac |-> m, xid |-> x, ip |-> ip]}
  /\ UNCHANGED <<disk, restarts, cleared, lostUntil, client>>

\* Mutant of Taken: the owner of the address is not asked for.
NeverTaken(m, ip) == FALSE

\* REQUEST is granted if it matches the offer or the lease of its client, and
\* no other client has the address.
Offered(m, x, ip) ==
  /\ m \in DOMAIN Current(offers)
  /\ offers[m].xid = x /\ offers[m].ip = ip
Leased(m, ip) == m \in DOMAIN Current(byMac) /\ byMac[m].ip = ip
Taken(m, ip) == ip \in DOMAIN CurrentByIp /\ byIp[ip] # m

Request(m, x, ip) == [kind |-> "request", mac |-> m, xid |-> x, ip |-> ip]
Grantable(m, x, ip) == (Offered(m, x, ip) \/ Leased(m, ip)) /\ ~Taken(m, ip)

OnRequest(m, x, ip) ==
  /\ Request(m, x, ip) \in net
  /\ Grantable(m, x, ip)
  /\ byMac' = Extended(Current(byMac), m, [ip |-> ip, exp |-> now + LeaseSec])
  /\ byIp' = Extended(CurrentByIp, ip, m)
  /\ disk' = [byMac |-> byMac', byIp |-> byIp']
  /\ cleared' = FALSE
  /\ offers' = Restricted(Current(offers), Mac \ {m})
  /\ net' = net \cup {[kind |-> "ack", mac |-> m, xid |-> x, ip |-> ip,
                       exp |-> now + LeaseSec]}
  /\ UNCHANGED <<restarts, lostUntil, client, now>>

OnBadRequest(m, x, ip) ==
  /\ Request(m, x, ip) \in net
  /\ ~Grantable(m, x, ip)
  /\ Cleanup
  /\ offers' = Current(offers)
  /\ net' = net \cup {[kind |-> "nak", mac |-> m, xid |-> x]}
  /\ UNCHANGED <<disk, restarts, cleared, lostUntil, client, now>>

\* Mutant of OnRelease: the file is not saved.
OnReleaseUnsaved(m, x) ==
  /\ [kind |-> "release", mac |-> m, xid |-> x] \in net
  /\ offers' = Current(offers)
  /\ byMac' = Restricted(Current(byMac), Mac \ {m})
  /\ byIp' = Restricted(CurrentByIp, {ip \in Ip : ~Leased(m, ip)})
  /\ UNCHANGED <<disk, restarts, cleared, lostUntil, client, now, net>>

\* RELEASE frees the lease its sender has, whichever it was sent for.
OnRelease(m, x) ==
  /\ [kind |-> "release", mac |-> m, xid |-> x] \in net
  /\ offers' = Current(offers)
  /\ byMac' = Restricted(Current(byMac), Mac \ {m})
  /\ byIp' = Restricted(CurrentByIp, {ip \in Ip : ~Leased(m, ip)})
  /\ disk' = IF m \in DOMAIN Current(byMac)
             THEN [byMac |-> byMac', byIp |-> byIp'] ELSE disk
  /\ cleared' = (cleared /\ m \notin DOMAIN Current(byMac))
  /\ UNCHANGED <<restarts, lostUntil, client, now, net>>

\* _clear_dhcp_leases, before a client container is recreated.
ClearLeases ==
  /\ disk' = NoFile
  /\ cleared' = TRUE
  /\ UNCHANGED <<byMac, byIp, offers, restarts, lostUntil, client, now, net>>

\* The process ends and load_state() starts the next one, which knows the
\* leases of the table saved.
StartedWith(saved) ==
  /\ restarts < MaxRestarts
  /\ restarts' = restarts + 1
  /\ byMac' = saved.byMac /\ byIp' = saved.byIp
  /\ offers' = <<>>
  /\ cleared' = FALSE
  /\ lostUntil' = IF cleared THEN now + LeaseSec ELSE lostUntil
  /\ UNCHANGED <<disk, client, now, net>>

\* Mutant of Restart: the next process starts without reading the file.
RestartEmpty == StartedWith(NoFile)

Restart == StartedWith(disk)

-----------------------------------------------------------------------------
(* A client: one run of dhcp_client.py, and entrypoint.sh around it.       *)

\* DISCOVER, in the first run or after one that failed, was refused or timed
\* out, or in a container that was restarted and has lost its address.
Discover(m) ==
  /\ client[m].xid < MaxAttempts[m]
  /\ client' = [client EXCEPT ![m] = [phase |-> "selecting", xid |-> @.xid + 1,
                                      ip |-> 0, exp |-> 0]]
  /\ net' = net \cup {[kind |-> "discover", mac |-> m, xid |-> client[m].xid + 1]}
  /\ UNCHANGED <<srvVars, now>>

\* The first OFFER for this run is taken.
OnOffer(m, ip) ==
  /\ client[m].phase = "selecting"
  /\ [kind |-> "offer", mac |-> m, xid |-> client[m].xid, ip |-> ip] \in net
  /\ client' = [client EXCEPT ![m].phase = "requesting", ![m].ip = ip]
  /\ net' = net \cup {Request(m, client[m].xid, ip)}
  /\ UNCHANGED <<srvVars, now>>

\* ACK: the container keeps the address for as long as it runs.
OnAck(m, p) ==
  /\ client[m].phase = "requesting"
  /\ p \in net /\ p.kind = "ack" /\ p.mac = m /\ p.xid = client[m].xid
  /\ client' = [client EXCEPT ![m].phase = "bound", ![m].ip = p.ip, ![m].exp = p.exp]
  /\ UNCHANGED <<srvVars, now, net>>

\* NAK or ten seconds without an answer: the run fails.
RunFails(m) ==
  /\ client[m].phase \in {"selecting", "requesting"}
  /\ client' = [client EXCEPT ![m].phase = "idle"]
  /\ UNCHANGED <<srvVars, now, net>>

\* No client here does this; the server is ready for one that does.
Release(m) ==
  /\ client[m].phase = "bound"
  /\ client' = [client EXCEPT ![m].phase = "idle"]
  /\ net' = net \cup {[kind |-> "release", mac |-> m, xid |-> client[m].xid]}
  /\ UNCHANGED <<srvVars, now>>

-----------------------------------------------------------------------------
Tick ==
  /\ now < MaxTime
  /\ now' = now + 1
  /\ UNCHANGED <<srvVars, client, net>>

ClientStep(m) ==
  \/ Discover(m) \/ RunFails(m) \/ Release(m)
  \/ \E ip \in Ip : OnOffer(m, ip)
  \/ \E p \in net : OnAck(m, p)

ServerStep(m, x) ==
  \/ OnDiscover(m, x) \/ OnRelease(m, x)
  \/ \E ip \in Ip : OnRequest(m, x, ip) \/ OnBadRequest(m, x, ip)

Next ==
  \/ \E m \in Mac : ClientStep(m) \/ \E x \in 1..MaxAttempts[m] : ServerStep(m, x)
  \/ Restart \/ ClearLeases
  \/ Tick

Spec == Init /\ [][Next]_vars

-----------------------------------------------------------------------------
Partial(f, S, T) == DOMAIN f \subseteq S /\ \A x \in DOMAIN f : f[x] \in T

TypeOK ==
  /\ Partial(byMac, Mac, Lease) /\ Partial(byIp, Ip, Mac)
  /\ DOMAIN disk = {"byMac", "byIp"}
  /\ Partial(disk.byMac, Mac, Lease) /\ Partial(disk.byIp, Ip, Mac)
  /\ Partial(offers, Mac, Offer)
  /\ restarts \in Nat /\ cleared \in BOOLEAN /\ lostUntil \in Nat
  /\ client \in [Mac -> Client]
  /\ now \in Nat
  /\ net \subseteq Packet

\* The two indexes of the leases, which every handler updates one after the
\* other, describe the same leases, in memory and in the file: no address is
\* held that no lease can ever free, and none is free that is leased.
SameLeases(bm, bi) ==
  /\ \A m \in DOMAIN bm : bm[m].ip \in DOMAIN bi /\ bi[bm[m].ip] = m
  /\ \A ip \in DOMAIN bi : bi[ip] \in DOMAIN bm /\ bm[bi[ip]].ip = ip
IndexesAgree == SameLeases(byMac, byIp) /\ SameLeases(disk.byMac, disk.byIp)

\* The leases in the table bm that have not expired at t: of each client one
\* or none.
Live(bm, t) ==
  [m \in Mac |-> IF m \in DOMAIN bm THEN {l \in {bm[m]} : l.exp > t} ELSE {}]

\* save_state is called for every lease given or released but not when leases
\* expire (lines 131 and 185-187): the file and the memory differ, if at all, in
\* leases that have expired.  While the file is gone there is nothing in it.
DiskAgrees ==
  IF cleared THEN disk = NoFile ELSE Live(byMac, now) = Live(disk.byMac, now)

\* The address offered to a client with a lease is the one it has, unless the
\* lease expired while the offer was made.
OffersMatchLeases ==
  \A m \in DOMAIN offers \cap DOMAIN byMac :
    byMac[m].exp > now => offers[m].ip = byMac[m].ip

IInv == TypeOK /\ IndexesAgree /\ DiskAgrees /\ OffersMatchLeases

\* What the server does is give exclusive leases, restarts included; only a
\* restart that finds the file removed forgets them.
LiveLease == Live(byMac, now)
Recorded == ~cleared
Abstract == INSTANCE ExclusiveLeases WITH lease <- LiveLease, recorded <- Recorded
ImplementsLeases == Abstract!Spec

\* Two containers that never sent a RELEASE (the server acts on a late copy of
\* one whatever was leased since) have the same address only when the lease of
\* one of them has expired, or was forgotten with the file.
LeasedAddressesUnique ==
  \A m, n \in {x \in Mac : \A p \in net : p.kind = "release" => p.mac # x} :
    ( /\ m # n /\ client[m].phase = "bound" /\ client[n].phase = "bound"
      /\ client[m].ip = client[n].ip )
    => \E c \in {m, n} : client[c].exp <= now \/ client[c].exp <= lostUntil
=============================================================================
