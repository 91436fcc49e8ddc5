---------------------------- MODULE ExclusiveLeases ----------------------------
(***************************************************************************)
(* What a DHCP server promises: until it expires, a lease is its client's  *)
(* alone.  An address is leased to one client at a time, a client holds    *)
(* one address at a time, and a lease ends by expiry or when its client    *)
(* gives it up, never because something else happened to the server: only  *)
(* leases whose record somebody erased can be forgotten, all at once.      *)
(***************************************************************************)
EXTENDS Integers

CONSTANTS Mac,       \* the clients
          Ip,        \* the addresses
          LeaseSec   \* how long a lease lasts

VARIABLES lease,     \* lease[m] is a set: of the lease [ip, exp] of m, or empty
          recorded,  \* the record of the leases was not erased since it was written
          now
vars == <<lease, recorded, now>>

Init == lease = [m \in Mac |-> {}] /\ recorded = TRUE /\ now \in Nat

\* A lease of ip is given to m, or extended, and recorded with all the others.
Grant(m, ip) ==
  /\ \A n \in Mac \ {m} : \A l \in lease[n] : l.ip # ip
  /\ \A l \in lease[m] : l.ip = ip
  /\ lease' = [lease EXCEPT ![m] = {[ip |-> ip, exp |-> now + LeaseSec]}]
  /\ recorded' = TRUE
  /\ UNCHANGED now

GiveUp(m) ==
  /\ lease[m] # {}
  /\ lease' = [lease EXCEPT ![m] = {}]
  /\ recorded' = TRUE
  /\ UNCHANGED now

\* Time passes, and what it reaches expires.
Pass ==
  /\ now' \in Nat /\ now' > now
  /\ lease' = [m \in Mac |-> {l \in lease[m] : l.exp > now'}]
  /\ UNCHANGED recorded

Erase == recorded' = FALSE /\ UNCHANGED <<lease, now>>

Forget ==
  /\ ~recorded
  /\ lease' = [m \in Mac |-> {}]
  /\ recorded' = TRUE
  /\ UNCHANGED now

Next ==
  \/ \E m \in Mac : GiveUp(m) \/ \E ip \in Ip : Grant(m, ip)
  \/ Pass
  \/ Erase \/ Forget

Spec == Init /\ [][Next]_vars
=============================================================================
