---------------------------- MODULE ReliableStream ----------------------------
(***************************************************************************)
(* What an RUDP connection promises the two programs that use it: in each  *)
(* direction a stream that arrives complete and in order as far as it      *)
(* arrives, and a blocking send() that returns normally only when the      *)
(* other side has everything, or fails and breaks the stream for good.     *)
(***************************************************************************)
EXTENDS Integers, Sequences

VARIABLES sent,   \* per side, everything handed to send()
          got,    \* per side, everything that has arrived
          state   \* per side, "ready", "busy" (in send()) or "broken"

Side == {"client", "server"}
Peer(s) == IF s = "client" THEN "server" ELSE "client"
vars == <<sent, got, state>>

Init ==
  /\ sent = [s \in Side |-> <<>>]
  /\ got = [s \in Side |-> <<>>]
  /\ state = [s \in Side |-> "ready"]

\* send() is called: the stream grows.
Submit(s) ==
  /\ state[s] = "ready"
  /\ Len(sent'[s]) > Len(sent[s])
  /\ SubSeq(sent'[s], 1, Len(sent[s])) = sent[s]
  /\ sent' = [sent EXCEPT ![s] = sent'[s]]
  /\ state' = [state EXCEPT ![s] = "busy"]
  /\ UNCHANGED got

\* More of the peer's stream arrives.
Arrive(s) ==
  /\ \E n \in (Len(got[s]) + 1)..Len(sent[Peer(s)]) :
       got' = [got EXCEPT ![s] = SubSeq(sent[Peer(s)], 1, n)]
  /\ UNCHANGED <<sent, state>>

\* send() returns: the peer has it all.
Confirm(s) ==
  /\ state[s] = "busy"
  /\ got[Peer(s)] = sent[s]
  /\ state' = [state EXCEPT ![s] = "ready"]
  /\ UNCHANGED <<sent, got>>

\* send() raises: what has arrived stays, the rest may or may not arrive.
Break(s) ==
  /\ state[s] = "busy"
  /\ state' = [state EXCEPT ![s] = "broken"]
  /\ UNCHANGED <<sent, got>>

Next == \E s \in Side : Submit(s) \/ Arrive(s) \/ Confirm(s) \/ Break(s)

Spec == Init /\ [][Next]_vars

\* A send() ends one way or the other.
Live == \A s \in Side : WF_vars(Confirm(s) \/ Break(s))
=============================================================================
