----------------------------- MODULE MCWsBridge -----------------------------
(* Small instances of the bridges. *)
EXTENDS WsBridge

CONSTANTS s1
OneSession == {s1}
OneDelay == [x \in OneSession |-> 1]
AllKinds == {"rudp", "tcp_sync", "tcp_nosync"}
=============================================================================
