----------------------------- MODULE MCRudpSocket -----------------------------
(* Instances of RudpSocket for TLC: how many messages each side sends.     *)
EXTENDS RudpSocket

OneWay == [s \in Side |-> IF s = "client" THEN 2 ELSE 0]
OneWayOnce == [s \in Side |-> IF s = "client" THEN 1 ELSE 0]
=============================================================================
