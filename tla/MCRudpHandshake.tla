--------------------------- MODULE MCRudpHandshake ---------------------------
(* Instances of RudpHandshake for TLC.                                      *)
EXTENDS RudpHandshake

CONSTANTS a1, a2
OneAddr == {a1}
TwoAddrs == {a1, a2}
=============================================================================
