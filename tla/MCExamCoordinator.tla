------------------------- MODULE MCExamCoordinator -------------------------
(* Small instances of the send coordinator. *)
EXTENDS ExamCoordinator

CONSTANTS c1, c2
TwoClients == {c1, c2}
AllKinds == {"rudp", "tcp_sync", "tcp_nosync"}
OnlyRudp == {"rudp"}

\* A client whose clock is ahead by more than its delay (D_i = 1), next to those
\* that report an RTT only.
OneSample == {[med |-> 6, jit |-> 2, off |-> 7]}
=============================================================================
