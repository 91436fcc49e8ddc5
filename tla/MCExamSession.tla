--------------------------- MODULE MCExamSession ---------------------------
(* Small instances of the sessions: a browser and a simulation. *)
EXTENDS ExamSession

CONSTANTS c1, c2, s1, s2
TwoClients == {c1, c2}
TwoServers == {s1, s2}
OneRudp == {s1}
OneBrowser == {c1}

\* The browser on the RUDP server, the simulation on either.
Homes == [c \in TwoClients |-> IF c = c1 THEN {s1} ELSE {s1, s2}]

\* exam_req and exam_begin do the same to the files: each client sends one.
SkipOne == [c \in TwoClients |-> IF c = c1 THEN {"exam"} ELSE {"begin"}]
=============================================================================
