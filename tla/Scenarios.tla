----------------------------- MODULE Scenarios -----------------------------
(***************************************************************************)
(* The scenario runner (run_scenarios.py): each scenario is a list of      *)
(* steps on the running containers - sidecars that capture, files that     *)
(* switch the servers' behaviour, simulated students - and takes back what *)
(* it changed in its last steps.  A step that is checked, or times out,    *)
(* raises and abandons its scenario where it is; the next one starts on    *)
(* what it left.  What servers announce as the start is theirs             *)
(* (exam_server.py, exam_server_tcp.py).                                   *)
(***************************************************************************)
EXTENDS Naturals, Sequences, FiniteSets, SequencesExt

CONSTANTS
  None,
  ToRun,         \* the scenarios, in order: --scenario, or all of them
  RoundSteps,    \* steps of the runner that a coordination round outlasts
  MaxFails,      \* steps that fail
  MaxCrashes     \* client containers that exit

\* A round takes COLLECTION_WINDOW_SEC, 1.5 s.  Any five steps ahead of students
\* take longer: docker commands, a second's sleep after the sidecars, and the
\* student's own start and three time requests before it asks for the schedule.
ASSUME RunnerConstants ==
  /\ ToRun \in Seq(1 .. 10) \ {<<>>}
  /\ RoundSteps \in 0 .. 5

VARIABLES
  todo,          \* scenarios still to come
  cur, steps,    \* the scenario that runs and its remaining steps
  dirt,          \* what is switched or captured at present
  base,          \* dirt as the current or latest scenario found it
  outcome,       \* "ok" or "failed" of the latest scenario
  silent,        \* a step of it failed unchecked
  down,          \* client containers that are not running
  startFile,     \* start_at.txt: the scenario that wrote it
  startCache,    \* the start each server process has cached
  rounds,        \* steps that a coordination round of each may still last
  seen,          \* announcements to the latest simulated students
  left

vars == <<todo, cur, steps, dirt, base, outcome, silent, down, startFile,
          startCache, rounds, seen, left>>

Clients == {"client-1", "client-2", "client-3"}
Rudp == {"rudp-server-1", "rudp-server-2", "rudp-server-3"}
Servers == Rudp \cup {"tcp-server-sync", "tcp-server-nosync"}
Dns == {"dns-root", "dns-tld", "dns-auth", "dns-resolver"}

-----------------------------------------------------------------------------
(* Steps: what is done to whom, and whether its failure raises. *)

Do(op, arg) == [op |-> op, arg |-> arg, checked |-> FALSE]
Must(op, arg) == [op |-> op, arg |-> arg, checked |-> TRUE]

\* A sidecar for each container, one after the other.
StartCaptures(containers) ==
  LET cs == SetToSeq(containers) IN [i \in DOMAIN cs |-> Must("capture", cs[i])]
StopCaptures(containers) ==
  LET cs == SetToSeq(containers) IN [i \in DOMAIN cs |-> Do("uncapture", cs[i])]

Ensure(clients) ==
  LET cs == SetToSeq(clients) IN [i \in DOMAIN cs |-> Must("ensure", cs[i])]

NewStart == <<Do("clearStart", None), Must("setStart", None)>>

\* Clients, start, sidecars, students on their servers, sidecars off.
Exam(clients, captured, servers) ==
  Ensure(clients) \o NewStart \o StartCaptures(captured \cup clients)
    \o <<Do("sim", servers)>> \o StopCaptures(captured \cup clients)

Scenario1 ==
  StartCaptures({"dhcp-server", "rudp-server-1"} \cup Dns)
    \o <<Must("recreate", "client-1")>> \o StartCaptures({"client-1"})
    \o <<Must("setStart", None), Do("sim", {"rudp-server-1"}), Do("dig", None)>>
    \o StopCaptures({"dhcp-server", "rudp-server-1", "client-1"} \cup Dns)

Scenario2 == Exam(Clients, Rudp, Rudp)

\* The RUDP servers of client-1 and client-2 (RUDP_SERVER_HOST); the sidecars of
\* the next two scenarios are with the first.
TwoRudp == {"rudp-server-1", "rudp-server-2"}

\* The delay of client-2 is taken off before the sidecars.
Scenario3 ==
  LET cs == {"client-1", "client-2"} IN
  Ensure(cs) \o NewStart \o <<Do("on", "netem")>>
    \o StartCaptures({"rudp-server-1"} \cup cs) \o <<Do("sim", TwoRudp)>>
    \o <<Do("off", "netem")>> \o StopCaptures({"rudp-server-1"} \cup cs)

Scenario4 == Exam({"client-1", "client-2"}, {"rudp-server-1"}, TwoRudp)
Scenario5 ==
  Exam({"client-1", "client-2"}, {"tcp-server-nosync"}, {"tcp-server-nosync"})
Scenario6 == Exam({"client-1", "client-2"}, {"tcp-server-sync"}, {"tcp-server-sync"})

\* Without a network to dig from it restores at once: `dig` is then left out.
Scenario7 ==
  <<Must("on", "resolver"), Must("on", "root"), Must("restart", "dns-resolver")>>
    \o StartCaptures(Dns) \o <<Do("dig", None)>> \o StopCaptures(Dns)
    \o <<Must("off", "resolver"), Do("off", "root")>>

\* A plausible slip: the slow send stays switched on.
Scenario8Slow ==
  <<Must("restart", "rudp-server-1"), Must("on", "exam"), Must("on", "slowsend")>>
    \o Exam({"client-1"}, {"rudp-server-1"}, {"rudp-server-1"})
    \o <<Do("off", "exam")>>

Scenario8 ==
  <<Must("restart", "rudp-server-1"), Must("on", "exam"), Must("on", "slowsend")>>
    \o Exam({"client-1"}, {"rudp-server-1"}, {"rudp-server-1"})
    \o <<Do("off", "slowsend"), Do("off", "exam")>>

Large(server) ==
  <<Must("on", "exam")>> \o Exam({"client-1"}, {server}, {server}) \o <<Do("off", "exam")>>

Scenario9 == Large("tcp-server-nosync")
Scenario10 == Large("tcp-server-sync")

StepsOf(n) ==
  CASE n = 1 -> Scenario1 [] n = 2 -> Scenario2 [] n = 3 -> Scenario3
    [] n = 4 -> Scenario4 [] n = 5 -> Scenario5 [] n = 6 -> Scenario6
    [] n = 7 -> Scenario7 [] n = 8 -> Scenario8 [] n = 9 -> Scenario9
    [] n = 10 -> Scenario10

-----------------------------------------------------------------------------

Init ==
  /\ todo = ToRun /\ cur = 0 /\ steps = <<>>
  /\ dirt = {} /\ base = {} /\ outcome = "ok" /\ silent = FALSE
  /\ down = {}
  /\ startFile = 0
  /\ startCache = [x \in Servers |-> None] /\ rounds = [x \in Servers |-> 0]
  /\ seen = {}
  /\ left = [fails |-> MaxFails, crashes |-> MaxCrashes]

Begin ==
  /\ cur = 0 /\ todo # <<>>
  /\ cur' = Head(todo) /\ todo' = Tail(todo)
  /\ steps' = StepsOf(Head(todo))
  /\ base' = dirt /\ silent' = FALSE /\ seen' = {}
  /\ UNCHANGED <<dirt, outcome, down, startFile, startCache, rounds, left>>

\* A scenario whose prerequisites are missing returns: the big exam's file (8
\* has restarted the server by then), the network (7, which switches back).
Unprepared ==
  /\ \/ cur \in {9, 10} /\ steps = StepsOf(cur)
     \/ cur = 8 /\ steps = Tail(Scenario8)
  /\ steps' = <<>>
  /\ UNCHANGED <<todo, cur, dirt, base, outcome, silent, down, startFile,
                 startCache, rounds, seen, left>>

NoNetwork ==
  /\ cur = 7 /\ Len(steps) = Len(Scenario7) - 3
  /\ steps' = SubSeq(Scenario7, Len(Scenario7) - 1, Len(Scenario7))
  /\ UNCHANGED <<todo, cur, dirt, base, outcome, silent, down, startFile,
                 startCache, rounds, seen, left>>

\* A plausible slip: every server answers with the start it once read.
AnnouncedFromCache(server, busy) ==
  IF startCache[server] # None THEN startCache[server] ELSE startFile

\* schedule_req: a synchronising server forgets the start it knows and reads the
\* file, unless a round of its coordinator runs, when reset() is skipped; it then
\* does as the other does, which reads the file only while it knows no start.
Announced(server, busy) ==
  IF server \in {"tcp-server-nosync"} \cup busy /\ startCache[server] # None
    THEN startCache[server] ELSE startFile

\* Time passes, and rounds end.
Elapsed == [x \in Servers |-> IF rounds[x] = 0 THEN 0 ELSE rounds[x] - 1]

\* Students who do not reach their servers report that and raise nothing.  Those
\* who do find rounds that earlier students left, and may leave some themselves:
\* a student that breaks off does not wait for its exam.
Simulate(servers) ==
  \E asked \in {servers, {}} : \E busy \in SUBSET {x \in asked : rounds[x] > 0} :
    /\ seen' = {[server |-> x, start |-> Announced(x, busy)] : x \in asked}
    /\ startCache' = [x \in Servers |-> IF x \in asked THEN Announced(x, busy)
                                       ELSE startCache[x]]
    /\ rounds' = [x \in Servers |-> IF x \in asked \ {"tcp-server-nosync"}
                                     THEN RoundSteps ELSE Elapsed[x]]

\* A new container has a new file system: simulated delays are gone.  The leases
\* that _clear_dhcp_leases removes first are Dhcp's ClearLeases.
Recreated(c) ==
  /\ down' = down \ {c}
  /\ dirt' = IF c = "client-2" THEN dirt \ {"netem"} ELSE dirt

Effect(op, arg) ==
  /\ CASE op \in {"capture", "on"}    -> dirt' = dirt \cup {arg} /\ UNCHANGED down
       [] op \in {"uncapture", "off"} -> dirt' = dirt \ {arg} /\ UNCHANGED down
       [] op = "recreate" -> Recreated(arg)
       [] op = "ensure"   -> IF arg \in down THEN Recreated(arg)
                             ELSE UNCHANGED <<dirt, down>>
       [] OTHER -> UNCHANGED <<dirt, down>>
  /\ startFile' = CASE op = "setStart" -> cur [] op = "clearStart" -> 0
                    [] OTHER -> startFile
  /\ IF op = "sim" THEN Simulate(arg)
     ELSE /\ startCache' = IF op = "restart" /\ arg \in Servers
                             THEN [startCache EXCEPT ![arg] = None] ELSE startCache
          /\ rounds' = IF op = "restart" /\ arg \in Servers
                         THEN [Elapsed EXCEPT ![arg] = 0] ELSE Elapsed
          /\ UNCHANGED seen

\* A sidecar needs its container.
Possible(step) == step.op = "capture" => step.arg \notin down

Fails(step) ==
  /\ steps # <<>>
  /\ Possible(step) => left.fails > 0
  /\ left' = [left EXCEPT !.fails = IF @ = 0 THEN 0 ELSE @ - 1]

Perform ==
  /\ steps # <<>> /\ Possible(Head(steps))
  /\ Effect(Head(steps).op, Head(steps).arg)
  /\ steps' = Tail(steps)
  /\ UNCHANGED <<todo, cur, base, outcome, silent, left>>

\* docker returns an error that nobody looks at.
FailUnseen ==
  /\ steps # <<>> /\ ~Head(steps).checked /\ left.fails > 0
  /\ left' = [left EXCEPT !.fails = @ - 1]
  /\ silent' = TRUE
  /\ steps' = Tail(steps) /\ rounds' = Elapsed
  /\ UNCHANGED <<todo, cur, dirt, base, outcome, down, startFile, startCache, seen>>

\* A plausible slip: the exception leaves the loop over the scenarios.
RaiseOut ==
  /\ Fails(Head(steps))
  /\ outcome' = "failed" /\ steps' = <<>> /\ cur' = 0 /\ todo' = <<>>
  /\ UNCHANGED <<base, silent, dirt, down, startFile, startCache, rounds, seen>>

\* A plausible slip: the rest of the scenario is kept for the next.
RaiseKeeping ==
  /\ Fails(Head(steps))
  /\ outcome' = "failed" /\ cur' = 0
  /\ UNCHANGED <<todo, steps, base, silent, dirt, down, startFile, startCache,
                 rounds, seen>>

\* A checked command fails, or any takes longer than its time, with or without
\* effect: the exception ends the scenario, and main goes on to the next.
Raise ==
  /\ Fails(Head(steps))
  /\ outcome' = "failed" /\ steps' = <<>> /\ cur' = 0
  /\ UNCHANGED <<todo, base, silent>>
  /\ \/ Possible(Head(steps)) /\ Effect(Head(steps).op, Head(steps).arg)
     \/ UNCHANGED <<dirt, down, startFile, startCache, rounds, seen>>

Complete ==
  /\ cur # 0 /\ steps = <<>>
  /\ outcome' = "ok" /\ cur' = 0
  /\ UNCHANGED <<todo, steps, dirt, base, silent, down, startFile, startCache,
                 rounds, seen, left>>

Crash(c) ==
  /\ left.crashes > 0 /\ c \notin down
  /\ down' = down \cup {c}
  /\ left' = [left EXCEPT !.crashes = @ - 1]
  /\ UNCHANGED <<todo, cur, steps, dirt, base, outcome, silent, startFile,
                 startCache, rounds, seen>>

Runner == Begin \/ Unprepared \/ NoNetwork \/ Perform \/ FailUnseen \/ Raise \/ Complete
Next == Runner \/ \E c \in Clients : Crash(c)

Spec == Init /\ [][Next]_vars

\* The runner is one sequential program.
FairSpec == Spec /\ WF_vars(Runner)

-----------------------------------------------------------------------------
(* Properties *)

\* Every variable keeps its type, and no step is left of a scenario that ended.
TypeOK ==
  /\ todo \in Seq(1 .. 10) /\ cur \in 0 .. 10
  /\ cur = 0 => steps = <<>>
  /\ dirt \subseteq Clients \cup Servers \cup Dns \cup
       {"dhcp-server", "netem", "resolver", "root", "exam", "slowsend"}
  /\ outcome \in {"ok", "failed"} /\ silent \in BOOLEAN /\ down \subseteq Clients
  /\ startFile \in 0 .. 10 /\ startCache \in [Servers -> 0 .. 10 \cup {None}]
  /\ rounds \in [Servers -> 0 .. RoundSteps]
  /\ seen \subseteq [server : Servers, start : 0 .. 10]

\* A scenario that is reported complete, none of its clean-up commands having
\* failed unseen, leaves nothing switched on, simulated or captured that it did
\* not find so, whatever earlier scenarios left behind.
RestoredAfterSuccess ==
  cur = 0 /\ outcome = "ok" /\ ~silent => dirt \subseteq base

\* The students of a scenario wait for the start their own scenario wrote, on
\* every server that synchronises, whatever it served before: no round that
\* earlier students left keeps reset() from forgetting the start they knew.
SimsHaveTheirStart ==
  \A a \in seen : cur # 0 /\ a.server # "tcp-server-nosync" => a.start = cur

\* Failures, and what they leave behind, keep no scenario from its turn, not
\* even the last.
EveryScenarioRuns == <>(cur = Last(ToRun))
=============================================================================
