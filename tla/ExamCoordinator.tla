-------------------------- MODULE ExamCoordinator --------------------------
(***************************************************************************)
(* The send coordinator of one exam server process (exam_server.py and its *)
(* TCP twin): handlers of many connections run in one event loop, so a     *)
(* step is what a task does from one suspension to the next.  An exam_req  *)
(* registers its client, waits for the round that collects it, and sleeps  *)
(* until the T_send that round gave it; a schedule_req resets everything.  *)
(* One connection per client, which says hello before anything else.       *)
(***************************************************************************)
EXTENDS Integers, FiniteSets

CONSTANTS
  Client, None,
  Kinds,          \* deployments checked, out of rudp, tcp_sync, tcp_nosync
  Rtts, Samples,  \* what clients report: RTTs, and [med, jit, off] of three
  DefaultRtt,     \* 100.0 ms
  Window, CSend, Margin, StartOffset,
  StartTimes,     \* what others write into start_at.txt
  MaxSchedules, MaxExams, MaxSets, MaxFails

\* Finitely many clients; a round collects for some time before it is computed.
ASSUME ConstantsOK ==
  /\ IsFiniteSet(Client)
  /\ None \notin Int
  /\ Kinds \subseteq {"rudp", "tcp_sync", "tcp_nosync"}
  /\ Rtts \subseteq Nat /\ StartTimes \subseteq Nat
  /\ Samples \subseteq [med : Nat, jit : Nat, off : Int \cup {None}]
  /\ {DefaultRtt, CSend, Margin, StartOffset} \subseteq Nat
  /\ Window \in Nat \ {0}
  /\ {MaxSchedules, MaxExams, MaxSets, MaxFails} \subseteq Nat

VARIABLES
  kind,           \* TRANSPORT and SYNC_ENABLED of this process
  now,            \* time.time()
  startFile,      \* start_at.txt
  startCache,     \* _EXAM_START_AT_MS
  est,            \* _client_rtts, _client_rtt_samples, _client_offsets
  registry,       \* _registry: the D_i of the clients of a round
  tSends,         \* _t_sends
  event,          \* _event
  task,           \* _task: when the running _coordinate wakes, None if done
  h,              \* the handler of each connection
  round,          \* rounds finished (history)
  left            \* requests still to come, rewrites and failures (bounds)

coord == <<startFile, startCache, est, registry, tSends, event, task, round>>
vars == <<kind, now, coord, h, left>>

Blank == [rtt |-> None, sample |-> None, offset |-> None]
Nobody == [c \in Client |-> None]
Sync == kind # "tcp_nosync"

Init ==
  /\ kind \in Kinds
  /\ now = 0
  /\ startFile \in StartTimes \cup {None}
  /\ startCache = None
  /\ est = [c \in Client |-> Blank]
  /\ registry = Nobody
  /\ tSends = Nobody
  /\ event = FALSE
  /\ task = None
  /\ h = [c \in Client |-> [pc |-> "new", woken |-> FALSE, D |-> 0,
                            tSend |-> None, round |-> 0]]
  /\ round = 0
  /\ left = [schedules |-> [c \in Client |-> MaxSchedules],
             exams |-> [c \in Client |-> MaxExams],
             sets |-> MaxSets, fails |-> MaxFails]

-----------------------------------------------------------------------------
(* Delay estimates. *)

\* What a client's entries become with a report of three samples, if any.
Reported(c, s) ==
  IF s = None THEN est
  ELSE [est EXCEPT ![c] = [rtt |-> s.med, sample |-> s,
                           offset |-> IF s.off = None THEN @.offset ELSE s.off]]

\* A plausible slip: an offset larger than the delay makes it negative.
ComputeDUnclamped(e) ==
  IF e.sample = None
    THEN (IF e.rtt = None THEN DefaultRtt ELSE e.rtt) \div 2
    ELSE IF e.offset = None THEN (e.sample.med + e.sample.jit) \div 2
         ELSE e.sample.med \div 2 - e.offset + e.sample.jit \div 2

ComputeD(e) ==
  IF e.sample = None
    THEN (IF e.rtt = None THEN DefaultRtt ELSE e.rtt) \div 2
    ELSE LET med == e.sample.med
             jit == e.sample.jit
             down == med \div 2 - e.offset + jit \div 2
         IN IF e.offset = None THEN (med + jit) \div 2
            ELSE IF down < 1 THEN 1 ELSE down

TcpHello(c, r) ==
  /\ kind \in {"tcp_sync", "tcp_nosync"}
  /\ est' = IF Sync THEN [est EXCEPT ![c].rtt = r] ELSE est

RudpHello(c, r) ==
  /\ kind = "rudp"
  /\ est' = [est EXCEPT ![c].rtt = r]

Hello(c, r) ==
  /\ h[c].pc = "new"
  /\ RudpHello(c, r) \/ TcpHello(c, r)
  /\ h' = [h EXCEPT ![c].pc = "idle"]
  /\ UNCHANGED <<kind, now, startFile, startCache, registry, tSends, event,
                 task, round, left>>

-----------------------------------------------------------------------------
(* The shared start and the reset. *)

\* _get_start_at_ms with the cached value `cache`: the file, or a new start
\* written to it.  The write may raise, the new start being cached already.
StartAt(cache) ==
  IF cache # None THEN cache
  ELSE IF startFile # None THEN startFile
  ELSE now + StartOffset

GetStart(cache, fails) ==
  /\ startCache' = StartAt(cache)
  /\ IF fails
       THEN /\ cache = None /\ startFile = None
            /\ left.fails > 0
            /\ startFile' = startFile
       ELSE startFile' = IF cache = None THEN StartAt(cache) ELSE startFile

\* A plausible slip: the reset forgets that a round may be running.
ResetAlways ==
  /\ registry' = Nobody
  /\ tSends' = Nobody
  /\ event' = FALSE

\* reset(), skipped while a round is collecting; `e` are the estimates the
\* RUDP server forgets and its TCP twin keeps.
ResetRound ==
  IF task # None THEN UNCHANGED <<registry, tSends, event>>
  ELSE /\ registry' = Nobody
       /\ tSends' = Nobody
       /\ event' = FALSE

RudpReset(e) ==
  /\ ResetRound
  /\ est' = IF task # None THEN e ELSE [c \in Client |-> Blank]

TcpReset(e) ==
  /\ ResetRound
  /\ est' = e

CacheAfterReset == IF task # None THEN startCache ELSE None

RudpScheduleReq(c, s, fails) ==
  /\ kind = "rudp"
  /\ RudpReset(Reported(c, s))
  /\ GetStart(CacheAfterReset, fails)

TcpScheduleReq(c, s, fails) ==
  \/ /\ kind = "tcp_sync"
     /\ TcpReset(Reported(c, s))
     /\ GetStart(CacheAfterReset, fails)
  \/ /\ kind = "tcp_nosync"
     /\ GetStart(startCache, fails)
     /\ UNCHANGED <<est, registry, tSends, event>>

\* An exception leaves through the handler's finally and ends the connection.
ScheduleReq(c, s, fails) ==
  /\ h[c].pc = "idle"
  /\ left.schedules[c] > 0
  /\ RudpScheduleReq(c, s, fails) \/ TcpScheduleReq(c, s, fails)
  /\ h' = [h EXCEPT ![c].pc = IF fails THEN "closed" ELSE "idle"]
  /\ left' = [left EXCEPT !.schedules[c] = @ - 1,
                          !.fails = IF fails THEN @ - 1 ELSE @]
  /\ UNCHANGED <<kind, now, task, round>>

-----------------------------------------------------------------------------
(* An exam_req: register, wait, sleep until T_send, deliver. *)

\* A plausible slip: a task is created once and for all.
RegisterOnce(c, D) ==
  /\ registry' = [registry EXCEPT ![c] = D]
  /\ task' = IF task = None /\ round = 0 THEN now + Window ELSE task

\* register(): a task unless one runs, and the client among its items.
Register(c, D) ==
  /\ registry' = [registry EXCEPT ![c] = D]
  /\ task' = IF task = None THEN now + Window ELSE task

\* wait_t_send() and the stagger sleep of a handler that goes on now, whose
\* round is r.  tSends has no entry for a client that nobody scheduled.
Scheduled(hc, c, r) ==
  LET t == IF tSends[c] = None THEN now ELSE tSends[c] IN
    [hc EXCEPT !.pc = IF t > now THEN "stagger" ELSE "deliver",
               !.woken = FALSE, !.tSend = t,
               !.round = IF tSends[c] = None THEN 0 ELSE r]

\* A handler that finds the event set does not wait: its round is 0.
SyncExamReq(c, s) ==
  LET e == Reported(c, s)
      D == ComputeD(e[c])
      hc == [h[c] EXCEPT !.pc = "wait", !.D = D, !.round = round + 1]
  IN /\ est' = e
     /\ Register(c, D)
     /\ h' = [h EXCEPT ![c] = IF event THEN Scheduled(hc, c, 0) ELSE hc]

RudpExamReq(c, s) == kind = "rudp" /\ SyncExamReq(c, s)

TcpExamReq(c, s) ==
  \/ kind = "tcp_sync" /\ SyncExamReq(c, s)
  \/ /\ kind = "tcp_nosync"
     /\ h' = [h EXCEPT ![c].pc = "deliver"]
     /\ UNCHANGED <<est, registry, task>>

ExamReq(c, s) ==
  /\ h[c].pc = "idle"
  /\ left.exams[c] > 0
  /\ RudpExamReq(c, s) \/ TcpExamReq(c, s)
  /\ left' = [left EXCEPT !.exams[c] = @ - 1]
  /\ UNCHANGED <<kind, now, startFile, startCache, tSends, event, round>>

Wake(c) ==
  /\ h[c].pc = "wait" /\ h[c].woken
  /\ h' = [h EXCEPT ![c] = Scheduled(h[c], c, h[c].round)]
  /\ UNCHANGED <<kind, now, coord, left>>

\* A plausible slip: the sleep before T_send is left out.
StaggerSkipped(c) ==
  /\ h[c].pc = "stagger"
  /\ h' = [h EXCEPT ![c].pc = "deliver"]
  /\ UNCHANGED <<kind, now, coord, left>>

StaggerEnds(c) ==
  /\ h[c].pc = "stagger" /\ h[c].tSend <= now
  /\ h' = [h EXCEPT ![c].pc = "deliver"]
  /\ UNCHANGED <<kind, now, coord, left>>

\* exam_resp is sent, or fails to be, and the handler reads on.
Deliver(c) ==
  /\ h[c].pc = "deliver"
  /\ h' = [h EXCEPT ![c].pc = "idle"]
  /\ UNCHANGED <<kind, now, coord, left>>

-----------------------------------------------------------------------------
(* A round: _coordinate after its sleep.  register() put someone in the      *)
(* registry and no reset empties it before: see WaitersCovered.              *)

Items == {c \in Client : registry[c] # None}

MaxD == CHOOSE d \in {registry[c] : c \in Items} :
          \A c \in Items : registry[c] <= d

\* T_arr: the shared start, or the soonest moment that is left.
Arrival(start, d) ==
  IF start < now + d + Margin
    THEN now + d + Cardinality(Items) * CSend + Margin
    ELSE start

\* T_send of each client collected.
SendTimes(start) ==
  [c \in Client |-> IF c \in Items THEN Arrival(start, MaxD) - registry[c]
                                   ELSE tSends[c]]

WakeAll == [c \in Client |-> IF h[c].pc = "wait"
                               THEN [h[c] EXCEPT !.woken = TRUE] ELSE h[c]]

\* _get_start_at_ms may raise: nobody is woken, and nobody asks the task why.
Coordinate(fails) ==
  /\ task # None /\ task <= now
  /\ GetStart(startCache, fails)
  /\ task' = None
  /\ IF fails
       THEN UNCHANGED <<tSends, event, h, round>>
       ELSE /\ tSends' = SendTimes(StartAt(startCache))
            /\ event' = TRUE
            /\ h' = WakeAll
            /\ round' = round + 1
  /\ left' = [left EXCEPT !.fails = IF fails THEN @ - 1 ELSE @]
  /\ UNCHANGED <<kind, now, est, registry>>

-----------------------------------------------------------------------------
(* The environment: the administrator and the scenario runner rewrite or     *)
(* remove start_at.txt; time passes while a task sleeps, and not before the  *)
(* tasks already woken have run: the loop takes them first.                  *)

SetStart(t) ==
  /\ left.sets > 0
  /\ startFile' = t
  /\ left' = [left EXCEPT !.sets = @ - 1]
  /\ UNCHANGED <<kind, now, startCache, est, registry, tSends, event, task,
                 round, h>>

Tick ==
  /\ \A c \in Client : ~h[c].woken
  /\ \/ task # None /\ now < task
     \/ \E c \in Client : h[c].pc = "stagger" /\ now < h[c].tSend
  /\ now' = now + 1
  /\ UNCHANGED <<kind, coord, h, left>>

Next ==
  \/ \E c \in Client :
       \/ \E r \in Rtts : Hello(c, r)
       \/ \E s \in Samples \cup {None}, fails \in BOOLEAN :
            ScheduleReq(c, s, fails)
       \/ \E s \in Samples \cup {None} : ExamReq(c, s)
       \/ Wake(c)
       \/ StaggerEnds(c)
       \/ Deliver(c)
  \/ \E fails \in BOOLEAN : Coordinate(fails)
  \/ \E t \in StartTimes \cup {None} : SetStart(t)
  \/ Tick

Spec == Init /\ [][Next]_vars

\* The event loop runs every task that can run, and clocks advance.
FairSpec ==
  /\ Spec
  /\ \A c \in Client : WF_vars(Wake(c)) /\ WF_vars(StaggerEnds(c) \/ Deliver(c))
  /\ WF_vars(\E fails \in BOOLEAN : Coordinate(fails))
  /\ WF_vars(Tick)

-----------------------------------------------------------------------------
(* Properties *)

\* Every variable of the process keeps its type; a D_i is never negative, however
\* far the clocks of a client and the server are apart.
TypeOK ==
  /\ kind \in Kinds
  /\ now \in Nat
  /\ startFile \in Nat \cup {None} /\ startCache \in Nat \cup {None}
  /\ est \in [Client -> [rtt : Nat \cup {None}, sample : Samples \cup {None},
                         offset : Int \cup {None}]]
  /\ registry \in [Client -> Nat \cup {None}]
  /\ tSends \in [Client -> Int \cup {None}]
  /\ event \in BOOLEAN
  /\ task \in Nat \cup {None}
  /\ h \in [Client -> [pc : {"new", "idle", "wait", "stagger", "deliver",
                             "closed"},
                       woken : BOOLEAN, D : Nat, tSend : Int \cup {None},
                       round : Nat]]
  /\ round \in Nat
  /\ left \in [schedules : [Client -> Nat], exams : [Client -> Nat],
               sets : Nat, fails : Nat]

\* Nobody waits for a round that does not come: a handler that is blocked in
\* wait_t_send() and not yet woken is in the registry with the D_i it came
\* with, of a round still collecting, unless _coordinate has raised.  Neither a
\* late schedule_req nor a round already finished may leave it behind (reset's
\* guard, register's test of the task, and the clearing of the event together).
WaitersCovered ==
  /\ task # None => Items # {}
  /\ \A c \in Client :
       h[c].pc = "wait" /\ ~h[c].woken =>
         /\ ~event
         /\ \/ registry[c] = h[c].D /\ task # None
            \/ left.fails < MaxFails

\* The handlers that one round released aim at one moment of arrival,
\* whatever each one's delay: T_send[i] + D_i is the same for all of them.
SameArrival ==
  \A c, d \in Client :
    /\ {h[c].pc, h[d].pc} \subseteq {"stagger", "deliver", "idle"}
    /\ h[c].round # 0
    /\ h[c].round = h[d].round
    => h[c].tSend + h[c].D = h[d].tSend + h[d].D

\* A handler woken by its round still has time to send, and what it sends
\* does not arrive before the start the round was computed from: T_send is not
\* yet past and T_send + D_i is not before start_at.
ReleasedInTime ==
  \A c \in Client :
    h[c].woken /\ tSends[c] # None =>
      /\ tSends[c] >= now + Margin
      /\ startCache # None /\ tSends[c] + h[c].D >= startCache

\* The rounds release their clients together and in time (SynchronizedRelease).
\* Where a request is: its handler waits, is called once it is woken and has a
\* send time, and due once it has taken it; nobody scheduled the others.
PhaseOf(c) ==
  CASE h[c].pc = "wait" /\ ~h[c].woken -> "waiting"
    [] h[c].woken /\ tSends[c] # None -> "called"
    [] h[c].woken /\ tSends[c] = None -> "astray"
    [] h[c].pc \in {"stagger", "deliver"} ->
         IF h[c].round # 0 THEN "due" ELSE "astray"
    [] OTHER -> "away"
DelayOf(c) == IF PhaseOf(c) \in {"waiting", "called", "due"} THEN h[c].D ELSE None
ReleaseOf(c) ==
  CASE PhaseOf(c) = "called" -> tSends[c]
    [] PhaseOf(c) = "due" -> h[c].tSend
    [] OTHER -> None
Abstract == INSTANCE SynchronizedRelease WITH
              phase <- [c \in Client |-> PhaseOf(c)],
              delay <- [c \in Client |-> DelayOf(c)],
              release <- [c \in Client |-> ReleaseOf(c)],
              failed <- (left.fails < MaxFails)

\* A round releases everybody who waits for it, together whatever the delays:
\* its clients aim at one moment of arrival, none is answered before its own
\* T_send has come, and only a reset in the instant between the round's end and
\* the handlers' waking, or a round that has raised, loses one of them.
ImplementsRelease == Abstract!Spec

\* Every exam_req is answered, unless _coordinate has raised.
EveryExamReqAnswered ==
  \A c \in Client :
    h[c].pc \in {"wait", "stagger", "deliver"} ~>
      h[c].pc = "idle" \/ left.fails < MaxFails

\* "All exam_req handlers wait until the coordinator has seen all clients"
\* (exam_server.py, at exam_req): the T_send of a handler about to answer comes
\* from a round that collected it.
AllHandlersWait ==
  kind = "rudp" => \A c \in Client : h[c].pc = "deliver" => h[c].round # 0
=============================================================================
