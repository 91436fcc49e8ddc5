# A formal model of the synchronised-exam network

The repository is a distributed exam: students' browsers talk through WebSocket
bridges to exam servers over RUDP, a reliable transport written from scratch on
UDP (or over TCP, for comparison); the containers get their addresses from a
DHCP server and find the exam servers through a recursive DNS hierarchy, both
written from scratch too; an admin panel uploads the exam and resets a session.
This directory holds TLA+ models of its parts, the TLC runs that check them on
small instances, and TLAPS proofs that hold for every instance.

## 1. Inventory

| Part (source) | State it keeps | Operations | Talks to | What is hard | What makes it correct |
|---|---|---|---|---|---|
| RUDP connection (`RUDP/rudp_socket.py`, `RudpSocket`) | send buffer, sequence numbers, `cwnd`/`ssthresh`, reorder buffer, receive queue, `_closed` | `send`, `recv`, `close`, `on_packet` | peer through UDP | loss, duplication, reordering; ACKs processed between any two steps of `send`; timers | exactly-once in-order chunks, whole messages, `send` returns only when all is delivered and always ends |
| RUDP set-up and routing (`rudp_connect`, `RudpServer`, accept loop of `exam_server.py`) | `_connections`, accept queue | SYN, SYN+ACK, dispatch, accept, RST | all clients of a server | late duplicates of handshake packets, half-open connections, restarts | an open socket is the one its address reaches; each is handled once; no connection is left half-open |
| DHCP server (`DHCP/dhcp_server.py`) | leases under two indexes, `leases.json`, offers | DISCOVER, REQUEST, RELEASE, expiry, restart | DHCP clients | old packets, expiry, restarts, two clients at once | one client per address while its lease lasts, also across restarts |
| DHCP client (`DHCP/dhcp_client.py`, `entrypoint.sh`) | `xid`, offered address | one exchange, retries | DHCP server | timeouts, late answers | it uses only an address it was given |
| Exam send coordinator (`exam_server.py`, `exam_server_tcp.py`, `ExamSendCoordinator`) | registry, `T_send`s, event, task | `register`, `wait_t_send`, `reset`, `_coordinate` | connection handlers | callbacks between awaits, `reset` against a running round | every waiter is released, with a time computed for its own round |
| Shared start (`_get_start_at_ms`, admin reset) | `start_at.txt`, a cached copy per process | read or create | five server processes, admin | check-then-create between processes, stale cached copies | one start time for everybody |
| Client tracking (`_update_client`, admin) | `clients.json` | read-modify-write | server processes, admin | lost updates between processes | what was recorded stays recorded |
| Exam session (`handle_connection`, `App.tsx`, `client_sim.py`) | exam id, answers on disk | hello, time, schedule, exam, save, submit | bridge, coordinator, files | order of drafts and submission, idle timeouts, lost connections | the last submission is what is graded |
| Bridges (`RUDP/ws_bridge.py`, `TCP/ws_bridge_tcp.py`) | cached server address, simulated network | two relay tasks | browser, exam server | one direction fails while the other runs; held packets | messages are relayed in order, a session ends on both sides |
| Resolver (`DNS/resolver_server.py`, `dns_server.py`) | cache shared by threads | recursive query | root, TLD, authoritative servers | concurrent expiry, referral loops, partial answers | an answer is one the authority gave within its TTL |
| Root, TLD, authority (`DNS/*_server.py`) | zone data | query | resolver | none | they refer or answer by zone |
| Codecs (`RUDP/rudp_packet.py`, `DNS/dns_packet.py`) | none | encode, decode | | none | what is accepted is what was sent |
| Admin panel (`admin/admin_server.py`) | none of its own | upload, reset, status, submissions | shared files | runs against live servers | a reset leaves nothing of the old session |
| Browser (`App.tsx`) | answers, clock offset | boot, start, save, submit | bridge | reconnects, timers | as the session |
| Scenario runner (`run_scenarios.py`) | files and sidecars it has switched on | ten scenarios, each a list of steps with clean-up at its end | containers, servers' files | a step fails or a container exits anywhere; the next scenario starts on what was left | a scenario that succeeds restores what it changed, unless a clean-up command failed unseen; a failure costs no other scenario its turn |
| Dashboard (`prof_dashboard.py`) | netem state, DNS mode | set delay, set mode, set start, simulate, compare | containers, bridges, resolver | writes to two containers are not atomic | what it switches takes effect on both, or neither matters |
| Installer, captures, exam generator | | | | operator tooling | not modelled |

`PROJECT.json` lists these components with their status, and under `hazards` the
places in the code where something can go wrong that a test would hardly reach,
each with the properties that cover it or the reason why none does yet.

## 2. What is modelled

### RUDP connection: `RudpSocket`, abstract `ReliableStream`

Both endpoints of one established connection, each a sender and a receiver.
`net` is the set of all packets ever sent; receiving one leaves it there, so a
packet can be lost (never received), delayed, reordered and duplicated without
limit. A packet with a bad CRC is dropped by the codec, so corruption is loss.

| Model | Code |
|---|---|
| `sendSeq`, `sendBuf`, `recvSeq`, `recvOoo`, `peerWindow`, `cwnd`, `ssthresh`, `dupAcks`, `lastAck`, `ackEvent`, `closed` | the fields of `RudpSocket` of those names |
| `absorbed`, `taken`, `eof` | `_recv_msg_chunks` and `_recv_queue`: every chunk absorbed so far, how many messages were read, where the first `b''` stands |
| `firstSeq`, `nextSeq`, `pc` | `seqs`, `next_to_send` and the suspension point of the coroutine in `send()` |
| `submitted`, `stream` | history: what the application sent |
| `Send`, `EndPause`, `Return`, `Refill`, `Rto`, `GiveUp` | `send()` between two of its awaits: enqueue and fill; the optional pause; all ACKed; ACK event; timer; `RudpTimeout` |
| `OnData`, `OnAck`, `OnFin`, `OnRst`, `Reject` | `on_packet()` and the routing of `RudpServer._dispatch` around it |
| `Recv`, `Close` | `recv()`, `close()` |

Abstracted: payload bytes (chunk `i` of message `k` is `<<k, i>>`; an empty
payload is kept apart, because such a chunk is never acknowledged); the
fractions of `cwnd` and `ssthresh` (only `int(_cwnd)` is ever used; where a
comparison depends on the fraction both outcomes are allowed); time (a waiting
sender's timer may fire at any moment); sequence numbers are unbounded (32 bits
are not exhausted by an exam); `PING`, which no one sends. One `send()` runs at a
time per side, as in the handler and the bridge, and `close()` is not called
while it runs.

`ReliableStream` says in twenty lines what the users of a connection rely on: a
stream in each direction that arrives as a growing prefix of what was sent, and
a blocking send that succeeds only when everything has arrived, or breaks.

### RUDP set-up, routing and accept: `RudpHandshake`

`client[a]` is `rudp_connect` and the client's socket for address `a`, `socks`
the sockets the server ever created, `table` is `_connections`, `accepts` the
accept queue. The actions are the branches of the two `_dispatch` functions
(`OnSyn`, `OnStray`, `OnData`, `OnAck`, `OnFin`; `OnSynAck`, `ClientOnData`, ...),
the connect timeout, the accept loop, a handler's replies and its end, and a
restart of the server process (`restart: unless-stopped`). Data are one-chunk
messages without window or retransmission, which are `RudpSocket`'s matter: here
a packet can simply arrive any number of times. The MSS exchange is left out
(both sides always offer the same value), and so is the advertised window.

### DHCP: `Dhcp`, abstract `ExclusiveLeases`

Server and clients over a network like the one above. `byMac`, `byIp`, `offers`
are the server's tables, `disk` is `leases.json`. Every handler starts with the
cleanup of leases and offers (`Current`, `CurrentByIp`), as the code does.
DISCOVER reads the clock a second time and may see it advanced. A handler that
changes the file answers after replacing it, in one step of the model: dying in
between is a restart after a step whose answer is lost. `Restart` reads the file
back and forgets offers. `ClearLeases` is the scenario runner's `_clear_dhcp_leases`: it
removes the file under the server, which goes on with its memory (`cleared`) and writes the
file anew with the next lease; a restart before that starts with nothing (`NoFile`), and
`lostUntil` says until when leases forgotten that way would have lasted. A client runs `dhcp_client.py` a bounded number of
times, may fail or be restarted at any point, and never renews, as in the code.
`Release` is external: the server handles RELEASE, but no client here sends it.

`ExclusiveLeases` is the promise: until it expires a lease is its client's alone, and only
a server whose record was erased (`Erase`) can forget it (`Forget`).

### Send coordinator: `ExamCoordinator`, abstract `SynchronizedRelease`

One exam server process - RUDP, TCP with and TCP without synchronisation, chosen
by `kind` in the initial state. Its handlers are asyncio tasks of one event loop,
so an action is what a task does between two awaits.

| Model | Code |
|---|---|
| `registry`, `tSends`, `event`, `task` | the fields of `ExamSendCoordinator`; `task` is when `_coordinate` ends its sleep |
| `est` | `_client_rtts`, `_client_rtt_samples`, `_client_offsets` |
| `startFile`, `startCache` | `start_at.txt`, `_EXAM_START_AT_MS` |
| `h[c]` | the handler of client `c`: idle, in `wait_t_send`, in the stagger sleep, about to answer |
| `Hello`, `ScheduleReq`, `ExamReq` | the branches of `handle_connection`, one variant per server where they differ |
| `Wake`, `StaggerEnds`, `Deliver` | the handler after `_event.wait()`, after `asyncio.sleep`, sending `exam_resp` |
| `Coordinate` | `_coordinate` after the collection window, with an exception in `_get_start_at_ms` as an outcome |
| `SetStart` | the administrator or the runner rewriting the file |

Milliseconds become small numbers; `Tick` lets time pass only while no task that
was woken waits for its turn. The branch of `_coordinate` for an empty registry
is left out because it cannot be reached: `WaitersCovered` says so.

`SynchronizedRelease` is what the coordinator is for: a round that closes calls everybody
who waits, all of them for one moment of arrival that none is late for, and a client is
answered when its own moment to send has come. Who asks when there is no round, or is
called and then forgotten by `reset` before its handler has run, goes `astray` and may
be answered at any time: that much the code gives up, and no more. `PhaseOf`, `DelayOf` and
`ReleaseOf` say where a handler is in it.

### Exam sessions and their files: `ExamSession`, abstract `SubmissionBox`

Several server processes on one volume. A process runs one handler at a time up
to an await (`Running`), but between any two operations on a file another process
acts: `_update_client` is read, open (which truncates), write; `_get_start_at_ms`
is look, open, write. A reader in between finds a torn file. `hnd[c].plan` is what
a handler has left to do with a message before the next (`RudpPlan`, `TcpPlan`: the
two servers reply and record in different orders). `BrowserScript` is what `App.tsx` sends,
with `Autosave`; `SimScript` is `client_sim.py`; `Skipped` leaves requests out of a script
to keep a run small (the proofs hold for every choice). `ResetClients`, `ResetStart`,
`ResetAnswers` are the administrator's reset, `Crash` a process that dies and is
restarted, `CrashSaving` one that dies while it saves answers, `RecvTimeout` the 30 seconds of silence, `Leave` a student who goes.
What was removed under a writer's hands goes with the writer (`Fated`).
`SaveAnswers` is `_save_answers`, which swallows every exception: the text is in the file
(`Stored`), or the file is as it was or truncated (`StoredInPart`) and the handler goes on
and answers `ok` all the same; `unsaved` are the clients to whose submission that
happened. `Submission` is what `api_submissions` shows, passing over files it cannot read
(`Readable`): behind a torn final sheet the draft shows. Answers are "full" or "blank". That
view in the middle of a draft's rewriting, where it may miss the draft, is not modelled, and
a write of `clients.json` or `start_at.txt` that raises out of its handler appears only as the
crash that leaves the same files.

`SubmissionBox` is the promise of the servers, their processes, caches and torn files
left out: a student has drafts until there is a final sheet, that is the sheet the
student sent and nothing replaces it, and nobody is told or listed before it is there, except
for somebody whose sheet could not be kept when it came in (`FailSubmit`): the code says `ok`
to that student too.
Only an administrator who ordered a reset takes sheets away.

### Name resolution: `Resolver`, `DnsPacket`

`th[t]` is a thread of the resolver with one request; the cache is shared without
a lock, so `CacheGet` (look, expire) and `CacheDelete` (`del`) are steps of their own, and a
second `del` raises `KeyError`. `Iterate` is a step of the walk with the reply of
root, TLD or authority, whose zones are those of the source; `Delegate` hands
the walk to the root, which recurses if its flag says so; `QueryLost` is a
query without answer. `Switch` is the dashboard's (or runner's) change of mode,
resolver and root one after the other. `StartTrace`, `TraceStep` are the
administrator's trace. `DnsPacket` is the codec on bytes. A name is text, a sequence of
character codes: `EncodeName` drops a trailing dot, splits at the dots (`Labels`) and, as
`.encode('ascii')` and `bytes([len])` do, raises for a character that is not ASCII and for a
label longer than a byte can say; `DecodeName` raises for a label that is cut short or not
ASCII, half a pointer and a pointer followed twice. `PacketRoundTrips`
(in `MCResolver`) carries what each thread asked and was answered through it:
labels up to the longest that is not taken for a pointer, a name behind one and behind two
compression pointers, the same name cut at every byte, with a byte or a character that is not
ASCII, and a pointer to itself, which must all be refused (`BadNamesRefused`), and `UdpMax` at 40 bytes in place of the code's 512, so that
answers with records are truncated and empty ones are not.

### Bridges: `WsBridge`

A session of a browser with either bridge: `ResolveStart`, `ResolveEnd` the look at
the cached address and the question; `Connected`, `ConnectFails`, `Inform` the
connection and `connection_info`; `w[x]` and `r[x]` the two relay tasks; `Close` what
follows the `gather`. `Receive`, `Drop` are the simulated network, `HoldUntil` and
`Hold` the hold to `target_ms`, `Forward` the frame sent. The reading task ends in the ways
the code has: at the end of the input (`EndOfInput`; over RUDP as soon as FIN has arrived,
whatever is queued), by the exception of a connection that was reset or that the bridge's
other task has closed (`Broken`: unread messages are lost), by a line of more than 64 KiB,
which the `StreamReader` does not hold and an uploaded exam may be (`Overrun`), or in silence.
A line of which a dying server sent the beginning only is not modelled. Server and browser are
environment: they send, close, have their connection reset (`Reset`) and leave when they like, except that an exam leaves a
synchronising server when its coordinator planned it, `TArr - Delay[x]`.

### Scenario runner: `Scenarios`

A scenario is a sequence of steps (`Scenario1` .. `Scenario10`), each an operation on
a container or file; `Must` steps raise when they fail (`check=True`), `Do` steps do
not. `dirt` is the set of what is switched on or captured at present. `Perform`,
`FailUnseen`, `Raise` are the outcomes of a step, `Begin` and `Complete` the loop of `main`,
`Unprepared` and `NoNetwork` the early returns, `Crash` a client container that
exits. A step that raises may or may not have had its effect. `Simulate` are the students,
each at the RUDP server of the client it goes through (`RUDP_SERVER_HOST`), and `Announced`
what that server says the start is: `reset()` forgets the cached start, unless a round of the
coordinator runs, which students of an earlier scenario may have left (`rounds`, the steps of
the runner such a round may still last). A round takes 1.5 s (`COLLECTION_WINDOW_SEC`), and
between the students of one scenario and those of another lie docker commands, a second's
sleep after the sidecars and the students' own start; `RoundSteps`, at most 5, is the number
of steps a round can outlast. That is the one assumption on timing. Clearing the leases
before a container is recreated is `Dhcp`'s `ClearLeases`.

## 3. Runs

All runs switch deadlock checking off: the applications send a bounded number of
messages, queries or frames, the runner's list ends, and then the system stops.

| Run | Shows | Instance |
|---|---|---|
| `rudp_oneway` | refinement of `ReliableStream`, whole messages, end-of-stream last, first transmissions within the window | two messages of 1-2 chunks, window up to 3, receive buffer of 2, one retry, fast retransmit at the second duplicate ACK |
| `rudp_reorder` | exactly-once in-order absorption; every `send()` ends | one message of 0, 1 or 3 chunks, two retries, pauses between batches; three chunks are the least for a run of buffered chunks to be drained |
| `handshake` | routing, accept queue, honest connects, clients that saw one SYN+ACK read in order, no half-open connection stays | two addresses, two server sockets, two messages each, one restart |
| `dhcp` | refinement of `ExclusiveLeases`, agreeing indexes, file against memory, unique addresses, pool limit | two clients (symmetric), one address, leases of one tick, clock up to 3, RELEASE, one restart, `leases.json` removed at any moment |
| `coordinator` | refinement of `SynchronizedRelease`, nobody waits in vain, every `exam_req` answered | each kind of server, two clients with delays 4 and 1 (one measured with an offset beyond its delay), one `schedule_req` and one `exam_req` each, one rewrite of the file, one exception |
| `session` | refinement of `SubmissionBox`; updates do not mix; one start; handlers read to the end | a browser on an RUDP process, a simulated student on either process, one autosave, one fault (reset, crash, failing save, time-out, leaving) anywhere |
| `resolver` | answers as in the zones, `SERVFAIL` only with a reason, every query answered, the codec inverts itself | two threads, three queries of five kinds, records that live one tick, one switch of mode |
| `bridge` | relayed in order and once, held to the target, sessions end | one session through each kind of bridge, one server address, two frames of the browser, messages short or too long, a reset, simulated delay or loss set once |
| `scenarios` | clean-up, own start, every scenario's turn | all ten scenarios, one failing step, one container that exits, rounds that outlast up to five steps |
| `handshake_x_synack` (violation) | a late duplicate of a SYN+ACK makes data be delivered twice | |
| `coordinator_x_late` (violation) | an `exam_req` after a finished round does not wait for its own | |
| `session_x_blank` (violation) | the browser's submission hides the student's answers | |

The bounds are the `Max...` constants of the `.cfg` files. They are reached by every
interesting case: with two messages the ACKs and the data of the first are still
around during the second; with a window of 3 both growth and halving change it;
with one address two clients must pass it on through expiry; with a restart the
file is read back. Two clients are the least for a round of several and for a
`schedule_req` that comes while another's round runs; with one `exam_req` each the
second of them can meet the event the first has left set. Two processes are the
least for the races on files, and with one fault each of them can be cut off
between any two steps. Two threads race on one cache entry; three queries let one
put, two find it expired. The duplicates a network can make are not bounded in
any run. What the bounds cut off, the proofs cover for the properties they state.

The three violations are listed as findings in `PROJECT.json`, each with the
sentence of the repository that it contradicts. Other disagreements between the code
and its documents met while modelling, which the models contain but no run states:

* `RUDP/rudp_socket.py:388`: an advertised window of 0 is taken as 1 ("the sender
  stalls", line 37).
* `RUDP/rudp_socket.py:256`: `_fill_window` ("Transmit new chunks up to
  effective_window", line 254) counts as in flight what has only been put into the
  buffer. A message of as many chunks as the window, or more, starts with a time-out;
  with `cwnd` at 1, as a connection begins, that is every message. Of a smaller one
  only as many chunks are sent as the window is larger.
* `RUDP/rudp_socket.py:276`: the go-back-N that follows sends every unacknowledged chunk
  ("caps its in-flight count at effective_window", line 34). Everything but
  that keeps to the window: `WindowKept`.
* `RUDP/rudp_socket.py:486`: a late duplicate of a SYN opens a second connection once
  the first is forgotten ("duplicate SYN - ignore", line 487).
* `DHCP/dhcp_server.py:145`: offers reserve nothing (`diagrams/01_dhcp.puml:40`).
* `run_scenarios.py:234`: removing `leases.json` "so recreated containers always get a clean
  offer" changes no offer, as the server never reads the file while it runs; what it does is
  that a restart before the next lease forgets all of them.
* `RUDP/exam_server.py:663`, `TCP/exam_server_tcp.py:317`: an exception while answers are saved
  is logged, and the student is told `ok: true`.
* `RUDP/ws_bridge.py:117`: sessions that start together all find `_cached_resolve` empty
  and may choose different servers ("all WebSocket sessions through this bridge hit
  the same backend", line 113).
* `RUDP/ws_bridge.py:220`, `TCP/ws_bridge_tcp.py:164`: the stagger of the coordinator and
  the hold of the bridge both compensate for the delay of a client. `StaggerShows` states
  exactly when an exam that is held comes to be shown: earlier by the client's own
  delay, and so not for all "at the same wall-clock moment" (`RUDP/ws_bridge.py:15`).
* `admin/admin_server.py:91`: the trace sends 0x0100, which sets RD, where the
  comment says RD=0: a root in recursive mode answers it by itself.
* `TCP/exam_server_tcp.py:371`: the server without synchronisation never forgets the
  start it read first, so that "all servers use the same near-future timestamp"
  (`run_scenarios.py:134`) fails for it from the second scenario on.

What properties except: `ImplementsBox` promises sheets until the administrator resets, and
not to somebody whose own save failed; `DiskAgrees` and `ImplementsLeases` are silent about
leases whose file the runner has removed, until the next save; `RelayFaithful` claims complete
delivery over TCP only, and not after a reset, a close by the bridge's own writer, or a line too long;
`SimsHaveTheirStart` is about servers that synchronise;
`RecordsExact` of updates that do not overlap (overlapping ones of two processes lose
entries, `_clients_lock` being of one process); `StartsAgree` unless two processes create
the file at once; `ReadToTheEnd` of the TCP handler (the RUDP one leaves its queue unread
when FIN arrives); `WaitersCovered` and `EveryExamReqAnswered` until `_coordinate` raises.

### Fairness

* `RudpSocket`: a coroutine whose wait or sleep has ended continues
  (`EndPause`, `Return`), and the timer of one that goes on waiting fires
  (`Rto` or `GiveUp`): the asyncio event loop guarantees both. Nothing is assumed
  of the network except in `EverySendEnds`, which is claimed when packets stop
  arriving from some moment on (`Quiet`), since each ACK restarts the wait and
  its timer: finitely many packets, none of them repeated forever.
* `RudpHandshake`: the accept loop runs, and a handler ends, since its client
  sends finitely much and `recv()` then times out. Nothing of clients or network.
* `Dhcp`, `ExamSession`: no liveness is claimed; a client that gets no address gives
  up after three runs, a student whose connection breaks starts again or does not.
* `ExamCoordinator`: the event loop runs every task that can run, each handler and
  the round by itself, and the clock advances while they sleep.
* `Resolver`: each thread goes on; a query that is lost ends by its time-out.
* `WsBridge`: the tasks of a session go on, a `recv` that stays silent times out, the
  clock advances. Nothing is assumed of browser, server or dashboard: `SessionsEnd` is
  claimed when one of them has gone.
* `Scenarios`: the runner is one sequential program; containers exit or do not.

## 4. Proofs

Each `...Proofs` module proves about the module it extends, for all values of the
constants, that its invariant `IInv` is inductive (`Inductive`) and what follows:

| Theorems | Statement |
|---|---|
| `RudpSocketProofs!TypeCorrect`, `DeliveryCorrect`, `ReturnCorrect` | `TypeOK`, `ExactlyOnceInOrder`, `ReturnMeansAbsorbed` |
| `RudpSocketProofs!MessagesCorrect`, `EofCorrect`, `WindowCorrect` | `WholeMessages`; `EofComesLast` and `WindowKept`, action properties |
| `RudpSocketProofs!StreamRefinement` | the connection implements `ReliableStream` |
| `RudpHandshakeProofs!TypeCorrect`, `RoutingCorrect`, `AcceptCorrect`, `ConnectCorrect`, `ReceiveCorrect` | `TypeOK`, `OpenSocketsRouted`, `AcceptedOnce`, `ConnectedToServer`, `ClientInOrder` |
| `DhcpProofs!TypeCorrect`, `IndexesCorrect`, `DiskCorrect`, `AddressesCorrect` | `TypeOK`, `IndexesAgree`, `DiskAgrees`, `LeasedAddressesUnique` |
| `DhcpProofs!LeaseRefinement` | the server implements `ExclusiveLeases` |
| `ExamCoordinatorProofs!TypeCorrect`, `NobodyLeftBehind`, `ArriveTogether`, `NobodyLate` | `TypeOK`, `WaitersCovered`, `SameArrival`, `ReleasedInTime` |
| `ExamCoordinatorProofs!ReleaseRefinement` | the coordinator implements `SynchronizedRelease` |
| `ExamSessionProofs!TypeCorrect`, `SubmissionCorrect`, `RecordsCorrect`, `StartsCorrect`, `ReadCorrect` | `TypeOK`, `SubmissionKept`, `RecordsExact`, `StartsAgree`, `ReadToTheEnd` |
| `ExamSessionProofs!BoxRefinement` | the servers on their files implement `SubmissionBox` |
| `ResolverProofs!TypeCorrect`, `AnswersCorrect`, `FailuresJustified` | `TypeOK`, `AnswerCorrect`, `ServfailJustified` |
| `WsBridgeProofs!TypeCorrect`, `RelayCorrect`, `HoldCorrect`, `StaggerCorrect` | `TypeOK`, `RelayFaithful`, `HeldToTarget`, `StaggerShows` |
| `ScenariosProofs!TypeCorrect`, `RestoreCorrect`, `StartCorrect` | `TypeOK`, `RestoredAfterSuccess`, `SimsHaveTheirStart` |

Every safety property that a passing run checks has its theorem, except
`PacketRoundTrips`. Five of the theorems state what no run checks by itself:
`ReturnMeansAbsorbed`, `SameArrival` and `ReleasedInTime`, and `SubmissionKept` say in the
system's own variables what the refinements of `ReliableStream`, `SynchronizedRelease` and
`SubmissionBox` promise, and `StaggerShows` is `HeldToTarget` with the coordinator's
stagger put in. The assumptions are the `ASSUME`s of the modelled modules, which TLC
evaluates in every run: sizes, delays and limits are naturals; windows, thresholds, lease
and offer times, round trips and the collection window are not zero; the clients of a
coordinator are finitely many, since it computes the longest delay among them; servers,
students and scenarios are of the kinds the code has; a coordination round outlasts at most five
steps of the runner (`RunnerConstants`); `None` and `Torn` are no value of
the data they stand beside. None but that on rounds restricts the network, the order of events
or the number of anything.

The arguments, each with one lemma per action:

*RUDP connection.* In-order delivery is not inductive. The invariant adds: sequence
numbers are positions in the streams (`Positions`); a sequence number means the same
chunk in the network, the send buffer and the reorder buffer (`SeqFaithful`), so
whatever is drained from the reorder buffer is right; no ACK field, also none
frozen long ago into a buffered packet, claims more than its writer has absorbed
(`AckFaithful`); and what has left the send buffer has been absorbed by the peer
(`BufferCovers`), for which the previous part is needed. `ReturnMeansAbsorbed` follows
from `BufferCovers`, and the refinement from the invariant: `InOrder` is `Arrive`,
`Return` is `Confirm`, `GiveUp` is `Break`, `Send` is `Submit`, everything else is a
stutter. `WholeMessages` counts ends of messages along a stream, which would be an
induction over data; instead `Framed` says that some function `b` gives the position of
the last chunk of each message, every step of `Send` extends it by one place, and the
counts follow from a bijection between the messages absorbed and the ends seen.
`WindowKept` holds because `Send` begins to transmit only when the whole message fits the
window, `Refill` goes on only when everything unacknowledged fits, and whatever `Rto`
puts in flight carries a retry. `EofComesLast` needs that only a closed side's FIN or RST is ever in the network, and
that a side that closes first is not sending (`Closures`).

*RUDP set-up.* The reorder buffer of every socket is finite, so the run that is drained
ends (`Buffered`); what a server socket has delivered are the messages up to its sequence
number (`SocketsInOrder`); a SYN+ACK in the network, and a client that has taken one,
have a socket that sent it (`Answered`). Of client sockets order is false, as the run
`handshake_x_synack` shows; what holds, and is proved as an invariant of its own on top of
`IInv`, is that a client reads nothing before its first SYN+ACK, since it then waits for
chunk 0, which no server sends, and reads in order until a second one (`ClientsInOrder`).

*DHCP.* The two indexes are inverse to each other, in memory and in the file;
memory and file, while there is one, hold the same unexpired leases, though the file is not
rewritten when leases expire; an offer to a client with a lease is of its address, which is
what makes a granted REQUEST extend a lease and not move it. With these, each
step is a grant, a release, the passing of time or a stutter of
`ExclusiveLeases`; a restart is a stutter, because the unexpired leases are the
same before and after, or, once the runner has removed the file (`Erase`), a `Forget`. For the
clients' side, `LeasesKept`: whatever was ever
acknowledged to a client that never released is still leased to it, for at least as long,
has expired, or was forgotten and would expire by `lostUntil`; so old and repeated ACKs do no harm, and two clients with one address
would have two live leases of it.

*Coordinator.* Rounds are numbered by a history variable. A waiting handler belongs to the
round to come, a woken one to the round just finished, and no round can finish between its
waking and its running, because the event loop runs it before time passes
(`RoundsNumbered`). Send times belong to registered clients, and a waiting handler is
registered with the delay it came with or was removed by `reset` (`Registered`). Handlers of
one round agree on the arrival from the moment the round computes it, although they
run one after the other (`SettledTogether`). For the refinement of `SynchronizedRelease` a handler must
not be about to answer before its send time, and a woken one must have a round (`Punctual`):
`Coordinate` is `Close` or, when it raises, `Fail`; `Wake` is `Take`, `Deliver` is `Release`,
a `schedule_req` that resets is `Forget`, and `Tick` is `Pass` because nobody is woken while
time passes. That a round calls everybody who waits is where `WaitersCovered` is needed.

*Session.* A process inside an operation on a file holds up the very handler it works for
(`Busy`); a client has at most one request under way, in its inbox or in a handler's hands,
besides autosaves (`Requests`); whatever says that a client submitted - its own state, the
message in hand, `clients.json`, or a copy of it that a process read and has not written
back - is younger than its final file, or the client is one whose own save failed (`Kept`);
a torn draft matters to nobody whose final file is there. While nothing overlapped, at most one
process updates and its copy is the recorded table with its own client's change (`Exact`);
while nothing raced, a start is in the file or one process is about to write it (`OneStart`). In the refinement of `SubmissionBox`
a message read is `Save` or `Submit`, a reply is `Tell`, for which `Kept` says that the sheet is
there, and any write of `clients.json`, by whatever process from whatever stale copy, is
`Record`: `Kept` bounds what it can list. An autosave after the submission changes the draft,
which the final sheet hides, and is a stutter.

*Resolver.* A walk is at the root, the TLD server or, with names of its zone only, at the
authority (`Down`), so that it ends after three questions and what it is told is right for
the question; cache entries are right for their keys, whoever wrote or deletes them
(`GoodEntry`); and a request that failed has met a server that did not answer, another
thread's `del`, or asked for what is not there.

*Bridges.* Every message of the server up to the one in hand was shown, dropped by the
simulated network, or broke off the session (`Relayed`); a task that stopped reading over TCP
has a reason, and the only one that leaves anything unread of a connection that was closed in
order is a line too long, since the own writer is closed only when the browser has left
(`Ended`); a message that is being held has the
target as its end, or had passed it (`Held`); no frame is answered twice (`Counted`). An exam carries
the time at which the coordinator let it go (`OnTime`), which with `Held` gives the time it is shown.

*Scenario runner.* First that each of the ten lists of steps is `Tidy`: everything switched
on or captured in it is taken back later in it, between the start that is set and the
students nothing removes the start, and the students come once, after more than five steps
(`Spaced`). Lists are put together by `\o` from parts about which this is
shown separately (`Concat`: what the first part leaves, the second may remove). Then, of the
runner: the steps left are the end of the list of its scenario (`Rest`); what is on and
was not found so was switched on by a step that is behind, and a step that is left takes it
back (`Accounted`), which is why the two early returns are harmless; students still to
come find the start set before them or in the file (`StartDue`); and a round that earlier
students left has lost one step of its time for each step behind (`RoundsDue`), so that it is
over when the next ones ask and `reset()` is not skipped.

Only model-checked:

* liveness (`EverySendEnds`, `HalfOpenEnds`, `EveryExamReqAnswered`, `EveryQueryAnswered`,
  `SessionsEnd`, `EveryScenarioRuns`), which is out of the proof system's reach;
* `PacketRoundTrips`: encoding and decoding are recursive over bytes, and what a recursive
  definition computes for every input needs an induction that the installed provers
  cannot instantiate;
* the three violations, which are counterexamples.

## 5. Plan

1. Models and runs of every part of section 2 (done).
2. Proofs of type correctness and of the safety properties of the runs, for every model
   (done, with the exception above).
3. Refinements and properties that the first proofs suggested (done): the coordinator as a
   synchronised release, the servers as a submission box, a client's socket after one SYN+ACK,
   the sum of stagger and hold, first transmissions within the window.
4. To come: sessions of one bridge that choose a server at the same time; the coordinator and
   the bridges of its clients in one model, in which `StaggerShows` would follow from
   `SameArrival` instead of from the environment's promise.

## 6. Not modelled

* CRC arithmetic and header layout of `rudp_packet.py`: a packet that does not check is
  a packet that is lost. Round-trip estimates and MSS values of the transport.
* The dashboard's simulations, comparison and load test, with their barriers: they are
  further clients of the bridges, as `client_sim.py` is, and compute statistics.
* The administrator's other views, HTML, charts, the runner's printed results, the
  installer, packet captures, the exam generator, container orchestration.
