------------------------------ MODULE WsBridge ------------------------------
(***************************************************************************)
(* The WebSocket bridges of a client container (ws_bridge.py over RUDP,    *)
(* ws_bridge_tcp.py over TCP, with or without synchronised delivery).  A   *)
(* session is a browser's connection: one task forwards its frames to the  *)
(* server, another the server's messages to the browser, holding back what *)
(* is to be shown at one moment.  Servers and browsers are environment;    *)
(* exam_resp is sent when the coordinator planned it, T_arr - D.  What the *)
(* frames say is left out, hello's injected rtt_ms with it.                *)
(***************************************************************************)
EXTENDS Integers, Sequences, FiniteSets

CONSTANTS
  Session, None,
  Kinds,         \* of {"rudp", "tcp_sync", "tcp_nosync"}: chosen initially
  Ips,           \* addresses of RUDP_SERVER_HOST
  Delay,         \* D of each session's client, as the coordinator estimated it
  TArr,          \* arrival time the coordinator planned
  MaxRtt,        \* max_rtt_ms of its responses
  Rtt,           \* connect time of a TCP bridge
  Buffer,        \* JITTER_BUFFER_MS
  NetemDelays,   \* delays the dashboard simulates
  MaxTime, MaxFrames, MaxNetem

\* A round trip takes time: the bridges take 0 for not known (ws_bridge.py:208).
ASSUME BridgeConstants ==
  /\ Delay \in [Session -> Nat] /\ TArr \in Nat
  /\ MaxRtt \in Nat \ {0} /\ Rtt \in Nat \ {0}
  /\ Buffer \in Nat /\ NetemDelays \subseteq Nat
  /\ MaxTime \in Nat /\ MaxFrames \in Nat /\ MaxNetem \in Nat

VARIABLES
  kind, now,
  netem,        \* netem_delay.json: simulated delay and loss
  cached,       \* _cached_resolve
  s,            \* the sessions; `up` is the connection to the server: closed by
                \* the server, shut by the bridge's own writer, or reset
  w, r,         \* their two tasks
  sent,         \* what each server sent, in order
  out,          \* what each browser got: which message, when, how long held;
                \* connection_info is number 0
  dropped,      \* what each bridge's netem dropped
  left          \* bounds on the environment's choices

vars == <<kind, now, netem, cached, s, w, r, sent, out, dropped, left>>

Sync == kind # "tcp_nosync"

Init ==
  /\ kind \in Kinds /\ now = 0
  /\ netem = [delay |-> 0, loss |-> FALSE]
  /\ cached = None
  /\ s = [x \in Session |-> [pc |-> "new", ip |-> None, ws |-> "open",
                             up |-> "none", frames |-> 0, asked |-> 0,
                             maxRtt |-> 0]]
  /\ w = [x \in Session |-> "none"]
  /\ r = [x \in Session |-> [pc |-> "none", i |-> 0, until |-> 0, hold |-> 0]]
  /\ sent = [x \in Session |-> <<>>]
  /\ out = [x \in Session |-> <<>>]
  /\ dropped = [x \in Session |-> {}]
  /\ left = [frames |-> [x \in Session |-> MaxFrames], netem |-> MaxNetem]

-----------------------------------------------------------------------------
(* handle_ws: resolve, connect, say so, run both tasks, close. *)

\* _resolve_server runs in a thread: it looks at the cache ...
ResolveStart(x) ==
  /\ s[x].pc = "new"
  /\ s' = [s EXCEPT ![x].pc = "resolve",
                    ![x].ip = IF kind = "rudp" THEN cached ELSE None]
  /\ UNCHANGED <<kind, now, netem, cached, w, r, sent, out, dropped, left>>

\* ... and asks the resolver when it was empty, whose first address it keeps.
ResolveEnd(x) ==
  /\ s[x].pc = "resolve"
  /\ \E ip \in IF s[x].ip = None THEN Ips ELSE {s[x].ip} :
       /\ s' = [s EXCEPT ![x].pc = "connect", ![x].ip = ip]
       /\ cached' = IF kind = "rudp" THEN ip ELSE cached
  /\ UNCHANGED <<kind, now, netem, w, r, sent, out, dropped, left>>

\* The server's handler starts when the connection does.  A TCP bridge starts
\* from its own connect time where a RUDP bridge waits to be told.
Connected(x) ==
  /\ s[x].pc = "connect"
  /\ s' = [s EXCEPT ![x].pc = "info", ![x].up = "open",
                    ![x].maxRtt = IF kind = "tcp_sync" THEN 2 * Rtt ELSE 0]
  /\ UNCHANGED <<kind, now, netem, cached, w, r, sent, out, dropped, left>>

\* The browser is told that there is no server, and the session ends.
ConnectFails(x) ==
  /\ s[x].pc \in {"resolve", "connect"}
  /\ s' = [s EXCEPT ![x].pc = "over", ![x].ws = "closed"]
  /\ UNCHANGED <<kind, now, netem, cached, w, r, sent, out, dropped, left>>

\* connection_info.  A browser gone by now makes ws.send raise: the RUDP bridge
\* returns without closing its connection, and so does the TCP bridge.
Inform(x) ==
  /\ s[x].pc = "info"
  /\ IF s[x].ws = "open"
       THEN /\ s' = [s EXCEPT ![x].pc = "run"]
            /\ out' = [out EXCEPT ![x] = Append(@, [i |-> 0, at |-> now, hold |-> 0])]
            /\ w' = [w EXCEPT ![x] = "recv"]
            /\ r' = [r EXCEPT ![x].pc = "recv"]
       ELSE s' = [s EXCEPT ![x].pc = "over"] /\ UNCHANGED <<out, w, r>>
  /\ UNCHANGED <<kind, now, netem, cached, sent, dropped, left>>

\* gather() has both results: the connection is closed, and the WebSocket with
\* the handler's return.
Close(x) ==
  /\ s[x].pc = "run" /\ w[x] = "done" /\ r[x].pc \in {"done", "silent"}
  /\ s' = [s EXCEPT ![x].pc = "over", ![x].up = "closed", ![x].ws = "closed"]
  /\ UNCHANGED <<kind, now, netem, cached, w, r, sent, out, dropped, left>>

-----------------------------------------------------------------------------
(* _ws_to_rudp and _ws_to_tcp *)

\* The task ends; that of the TCP bridge closes its writer, and with it the
\* connection that the other task reads.
WsEnds(x) ==
  /\ w' = [w EXCEPT ![x] = "done"]
  /\ s' = IF kind = "rudp" \/ s[x].up = "reset" THEN s
          ELSE [s EXCEPT ![x].up = "shut"]

\* A frame is taken and sent, and the next is not read before: send() of RUDP
\* returns when all is acknowledged, drain() of TCP when there is room.
TakeFrame(x) ==
  /\ w[x] = "recv" /\ s[x].frames > 0
  /\ s' = [s EXCEPT ![x].frames = @ - 1]
  /\ w' = [w EXCEPT ![x] = "send"]
  /\ UNCHANGED <<kind, now, netem, cached, r, sent, out, dropped, left>>

FrameSent(x) ==
  /\ w[x] = "send" /\ s[x].up # "reset" /\ (kind = "rudp" => s[x].up = "open")
  /\ w' = [w EXCEPT ![x] = "recv"]
  /\ s' = [s EXCEPT ![x].asked = @ + 1]
  /\ UNCHANGED <<kind, now, netem, cached, r, sent, out, dropped, left>>

\* A plausible slip: the task goes on to the next frame.
FrameFailsOnly(x) ==
  /\ w[x] = "send"
  /\ w' = [w EXCEPT ![x] = "recv"]
  /\ UNCHANGED <<kind, now, netem, cached, s, r, sent, out, dropped, left>>

\* RudpTimeout, RudpReset, the error of a TCP connection: the task breaks off.
FrameFails(x) ==
  /\ w[x] = "send" /\ (kind # "rudp" => s[x].up = "reset")
  /\ WsEnds(x)
  /\ UNCHANGED <<kind, now, netem, cached, r, sent, out, dropped, left>>

FramesEnd(x) ==
  /\ w[x] = "recv" /\ s[x].frames = 0 /\ s[x].ws = "closed"
  /\ WsEnds(x)
  /\ UNCHANGED <<kind, now, netem, cached, r, sent, out, dropped, left>>

-----------------------------------------------------------------------------
(* _rudp_to_ws and _tcp_to_ws *)

Msg(x) == sent[x][r[x].i]

\* A plausible slip: the TCP loop stops, too, as soon as the other side closed.
EndOfInputEarly(x) ==
  /\ r[x].pc = "recv" /\ s[x].up = "closed"
  /\ r' = [r EXCEPT ![x].pc = "done"]
  /\ UNCHANGED <<kind, now, netem, cached, s, w, sent, out, dropped, left>>

\* The head of the RUDP loop looks at _closed, which FIN sets whatever is still
\* queued; TCP reads what came before the end.
EndOfInput(x) ==
  /\ r[x].pc = "recv" /\ s[x].up = "closed"
  /\ kind = "rudp" \/ r[x].i = Len(sent[x])
  /\ r' = [r EXCEPT ![x].pc = "done"]
  /\ UNCHANGED <<kind, now, netem, cached, s, w, sent, out, dropped, left>>

\* A TCP connection that is reset raises in readline() whatever is still unread;
\* one that the own writer has closed comes to its end wherever it was.
Broken(x) ==
  /\ r[x].pc = "recv" /\ s[x].up \in {"shut", "reset"}
  /\ r' = [r EXCEPT ![x].pc = "done"]
  /\ UNCHANGED <<kind, now, netem, cached, s, w, sent, out, dropped, left>>

\* readline() raises for a line that the StreamReader does not hold (64 KiB): this
\* task ends, and the other goes on.
TooLong(x) == r[x].i < Len(sent[x]) /\ sent[x][r[x].i + 1].long

Overrun(x) ==
  /\ r[x].pc = "recv" /\ s[x].up # "reset" /\ TooLong(x)
  /\ r' = [r EXCEPT ![x].pc = "done"]
  /\ UNCHANGED <<kind, now, netem, cached, s, w, sent, out, dropped, left>>

\* Nothing came for 30 s over RUDP, 300 s over TCP: nothing will be read again,
\* while the other task goes on.
Silence(x) ==
  /\ r[x].pc = "recv" /\ s[x].up = "open" /\ r[x].i = Len(sent[x])
  /\ r' = [r EXCEPT ![x].pc = "silent"]
  /\ UNCHANGED <<kind, now, netem, cached, s, w, sent, out, dropped, left>>

\* There is a message to read.
Readable(x) ==
  /\ r[x].pc = "recv" /\ r[x].i < Len(sent[x]) /\ ~TooLong(x)
  /\ IF kind = "rudp" THEN s[x].up = "open" ELSE s[x].up # "reset"

\* A message comes, and the simulated network drops or delays it.
Receive(x) ==
  /\ Readable(x)
  /\ r' = [r EXCEPT ![x].pc = "netem", ![x].i = @ + 1,
                    ![x].until = IF Sync THEN now + netem.delay ELSE now]
  /\ UNCHANGED <<kind, now, netem, cached, s, w, sent, out, dropped, left>>

Drop(x) ==
  /\ Sync /\ netem.loss
  /\ Readable(x)
  /\ r' = [r EXCEPT ![x].i = @ + 1]
  /\ dropped' = [dropped EXCEPT ![x] = @ \cup {r[x].i + 1}]
  /\ UNCHANGED <<kind, now, netem, cached, s, w, sent, out, left>>

\* A plausible slip: the hold counts from the message's arrival.
HoldUntilArrival(x) ==
  IF Msg(x).type \in {"sched", "exam"} /\ Sync /\ s[x].maxRtt > 0
    THEN now + Msg(x).max \div 2 + Buffer
    ELSE now

\* When a message may go on: at its target, which shrinks by whatever it was
\* late, or after the server's own estimate while max_rtt_ms is not known.
HoldUntil(x) ==
  IF ~Sync \/ Msg(x).type \notin {"sched", "exam"} THEN now
  ELSE IF s[x].maxRtt > 0 THEN Msg(x).at + Msg(x).max \div 2 + Buffer
  ELSE now + Msg(x).delay

\* A plausible slip: a message that is late has a negative hold.
HoldSigned(x) ==
  /\ r[x].pc = "netem" /\ r[x].until <= now
  /\ r' = [r EXCEPT ![x].pc = "hold", ![x].until = HoldUntil(x),
                    ![x].hold = HoldUntil(x) - now]
  /\ UNCHANGED <<kind, now, netem, cached, s, w, sent, out, dropped, left>>

\* The session learns max_rtt_ms from every schedule_resp, and from an exam_resp
\* once it knows one.
Hold(x) ==
  /\ r[x].pc = "netem" /\ r[x].until <= now
  /\ r' = [r EXCEPT ![x].pc = "hold", ![x].until = HoldUntil(x),
                    ![x].hold = IF HoldUntil(x) > now THEN HoldUntil(x) - now ELSE 0]
  /\ s' = IF Sync /\ (Msg(x).type = "sched" \/ (Msg(x).type = "exam" /\ s[x].maxRtt > 0))
            THEN [s EXCEPT ![x].maxRtt = Msg(x).max] ELSE s
  /\ UNCHANGED <<kind, now, netem, cached, w, sent, out, dropped, left>>

\* ws.send, which raises once the browser has gone.
Forward(x) ==
  /\ r[x].pc = "hold" /\ r[x].until <= now
  /\ IF s[x].ws = "open"
       THEN /\ out' = [out EXCEPT ![x] = Append(@, [i |-> r[x].i, at |-> now, hold |-> r[x].hold])]
            /\ r' = [r EXCEPT ![x].pc = "recv"]
       ELSE r' = [r EXCEPT ![x].pc = "done"] /\ UNCHANGED out
  /\ UNCHANGED <<kind, now, netem, cached, s, w, sent, dropped, left>>

-----------------------------------------------------------------------------
(* Servers, browsers, the dashboard, time. *)

Message(type, long) ==
  IF type = "plain" THEN [type |-> type, long |-> long]
  ELSE [type |-> type, long |-> long, at |-> now, max |-> MaxRtt, delay |-> Buffer]

\* A server sends nothing that it was not asked for.  Long is a line of TCP of
\* more than 64 KiB, as an exam may be (admin_server.py, upload_exam).
ServerSends(x) ==
  /\ s[x].up = "open" /\ Len(sent[x]) < s[x].asked
  /\ \E type \in {"plain", "sched", "exam"}, long \in {FALSE, kind # "rudp"} :
       /\ type = "exam" /\ Sync => now = TArr - Delay[x]
       /\ sent' = [sent EXCEPT ![x] = Append(@, Message(type, long))]
  /\ UNCHANGED <<kind, now, netem, cached, s, w, r, out, dropped, left>>

ServerCloses(x) ==
  /\ s[x].up = "open"
  /\ s' = [s EXCEPT ![x].up = "closed"]
  /\ UNCHANGED <<kind, now, netem, cached, w, r, sent, out, dropped, left>>

\* The server's machine or its kernel gives the connection up, or answers a frame
\* to a connection that the server has closed.
Reset(x) ==
  /\ kind # "rudp" /\ s[x].up \in {"open", "closed"}
  /\ s' = [s EXCEPT ![x].up = "reset"]
  /\ UNCHANGED <<kind, now, netem, cached, w, r, sent, out, dropped, left>>

BrowserSends(x) ==
  /\ s[x].ws = "open" /\ left.frames[x] > 0
  /\ s' = [s EXCEPT ![x].frames = @ + 1]
  /\ left' = [left EXCEPT !.frames[x] = @ - 1]
  /\ UNCHANGED <<kind, now, netem, cached, w, r, sent, out, dropped>>

BrowserLeaves(x) ==
  /\ s[x].ws = "open"
  /\ s' = [s EXCEPT ![x].ws = "closed"]
  /\ UNCHANGED <<kind, now, netem, cached, w, r, sent, out, dropped, left>>

SetNetem ==
  /\ left.netem > 0
  /\ netem' \in [delay : NetemDelays, loss : BOOLEAN]
  /\ left' = [left EXCEPT !.netem = @ - 1]
  /\ UNCHANGED <<kind, now, cached, s, w, r, sent, out, dropped>>

Sleeping(x) == r[x].pc \in {"netem", "hold"}

\* Sleepers wake in time.
Tick ==
  /\ now < MaxTime \/ \E x \in Session : Sleeping(x)
  /\ \A x \in Session : Sleeping(x) => r[x].until > now
  /\ now' = now + 1
  /\ UNCHANGED <<kind, netem, cached, s, w, r, sent, out, dropped, left>>

Bridge(x) ==
  \/ ResolveStart(x) \/ ResolveEnd(x) \/ Connected(x) \/ ConnectFails(x)
  \/ Inform(x) \/ Close(x)
  \/ TakeFrame(x) \/ FrameSent(x) \/ FrameFails(x) \/ FramesEnd(x)
  \/ EndOfInput(x) \/ Broken(x) \/ Overrun(x) \/ Silence(x)
  \/ Receive(x) \/ Drop(x) \/ Hold(x) \/ Forward(x)

Next ==
  \/ \E x \in Session :
       \/ Bridge(x)
       \/ ServerSends(x) \/ ServerCloses(x) \/ Reset(x)
       \/ BrowserSends(x) \/ BrowserLeaves(x)
  \/ SetNetem \/ Tick

Spec == Init /\ [][Next]_vars

\* Tasks run, sends and receives have their time-outs, clocks advance.
FairSpec == Spec /\ WF_vars(Tick) /\ \A x \in Session :
  /\ WF_vars(TakeFrame(x) \/ FrameSent(x) \/ FrameFails(x) \/ FramesEnd(x))
  /\ WF_vars(EndOfInput(x) \/ Broken(x) \/ Overrun(x) \/ Silence(x)
                \/ Receive(x) \/ Hold(x) \/ Forward(x))
  /\ WF_vars(Close(x))

-----------------------------------------------------------------------------
(* Properties *)

Target(m) == m.at + m.max \div 2 + Buffer

\* The messages of a session the browser was shown, connection_info apart.
Shown(x) == {out[x][k].i : k \in DOMAIN out[x]} \ {0}

\* Every variable keeps its type.
TypeOK ==
  /\ kind \in Kinds /\ now \in Nat /\ cached \in Ips \cup {None}
  /\ s \in [Session -> [pc : {"new", "resolve", "connect", "info", "run", "over"},
                         ip : Ips \cup {None}, ws : {"open", "closed"},
                         up : {"none", "open", "closed", "shut", "reset"}, frames : 0 .. MaxFrames,
                         asked : 0 .. MaxFrames, maxRtt : Nat]]
  /\ w \in [Session -> {"none", "recv", "send", "done"}]
  /\ r \in [Session -> [pc : {"none", "recv", "netem", "hold", "done", "silent"},
                         i : 0 .. MaxFrames, until : Nat, hold : Nat]]
  /\ \A x \in Session : dropped[x] \subseteq DOMAIN sent[x]

\* Whatever is held or delayed, the browser gets connection_info first and the
\* server's messages in their order, each once; what is missing the simulated
\* network dropped.  Over TCP a task that stopped reading for a browser that
\* stays has brought it all that the server sent before it closed, unless a
\* reset or a line that was too long ended it, or silence.
RelayFaithful ==
  \A x \in Session :
    /\ out[x] # <<>> => out[x][1].i = 0
    /\ \A j, k \in DOMAIN out[x] : j < k => out[x][j].i < out[x][k].i
    /\ \A i \in 1 .. r[x].i :
         \/ i \in Shown(x) \cup dropped[x]
         \/ i = r[x].i /\ (Sleeping(x) \/ s[x].ws = "closed")
    /\ kind # "rudp" /\ r[x].pc = "done" /\ s[x].ws = "open" =>
         \/ s[x].up = "closed" /\ Shown(x) \cup dropped[x] = DOMAIN sent[x]
         \/ s[x].up = "reset" \/ TooLong(x)

\* "Self-correction: if retransmission delayed the packet, hold_ms shrinks": an
\* exam a synchronising bridge holds is shown at its target, not before or
\* after, whatever the network and netem did to it on the way; one that is not
\* held by then has passed its target, or the bridge never learnt max_rtt_ms.
HeldToTarget ==
  \A x \in Session : \A k \in 2 .. Len(out[x]) :
    LET m == sent[x][out[x][k].i]
        told == \E j \in 2 .. k - 1 : sent[x][out[x][j].i].type = "sched"
    IN Sync /\ m.type = "exam" /\ (told \/ kind = "tcp_sync") =>
         IF out[x][k].hold > 0 THEN out[x][k].at = Target(m)
                               ELSE out[x][k].at >= Target(m)

\* A browser that goes ends its session, and so does a frame for a RUDP server
\* that has gone or over a TCP connection that is reset.
SessionsEnd ==
  \A x \in Session :
    s[x].pc = "run" /\ (s[x].ws = "closed"
                        \/ (kind = "rudp" /\ s[x].up = "closed" /\ w[x] = "send")
                        \/ (s[x].up = "reset" /\ w[x] = "send"))
      ~> s[x].pc = "over"

\* An exam that a synchronising bridge, told of max_rtt_ms, held back.
HeldExam(x, k) ==
  /\ sent[x][out[x][k].i].type = "exam" /\ out[x][k].hold > 0
  /\ kind = "tcp_sync" \/ \E j \in 2 .. k - 1 : sent[x][out[x][j].i].type = "sched"

\* The coordinator's stagger (T_send_i = T_arr - D_i) and the bridge's hold
\* (server_sent_at + max_rtt/2 + buffer) add up: a held exam is shown half of
\* max_rtt and the jitter buffer after the planned arrival, less the client's
\* own delay, whatever the network did to it.  So clients with different delays
\* see it at different moments, where ws_bridge.py:15 speaks of the same.
StaggerShows ==
  Sync => \A x \in Session : \A k \in 2 .. Len(out[x]) :
    HeldExam(x, k) => out[x][k].at + Delay[x] = TArr + MaxRtt \div 2 + Buffer
=============================================================================
