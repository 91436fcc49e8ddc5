---------------------------- MODULE WsBridgeProofs ----------------------------
(***************************************************************************)
(* Proofs about WsBridge for every number of sessions and messages, every  *)
(* delay and round trip time.                                              *)
(***************************************************************************)
EXTENDS WsBridge, SequenceTheorems, TLAPS

-----------------------------------------------------------------------------
(* The inductive invariant: types, and what holds of each session.         *)

SessionState ==
  [pc : {"new", "resolve", "connect", "info", "run", "over"},
   ip : Ips \cup {None}, ws : {"open", "closed"},
   up : {"none", "open", "closed", "shut", "reset"}, frames : Nat, asked : Nat, maxRtt : Nat]

Reader == [pc : {"none", "recv", "netem", "hold", "done", "silent"},
           i : Nat, until : Nat, hold : Nat]

Timed ==
  [type : {"sched", "exam"}, long : BOOLEAN, at : Nat, max : {MaxRtt}, delay : Nat]

ServerMsg == [type : {"plain"}, long : BOOLEAN] \cup Timed

Output == [i : Nat, at : Nat, hold : Nat]

Types ==
  /\ kind \in Kinds /\ now \in Nat /\ cached \in Ips \cup {None}
  /\ netem \in [delay : Nat, loss : BOOLEAN]
  /\ s \in [Session -> SessionState]
  /\ w \in [Session -> {"none", "recv", "send", "done"}]
  /\ r \in [Session -> Reader]
  /\ sent \in [Session -> Seq(ServerMsg)]
  /\ out \in [Session -> Seq(Output)]
  /\ dropped \in [Session -> SUBSET Nat]
  /\ left \in [frames : [Session -> Nat], netem : Nat]

\* A frame is still the browser's to send, queued, in hand, or was passed on,
\* and answered at most once.
Counted(x) ==
  /\ left.frames[x] + s[x].frames + s[x].asked + (IF w[x] = "send" THEN 1 ELSE 0)
       <= MaxFrames
  /\ Len(sent[x]) <= s[x].asked
  /\ r[x].i <= Len(sent[x])

\* Nothing is read before connection_info was sent.
Started(x) ==
  /\ s[x].pc \in {"new", "resolve", "connect", "info"} => r[x].pc = "none"
  /\ r[x].pc = "none" => out[x] = <<>> /\ r[x].i = 0
  /\ r[x].pc # "none" => out[x] # <<>>
  /\ kind = "tcp_sync" /\ (s[x].pc \in {"info", "run"} \/ r[x].pc # "none") =>
       s[x].maxRtt > 0

\* RelayFaithful of one session; a message that is neither shown nor dropped is
\* in hand, or was when the task broke off.
Relayed(x) ==
  /\ dropped[x] \subseteq DOMAIN sent[x]
  /\ Sleeping(x) => r[x].i >= 1
  /\ out[x] # <<>> => out[x][1].i = 0
  /\ \A j, k \in DOMAIN out[x] : j < k => out[x][j].i < out[x][k].i
  /\ \A k \in DOMAIN out[x] :
       IF Sleeping(x) THEN out[x][k].i < r[x].i ELSE out[x][k].i <= r[x].i
  /\ \A i \in 1 .. r[x].i :
       \/ i \in Shown(x) \cup dropped[x]
       \/ /\ i = r[x].i
          /\ Sleeping(x) \/ (r[x].pc = "done" /\ s[x].ws = "closed")

\* Why a task over TCP stopped reading, and when the writer is closed.
Ended(x) ==
  /\ kind # "rudp" /\ r[x].pc = "done" =>
       \/ s[x].ws = "closed"
       \/ s[x].up = "closed" /\ r[x].i = Len(sent[x])
       \/ s[x].up = "reset" \/ TooLong(x)
  /\ s[x].up = "shut" => s[x].ws = "closed"

\* The browser has got a schedule among its first n messages.
Told(x, n) == \E j \in 2 .. n : sent[x][out[x][j].i].type = "sched"

\* HeldToTarget of one session, and of the message in hand.
Held(x) ==
  /\ Sync /\ Told(x, Len(out[x])) => s[x].maxRtt > 0
  /\ Sync /\ r[x].pc = "hold" /\ Msg(x).type = "sched" => s[x].maxRtt > 0
  /\ Sync /\ r[x].pc = "hold" /\ Msg(x).type = "exam"
     /\ (Told(x, Len(out[x])) \/ kind = "tcp_sync") =>
       IF r[x].hold > 0 THEN r[x].until = Target(Msg(x)) /\ now <= r[x].until
                        ELSE Target(Msg(x)) <= now
  /\ \A k \in 2 .. Len(out[x]) :
       Sync /\ sent[x][out[x][k].i].type = "exam"
       /\ (Told(x, k - 1) \/ kind = "tcp_sync") =>
         IF out[x][k].hold > 0
           THEN out[x][k].at = Target(sent[x][out[x][k].i])
           ELSE out[x][k].at >= Target(sent[x][out[x][k].i])

Good(x) == Counted(x) /\ Started(x) /\ Relayed(x) /\ Ended(x) /\ Held(x)

IInv == Types /\ \A x \in Session : Good(x)

-----------------------------------------------------------------------------
(* Lemmas about the operators.                                             *)

LEMMA HalfNat == \A n \in Nat : n \div 2 \in Nat
OBVIOUS

\* Targets are times.
LEMMA TargetNat ==
  ASSUME NEW m \in Timed
  PROVE  Target(m) \in Nat
<1>1. m.at \in Nat /\ m.max \in Nat /\ Buffer \in Nat
  BY BridgeConstants DEF Timed
<1>2. m.max \div 2 \in Nat
  BY <1>1, HalfNat
<1> DEFINE h == m.max \div 2
<1>3. h \in Nat
  BY <1>2
<1> HIDE DEF h
<1>4. m.at + h + Buffer \in Nat
  BY <1>1, <1>3
<1>5. QED BY <1>4 DEF h, Target

\* The message in hand is one the server sent, and is held for a time.
LEMMA MsgFacts ==
  ASSUME NEW x \in Session, Types, r[x].i \in 1 .. Len(sent[x])
  PROVE  /\ Msg(x) \in ServerMsg
         /\ Msg(x).type \in {"plain", "sched", "exam"}
         /\ Msg(x).type \in {"sched", "exam"} => Msg(x) \in Timed /\ Msg(x).max > 0
         /\ HoldUntil(x) \in Nat
<1>1. Msg(x) \in ServerMsg
  BY DEF Types, Msg
<1>2. Msg(x).type \in {"plain", "sched", "exam"}
  BY <1>1 DEF ServerMsg, Timed
<1>3. Msg(x).type \in {"sched", "exam"} => Msg(x) \in Timed /\ Msg(x).max > 0
  <2>1. \A m \in [type : {"plain"}, long : BOOLEAN] : m.type = "plain"
    OBVIOUS
  <2>2. Msg(x).type \in {"sched", "exam"} => Msg(x) \in Timed
    BY <1>1, <2>1 DEF ServerMsg
  <2>3. \A m \in Timed : m.max > 0
    BY BridgeConstants DEF Timed
  <2>4. QED BY <2>2, <2>3
<1>4. HoldUntil(x) \in Nat
  <2>1. now \in Nat
    BY DEF Types
  <2>2. CASE ~(Sync /\ Msg(x).type \in {"sched", "exam"})
    BY <2>1, <2>2 DEF HoldUntil
  <2>3. CASE Sync /\ Msg(x).type \in {"sched", "exam"} /\ s[x].maxRtt > 0
    <3>1. HoldUntil(x) = Target(Msg(x))
      BY <2>3 DEF HoldUntil, Target
    <3>2. QED BY <1>3, <2>3, <3>1, TargetNat
  <2>4. CASE Sync /\ Msg(x).type \in {"sched", "exam"} /\ ~(s[x].maxRtt > 0)
    <3>1. HoldUntil(x) = now + Msg(x).delay
      BY <2>4 DEF HoldUntil
    <3>2. Msg(x).delay \in Nat
      BY <1>3, <2>4 DEF Timed
    <3>3. QED BY <2>1, <3>1, <3>2
  <2>5. QED BY <2>2, <2>3, <2>4
<1>5. QED BY <1>1, <1>2, <1>3, <1>4

\* What the browser got beyond connection_info are messages that were sent.
LEMMA OutFacts ==
  ASSUME NEW x \in Session, Types, Counted(x), Relayed(x)
  PROVE  /\ Len(out[x]) \in Nat /\ DOMAIN out[x] = 1 .. Len(out[x])
         /\ \A k \in DOMAIN out[x] : out[x][k] \in Output
         /\ \A k \in 2 .. Len(out[x]) : out[x][k].i \in 1 .. Len(sent[x])
<1>1. out[x] \in Seq(Output) /\ sent[x] \in Seq(ServerMsg) /\ r[x].i \in Nat
  BY DEF Types, Reader
<1>2. /\ Len(out[x]) \in Nat /\ DOMAIN out[x] = 1 .. Len(out[x])
      /\ \A k \in DOMAIN out[x] : out[x][k] \in Output
      /\ Len(sent[x]) \in Nat
  BY <1>1, LenProperties, ElementOfSeq
<1>3. \A k \in DOMAIN out[x] : out[x][k].i \in Nat
  BY <1>2 DEF Output
<1>4. ASSUME NEW k \in 2 .. Len(out[x])
      PROVE  out[x][k].i \in 1 .. Len(sent[x])
  <2>1. 1 \in DOMAIN out[x] /\ k \in DOMAIN out[x] /\ 1 < k /\ out[x] # <<>>
    BY <1>1, <1>2
  <2>2. out[x][1].i = 0 /\ out[x][1].i < out[x][k].i
    BY <2>1 DEF Relayed
  <2>3. out[x][k].i <= r[x].i
    BY <1>1, <1>3, <2>1 DEF Relayed
  <2>4. r[x].i <= Len(sent[x])
    BY DEF Counted
  <2>5. QED BY <1>1, <1>2, <1>3, <2>1, <2>2, <2>3, <2>4
<1>5. QED BY <1>2, <1>4

-----------------------------------------------------------------------------
(* What a step does to a session.                                          *)

\* Another session's step leaves this one alone.
LEMMA OtherSession ==
  ASSUME NEW x, Good(x), kind' = kind, now' = now,
         s'[x] = s[x], w'[x] = w[x], r'[x] = r[x], sent'[x] = sent[x],
         out'[x] = out[x], dropped'[x] = dropped[x], left'.frames[x] = left.frames[x]
  PROVE  Good(x)'
<1>1. Counted(x)'
  BY DEF Good, Counted
<1>2. Started(x)'
  BY DEF Good, Started
<1>3. Relayed(x)'
  BY DEF Good, Relayed, Sleeping, Shown
<1>4. Held(x)'
  BY DEF Good, Held, Sync, Told, Msg, Target
<1>5. Ended(x)'
  BY DEF Good, Ended, TooLong
<1>6. QED BY <1>1, <1>2, <1>3, <1>4, <1>5 DEF Good

\* A step that neither reads nor shows anything only has to keep the count and
\* to leave closed what is closed.
LEMMA QuietStep ==
  ASSUME NEW x \in Session, Types, Good(x), kind' = kind, now' = now,
         r'[x] = r[x], sent'[x] = sent[x], out'[x] = out[x], dropped'[x] = dropped[x],
         Counted(x)', Started(x)',
         s[x].ws = "closed" => s'[x].ws = "closed",
         s[x].up \in {"closed", "reset"} /\ r[x].pc # "none" =>
           \/ s'[x].up = s[x].up \/ s'[x].up = "reset" \/ s'[x].ws = "closed",
         s'[x].up = "shut" => s[x].up = "shut" \/ s'[x].ws = "closed",
         s[x].maxRtt > 0 /\ r[x].pc # "none" => s'[x].maxRtt > 0
  PROVE  Good(x)'
<1>1. Relayed(x)'
  BY DEF Good, Relayed, Started, Sleeping, Shown
<1>2. r[x].pc = "none" => ~Told(x, Len(out[x]))
  BY DEF Good, Started, Told
<1>3. Held(x)'
  <2>1. /\ Sync' = Sync /\ Msg(x)' = Msg(x)
        /\ \A n : Told(x, n)' = Told(x, n)
    BY DEF Sync, Msg, Told
  <2>2. Sync' /\ Told(x, Len(out[x]))' => s'[x].maxRtt > 0
    BY <1>2, <2>1 DEF Good, Held
  <2>3. QED BY <2>1, <2>2 DEF Good, Held, Target
<1>4. Ended(x)'
  <2>1. TooLong(x)' = TooLong(x)
    BY DEF TooLong
  <2>2. QED BY <2>1 DEF Good, Ended
<1>5. QED BY <1>1, <1>3, <1>4 DEF Good

LEMMA QuietAction ==
  ASSUME IInv, NEW x \in Session, Types',
         kind' = kind, now' = now, r' = r, sent' = sent, out' = out, dropped' = dropped,
         \A y \in Session \ {x} : /\ s'[y] = s[y] /\ w'[y] = w[y]
                                 /\ left'.frames[y] = left.frames[y],
         Counted(x)', Started(x)',
         s[x].ws = "closed" => s'[x].ws = "closed",
         s[x].up \in {"closed", "reset"} /\ r[x].pc # "none" =>
           \/ s'[x].up = s[x].up \/ s'[x].up = "reset" \/ s'[x].ws = "closed",
         s'[x].up = "shut" => s[x].up = "shut" \/ s'[x].ws = "closed",
         s[x].maxRtt > 0 /\ r[x].pc # "none" => s'[x].maxRtt > 0
  PROVE  IInv'
<1>1. Good(x)'
  BY QuietStep DEF IInv
<1>2. ASSUME NEW y \in Session, y # x PROVE Good(y)'
  BY <1>2, OtherSession DEF IInv
<1>3. QED BY <1>1, <1>2 DEF IInv

Phase == {"new", "resolve", "connect", "info", "run", "over"}

LEMMA Updates ==
  ASSUME NEW f \in [Session -> SessionState], NEW x \in Session
  PROVE  /\ \A p \in Phase : [f EXCEPT ![x].pc = p] \in [Session -> SessionState]
         /\ \A ip \in Ips \cup {None} : [f EXCEPT ![x].ip = ip] \in [Session -> SessionState]
         /\ \A v \in {"open", "closed"} : [f EXCEPT ![x].ws = v] \in [Session -> SessionState]
         /\ \A v \in {"open", "closed", "shut", "reset"} : [f EXCEPT ![x].up = v] \in [Session -> SessionState]
         /\ \A n \in Nat : [f EXCEPT ![x].maxRtt = n] \in [Session -> SessionState]
BY DEF SessionState, Phase

\* The types of what such a step changes.
LEMMA QuietTypes ==
  ASSUME Types, UNCHANGED <<kind, now, netem, r, sent, out, dropped>>,
         cached' \in Ips \cup {None},
         s' \in [Session -> SessionState],
         w' \in [Session -> {"none", "recv", "send", "done"}],
         left' \in [frames : [Session -> Nat], netem : Nat]
  PROVE  Types'
BY DEF Types, SessionState, Reader, ServerMsg, Timed, Output

-----------------------------------------------------------------------------
(* The steps of handle_ws.                                                 *)

LEMMA ResolveStartStep ==
  ASSUME IInv, NEW x \in Session, ResolveStart(x)
  PROVE  IInv'
<1>0. s \in [Session -> SessionState]
  BY DEF IInv, Types
<1>1. Types /\ Counted(x) /\ Started(x)
  BY DEF IInv, Good
<1>2. Types'
  <2>0. s[x].ip \in Ips \cup {None} /\ cached \in Ips \cup {None}
    BY <1>1 DEF Types, SessionState
  <2>1. s' \in [Session -> SessionState]
    BY <1>0, <2>0, Updates DEF ResolveStart, Phase
  <2>2. cached' \in Ips \cup {None}
    BY <1>1 DEF Types, ResolveStart
  <2>3. w' \in [Session -> {"none", "recv", "send", "done"}]
    BY <1>1 DEF Types, ResolveStart
  <2>4. left' \in [frames : [Session -> Nat], netem : Nat]
    BY <1>1 DEF Types, ResolveStart
  <2>5. QED BY <1>1, <2>1, <2>2, <2>3, <2>4, QuietTypes DEF ResolveStart
<1>3. /\ \A y \in Session \ {x} : s'[y] = s[y]
      /\ s'[x].ws = s[x].ws /\ s'[x].up = s[x].up /\ s'[x].maxRtt = s[x].maxRtt
  BY <1>1 DEF Types, ResolveStart, SessionState
<1>4. Counted(x)'
  BY <1>1 DEF Types, ResolveStart, SessionState, Counted
<1>5. Started(x)'
  BY <1>1 DEF Types, ResolveStart, SessionState, Started
<1>6. QED BY <1>2, <1>3, <1>4, <1>5, QuietAction DEF ResolveStart

LEMMA ResolveEndStep ==
  ASSUME IInv, NEW x \in Session, ResolveEnd(x)
  PROVE  IInv'
<1>0. s \in [Session -> SessionState]
  BY DEF IInv, Types
<1>1. Types /\ Counted(x) /\ Started(x)
  BY DEF IInv, Good
<1>2. PICK ip \in (IF s[x].ip = None THEN Ips ELSE {s[x].ip}) :
        /\ s' = [s EXCEPT ![x].pc = "connect", ![x].ip = ip]
        /\ cached' = IF kind = "rudp" THEN ip ELSE cached
  BY DEF ResolveEnd
<1>3. ip \in Ips
  BY <1>1 DEF Types, SessionState
<1>4. Types'
  <2>1. s' \in [Session -> SessionState]
    BY <1>0, <1>2, <1>3, Updates DEF Phase
  <2>2. cached' \in Ips \cup {None}
    BY <1>1, <1>2, <1>3 DEF Types, ResolveEnd
  <2>3. w' \in [Session -> {"none", "recv", "send", "done"}]
    BY <1>1 DEF Types, ResolveEnd
  <2>4. left' \in [frames : [Session -> Nat], netem : Nat]
    BY <1>1 DEF Types, ResolveEnd
  <2>5. QED BY <1>1, <2>1, <2>2, <2>3, <2>4, QuietTypes DEF ResolveEnd
<1>5. /\ \A y \in Session \ {x} : s'[y] = s[y]
      /\ s'[x].ws = s[x].ws /\ s'[x].up = s[x].up /\ s'[x].maxRtt = s[x].maxRtt
  BY <1>1, <1>2 DEF Types, SessionState
<1>6. Counted(x)'
  BY <1>1, <1>2 DEF Types, ResolveEnd, SessionState, Counted
<1>7. Started(x)'
  BY <1>1, <1>2 DEF Types, ResolveEnd, SessionState, Started
<1>8. QED BY <1>4, <1>5, <1>6, <1>7, QuietAction DEF ResolveEnd

LEMMA ConnectedStep ==
  ASSUME IInv, NEW x \in Session, Connected(x)
  PROVE  IInv'
<1>0. s \in [Session -> SessionState]
  BY DEF IInv, Types
<1>1. Types /\ Counted(x) /\ Started(x)
  BY DEF IInv, Good
<1>2. 2 * Rtt \in Nat /\ 2 * Rtt > 0
  BY BridgeConstants
<1> DEFINE rtt == 2 * Rtt
<1>3. rtt \in Nat /\ rtt > 0
  BY <1>2
<1>4. s' = [s EXCEPT ![x].pc = "info", ![x].up = "open",
                     ![x].maxRtt = IF kind = "tcp_sync" THEN rtt ELSE 0]
  BY DEF Connected
<1> HIDE DEF rtt
<1>5. Types'
  <2>1. s' \in [Session -> SessionState]
    BY <1>0, <1>3, <1>4, Updates DEF Phase
  <2>2. cached' \in Ips \cup {None}
    BY <1>1, <1>3, <1>4 DEF Types, Connected
  <2>3. w' \in [Session -> {"none", "recv", "send", "done"}]
    BY <1>1 DEF Types, Connected
  <2>4. left' \in [frames : [Session -> Nat], netem : Nat]
    BY <1>1 DEF Types, Connected
  <2>5. QED BY <1>1, <2>1, <2>2, <2>3, <2>4, QuietTypes DEF Connected
<1>6. /\ \A y \in Session \ {x} : s'[y] = s[y]
      /\ s'[x].ws = s[x].ws /\ s'[x].up = "open" /\ r[x].pc = "none"
  BY <1>1, <1>4 DEF Types, Connected, SessionState, Started
<1>7. Counted(x)'
  BY <1>1, <1>4 DEF Types, Connected, SessionState, Counted
<1>8. Started(x)'
  BY <1>1, <1>3, <1>4 DEF Types, Connected, SessionState, Started
<1>9. QED BY <1>5, <1>6, <1>7, <1>8, QuietAction DEF Connected

LEMMA ConnectFailsStep ==
  ASSUME IInv, NEW x \in Session, ConnectFails(x)
  PROVE  IInv'
<1>0. s \in [Session -> SessionState]
  BY DEF IInv, Types
<1>1. Types /\ Counted(x) /\ Started(x)
  BY DEF IInv, Good
<1>2. Types'
  <2>1. s' \in [Session -> SessionState]
    BY <1>0, Updates DEF ConnectFails, Phase
  <2>2. cached' \in Ips \cup {None}
    BY <1>1 DEF Types, ConnectFails
  <2>3. w' \in [Session -> {"none", "recv", "send", "done"}]
    BY <1>1 DEF Types, ConnectFails
  <2>4. left' \in [frames : [Session -> Nat], netem : Nat]
    BY <1>1 DEF Types, ConnectFails
  <2>5. QED BY <1>1, <2>1, <2>2, <2>3, <2>4, QuietTypes DEF ConnectFails
<1>3. /\ \A y \in Session \ {x} : s'[y] = s[y]
      /\ s'[x].ws = "closed" /\ s'[x].up = s[x].up /\ s'[x].maxRtt = s[x].maxRtt
  BY <1>1 DEF Types, ConnectFails, SessionState
<1>4. Counted(x)'
  BY <1>1 DEF Types, ConnectFails, SessionState, Counted
<1>5. Started(x)'
  BY <1>1 DEF Types, ConnectFails, SessionState, Started
<1>6. QED BY <1>2, <1>3, <1>4, <1>5, QuietAction DEF ConnectFails

LEMMA CloseStep ==
  ASSUME IInv, NEW x \in Session, Close(x)
  PROVE  IInv'
<1>0. s \in [Session -> SessionState]
  BY DEF IInv, Types
<1>1. Types /\ Counted(x) /\ Started(x)
  BY DEF IInv, Good
<1>2. Types'
  <2>1. s' \in [Session -> SessionState]
    BY <1>0, Updates DEF Close, Phase
  <2>2. cached' \in Ips \cup {None}
    BY <1>1 DEF Types, Close
  <2>3. w' \in [Session -> {"none", "recv", "send", "done"}]
    BY <1>1 DEF Types, Close
  <2>4. left' \in [frames : [Session -> Nat], netem : Nat]
    BY <1>1 DEF Types, Close
  <2>5. QED BY <1>1, <2>1, <2>2, <2>3, <2>4, QuietTypes DEF Close
<1>3. /\ \A y \in Session \ {x} : s'[y] = s[y]
      /\ s'[x].ws = "closed" /\ s'[x].up = "closed" /\ s'[x].maxRtt = s[x].maxRtt
  BY <1>1 DEF Types, Close, SessionState
<1>4. Counted(x)'
  BY <1>1 DEF Types, Close, SessionState, Counted
<1>5. Started(x)'
  BY <1>1 DEF Types, Close, SessionState, Started
<1>6. QED BY <1>2, <1>3, <1>4, <1>5, QuietAction DEF Close

-----------------------------------------------------------------------------
(* The steps of _ws_to_rudp and _ws_to_tcp.                                *)

LEMMA TakeFrameStep ==
  ASSUME IInv, NEW x \in Session, TakeFrame(x)
  PROVE  IInv'
<1>0. s \in [Session -> SessionState]
  BY DEF IInv, Types
<1>1. Types /\ Counted(x) /\ Started(x)
  BY DEF IInv, Good
<1>2. Types'
  <2>1. s' \in [Session -> SessionState]
    BY <1>0 DEF TakeFrame, SessionState
  <2>2. cached' \in Ips \cup {None}
    BY <1>1 DEF Types, TakeFrame
  <2>3. w' \in [Session -> {"none", "recv", "send", "done"}]
    BY <1>1 DEF Types, TakeFrame
  <2>4. left' \in [frames : [Session -> Nat], netem : Nat]
    BY <1>1 DEF Types, TakeFrame
  <2>5. QED BY <1>1, <2>1, <2>2, <2>3, <2>4, QuietTypes DEF TakeFrame
<1>3. /\ \A y \in Session \ {x} : s'[y] = s[y] /\ w'[y] = w[y]
      /\ s'[x].ws = s[x].ws /\ s'[x].up = s[x].up /\ s'[x].maxRtt = s[x].maxRtt
      /\ s'[x].frames = s[x].frames - 1 /\ s'[x].asked = s[x].asked
      /\ w[x] = "recv" /\ w'[x] = "send"
      /\ s[x].frames \in Nat /\ s[x].asked \in Nat /\ left.frames[x] \in Nat
      /\ left'.frames[x] = left.frames[x] /\ sent'[x] = sent[x] /\ r'[x] = r[x]
  BY <1>1 DEF Types, TakeFrame, SessionState
<1>4. Counted(x)'
  BY <1>1, <1>3, BridgeConstants DEF Counted
<1>5. Started(x)'
  BY <1>1 DEF Types, TakeFrame, SessionState, Started
<1>6. QED BY <1>2, <1>3, <1>4, <1>5, QuietAction DEF TakeFrame

LEMMA FrameSentStep ==
  ASSUME IInv, NEW x \in Session, FrameSent(x)
  PROVE  IInv'
<1>0. s \in [Session -> SessionState]
  BY DEF IInv, Types
<1>1. Types /\ Counted(x) /\ Started(x)
  BY DEF IInv, Good
<1>2. Types'
  <2>1. s' \in [Session -> SessionState]
    BY <1>0 DEF FrameSent, SessionState
  <2>2. cached' \in Ips \cup {None}
    BY <1>1 DEF Types, FrameSent
  <2>3. w' \in [Session -> {"none", "recv", "send", "done"}]
    BY <1>1 DEF Types, FrameSent
  <2>4. left' \in [frames : [Session -> Nat], netem : Nat]
    BY <1>1 DEF Types, FrameSent
  <2>5. QED BY <1>1, <2>1, <2>2, <2>3, <2>4, QuietTypes DEF FrameSent
<1>3. /\ \A y \in Session \ {x} : s'[y] = s[y] /\ w'[y] = w[y]
      /\ s'[x].ws = s[x].ws /\ s'[x].up = s[x].up /\ s'[x].maxRtt = s[x].maxRtt
      /\ s'[x].frames = s[x].frames /\ s'[x].asked = s[x].asked + 1
      /\ w[x] = "send" /\ w'[x] = "recv"
      /\ s[x].frames \in Nat /\ s[x].asked \in Nat /\ left.frames[x] \in Nat
      /\ left'.frames[x] = left.frames[x] /\ sent'[x] = sent[x] /\ r'[x] = r[x]
  BY <1>1 DEF Types, FrameSent, SessionState
<1>4. Counted(x)'
  <2>1. Len(sent[x]) \in Nat
    BY <1>1, LenProperties DEF Types
  <2>2. QED BY <1>1, <1>3, <2>1, BridgeConstants DEF Counted
<1>5. Started(x)'
  BY <1>1 DEF Types, FrameSent, SessionState, Started
<1>6. QED BY <1>2, <1>3, <1>4, <1>5, QuietAction DEF FrameSent

\* The task's end, whichever the bridge.
LEMMA WsEndsStep ==
  ASSUME IInv, NEW x \in Session, WsEnds(x),
         kind # "rudp" /\ s[x].up # "reset" => s[x].ws = "closed",
         UNCHANGED <<kind, now, netem, cached, r, sent, out, dropped, left>>
  PROVE  IInv'
<1>0. s \in [Session -> SessionState]
  BY DEF IInv, Types
<1>1. Types /\ Counted(x) /\ Started(x)
  BY DEF IInv, Good
<1>2. Types'
  <2>1. s' \in [Session -> SessionState]
    BY <1>0 DEF WsEnds, SessionState
  <2>2. cached' \in Ips \cup {None}
    BY <1>1 DEF Types, WsEnds
  <2>3. w' \in [Session -> {"none", "recv", "send", "done"}]
    BY <1>1 DEF Types, WsEnds
  <2>4. left' \in [frames : [Session -> Nat], netem : Nat]
    BY <1>1 DEF Types, WsEnds
  <2>5. QED BY <1>1, <2>1, <2>2, <2>3, <2>4, QuietTypes DEF WsEnds
<1>3. /\ \A y \in Session \ {x} : s'[y] = s[y] /\ w'[y] = w[y]
      /\ s'[x].ws = s[x].ws
      /\ s'[x].up = s[x].up \/ (s'[x].up = "shut" /\ s[x].ws = "closed")
      /\ s'[x].maxRtt = s[x].maxRtt
      /\ s'[x].frames = s[x].frames /\ s'[x].asked = s[x].asked
      /\ s'[x].pc = s[x].pc /\ w'[x] = "done"
  BY <1>1 DEF Types, WsEnds, SessionState
<1>4. Counted(x)'
  BY <1>1, <1>3, BridgeConstants DEF Types, SessionState, Counted
<1>5. Started(x)'
  BY <1>1, <1>3 DEF Started
<1>6. QED BY <1>2, <1>3, <1>4, <1>5, QuietAction

-----------------------------------------------------------------------------
(* The steps of servers and browsers that do not carry a message down.     *)

LEMMA ServerClosesStep ==
  ASSUME IInv, NEW x \in Session, ServerCloses(x)
  PROVE  IInv'
<1>0. s \in [Session -> SessionState]
  BY DEF IInv, Types
<1>1. Types /\ Counted(x) /\ Started(x)
  BY DEF IInv, Good
<1>2. Types'
  <2>1. s' \in [Session -> SessionState]
    BY <1>0 DEF ServerCloses, SessionState
  <2>2. cached' \in Ips \cup {None}
    BY <1>1 DEF Types, ServerCloses
  <2>3. w' \in [Session -> {"none", "recv", "send", "done"}]
    BY <1>1 DEF Types, ServerCloses
  <2>4. left' \in [frames : [Session -> Nat], netem : Nat]
    BY <1>1 DEF Types, ServerCloses
  <2>5. QED BY <1>1, <2>1, <2>2, <2>3, <2>4, QuietTypes DEF ServerCloses
<1>3. /\ \A y \in Session \ {x} : s'[y] = s[y]
      /\ s'[x].ws = s[x].ws /\ s'[x].up = "closed" /\ s'[x].maxRtt = s[x].maxRtt
  BY <1>1 DEF Types, ServerCloses, SessionState
<1>4. Counted(x)'
  BY <1>1 DEF Types, ServerCloses, SessionState, Counted
<1>5. Started(x)'
  BY <1>1 DEF Types, ServerCloses, SessionState, Started
<1>6. QED BY <1>2, <1>3, <1>4, <1>5, QuietAction DEF ServerCloses

LEMMA ResetStep ==
  ASSUME IInv, NEW x \in Session, Reset(x)
  PROVE  IInv'
<1>0. s \in [Session -> SessionState]
  BY DEF IInv, Types
<1>1. Types /\ Counted(x) /\ Started(x)
  BY DEF IInv, Good
<1>2. Types'
  <2>1. s' \in [Session -> SessionState]
    BY <1>0 DEF Reset, SessionState
  <2>2. cached' \in Ips \cup {None}
    BY <1>1 DEF Types, Reset
  <2>3. w' \in [Session -> {"none", "recv", "send", "done"}]
    BY <1>1 DEF Types, Reset
  <2>4. left' \in [frames : [Session -> Nat], netem : Nat]
    BY <1>1 DEF Types, Reset
  <2>5. QED BY <1>1, <2>1, <2>2, <2>3, <2>4, QuietTypes DEF Reset
<1>3. /\ \A y \in Session \ {x} : s'[y] = s[y]
      /\ s'[x].ws = s[x].ws /\ s'[x].up = "reset" /\ s'[x].maxRtt = s[x].maxRtt
  BY <1>1 DEF Types, Reset, SessionState
<1>4. Counted(x)'
  BY <1>1 DEF Types, Reset, SessionState, Counted
<1>5. Started(x)'
  BY <1>1 DEF Types, Reset, SessionState, Started
<1>6. QED BY <1>2, <1>3, <1>4, <1>5, QuietAction DEF Reset

LEMMA BrowserSendsStep ==
  ASSUME IInv, NEW x \in Session, BrowserSends(x)
  PROVE  IInv'
<1>0. s \in [Session -> SessionState]
  BY DEF IInv, Types
<1>1. Types /\ Counted(x) /\ Started(x)
  BY DEF IInv, Good
<1>2. Types'
  <2>1. s' \in [Session -> SessionState]
    BY <1>0 DEF BrowserSends, SessionState
  <2>2. cached' \in Ips \cup {None}
    BY <1>1 DEF Types, BrowserSends
  <2>3. w' \in [Session -> {"none", "recv", "send", "done"}]
    BY <1>1 DEF Types, BrowserSends
  <2>4. left' \in [frames : [Session -> Nat], netem : Nat]
    <3>1. left.frames[x] - 1 \in Nat
      BY <1>1 DEF Types, BrowserSends
    <3> DEFINE n == left.frames[x] - 1
    <3>2. n \in Nat /\ left' = [left EXCEPT !.frames[x] = n]
      BY <3>1 DEF BrowserSends
    <3> HIDE DEF n
    <3>3. left \in [frames : [Session -> Nat], netem : Nat]
      BY <1>1 DEF Types
    <3>4. QED BY <3>2, <3>3
  <2>5. QED BY <1>1, <2>1, <2>2, <2>3, <2>4, QuietTypes DEF BrowserSends
<1>3. /\ \A y \in Session \ {x} : s'[y] = s[y] /\ left'.frames[y] = left.frames[y]
      /\ s'[x].ws = s[x].ws /\ s'[x].up = s[x].up /\ s'[x].maxRtt = s[x].maxRtt
      /\ s'[x].asked = s[x].asked /\ s'[x].pc = s[x].pc
      /\ s'[x].frames = s[x].frames + 1 /\ left'.frames[x] = left.frames[x] - 1
  BY <1>1 DEF Types, BrowserSends, SessionState
<1>4. Counted(x)'
  BY <1>1, <1>3, BridgeConstants DEF Types, BrowserSends, SessionState, Counted
<1>5. Started(x)'
  BY <1>1, <1>3 DEF BrowserSends, Started
<1>6. QED BY <1>2, <1>3, <1>4, <1>5, QuietAction DEF BrowserSends

LEMMA BrowserLeavesStep ==
  ASSUME IInv, NEW x \in Session, BrowserLeaves(x)
  PROVE  IInv'
<1>0. s \in [Session -> SessionState]
  BY DEF IInv, Types
<1>1. Types /\ Counted(x) /\ Started(x)
  BY DEF IInv, Good
<1>2. Types'
  <2>1. s' \in [Session -> SessionState]
    BY <1>0 DEF BrowserLeaves, SessionState
  <2>2. cached' \in Ips \cup {None}
    BY <1>1 DEF Types, BrowserLeaves
  <2>3. w' \in [Session -> {"none", "recv", "send", "done"}]
    BY <1>1 DEF Types, BrowserLeaves
  <2>4. left' \in [frames : [Session -> Nat], netem : Nat]
    BY <1>1 DEF Types, BrowserLeaves
  <2>5. QED BY <1>1, <2>1, <2>2, <2>3, <2>4, QuietTypes DEF BrowserLeaves
<1>3. /\ \A y \in Session \ {x} : s'[y] = s[y]
      /\ s'[x].ws = "closed" /\ s'[x].up = s[x].up /\ s'[x].maxRtt = s[x].maxRtt
  BY <1>1 DEF Types, BrowserLeaves, SessionState
<1>4. Counted(x)'
  BY <1>1 DEF Types, BrowserLeaves, SessionState, Counted
<1>5. Started(x)'
  BY <1>1 DEF Types, BrowserLeaves, SessionState, Started
<1>6. QED BY <1>2, <1>3, <1>4, <1>5, QuietAction DEF BrowserLeaves

-----------------------------------------------------------------------------
(* The steps of _rudp_to_ws and _tcp_to_ws.                                *)

\* The types of what such a step changes.
LEMMA ReadTypes ==
  ASSUME Types, UNCHANGED <<kind, now, netem, cached, w, sent, left>>,
         s' \in [Session -> SessionState],
         r' \in [Session -> Reader],
         out' \in [Session -> Seq(Output)],
         dropped' \in [Session -> SUBSET Nat]
  PROVE  Types'
BY DEF Types, SessionState, Reader, ServerMsg, Timed, Output

\* The types of what a session's invariant speaks of.
LEMMA SessionTypes ==
  ASSUME Types, NEW x \in Session
  PROVE  /\ s[x] \in SessionState /\ r[x] \in Reader
         /\ r[x].i \in Nat /\ r[x].until \in Nat /\ r[x].hold \in Nat
         /\ sent[x] \in Seq(ServerMsg) /\ Len(sent[x]) \in Nat
         /\ out[x] \in Seq(Output) /\ Len(out[x]) \in Nat
         /\ DOMAIN sent[x] = 1 .. Len(sent[x]) /\ DOMAIN out[x] = 1 .. Len(out[x])
         /\ \A k \in DOMAIN out[x] : out[x][k] \in Output /\ out[x][k].i \in Nat
<1>1. s[x] \in SessionState /\ r[x] \in Reader
      /\ sent[x] \in Seq(ServerMsg) /\ out[x] \in Seq(Output)
  BY DEF Types
<1>2. r[x].i \in Nat /\ r[x].until \in Nat /\ r[x].hold \in Nat
  BY <1>1 DEF Reader
<1>3. /\ Len(sent[x]) \in Nat /\ Len(out[x]) \in Nat
      /\ DOMAIN sent[x] = 1 .. Len(sent[x]) /\ DOMAIN out[x] = 1 .. Len(out[x])
      /\ \A k \in DOMAIN out[x] : out[x][k] \in Output
  BY <1>1, LenProperties, ElementOfSeq
<1>4. \A o \in Output : o.i \in Nat
  BY DEF Output
<1>5. QED BY <1>1, <1>2, <1>3, <1>4

\* The reading task stops between two messages.
LEMMA StopReading ==
  ASSUME IInv, NEW x \in Session, NEW p \in {"done", "silent"},
         r[x].pc = "recv", r' = [r EXCEPT ![x].pc = p],
         UNCHANGED <<kind, now, netem, cached, s, w, sent, out, dropped, left>>,
         p = "done" /\ kind # "rudp" =>
           \/ s[x].up = "closed" /\ r[x].i = Len(sent[x])
           \/ s[x].up \in {"shut", "reset"} \/ TooLong(x)
  PROVE  IInv'
<1>1. Types /\ Good(x)
  BY DEF IInv
<1>2. r \in [Session -> Reader]
  BY <1>1 DEF Types
<1>3. /\ r' \in [Session -> Reader]
      /\ r'[x].pc = p /\ r'[x].i = r[x].i
      /\ \A y \in Session \ {x} : r'[y] = r[y]
  BY <1>2 DEF Reader
<1>4. Types'
  BY <1>1, <1>3, ReadTypes DEF Types
<1>5. Counted(x)' /\ Started(x)'
  BY <1>1, <1>3 DEF Good, Counted, Started
<1>6. Relayed(x)'
  BY <1>1, <1>3 DEF Good, Relayed, Sleeping, Shown
<1>7. Held(x)'
  BY <1>1, <1>3 DEF Good, Held, Sync, Told
<1>8. \A y \in Session \ {x} : Good(y)'
  BY <1>3, OtherSession DEF IInv
<1>9. Ended(x)'
  <2>1. TooLong(x)' = TooLong(x)
    BY <1>3 DEF TooLong
  <2>2. QED BY <1>1, <1>3, <2>1 DEF Good, Ended
<1>10. QED BY <1>4, <1>5, <1>6, <1>7, <1>8, <1>9 DEF IInv, Good

\* A message taken is in hand until it is shown.
LEMMA ReceiveStep ==
  ASSUME IInv, NEW x \in Session, Receive(x)
  PROVE  IInv'
<1>1. Types /\ Good(x)
  BY DEF IInv
<1>2. PICK until \in Nat : r' = [r EXCEPT ![x].pc = "netem", ![x].i = @ + 1, ![x].until = until]
  <2>1. (IF Sync THEN now + netem.delay ELSE now) \in Nat
    BY <1>1 DEF Types
  <2>2. QED BY <2>1 DEF Receive
<1>3. r \in [Session -> Reader]
  BY <1>1 DEF Types
<1>4. /\ r[x].i \in Nat /\ r[x].i + 1 \in Nat
      /\ r[x].pc = "recv" /\ r[x].i < Len(sent[x])
  BY <1>3 DEF Reader, Receive, Readable
<1>5. /\ r' \in [Session -> Reader]
      /\ r'[x].pc = "netem" /\ r'[x].i = r[x].i + 1
      /\ \A y \in Session \ {x} : r'[y] = r[y]
  <2> DEFINE j == r[x].i + 1
  <2>1. j \in Nat /\ r' = [r EXCEPT ![x].pc = "netem", ![x].i = j, ![x].until = until]
    BY <1>2, <1>4
  <2> HIDE DEF j
  <2>2. /\ r' \in [Session -> Reader]
        /\ r'[x].pc = "netem" /\ r'[x].i = j
        /\ \A y \in Session \ {x} : r'[y] = r[y]
    BY <1>3, <2>1 DEF Reader
  <2>3. QED BY <2>2 DEF j
<1>6. UNCHANGED <<kind, now, netem, cached, s, w, sent, out, dropped, left>>
  BY DEF Receive
<1>7. Types'
  BY <1>1, <1>5, <1>6, ReadTypes DEF Types
<1>8. Counted(x)'
  BY <1>1, <1>4, <1>5, <1>6, SessionTypes DEF Good, Counted
<1>9. Started(x)'
  BY <1>1, <1>4, <1>5, <1>6 DEF Good, Started
<1>10. Relayed(x)'
  <2>1. /\ dropped'[x] \subseteq DOMAIN sent'[x]
        /\ out'[x] # <<>> => out'[x][1].i = 0
        /\ \A j, k \in DOMAIN out'[x] : j < k => out'[x][j].i < out'[x][k].i
    BY <1>1, <1>6 DEF Good, Relayed
  <2>2. \A k \in DOMAIN out'[x] : out'[x][k].i < r'[x].i
    BY <1>1, <1>4, <1>5, <1>6, SessionTypes DEF Good, Relayed, Sleeping
  <2>3. \A i \in 1 .. r[x].i : i \in Shown(x) \cup dropped[x]
    BY <1>1, <1>4 DEF Good, Relayed, Sleeping
  <2>4. \A i \in 1 .. r'[x].i : i \in 1 .. r[x].i \/ i = r'[x].i
    BY <1>4, <1>5
  <2>5. Shown(x)' = Shown(x) /\ dropped'[x] = dropped[x] /\ Sleeping(x)'
    BY <1>5, <1>6 DEF Shown, Sleeping
  <2>6. QED BY <1>4, <1>5, <2>1, <2>2, <2>3, <2>4, <2>5 DEF Relayed
<1>11. Held(x)'
  BY <1>1, <1>5, <1>6 DEF Good, Held, Sync, Told, Target
<1>12. \A y \in Session \ {x} : Good(y)'
  BY <1>5, <1>6, OtherSession DEF IInv
<1>13. Ended(x)'
  BY <1>1, <1>5, <1>6 DEF Good, Ended
<1>14. QED BY <1>7, <1>8, <1>9, <1>10, <1>11, <1>12, <1>13 DEF IInv, Good

LEMMA DropStep ==
  ASSUME IInv, NEW x \in Session, Drop(x)
  PROVE  IInv'
<1>1. Types /\ Good(x)
  BY DEF IInv
<1> DEFINE j == r[x].i + 1
<1>2. r \in [Session -> Reader] /\ dropped \in [Session -> SUBSET Nat]
  BY <1>1 DEF Types
<1>3. /\ r[x].i \in Nat /\ j \in Nat /\ j = r[x].i + 1 /\ j <= Len(sent[x]) /\ j >= 1
      /\ r[x].pc = "recv"
      /\ r' = [r EXCEPT ![x].i = j]
      /\ dropped' = [dropped EXCEPT ![x] = @ \cup {j}]
  BY <1>1, <1>2, SessionTypes DEF Reader, Drop, Readable
<1> HIDE DEF j
<1>4. /\ r' \in [Session -> Reader]
      /\ r'[x].pc = "recv" /\ r'[x].i = j
      /\ \A y \in Session \ {x} : r'[y] = r[y]
  BY <1>2, <1>3 DEF Reader
<1>5. /\ dropped' \in [Session -> SUBSET Nat]
      /\ dropped'[x] = dropped[x] \cup {j}
      /\ \A y \in Session \ {x} : dropped'[y] = dropped[y]
  BY <1>2, <1>3
<1>6. UNCHANGED <<kind, now, netem, cached, s, w, sent, out, left>>
  BY DEF Drop
<1>7. Types'
  BY <1>1, <1>4, <1>5, <1>6, ReadTypes DEF Types
<1>8. Counted(x)'
  BY <1>1, <1>3, <1>4, <1>6 DEF Good, Counted
<1>9. Started(x)'
  BY <1>1, <1>3, <1>4, <1>6 DEF Good, Started
<1>10. Relayed(x)'
  <2>1. /\ out'[x] # <<>> => out'[x][1].i = 0
        /\ \A l, k \in DOMAIN out'[x] : l < k => out'[x][l].i < out'[x][k].i
    BY <1>1, <1>6 DEF Good, Relayed
  <2>2. dropped'[x] \subseteq DOMAIN sent'[x]
    BY <1>1, <1>3, <1>5, <1>6, SessionTypes DEF Good, Relayed
  <2>3. \A k \in DOMAIN out'[x] : out'[x][k].i <= r'[x].i
    BY <1>1, <1>3, <1>4, <1>6, SessionTypes DEF Good, Relayed, Sleeping
  <2>4. \A i \in 1 .. r[x].i : i \in Shown(x) \cup dropped[x]
    BY <1>1, <1>3 DEF Good, Relayed, Sleeping
  <2>5. \A i \in 1 .. r'[x].i : i \in 1 .. r[x].i \/ i = j
    BY <1>3, <1>4
  <2>6. Shown(x)' = Shown(x) /\ ~Sleeping(x)'
    BY <1>4, <1>6 DEF Shown, Sleeping
  <2>7. \A i \in 1 .. r'[x].i : i \in Shown(x)' \cup dropped'[x]
    BY <1>5, <2>4, <2>5, <2>6
  <2>8. QED BY <1>4, <2>1, <2>2, <2>3, <2>6, <2>7 DEF Relayed
<1>11. Held(x)'
  BY <1>1, <1>4, <1>6 DEF Good, Held, Sync, Told, Target
<1>12. \A y \in Session \ {x} : Good(y)'
  BY <1>4, <1>5, <1>6, OtherSession DEF IInv
<1>13. Ended(x)'
  BY <1>1, <1>4, <1>6 DEF Good, Ended
<1>14. QED BY <1>7, <1>8, <1>9, <1>10, <1>11, <1>12, <1>13 DEF IInv, Good

\* A message a bridge holds that knows max_rtt_ms is held until its target.
LEMMA HoldStep ==
  ASSUME IInv, NEW x \in Session, Hold(x)
  PROVE  IInv'
<1>1. Types /\ Good(x)
  BY DEF IInv
<1>2. r \in [Session -> Reader] /\ s \in [Session -> SessionState] /\ now \in Nat
  BY <1>1 DEF Types
<1>3. r[x].pc = "netem" /\ r[x].i \in 1 .. Len(sent[x])
  BY <1>1, SessionTypes DEF Hold, Good, Relayed, Counted, Sleeping
<1> DEFINE u == HoldUntil(x)
           h == IF u > now THEN u - now ELSE 0
<1>4. /\ u \in Nat
      /\ Msg(x).type \in {"plain", "sched", "exam"}
      /\ Msg(x).type \in {"sched", "exam"} => Msg(x) \in Timed /\ Msg(x).max > 0
  BY <1>1, <1>3, MsgFacts
<1>5. h \in Nat /\ (h > 0 => now <= u) /\ (~(h > 0) => u <= now)
  BY <1>2, <1>4
<1>6. r' = [r EXCEPT ![x].pc = "hold", ![x].until = u, ![x].hold = h]
  BY DEF Hold
<1>7. s[x].maxRtt > 0 \/ kind = "tcp_sync" => s[x].maxRtt > 0
  BY <1>1, <1>3 DEF Good, Started
<1>8. Msg(x).type = "exam" /\ Sync /\ s[x].maxRtt > 0 => u = Target(Msg(x))
  BY DEF HoldUntil, Target
<1> HIDE DEF u, h
<1>9. /\ r' \in [Session -> Reader]
      /\ r'[x].pc = "hold" /\ r'[x].i = r[x].i /\ r'[x].until = u /\ r'[x].hold = h
      /\ \A y \in Session \ {x} : r'[y] = r[y]
  BY <1>2, <1>4, <1>5, <1>6 DEF Reader
<1>10. /\ s' \in [Session -> SessionState]
       /\ \A y \in Session \ {x} : s'[y] = s[y]
       /\ s'[x].pc = s[x].pc /\ s'[x].ws = s[x].ws /\ s'[x].up = s[x].up
       /\ s'[x].frames = s[x].frames /\ s'[x].asked = s[x].asked
       /\ s[x].maxRtt > 0 => s'[x].maxRtt > 0
       /\ Sync /\ Msg(x).type = "sched" => s'[x].maxRtt > 0
  <2> DEFINE learns == Sync /\ (Msg(x).type = "sched" \/ (Msg(x).type = "exam" /\ s[x].maxRtt > 0))
             m == Msg(x).max
  <2>1. learns => m \in Nat /\ m > 0
    BY <1>4, BridgeConstants DEF Timed
  <2>2. s' = IF learns THEN [s EXCEPT ![x].maxRtt = m] ELSE s
    BY DEF Hold
  <2>3. Sync /\ Msg(x).type = "sched" => learns
    OBVIOUS
  <2> HIDE DEF learns, m
  <2>4. CASE learns
    BY <1>2, <2>1, <2>2, <2>4 DEF SessionState
  <2>5. CASE ~learns
    BY <1>2, <2>2, <2>3, <2>5
  <2>6. QED BY <2>4, <2>5
<1>11. UNCHANGED <<kind, now, netem, cached, w, sent, out, dropped, left>>
  BY DEF Hold
<1>12. Types'
  BY <1>1, <1>9, <1>10, <1>11, ReadTypes DEF Types
<1>13. Counted(x)'
  BY <1>1, <1>9, <1>10, <1>11 DEF Good, Counted
<1>14. Started(x)'
  BY <1>1, <1>3, <1>9, <1>10, <1>11 DEF Good, Started
<1>15. Relayed(x)'
  BY <1>1, <1>3, <1>9, <1>10, <1>11 DEF Good, Relayed, Sleeping, Shown
<1>16. Held(x)'
  <2>1. /\ Sync' = Sync /\ Msg(x)' = Msg(x)
        /\ \A n : Told(x, n)' = Told(x, n)
        /\ Told(x, Len(out[x]))' = Told(x, Len(out[x]))
    BY <1>9, <1>11 DEF Sync, Msg, Told
  <2>2. Sync /\ Told(x, Len(out[x])) => s[x].maxRtt > 0
    BY <1>1 DEF Good, Held
  <2>3. Sync' /\ Told(x, Len(out[x]))' => s'[x].maxRtt > 0
    BY <1>10, <2>1, <2>2
  <2>4. Sync' /\ Msg(x)'.type = "sched" => s'[x].maxRtt > 0
    BY <1>10, <2>1
  <2>5. Sync' /\ Msg(x)'.type = "exam" /\ (Told(x, Len(out[x]))' \/ kind' = "tcp_sync") =>
          IF r'[x].hold > 0 THEN r'[x].until = Target(Msg(x))' /\ now' <= r'[x].until
                            ELSE Target(Msg(x))' <= now'
    <3> SUFFICES ASSUME Sync, Msg(x).type = "exam", Told(x, Len(out[x])) \/ kind = "tcp_sync"
                 PROVE  IF h > 0 THEN u = Target(Msg(x)) /\ now <= u
                                 ELSE Target(Msg(x)) <= now
      BY <1>9, <1>11, <2>1 DEF Target
    <3>1. u = Target(Msg(x))
      BY <1>7, <1>8, <2>2
    <3>2. QED BY <1>5, <3>1
  <2>6. \A k \in 2 .. Len(out'[x]) :
          Sync' /\ sent'[x][out'[x][k].i].type = "exam"
          /\ (Told(x, k - 1)' \/ kind' = "tcp_sync") =>
            IF out'[x][k].hold > 0
              THEN out'[x][k].at = Target(sent'[x][out'[x][k].i])
              ELSE out'[x][k].at >= Target(sent'[x][out'[x][k].i])
    BY <1>1, <1>11, <2>1 DEF Good, Held
  <2>7. QED BY <1>11, <2>3, <2>4, <2>5, <2>6 DEF Held, Target
<1>17. \A y \in Session \ {x} : Good(y)'
  BY <1>9, <1>10, <1>11, OtherSession DEF IInv
<1>18. Ended(x)'
  BY <1>1, <1>9, <1>10 DEF Good, Ended
<1>19. QED BY <1>12, <1>13, <1>14, <1>15, <1>16, <1>17, <1>18 DEF IInv, Good

\* ws.send of the message in hand.
LEMMA ShowStep ==
  ASSUME IInv, NEW x \in Session, r[x].pc = "hold", r[x].until <= now,
         out' = [out EXCEPT ![x] = Append(@, [i |-> r[x].i, at |-> now, hold |-> r[x].hold])],
         r' = [r EXCEPT ![x].pc = "recv"],
         UNCHANGED <<kind, now, netem, cached, s, w, sent, dropped, left>>
  PROVE  IInv'
<1> DEFINE o == [i |-> r[x].i, at |-> now, hold |-> r[x].hold]
<1>1. Types /\ Good(x)
  BY DEF IInv
<1>0. PICK n \in Nat : n = Len(out[x])
  BY <1>1, SessionTypes
<1>2. r \in [Session -> Reader] /\ out \in [Session -> Seq(Output)] /\ now \in Nat
  BY <1>1 DEF Types
<1>3. r[x].i \in Nat /\ r[x].until \in Nat /\ r[x].hold \in Nat /\ n \in Nat
  BY <1>1, SessionTypes
<1>4. /\ o \in Output
      /\ o.i = r[x].i /\ o.at = now /\ o.hold = r[x].hold
  BY <1>2, <1>3 DEF Output
<1>5. out' = [out EXCEPT ![x] = Append(@, o)]
  OBVIOUS
<1> HIDE DEF o
<1>6. /\ out' \in [Session -> Seq(Output)]
      /\ out'[x] = Append(out[x], o)
      /\ \A y \in Session \ {x} : out'[y] = out[y]
  BY <1>2, <1>4, <1>5, AppendProperties
<1>7. /\ Len(out'[x]) = n + 1 /\ DOMAIN out'[x] = 1 .. (n + 1)
      /\ out'[x][n + 1] = o
      /\ \A k \in 1 .. n : out'[x][k] = out[x][k]
      /\ DOMAIN out[x] = 1 .. n
  BY <1>0, <1>2, <1>3, <1>4, <1>6, AppendProperties, LenProperties
<1>8. /\ r' \in [Session -> Reader]
      /\ r'[x].pc = "recv" /\ r'[x].i = r[x].i
      /\ \A y \in Session \ {x} : r'[y] = r[y]
  BY <1>2 DEF Reader
<1>9. out[x] # <<>> /\ n >= 1
  <2>1. out[x] # <<>>
    BY <1>1 DEF Good, Started
  <2>2. out[x] \in Seq(Output)
    BY <1>2
  <2>3. QED BY <1>0, <1>3, <2>1, <2>2, EmptySeq
<1>10. Types'
  BY <1>1, <1>6, <1>8, ReadTypes DEF Types
<1>11. Counted(x)'
  BY <1>1, <1>8 DEF Good, Counted
<1>12. Started(x)'
  <2>1. out'[x] # <<>>
    BY <1>2, <1>4, <1>6, AppendProperties
  <2>2. QED BY <1>1, <1>8, <2>1 DEF Good, Started
<1>13. \A k \in 1 .. n : out[x][k].i < r[x].i /\ out[x][k].i \in Nat
  BY <1>1, <1>7, SessionTypes DEF Good, Relayed, Sleeping
<1>14. Relayed(x)'
  <2>1. dropped'[x] \subseteq DOMAIN sent'[x] /\ ~Sleeping(x)'
    BY <1>1, <1>8 DEF Good, Relayed, Sleeping
  <2>2. out'[x][1].i = 0
    BY <1>1, <1>3, <1>7, <1>9 DEF Good, Relayed
  <2>3. ASSUME NEW j \in DOMAIN out'[x], NEW k \in DOMAIN out'[x], j < k
        PROVE  out'[x][j].i < out'[x][k].i
    <3>1. j \in 1 .. n
      BY <1>3, <1>7, <2>3
    <3>2. CASE k \in 1 .. n
      BY <1>1, <1>7, <2>3, <3>1, <3>2 DEF Good, Relayed
    <3>3. CASE k = n + 1
      BY <1>4, <1>7, <1>13, <3>1, <3>3
    <3>4. QED BY <1>3, <1>7, <3>2, <3>3
  <2>4. ASSUME NEW k \in DOMAIN out'[x]
        PROVE  out'[x][k].i <= r'[x].i
    <3>1. CASE k \in 1 .. n
      BY <1>3, <1>7, <1>8, <1>13, <3>1
    <3>2. CASE k = n + 1
      BY <1>3, <1>4, <1>7, <1>8, <3>2
    <3>3. QED BY <1>3, <1>7, <3>1, <3>2
  <2>5. Shown(x) \subseteq Shown(x)'
    <3> SUFFICES ASSUME NEW e \in Shown(x) PROVE e \in Shown(x)'
      OBVIOUS
    <3>1. PICK k \in 1 .. n : e = out[x][k].i
      BY <1>7 DEF Shown
    <3>2. k \in DOMAIN out'[x] /\ out'[x][k].i = e
      BY <1>3, <1>7, <3>1
    <3>3. e # 0
      BY DEF Shown
    <3>4. QED BY <3>2, <3>3 DEF Shown
  <2>6. r[x].i >= 1 => r[x].i \in Shown(x)'
    <3>1. n + 1 \in DOMAIN out'[x] /\ out'[x][n + 1].i = r[x].i
      BY <1>3, <1>4, <1>7
    <3>2. QED BY <3>1 DEF Shown
  <2>7. \A i \in 1 .. r'[x].i : i \in Shown(x)' \cup dropped'[x]
    BY <1>1, <1>3, <1>8, <2>5, <2>6 DEF Good, Relayed
  <2>8. QED BY <1>8, <2>1, <2>2, <2>3, <2>4, <2>7 DEF Relayed
<1>15. Held(x)'
  <2>1. Sync' = Sync
    BY DEF Sync
  <2>2. \A k \in 0 .. n : Told(x, k)' <=> Told(x, k)
    <3> SUFFICES ASSUME NEW k \in 0 .. n PROVE Told(x, k)' <=> Told(x, k)
      OBVIOUS
    <3>1. \A j \in 2 .. k : out'[x][j] = out[x][j]
      BY <1>7
    <3>2. QED BY <3>1 DEF Told
  <2>3. Told(x, n + 1)' => Told(x, n) \/ Msg(x).type = "sched"
    <3> SUFFICES ASSUME NEW j \in 2 .. n + 1, sent[x][out'[x][j].i].type = "sched"
                 PROVE  Told(x, n) \/ Msg(x).type = "sched"
      BY DEF Told
    <3>1. CASE j \in 2 .. n
      BY <1>3, <1>7, <3>1 DEF Told
    <3>2. CASE j = n + 1
      BY <1>4, <1>7, <3>2 DEF Msg
    <3>3. QED BY <1>3, <3>1, <3>2
  <2>4. Sync /\ Told(x, n + 1)' => s[x].maxRtt > 0
    BY <1>0, <1>1, <2>3 DEF Good, Held
  <2>5. ASSUME NEW k \in 2 .. n + 1, Sync, sent[x][out'[x][k].i].type = "exam",
               Told(x, k - 1)' \/ kind = "tcp_sync"
        PROVE  IF out'[x][k].hold > 0
                 THEN out'[x][k].at = Target(sent[x][out'[x][k].i])
                 ELSE out'[x][k].at >= Target(sent[x][out'[x][k].i])
    <3>1. k - 1 \in 0 .. n
      BY <1>3
    <3>2. Told(x, k - 1) \/ kind = "tcp_sync"
      BY <2>2, <2>5, <3>1
    <3>3. CASE k \in 2 .. n
      <4>1. out'[x][k] = out[x][k]
        BY <1>3, <1>7, <3>3
      <4>2. QED BY <1>0, <1>1, <2>5, <3>2, <3>3, <4>1 DEF Good, Held
    <3>4. CASE k = n + 1
      <4>1. out'[x][k] = o /\ sent[x][out'[x][k].i] = Msg(x)
        BY <1>4, <1>7, <3>4 DEF Msg
      <4>2. Msg(x).type = "exam" /\ (Told(x, n) \/ kind = "tcp_sync")
        <5>1. k - 1 = n
          BY <3>4
        <5>2. Told(x, n) \/ kind = "tcp_sync"
          BY <3>2, <5>1
        <5>3. QED BY <2>5, <4>1, <5>2
      <4>3. IF r[x].hold > 0 THEN r[x].until = Target(Msg(x)) /\ now <= r[x].until
                             ELSE Target(Msg(x)) <= now
        BY <1>0, <1>1, <2>5, <4>2 DEF Good, Held
      <4>4. r[x].hold > 0 => now = Target(Msg(x))
        BY <1>2, <1>3, <4>3
      <4>5. ~(r[x].hold > 0) => now >= Target(Msg(x))
        BY <1>2, <4>3
      <4>6. CASE o.hold > 0
        <5>1. o.at = Target(Msg(x))
          BY <1>4, <4>4, <4>6
        <5>2. QED BY <4>1, <4>6, <5>1
      <4>7. CASE ~(o.hold > 0)
        <5>1. o.at >= Target(Msg(x))
          BY <1>4, <4>5, <4>7
        <5>2. QED BY <4>1, <4>7, <5>1
      <4>8. QED BY <4>6, <4>7
    <3>5. k \in 2 .. n \/ k = n + 1
      OBVIOUS
    <3>6. QED BY <3>3, <3>4, <3>5, Zenon
  <2>6. QED BY <1>7, <1>8, <2>1, <2>4, <2>5 DEF Held, Target
<1>16. \A y \in Session \ {x} : Good(y)'
  BY <1>6, <1>8, OtherSession DEF IInv
<1>17. Ended(x)'
  BY <1>1, <1>8 DEF Good, Ended
<1>18. QED BY <1>10, <1>11, <1>12, <1>14, <1>15, <1>16, <1>17 DEF IInv, Good

\* A browser that has gone ends the task with the message in hand.
LEMMA ForwardStep ==
  ASSUME IInv, NEW x \in Session, Forward(x)
  PROVE  IInv'
<1>1. Types /\ Good(x)
  BY DEF IInv
<1>2. CASE s[x].ws = "open"
  BY <1>2, ShowStep DEF Forward
<1>3. CASE s[x].ws # "open"
  <2>1. r \in [Session -> Reader] /\ s[x].ws = "closed"
    BY <1>1, <1>3 DEF Types, SessionState
  <2>2. /\ r[x].pc = "hold" /\ r' = [r EXCEPT ![x].pc = "done"]
        /\ UNCHANGED <<kind, now, netem, cached, s, w, sent, out, dropped, left>>
    BY <1>3 DEF Forward
  <2>3. /\ r' \in [Session -> Reader]
        /\ r'[x].pc = "done" /\ r'[x].i = r[x].i
        /\ \A y \in Session \ {x} : r'[y] = r[y]
    BY <2>1, <2>2 DEF Reader
  <2>4. Types'
    BY <1>1, <2>2, <2>3, ReadTypes DEF Types
  <2>5. Counted(x)' /\ Started(x)'
    BY <1>1, <2>2, <2>3 DEF Good, Counted, Started
  <2>6. Relayed(x)'
    <3>1. \A k \in DOMAIN out[x] : out[x][k].i <= r[x].i
      BY <1>1, <2>2, SessionTypes DEF Good, Relayed, Sleeping
    <3>2. QED BY <1>1, <2>1, <2>2, <2>3, <3>1 DEF Good, Relayed, Sleeping, Shown
  <2>7. Held(x)'
    BY <1>1, <2>2, <2>3 DEF Good, Held, Sync, Told
  <2>8. \A y \in Session \ {x} : Good(y)'
    BY <2>2, <2>3, OtherSession DEF IInv
  <2>9. Ended(x)'
    BY <2>1, <2>2 DEF Ended
  <2>10. QED BY <2>4, <2>5, <2>6, <2>7, <2>8, <2>9 DEF IInv, Good
<1>4. QED BY <1>2, <1>3

-----------------------------------------------------------------------------
(* connection_info, messages, the clock.                                   *)

LEMMA InformStep ==
  ASSUME IInv, NEW x \in Session, Inform(x)
  PROVE  IInv'
<1>1. Types /\ Good(x)
  BY DEF IInv
<1>2. /\ s \in [Session -> SessionState] /\ r \in [Session -> Reader]
      /\ out \in [Session -> Seq(Output)] /\ now \in Nat
      /\ w \in [Session -> {"none", "recv", "send", "done"}]
      /\ left \in [frames : [Session -> Nat], netem : Nat]
      /\ cached \in Ips \cup {None} /\ dropped \in [Session -> SUBSET Nat]
  BY <1>1 DEF Types
<1>3. CASE s[x].ws # "open"
  <2>1. /\ s[x].pc = "info" /\ s' = [s EXCEPT ![x].pc = "over"]
        /\ UNCHANGED <<kind, now, netem, cached, w, r, sent, out, dropped, left>>
    BY <1>3 DEF Inform
  <2>2. s' \in [Session -> SessionState]
    BY <1>2, <2>1, Updates DEF Phase
  <2>3. Types'
    BY <1>1, <1>2, <2>1, <2>2, QuietTypes
  <2>4. /\ \A y \in Session \ {x} : s'[y] = s[y]
        /\ s'[x].ws = s[x].ws /\ s'[x].up = s[x].up /\ s'[x].maxRtt = s[x].maxRtt
        /\ s'[x].frames = s[x].frames /\ s'[x].asked = s[x].asked /\ s'[x].pc = "over"
    BY <1>2, <2>1 DEF SessionState
  <2>5. Counted(x)' /\ Started(x)'
    BY <1>1, <2>1, <2>4 DEF Good, Counted, Started
  <2>6. QED BY <2>1, <2>3, <2>4, <2>5, QuietAction
<1>4. CASE s[x].ws = "open"
  <2> DEFINE o == [i |-> 0, at |-> now, hold |-> 0]
  <2>1. o \in Output /\ o.i = 0
    BY <1>2 DEF Output
  <2>2. /\ s[x].pc = "info" /\ s' = [s EXCEPT ![x].pc = "run"]
        /\ out' = [out EXCEPT ![x] = Append(@, o)]
        /\ w' = [w EXCEPT ![x] = "recv"]
        /\ r' = [r EXCEPT ![x].pc = "recv"]
        /\ UNCHANGED <<kind, now, netem, cached, sent, dropped, left>>
    BY <1>4 DEF Inform
  <2> HIDE DEF o
  <2>3. r[x].pc = "none" /\ out[x] = <<>> /\ r[x].i = 0
    BY <1>1, <2>2 DEF Good, Started
  <2>4. /\ s' \in [Session -> SessionState]
        /\ \A y \in Session \ {x} : s'[y] = s[y]
        /\ s'[x].ws = s[x].ws /\ s'[x].up = s[x].up /\ s'[x].maxRtt = s[x].maxRtt
        /\ s'[x].frames = s[x].frames /\ s'[x].asked = s[x].asked /\ s'[x].pc = "run"
    BY <1>2, <2>2 DEF SessionState
  <2>5. /\ r' \in [Session -> Reader] /\ r'[x].pc = "recv" /\ r'[x].i = 0
        /\ \A y \in Session \ {x} : r'[y] = r[y]
    BY <1>2, <2>2, <2>3 DEF Reader
  <2>6. /\ w' \in [Session -> {"none", "recv", "send", "done"}]
        /\ w'[x] = "recv" /\ \A y \in Session \ {x} : w'[y] = w[y]
    BY <1>2, <2>2
  <2>7. out'[x] = <<o>> /\ \A y \in Session \ {x} : out'[y] = out[y]
    BY <1>2, <2>2, <2>3
  <2>8. /\ Len(out'[x]) = 1 /\ DOMAIN out'[x] = 1 .. 1 /\ out'[x][1] = o
        /\ out'[x] \in Seq(Output) /\ out'[x] # <<>>
    BY <2>1, <2>7
  <2>9. out' \in [Session -> Seq(Output)]
    BY <1>2, <2>2, <2>7, <2>8
  <2>10. Types'
    <3>1. kind' \in Kinds /\ now' \in Nat /\ netem' \in [delay : Nat, loss : BOOLEAN]
          /\ cached' \in Ips \cup {None} /\ dropped' \in [Session -> SUBSET Nat]
          /\ left' \in [frames : [Session -> Nat], netem : Nat]
      BY <1>1, <2>2 DEF Types
    <3>2. sent' \in [Session -> Seq(ServerMsg)]
      BY <1>1, <2>2 DEF Types
    <3>3. QED BY <2>4, <2>5, <2>6, <2>9, <3>1, <3>2
             DEF Types, SessionState, Reader, ServerMsg, Timed, Output
  <2>11. Counted(x)'
    <3>1. w[x] \in {"none", "recv", "send", "done"}
      BY <1>2
    <3>2. s[x].frames \in Nat /\ s[x].asked \in Nat /\ left.frames[x] \in Nat
      BY <1>2 DEF SessionState
    <3>3. Len(sent[x]) \in Nat
      BY <1>1, SessionTypes
    <3>4. left'.frames[x] = left.frames[x] /\ sent'[x] = sent[x]
      BY <2>2
    <3>5. QED BY <1>1, <2>3, <2>4, <2>5, <2>6, <3>1, <3>2, <3>3, <3>4, BridgeConstants DEF Good, Counted
  <2>12. Started(x)'
    BY <1>1, <2>2, <2>4, <2>5, <2>8 DEF Good, Started
  <2>13. Relayed(x)'
    <3>1. ~Sleeping(x)' /\ dropped'[x] \subseteq DOMAIN sent'[x]
      BY <1>1, <2>2, <2>5 DEF Good, Relayed, Sleeping
    <3>2. QED BY <2>1, <2>5, <2>8, <3>1 DEF Relayed
  <2>14. Held(x)'
    BY <2>5, <2>8 DEF Held, Told
  <2>15. \A y \in Session \ {x} : Good(y)'
    BY <2>2, <2>4, <2>5, <2>6, <2>7, OtherSession DEF IInv
  <2>16. Ended(x)'
    BY <1>1, <2>4, <2>5 DEF Good, Ended
  <2>17. QED BY <2>10, <2>11, <2>12, <2>13, <2>14, <2>15, <2>16 DEF IInv, Good
<1>5. QED BY <1>3, <1>4

LEMMA ServerSendsStep ==
  ASSUME IInv, NEW x \in Session, ServerSends(x)
  PROVE  IInv'
<1>1. Types /\ Good(x)
  BY DEF IInv
<1>2. PICK type \in {"plain", "sched", "exam"}, long \in BOOLEAN :
        sent' = [sent EXCEPT ![x] = Append(@, Message(type, long))]
  BY DEF ServerSends
<1>3. PICK m \in ServerMsg : sent' = [sent EXCEPT ![x] = Append(@, m)]
  <2>1. now \in Nat
    BY <1>1 DEF Types
  <2>2. CASE type = "plain"
    BY <1>2, <2>2 DEF Message, ServerMsg
  <2>3. CASE type # "plain"
    <3>1. Message(type, long) \in Timed
      BY <2>1, <2>3, BridgeConstants DEF Message, Timed
    <3>2. QED BY <1>2, <3>1 DEF ServerMsg
  <2>4. QED BY <2>2, <2>3
<1>4. sent \in [Session -> Seq(ServerMsg)]
  BY <1>1 DEF Types
<1>5. PICK n \in Nat : n = Len(sent[x])
  BY <1>1, SessionTypes
<1>6. /\ sent' \in [Session -> Seq(ServerMsg)]
      /\ sent'[x] = Append(sent[x], m)
      /\ \A y \in Session \ {x} : sent'[y] = sent[y]
  BY <1>3, <1>4, AppendProperties
<1>7. /\ Len(sent'[x]) = n + 1 /\ DOMAIN sent'[x] = 1 .. (n + 1)
      /\ \A i \in 1 .. n : sent'[x][i] = sent[x][i]
      /\ DOMAIN sent[x] = 1 .. n
  BY <1>4, <1>5, <1>6, AppendProperties, LenProperties
<1>8. /\ s[x].up = "open" /\ n < s[x].asked
      /\ UNCHANGED <<kind, now, netem, cached, s, w, r, out, dropped, left>>
  BY <1>5 DEF ServerSends
<1>9. Types'
  <2>1. kind' \in Kinds /\ now' \in Nat /\ netem' \in [delay : Nat, loss : BOOLEAN]
        /\ cached' \in Ips \cup {None} /\ dropped' \in [Session -> SUBSET Nat]
        /\ left' \in [frames : [Session -> Nat], netem : Nat]
        /\ w' \in [Session -> {"none", "recv", "send", "done"}]
    BY <1>1, <1>8 DEF Types
  <2>2. /\ s' \in [Session -> SessionState] /\ r' \in [Session -> Reader]
        /\ out' \in [Session -> Seq(Output)]
    BY <1>1, <1>8 DEF Types
  <2>3. QED BY <1>6, <2>1, <2>2 DEF Types, SessionState, Reader, ServerMsg, Timed, Output
<1>10. r[x].i \in Nat /\ s[x].asked \in Nat /\ r[x].i <= n
  BY <1>1, <1>5, SessionTypes DEF Good, Counted, SessionState
<1>11. Counted(x)'
  BY <1>1, <1>7, <1>8, <1>10 DEF Good, Counted
<1>12. Started(x)'
  BY <1>1, <1>8 DEF Good, Started
<1>13. Relayed(x)'
  <2>1. /\ Sleeping(x)' = Sleeping(x) /\ Shown(x)' = Shown(x)
        /\ r' = r /\ out' = out /\ s' = s /\ kind' = kind /\ dropped' = dropped
    BY <1>8 DEF Sleeping, Shown
  <2>2. dropped'[x] \subseteq DOMAIN sent'[x]
    BY <1>1, <1>7, <2>1 DEF Good, Relayed
  <2>3. QED BY <1>1, <2>1, <2>2 DEF Good, Relayed
<1>14. Held(x)'
  <2>1. \A k \in 2 .. Len(out[x]) :
          /\ out[x][k].i \in 1 .. n
          /\ sent'[x][out[x][k].i] = sent[x][out[x][k].i]
    BY <1>1, <1>5, <1>7, OutFacts DEF Good
  <2>2. r[x].pc = "hold" => Msg(x)' = Msg(x)
    <3>1. r[x].pc = "hold" => r[x].i \in 1 .. n
      BY <1>1, <1>10 DEF Good, Relayed, Sleeping
    <3>2. QED BY <1>7, <1>8, <3>1 DEF Msg
  <2>3. ASSUME NEW k \in 0 .. Len(out[x])
        PROVE  Told(x, k)' <=> Told(x, k)
    <3>1. \A j \in 2 .. k : j \in 2 .. Len(out[x])
      BY <1>1, SessionTypes
    <3>2. QED BY <1>8, <2>1, <3>1 DEF Told
  <2>4. Told(x, Len(out[x]))' <=> Told(x, Len(out[x]))
    BY <1>8, <2>1 DEF Told
  <2>5. \A k \in 2 .. Len(out[x]) : Told(x, k - 1)' <=> Told(x, k - 1)
    <3>1. \A k \in 2 .. Len(out[x]) : k - 1 \in 0 .. Len(out[x])
      BY <1>1, SessionTypes
    <3>2. QED BY <2>3, <3>1
  <2>6. Sync' = Sync /\ r' = r /\ out' = out /\ s' = s /\ now' = now /\ kind' = kind
    BY <1>8 DEF Sync
  <2>7. QED BY <1>1, <2>1, <2>2, <2>4, <2>5, <2>6 DEF Good, Held, Target
<1>15. \A y \in Session \ {x} : Good(y)'
  BY <1>6, <1>8, OtherSession DEF IInv
<1>16. Ended(x)'
  <2>1. TooLong(x) => TooLong(x)'
    BY <1>5, <1>7, <1>8, <1>10 DEF TooLong
  <2>2. QED BY <1>1, <1>8, <2>1 DEF Good, Ended
<1>17. QED BY <1>9, <1>11, <1>12, <1>13, <1>14, <1>15, <1>16 DEF IInv, Good

LEMMA SetNetemStep ==
  ASSUME IInv, SetNetem
  PROVE  IInv'
<1>1. Types /\ left \in [frames : [Session -> Nat], netem : Nat]
  BY DEF IInv, Types
<1>2. /\ UNCHANGED <<kind, now, cached, s, w, r, sent, out, dropped>>
      /\ netem' \in [delay : Nat, loss : BOOLEAN]
  BY BridgeConstants DEF SetNetem
<1>3. /\ left' \in [frames : [Session -> Nat], netem : Nat]
      /\ left'.frames = left.frames
  BY <1>1 DEF SetNetem
<1>4. Types'
  BY <1>1, <1>2, <1>3 DEF Types, SessionState, Reader, ServerMsg, Timed, Output
<1>5. \A y \in Session : Good(y)'
  BY <1>2, <1>3, OtherSession DEF IInv
<1>6. QED BY <1>4, <1>5 DEF IInv

\* Time does not pass what a task waits for.
LEMMA TickStep ==
  ASSUME IInv, Tick
  PROVE  IInv'
<1>1. Types /\ now \in Nat
  BY DEF IInv, Types
<1>2. /\ UNCHANGED <<kind, netem, cached, s, w, r, sent, out, dropped, left>>
      /\ now' = now + 1 /\ now' \in Nat
  BY <1>1 DEF Tick
<1>3. Types'
  BY <1>1, <1>2 DEF Types, SessionState, Reader, ServerMsg, Timed, Output
<1>4. ASSUME NEW x \in Session PROVE Good(x)'
  <2>1. Good(x)
    BY DEF IInv
  <2>2. Counted(x)' /\ Started(x)'
    BY <1>2, <2>1 DEF Good, Counted, Started
  <2>3. Relayed(x)'
    BY <1>2, <2>1 DEF Good, Relayed, Sleeping, Shown
  <2>4. /\ Sync' = Sync /\ Msg(x)' = Msg(x) /\ \A n : Told(x, n)' = Told(x, n)
        /\ Told(x, Len(out[x]))' = Told(x, Len(out[x]))
    BY <1>2 DEF Sync, Msg, Told
  <2>5. ASSUME Sync, r[x].pc = "hold", Msg(x).type = "exam",
               Told(x, Len(out[x])) \/ kind = "tcp_sync"
        PROVE  IF r[x].hold > 0 THEN r[x].until = Target(Msg(x)) /\ now + 1 <= r[x].until
                                ELSE Target(Msg(x)) <= now + 1
    <3>1. r[x].until > now /\ r[x].until \in Nat
      BY <1>1, <2>5, SessionTypes DEF Tick, Sleeping
    <3>2. Target(Msg(x)) \in Nat
      <4>1. r[x].i \in 1 .. Len(sent[x])
        BY <1>1, <2>1, <2>5, SessionTypes DEF Good, Counted, Relayed, Sleeping
      <4>2. QED BY <1>1, <2>5, <4>1, MsgFacts, TargetNat
    <3>3. IF r[x].hold > 0 THEN r[x].until = Target(Msg(x)) ELSE Target(Msg(x)) <= now
      BY <2>1, <2>5 DEF Good, Held
    <3> DEFINE t == Target(Msg(x))
    <3>4. t \in Nat /\ IF r[x].hold > 0 THEN r[x].until = t ELSE t <= now
      BY <3>2, <3>3
    <3> HIDE DEF t
    <3>5. IF r[x].hold > 0 THEN r[x].until = t /\ now + 1 <= r[x].until ELSE t <= now + 1
      BY <1>1, <3>1, <3>4
    <3>6. QED BY <3>5 DEF t
  <2>6. Held(x)'
    BY <1>2, <2>1, <2>4, <2>5 DEF Good, Held, Target
  <2>7. Ended(x)'
    BY <1>2, <2>1 DEF Good, Ended, TooLong
  <2>8. QED BY <2>2, <2>3, <2>6, <2>7 DEF Good
<1>5. QED BY <1>3, <1>4 DEF IInv

-----------------------------------------------------------------------------
(* The invariant holds.                                                    *)

LEMMA InitHolds == Init => IInv
<1> SUFFICES ASSUME Init PROVE IInv
  OBVIOUS
<1>1. <<>> \in Seq(ServerMsg) /\ <<>> \in Seq(Output) /\ DOMAIN <<>> = {} /\ Len(<<>>) = 0
  OBVIOUS
<1>2. Types
  <2>1. s \in [Session -> SessionState]
    BY DEF Init, SessionState
  <2>2. r \in [Session -> Reader]
    BY DEF Init, Reader
  <2>3. sent \in [Session -> Seq(ServerMsg)] /\ out \in [Session -> Seq(Output)]
    BY <1>1 DEF Init
  <2>4. left \in [frames : [Session -> Nat], netem : Nat]
    BY BridgeConstants DEF Init
  <2>5. /\ kind \in Kinds /\ now \in Nat /\ cached \in Ips \cup {None}
        /\ netem \in [delay : Nat, loss : BOOLEAN]
        /\ w \in [Session -> {"none", "recv", "send", "done"}]
        /\ dropped \in [Session -> SUBSET Nat]
    BY DEF Init
  <2>6. QED BY <2>1, <2>2, <2>3, <2>4, <2>5 DEF Types
<1>3. ASSUME NEW x \in Session PROVE Good(x)
  <2>1. /\ s[x].pc = "new" /\ s[x].frames = 0 /\ s[x].asked = 0
        /\ w[x] = "none" /\ r[x].pc = "none" /\ r[x].i = 0
        /\ sent[x] = <<>> /\ out[x] = <<>> /\ dropped[x] = {} /\ left.frames[x] = MaxFrames
    BY DEF Init
  <2>2. Counted(x)
    BY <1>1, <2>1, BridgeConstants DEF Counted
  <2>3. Started(x)
    BY <2>1 DEF Started
  <2>4. Relayed(x)
    BY <1>1, <2>1 DEF Relayed, Sleeping
  <2>5. Held(x)
    BY <1>1, <2>1 DEF Held, Told
  <2>6. Ended(x)
    BY <2>1 DEF Init, Ended
  <2>7. QED BY <2>2, <2>3, <2>4, <2>5, <2>6 DEF Good
<1>4. QED BY <1>2, <1>3 DEF IInv

LEMMA NextHolds ==
  ASSUME IInv, [Next]_vars
  PROVE  IInv'
<1>1. ASSUME NEW x \in Session, Bridge(x) PROVE IInv'
  <2>1. CASE ResolveStart(x)
    BY <2>1, ResolveStartStep
  <2>2. CASE ResolveEnd(x)
    BY <2>2, ResolveEndStep
  <2>3. CASE Connected(x)
    BY <2>3, ConnectedStep
  <2>4. CASE ConnectFails(x)
    BY <2>4, ConnectFailsStep
  <2>5. CASE Inform(x)
    BY <2>5, InformStep
  <2>6. CASE Close(x)
    BY <2>6, CloseStep
  <2>7. CASE TakeFrame(x)
    BY <2>7, TakeFrameStep
  <2>8. CASE FrameSent(x)
    BY <2>8, FrameSentStep
  <2>9. CASE FrameFails(x)
    BY <2>9, WsEndsStep DEF FrameFails
  <2>10. CASE FramesEnd(x)
    BY <2>10, WsEndsStep DEF FramesEnd
  <2>11. CASE EndOfInput(x)
    BY <2>11, StopReading DEF EndOfInput
  <2>18. CASE Broken(x)
    BY <2>18, StopReading DEF Broken
  <2>19. CASE Overrun(x)
    BY <2>19, StopReading DEF Overrun
  <2>12. CASE Silence(x)
    BY <2>12, StopReading DEF Silence
  <2>13. CASE Receive(x)
    BY <2>13, ReceiveStep
  <2>14. CASE Drop(x)
    BY <2>14, DropStep
  <2>15. CASE Hold(x)
    BY <2>15, HoldStep
  <2>16. CASE Forward(x)
    BY <2>16, ForwardStep
  <2>17. QED BY <1>1, <2>1, <2>2, <2>3, <2>4, <2>5, <2>6, <2>7, <2>8, <2>9, <2>10,
               <2>11, <2>18, <2>19, <2>12, <2>13, <2>14, <2>15, <2>16 DEF Bridge
<1>2. ASSUME NEW x \in Session, ServerSends(x) PROVE IInv'
  BY <1>2, ServerSendsStep
<1>3. ASSUME NEW x \in Session, ServerCloses(x) \/ Reset(x) PROVE IInv'
  BY <1>3, ServerClosesStep, ResetStep
<1>4. ASSUME NEW x \in Session, BrowserSends(x) PROVE IInv'
  BY <1>4, BrowserSendsStep
<1>5. ASSUME NEW x \in Session, BrowserLeaves(x) PROVE IInv'
  BY <1>5, BrowserLeavesStep
<1>6. CASE SetNetem
  BY <1>6, SetNetemStep
<1>7. CASE Tick
  BY <1>7, TickStep
<1>8. CASE UNCHANGED vars
  <2>1. UNCHANGED <<kind, now, netem, cached, s, w, r, sent, out, dropped, left>>
    BY <1>8 DEF vars
  <2>2. Types'
    BY <2>1 DEF IInv, Types, SessionState, Reader, ServerMsg, Timed, Output
  <2>3. \A x \in Session : Good(x)'
    BY <2>1, OtherSession DEF IInv
  <2>4. QED BY <2>2, <2>3 DEF IInv
<1>9. QED BY <1>1, <1>2, <1>3, <1>4, <1>5, <1>6, <1>7, <1>8 DEF Next

\* The inductive invariant of the bridges (handle_ws and its two tasks).
THEOREM Inductive == Spec => []IInv
<1>1. Init => IInv
  BY InitHolds
<1>2. IInv /\ [Next]_vars => IInv'
  BY NextHolds
<1>3. QED BY <1>1, <1>2, PTL DEF Spec

-----------------------------------------------------------------------------
(* The properties.                                                         *)

\* Every variable keeps its type: no session answers more requests than its
\* browser made, and no hold is negative, max(0.0, hold_ms) (ws_bridge.py:224).
THEOREM TypeCorrect == Spec => []TypeOK
<1>1. IInv => TypeOK
  <2> SUFFICES ASSUME IInv PROVE TypeOK
    OBVIOUS
  <2>1. Types
    BY DEF IInv
  <2>2. ASSUME NEW x \in Session
        PROVE  /\ s[x].frames \in 0 .. MaxFrames /\ s[x].asked \in 0 .. MaxFrames
               /\ r[x].i \in 0 .. MaxFrames /\ dropped[x] \subseteq DOMAIN sent[x]
    <3>1. Counted(x) /\ Relayed(x)
      BY DEF IInv, Good
    <3>2. left.frames[x] \in Nat /\ s[x].frames \in Nat /\ s[x].asked \in Nat
      BY <2>1 DEF Types, SessionState
    <3>3. r[x].i \in Nat /\ Len(sent[x]) \in Nat
      BY <2>1, SessionTypes
    <3>4. s[x].frames <= MaxFrames /\ s[x].asked <= MaxFrames
      <4> DEFINE a == left.frames[x]
                 b == s[x].frames
                 c == s[x].asked
                 d == IF w[x] = "send" THEN 1 ELSE 0
      <4>1. a \in Nat /\ b \in Nat /\ c \in Nat /\ d \in Nat
        BY <3>2
      <4>2. a + b + c + d <= MaxFrames
        BY <3>1 DEF Counted
      <4> HIDE DEF a, b, c, d
      <4>3. b <= MaxFrames /\ c <= MaxFrames
        BY <4>1, <4>2, BridgeConstants
      <4>4. QED BY <4>3 DEF b, c
    <3>5. r[x].i <= MaxFrames
      BY <3>1, <3>2, <3>3, <3>4, BridgeConstants DEF Counted
    <3>6. dropped[x] \subseteq DOMAIN sent[x]
      BY <3>1 DEF Relayed
    <3>7. QED BY <3>2, <3>3, <3>4, <3>5, <3>6, BridgeConstants
  <2>3. s \in [Session -> [pc : {"new", "resolve", "connect", "info", "run", "over"},
                          ip : Ips \cup {None}, ws : {"open", "closed"},
                          up : {"none", "open", "closed", "shut", "reset"}, frames : 0 .. MaxFrames,
                          asked : 0 .. MaxFrames, maxRtt : Nat]]
    <3>1. s \in [Session -> SessionState]
      BY <2>1 DEF Types
    <3>2. \A x \in Session : s[x] \in SessionState
      BY <3>1
    <3>3. QED BY <2>2, <3>1, <3>2 DEF SessionState
  <2>4. r \in [Session -> [pc : {"none", "recv", "netem", "hold", "done", "silent"},
                          i : 0 .. MaxFrames, until : Nat, hold : Nat]]
    <3>1. r \in [Session -> Reader]
      BY <2>1 DEF Types
    <3>2. \A x \in Session : r[x] \in Reader
      BY <3>1
    <3>3. QED BY <2>2, <3>1, <3>2 DEF Reader
  <2>5. QED BY <2>1, <2>2, <2>3, <2>4 DEF TypeOK, Types
<1>2. QED BY <1>1, Inductive, PTL

\* A bridge relays what the server sends, in order and once.  What a browser that
\* stays misses of a TCP server that closed the simulated network dropped, or a
\* reset or a line that was too long lost (_rudp_to_ws, _tcp_to_ws).
THEOREM RelayCorrect == Spec => []RelayFaithful
<1>1. IInv => RelayFaithful
  <2> SUFFICES ASSUME IInv, NEW x \in Session
               PROVE  /\ out[x] # <<>> => out[x][1].i = 0
                      /\ \A j, k \in DOMAIN out[x] : j < k => out[x][j].i < out[x][k].i
                      /\ \A i \in 1 .. r[x].i :
                           \/ i \in Shown(x) \cup dropped[x]
                           \/ i = r[x].i /\ (Sleeping(x) \/ s[x].ws = "closed")
                      /\ kind # "rudp" /\ r[x].pc = "done" /\ s[x].ws = "open" =>
                           \/ s[x].up = "closed" /\ Shown(x) \cup dropped[x] = DOMAIN sent[x]
                           \/ s[x].up = "reset" \/ TooLong(x)
    BY DEF RelayFaithful
  <2>1. Types /\ Counted(x) /\ Relayed(x) /\ Ended(x)
    BY DEF IInv, Good
  <2>2. /\ out[x] # <<>> => out[x][1].i = 0
        /\ \A j, k \in DOMAIN out[x] : j < k => out[x][j].i < out[x][k].i
        /\ \A i \in 1 .. r[x].i :
             \/ i \in Shown(x) \cup dropped[x]
             \/ i = r[x].i /\ (Sleeping(x) \/ s[x].ws = "closed")
    BY <2>1 DEF Relayed
  <2>3. ASSUME kind # "rudp", r[x].pc = "done", s[x].ws = "open",
               s[x].up # "reset", ~TooLong(x)
        PROVE  s[x].up = "closed" /\ Shown(x) \cup dropped[x] = DOMAIN sent[x]
    <3>0. s[x].up = "closed"
      BY <2>1, <2>3 DEF Ended
    <3>1. r[x].i = Len(sent[x]) /\ ~Sleeping(x)
      BY <2>1, <2>3 DEF Ended, Sleeping
    <3>2. DOMAIN sent[x] = 1 .. r[x].i
      BY <2>1, <3>1, SessionTypes
    <3>3. DOMAIN sent[x] \subseteq Shown(x) \cup dropped[x]
      BY <2>3, <3>1, <3>2, <2>2
    <3>4. \A k \in DOMAIN out[x] : out[x][k].i \in Nat /\ out[x][k].i <= r[x].i
      BY <2>1, <3>1, SessionTypes DEF Relayed
    <3>5. Shown(x) \subseteq 1 .. r[x].i
      BY <2>1, <3>4, SessionTypes DEF Shown
    <3>6. dropped[x] \subseteq DOMAIN sent[x]
      BY <2>1 DEF Relayed
    <3>7. QED BY <3>0, <3>2, <3>3, <3>5, <3>6
  <2>4. QED BY <2>2, <2>3
<1>2. QED BY <1>1, Inductive, PTL

\* Synchronised delivery (ws_bridge.py:204-244): an exam that is held is shown at
\* its target, and one that is not has passed it.
THEOREM HoldCorrect == Spec => []HeldToTarget
<1>1. IInv => HeldToTarget
  <2> SUFFICES ASSUME IInv, NEW x \in Session, NEW k \in 2 .. Len(out[x]),
                      Sync, sent[x][out[x][k].i].type = "exam",
                      \/ \E j \in 2 .. k - 1 : sent[x][out[x][j].i].type = "sched"
                      \/ kind = "tcp_sync"
               PROVE  IF out[x][k].hold > 0
                        THEN out[x][k].at = Target(sent[x][out[x][k].i])
                        ELSE out[x][k].at >= Target(sent[x][out[x][k].i])
    BY DEF HeldToTarget
  <2>1. Held(x)
    BY DEF IInv, Good
  <2>2. Told(x, k - 1) \/ kind = "tcp_sync"
    BY DEF Told
  <2>3. QED BY <2>1, <2>2 DEF Held
<1>2. QED BY <1>1, Inductive, PTL

-----------------------------------------------------------------------------
(* The stagger and the hold add up.                                        *)

\* An exam leaves when the coordinator planned it.
OnTime ==
  \A x \in Session : \A i \in DOMAIN sent[x] :
    Sync /\ sent[x][i].type = "exam" => sent[x][i].at = TArr - Delay[x]

LEMMA SendsOnTime ==
  ASSUME IInv, OnTime, NEW x \in Session, ServerSends(x)
  PROVE  OnTime'
<1>1. PICK type \in {"plain", "sched", "exam"}, long \in BOOLEAN :
        /\ type = "exam" /\ Sync => now = TArr - Delay[x]
        /\ sent' = [sent EXCEPT ![x] = Append(@, Message(type, long))]
  BY DEF ServerSends
<1>2. kind' = kind /\ Sync' = Sync
  BY DEF ServerSends, Sync
<1> DEFINE m == Message(type, long)
<1>3. Sync /\ m.type = "exam" => m.at = TArr - Delay[x]
  BY <1>1 DEF Message
<1>4. sent' = [sent EXCEPT ![x] = Append(@, m)]
  BY <1>1
<1> HIDE DEF m
<1>5. ASSUME NEW y \in Session, NEW i \in DOMAIN sent'[y],
             Sync, sent'[y][i].type = "exam"
      PROVE  sent'[y][i].at = TArr - Delay[y]
  <2>1. sent \in [Session -> Seq(ServerMsg)]
    BY DEF IInv, Types
  <2>2. CASE y # x
    BY <1>4, <1>5, <2>1, <2>2 DEF OnTime
  <2>3. CASE y = x
    <3>1. sent'[x] = Append(sent[x], m) /\ sent[x] \in Seq(ServerMsg)
      BY <1>4, <2>1
    <3>2. \/ i \in DOMAIN sent[x] /\ sent'[x][i] = sent[x][i]
          \/ sent'[x][i] = m
      BY <1>5, <2>3, <3>1
    <3>3. QED BY <1>3, <1>5, <2>3, <3>2 DEF OnTime
  <2>4. QED BY <2>2, <2>3
<1>6. QED BY <1>2, <1>5 DEF OnTime

LEMMA NextOnTime ==
  ASSUME IInv, OnTime, [Next]_vars
  PROVE  OnTime'
<1>1. ASSUME NEW x \in Session, ServerSends(x) PROVE OnTime'
  BY <1>1, SendsOnTime
<1>2. CASE UNCHANGED <<kind, sent>>
  BY <1>2 DEF OnTime, Sync
<1>3. ASSUME NEW x \in Session, Bridge(x) PROVE UNCHANGED <<kind, sent>>
  BY <1>3 DEF Bridge, ResolveStart, ResolveEnd, Connected, ConnectFails, Inform, Close,
     TakeFrame, FrameSent, FrameFails, FramesEnd, EndOfInput, Broken, Overrun, Silence, Receive, Drop,
     Hold, Forward
<1>4. ASSUME NEW x \in Session,
             ServerCloses(x) \/ Reset(x) \/ BrowserSends(x) \/ BrowserLeaves(x)
      PROVE  UNCHANGED <<kind, sent>>
  BY <1>4 DEF ServerCloses, Reset, BrowserSends, BrowserLeaves
<1>5. CASE SetNetem \/ Tick \/ UNCHANGED vars
  BY <1>2, <1>5 DEF SetNetem, Tick, vars
<1>6. QED BY <1>1, <1>2, <1>3, <1>4, <1>5 DEF Next

\* What HeldToTarget says of one exam, with the time at which it left.
LEMMA ShownOnTime ==
  ASSUME IInv, OnTime, Sync, NEW x \in Session, NEW k \in 2 .. Len(out[x]), HeldExam(x, k)
  PROVE  out[x][k].at + Delay[x] = TArr + MaxRtt \div 2 + Buffer
<1> DEFINE m == sent[x][out[x][k].i]
           h == MaxRtt \div 2
<1>1. Types /\ Counted(x) /\ Relayed(x) /\ Held(x)
  BY DEF IInv, Good
<1>2. /\ sent[x] \in Seq(ServerMsg) /\ DOMAIN sent[x] = 1 .. Len(sent[x])
      /\ out[x][k].i \in 1 .. Len(sent[x])
  BY <1>1, OutFacts, SessionTypes
<1>3. m.type = "exam" /\ m \in ServerMsg
  BY <1>2 DEF HeldExam
<1>4. m.at = TArr - Delay[x]
  BY <1>2, <1>3 DEF OnTime
<1>5. m.max = MaxRtt
  <2>1. \A v \in [type : {"plain"}, long : BOOLEAN] : v.type = "plain"
    OBVIOUS
  <2>2. m \in Timed
    BY <1>3, <2>1 DEF ServerMsg
  <2>3. QED BY <2>2 DEF Timed
<1>6. out[x][k].at = Target(m)
  <2>1. Told(x, k - 1) \/ kind = "tcp_sync"
    BY DEF HeldExam, Told
  <2>2. QED BY <1>1, <1>3, <2>1 DEF Held, HeldExam
<1>7. out[x][k].at = TArr - Delay[x] + h + Buffer
  BY <1>4, <1>5, <1>6 DEF Target
<1>8. TArr \in Nat /\ Delay[x] \in Nat /\ Buffer \in Nat /\ h \in Nat
  BY BridgeConstants, HalfNat
<1> HIDE DEF m, h
<1>9. out[x][k].at + Delay[x] = TArr + h + Buffer
  BY <1>7, <1>8
<1>10. QED BY <1>9 DEF h

\* The coordinator staggers by the clients' delays and the bridge holds for the
\* longest of them: the sum of both is when the exam is shown (ws_bridge.py:220,
\* ws_bridge_tcp.py:164).
THEOREM StaggerCorrect == Spec => []StaggerShows
<1>1. Init => OnTime
  BY DEF Init, OnTime
<1>2. IInv /\ OnTime /\ [Next]_vars => OnTime'
  BY NextOnTime
<1>3. IInv /\ OnTime => StaggerShows
  BY ShownOnTime DEF StaggerShows
<1>4. QED BY <1>1, <1>2, <1>3, Inductive, PTL DEF Spec
=============================================================================
