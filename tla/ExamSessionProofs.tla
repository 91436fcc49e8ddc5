-------------------------- MODULE ExamSessionProofs --------------------------
(***************************************************************************)
(* Proofs about ExamSession for every number of clients and of server      *)
(* processes of either kind, and every sequence of resets and crashes.     *)
(***************************************************************************)
EXTENDS ExamSession, SequenceTheorems, TLAPS

-----------------------------------------------------------------------------
(* The inductive invariant: types.                                         *)

\* What client c submits.
Submitted(c) == IF c \in Browsers THEN "blank" ELSE "full"

\* A message of client c: it answers what it saves and submits, and only
\* autosaves come unasked.
MessagesOf(c) ==
  {m \in Messages : /\ m.type = "save" => m.answers # None
                    /\ m.type = "submit" => m.answers = Submitted(c)
                    /\ m.auto => m.type = "save"}

\* The plans of handlers and what is left of them.
Plans == {<<>>, <<"update", "send">>, <<"start", "send">>,
          <<"wait", "send", "update">>, <<"send", "update">>,
          <<"send">>, <<"update">>}

\* A plan with a reply still to come.
Owing == {<<"update", "send">>, <<"start", "send">>,
          <<"wait", "send", "update">>, <<"send", "update">>, <<"send">>}

Handler == [at : Server, msg : Messages \cup {None}, plan : Plans,
            end : {"no", "eof", "timeout", "crash"}]

ClientState == [at : Nat, st : {"ready", "waiting", "done", "gone"}]

\* What a file of answers may hold.
Texts == Answers \cup {Torn}

FileTypes ==
  /\ startFile \in Nat \cup {None, Torn}
  /\ clients \in Table \cup {None, Torn}
  /\ draft \in [Client -> Texts] /\ final \in [Client -> Texts]

ServerTypes ==
  /\ startCache \in [Server -> Nat \cup {None}]
  /\ proc \in [Server -> Work \cup {None}]

HandlerTypes ==
  /\ hnd \in [Client -> Handler]
  /\ \A c \in Client : hnd[c].msg \in MessagesOf(c) \cup {None}
  /\ \A c \in Client : hnd[c].plan # <<>> => hnd[c].msg # None

ClientTypes ==
  /\ inbox \in [Client -> Seq(Messages)]
  /\ \A c \in Client : \A i \in DOMAIN inbox[c] : inbox[c][i] \in MessagesOf(c)
  /\ eof \in [Client -> BOOLEAN]
  /\ cl \in [Client -> ClientState]
  /\ \A c \in Client : cl[c].at \in 1 .. Len(Script(c)) + 1

OtherTypes ==
  /\ adm \in {"idle", "start", "answers"}
  /\ made \in Nat /\ rec \in Table
  /\ raced \in BOOLEAN /\ disturbed \in BOOLEAN /\ wiped \in BOOLEAN

Types ==
  FileTypes /\ ServerTypes /\ HandlerTypes /\ ClientTypes /\ OtherTypes

-----------------------------------------------------------------------------
(* The inductive invariant: what relates processes, handlers and clients.  *)

\* A process at work holds up the handler it works for, at that very step.
Busy ==
  \A s \in Server : proc[s] # None =>
    LET c == proc[s].c IN
      /\ hnd[c].at = s /\ hnd[c].plan # <<>>
      /\ Head(hnd[c].plan) = IF Updating(s) THEN "update" ELSE "start"

\* A client whose connection ended sends nothing any more.
Ends ==
  \A c \in Client :
    /\ eof[c] => cl[c].st \in {"done", "gone"}
    /\ hnd[c].end = "eof" =>
         eof[c] /\ (hnd[c].at \notin RudpServers => inbox[c] = <<>>)
    /\ hnd[c].end # "no" => hnd[c].plan = <<>>

\* The handler has a request in hand that it has not answered.
Owes(c) == hnd[c].plan \in Owing /\ ~hnd[c].msg.auto

\* A client has one request under way, or none.
Request(c) ==
  /\ cl[c].st \in {"ready", "waiting"} => cl[c].at <= Len(Script(c))
  /\ cl[c].st = "ready" =>
       ~Owes(c) /\ \A i \in DOMAIN inbox[c] : inbox[c][i].auto
  /\ cl[c].st = "waiting" =>
       \/ /\ Owes(c) /\ hnd[c].msg = Script(c)[cl[c].at]
          /\ \A i \in DOMAIN inbox[c] : inbox[c][i].auto
       \/ /\ ~Owes(c)
          /\ \E i \in DOMAIN inbox[c] :
               /\ inbox[c][i] = Script(c)[cl[c].at]
               /\ \A j \in DOMAIN inbox[c] \ {i} : inbox[c][j].auto

Requests == \A c \in Client : Request(c)

\* What says that a client submitted is younger than its final file.
Says(table, c) == table[c] # None /\ table[c].submitted

Kept ==
  /\ adm # "idle" => wiped
  /\ ~wiped => \A c \in Client \ unsaved :
       /\ final[c] \in {None, Submitted(c)}
       /\ cl[c].st = "done" => final[c] # None
       /\ hnd[c].msg # None /\ hnd[c].msg.type = "submit" => final[c] # None
       /\ clients \in Table /\ Says(clients, c) => final[c] # None
       /\ \A s \in Server : Updating(s) /\ Says(proc[s].data, c) => final[c] # None

\* One update at a time changes the entry of its own client only.
Exact ==
  ~disturbed /\ ~wiped =>
    /\ \A s, t \in Server : Updating(s) /\ Updating(t) => s = t
    /\ \A s \in Server : Updating(s) =>
         /\ proc[s].data = [rec EXCEPT ![proc[s].c] = Merged(@, hnd[proc[s].c].msg)]
         /\ proc[s].fate = "clean"
    /\ \/ \E s \in Server : proc[s] # None /\ proc[s].op = "write"
       \/ clients = rec
       \/ clients = None /\ rec = NoEntries

\* A start is in the file, or one process is about to write it there.
OneStart ==
  ~raced /\ ~wiped =>
    /\ \A s \in Server : startCache[s] # None =>
         Creating(s) \/ startFile = startCache[s]
    /\ \A s \in Server : Creating(s) =>
         /\ startFile \in {None, Torn} /\ startCache[s] # None
         /\ proc[s].fate # "unlinked"
         /\ \A t \in Server : Creating(t) => t = s

IInv ==
  /\ Types
  /\ Busy
  /\ Ends
  /\ Requests
  /\ Kept
  /\ Exact
  /\ OneStart

-----------------------------------------------------------------------------
(* Lemmas about messages, plans and entries.                               *)

LEMMA EntryFacts ==
  /\ NewEntry \in Entry /\ ~NewEntry.submitted
  /\ NoEntries \in Table
  /\ None \notin Entry
  /\ \A t \in Table : t # None /\ t # Torn
BY NothingElse DEF NewEntry, Entry, NoEntries, Table

\* A merge makes an entry, and only a submission makes it submitted.
LEMMA MergedFacts ==
  ASSUME NEW e \in Entry \cup {None}, NEW m \in Messages
  PROVE  /\ Merged(e, m) \in Entry
         /\ Merged(e, m).submitted => m.type = "submit" \/ (e # None /\ e.submitted)
<1> DEFINE old == IF e = None THEN NewEntry ELSE e
           n == CountAnswered(m.answers)
<1>1. old \in Entry /\ (old.submitted => e # None /\ e.submitted)
  BY EntryFacts
<1>2. n \in {0, 1}
  BY DEF CountAnswered
<1>3. m.type \in {"hello", "schedule", "exam", "begin", "save", "submit"}
  BY DEF Messages
<1>4. Merged(e, m) = CASE m.type = "hello"  -> NewEntry
                       [] m.type = "save"   -> [old EXCEPT !.count = n]
                       [] m.type = "submit" -> [submitted |-> TRUE, count |-> n]
                       [] OTHER -> old
  BY DEF Merged
<1> HIDE DEF old, n
<1>5. CASE m.type = "hello"
  BY <1>4, <1>5, EntryFacts
<1>6. CASE m.type = "save"
  <2>1. Merged(e, m) = [old EXCEPT !.count = n]
    BY <1>4, <1>6
  <2>2. QED BY <1>1, <1>2, <2>1 DEF Entry
<1>7. CASE m.type = "submit"
  <2>1. Merged(e, m) = [submitted |-> TRUE, count |-> n]
    BY <1>4, <1>7
  <2>2. QED BY <1>2, <1>7, <2>1 DEF Entry
<1>8. CASE m.type \notin {"hello", "save", "submit"}
  <2>1. Merged(e, m) = old
    BY <1>4, <1>8
  <2>2. QED BY <1>1, <2>1
<1>9. QED BY <1>5, <1>6, <1>7, <1>8

\* What is left of a plan is a plan; a reply is owed until it is sent.
LEMMA PlanFacts ==
  /\ <<>> \in Plans /\ <<>> \notin Owing
  /\ \A p \in Plans : p # <<>> =>
       /\ Tail(p) \in Plans
       /\ Len(p) = 1 => Tail(p) = <<>>
       /\ Head(p) = "send" => p \in Owing /\ Tail(p) \notin Owing
       /\ Head(p) # "send" => (Tail(p) \in Owing <=> p \in Owing)
BY DEF Plans, Owing

LEMMA PlanOf ==
  ASSUME NEW s, NEW m \in Messages
  PROVE  Plan(s, m) \in Plans /\ Plan(s, m) \in Owing /\ Plan(s, m) # <<>>
<1>1. m.type \in {"hello", "schedule", "exam", "begin", "save", "submit"}
  BY DEF Messages
<1>2. RudpPlan(m) \in {<<"update", "send">>, <<"start", "send">>,
                       <<"wait", "send", "update">>, <<"send", "update">>}
  BY <1>1 DEF RudpPlan
<1>3. Plan(s, m) \in {<<"update", "send">>, <<"start", "send">>,
                      <<"wait", "send", "update">>, <<"send", "update">>}
  BY <1>2 DEF Plan, TcpPlan
<1>4. QED BY <1>3 DEF Plans, Owing

\* A script is made of requests of its client and ends with the submission.
LEMMA ScriptFacts ==
  ASSUME NEW c \in Client
  PROVE  /\ Script(c) \in Seq(MessagesOf(c))
         /\ Len(Script(c)) \in Nat /\ Len(Script(c)) >= 1
         /\ \A i \in 1 .. Len(Script(c)) :
              Script(c)[i] \in MessagesOf(c) /\ ~Script(c)[i].auto
         /\ Script(c)[Len(Script(c))].type = "submit"
         /\ Script(c)[Len(Script(c))].answers = Submitted(c)
<1> DEFINE M == {m \in MessagesOf(c) : ~m.auto}
           last == Msg("submit", Submitted(c))
<1>1. /\ last \in M
      /\ last.type = "submit" /\ last.answers = Submitted(c)
      /\ Msg("hello", None) \in M /\ Msg("schedule", None) \in M
      /\ Msg("exam", None) \in M /\ Msg("begin", None) \in M /\ Msg("save", "full") \in M
  BY NothingElse DEF Msg, MessagesOf, Messages, Answers, Submitted
<1>2. ASSUME NEW t, NEW a, Msg(t, a) \in M
      PROVE  Message(c, t, a) \in Seq(M)
  <2> DEFINE m == Msg(t, a)
  <2>1. m \in M
    BY <1>2
  <2>2. Message(c, t, a) = <<>> \/ Message(c, t, a) = <<m>>
    BY DEF Message
  <2> HIDE DEF M, m
  <2>3. <<>> \in Seq(M) /\ <<m>> \in Seq(M)
    BY <2>1
  <2>4. QED BY <2>2, <2>3
<1>3. PICK p \in Seq(M) : Script(c) = p \o <<last>>
  <2> DEFINE h == Message(c, "hello", None)
             d == Message(c, "schedule", None)
             x == Message(c, "exam", None)
             b == Message(c, "begin", None)
             v == Message(c, "save", "full")
  <2>1. h \in Seq(M) /\ d \in Seq(M) /\ x \in Seq(M) /\ b \in Seq(M) /\ v \in Seq(M)
    BY <1>1, <1>2
  <2>2. CASE c \in Browsers
    <3>1. Script(c) = h \o d \o x \o b \o v \o <<last>>
      BY <2>2 DEF Script, BrowserScript, Submitted
    <3> HIDE DEF h, d, x, b, v, M, last
    <3>2. h \o d \o x \o b \o v \in Seq(M)
      BY <2>1, ConcatProperties
    <3>3. QED BY <3>1, <3>2
  <2>3. CASE c \notin Browsers
    <3>1. Script(c) = h \o d \o x \o v \o <<last>>
      BY <2>3 DEF Script, SimScript, Submitted
    <3> HIDE DEF h, d, x, b, v, M, last
    <3>2. h \o d \o x \o v \in Seq(M)
      BY <2>1, ConcatProperties
    <3>3. QED BY <3>1, <3>2
  <2>4. QED BY <2>2, <2>3
<1>4. M \subseteq MessagesOf(c) /\ \A m \in M : ~m.auto
  OBVIOUS
<1> HIDE DEF M, last
<1>5. /\ Script(c) \in Seq(M)
      /\ Len(Script(c)) = Len(p) + 1 /\ Len(p) \in Nat
      /\ Script(c)[Len(p) + 1] = last
  BY <1>1, <1>3
<1>6. \A i \in 1 .. Len(Script(c)) : Script(c)[i] \in M
  BY <1>5, ElementOfSeq
<1>7. Script(c) \in Seq(MessagesOf(c))
  BY <1>4, <1>5, SeqMonotonic
<1>8. QED BY <1>1, <1>4, <1>5, <1>6, <1>7

\* The handler after the first step of its plan.
LEMMA NextStepFacts ==
  ASSUME NEW c \in Client, HandlerTypes, hnd[c].plan # <<>>
  PROVE  /\ NextStep(c) \in Handler
         /\ NextStep(c).at = hnd[c].at /\ NextStep(c).msg = hnd[c].msg
         /\ NextStep(c).plan = Tail(hnd[c].plan)
         /\ \/ NextStep(c).end = hnd[c].end
            \/ NextStep(c).end = "eof" /\ NextStep(c).plan = <<>> /\ ~GoesOn(c)
<1>1. hnd[c] \in Handler
  BY DEF HandlerTypes
<1>2. /\ Tail(hnd[c].plan) \in Plans /\ <<>> \in Plans
      /\ Len(hnd[c].plan) = 1 => Tail(hnd[c].plan) = <<>>
  BY <1>1, PlanFacts DEF Handler
<1>3. CASE Len(hnd[c].plan) = 1 /\ ~GoesOn(c)
  <2>1. NextStep(c) = [hnd[c] EXCEPT !.plan = <<>>, !.end = "eof"]
    BY <1>3 DEF NextStep, Ended
  <2>2. QED BY <1>1, <1>2, <1>3, <2>1 DEF Handler
<1>4. CASE ~(Len(hnd[c].plan) = 1 /\ ~GoesOn(c))
  <2> DEFINE t == Tail(hnd[c].plan)
  <2>1. NextStep(c) = [hnd[c] EXCEPT !.plan = t]
    BY <1>4 DEF NextStep
  <2>2. t \in Plans
    BY <1>2
  <2> HIDE DEF t
  <2>3. /\ NextStep(c) \in Handler
        /\ NextStep(c).at = hnd[c].at /\ NextStep(c).msg = hnd[c].msg
        /\ NextStep(c).plan = t /\ NextStep(c).end = hnd[c].end
    BY <1>1, <2>1, <2>2 DEF Handler
  <2>4. QED BY <2>3 DEF t
<1>5. QED BY <1>3, <1>4

-----------------------------------------------------------------------------
(* What a step leaves alone.                                               *)

\* The step of a handler whose process is not at work, on that handler only.
LEMMA BusyKept ==
  ASSUME Busy, NEW c \in Client, hnd \in [Client -> Handler], proc' = proc,
         proc[hnd[c].at] = None, NEW h \in Handler, hnd' = [hnd EXCEPT ![c] = h]
  PROVE  Busy'
<1> SUFFICES ASSUME NEW s \in Server, proc[s] # None
             PROVE  LET d == proc[s].c IN
                      /\ hnd'[d].at = s /\ hnd'[d].plan # <<>>
                      /\ Head(hnd'[d].plan) = IF Updating(s)' THEN "update" ELSE "start"
  BY DEF Busy
<1>1. /\ hnd[proc[s].c].at = s /\ hnd[proc[s].c].plan # <<>>
      /\ Head(hnd[proc[s].c].plan) = IF Updating(s) THEN "update" ELSE "start"
  BY DEF Busy
<1>2. proc[s].c # c
  BY <1>1
<1>3. hnd'[proc[s].c] = hnd[proc[s].c]
  BY <1>2
<1>4. Updating(s)' = Updating(s)
  BY DEF Updating
<1>5. QED BY <1>1, <1>3, <1>4

LEMMA BusySame ==
  ASSUME Busy, proc' = proc, hnd' = hnd
  PROVE  Busy'
BY DEF Busy, Updating

\* Replies are owed as before, to the same requests.
LEMMA RequestsKept ==
  ASSUME Requests, UNCHANGED <<inbox, cl>>,
         \A c \in Client : Owes(c)' = Owes(c) /\ hnd'[c].msg = hnd[c].msg
  PROVE  Requests'
BY DEF Requests, Request

LEMMA RequestSame ==
  ASSUME NEW c \in Client, Request(c), inbox'[c] = inbox[c], cl'[c] = cl[c],
         Owes(c)' = Owes(c), hnd'[c].msg = hnd[c].msg
  PROVE  Request(c)'
BY DEF Request

LEMMA EndsKept ==
  ASSUME Ends, UNCHANGED <<inbox, eof>>,
         \A c \in Client :
           /\ cl[c].st \in {"done", "gone"} => cl'[c].st \in {"done", "gone"}
           /\ hnd'[c].at = hnd[c].at
           /\ hnd'[c].end # "no" => hnd'[c].plan = <<>>
           /\ hnd'[c].end = "eof" /\ hnd[c].end # "eof" => ~GoesOn(c)
  PROVE  Ends'
<1> SUFFICES ASSUME NEW c \in Client
             PROVE  /\ eof'[c] => cl'[c].st \in {"done", "gone"}
                    /\ hnd'[c].end = "eof" =>
                         eof'[c] /\ (hnd'[c].at \notin RudpServers => inbox'[c] = <<>>)
                    /\ hnd'[c].end # "no" => hnd'[c].plan = <<>>
  BY DEF Ends
<1>1. CASE hnd'[c].end = "eof" /\ hnd[c].end # "eof"
  BY <1>1 DEF Ends, GoesOn, RudpGoesOn, TcpGoesOn
<1>2. CASE ~(hnd'[c].end = "eof" /\ hnd[c].end # "eof")
  BY <1>2 DEF Ends
<1>3. QED BY <1>1, <1>2

\* Nothing new says that anybody submitted.
LEMMA KeptKept ==
  ASSUME Kept, UNCHANGED <<adm, wiped, final, clients, unsaved>>,
         \A c \in Client : /\ cl'[c].st = "done" => cl[c].st = "done"
                           /\ hnd'[c].msg = hnd[c].msg,
         \A s \in Server : Updating(s)' => Updating(s) /\ proc'[s].data = proc[s].data
  PROVE  Kept'
BY DEF Kept, Says

LEMMA ExactKept ==
  ASSUME Exact, UNCHANGED <<disturbed, wiped, clients, rec>>,
         \A s \in Server :
           /\ Updating(s)' = Updating(s)
           /\ Updating(s) => /\ proc'[s].op = proc[s].op /\ proc'[s].data = proc[s].data
                             /\ proc'[s].c = proc[s].c /\ proc'[s].fate = proc[s].fate
                             /\ hnd'[proc[s].c].msg = hnd[proc[s].c].msg
  PROVE  Exact'
<1> SUFFICES ASSUME ~disturbed, ~wiped
             PROVE  /\ \A s, t \in Server : Updating(s)' /\ Updating(t)' => s = t
                    /\ \A s \in Server : Updating(s)' =>
                         /\ proc'[s].data = [rec EXCEPT ![proc'[s].c] =
                                               Merged(@, hnd'[proc'[s].c].msg)]
                         /\ proc'[s].fate = "clean"
                    /\ \/ \E s \in Server : proc'[s] # None /\ proc'[s].op = "write"
                       \/ clients = rec
                       \/ clients = None /\ rec = NoEntries
  BY DEF Exact
<1>1. \A s, t \in Server : Updating(s)' /\ Updating(t)' => s = t
  BY DEF Exact
<1>2. ASSUME NEW s \in Server, Updating(s)'
      PROVE  /\ proc'[s].data = [rec EXCEPT ![proc'[s].c] =
                                  Merged(@, hnd'[proc'[s].c].msg)]
             /\ proc'[s].fate = "clean"
  BY <1>2 DEF Exact
<1>3. ASSUME NEW s \in Server, proc[s] # None, proc[s].op = "write"
      PROVE  proc'[s] # None /\ proc'[s].op = "write"
  BY <1>3 DEF Updating
<1>4. QED BY <1>1, <1>2, <1>3 DEF Exact

LEMMA OneStartKept ==
  ASSUME OneStart, UNCHANGED <<raced, wiped, startFile, startCache>>,
         \A s \in Server : /\ Creating(s)' = Creating(s)
                           /\ Creating(s) => proc'[s].fate = proc[s].fate
  PROVE  OneStart'
BY DEF OneStart

\* A step that leaves the processes and what they work on alone, and no handler
\* another message.
LEMMA WorkKept ==
  ASSUME Kept, Exact, OneStart,
         UNCHANGED <<startFile, clients, final, startCache, proc, adm, rec, raced,
                     disturbed, wiped, unsaved>>,
         \A c \in Client : /\ cl'[c].st = "done" => cl[c].st = "done"
                           /\ hnd'[c].msg = hnd[c].msg,
         \A s \in Server : proc[s] # None => proc[s].c \in Client
  PROVE  Kept' /\ Exact' /\ OneStart'
<1>1. \A s \in Server : Updating(s)' = Updating(s) /\ Creating(s)' = Creating(s)
  BY DEF Updating, Creating
<1>2. Kept'
  BY <1>1, KeptKept
<1>3. \A s \in Server : Updating(s) => hnd'[proc[s].c].msg = hnd[proc[s].c].msg
  BY DEF Updating
<1>4. Exact'
  BY <1>1, <1>3, ExactKept
<1>5. OneStart'
  BY <1>1, OneStartKept
<1>6. QED BY <1>2, <1>4, <1>5

\* Whom processes work for.
LEMMA WorkFacts ==
  ASSUME ServerTypes, NEW s \in Server, proc[s] # None
  PROVE  /\ proc[s].c \in Client /\ proc[s].fate \in Fate
         /\ Updating(s) => proc[s].data \in Table /\ proc[s].op \in {"open", "write"}
         /\ Updating(s) \/ Creating(s)
         /\ ~(Updating(s) /\ Creating(s))
<1>1. proc[s] \in Work
  BY DEF ServerTypes
<1>2. CASE proc[s] \in [op : {"open", "write"}, c : Client, fate : Fate, data : Table]
  BY <1>2 DEF Updating, Creating
<1>3. CASE proc[s] \in [op : {"startopen", "startwrite"}, c : Client, fate : Fate]
  BY <1>3 DEF Updating, Creating
<1>4. QED BY <1>1, <1>2, <1>3 DEF Work

-----------------------------------------------------------------------------
(* The steps of clients.                                                   *)

LEMMA SendStep ==
  ASSUME IInv, NEW c \in Client, Send(c)
  PROVE  IInv'
<1> DEFINE m == Script(c)[cl[c].at]
<1>1. /\ Types /\ Busy /\ Ends /\ Requests /\ Kept /\ Exact /\ OneStart
      /\ FileTypes /\ ServerTypes /\ HandlerTypes /\ ClientTypes /\ OtherTypes
  BY DEF IInv, Types
<1>2. /\ cl[c].st = "ready"
      /\ inbox' = [inbox EXCEPT ![c] = Append(@, m)]
      /\ cl' = [cl EXCEPT ![c].st = "waiting"]
      /\ UNCHANGED <<startFile, clients, draft, final, startCache, proc, hnd, eof, adm,
                     made, rec, raced, disturbed, wiped, unsaved>>
  BY DEF Send, files, history
<1>3. /\ cl[c].at \in 1 .. Len(Script(c))
      /\ m \in MessagesOf(c) /\ m \in Messages /\ ~m.auto
  <2>1. cl[c].at \in 1 .. Len(Script(c)) + 1 /\ cl[c].at <= Len(Script(c))
    BY <1>1, <1>2 DEF ClientTypes, Requests, Request
  <2>2. cl[c].at \in 1 .. Len(Script(c))
    BY <2>1, ScriptFacts
  <2>3. QED BY <2>2, ScriptFacts DEF MessagesOf
<1>4. m = Script(c)[cl[c].at]
  OBVIOUS
<1> HIDE DEF m
<1>5. inbox \in [Client -> Seq(Messages)] /\ cl \in [Client -> ClientState]
  BY <1>1 DEF ClientTypes
<1>6. PICK n \in Nat : n = Len(inbox[c])
  BY <1>5, LenProperties
<1>7. /\ inbox' \in [Client -> Seq(Messages)]
      /\ inbox'[c] = Append(inbox[c], m)
      /\ \A d \in Client \ {c} : inbox'[d] = inbox[d]
  BY <1>2, <1>3, <1>5, AppendProperties
<1>8. /\ DOMAIN inbox[c] = 1 .. n /\ DOMAIN inbox'[c] = 1 .. (n + 1)
      /\ inbox'[c][n + 1] = m
      /\ \A i \in 1 .. n : inbox'[c][i] = inbox[c][i]
  BY <1>3, <1>5, <1>6, <1>7, AppendProperties, LenProperties
<1>9. /\ cl' \in [Client -> ClientState]
      /\ cl'[c].st = "waiting" /\ cl'[c].at = cl[c].at
      /\ \A d \in Client \ {c} : cl'[d] = cl[d]
  BY <1>2, <1>5 DEF ClientState
<1>10. ClientTypes'
  <2>1. \A d \in Client : \A i \in DOMAIN inbox'[d] : inbox'[d][i] \in MessagesOf(d)
    <3>1. \A i \in DOMAIN inbox'[c] : inbox'[c][i] \in MessagesOf(c)
      BY <1>1, <1>3, <1>8 DEF ClientTypes
    <3>2. QED BY <1>1, <1>7, <3>1 DEF ClientTypes
  <2>2. \A d \in Client : cl'[d].at \in 1 .. Len(Script(d)) + 1
    BY <1>1, <1>9 DEF ClientTypes
  <2>3. QED BY <1>1, <1>2, <1>7, <1>9, <2>1, <2>2 DEF ClientTypes
<1>11. Types'
  BY <1>1, <1>2, <1>10 DEF Types, FileTypes, ServerTypes, HandlerTypes, OtherTypes
<1>12. Busy'
  BY <1>1, <1>2, BusySame
<1>13. Ends'
  BY <1>1, <1>2, <1>7, <1>9 DEF Ends
<1>14. Requests'
  <2>1. \A d \in Client : Owes(d)' = Owes(d) /\ hnd'[d] = hnd[d]
    BY <1>2 DEF Owes
  <2>2. ~Owes(c) /\ \A i \in 1 .. n : inbox[c][i].auto
    BY <1>1, <1>2, <1>8 DEF Requests, Request
  <2>3. /\ n + 1 \in DOMAIN inbox'[c] /\ inbox'[c][n + 1] = Script(c)[cl'[c].at]
        /\ \A j \in DOMAIN inbox'[c] \ {n + 1} : inbox'[c][j].auto
    BY <1>4, <1>8, <1>9, <2>2
  <2>4. cl'[c].at <= Len(Script(c))
    BY <1>1, <1>2, <1>9 DEF Requests, Request
  <2>5. Request(c)'
    BY <1>2, <1>9, <2>1, <2>2, <2>3, <2>4 DEF Request
  <2>6. \A d \in Client \ {c} : Request(d)'
    BY <1>1, <1>7, <1>9, <2>1, RequestSame DEF Requests
  <2>7. QED BY <2>5, <2>6 DEF Requests
<1>15. Kept' /\ Exact' /\ OneStart'
  BY <1>1, <1>2, <1>9, WorkKept, WorkFacts
<1>16. QED BY <1>11, <1>12, <1>13, <1>14, <1>15 DEF IInv

LEMMA AutosaveStep ==
  ASSUME IInv, NEW c \in Client, Autosave(c)
  PROVE  IInv'
<1> DEFINE m == [Msg("save", "full") EXCEPT !.auto = TRUE]
<1>1. /\ Types /\ Busy /\ Ends /\ Requests /\ Kept /\ Exact /\ OneStart
      /\ FileTypes /\ ServerTypes /\ HandlerTypes /\ ClientTypes /\ OtherTypes
  BY DEF IInv, Types
<1>2. /\ cl[c].st \in {"ready", "waiting"}
      /\ inbox' = [inbox EXCEPT ![c] = Append(@, m)]
      /\ UNCHANGED <<startFile, clients, draft, final, startCache, proc, hnd, eof, cl, adm,
                     made, rec, raced, disturbed, wiped, unsaved>>
  BY DEF Autosave, files, history
<1>3. m \in MessagesOf(c) /\ m \in Messages /\ m.auto
  BY NothingElse DEF Msg, MessagesOf, Messages, Answers
<1> HIDE DEF m
<1>4. inbox \in [Client -> Seq(Messages)]
  BY <1>1 DEF ClientTypes
<1>5. PICK n \in Nat : n = Len(inbox[c])
  BY <1>4, LenProperties
<1>6. /\ inbox' \in [Client -> Seq(Messages)]
      /\ inbox'[c] = Append(inbox[c], m)
      /\ \A d \in Client \ {c} : inbox'[d] = inbox[d]
  BY <1>2, <1>3, <1>4, AppendProperties
<1>7. /\ DOMAIN inbox[c] = 1 .. n /\ DOMAIN inbox'[c] = 1 .. (n + 1)
      /\ inbox'[c][n + 1] = m
      /\ \A i \in 1 .. n : inbox'[c][i] = inbox[c][i]
  BY <1>3, <1>4, <1>5, <1>6, AppendProperties, LenProperties
<1>8. ClientTypes'
  <2>1. \A i \in DOMAIN inbox'[c] : inbox'[c][i] \in MessagesOf(c)
    BY <1>1, <1>3, <1>7 DEF ClientTypes
  <2>2. QED BY <1>1, <1>2, <1>6, <2>1 DEF ClientTypes
<1>9. Types'
  BY <1>1, <1>2, <1>8 DEF Types, FileTypes, ServerTypes, HandlerTypes, OtherTypes
<1>10. Busy'
  BY <1>1, <1>2, BusySame
<1>11. Ends'
  BY <1>1, <1>2, <1>6 DEF Ends
<1>12. Requests'
  <2>1. \A d \in Client : Owes(d)' = Owes(d) /\ hnd'[d] = hnd[d]
    BY <1>2 DEF Owes
  <2>2. Request(c)
    BY <1>1 DEF Requests
  <2>3. \A i \in DOMAIN inbox[c] : i \in DOMAIN inbox'[c] /\ inbox'[c][i] = inbox[c][i]
    BY <1>7
  <2>4. \A i \in DOMAIN inbox'[c] : i \in DOMAIN inbox[c] \/ inbox'[c][i].auto
    BY <1>3, <1>7
  <2>5. Request(c)'
    BY <1>2, <2>1, <2>2, <2>3, <2>4 DEF Request
  <2>6. \A d \in Client \ {c} : Request(d)'
    BY <1>1, <1>2, <1>6, <2>1, RequestSame DEF Requests
  <2>7. QED BY <2>5, <2>6 DEF Requests
<1>13. Kept' /\ Exact' /\ OneStart'
  BY <1>1, <1>2, WorkKept, WorkFacts
<1>14. QED BY <1>9, <1>10, <1>11, <1>12, <1>13 DEF IInv

LEMMA LeaveStep ==
  ASSUME IInv, NEW c \in Client, Leave(c)
  PROVE  IInv'
<1>1. /\ Types /\ Busy /\ Ends /\ Requests /\ Kept /\ Exact /\ OneStart
      /\ FileTypes /\ ServerTypes /\ HandlerTypes /\ ClientTypes /\ OtherTypes
  BY DEF IInv, Types
<1>2. /\ eof' = [eof EXCEPT ![c] = TRUE]
      /\ cl' = [cl EXCEPT ![c].st = IF @ = "done" THEN @ ELSE "gone"]
      /\ UNCHANGED <<startFile, clients, draft, final, startCache, proc, hnd, inbox, adm,
                     made, rec, raced, disturbed, wiped, unsaved>>
  BY DEF Leave, files, history
<1>3. cl \in [Client -> ClientState] /\ eof \in [Client -> BOOLEAN]
  BY <1>1 DEF ClientTypes
<1>4. /\ cl' \in [Client -> ClientState]
      /\ cl'[c].at = cl[c].at /\ cl'[c].st \in {"done", "gone"}
      /\ cl'[c].st = "done" => cl[c].st = "done"
      /\ \A d \in Client \ {c} : cl'[d] = cl[d]
  BY <1>2, <1>3 DEF ClientState
<1>5. /\ eof' \in [Client -> BOOLEAN] /\ eof'[c]
      /\ \A d \in Client \ {c} : eof'[d] = eof[d]
  BY <1>2, <1>3
<1>6. ClientTypes'
  BY <1>1, <1>2, <1>4, <1>5 DEF ClientTypes
<1>7. Types'
  BY <1>1, <1>2, <1>6 DEF Types, FileTypes, ServerTypes, HandlerTypes, OtherTypes
<1>8. Busy'
  BY <1>1, <1>2, BusySame
<1>9. Ends'
  BY <1>1, <1>2, <1>4, <1>5 DEF Ends
<1>10. Requests'
  <2>1. \A d \in Client : Owes(d)' = Owes(d) /\ hnd'[d] = hnd[d]
    BY <1>2 DEF Owes
  <2>2. Request(c)'
    BY <1>4 DEF Request
  <2>3. \A d \in Client \ {c} : Request(d)'
    BY <1>1, <1>2, <1>4, <2>1, RequestSame DEF Requests
  <2>4. QED BY <2>2, <2>3 DEF Requests
<1>11. Kept' /\ Exact' /\ OneStart'
  <2>1. \A d \in Client : cl'[d].st = "done" => cl[d].st = "done"
    BY <1>4
  <2>2. QED BY <1>1, <1>2, <2>1, WorkKept, WorkFacts
<1>12. QED BY <1>7, <1>8, <1>9, <1>10, <1>11 DEF IInv

-----------------------------------------------------------------------------
(* The steps of handlers that do not touch clients.json or start_at.txt.   *)

\* A handler that has nothing in hand and nothing to read ends.
LEMMA EndStep ==
  ASSUME IInv, NEW c \in Client, NEW why \in {"eof", "timeout"},
         Running(c), hnd[c].plan = <<>>, inbox[c] = <<>>, why = "eof" => eof[c],
         hnd' = [hnd EXCEPT ![c] = Ended(c, why)],
         UNCHANGED <<startFile, clients, draft, final, startCache, proc, inbox, eof, cl, adm,
                     made, rec, raced, disturbed, wiped, unsaved>>
  PROVE  IInv'
<1>1. /\ Types /\ Busy /\ Ends /\ Requests /\ Kept /\ Exact /\ OneStart
      /\ FileTypes /\ ServerTypes /\ HandlerTypes /\ ClientTypes /\ OtherTypes
  BY DEF IInv, Types
<1> DEFINE h == Ended(c, why)
<1>2. hnd \in [Client -> Handler] /\ hnd[c] \in Handler
  BY <1>1 DEF HandlerTypes
<1>3. /\ h \in Handler /\ h.at = hnd[c].at /\ h.msg = hnd[c].msg
      /\ h.plan = <<>> /\ h.end = why
  BY <1>2, PlanFacts DEF Ended, Handler
<1>4. hnd' = [hnd EXCEPT ![c] = h]
  OBVIOUS
<1> HIDE DEF h
<1>5. /\ hnd' \in [Client -> Handler] /\ hnd'[c] = h
      /\ \A d \in Client \ {c} : hnd'[d] = hnd[d]
  BY <1>2, <1>3, <1>4
<1>6. HandlerTypes'
  BY <1>1, <1>3, <1>5 DEF HandlerTypes
<1>7. Types'
  BY <1>1, <1>6 DEF Types, FileTypes, ServerTypes, ClientTypes, OtherTypes
<1>8. Busy'
  BY <1>1, <1>2, <1>3, <1>4, BusyKept DEF Running
<1>9. Ends'
  BY <1>1, <1>3, <1>5 DEF Ends
<1>10. Requests'
  <2>1. \A d \in Client : Owes(d)' = Owes(d) /\ hnd'[d].msg = hnd[d].msg
    BY <1>3, <1>5, PlanFacts DEF Owes
  <2>2. QED BY <1>1, <2>1, RequestsKept
<1>11. Kept' /\ Exact' /\ OneStart'
  BY <1>1, <1>3, <1>5, WorkKept, WorkFacts
<1>12. QED BY <1>7, <1>8, <1>9, <1>10, <1>11 DEF IInv

\* Answers that are saved, or are lost in the attempt, are those of one client;
\* a submission that is lost is known for it.
LEMMA SaveFacts ==
  ASSUME FileTypes, NEW c \in Client, NEW m, m.answers \in Answers,
         SaveAnswers(c, m) \/ StoredInPart(c, m)
  PROVE  /\ draft' \in [Client -> Texts] /\ final' \in [Client -> Texts]
         /\ \A d \in Client \ {c} : draft'[d] = draft[d] /\ final'[d] = final[d]
         /\ unsaved \subseteq unsaved' /\ unsaved' \subseteq unsaved \cup {c}
         /\ StoredInPart(c, m) /\ m.type = "submit" => c \in unsaved'
         /\ StoredInPart(c, m) /\ m.type # "submit" => final' = final
         /\ c \notin unsaved' =>
              final'[c] = IF m.type = "submit" THEN m.answers ELSE final[c]
<1>1. draft \in [Client -> Texts] /\ final \in [Client -> Texts] /\ m.answers \in Texts
  BY DEF FileTypes, Texts
<1>2. CASE Stored(c, m, m.answers) /\ UNCHANGED <<unsaved, left>> /\ ~StoredInPart(c, m)
  BY <1>1, <1>2 DEF Stored
<1>3. CASE StoredInPart(c, m)
  <2>1. PICK text \in {IF m.type = "save" THEN draft[c] ELSE final[c], Torn} :
          Stored(c, m, text)
    BY <1>3 DEF StoredInPart
  <2>2. text \in Texts
    BY <1>1, <2>1 DEF Texts
  <2>3. unsaved' = IF m.type = "submit" THEN unsaved \cup {c} ELSE unsaved
    BY <1>3 DEF StoredInPart
  <2>4. QED BY <1>1, <2>1, <2>2, <2>3 DEF Stored
<1>4. QED BY <1>2, <1>3 DEF SaveAnswers

\* The message that is read becomes the one in hand.
LEMMA ReadStep ==
  ASSUME IInv, NEW c \in Client, Recv(c), inbox[c] # <<>>
  PROVE  IInv'
<1> DEFINE m == Head(inbox[c])
           p == Plan(hnd[c].at, m)
<1>1. /\ Types /\ Busy /\ Ends /\ Requests /\ Kept /\ Exact /\ OneStart
      /\ FileTypes /\ ServerTypes /\ HandlerTypes /\ ClientTypes /\ OtherTypes
  BY DEF IInv, Types
<1>2. /\ Running(c) /\ hnd[c].plan = <<>>
      /\ hnd' = [hnd EXCEPT ![c].msg = m, ![c].plan = p]
      /\ inbox' = [inbox EXCEPT ![c] = Tail(@)]
      /\ SaveAnswers(c, m)
      /\ UNCHANGED <<startFile, clients, startCache, proc, eof, cl, adm,
                     made, rec, raced, disturbed, wiped>>
  BY DEF Recv
<1>3. inbox \in [Client -> Seq(Messages)] /\ hnd \in [Client -> Handler]
  BY <1>1 DEF ClientTypes, HandlerTypes
<1>4. PICK n \in Nat : n = Len(inbox[c])
  BY <1>3, LenProperties
<1>5. /\ DOMAIN inbox[c] = 1 .. n /\ n >= 1 /\ m = inbox[c][1]
      /\ m \in MessagesOf(c) /\ m \in Messages
  <2>1. inbox[c] \in Seq(Messages)
    BY <1>3
  <2>2. DOMAIN inbox[c] = 1 .. n /\ n >= 1 /\ m = inbox[c][1]
    BY <1>4, <2>1, EmptySeq, LenProperties
  <2>3. m \in MessagesOf(c)
    BY <1>1, <2>2 DEF ClientTypes
  <2>4. QED BY <2>2, <2>3 DEF MessagesOf
<1>6. p \in Plans /\ p \in Owing /\ p # <<>>
  BY <1>5, PlanOf
<1> HIDE DEF m, p
<1>7. /\ inbox' \in [Client -> Seq(Messages)]
      /\ inbox'[c] = Tail(inbox[c])
      /\ \A d \in Client \ {c} : inbox'[d] = inbox[d]
  BY <1>2, <1>3
<1>8. /\ DOMAIN inbox'[c] = 1 .. (n - 1)
      /\ \A i \in 1 .. (n - 1) : inbox'[c][i] = inbox[c][i + 1]
  BY <1>3, <1>4, <1>5, <1>7
<1>9. /\ hnd' \in [Client -> Handler]
      /\ hnd'[c].at = hnd[c].at /\ hnd'[c].msg = m /\ hnd'[c].plan = p
      /\ hnd'[c].end = hnd[c].end
      /\ \A d \in Client \ {c} : hnd'[d] = hnd[d]
  BY <1>2, <1>3, <1>5, <1>6 DEF Handler
<1>10. /\ m # None /\ m.answers \in Answers
       /\ m.type = "submit" => m.answers = Submitted(c) /\ m.answers # None
  <2>1. m # None
    BY <1>5, NothingElse
  <2>2. m.answers \in Answers /\ (m.type = "submit" => m.answers = Submitted(c))
    BY <1>5 DEF MessagesOf, Messages
  <2>3. Submitted(c) # None
    BY NothingElse DEF Submitted
  <2>4. QED BY <2>1, <2>2, <2>3
<1>11. /\ FileTypes'
       /\ \A d \in Client \ {c} : final'[d] = final[d]
       /\ unsaved \subseteq unsaved' /\ unsaved' \subseteq unsaved \cup {c}
       /\ c \notin unsaved' =>
            final'[c] = IF m.type = "submit" THEN m.answers ELSE final[c]
  BY <1>1, <1>2, <1>10, SaveFacts DEF FileTypes
<1>12. HandlerTypes'
  BY <1>1, <1>5, <1>9, <1>10 DEF HandlerTypes
<1>13. ClientTypes'
  <2>1. \A i \in DOMAIN inbox'[c] : inbox'[c][i] \in MessagesOf(c)
    BY <1>1, <1>5, <1>8 DEF ClientTypes
  <2>2. QED BY <1>1, <1>2, <1>7, <2>1 DEF ClientTypes
<1>14. Types'
  BY <1>1, <1>2, <1>11, <1>12, <1>13 DEF Types, ServerTypes, OtherTypes
<1>15. Busy'
  <2>1. hnd'[c] \in Handler /\ hnd' = [hnd EXCEPT ![c] = hnd'[c]]
    BY <1>2, <1>3, <1>9
  <2>2. QED BY <1>1, <1>2, <1>3, <2>1, BusyKept DEF Running
<1>16. Ends'
  BY <1>1, <1>2, <1>7, <1>9 DEF Ends, Running
<1>17. Requests'
  <2>1. \A d \in Client \ {c} : Owes(d)' = Owes(d)
    BY <1>9 DEF Owes
  <2>2. ~Owes(c) /\ (Owes(c)' <=> ~m.auto)
    BY <1>2, <1>6, <1>9, PlanFacts DEF Owes
  <2>3. Request(c)
    BY <1>1 DEF Requests
  <2>4. Request(c)'
    <3>1. cl'[c] = cl[c]
      BY <1>2
    <3>2. ASSUME cl[c].st = "ready"
          PROVE  m.auto /\ \A i \in DOMAIN inbox'[c] : inbox'[c][i].auto
      <4>1. \A i \in 1 .. n : inbox[c][i].auto
        BY <1>5, <2>3, <3>2 DEF Request
      <4>2. ASSUME NEW j \in 1 .. (n - 1) PROVE inbox'[c][j].auto
        BY <1>8, <4>1
      <4>3. m.auto
        BY <1>5, <4>1
      <4>4. QED BY <1>8, <4>2, <4>3
    <3>3. ASSUME cl[c].st = "waiting"
          PROVE  \/ /\ ~m.auto /\ m = Script(c)[cl[c].at]
                    /\ \A i \in DOMAIN inbox'[c] : inbox'[c][i].auto
                 \/ /\ m.auto
                    /\ \E i \in DOMAIN inbox'[c] :
                         /\ inbox'[c][i] = Script(c)[cl[c].at]
                         /\ \A j \in DOMAIN inbox'[c] \ {i} : inbox'[c][j].auto
      <4>1. PICK i \in 1 .. n : /\ inbox[c][i] = Script(c)[cl[c].at]
                                /\ \A j \in 1 .. n : j # i => inbox[c][j].auto
        BY <1>5, <2>2, <2>3, <3>3 DEF Request
      <4>2. CASE i = 1
        <5>1. ASSUME NEW j \in 1 .. (n - 1) PROVE inbox'[c][j].auto
          <6>1. j + 1 \in 1 .. n /\ j + 1 # i
            BY <4>2
          <6>2. QED BY <1>8, <4>1, <6>1
        <5>2. ~m.auto /\ m = Script(c)[cl[c].at]
          <6>1. cl[c].at \in 1 .. Len(Script(c))
            BY <1>1, <2>3, <3>3, ScriptFacts DEF ClientTypes, Request
          <6>2. QED BY <1>5, <4>1, <4>2, <6>1, ScriptFacts
        <5>3. QED BY <1>8, <5>1, <5>2
      <4>3. CASE i # 1
        <5>1. i - 1 \in 1 .. (n - 1) /\ inbox'[c][i - 1] = Script(c)[cl[c].at]
          BY <1>8, <4>1, <4>3
        <5>2. ASSUME NEW j \in 1 .. (n - 1), j # i - 1 PROVE inbox'[c][j].auto
          <6>1. j + 1 \in 1 .. n /\ j + 1 # i
            BY <5>2
          <6>2. QED BY <1>8, <4>1, <6>1
        <5>3. m.auto
          BY <1>5, <4>1, <4>3
        <5>4. QED BY <1>8, <5>1, <5>2, <5>3
      <4>4. QED BY <4>2, <4>3
    <3>4. QED BY <1>9, <2>2, <2>3, <3>1, <3>2, <3>3 DEF Request
  <2>5. \A d \in Client \ {c} : Request(d)'
    BY <1>1, <1>2, <1>7, <1>9, <2>1, RequestSame DEF Requests
  <2>6. QED BY <2>4, <2>5 DEF Requests
<1>18. proc[hnd[c].at] = None /\ proc' = proc
  BY <1>2 DEF Running
<1>19. \A s \in Server : /\ Updating(s)' = Updating(s) /\ Creating(s)' = Creating(s)
                         /\ proc[s] # None => proc[s].c \in Client \ {c}
  BY <1>1, <1>18, WorkFacts DEF Updating, Creating, Busy
<1>20. Kept'
  <2>1. \A d \in Client \ unsaved' : d \notin unsaved /\ (final[d] # None => final'[d] # None)
    BY <1>10, <1>11, NothingElse
  <2>2. ~wiped /\ c \notin unsaved' =>
          final'[c] \in {None, Submitted(c)} /\ (m.type = "submit" => final'[c] # None)
    BY <1>1, <1>10, <1>11, <2>1, NothingElse DEF Kept
  <2>3. QED BY <1>1, <1>2, <1>9, <1>10, <1>11, <1>19, <2>1, <2>2 DEF Kept, Says
<1>21. Exact'
  BY <1>1, <1>2, <1>9, <1>18, <1>19, ExactKept DEF Updating
<1>22. OneStart'
  BY <1>1, <1>2, <1>19, OneStartKept
<1>23. QED BY <1>14, <1>15, <1>16, <1>17, <1>20, <1>21, <1>22 DEF IInv

LEMMA RecvStep ==
  ASSUME IInv, NEW c \in Client, Recv(c)
  PROVE  IInv'
<1>1. CASE inbox[c] = <<>>
  <2>1. /\ Running(c) /\ hnd[c].plan = <<>> /\ eof[c]
        /\ hnd' = [hnd EXCEPT ![c] = Ended(c, "eof")]
        /\ UNCHANGED <<startFile, clients, draft, final, startCache, proc, inbox, eof, cl,
                       adm, made, rec, raced, disturbed, wiped, unsaved>>
    BY <1>1 DEF Recv, history
  <2>2. QED BY <1>1, <2>1, EndStep
<1>2. CASE inbox[c] # <<>>
  BY <1>2, ReadStep
<1>3. QED BY <1>1, <1>2

LEMMA TimeoutStep ==
  ASSUME IInv, NEW c \in Client, RecvTimeout(c)
  PROVE  IInv'
<1>1. /\ Running(c) /\ hnd[c].plan = <<>> /\ inbox[c] = <<>>
      /\ hnd' = [hnd EXCEPT ![c] = Ended(c, "timeout")]
      /\ UNCHANGED <<startFile, clients, draft, final, startCache, proc, inbox, eof, cl,
                     adm, made, rec, raced, disturbed, wiped, unsaved>>
  BY DEF RecvTimeout, files, history
<1>2. QED BY <1>1, EndStep

\* A handler goes on to the next step of its plan.
LEMMA Advance ==
  ASSUME HandlerTypes, Ends, NEW c \in Client, hnd[c].plan # <<>>,
         hnd' = [hnd EXCEPT ![c] = NextStep(c)]
  PROVE  /\ HandlerTypes'
         /\ NextStep(c) \in Handler
         /\ \A d \in Client : hnd'[d].at = hnd[d].at /\ hnd'[d].msg = hnd[d].msg
         /\ \A d \in Client \ {c} : hnd'[d] = hnd[d] /\ Owes(d)' = Owes(d)
         /\ Head(hnd[c].plan) # "send" => Owes(c)' = Owes(c)
         /\ Head(hnd[c].plan) = "send" => (Owes(c) <=> ~hnd[c].msg.auto) /\ ~Owes(c)'
         /\ \A d \in Client :
              /\ hnd'[d].end # "no" => hnd'[d].plan = <<>>
              /\ hnd'[d].end = "eof" /\ hnd[d].end # "eof" => ~GoesOn(d)
<1> DEFINE h == NextStep(c)
<1>1. /\ h \in Handler
      /\ h.at = hnd[c].at /\ h.msg = hnd[c].msg
      /\ h.plan = Tail(hnd[c].plan)
      /\ \/ h.end = hnd[c].end
         \/ h.end = "eof" /\ h.plan = <<>> /\ ~GoesOn(c)
  BY NextStepFacts
<1> HIDE DEF h
<1>2. hnd \in [Client -> Handler] /\ hnd[c].plan \in Plans
  BY DEF HandlerTypes, Handler
<1>3. hnd'[c] = h /\ hnd' \in [Client -> Handler]
      /\ \A d \in Client \ {c} : hnd'[d] = hnd[d]
  BY <1>1, <1>2 DEF h
<1>4. hnd[c].end = "no"
  BY DEF Ends
<1>5. HandlerTypes'
  BY <1>1, <1>3 DEF HandlerTypes
<1>6. \A d \in Client \ {c} : Owes(d)' = Owes(d)
  BY <1>3 DEF Owes
<1>7. Head(hnd[c].plan) # "send" => Owes(c)' = Owes(c)
  <2>1. Head(hnd[c].plan) # "send" => (h.plan \in Owing <=> hnd[c].plan \in Owing)
    BY <1>1, <1>2, PlanFacts
  <2>2. QED BY <1>1, <1>3, <2>1 DEF Owes
<1>8. Head(hnd[c].plan) = "send" => (Owes(c) <=> ~hnd[c].msg.auto) /\ ~Owes(c)'
  <2>1. Head(hnd[c].plan) = "send" => h.plan \notin Owing /\ hnd[c].plan \in Owing
    BY <1>1, <1>2, PlanFacts
  <2>2. QED BY <1>1, <1>3, <2>1 DEF Owes
<1>9. \A d \in Client :
        /\ hnd'[d].end # "no" => hnd'[d].plan = <<>>
        /\ hnd'[d].end = "eof" /\ hnd[d].end # "eof" => ~GoesOn(d)
  BY <1>1, <1>3, <1>4 DEF Ends
<1>10. QED BY <1>1, <1>3, <1>5, <1>6, <1>7, <1>8, <1>9 DEF h

LEMMA CollectedStep ==
  ASSUME IInv, NEW c \in Client, Collected(c)
  PROVE  IInv'
<1>1. /\ Types /\ Busy /\ Ends /\ Requests /\ Kept /\ Exact /\ OneStart
      /\ FileTypes /\ ServerTypes /\ HandlerTypes /\ ClientTypes /\ OtherTypes
  BY DEF IInv, Types
<1>2. /\ proc[hnd[c].at] = None /\ hnd[c].plan # <<>> /\ Head(hnd[c].plan) = "wait"
      /\ hnd' = [hnd EXCEPT ![c] = NextStep(c)]
      /\ UNCHANGED <<startFile, clients, draft, final, startCache, proc, inbox, eof, cl,
                     adm, made, rec, raced, disturbed, wiped, unsaved>>
  BY DEF Collected, Due, Running, files, history
<1>3. /\ HandlerTypes' /\ NextStep(c) \in Handler
      /\ \A d \in Client : hnd'[d].at = hnd[d].at /\ hnd'[d].msg = hnd[d].msg
      /\ \A d \in Client : Owes(d)' = Owes(d)
      /\ \A d \in Client :
           /\ hnd'[d].end # "no" => hnd'[d].plan = <<>>
           /\ hnd'[d].end = "eof" /\ hnd[d].end # "eof" => ~GoesOn(d)
  BY <1>1, <1>2, Advance
<1>4. Types'
  BY <1>1, <1>2, <1>3 DEF Types, FileTypes, ServerTypes, ClientTypes, OtherTypes
<1>5. Busy'
  BY <1>1, <1>2, <1>3, BusyKept DEF HandlerTypes
<1>6. Ends'
  BY <1>1, <1>2, <1>3, EndsKept
<1>7. Requests'
  BY <1>1, <1>2, <1>3, RequestsKept
<1>8. Kept' /\ Exact' /\ OneStart'
  BY <1>1, <1>2, <1>3, WorkKept, WorkFacts
<1>9. QED BY <1>4, <1>5, <1>6, <1>7, <1>8 DEF IInv

\* A reply to a request that the client waits for takes it to its next one; the
\* last is the submission, whose final file is there.
LEMMA ReplyStep ==
  ASSUME IInv, NEW c \in Client, Reply(c)
  PROVE  IInv'
<1>1. /\ Types /\ Busy /\ Ends /\ Requests /\ Kept /\ Exact /\ OneStart
      /\ FileTypes /\ ServerTypes /\ HandlerTypes /\ ClientTypes /\ OtherTypes
  BY DEF IInv, Types
<1>2. /\ proc[hnd[c].at] = None /\ hnd[c].plan # <<>> /\ Head(hnd[c].plan) = "send"
      /\ cl' = [cl EXCEPT ![c] = Answered(c)]
      /\ hnd' = [hnd EXCEPT ![c] = NextStep(c)]
      /\ UNCHANGED <<startFile, clients, draft, final, startCache, proc, inbox, eof,
                     adm, made, rec, raced, disturbed, wiped, unsaved>>
  BY DEF Reply, Due, Running, files, history
<1>3. /\ HandlerTypes' /\ NextStep(c) \in Handler
      /\ \A d \in Client : hnd'[d].at = hnd[d].at /\ hnd'[d].msg = hnd[d].msg
      /\ \A d \in Client \ {c} : Owes(d)' = Owes(d)
      /\ (Owes(c) <=> ~hnd[c].msg.auto) /\ ~Owes(c)'
      /\ \A d \in Client :
           /\ hnd'[d].end # "no" => hnd'[d].plan = <<>>
           /\ hnd'[d].end = "eof" /\ hnd[d].end # "eof" => ~GoesOn(d)
  BY <1>1, <1>2, Advance
<1>4. PICK n \in Nat : n = Len(Script(c))
  BY ScriptFacts
<1>5. cl[c] \in ClientState /\ cl[c].at \in 1 .. (n + 1) /\ Request(c)
  BY <1>1, <1>4 DEF ClientTypes, Requests
<1>6. /\ Answered(c) \in ClientState /\ Answered(c).at \in 1 .. (n + 1)
      /\ \/ Answered(c) = cl[c] /\ (cl[c].st # "waiting" \/ hnd[c].msg.auto)
         \/ /\ cl[c].st = "waiting" /\ ~hnd[c].msg.auto /\ cl[c].at <= n
            /\ Answered(c).at = cl[c].at + 1
            /\ Answered(c).st = IF cl[c].at = n THEN "done" ELSE "ready"
  <2>1. CASE cl[c].st = "waiting" /\ ~hnd[c].msg.auto
    <3>1. cl[c].at <= n
      BY <1>4, <1>5, <2>1 DEF Request
    <3>2. Answered(c) = [at |-> cl[c].at + 1, st |-> IF cl[c].at = n THEN "done" ELSE "ready"]
      BY <1>4, <2>1 DEF Answered
    <3>3. QED BY <1>5, <2>1, <3>1, <3>2 DEF ClientState
  <2>2. CASE ~(cl[c].st = "waiting" /\ ~hnd[c].msg.auto)
    BY <1>5, <2>2 DEF Answered
  <2>3. QED BY <2>1, <2>2
<1>7. /\ cl' \in [Client -> ClientState] /\ cl'[c] = Answered(c)
      /\ \A d \in Client \ {c} : cl'[d] = cl[d]
  BY <1>1, <1>2, <1>6 DEF ClientTypes
<1>8. Types'
  <2>1. ClientTypes'
    BY <1>1, <1>2, <1>4, <1>6, <1>7 DEF ClientTypes
  <2>2. QED BY <1>1, <1>2, <1>3, <2>1 DEF Types, FileTypes, ServerTypes, OtherTypes
<1>9. Busy'
  BY <1>1, <1>2, <1>3, BusyKept DEF HandlerTypes
<1>10. Ends'
  <2>1. \A d \in Client : cl[d].st \in {"done", "gone"} => cl'[d].st \in {"done", "gone"}
    BY <1>6, <1>7
  <2>2. QED BY <1>1, <1>2, <1>3, <2>1, EndsKept
\* What the client was told of is what the handler had in hand.
<1>11. cl[c].st = "waiting" /\ ~hnd[c].msg.auto =>
         /\ hnd[c].msg = Script(c)[cl[c].at]
         /\ \A i \in DOMAIN inbox[c] : inbox[c][i].auto
  BY <1>3, <1>5 DEF Request
<1>12. Requests'
  <2>1. Request(c)'
    <3>1. CASE cl[c].st = "waiting" /\ ~hnd[c].msg.auto
      <4>1. cl'[c].st \in {"ready", "done"} /\ (cl'[c].st = "ready" => cl'[c].at <= n)
        BY <1>4, <1>5, <1>6, <1>7, <3>1
      <4>2. QED BY <1>2, <1>3, <1>4, <1>11, <3>1, <4>1 DEF Request
    <3>2. CASE ~(cl[c].st = "waiting" /\ ~hnd[c].msg.auto)
      <4>1. cl'[c] = cl[c] /\ (cl[c].st = "waiting" => ~Owes(c))
        BY <1>3, <1>6, <1>7, <3>2
      <4>2. QED BY <1>2, <1>3, <1>5, <4>1 DEF Request
    <3>3. QED BY <3>1, <3>2
  <2>2. \A d \in Client \ {c} : Request(d)'
    BY <1>1, <1>2, <1>3, <1>7, RequestSame DEF Requests
  <2>3. QED BY <2>1, <2>2 DEF Requests
<1>13. \A s \in Server : Updating(s)' = Updating(s) /\ Creating(s)' = Creating(s)
  BY <1>2 DEF Updating, Creating
<1>14. Kept'
  <2>1. cl'[c].st = "done" /\ cl[c].st # "done" =>
          hnd[c].msg # None /\ hnd[c].msg.type = "submit"
    <3>1. cl'[c].st = "done" /\ cl[c].st # "done" => hnd[c].msg = Script(c)[n]
      BY <1>6, <1>7, <1>11
    <3>2. hnd[c].msg # None
      BY <1>1, <1>2 DEF HandlerTypes
    <3>3. QED BY <1>4, <3>1, <3>2, ScriptFacts
  <2>2. ~wiped => \A d \in Client \ unsaved : cl'[d].st = "done" => final[d] # None
    BY <1>1, <1>7, <2>1 DEF Kept
  <2>3. QED BY <1>1, <1>2, <1>3, <1>13, <2>2 DEF Kept, Says
<1>15. Exact'
  <2>1. \A s \in Server : Updating(s) => proc[s].c \in Client
    BY <1>1, WorkFacts DEF Updating
  <2>2. QED BY <1>1, <1>2, <1>3, <1>13, <2>1, ExactKept
<1>16. OneStart'
  BY <1>1, <1>2, <1>13, OneStartKept
<1>17. QED BY <1>8, <1>9, <1>10, <1>12, <1>14, <1>15, <1>16 DEF IInv

-----------------------------------------------------------------------------
(* The steps of processes at work on a file.                               *)

\* Processes at work before the step still are, for handlers that wait.
LEMMA BusyFrom ==
  ASSUME Busy,
         \A s \in Server : proc'[s] # None =>
           /\ proc[s] # None /\ proc'[s].c = proc[s].c /\ Updating(s)' = Updating(s)
           /\ hnd'[proc[s].c] = hnd[proc[s].c]
  PROVE  Busy'
<1> SUFFICES ASSUME NEW s \in Server, proc'[s] # None
             PROVE  LET d == proc'[s].c IN
                      /\ hnd'[d].at = s /\ hnd'[d].plan # <<>>
                      /\ Head(hnd'[d].plan) = IF Updating(s)' THEN "update" ELSE "start"
  BY DEF Busy
<1>1. /\ hnd[proc[s].c].at = s /\ hnd[proc[s].c].plan # <<>>
      /\ Head(hnd[proc[s].c].plan) = IF Updating(s) THEN "update" ELSE "start"
  BY DEF Busy
<1>2. QED BY <1>1

\* A process begins to work for a handler that has that step to do.
LEMMA BusyBegun ==
  ASSUME Busy, ServerTypes, NEW c \in Client, NEW s \in Server, hnd[c].at = s,
         proc[s] = None, hnd' = hnd, hnd[c].plan # <<>>, NEW w, w # None, w.c = c,
         proc' = [proc EXCEPT ![s] = w],
         Head(hnd[c].plan) = IF Updating(s)' THEN "update" ELSE "start"
  PROVE  Busy'
<1>1. proc'[s] = w /\ \A t \in Server \ {s} : proc'[t] = proc[t]
  BY DEF ServerTypes
<1> SUFFICES ASSUME NEW t \in Server, proc'[t] # None
             PROVE  LET d == proc'[t].c IN
                      /\ hnd'[d].at = t /\ hnd'[d].plan # <<>>
                      /\ Head(hnd'[d].plan) = IF Updating(t)' THEN "update" ELSE "start"
  BY DEF Busy
<1>2. CASE t = s
  BY <1>1, <1>2
<1>3. CASE t # s
  <2>1. proc'[t] = proc[t] /\ Updating(t)' = Updating(t)
    BY <1>1, <1>3 DEF Updating
  <2>2. QED BY <2>1 DEF Busy
<1>4. QED BY <1>2, <1>3

\* What happens to a file changes what its writers know, not what they do.
LEMMA FatedFacts ==
  ASSUME ServerTypes, NEW ops, NEW fate \in Fate, NEW t \in Server
  PROVE  /\ Fated(ops, fate)[t] \in Work \cup {None}
         /\ Fated(ops, fate)[t] # None <=> proc[t] # None
         /\ proc[t] # None =>
              /\ Fated(ops, fate)[t].op = proc[t].op
              /\ Fated(ops, fate)[t].c = proc[t].c
              /\ proc[t].op \in {"open", "write"} => Fated(ops, fate)[t].data = proc[t].data
              /\ proc[t].op \notin ops => Fated(ops, fate)[t] = proc[t]
<1>1. Fated(ops, fate)[t] = IF proc[t] # None /\ proc[t].op \in ops
                              THEN [proc[t] EXCEPT !.fate = fate] ELSE proc[t]
  BY DEF Fated
<1>2. proc[t] \in Work \cup {None}
  BY DEF ServerTypes
<1>3. CASE ~(proc[t] # None /\ proc[t].op \in ops)
  BY <1>1, <1>2, <1>3
<1>4. CASE proc[t] # None /\ proc[t].op \in ops
  <2> DEFINE f == [proc[t] EXCEPT !.fate = fate]
  <2>1. Fated(ops, fate)[t] = f
    BY <1>1, <1>4
  <2>2. CASE proc[t] \in [op : {"open", "write"}, c : Client, fate : Fate, data : Table]
    <3>1. /\ f \in [op : {"open", "write"}, c : Client, fate : Fate, data : Table]
          /\ f.op = proc[t].op /\ f.c = proc[t].c /\ f.data = proc[t].data
      BY <2>2
    <3>2. f \in Work
      BY <3>1 DEF Work
    <3>3. f # None
      BY <3>2, NothingElse
    <3>4. QED BY <1>4, <2>1, <3>1, <3>2, <3>3
  <2>3. CASE proc[t] \in [op : {"startopen", "startwrite"}, c : Client, fate : Fate]
    <3>1. /\ f \in [op : {"startopen", "startwrite"}, c : Client, fate : Fate]
          /\ f.op = proc[t].op /\ f.c = proc[t].c
          /\ proc[t].op \notin {"open", "write"}
      BY <2>3
    <3>2. f \in Work
      BY <3>1 DEF Work
    <3>3. f # None
      BY <3>2, NothingElse
    <3>4. QED BY <1>4, <2>1, <3>1, <3>2, <3>3
  <2>4. QED BY <1>2, <1>4, <2>2, <2>3 DEF Work
<1>5. QED BY <1>3, <1>4

\* The entries that are read are those of the file, or none.
LEMMA EntriesFacts ==
  ASSUME FileTypes
  PROVE  /\ Entries \in Table
         /\ \A c \in Client : Entries[c] # None => clients \in Table /\ Entries[c] = clients[c]
         /\ clients \in Table => Entries = clients
         /\ clients = None => Entries = NoEntries
<1>1. CASE clients \in {None, Torn}
  <2>1. Entries = NoEntries
    BY <1>1 DEF Entries
  <2>2. QED BY <1>1, <2>1, EntryFacts DEF NoEntries
<1>2. CASE clients \notin {None, Torn}
  <2>1. Entries = clients /\ clients \in Table
    BY <1>2 DEF Entries, FileTypes
  <2>2. QED BY <2>1, EntryFacts
<1>3. QED BY <1>1, <1>2

LEMMA UpdateReadStep ==
  ASSUME IInv, NEW c \in Client, UpdateRead(c)
  PROVE  IInv'
<1> DEFINE s == hnd[c].at
           e == Entries[c]
           m == hnd[c].msg
           d == [Entries EXCEPT ![c] = Merged(@, hnd[c].msg)]
           w == [op |-> "open", c |-> c, fate |-> "clean", data |-> d]
<1>1. /\ Types /\ Busy /\ Ends /\ Requests /\ Kept /\ Exact /\ OneStart
      /\ FileTypes /\ ServerTypes /\ HandlerTypes /\ ClientTypes /\ OtherTypes
  BY DEF IInv, Types
<1>2. /\ proc[s] = None /\ hnd[c].plan # <<>> /\ Head(hnd[c].plan) = "update"
      /\ proc' = [proc EXCEPT ![s] = w]
      /\ disturbed' = (disturbed \/ \E t \in Server : Updating(t))
      /\ UNCHANGED <<startFile, clients, draft, final, startCache, hnd, inbox, eof, cl,
                     adm, made, rec, raced, wiped, unsaved>>
  BY DEF UpdateRead, Due, Running, files
<1>3. s \in Server /\ m \in MessagesOf(c) /\ m \in Messages /\ m # None
  BY <1>1, <1>2, NothingElse DEF HandlerTypes, Handler, MessagesOf
<1>4. e \in Entry \cup {None} /\ Entries \in Table
  BY <1>1, EntriesFacts DEF Table
<1>5. /\ d \in Table /\ d[c] = Merged(e, m)
      /\ \A x \in Client \ {c} : d[x] = Entries[x]
      /\ Merged(e, m) \in Entry
      /\ Merged(e, m).submitted => m.type = "submit" \/ (e # None /\ e.submitted)
  <2>1. /\ Merged(e, m) \in Entry
        /\ Merged(e, m).submitted => m.type = "submit" \/ (e # None /\ e.submitted)
    BY <1>3, <1>4, MergedFacts
  <2>2. d = [Entries EXCEPT ![c] = Merged(e, m)]
    OBVIOUS
  <2> HIDE DEF d, e, m
  <2>3. d \in Table /\ d[c] = Merged(e, m) /\ \A x \in Client \ {c} : d[x] = Entries[x]
    BY <1>4, <2>1, <2>2 DEF Table
  <2>4. QED BY <2>1, <2>3
<1>6. d = [Entries EXCEPT ![c] = Merged(@, m)]
  OBVIOUS
<1> HIDE DEF d
<1>7. /\ w \in Work /\ w # None /\ w.op = "open" /\ w.c = c /\ w.fate = "clean" /\ w.data = d
  <2>1. w \in [op : {"open", "write"}, c : Client, fate : Fate, data : Table]
    BY <1>5 DEF Fate
  <2>2. w \in Work
    BY <2>1 DEF Work
  <2>3. QED BY <2>2, NothingElse
<1> HIDE DEF w
<1>8. /\ proc' \in [Server -> Work \cup {None}]
      /\ proc'[s] = w /\ \A t \in Server \ {s} : proc'[t] = proc[t]
  BY <1>1, <1>2, <1>3, <1>7 DEF ServerTypes
<1>9. /\ Updating(s)' /\ ~Updating(s)
      /\ Creating(s)' = Creating(s) /\ ~Creating(s)
      /\ \A t \in Server \ {s} : Updating(t)' = Updating(t) /\ Creating(t)' = Creating(t)
  BY <1>2, <1>7, <1>8 DEF Updating, Creating
<1>10. Types'
  <2>1. disturbed' \in BOOLEAN
    BY <1>1, <1>2 DEF OtherTypes
  <2>2. QED BY <1>1, <1>2, <1>8, <2>1
            DEF Types, FileTypes, ServerTypes, HandlerTypes, ClientTypes, OtherTypes
<1>11. Busy'
  BY <1>1, <1>2, <1>3, <1>7, <1>9, BusyBegun
<1>12. Ends' /\ Requests'
  BY <1>1, <1>2 DEF Ends, Requests, Request, Owes
\* The entry of another client is the file's; its own is submitted by this
\* message or was before.
<1>13. Kept'
  <2>1. ASSUME ~wiped, NEW x \in Client \ unsaved, Says(d, x)
        PROVE  final[x] # None
    <3>1. clients \in Table /\ Says(clients, x) => final[x] # None
      BY <1>1, <2>1 DEF Kept
    <3>2. CASE x = c
      BY <1>1, <1>3, <1>5, <2>1, <3>1, <3>2, EntriesFacts DEF Says, Kept
    <3>3. CASE x # c
      BY <1>1, <1>5, <2>1, <3>1, <3>3, EntriesFacts DEF Says
    <3>4. QED BY <3>2, <3>3
  <2>2. ASSUME ~wiped, NEW x \in Client \ unsaved, NEW t \in Server, Updating(t)', Says(proc'[t].data, x)
        PROVE  final[x] # None
    <3>1. CASE t = s
      BY <1>7, <1>8, <2>1, <2>2, <3>1
    <3>2. CASE t # s
      BY <1>1, <1>8, <1>9, <2>2, <3>2 DEF Kept
    <3>3. QED BY <3>1, <3>2
  <2>3. QED BY <1>1, <1>2, <2>2 DEF Kept, Says
<1>14. Exact'
  <2> SUFFICES ASSUME ~disturbed', ~wiped'
               PROVE  /\ \A t, u \in Server : Updating(t)' /\ Updating(u)' => t = u
                      /\ \A t \in Server : Updating(t)' =>
                           /\ proc'[t].data =
                                [rec EXCEPT ![proc'[t].c] = Merged(@, hnd[proc'[t].c].msg)]
                           /\ proc'[t].fate = "clean"
                      /\ clients = rec \/ (clients = None /\ rec = NoEntries)
    BY <1>2 DEF Exact
  <2>1. ~disturbed /\ ~wiped /\ \A t \in Server : ~Updating(t)
    BY <1>2
  <2>2. clients = rec \/ (clients = None /\ rec = NoEntries)
    BY <1>1, <2>1 DEF Exact, Updating
  <2>3. Entries = rec
    BY <1>1, <2>2, EntriesFacts DEF OtherTypes
  <2>4. proc'[s].data = [rec EXCEPT ![c] = Merged(@, hnd[c].msg)]
    BY <1>6, <1>7, <1>8, <2>3
  <2>5. \A t \in Server : Updating(t)' => t = s
    BY <1>9, <2>1
  <2>6. QED BY <1>7, <1>8, <2>2, <2>4, <2>5
<1>15. OneStart'
  <2>1. ASSUME NEW t \in Server
        PROVE  /\ Creating(t)' = Creating(t)
               /\ Creating(t) => proc'[t].fate = proc[t].fate
    <3>1. CASE t = s
      BY <1>2, <1>7, <1>8, <3>1 DEF Creating
    <3>2. CASE t # s
      BY <1>8, <1>9, <3>2
    <3>3. QED BY <3>1, <3>2
  <2>2. QED BY <1>1, <1>2, <2>1, OneStartKept
<1>16. QED BY <1>10, <1>11, <1>12, <1>13, <1>14, <1>15 DEF IInv

\* Opening the file to write it truncates it.
LEMMA UpdateOpenStep ==
  ASSUME IInv, NEW s \in Server, UpdateOpen(s)
  PROVE  IInv'
<1> DEFINE w == [proc[s] EXCEPT !.op = "write"]
<1>1. /\ Types /\ Busy /\ Ends /\ Requests /\ Kept /\ Exact /\ OneStart
      /\ FileTypes /\ ServerTypes /\ HandlerTypes /\ ClientTypes /\ OtherTypes
  BY DEF IInv, Types
<1>2. /\ proc[s] # None /\ proc[s].op = "open"
      /\ clients' = Torn
      /\ proc' = [proc EXCEPT ![s].op = "write"]
      /\ UNCHANGED <<startFile, draft, final, startCache, hnd, inbox, eof, cl, adm,
                     made, rec, raced, disturbed, wiped, unsaved>>
  BY DEF UpdateOpen, history
<1>3. /\ w \in Work /\ w.op = "write" /\ w.c = proc[s].c
      /\ w.fate = proc[s].fate /\ w.data = proc[s].data
  <2>1. proc[s] \in [op : {"open", "write"}, c : Client, fate : Fate, data : Table]
    BY <1>1, <1>2 DEF ServerTypes, Work
  <2>2. w \in [op : {"open", "write"}, c : Client, fate : Fate, data : Table]
    BY <2>1
  <2>3. QED BY <2>1, <2>2 DEF Work
<1>4. proc' = [proc EXCEPT ![s] = w]
  BY <1>2
<1> HIDE DEF w
<1>5. /\ w # None /\ proc' \in [Server -> Work \cup {None}]
      /\ proc'[s] = w /\ \A t \in Server \ {s} : proc'[t] = proc[t]
  BY <1>1, <1>3, <1>4, NothingElse DEF ServerTypes
<1>6. \A t \in Server :
        /\ Updating(t)' = Updating(t) /\ Creating(t)' = Creating(t)
        /\ proc'[t] # None => proc[t] # None
        /\ proc[t] # None => proc'[t].c = proc[t].c /\ proc'[t].fate = proc[t].fate
        /\ Updating(t) => proc'[t].data = proc[t].data
  BY <1>2, <1>3, <1>5 DEF Updating, Creating
<1>7. Types'
  BY <1>1, <1>2, <1>5 DEF Types, FileTypes, ServerTypes, HandlerTypes, ClientTypes, OtherTypes
<1>8. Busy'
  BY <1>1, <1>2, <1>6, BusyFrom
<1>9. Ends' /\ Requests'
  BY <1>1, <1>2 DEF Ends, Requests, Request, Owes
<1>10. Kept'
  BY <1>1, <1>2, <1>6, EntryFacts DEF Kept, Says
<1>11. Exact'
  <2>1. \E t \in Server : proc'[t] # None /\ proc'[t].op = "write"
    BY <1>3, <1>5
  <2>2. QED BY <1>1, <1>2, <1>6, <2>1 DEF Exact
<1>12. OneStart'
  <2>1. \A t \in Server : Creating(t) => proc[t] # None
    BY DEF Creating
  <2>2. QED BY <1>1, <1>2, <1>6, <2>1, OneStartKept
<1>13. QED BY <1>7, <1>8, <1>9, <1>10, <1>11, <1>12 DEF IInv

\* What is written is what was recorded, unless somebody came in between.
LEMMA UpdateWriteStep ==
  ASSUME IInv, NEW s \in Server, UpdateWrite(s)
  PROVE  IInv'
<1> DEFINE c == proc[s].c
           f == Fated({"write"}, "over")
<1>1. /\ Types /\ Busy /\ Ends /\ Requests /\ Kept /\ Exact /\ OneStart
      /\ FileTypes /\ ServerTypes /\ HandlerTypes /\ ClientTypes /\ OtherTypes
  BY DEF IInv, Types
<1>2. /\ proc[s] # None /\ proc[s].op = "write"
      /\ clients' \in IF proc[s].fate = "unlinked" THEN {clients}
                      ELSE {proc[s].data} \cup (IF proc[s].fate = "over" THEN {Torn} ELSE {})
      /\ rec' = [rec EXCEPT ![c] = Merged(@, hnd[c].msg)]
      /\ hnd' = [hnd EXCEPT ![c] = NextStep(c)]
      /\ proc' = [f EXCEPT ![s] = None]
      /\ UNCHANGED <<startFile, draft, final, startCache, inbox, eof, cl, adm, made,
                     raced, disturbed, wiped, unsaved>>
  BY DEF UpdateWrite
<1>3. Updating(s)
  BY <1>2 DEF Updating
<1>4. /\ c \in Client /\ proc[s].data \in Table
      /\ hnd[c].at = s /\ hnd[c].plan # <<>> /\ Head(hnd[c].plan) = "update"
  BY <1>1, <1>2, <1>3, WorkFacts DEF Busy
<1>5. /\ clients' \in {clients, proc[s].data, Torn}
      /\ proc[s].fate = "clean" => clients' = proc[s].data
  BY <1>2
<1>6. hnd[c].msg \in Messages
  BY <1>1, <1>4 DEF HandlerTypes, MessagesOf
<1>7. /\ f = [t \in Server |-> f[t]]
      /\ \A t \in Server :
           /\ f[t] \in Work \cup {None}
           /\ f[t] # None <=> proc[t] # None
           /\ proc[t] # None =>
                /\ f[t].op = proc[t].op /\ f[t].c = proc[t].c
                /\ proc[t].op \in {"open", "write"} => f[t].data = proc[t].data
                /\ proc[t].op \notin {"write"} => f[t] = proc[t]
  <2>1. f = [t \in Server |-> f[t]]
    BY DEF Fated
  <2>2. "over" \in Fate
    BY DEF Fate
  <2> HIDE DEF f
  <2>3. QED BY <1>1, <2>1, <2>2, FatedFacts DEF f
<1> HIDE DEF c, f
<1>8. /\ proc' \in [Server -> Work \cup {None}]
      /\ proc'[s] = None /\ \A t \in Server \ {s} : proc'[t] = f[t]
  BY <1>2, <1>7
<1>9. \A t \in Server :
        /\ Updating(t)' => t # s /\ Updating(t) /\ proc'[t].data = proc[t].data
        /\ Creating(t)' = Creating(t) /\ (Creating(t) => proc'[t].fate = proc[t].fate)
        /\ proc'[t] # None =>
             /\ t # s /\ proc[t] # None /\ proc'[t].c = proc[t].c
             /\ Updating(t)' = Updating(t)
  BY <1>2, <1>7, <1>8 DEF Updating, Creating
<1>10. /\ HandlerTypes' /\ NextStep(c) \in Handler
       /\ \A d \in Client : hnd'[d].at = hnd[d].at /\ hnd'[d].msg = hnd[d].msg
       /\ \A d \in Client \ {c} : hnd'[d] = hnd[d]
       /\ \A d \in Client : Owes(d)' = Owes(d)
       /\ \A d \in Client :
            /\ hnd'[d].end # "no" => hnd'[d].plan = <<>>
            /\ hnd'[d].end = "eof" /\ hnd[d].end # "eof" => ~GoesOn(d)
  BY <1>1, <1>2, <1>4, Advance
<1>11. Types'
  <2>1. FileTypes'
    BY <1>1, <1>2, <1>4, <1>5 DEF FileTypes
  <2>2. OtherTypes'
    <3>1. rec \in Table /\ rec[c] \in Entry \cup {None}
      BY <1>1, <1>4 DEF OtherTypes, Table
    <3>2. Merged(rec[c], hnd[c].msg) \in Entry
      BY <1>6, <3>1, MergedFacts
    <3>3. rec' \in Table
      BY <1>2, <1>4, <3>1, <3>2 DEF Table
    <3>4. QED BY <1>1, <1>2, <3>3 DEF OtherTypes
  <2>3. QED BY <1>1, <1>2, <1>8, <1>10, <2>1, <2>2 DEF Types, ServerTypes, ClientTypes
<1>12. Busy'
  <2>1. ASSUME NEW t \in Server, proc'[t] # None
        PROVE  hnd'[proc[t].c] = hnd[proc[t].c]
    <3>1. t # s /\ proc[t] # None
      BY <1>9, <2>1
    <3>2. proc[t].c \in Client /\ hnd[proc[t].c].at = t
      BY <1>1, <3>1, WorkFacts DEF Busy
    <3>3. QED BY <1>4, <1>10, <3>1, <3>2
  <2>2. QED BY <1>1, <1>9, <2>1, BusyFrom
<1>13. Ends'
  BY <1>1, <1>2, <1>10, EndsKept
<1>14. Requests'
  BY <1>1, <1>2, <1>10, RequestsKept
<1>15. Kept'
  <2>1. ASSUME ~wiped, NEW x \in Client \ unsaved, clients' \in Table, Says(clients', x)
        PROVE  final[x] # None
    <3>1. CASE clients' = clients
      BY <1>1, <2>1, <3>1 DEF Kept
    <3>2. CASE clients' = proc[s].data
      BY <1>1, <1>3, <2>1, <3>2 DEF Kept
    <3>3. CASE clients' = Torn
      BY <2>1, <3>3, EntryFacts
    <3>4. QED BY <1>5, <3>1, <3>2, <3>3
  <2>2. QED BY <1>1, <1>2, <1>9, <1>10, <2>1 DEF Kept, Says
<1>16. Exact'
  <2> SUFFICES ASSUME ~disturbed, ~wiped
               PROVE  (\A t \in Server : ~Updating(t)') /\ clients' = rec'
    BY <1>2 DEF Exact
  <2>1. \A t \in Server : Updating(t) => t = s
    BY <1>1, <1>3 DEF Exact
  <2>2. \A t \in Server : ~Updating(t)'
    BY <1>9, <2>1
  <2>3. /\ proc[s].data = [rec EXCEPT ![c] = Merged(@, hnd[c].msg)]
        /\ proc[s].fate = "clean"
    BY <1>1, <1>3 DEF Exact, c
  <2>4. QED BY <1>2, <1>5, <2>2, <2>3
<1>17. OneStart'
  BY <1>1, <1>2, <1>9, OneStartKept
<1>18. QED BY <1>11, <1>12, <1>13, <1>14, <1>15, <1>16, <1>17 DEF IInv

\* A start that is found is the one in the file, or was cached here already.
LEMMA StartFoundStep ==
  ASSUME IInv, NEW c \in Client, NEW s \in Server, NEW v \in Nat, hnd[c].at = s,
         proc[s] = None, hnd[c].plan # <<>>, Head(hnd[c].plan) = "start",
         startCache[s] = v \/ startFile = v,
         startCache' = [startCache EXCEPT ![s] = v],
         hnd' = [hnd EXCEPT ![c] = NextStep(c)],
         UNCHANGED <<startFile, clients, draft, final, proc, inbox, eof, cl, adm, made,
                     rec, raced, disturbed, wiped, unsaved>>
  PROVE  IInv'
<1>1. /\ Types /\ Busy /\ Ends /\ Requests /\ Kept /\ Exact /\ OneStart
      /\ FileTypes /\ ServerTypes /\ HandlerTypes /\ ClientTypes /\ OtherTypes
  BY DEF IInv, Types
<1>2. /\ HandlerTypes' /\ NextStep(c) \in Handler
      /\ \A d \in Client : hnd'[d].at = hnd[d].at /\ hnd'[d].msg = hnd[d].msg
      /\ \A d \in Client : Owes(d)' = Owes(d)
      /\ \A d \in Client :
           /\ hnd'[d].end # "no" => hnd'[d].plan = <<>>
           /\ hnd'[d].end = "eof" /\ hnd[d].end # "eof" => ~GoesOn(d)
  BY <1>1, Advance
<1>3. /\ startCache' \in [Server -> Nat \cup {None}] /\ startCache'[s] = v
      /\ \A t \in Server \ {s} : startCache'[t] = startCache[t]
  BY <1>1 DEF ServerTypes
<1>4. Types'
  BY <1>1, <1>2, <1>3 DEF Types, FileTypes, ServerTypes, ClientTypes, OtherTypes
<1>5. Busy'
  BY <1>1, <1>2, BusyKept DEF HandlerTypes
<1>6. Ends'
  BY <1>1, <1>2, EndsKept
<1>7. Requests'
  BY <1>1, <1>2, RequestsKept
<1>8. \A t \in Server : /\ Updating(t)' = Updating(t) /\ Creating(t)' = Creating(t)
                        /\ proc[t] # None => proc[t].c \in Client
  BY <1>1, WorkFacts DEF Updating, Creating
<1>9. Kept'
  BY <1>1, <1>2, <1>8, KeptKept
<1>10. Exact'
  <2>1. \A t \in Server : Updating(t) => proc[t].c \in Client
    BY <1>8 DEF Updating
  <2>2. QED BY <1>1, <1>2, <1>8, <2>1, ExactKept
<1>11. OneStart'
  <2> SUFFICES ASSUME ~raced, ~wiped
               PROVE  /\ \A t \in Server : startCache'[t] # None =>
                           Creating(t) \/ startFile = startCache'[t]
                      /\ \A t \in Server : Creating(t) =>
                           /\ startFile \in {None, Torn} /\ startCache'[t] # None
                           /\ proc[t].fate # "unlinked"
                           /\ \A u \in Server : Creating(u) => u = t
    BY <1>8 DEF OneStart
  <2>1. ~Creating(s) /\ v # None
    BY NothingElse DEF Creating
  <2>2. startFile = v
    BY <1>1, <2>1 DEF OneStart
  <2>3. QED BY <1>1, <1>3, <2>1, <2>2 DEF OneStart
<1>12. QED BY <1>4, <1>5, <1>6, <1>7, <1>9, <1>10, <1>11 DEF IInv

\* A start that is made is the only one, unless another process makes one.
LEMMA StartMadeStep ==
  ASSUME IInv, NEW c \in Client, NEW s \in Server, hnd[c].at = s,
         proc[s] = None, hnd[c].plan # <<>>, Head(hnd[c].plan) = "start",
         startFile \in {None, Torn},
         made' = made + 1,
         startCache' = [startCache EXCEPT ![s] = made'],
         proc' = [proc EXCEPT ![s] = [op |-> "startopen", c |-> c, fate |-> "clean"]],
         raced' = (raced \/ \E t \in Server : Creating(t)),
         UNCHANGED <<startFile, clients, draft, final, hnd, inbox, eof, cl, adm,
                     rec, disturbed, wiped, unsaved>>
  PROVE  IInv'
<1> DEFINE w == [op |-> "startopen", c |-> c, fate |-> "clean"]
<1>1. /\ Types /\ Busy /\ Ends /\ Requests /\ Kept /\ Exact /\ OneStart
      /\ FileTypes /\ ServerTypes /\ HandlerTypes /\ ClientTypes /\ OtherTypes
  BY DEF IInv, Types
<1>2. w \in Work /\ w # None /\ w.op = "startopen" /\ w.c = c /\ w.fate = "clean"
  <2>1. w \in [op : {"startopen", "startwrite"}, c : Client, fate : Fate]
    BY DEF Fate
  <2>2. w \in Work
    BY <2>1 DEF Work
  <2>3. QED BY <2>2, NothingElse
<1>3. proc' = [proc EXCEPT ![s] = w]
  OBVIOUS
<1> HIDE DEF w
<1>4. /\ proc' \in [Server -> Work \cup {None}]
      /\ proc'[s] = w /\ \A t \in Server \ {s} : proc'[t] = proc[t]
  BY <1>1, <1>2, <1>3 DEF ServerTypes
<1>5. /\ made' \in Nat /\ startCache' \in [Server -> Nat \cup {None}]
      /\ startCache'[s] = made'
      /\ \A t \in Server \ {s} : startCache'[t] = startCache[t]
  BY <1>1 DEF ServerTypes, OtherTypes
<1>6. /\ Creating(s)' /\ ~Creating(s)
      /\ \A t \in Server \ {s} : Creating(t)' = Creating(t)
      /\ \A t \in Server :
           /\ Updating(t)' = Updating(t)
           /\ Updating(t) => t # s /\ proc[t].c \in Client /\ proc'[t] = proc[t]
  <2>1. Creating(s)' /\ ~Creating(s) /\ Updating(s)' = Updating(s) /\ ~Updating(s)
    BY <1>2, <1>4 DEF Creating, Updating
  <2>2. \A t \in Server \ {s} :
          /\ Creating(t)' = Creating(t) /\ Updating(t)' = Updating(t)
          /\ Updating(t) => proc[t].c \in Client /\ proc'[t] = proc[t]
    BY <1>1, <1>4, WorkFacts DEF Creating, Updating
  <2>3. QED BY <2>1, <2>2
<1>7. Types'
  <2>1. raced' \in BOOLEAN
    BY <1>1 DEF OtherTypes
  <2>2. QED BY <1>1, <1>4, <1>5, <2>1
            DEF Types, FileTypes, ServerTypes, HandlerTypes, ClientTypes, OtherTypes
<1>8. Busy'
  <2>1. ~Updating(s)'
    BY <1>2, <1>4 DEF Updating
  <2>2. QED BY <1>1, <1>2, <1>3, <2>1, BusyBegun
<1>9. Ends' /\ Requests'
  BY <1>1 DEF Ends, Requests, Request, Owes
<1>10. Kept'
  BY <1>1, <1>6, KeptKept
<1>11. Exact'
  BY <1>1, <1>6, ExactKept
<1>12. OneStart'
  <2> SUFFICES ASSUME ~raced', ~wiped
               PROVE  /\ \A t \in Server : startCache'[t] # None =>
                           Creating(t)' \/ startFile = startCache'[t]
                      /\ \A t \in Server : Creating(t)' =>
                           /\ startFile \in {None, Torn} /\ startCache'[t] # None
                           /\ proc'[t].fate # "unlinked"
                           /\ \A u \in Server : Creating(u)' => u = t
    BY DEF OneStart
  <2>1. ~raced /\ \A t \in Server : ~Creating(t)
    OBVIOUS
  <2>2. \A t \in Server : Creating(t)' => t = s
    BY <1>6, <2>1
  <2>3. made' # None
    BY <1>5, NothingElse
  <2>4. \A t \in Server \ {s} : startCache'[t] # None => startFile = startCache'[t]
    BY <1>1, <1>5, <2>1 DEF OneStart
  <2>5. QED BY <1>2, <1>4, <1>5, <1>6, <2>2, <2>3, <2>4
<1>13. QED BY <1>7, <1>8, <1>9, <1>10, <1>11, <1>12 DEF IInv

LEMMA GetStartStep ==
  ASSUME IInv, NEW c \in Client, GetStart(c)
  PROVE  IInv'
<1>1. PICK s \in Server : s = hnd[c].at
  BY DEF IInv, Types, HandlerTypes, Handler
<1>2. /\ proc[s] = None /\ hnd[c].plan # <<>> /\ Head(hnd[c].plan) = "start"
      /\ UNCHANGED <<startFile, clients, draft, final, inbox, eof, cl, adm, rec, disturbed,
                     wiped, unsaved>>
  BY <1>1 DEF GetStart, Due, Running, files
<1>3. PICK cache \in CacheChoices(s) :
        IF StartFound(cache) # None
          THEN /\ startCache' = [startCache EXCEPT ![s] = StartFound(cache)]
               /\ hnd' = [hnd EXCEPT ![c] = NextStep(c)]
               /\ UNCHANGED <<proc, made, raced>>
          ELSE /\ made' = made + 1
               /\ startCache' = [startCache EXCEPT ![s] = made']
               /\ proc' = [proc EXCEPT ![s] =
                     [op |-> "startopen", c |-> c, fate |-> "clean"]]
               /\ raced' = (raced \/ \E t \in Server : Creating(t))
               /\ UNCHANGED hnd
  BY <1>1 DEF GetStart
<1>4. cache = None \/ cache = startCache[s]
  BY <1>3 DEF CacheChoices
<1>5. startFile \in Nat \cup {None, Torn} /\ startCache[s] \in Nat \cup {None}
  BY DEF IInv, Types, FileTypes, ServerTypes
<1>6. CASE StartFound(cache) # None
  <2>1. /\ StartFound(cache) \in Nat
        /\ startCache[s] = StartFound(cache) \/ startFile = StartFound(cache)
    BY <1>4, <1>5, <1>6 DEF StartFound
  <2>2. PICK v \in Nat : v = StartFound(cache)
    BY <2>1
  <2>3. QED BY <1>1, <1>2, <1>3, <1>6, <2>1, <2>2, StartFoundStep
<1>7. CASE StartFound(cache) = None
  <2>1. startFile \in {None, Torn}
    BY <1>5, <1>7 DEF StartFound
  <2>2. QED BY <1>1, <1>2, <1>3, <1>7, <2>1, StartMadeStep
<1>8. QED BY <1>6, <1>7

LEMMA StartOpenStep ==
  ASSUME IInv, NEW s \in Server, StartOpen(s)
  PROVE  IInv'
<1> DEFINE w == [proc[s] EXCEPT !.op = "startwrite"]
<1>1. /\ Types /\ Busy /\ Ends /\ Requests /\ Kept /\ Exact /\ OneStart
      /\ FileTypes /\ ServerTypes /\ HandlerTypes /\ ClientTypes /\ OtherTypes
  BY DEF IInv, Types
<1>2. /\ proc[s] # None /\ proc[s].op = "startopen"
      /\ startFile' = Torn
      /\ proc' = [proc EXCEPT ![s].op = "startwrite"]
      /\ UNCHANGED <<clients, draft, final, startCache, hnd, inbox, eof, cl, adm,
                     made, rec, raced, disturbed, wiped, unsaved>>
  BY DEF StartOpen, history
<1>3. /\ w \in Work /\ w.op = "startwrite" /\ w.c = proc[s].c /\ w.fate = proc[s].fate
  <2>1. proc[s] \in [op : {"startopen", "startwrite"}, c : Client, fate : Fate]
    BY <1>1, <1>2 DEF ServerTypes, Work
  <2>2. w \in [op : {"startopen", "startwrite"}, c : Client, fate : Fate]
    BY <2>1
  <2>3. QED BY <2>1, <2>2 DEF Work
<1>4. proc' = [proc EXCEPT ![s] = w]
  BY <1>2
<1> HIDE DEF w
<1>5. /\ w # None /\ proc' \in [Server -> Work \cup {None}]
      /\ proc'[s] = w /\ \A t \in Server \ {s} : proc'[t] = proc[t]
  BY <1>1, <1>3, <1>4, NothingElse DEF ServerTypes
<1>6. \A t \in Server :
        /\ Updating(t)' = Updating(t) /\ Creating(t)' = Creating(t)
        /\ Updating(t) => proc'[t] = proc[t] /\ proc[t].c \in Client
        /\ proc'[t] # None => proc[t] # None
        /\ proc[t] # None => proc'[t].c = proc[t].c /\ proc'[t].fate = proc[t].fate
  <2>1. \A t \in Server : Updating(t) => proc[t].c \in Client
    BY <1>1, WorkFacts DEF Updating
  <2>2. QED BY <1>2, <1>3, <1>5, <2>1 DEF Updating, Creating
<1>7. Types'
  BY <1>1, <1>2, <1>5 DEF Types, FileTypes, ServerTypes, HandlerTypes, ClientTypes, OtherTypes
<1>8. Busy'
  BY <1>1, <1>2, <1>6, BusyFrom
<1>9. Ends' /\ Requests'
  BY <1>1, <1>2 DEF Ends, Requests, Request, Owes
<1>10. Kept'
  BY <1>1, <1>2, <1>6, KeptKept
<1>11. Exact'
  BY <1>1, <1>2, <1>6, ExactKept
\* Nobody but the process that makes it has a start while the file has none.
<1>12. OneStart'
  <2> SUFFICES ASSUME ~raced, ~wiped
               PROVE  /\ \A t \in Server : startCache[t] # None =>
                           Creating(t) \/ Torn = startCache[t]
                      /\ \A t \in Server : Creating(t) =>
                           /\ startCache[t] # None /\ proc[t].fate # "unlinked"
                           /\ \A u \in Server : Creating(u) => u = t
    <3>1. \A t \in Server : Creating(t) => proc'[t].fate = proc[t].fate
      BY <1>6 DEF Creating
    <3>2. QED BY <1>2, <1>6, <3>1 DEF OneStart
  <2>1. Creating(s)
    BY <1>2 DEF Creating
  <2>2. startFile \in {None, Torn}
    BY <1>1, <2>1 DEF OneStart
  <2>3. ASSUME NEW t \in Server, startCache[t] # None
        PROVE  Creating(t)
    <3>1. Creating(t) \/ startFile = startCache[t]
      BY <1>1, <2>3 DEF OneStart
    <3>2. startCache[t] \in Nat
      BY <1>1, <2>3 DEF ServerTypes
    <3>3. QED BY <2>2, <3>1, <3>2, NothingElse
  <2>4. QED BY <1>1, <2>3 DEF OneStart
<1>13. QED BY <1>7, <1>8, <1>9, <1>10, <1>11, <1>12 DEF IInv

LEMMA StartWriteStep ==
  ASSUME IInv, NEW s \in Server, StartWrite(s)
  PROVE  IInv'
<1>1. /\ Types /\ Busy /\ Ends /\ Requests /\ Kept /\ Exact /\ OneStart
      /\ FileTypes /\ ServerTypes /\ HandlerTypes /\ ClientTypes /\ OtherTypes
  BY DEF IInv, Types
<1>2. PICK c \in Client : c = proc[s].c
  BY <1>1, WorkFacts DEF StartWrite
<1>3. /\ proc[s] # None /\ proc[s].op = "startwrite"
      /\ startFile' = IF proc[s].fate = "unlinked" THEN startFile ELSE startCache[s]
      /\ hnd' = [hnd EXCEPT ![c] = NextStep(c)]
      /\ proc' = [proc EXCEPT ![s] = None]
      /\ UNCHANGED <<clients, draft, final, startCache, inbox, eof, cl, adm,
                     made, rec, raced, disturbed, wiped, unsaved>>
  BY <1>2 DEF StartWrite, history
<1>4. Creating(s) /\ ~Updating(s)
  BY <1>3 DEF Creating, Updating
<1>5. hnd[c].at = s /\ hnd[c].plan # <<>> /\ Head(hnd[c].plan) = "start"
  BY <1>1, <1>2, <1>3, <1>4 DEF Busy
<1>6. /\ proc' \in [Server -> Work \cup {None}]
      /\ proc'[s] = None /\ \A t \in Server \ {s} : proc'[t] = proc[t]
  BY <1>1, <1>3 DEF ServerTypes
<1>7. \A t \in Server :
        /\ Updating(t)' = Updating(t)
        /\ Creating(t)' => t # s /\ Creating(t)
        /\ Updating(t) => proc'[t] = proc[t] /\ proc[t].c \in Client
        /\ proc'[t] # None => t # s /\ proc'[t] = proc[t]
  <2>1. \A t \in Server : Updating(t) => proc[t].c \in Client /\ t # s
    BY <1>1, <1>4, WorkFacts DEF Updating
  <2>2. QED BY <1>4, <1>6, <2>1 DEF Updating, Creating
<1>8. /\ HandlerTypes' /\ NextStep(c) \in Handler
      /\ \A d \in Client : hnd'[d].at = hnd[d].at /\ hnd'[d].msg = hnd[d].msg
      /\ \A d \in Client \ {c} : hnd'[d] = hnd[d]
      /\ \A d \in Client : Owes(d)' = Owes(d)
      /\ \A d \in Client :
           /\ hnd'[d].end # "no" => hnd'[d].plan = <<>>
           /\ hnd'[d].end = "eof" /\ hnd[d].end # "eof" => ~GoesOn(d)
  BY <1>1, <1>3, <1>5, Advance
<1>9. Types'
  <2>1. FileTypes'
    BY <1>1, <1>3 DEF FileTypes, ServerTypes
  <2>2. QED BY <1>1, <1>3, <1>6, <1>8, <2>1 DEF Types, ServerTypes, ClientTypes, OtherTypes
<1>10. Busy'
  <2>1. ASSUME NEW t \in Server, proc'[t] # None
        PROVE  /\ proc[t] # None /\ proc'[t].c = proc[t].c
               /\ hnd'[proc[t].c] = hnd[proc[t].c]
    <3>1. t # s /\ proc[t] # None /\ proc'[t] = proc[t]
      BY <1>7, <2>1
    <3>2. proc[t].c \in Client /\ hnd[proc[t].c].at = t
      BY <1>1, <3>1, WorkFacts DEF Busy
    <3>3. QED BY <1>5, <1>8, <3>1, <3>2
  <2>2. QED BY <1>1, <1>7, <2>1, BusyFrom
<1>11. Ends'
  BY <1>1, <1>3, <1>8, EndsKept
<1>12. Requests'
  BY <1>1, <1>3, <1>8, RequestsKept
<1>13. Kept'
  BY <1>1, <1>3, <1>7, <1>8, KeptKept
<1>14. Exact'
  BY <1>1, <1>3, <1>7, <1>8, ExactKept
<1>15. OneStart'
  <2> SUFFICES ASSUME ~raced, ~wiped
               PROVE  /\ \A t \in Server : startCache[t] # None => startFile' = startCache[t]
                      /\ \A t \in Server : ~Creating(t)'
    BY <1>3 DEF OneStart
  <2>1. /\ startFile \in {None, Torn} /\ startFile' = startCache[s]
        /\ \A t \in Server : Creating(t) => t = s
    BY <1>1, <1>3, <1>4 DEF OneStart
  <2>2. ASSUME NEW t \in Server, startCache[t] # None
        PROVE  t = s
    <3>1. Creating(t) \/ startFile = startCache[t]
      BY <1>1, <2>2 DEF OneStart
    <3>2. startCache[t] \in Nat
      BY <1>1, <2>2 DEF ServerTypes
    <3>3. QED BY <2>1, <3>1, <3>2, NothingElse
  <2>3. QED BY <1>7, <2>1, <2>2
<1>16. QED BY <1>9, <1>10, <1>11, <1>12, <1>13, <1>14, <1>15 DEF IInv

-----------------------------------------------------------------------------
(* The administrator, and a process that dies.                             *)

LEMMA ResetClientsStep ==
  ASSUME IInv, ResetClients
  PROVE  IInv'
<1>1. /\ Types /\ Busy /\ Ends /\ Requests /\ Kept /\ Exact /\ OneStart
      /\ FileTypes /\ ServerTypes /\ HandlerTypes /\ ClientTypes /\ OtherTypes
  BY DEF IInv, Types
<1>2. /\ wiped' = TRUE /\ adm' = "start" /\ clients' = None
      /\ proc' = Fated({"write"}, "unlinked")
      /\ UNCHANGED <<startFile, draft, final, startCache, hnd, inbox, eof, cl,
                     made, rec, raced, disturbed, unsaved>>
  BY DEF ResetClients
<1>3. "unlinked" \in Fate
  BY DEF Fate
<1>4. \A t \in Server :
        /\ proc'[t] \in Work \cup {None}
        /\ proc'[t] # None => proc[t] # None /\ proc'[t].op = proc[t].op /\ proc'[t].c = proc[t].c
  BY <1>1, <1>2, <1>3, FatedFacts
<1>5. proc' \in [Server -> Work \cup {None}]
  BY <1>2, <1>4 DEF Fated
<1>6. Types'
  BY <1>1, <1>2, <1>5 DEF Types, FileTypes, ServerTypes, HandlerTypes, ClientTypes, OtherTypes
<1>7. Busy'
  BY <1>1, <1>2, <1>4, BusyFrom DEF Updating
<1>8. Ends' /\ Requests'
  BY <1>1, <1>2 DEF Ends, Requests, Request, Owes
<1>9. Kept' /\ Exact' /\ OneStart'
  BY <1>2 DEF Kept, Exact, OneStart
<1>10. QED BY <1>6, <1>7, <1>8, <1>9 DEF IInv

LEMMA ResetStartStep ==
  ASSUME IInv, ResetStart
  PROVE  IInv'
<1>1. /\ Types /\ Busy /\ Ends /\ Requests /\ Kept /\ Exact /\ OneStart
      /\ FileTypes /\ ServerTypes /\ HandlerTypes /\ ClientTypes /\ OtherTypes
  BY DEF IInv, Types
<1>2. /\ adm = "start" /\ adm' = "answers" /\ startFile' = None
      /\ proc' = Fated({"startwrite"}, "unlinked")
      /\ UNCHANGED <<clients, draft, final, startCache, hnd, inbox, eof, cl,
                     made, rec, raced, disturbed, wiped, unsaved>>
  BY DEF ResetStart, history
<1>3. "unlinked" \in Fate
  BY DEF Fate
<1>4. \A t \in Server :
        /\ proc'[t] \in Work \cup {None}
        /\ proc'[t] # None => proc[t] # None /\ proc'[t].op = proc[t].op /\ proc'[t].c = proc[t].c
  BY <1>1, <1>2, <1>3, FatedFacts
<1>5. proc' \in [Server -> Work \cup {None}]
  BY <1>2, <1>4 DEF Fated
<1>6. Types'
  BY <1>1, <1>2, <1>5 DEF Types, FileTypes, ServerTypes, HandlerTypes, ClientTypes, OtherTypes
<1>7. Busy'
  BY <1>1, <1>2, <1>4, BusyFrom DEF Updating
<1>8. Ends' /\ Requests'
  BY <1>1, <1>2 DEF Ends, Requests, Request, Owes
<1>9. wiped /\ wiped'
  BY <1>1, <1>2 DEF Kept
<1>10. Kept' /\ Exact' /\ OneStart'
  BY <1>9 DEF Kept, Exact, OneStart
<1>11. QED BY <1>6, <1>7, <1>8, <1>10 DEF IInv

LEMMA ResetAnswersStep ==
  ASSUME IInv, ResetAnswers
  PROVE  IInv'
<1>1. /\ Types /\ Busy /\ Ends /\ Requests /\ Kept /\ Exact /\ OneStart
      /\ FileTypes /\ ServerTypes /\ HandlerTypes /\ ClientTypes /\ OtherTypes
  BY DEF IInv, Types
<1>2. /\ adm = "answers" /\ adm' = "idle" /\ draft' = NoEntries /\ final' = NoEntries
      /\ UNCHANGED <<startFile, clients, startCache, proc, hnd, inbox, eof, cl,
                     made, rec, raced, disturbed, wiped, unsaved>>
  BY DEF ResetAnswers, history
<1>3. NoEntries \in [Client -> Texts]
  BY DEF NoEntries, Texts, Answers
<1>4. Types'
  BY <1>1, <1>2, <1>3 DEF Types, FileTypes, ServerTypes, HandlerTypes, ClientTypes, OtherTypes
<1>5. Busy'
  BY <1>1, <1>2, BusySame
<1>6. Ends' /\ Requests'
  BY <1>1, <1>2 DEF Ends, Requests, Request, Owes
<1>7. wiped /\ wiped'
  BY <1>1, <1>2 DEF Kept
<1>8. Kept' /\ Exact' /\ OneStart'
  BY <1>7 DEF Kept, Exact, OneStart
<1>9. QED BY <1>4, <1>5, <1>6, <1>8 DEF IInv

\* The connections of a process that dies end, and what it was doing stays half
\* done.
LEMMA DieStep ==
  ASSUME IInv, NEW s \in Server, Die(s),
         draft' \in [Client -> Texts], final' \in [Client -> Texts],
         \A c \in Client \ unsaved' : c \notin unsaved /\ final'[c] = final[c]
  PROVE  IInv'
<1>1. /\ Types /\ Busy /\ Ends /\ Requests /\ Kept /\ Exact /\ OneStart
      /\ FileTypes /\ ServerTypes /\ HandlerTypes /\ ClientTypes /\ OtherTypes
  BY DEF IInv, Types
<1>2. /\ disturbed' = (disturbed \/ Updating(s))
      /\ proc' = [proc EXCEPT ![s] = None]
      /\ startCache' = [startCache EXCEPT ![s] = None]
      /\ hnd' = [c \in Client |-> IF hnd[c].at = s THEN Ended(c, "crash") ELSE hnd[c]]
      /\ cl' = [c \in Client |-> IF hnd[c].at = s /\ cl[c].st # "done"
                                  THEN [cl[c] EXCEPT !.st = "gone"] ELSE cl[c]]
      /\ UNCHANGED <<startFile, clients, inbox, eof, adm, made, rec, raced, wiped>>
  BY DEF Die
<1>3. \A c \in Client :
        /\ hnd[c].at # s => hnd'[c] = hnd[c] /\ cl'[c] = cl[c]
        /\ hnd[c].at = s => cl'[c].st \in {"done", "gone"} /\ hnd'[c].end = "crash"
                             /\ hnd'[c].plan = <<>>
        /\ hnd'[c] \in Handler /\ hnd'[c].msg = hnd[c].msg /\ hnd'[c].at = hnd[c].at
        /\ cl'[c] \in ClientState /\ cl'[c].at = cl[c].at
        /\ cl'[c].st = "done" => cl[c].st = "done"
        /\ cl[c].st \in {"done", "gone"} => cl'[c].st \in {"done", "gone"}
  <2> SUFFICES ASSUME NEW c \in Client
               PROVE  /\ hnd[c].at # s => hnd'[c] = hnd[c] /\ cl'[c] = cl[c]
                      /\ hnd[c].at = s => cl'[c].st \in {"done", "gone"}
                                          /\ hnd'[c].end = "crash" /\ hnd'[c].plan = <<>>
                      /\ hnd'[c] \in Handler /\ hnd'[c].msg = hnd[c].msg
                      /\ hnd'[c].at = hnd[c].at
                      /\ cl'[c] \in ClientState /\ cl'[c].at = cl[c].at
                      /\ cl'[c].st = "done" => cl[c].st = "done"
                      /\ cl[c].st \in {"done", "gone"} => cl'[c].st \in {"done", "gone"}
    OBVIOUS
  <2>1. hnd[c] \in Handler /\ cl[c] \in ClientState
    BY <1>1 DEF HandlerTypes, ClientTypes
  <2>2. CASE hnd[c].at # s
    <3>1. hnd'[c] = hnd[c] /\ cl'[c] = cl[c]
      BY <1>2, <2>2
    <3>2. QED BY <2>1, <2>2, <3>1
  <2>3. CASE hnd[c].at = s
    <3>1. hnd'[c] = [hnd[c] EXCEPT !.plan = <<>>, !.end = "crash"]
      BY <1>2, <2>3 DEF Ended
    <3>2. /\ hnd'[c] \in Handler /\ hnd'[c].msg = hnd[c].msg /\ hnd'[c].at = hnd[c].at
          /\ hnd'[c].end = "crash" /\ hnd'[c].plan = <<>>
      BY <2>1, <3>1, PlanFacts DEF Handler
    <3>3. cl'[c] = IF cl[c].st # "done" THEN [cl[c] EXCEPT !.st = "gone"] ELSE cl[c]
      BY <1>2, <2>3
    <3>4. /\ cl'[c] \in ClientState /\ cl'[c].at = cl[c].at
          /\ cl'[c].st \in {"done", "gone"}
          /\ cl'[c].st = "done" => cl[c].st = "done"
      BY <2>1, <3>3 DEF ClientState
    <3>5. QED BY <2>3, <3>2, <3>4
  <2>4. QED BY <2>2, <2>3
<1>4. /\ proc' \in [Server -> Work \cup {None}]
      /\ proc'[s] = None /\ \A t \in Server \ {s} : proc'[t] = proc[t]
      /\ startCache' \in [Server -> Nat \cup {None}]
      /\ startCache'[s] = None /\ \A t \in Server \ {s} : startCache'[t] = startCache[t]
  BY <1>1, <1>2 DEF ServerTypes
<1>5. /\ ~Updating(s)' /\ ~Creating(s)'
      /\ \A t \in Server \ {s} : Updating(t)' = Updating(t) /\ Creating(t)' = Creating(t)
  BY <1>4 DEF Updating, Creating
<1>6. Types'
  <2>1. HandlerTypes'
    <3>1. hnd' \in [Client -> Handler]
      BY <1>2, <1>3
    <3>2. \A c \in Client : hnd'[c].plan # <<>> => hnd'[c].msg # None
      BY <1>1, <1>3 DEF HandlerTypes
    <3>3. QED BY <1>1, <1>3, <3>1, <3>2 DEF HandlerTypes
  <2>2. ClientTypes'
    <3>1. cl' \in [Client -> ClientState]
      BY <1>2, <1>3
    <3>2. QED BY <1>1, <1>2, <1>3, <3>1 DEF ClientTypes
  <2>3. OtherTypes'
    <3>1. disturbed' \in BOOLEAN
      BY <1>1, <1>2 DEF OtherTypes, Updating
    <3>2. QED BY <1>1, <1>2, <3>1 DEF OtherTypes
  <2>4. QED BY <1>1, <1>2, <1>4, <2>1, <2>2, <2>3 DEF Types, FileTypes, ServerTypes
<1>7. Busy'
  <2>1. ASSUME NEW t \in Server, proc'[t] # None
        PROVE  /\ proc[t] # None /\ proc'[t].c = proc[t].c /\ Updating(t)' = Updating(t)
               /\ hnd'[proc[t].c] = hnd[proc[t].c]
    <3>1. t # s /\ proc[t] # None /\ proc'[t] = proc[t]
      BY <1>4, <2>1
    <3>2. proc[t].c \in Client /\ hnd[proc[t].c].at = t
      BY <1>1, <3>1, WorkFacts DEF Busy
    <3>3. QED BY <1>3, <1>5, <3>1, <3>2
  <2>2. QED BY <1>1, <2>1, BusyFrom
<1>8. Ends'
  BY <1>1, <1>2, <1>3 DEF Ends
<1>9. Requests'
  <2>1. ASSUME NEW c \in Client
        PROVE  Request(c)'
    <3>1. CASE hnd[c].at = s
      BY <1>3, <3>1 DEF Request
    <3>2. CASE hnd[c].at # s
      <4>1. hnd'[c] = hnd[c] /\ cl'[c] = cl[c] /\ Owes(c)' = Owes(c) /\ Request(c)
        BY <1>1, <1>3, <3>2 DEF Owes, Requests
      <4>2. QED BY <1>2, <4>1, RequestSame
    <3>3. QED BY <3>1, <3>2
  <2>2. QED BY <2>1 DEF Requests
<1>10. Kept'
  <2>1. \A t \in Server : Updating(t)' => Updating(t) /\ proc'[t].data = proc[t].data
    BY <1>4, <1>5
  <2>2. QED BY <1>1, <1>2, <1>3, <2>1 DEF Kept, Says
<1>11. Exact'
  <2> SUFFICES ASSUME ~disturbed', ~wiped'
               PROVE  Exact'
    BY DEF Exact
  <2>1. ~disturbed /\ ~Updating(s)
    BY <1>2
  <2>2. ASSUME NEW t \in Server
        PROVE  /\ Updating(t)' = Updating(t)
               /\ Updating(t) => proc'[t] = proc[t] /\ proc[t].c \in Client
    <3>1. CASE t = s
      BY <1>4, <2>1, <3>1 DEF Updating
    <3>2. CASE t # s
      BY <1>1, <1>4, <1>5, <3>2, WorkFacts DEF Updating
    <3>3. QED BY <3>1, <3>2
  <2>3. disturbed' = disturbed
    BY <1>1, <1>2, <2>1 DEF OtherTypes
  <2>4. QED BY <1>1, <1>2, <1>3, <2>2, <2>3, ExactKept
<1>12. OneStart'
  BY <1>1, <1>2, <1>4, <1>5 DEF OneStart
<1>13. QED BY <1>6, <1>7, <1>8, <1>9, <1>10, <1>11, <1>12 DEF IInv

LEMMA CrashStep ==
  ASSUME IInv, NEW s \in Server, Crash(s)
  PROVE  IInv'
<1>1. Die(s) /\ UNCHANGED <<draft, final, unsaved>>
  BY DEF Crash
<1>2. draft \in [Client -> Texts] /\ final \in [Client -> Texts]
  BY DEF IInv, Types, FileTypes
<1>3. QED BY <1>1, <1>2, DieStep

LEMMA CrashSavingStep ==
  ASSUME IInv, NEW c \in Client, CrashSaving(c)
  PROVE  IInv'
<1> DEFINE m == Head(inbox[c])
<1>1. inbox[c] # <<>> /\ StoredInPart(c, m) /\ Die(hnd[c].at)
  BY DEF CrashSaving
<1>2. FileTypes /\ hnd[c].at \in Server /\ m.answers \in Answers
  <2>1. FileTypes /\ hnd[c] \in Handler /\ inbox[c] \in Seq(Messages)
    BY DEF IInv, Types, HandlerTypes, ClientTypes
  <2>2. m \in Messages
    BY <1>1, <2>1
  <2>3. QED BY <2>1, <2>2 DEF Handler, Messages
<1> HIDE DEF m
<1>3. /\ draft' \in [Client -> Texts] /\ final' \in [Client -> Texts]
      /\ \A d \in Client \ unsaved' : d \notin unsaved /\ final'[d] = final[d]
  BY <1>1, <1>2, SaveFacts
<1>4. QED BY <1>1, <1>2, <1>3, DieStep

-----------------------------------------------------------------------------
(* The theorems.                                                           *)

LEMMA Start ==
  ASSUME Init
  PROVE  IInv
<1>1. PICK home \in [Client -> Server] : hnd = [c \in Client |-> NewHandler(home[c])]
  BY DEF Init
<1>2. /\ startFile = None /\ clients = None
      /\ startCache = [s \in Server |-> None]
      /\ draft = NoEntries /\ final = NoEntries
      /\ proc = [s \in Server |-> None]
      /\ inbox = [c \in Client |-> <<>>]
      /\ eof = [c \in Client |-> FALSE]
      /\ cl = [c \in Client |-> [at |-> 1, st |-> "ready"]]
      /\ adm = "idle" /\ made = 0 /\ rec = NoEntries
      /\ raced = FALSE /\ disturbed = FALSE /\ wiped = FALSE /\ unsaved = {}
  BY DEF Init
<1>3. \A c \in Client :
        /\ hnd[c] \in Handler /\ hnd[c].msg = None /\ hnd[c].plan = <<>> /\ hnd[c].end = "no"
  BY <1>1, PlanFacts DEF NewHandler, Handler
<1>4. \A c \in Client : cl[c].at = 1 /\ cl[c].st = "ready" /\ cl[c] \in ClientState
  BY <1>2 DEF ClientState
<1>5. HandlerTypes
  BY <1>1, <1>3 DEF HandlerTypes
<1>6. ClientTypes
  <2>1. inbox \in [Client -> Seq(Messages)] /\ \A c \in Client : DOMAIN inbox[c] = {}
    BY <1>2
  <2>2. ASSUME NEW c \in Client
        PROVE  1 \in 1 .. Len(Script(c)) + 1
    <3>1. PICK n \in Nat : n = Len(Script(c)) /\ n >= 1
      BY ScriptFacts
    <3>2. QED BY <3>1
  <2>3. cl \in [Client -> ClientState]
    BY <1>2, <1>4
  <2>4. QED BY <1>2, <1>4, <2>1, <2>2, <2>3 DEF ClientTypes
<1>7. Types
  <2>1. FileTypes
    BY <1>2 DEF FileTypes, NoEntries, Texts, Answers
  <2>2. ServerTypes
    BY <1>2 DEF ServerTypes
  <2>3. OtherTypes
    BY <1>2, EntryFacts DEF OtherTypes
  <2>4. QED BY <1>5, <1>6, <2>1, <2>2, <2>3 DEF Types
<1>8. \A s \in Server : proc[s] = None /\ ~Updating(s) /\ ~Creating(s) /\ startCache[s] = None
  BY <1>2 DEF Updating, Creating
<1>9. Busy /\ Ends
  BY <1>2, <1>3, <1>8 DEF Busy, Ends
<1>10. Requests
  <2> SUFFICES ASSUME NEW c \in Client PROVE Request(c)
    BY DEF Requests
  <2>1. ~Owes(c) /\ DOMAIN inbox[c] = {}
    BY <1>2, <1>3, PlanFacts DEF Owes
  <2>2. 1 <= Len(Script(c))
    BY ScriptFacts
  <2>3. QED BY <1>4, <2>1, <2>2 DEF Request
<1>11. Kept
  BY <1>2, <1>3, <1>4, <1>8, EntryFacts DEF Kept, NoEntries
<1>12. Exact /\ OneStart
  BY <1>2, <1>8 DEF Exact, OneStart
<1>13. QED BY <1>7, <1>9, <1>10, <1>11, <1>12 DEF IInv

LEMMA Step ==
  ASSUME IInv, [Next]_vars
  PROVE  IInv'
<1>1. ASSUME NEW c \in Client,
             \/ Send(c) \/ Autosave(c) \/ Leave(c)
             \/ Recv(c) \/ RecvTimeout(c) \/ Collected(c)
             \/ Reply(c) \/ UpdateRead(c) \/ GetStart(c) \/ CrashSaving(c)
      PROVE  IInv'
  BY <1>1, SendStep, AutosaveStep, LeaveStep, RecvStep, TimeoutStep, CollectedStep, ReplyStep,
     UpdateReadStep, GetStartStep, CrashSavingStep
<1>2. ASSUME NEW s \in Server,
             \/ UpdateOpen(s) \/ UpdateWrite(s) \/ StartOpen(s) \/ StartWrite(s)
             \/ Crash(s)
      PROVE  IInv'
  BY <1>2, UpdateOpenStep, UpdateWriteStep, StartOpenStep, StartWriteStep, CrashStep
<1>3. CASE ResetClients \/ ResetStart \/ ResetAnswers
  BY <1>3, ResetClientsStep, ResetStartStep, ResetAnswersStep
<1>4. CASE UNCHANGED vars
  <2>1. UNCHANGED <<startFile, clients, draft, final, startCache, proc, hnd, inbox, eof, cl,
                    adm, made, rec, raced, disturbed, wiped, unsaved>>
    BY <1>4 DEF vars, files, history
  <2>2. /\ Types /\ Busy /\ Ends /\ Requests /\ Kept /\ Exact /\ OneStart
        /\ FileTypes /\ ServerTypes /\ HandlerTypes /\ ClientTypes /\ OtherTypes
    BY DEF IInv, Types
  <2>3. Types'
    BY <2>1, <2>2 DEF Types, FileTypes, ServerTypes, HandlerTypes, ClientTypes, OtherTypes
  <2>4. Busy'
    BY <2>1, <2>2, BusySame
  <2>5. Ends' /\ Requests'
    BY <2>1, <2>2 DEF Ends, Requests, Request, Owes
  <2>6. Kept' /\ Exact' /\ OneStart'
    BY <2>1, <2>2, WorkKept, WorkFacts
  <2>7. QED BY <2>3, <2>4, <2>5, <2>6 DEF IInv
<1>5. QED BY <1>1, <1>2, <1>3, <1>4 DEF Next

\* What the sessions, the files and the processes keep at every step.
THEOREM Inductive == Spec => []IInv
<1>1. Init => IInv
  BY Start
<1>2. IInv /\ [Next]_vars => IInv'
  BY Step
<1>3. QED BY <1>1, <1>2, PTL DEF Spec

\* Every variable keeps its type, and a process that is at work on a file does
\* so for one handler, which waits for it with that very step to do.
THEOREM TypeCorrect == Spec => []TypeOK
<1>1. IInv => TypeOK
  <2> SUFFICES ASSUME IInv PROVE TypeOK
    OBVIOUS
  <2>1. FileTypes /\ ServerTypes /\ ClientTypes /\ Busy
    BY DEF IInv, Types
  <2>2. clients \in {None, Torn} \/ DOMAIN clients = Client
    BY <2>1 DEF FileTypes, Table
  <2>3. {draft, final} \subseteq [Client -> {None, Torn, "full", "blank"}]
    <3>1. Texts = {None, Torn, "full", "blank"}
      BY DEF Texts, Answers
    <3>2. QED BY <2>1, <3>1 DEF FileTypes
  <2>4. QED BY <2>1, <2>2, <2>3 DEF TypeOK, FileTypes, ServerTypes, ClientTypes, Busy
<1>2. QED BY <1>1, Inductive, PTL

\* However many processes, autosaves, retries and crashes: a student who was
\* told that the submission is in has it on the volume as it was sent, and
\* clients.json calls nobody submitted without it (exam_server.py, _handle),
\* unless a save of that student's submission failed, which _save_answers hides.
THEOREM SubmissionCorrect == Spec => []SubmissionKept
<1>1. IInv => SubmissionKept
  <2> SUFFICES ASSUME IInv, ~wiped, NEW c \in Client \ unsaved
               PROVE  /\ cl[c].st = "done" =>
                           Submission(c) = [final |-> TRUE,
                                            answers |-> Script(c)[Len(Script(c))].answers]
                      /\ clients \notin {None, Torn} /\ clients[c] # None
                            /\ clients[c].submitted => Readable(final[c])
    BY DEF SubmissionKept
  <2>1. /\ final[c] \in {None, Submitted(c)}
        /\ cl[c].st = "done" => final[c] # None
        /\ clients \in Table /\ Says(clients, c) => final[c] # None
    BY DEF IInv, Kept
  <2>2. clients \in Table \cup {None, Torn}
    BY DEF IInv, Types, FileTypes
  <2>3. Script(c)[Len(Script(c))].answers = Submitted(c)
    BY ScriptFacts
  <2>4. final[c] # None => Readable(final[c]) /\ final[c] = Submitted(c)
    BY <2>1, NothingElse DEF Readable, Submitted
  <2>5. cl[c].st = "done" => Submission(c) = [final |-> TRUE, answers |-> Submitted(c)]
    BY <2>1, <2>4 DEF Submission
  <2>6. QED BY <2>1, <2>2, <2>3, <2>4, <2>5 DEF Says
<1>2. QED BY <1>1, Inductive, PTL

\* While updates of clients.json do not overlap and none is cut short, the file
\* holds what each handler recorded last (exam_server.py, _update_client).
THEOREM RecordsCorrect == Spec => []RecordsExact
<1>1. IInv => RecordsExact
  BY DEF IInv, Exact, RecordsExact
<1>2. QED BY <1>1, Inductive, PTL

\* All processes that know a start know the same one, unless two made it at
\* once or the administrator removed it (exam_server.py, _get_start_at_ms).
THEOREM StartsCorrect == Spec => []StartsAgree
<1>1. IInv => StartsAgree
  <2> SUFFICES ASSUME IInv, ~raced, ~wiped, NEW s \in Server, NEW t \in Server,
                      startCache[s] # None, startCache[t] # None
               PROVE  startCache[s] = startCache[t]
    BY DEF StartsAgree
  <2>1. startCache[s] \in Nat /\ startCache[t] \in Nat
    BY DEF IInv, Types, ServerTypes
  <2>2. /\ Creating(s) \/ startFile = startCache[s]
        /\ Creating(t) \/ startFile = startCache[t]
        /\ Creating(s) \/ Creating(t) => startFile \in {None, Torn}
        /\ Creating(s) /\ Creating(t) => s = t
    BY DEF IInv, OneStart
  <2>3. QED BY <2>1, <2>2, NothingElse
<1>2. QED BY <1>1, Inductive, PTL

\* A handler that ended because its client went has read, over TCP, all that
\* the client had sent (exam_server_tcp.py, _handle).
THEOREM ReadCorrect == Spec => []ReadToTheEnd
<1>1. IInv => ReadToTheEnd
  BY DEF IInv, Ends, ReadToTheEnd
<1>2. QED BY <1>1, Inductive, PTL

-----------------------------------------------------------------------------
(* The sessions implement the box of submissions.                          *)

\* The sheet of a client is what its script submits.
LEMMA SheetFacts ==
  ASSUME NEW c \in Client
  PROVE  Sheets[c] = Submitted(c)
BY ScriptFacts DEF Sheets

\* A step that none of the four parts of the box shows.
LEMMA BoxSame ==
  ASSUME UNCHANGED <<draft, final, clients, wiped, unsaved>>,
         \A c \in Client : cl'[c].st = "done" <=> cl[c].st = "done"
  PROVE  UNCHANGED Abstract!vars
<1>1. Shown' = Shown
  BY DEF Shown, Submission
<1>2. Told' = Told /\ Listed' = Listed
  BY DEF Told, Listed
<1>3. QED BY <1>1, <1>2 DEF Abstract!vars

\* What the box shows of a client.
LEMMA ShownFacts ==
  ASSUME FileTypes
  PROVE  /\ \A d \in Client : Shown[d] = Submission(d)
         /\ \A d \in Client : ~Readable(final[d]) => Shown[d] \in Abstract!Unsubmitted
<1>1. ASSUME NEW d \in Client, ~Readable(final[d])
      PROVE  Submission(d) \in Abstract!Unsubmitted
  <2>1. CASE Readable(draft[d])
    <3>1. draft[d] \in Answers \ {None}
      BY <2>1 DEF FileTypes, Texts, Readable
    <3>2. Submission(d) = Abstract!Draft(draft[d])
      BY <1>1, <2>1 DEF Submission, Abstract!Draft
    <3>3. QED BY <3>1, <3>2 DEF Abstract!Unsubmitted
  <2>2. CASE ~Readable(draft[d])
    BY <1>1, <2>2 DEF Submission, Abstract!Unsubmitted
  <2>3. QED BY <2>1, <2>2
<1>2. \A d \in Client : Shown[d] = Submission(d)
  BY DEF Shown
<1>3. QED BY <1>1, <1>2

\* A text lands in a file of a client: what is shown of it changes, of no other.
LEMMA ShownChange ==
  ASSUME FileTypes, NEW c \in Client, NEW m, NEW text, Stored(c, m, text)
  PROVE  /\ Shown' = [Shown EXCEPT ![c] = Submission(c)']
         /\ m.type \notin {"save", "submit"} => UNCHANGED <<draft, final>>
         /\ m.type = "save" => final' = final /\ draft'[c] = text
         /\ m.type = "submit" => draft' = draft /\ final'[c] = text
<1>1. draft \in [Client -> Texts] /\ final \in [Client -> Texts]
  BY DEF FileTypes
<1>2. \A d \in Client \ {c} : draft'[d] = draft[d] /\ final'[d] = final[d]
  BY <1>1 DEF Stored
<1>3. \A d \in Client \ {c} : Submission(d)' = Submission(d)
  BY <1>2 DEF Submission
<1>4. Shown' = [Shown EXCEPT ![c] = Submission(c)']
  BY <1>3 DEF Shown
<1>5. QED BY <1>1, <1>4 DEF Stored

\* Answers that are saved make a draft or a final sheet.
LEMMA BoxStored ==
  ASSUME FileTypes, NEW c \in Client, NEW m \in MessagesOf(c), Stored(c, m, m.answers),
         UNCHANGED <<clients, wiped, unsaved>>, Told' = Told
  PROVE  [Abstract!Next]_Abstract!vars
<1>1. /\ Shown' = [Shown EXCEPT ![c] = Submission(c)']
      /\ m.type \notin {"save", "submit"} => UNCHANGED <<draft, final>>
      /\ m.type = "save" => final' = final /\ draft'[c] = m.answers
      /\ m.type = "submit" => draft' = draft /\ final'[c] = m.answers
  BY ShownChange
<1>2. Listed' = Listed
  BY DEF Listed
<1>3. /\ m.answers \in Answers
      /\ m.type = "save" => m.answers \in Answers \ {None} /\ Readable(m.answers)
      /\ m.type = "submit" => m.answers = Submitted(c) /\ Readable(m.answers)
  BY NothingElse DEF MessagesOf, Messages, Answers, Readable, Submitted
<1>4. CASE m.type = "submit"
  <2>1. Submission(c)' = Abstract!Final(c)
    BY <1>1, <1>3, <1>4, SheetFacts DEF Submission, Abstract!Final, Readable
  <2>2. Abstract!Submit(c)
    BY <1>1, <1>2, <2>1 DEF Abstract!Submit
  <2>3. QED BY <2>2 DEF Abstract!Next
<1>5. CASE m.type = "save" /\ ~Readable(final[c])
  <2>1. Submission(c)' = Abstract!Draft(m.answers)
    BY <1>1, <1>3, <1>5 DEF Submission, Abstract!Draft, Readable
  <2>2. Shown[c] \in Abstract!Unsubmitted
    BY <1>5, ShownFacts
  <2>3. Abstract!Save(c, m.answers)
    BY <1>1, <1>2, <2>1, <2>2 DEF Abstract!Save
  <2>4. QED BY <1>3, <1>5, <2>3 DEF Abstract!Next
<1>6. CASE m.type = "save" /\ Readable(final[c])
  <2>1. Submission(c)' = Submission(c)
    BY <1>1, <1>6 DEF Submission, Readable
  <2>2. Shown' = Shown
    BY <1>1, <2>1 DEF Shown
  <2>3. QED BY <1>2, <2>2 DEF Abstract!vars
<1>7. CASE m.type \notin {"save", "submit"}
  <2>1. Shown' = Shown
    BY <1>1, <1>7 DEF Shown, Submission, Readable
  <2>2. QED BY <1>2, <2>1 DEF Abstract!vars
<1>8. QED BY <1>4, <1>5, <1>6, <1>7

\* A save that fails may lose a draft, or the submission.
LEMMA BoxStoredInPart ==
  ASSUME FileTypes, NEW c \in Client, NEW m \in MessagesOf(c), StoredInPart(c, m),
         UNCHANGED <<clients, wiped>>, Told' = Told
  PROVE  [Abstract!Next]_Abstract!vars
<1>1. PICK text \in {IF m.type = "save" THEN draft[c] ELSE final[c], Torn} :
        Stored(c, m, text)
  BY DEF StoredInPart
<1>2. /\ Shown' = [Shown EXCEPT ![c] = Submission(c)']
      /\ m.type = "save" => final' = final /\ draft'[c] = text
      /\ m.type = "submit" => draft' = draft /\ final'[c] = text
  BY <1>1, ShownChange
<1>3. Listed' = Listed
  BY DEF Listed
<1>4. m.type \in {"save", "submit"}
  BY DEF StoredInPart
<1>5. unsaved' = IF m.type = "submit" THEN unsaved \cup {c} ELSE unsaved
  BY DEF StoredInPart
<1>6. Shown[c] = Submission(c)
  BY DEF Shown
<1>7. CASE m.type = "submit"
  <2>1. Submission(c)' \in {Shown[c]} \cup Abstract!Unsubmitted
    <3>1. CASE text = Torn
      <4>1. ~Readable(final'[c]) /\ draft' = draft
        BY <1>2, <1>7, <3>1 DEF Readable
      <4>2. CASE Readable(draft[c])
        <5>1. draft[c] \in Answers \ {None}
          BY <4>2 DEF FileTypes, Texts, Readable
        <5>2. Submission(c)' = Abstract!Draft(draft[c])
          BY <4>1, <4>2 DEF Submission, Abstract!Draft, Readable
        <5>3. QED BY <5>1, <5>2 DEF Abstract!Unsubmitted
      <4>3. CASE ~Readable(draft[c])
        BY <4>1, <4>3 DEF Submission, Readable, Abstract!Unsubmitted
      <4>4. QED BY <4>2, <4>3
    <3>2. CASE text # Torn
      <4>1. final'[c] = final[c] /\ draft' = draft
        BY <1>1, <1>2, <1>7, <3>2
      <4>2. QED BY <1>6, <4>1 DEF Submission, Readable
    <3>3. QED BY <3>1, <3>2
  <2>2. Abstract!FailSubmit(c)
    BY <1>2, <1>3, <1>5, <1>7, <2>1 DEF Abstract!FailSubmit
  <2>3. QED BY <2>2 DEF Abstract!Next
<1>8. CASE m.type = "save"
  <2>1. unsaved' = unsaved
    BY <1>5, <1>8
  <2>2. CASE Submission(c)' = Submission(c)
    <3>1. Shown' = Shown
      BY <1>2, <2>2 DEF Shown
    <3>2. QED BY <1>3, <2>1, <3>1 DEF Abstract!vars
  <2>3. CASE Submission(c)' # Submission(c)
    <3>1. text = Torn /\ ~Readable(final[c])
      BY <1>1, <1>2, <1>8, <2>3 DEF Submission, Readable
    <3>2. Submission(c)' = None
      BY <1>2, <1>8, <3>1 DEF Submission, Readable
    <3>3. Shown[c] \in Abstract!Unsubmitted
      BY <3>1, ShownFacts
    <3>4. Abstract!LoseDraft(c)
      BY <1>2, <1>3, <2>1, <3>2, <3>3 DEF Abstract!LoseDraft
    <3>5. QED BY <3>4 DEF Abstract!Next
  <2>4. QED BY <2>2, <2>3
<1>9. QED BY <1>4, <1>7, <1>8

\* The message that a handler or a process takes from an inbox is its client's.
LEMMA HeadFacts ==
  ASSUME IInv, NEW c \in Client, inbox[c] # <<>>
  PROVE  Head(inbox[c]) \in MessagesOf(c)
<1>1. inbox[c] \in Seq(Messages) /\ \A i \in DOMAIN inbox[c] : inbox[c][i] \in MessagesOf(c)
  BY DEF IInv, Types, ClientTypes
<1>2. 1 \in DOMAIN inbox[c] /\ Head(inbox[c]) = inbox[c][1]
  BY <1>1, EmptySeq, LenProperties
<1>3. QED BY <1>1, <1>2

\* A message comes in, and what it answers is saved or submitted, or is not.
LEMMA BoxRead ==
  ASSUME IInv, NEW c \in Client, Recv(c)
  PROVE  [Abstract!Next]_Abstract!vars
<1> DEFINE m == Head(inbox[c])
<1>1. UNCHANGED <<clients, cl, wiped>> /\ FileTypes
  BY DEF Recv, IInv, Types
<1>2. Told' = Told
  BY <1>1 DEF Told
<1>3. CASE inbox[c] = <<>>
  <2>1. UNCHANGED <<draft, final, unsaved>>
    BY <1>3 DEF Recv
  <2>2. QED BY <1>1, <2>1, BoxSame
<1>4. CASE inbox[c] # <<>>
  <2>1. SaveAnswers(c, m) /\ m \in MessagesOf(c)
    BY <1>4, HeadFacts DEF Recv
  <2> HIDE DEF m
  <2>2. CASE Stored(c, m, m.answers) /\ UNCHANGED <<unsaved, left>>
    BY <1>1, <1>2, <2>1, <2>2, BoxStored
  <2>3. CASE StoredInPart(c, m)
    BY <1>1, <1>2, <2>1, <2>3, BoxStoredInPart
  <2>4. QED BY <2>1, <2>2, <2>3 DEF SaveAnswers
<1>5. QED BY <1>3, <1>4

\* Who was told stays told when a process dies, and nobody else is.
LEMMA DieTells ==
  ASSUME IInv, NEW s \in Server, Die(s)
  PROVE  /\ UNCHANGED <<clients, wiped>>
         /\ \A d \in Client : cl'[d].st = "done" <=> cl[d].st = "done"
<1>1. cl \in [Client -> ClientState]
  BY DEF IInv, Types, ClientTypes
<1>2. /\ UNCHANGED <<clients, wiped>>
      /\ cl' = [c \in Client |-> IF hnd[c].at = s /\ cl[c].st # "done"
                                   THEN [cl[c] EXCEPT !.st = "gone"] ELSE cl[c]]
  BY DEF Die
<1>3. QED BY <1>1, <1>2 DEF ClientState

\* A process dies while it saves.
LEMMA BoxCrashSaving ==
  ASSUME IInv, NEW c \in Client, CrashSaving(c)
  PROVE  [Abstract!Next]_Abstract!vars
<1> DEFINE m == Head(inbox[c])
<1>1. StoredInPart(c, m) /\ Die(hnd[c].at) /\ m \in MessagesOf(c)
  BY HeadFacts DEF CrashSaving
<1>2. hnd[c].at \in Server /\ FileTypes
  BY DEF IInv, Types, HandlerTypes, Handler
<1>3. UNCHANGED <<clients, wiped>> /\ Told' = Told
  BY <1>1, <1>2, DieTells DEF Told
<1> HIDE DEF m
<1>4. QED BY <1>1, <1>2, <1>3, BoxStoredInPart

\* A reply tells at most its own client.
LEMMA BoxReply ==
  ASSUME IInv, IInv', NEW c \in Client, Reply(c)
  PROVE  [Abstract!Next]_Abstract!vars
<1>1. UNCHANGED <<draft, final, clients, wiped, unsaved>> /\ cl' = [cl EXCEPT ![c] = Answered(c)]
  BY DEF Reply, files, history
<1>2. cl \in [Client -> ClientState]
  BY DEF IInv, Types, ClientTypes
<1>3. \A d \in Client \ {c} : cl'[d] = cl[d]
  BY <1>1, <1>2
<1>4. cl[c].st = "done" => cl'[c].st = "done"
  BY <1>1, <1>2 DEF Answered
<1>5. CASE cl'[c].st = "done" <=> cl[c].st = "done"
  BY <1>1, <1>3, <1>5, BoxSame
<1>6. CASE cl'[c].st = "done"
  <2>1. Told' = Told \cup {c}
    BY <1>3, <1>6 DEF Told
  <2>2. Shown' = Shown /\ Listed' = Listed
    BY <1>1 DEF Shown, Submission, Listed
  <2>3. wiped \/ c \in unsaved \/ (final[c] \in {None, Submitted(c)} /\ final[c] # None)
    BY <1>1, <1>6 DEF IInv, Kept
  <2>4. ~wiped /\ c \notin unsaved => Shown[c] = [final |-> TRUE, answers |-> Sheets[c]]
    BY <2>3, SheetFacts, NothingElse DEF Shown, Submission, Readable, Submitted
  <2>5. Abstract!Tell(c)
    BY <1>1, <2>1, <2>2, <2>4 DEF Abstract!Tell, Abstract!In, Abstract!Final
  <2>6. QED BY <2>5 DEF Abstract!Next
<1>7. QED BY <1>4, <1>5, <1>6

\* clients.json changes, by whatever process.
LEMMA BoxRecord ==
  ASSUME IInv, IInv', UNCHANGED <<draft, final, cl, wiped, unsaved>>
  PROVE  [Abstract!Next]_Abstract!vars
<1>1. Shown' = Shown /\ Told' = Told
  BY DEF Shown, Submission, Told
<1>2. Listed' \in SUBSET Client
  BY DEF Listed
<1>3. ASSUME NEW c \in Listed'
      PROVE  Abstract!In(c)
  <2>1. c \in Client /\ clients' \in Table \cup {None, Torn}
    BY <1>2 DEF IInv, Types, FileTypes
  <2>2. clients' \in Table /\ Says(clients', c)
    BY <1>3, <2>1 DEF Listed, Says
  <2>3. wiped \/ c \in unsaved \/ (final[c] \in {None, Submitted(c)} /\ final[c] # None)
    BY <2>1, <2>2 DEF IInv, Kept
  <2>4. ~wiped /\ c \notin unsaved => Shown[c] = [final |-> TRUE, answers |-> Sheets[c]]
    BY <2>1, <2>3, SheetFacts, NothingElse DEF Shown, Submission, Readable, Submitted
  <2>5. QED BY <2>4 DEF Abstract!In, Abstract!Final
<1>4. Abstract!Record(Listed')
  BY <1>1, <1>3 DEF Abstract!Record
<1>5. QED BY <1>2, <1>4 DEF Abstract!Next

\* The administrator removes clients.json first and the sheets last.
LEMMA BoxReset ==
  ASSUME IInv, ResetClients \/ ResetAnswers
  PROVE  [Abstract!Next]_Abstract!vars
<1>1. CASE ResetClients
  <2>1. UNCHANGED <<draft, final, cl, unsaved>> /\ wiped' = TRUE /\ clients' = None
    BY <1>1 DEF ResetClients
  <2>2. Shown' = Shown /\ Told' = Told /\ Listed' = {}
    BY <2>1 DEF Shown, Submission, Told, Listed
  <2>3. Abstract!Order
    BY <2>1, <2>2 DEF Abstract!Order
  <2>4. QED BY <2>3 DEF Abstract!Next
<1>2. CASE ResetAnswers
  <2>1. /\ UNCHANGED <<clients, cl, wiped, unsaved>> /\ adm = "answers"
        /\ draft' = NoEntries /\ final' = NoEntries
    BY <1>2 DEF ResetAnswers, history
  <2>2. wiped
    BY <2>1 DEF IInv, Kept
  <2>3. Shown' = [c \in Client |-> None]
    BY <2>1 DEF Shown, Submission, NoEntries, Readable
  <2>4. Told' = Told /\ Listed' = Listed
    BY <2>1 DEF Told, Listed
  <2>5. Abstract!Erase
    BY <2>1, <2>2, <2>3, <2>4 DEF Abstract!Erase
  <2>6. QED BY <2>5 DEF Abstract!Next
<1>3. QED BY <1>1, <1>2

\* Nobody learns of a submission, and none changes, in any other step.
LEMMA BoxQuiet ==
  ASSUME IInv,
         \/ \E c \in Client :
              \/ Send(c) \/ Autosave(c) \/ Leave(c) \/ RecvTimeout(c) \/ Collected(c)
              \/ UpdateRead(c) \/ GetStart(c)
         \/ \E s \in Server : StartOpen(s) \/ StartWrite(s) \/ Crash(s)
         \/ ResetStart \/ UNCHANGED vars
  PROVE  UNCHANGED Abstract!vars
<1>1. cl \in [Client -> ClientState]
  BY DEF IInv, Types, ClientTypes
<1>2. CASE \/ \E c \in Client : \/ Autosave(c) \/ RecvTimeout(c) \/ Collected(c)
                               \/ UpdateRead(c) \/ GetStart(c)
           \/ \E s \in Server : StartOpen(s) \/ StartWrite(s)
           \/ ResetStart \/ UNCHANGED vars
  <2>1. UNCHANGED <<draft, final, clients, wiped, unsaved, cl>>
    BY <1>2 DEF Autosave, RecvTimeout, Collected, UpdateRead, GetStart, StartOpen,
                StartWrite, ResetStart, vars, files, history
  <2>2. QED BY <2>1, BoxSame
<1>3. ASSUME NEW c \in Client, Send(c) \/ Leave(c)
      PROVE  UNCHANGED Abstract!vars
  <2>1. UNCHANGED <<draft, final, clients, wiped, unsaved>>
    BY <1>3 DEF Send, Leave, files, history
  <2>2. \A d \in Client : cl'[d].st = "done" <=> cl[d].st = "done"
    <3>1. \A d \in Client \ {c} : cl'[d] = cl[d]
      BY <1>1, <1>3 DEF Send, Leave
    <3>2. cl'[c].st = "done" <=> cl[c].st = "done"
      BY <1>1, <1>3 DEF Send, Leave, ClientState
    <3>3. QED BY <3>1, <3>2
  <2>3. QED BY <2>1, <2>2, BoxSame
<1>4. ASSUME NEW s \in Server, Crash(s)
      PROVE  UNCHANGED Abstract!vars
  <2>1. Die(s) /\ UNCHANGED <<draft, final, unsaved>>
    BY <1>4 DEF Crash
  <2>2. QED BY <2>1, DieTells, BoxSame
<1>5. QED BY <1>2, <1>3, <1>4

\* The processes, their files and their handlers are a box of submissions:
\* from the moment a sheet is submitted nothing replaces it, and nobody is told
\* of it or listed before, except for those whose submission a failed save lost
\* (exam_server.py, _handle and _save_answers; admin_server.py, api_submissions).
THEOREM BoxRefinement == Spec => ImplementsBox
<1>1. Init => Abstract!Init
  <2> SUFFICES ASSUME Init PROVE Abstract!Init
    OBVIOUS
  <2>1. /\ draft = NoEntries /\ final = NoEntries /\ clients = None /\ wiped = FALSE
        /\ unsaved = {}
        /\ cl = [c \in Client |-> [at |-> 1, st |-> "ready"]]
    BY DEF Init
  <2>2. Shown = [c \in Client |-> None]
    BY <2>1 DEF Shown, Submission, NoEntries, Readable
  <2>3. Told = {} /\ Listed = {}
    BY <2>1 DEF Told, Listed
  <2>4. QED BY <2>1, <2>2, <2>3 DEF Abstract!Init
<1>2. IInv /\ IInv' /\ [Next]_vars => [Abstract!Next]_Abstract!vars
  <2> SUFFICES ASSUME IInv, IInv', [Next]_vars
               PROVE  [Abstract!Next]_Abstract!vars
    OBVIOUS
  <2>1. ASSUME NEW c \in Client, Recv(c) \/ Reply(c) \/ CrashSaving(c)
        PROVE  [Abstract!Next]_Abstract!vars
    BY <2>1, BoxRead, BoxReply, BoxCrashSaving
  <2>2. ASSUME NEW s \in Server, UpdateOpen(s) \/ UpdateWrite(s)
        PROVE  [Abstract!Next]_Abstract!vars
    <3>1. UNCHANGED <<draft, final, cl, wiped, unsaved>>
      BY <2>2 DEF UpdateOpen, UpdateWrite, history
    <3>2. QED BY <3>1, BoxRecord
  <2>3. CASE ResetClients \/ ResetAnswers
    BY <2>3, BoxReset
  <2>4. CASE \/ \E c \in Client :
                  \/ Send(c) \/ Autosave(c) \/ Leave(c) \/ RecvTimeout(c)
                  \/ Collected(c) \/ UpdateRead(c) \/ GetStart(c)
             \/ \E s \in Server : StartOpen(s) \/ StartWrite(s) \/ Crash(s)
             \/ ResetStart \/ UNCHANGED vars
    BY <2>4, BoxQuiet
  <2>5. QED BY <2>1, <2>2, <2>3, <2>4 DEF Next
<1>3. QED BY <1>1, <1>2, Inductive, PTL DEF Spec, ImplementsBox, Abstract!Spec
=============================================================================
