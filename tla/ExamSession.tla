---------------------------- MODULE ExamSession ----------------------------
(***************************************************************************)
(* The sessions of an exam on several server processes (exam_server.py,    *)
(* exam_server_tcp.py) that share the files of one volume: start_at.txt,   *)
(* clients.json and the answers, which the administrator resets.  Each     *)
(* process is one event loop: a handler runs alone in its process up to an *)
(* await, but other processes act between any two operations on a file.    *)
(***************************************************************************)
EXTENDS Naturals, Sequences

CONSTANTS
  Client, Server, None, Torn,   \* Torn: a file just truncated
  RudpServers,                  \* the others speak TCP
  SyncServers,                  \* those that coordinate (SYNC_ENABLED, RUDP)
  Browsers,                     \* clients that are browsers, not simulations
  Home,                         \* the servers a client may be led to
  Skipped,                      \* messages left out of its script (a bound),
                                \* not the submission
  MaxAutosaves,
  MaxFaults       \* resets, crashes, time-outs, saves that fail, clients that leave

\* Messages, the entries of clients.json and what a process may be doing to a
\* file.
Answers == {None, "full", "blank"}
Messages ==
  [type : {"hello", "schedule", "exam", "begin", "save", "submit"},
   answers : Answers, auto : BOOLEAN]
Entry == [submitted : BOOLEAN, count : {0, 1}]
Table == [Client -> Entry \cup {None}]
Fate == {"clean", "over", "unlinked"}
Work == [op : {"open", "write"}, c : Client, fate : Fate, data : Table]
          \cup [op : {"startopen", "startwrite"}, c : Client, fate : Fate]

ASSUME SessionConstants ==
  /\ RudpServers \subseteq SyncServers /\ SyncServers \subseteq Server
  /\ Browsers \subseteq Client
  /\ Home \in [Client -> SUBSET Server]

\* None and Torn are unlike anything that a file or a variable holds.
ASSUME NothingElse ==
  /\ None # Torn
  /\ {None, Torn} \cap (Nat \cup Table \cup {"full", "blank"}) = {}
  /\ None \notin Entry \cup Work \cup Messages

VARIABLES
  startFile,      \* start_at.txt: None, Torn or a time
  startCache,     \* _EXAM_START_AT_MS of each process
  clients,        \* clients.json: None, Torn or entries
  draft, final,   \* <client>.json and <client>.final.json
  proc,           \* what a process is doing to a file, None if nothing
  hnd,            \* the handler of each connection
  inbox,          \* messages received and not yet read
  eof,            \* FIN or EOF received
  cl,             \* the client: where it is in its script
  adm,            \* the administrator's reset
  made,           \* starts created (history, the clock)
  rec,            \* what each update meant to record (history)
  raced,          \* two processes created a start at once (history)
  disturbed,      \* two updates overlapped, or one was cut short (history)
  wiped,          \* the administrator has reset (history)
  unsaved,        \* clients with a submission whose save failed (history)
  left            \* autosaves and faults still to come (bounds)

files == <<startFile, clients, draft, final>>
history == <<made, rec, raced, disturbed, wiped, unsaved>>
vars == <<files, startCache, proc, hnd, inbox, eof, cl, adm, history, left>>

-----------------------------------------------------------------------------
(* Messages and what a handler does with each. *)

Msg(type, answers) == [type |-> type, answers |-> answers, auto |-> FALSE]

\* A message of the script, unless it is left out.
Message(c, type, answers) ==
  IF type \in Skipped[c] THEN <<>> ELSE <<Msg(type, answers)>>

\* App.tsx: requests sent one after the other; the submission has no answers.
BrowserScript(c) ==
  Message(c, "hello", None) \o Message(c, "schedule", None)
    \o Message(c, "exam", None) \o Message(c, "begin", None)
    \o Message(c, "save", "full") \o <<Msg("submit", "blank")>>

\* client_sim.run, which submits its answers.
SimScript(c) ==
  Message(c, "hello", None) \o Message(c, "schedule", None)
    \o Message(c, "exam", None)
    \o Message(c, "save", "full") \o <<Msg("submit", "full")>>

Script(c) == IF c \in Browsers THEN BrowserScript(c) ELSE SimScript(c)

\* What the RUDP handler does after it has read a message, up to the next.
RudpPlan(m) ==
  CASE m.type = "hello"    -> <<"update", "send">>
    [] m.type = "schedule" -> <<"start", "send">>
    [] m.type = "exam"     -> <<"wait", "send", "update">>
    [] m.type = "begin"    -> <<"send", "update">>
    [] m.type = "save"     -> <<"send", "update">>
    [] m.type = "submit"   -> <<"send", "update">>

\* The TCP handler does the same, except that without SYNC nobody waits.
TcpPlan(s, m) ==
  IF m.type = "exam" /\ s \notin SyncServers THEN <<"send", "update">>
  ELSE RudpPlan(m)

Plan(s, m) == IF s \in RudpServers THEN RudpPlan(m) ELSE TcpPlan(s, m)

NewEntry == [submitted |-> FALSE, count |-> 0]

CountAnswered(a) == IF a = "full" THEN 1 ELSE 0

\* _update_client's merge of a message's fields into the client's entry.
Merged(entry, m) ==
  LET old == IF entry = None THEN NewEntry ELSE entry
  IN CASE m.type = "hello"  -> NewEntry
       [] m.type = "save"   -> [old EXCEPT !.count = CountAnswered(m.answers)]
       [] m.type = "submit" -> [submitted |-> TRUE,
                                count |-> CountAnswered(m.answers)]
       [] OTHER -> old

NoEntries == [c \in Client |-> None]
NewHandler(s) == [at |-> s, msg |-> None, plan |-> <<>>, end |-> "no"]

Init ==
  /\ startFile = None /\ clients = None
  /\ startCache = [s \in Server |-> None]
  /\ draft = NoEntries /\ final = NoEntries
  /\ proc = [s \in Server |-> None]
  /\ \E home \in [Client -> Server] :
       /\ \A c \in Client : home[c] \in Home[c]
       /\ hnd = [c \in Client |-> NewHandler(home[c])]
  /\ inbox = [c \in Client |-> <<>>]
  /\ eof = [c \in Client |-> FALSE]
  /\ cl = [c \in Client |-> [at |-> 1, st |-> "ready"]]
  /\ adm = "idle"
  /\ made = 0 /\ rec = NoEntries /\ raced = FALSE /\ disturbed = FALSE
  /\ wiped = FALSE /\ unsaved = {}
  /\ left = [autosaves |-> MaxAutosaves, faults |-> MaxFaults]

Fault == left.faults > 0 /\ left' = [left EXCEPT !.faults = @ - 1]

-----------------------------------------------------------------------------
(* Clients *)

Send(c) ==
  /\ cl[c].st = "ready"
  /\ inbox' = [inbox EXCEPT ![c] = Append(@, Script(c)[cl[c].at])]
  /\ cl' = [cl EXCEPT ![c].st = "waiting"]
  /\ UNCHANGED <<files, startCache, proc, hnd, eof, adm, history, left>>

\* The autosave timer of a browser runs until it knows of its submission.
Autosave(c) ==
  /\ c \in Browsers /\ left.autosaves > 0
  /\ cl[c].st \in {"ready", "waiting"} /\ cl[c].at = Len(Script(c))
  /\ inbox' = [inbox EXCEPT ![c] =
                 Append(@, [Msg("save", "full") EXCEPT !.auto = TRUE])]
  /\ left' = [left EXCEPT !.autosaves = @ - 1]
  /\ UNCHANGED <<files, startCache, proc, hnd, eof, cl, adm, history>>

\* A simulation leaves after a stage (disconnect_after), a browser any time,
\* and everybody in the end: the bridge closes the connection.
Leave(c) ==
  /\ ~eof[c] /\ Fault
  /\ eof' = [eof EXCEPT ![c] = TRUE]
  /\ cl' = [cl EXCEPT ![c].st = IF @ = "done" THEN @ ELSE "gone"]
  /\ UNCHANGED <<files, startCache, proc, hnd, inbox, adm, history>>

-----------------------------------------------------------------------------
(* Handlers: reading, writing answers, replying. *)

\* A plausible slip: an await within an operation on a file, without a lock.
Interleaved(c) == hnd[c].end = "no"

Running(c) == hnd[c].end = "no" /\ proc[hnd[c].at] = None
Due(c, step) == Running(c) /\ hnd[c].plan # <<>> /\ Head(hnd[c].plan) = step

\* The loop's condition after a message: an RUDP handler ends as soon as _closed
\* is set, and leaves unread what was received before; a TCP handler reads on.
RudpGoesOn(c) == ~eof[c]
\* A plausible slip: the TCP handler's loop is the RUDP handler's.
TcpEndsAtOnce(c) == ~eof[c]
TcpGoesOn(c) == ~eof[c] \/ inbox[c] # <<>>
GoesOn(c) == IF hnd[c].at \in RudpServers THEN RudpGoesOn(c) ELSE TcpGoesOn(c)

Ended(c, why) == [hnd[c] EXCEPT !.plan = <<>>, !.end = why]

\* The handler after the first step of its plan.
NextStep(c) ==
  IF Len(hnd[c].plan) = 1 /\ ~GoesOn(c) THEN Ended(c, "eof")
  ELSE [hnd[c] EXCEPT !.plan = Tail(@)]

\* The text lands in the draft or in the final file of the client, and a message
\* of another type saves nothing.
Stored(c, m, text) ==
  /\ draft' = IF m.type = "save" THEN [draft EXCEPT ![c] = text] ELSE draft
  /\ final' = IF m.type = "submit" THEN [final EXCEPT ![c] = text] ELSE final

\* A save that does not come to its end: the file is as before, if it was not
\* opened, or write_text has truncated it.
StoredInPart(c, m) ==
  /\ m.type \in {"save", "submit"} /\ Fault
  /\ \E text \in {IF m.type = "save" THEN draft[c] ELSE final[c], Torn} :
       Stored(c, m, text)
  /\ unsaved' = IF m.type = "submit" THEN unsaved \cup {c} ELSE unsaved

\* A plausible slip: what was saved last is all there is.
SaveAnswersLatest(c, m) ==
  /\ draft' = IF m.type = "save" THEN [draft EXCEPT ![c] = m.answers] ELSE draft
  /\ final' = IF m.type = "submit" THEN [final EXCEPT ![c] = m.answers]
              ELSE IF m.type = "save" THEN [final EXCEPT ![c] = None] ELSE final
  /\ UNCHANGED <<unsaved, left>>

\* _save_answers, which logs any exception and returns as if nothing was wrong.
SaveAnswers(c, m) ==
  \/ Stored(c, m, m.answers) /\ UNCHANGED <<unsaved, left>>
  \/ StoredInPart(c, m)

\* The answers of a message are written before anything is awaited.
Recv(c) ==
  /\ Running(c) /\ hnd[c].plan = <<>>
  /\ IF inbox[c] = <<>>
       THEN /\ eof[c]
            /\ hnd' = [hnd EXCEPT ![c] = Ended(c, "eof")]
            /\ UNCHANGED <<inbox, draft, final, unsaved, left>>
       ELSE /\ hnd' = [hnd EXCEPT ![c].msg = Head(inbox[c]),
                         ![c].plan = Plan(hnd[c].at, Head(inbox[c]))]
            /\ inbox' = [inbox EXCEPT ![c] = Tail(@)]
            /\ SaveAnswers(c, Head(inbox[c]))
  /\ UNCHANGED <<startFile, clients, startCache, proc, eof, cl, adm,
                 made, rec, raced, disturbed, wiped>>

\* recv() gives up after 30 s (RUDP) or 300 s (TCP) without a message.
RecvTimeout(c) ==
  /\ Running(c) /\ hnd[c].plan = <<>> /\ inbox[c] = <<>> /\ ~eof[c] /\ Fault
  /\ hnd' = [hnd EXCEPT ![c] = Ended(c, "timeout")]
  /\ UNCHANGED <<files, startCache, proc, inbox, eof, cl, adm, history>>

\* The end of the 1.5 s that a round of the coordinator collects.
Collected(c) ==
  /\ Due(c, "wait")
  /\ hnd' = [hnd EXCEPT ![c] = NextStep(c)]
  /\ UNCHANGED <<files, startCache, proc, inbox, eof, cl, adm, history, left>>

\* The reply reaches a client that is still there and waits for this one.
Answered(c) ==
  IF cl[c].st = "waiting" /\ ~hnd[c].msg.auto
    THEN [at |-> cl[c].at + 1,
          st |-> IF cl[c].at = Len(Script(c)) THEN "done" ELSE "ready"]
    ELSE cl[c]

\* _send: a failure is logged, and the handler goes on.
Reply(c) ==
  /\ Due(c, "send")
  /\ cl' = [cl EXCEPT ![c] = Answered(c)]
  /\ hnd' = [hnd EXCEPT ![c] = NextStep(c)]
  /\ UNCHANGED <<files, startCache, proc, inbox, eof, adm, history, left>>

-----------------------------------------------------------------------------
(* _update_client: read the file, then write_text, which truncates it first. *)
(* `fate` is what has happened to the file since this process opened it:     *)
(* somebody wrote ("over": the longer text shows through) or unlinked it.    *)

\* A plausible slip: the file is taken for empty.
EntriesLost == NoEntries

\* Unreadable files count as empty.
Entries == IF clients \in {None, Torn} THEN NoEntries ELSE clients

Fated(ops, fate) ==
  [t \in Server |-> IF proc[t] # None /\ proc[t].op \in ops
                      THEN [proc[t] EXCEPT !.fate = fate] ELSE proc[t]]

Updating(s) == proc[s] # None /\ proc[s].op \in {"open", "write"}

UpdateRead(c) ==
  LET s == hnd[c].at IN
  /\ Due(c, "update")
  /\ proc' = [proc EXCEPT ![s] =
       [op |-> "open", c |-> c, fate |-> "clean",
        data |-> [Entries EXCEPT ![c] = Merged(@, hnd[c].msg)]]]
  /\ disturbed' = (disturbed \/ \E t \in Server : Updating(t))
  /\ UNCHANGED <<files, startCache, hnd, inbox, eof, cl, adm, made, rec, raced,
                 wiped, unsaved, left>>

UpdateOpen(s) ==
  /\ proc[s] # None /\ proc[s].op = "open"
  /\ clients' = Torn
  /\ proc' = [proc EXCEPT ![s].op = "write"]
  /\ UNCHANGED <<startFile, draft, final, startCache, hnd, inbox, eof, cl, adm,
                 history, left>>

UpdateWrite(s) ==
  /\ proc[s] # None /\ proc[s].op = "write"
  /\ LET c == proc[s].c IN
       /\ clients' \in IF proc[s].fate = "unlinked" THEN {clients}
                      ELSE {proc[s].data}
                             \cup (IF proc[s].fate = "over" THEN {Torn} ELSE {})
       /\ rec' = [rec EXCEPT ![c] = Merged(@, hnd[c].msg)]
       /\ hnd' = [hnd EXCEPT ![c] = NextStep(c)]
  /\ proc' = [Fated({"write"}, "over") EXCEPT ![s] = None]
  /\ UNCHANGED <<startFile, draft, final, startCache, inbox, eof, cl, adm, made,
                 raced, disturbed, wiped, unsaved, left>>

-----------------------------------------------------------------------------
(* _get_start_at_ms: the cache, else the file, else a new start. *)

\* schedule_req resets the coordinator, and with it the cache, unless a round
\* may be running, that is, an exam_req has come to this process.
MayCollect(s) == \E c \in Client : hnd[c].at = s /\ hnd[c].msg # None
                                   /\ hnd[c].msg.type \notin {"hello", "schedule"}
CacheChoices(s) ==
  IF s \notin SyncServers THEN {startCache[s]}
  ELSE {None} \cup (IF MayCollect(s) THEN {startCache[s]} ELSE {})

Creating(s) == proc[s] # None /\ proc[s].op \in {"startopen", "startwrite"}

\* A plausible slip: the file is not looked at, only the cache.
StartOfCache(cache) == cache
\* The start found without creating one, None if none is.
StartFound(cache) ==
  IF cache # None THEN cache
  ELSE IF startFile \in {None, Torn} THEN None ELSE startFile

GetStart(c) ==
  /\ Due(c, "start")
  /\ LET s == hnd[c].at IN \E cache \in CacheChoices(s) :
       IF StartFound(cache) # None
         THEN /\ startCache' = [startCache EXCEPT ![s] = StartFound(cache)]
              /\ hnd' = [hnd EXCEPT ![c] = NextStep(c)]
              /\ UNCHANGED <<proc, made, raced>>
         ELSE /\ made' = made + 1
              /\ startCache' = [startCache EXCEPT ![s] = made']
              /\ proc' = [proc EXCEPT ![s] =
                    [op |-> "startopen", c |-> c, fate |-> "clean"]]
              /\ raced' = (raced \/ \E t \in Server : Creating(t))
              /\ UNCHANGED hnd
  /\ UNCHANGED <<files, inbox, eof, cl, adm, rec, disturbed, wiped, unsaved, left>>

StartOpen(s) ==
  /\ proc[s] # None /\ proc[s].op = "startopen"
  /\ startFile' = Torn
  /\ proc' = [proc EXCEPT ![s].op = "startwrite"]
  /\ UNCHANGED <<clients, draft, final, startCache, hnd, inbox, eof, cl, adm,
                 history, left>>

StartWrite(s) ==
  /\ proc[s] # None /\ proc[s].op = "startwrite"
  /\ startFile' = IF proc[s].fate = "unlinked" THEN startFile ELSE startCache[s]
  /\ hnd' = [hnd EXCEPT ![proc[s].c] = NextStep(proc[s].c)]
  /\ proc' = [proc EXCEPT ![s] = None]
  /\ UNCHANGED <<clients, draft, final, startCache, inbox, eof, cl, adm,
                 history, left>>

-----------------------------------------------------------------------------
(* The administrator, and a process that dies and is started again. *)

\* api_reset: clients.json, then start_at.txt, then the answers.
ResetClients ==
  /\ adm = "idle" /\ Fault
  /\ wiped' = TRUE
  /\ adm' = "start"
  /\ clients' = None
  /\ proc' = Fated({"write"}, "unlinked")
  /\ UNCHANGED <<startFile, draft, final, startCache, hnd, inbox, eof, cl,
                 made, rec, raced, disturbed, unsaved>>

ResetStart ==
  /\ adm = "start"
  /\ adm' = "answers"
  /\ startFile' = None
  /\ proc' = Fated({"startwrite"}, "unlinked")
  /\ UNCHANGED <<clients, draft, final, startCache, hnd, inbox, eof, cl,
                 history, left>>

ResetAnswers ==
  /\ adm = "answers"
  /\ adm' = "idle"
  /\ draft' = NoEntries /\ final' = NoEntries
  /\ UNCHANGED <<startFile, clients, startCache, proc, hnd, inbox, eof, cl,
                 history, left>>

\* The process dies: its connections end, what it was writing stays as it is.
Die(s) ==
  /\ disturbed' = (disturbed \/ Updating(s))
  /\ proc' = [proc EXCEPT ![s] = None]
  /\ startCache' = [startCache EXCEPT ![s] = None]
  /\ hnd' = [c \in Client |-> IF hnd[c].at = s THEN Ended(c, "crash") ELSE hnd[c]]
  /\ cl' = [c \in Client |-> IF hnd[c].at = s /\ cl[c].st # "done"
                               THEN [cl[c] EXCEPT !.st = "gone"] ELSE cl[c]]
  /\ UNCHANGED <<startFile, clients, inbox, eof, adm, made, rec, raced, wiped>>

Crash(s) == Fault /\ Die(s) /\ UNCHANGED <<draft, final, unsaved>>

\* It dies while it saves the answers of a message.
CrashSaving(c) ==
  /\ Running(c) /\ hnd[c].plan = <<>> /\ inbox[c] # <<>>
  /\ StoredInPart(c, Head(inbox[c]))
  /\ Die(hnd[c].at)

\* api_submissions: drafts and final files of a directory, in order of name;
\* files that cannot be read are passed over.
Readable(file) == file \notin {None, Torn}

Submission(c) ==
  IF Readable(final[c]) THEN [final |-> TRUE, answers |-> final[c]]
  ELSE IF Readable(draft[c]) THEN [final |-> FALSE, answers |-> draft[c]]
  ELSE None

-----------------------------------------------------------------------------
Next ==
  \/ \E c \in Client :
       \/ Send(c) \/ Autosave(c) \/ Leave(c)
       \/ Recv(c) \/ RecvTimeout(c) \/ Collected(c)
       \/ Reply(c) \/ UpdateRead(c) \/ GetStart(c) \/ CrashSaving(c)
  \/ \E s \in Server :
       \/ UpdateOpen(s) \/ UpdateWrite(s) \/ StartOpen(s) \/ StartWrite(s)
       \/ Crash(s)
  \/ ResetClients \/ ResetStart \/ ResetAnswers

Spec == Init /\ [][Next]_vars

-----------------------------------------------------------------------------
(* Properties *)

\* Every variable keeps its type, and a process that is at work on a file does
\* so for one handler, which waits for it with that very step to do.
TypeOK ==
  /\ startCache \in [Server -> Nat \cup {None}]
  /\ startFile \in Nat \cup {None, Torn}
  /\ clients \in {None, Torn} \/ DOMAIN clients = Client
  /\ {draft, final} \subseteq [Client -> {None, Torn, "full", "blank"}]
  /\ \A c \in Client : cl[c].at \in 1 .. Len(Script(c)) + 1
  /\ \A s \in Server : proc[s] # None =>
       LET c == proc[s].c IN
         /\ hnd[c].at = s /\ hnd[c].plan # <<>>
         /\ Head(hnd[c].plan) = IF Updating(s) THEN "update" ELSE "start"

\* A student who was told that the submission is in has it shown as final to
\* the administrator, exactly as it was sent, whatever autosaves and retries
\* come before or after it, on whatever server ("Final always wins over draft");
\* and clients.json calls nobody submitted whose final file is not there.  The
\* exception is a submission whose own save failed: the code says ok to it.
SubmissionKept ==
  ~wiped => \A c \in Client \ unsaved :
    /\ cl[c].st = "done" =>
         Submission(c) = [final |-> TRUE,
                          answers |-> Script(c)[Len(Script(c))].answers]
    /\ clients \notin {None, Torn} /\ clients[c] # None /\ clients[c].submitted
         => Readable(final[c])

\* As long as no two processes are in _update_client at once and none dies in
\* it, clients.json is readable between updates and holds what each handler
\* recorded last for its client: the processes' updates do not mix.
RecordsExact ==
  ~disturbed /\ ~wiped =>
    \/ \E s \in Server : proc[s] # None /\ proc[s].op = "write"
    \/ clients = rec
    \/ clients = None /\ rec = NoEntries

\* All processes announce one start, unless two of them were creating it at the
\* same moment or the administrator removed it.
StartsAgree ==
  ~raced /\ ~wiped =>
    \A s, t \in Server : None \in {startCache[s], startCache[t]}
                           \/ startCache[s] = startCache[t]

\* A handler that ended has seen its client go, unless it waited too long or
\* died, and over TCP it has read everything the client sent before, the
\* submission included.
ReadToTheEnd ==
  \A c \in Client : hnd[c].end = "eof" =>
    eof[c] /\ (hnd[c].at \notin RudpServers => inbox[c] = <<>>)

\* The files seen as the box of submissions that the exam servers promise: what
\* is submitted is what stays there, step by step, and is there before anybody
\* is told of it or listed (_handle saves the answers before it replies and
\* records; api_submissions shows final sheets before drafts), unless that very
\* save failed.
Sheets == [c \in Client |-> Script(c)[Len(Script(c))].answers]
Shown == [c \in Client |-> Submission(c)]
Told == {c \in Client : cl[c].st = "done"}
Listed == {c \in Client : /\ clients \notin {None, Torn}
                          /\ clients[c] # None /\ clients[c].submitted}
Abstract == INSTANCE SubmissionBox WITH
  Answers <- Answers \ {None}, Sheet <- Sheets,
  shown <- Shown, told <- Told, listed <- Listed, ordered <- wiped,
  failed <- unsaved
ImplementsBox == Abstract!Spec

\* The state diagram says of a submission that the answers were saved
\* (diagrams/diagram_states.puml:123): what the administrator sees of a student
\* who has submitted is what the student had answered.
SubmittedAnswersShown ==
  \A c \in Client : cl[c].st = "done" => Submission(c).answers = "full"
=============================================================================
