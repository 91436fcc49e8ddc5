-------------------------- MODULE SynchronizedRelease --------------------------
(***************************************************************************)
(* What the send coordinator promises: whoever is waiting when a round     *)
(* closes is called, none is left behind, and all of them aim at one       *)
(* moment of arrival, each sending earlier by its own delay, not before    *)
(* its moment has come.  Who comes when a round is over, or is called and  *)
(* then forgotten by a reset, goes astray: it is answered at any time.     *)
(* Once a round has failed, the next may not know all that wait for it.    *)
(***************************************************************************)
EXTENDS Integers

CONSTANTS Client, None, Margin

VARIABLES now,
          phase,    \* "away", "waiting", "called", "due" or "astray"
          delay,    \* of those that wait, are called or due
          release,  \* when those that are called or due may be sent to
          failed    \* a round has failed
vars == <<now, phase, delay, release, failed>>

Init ==
  /\ now = 0
  /\ phase = [c \in Client |-> "away"]
  /\ delay = [c \in Client |-> None]
  /\ release = [c \in Client |-> None]
  /\ failed = FALSE

\* A client asks and waits.
Ask(c) ==
  /\ phase[c] = "away"
  /\ phase' = [phase EXCEPT ![c] = "waiting"]
  /\ delay'[c] \in Nat
  /\ delay' = [delay EXCEPT ![c] = delay'[c]]
  /\ UNCHANGED <<now, release, failed>>

\* A client asks when there is no round to wait for.
Stray(c) ==
  /\ phase[c] = "away"
  /\ phase' = [phase EXCEPT ![c] = "astray"]
  /\ UNCHANGED <<now, delay, release, failed>>

\* A round closes and calls those that entered it: everybody who waits, unless
\* a round has failed.  All will arrive at one moment, and none is late for it.
Calls(c, entered) == phase[c] = "waiting" /\ c \in entered
Close(entered) ==
  /\ failed \/ \A c \in Client : phase[c] = "waiting" => c \in entered
  /\ \A c \in Client : phase[c] # "called"
  /\ phase' = [c \in Client |->
       IF Calls(c, entered) THEN "called"
       ELSE IF phase[c] = "waiting" THEN "astray" ELSE phase[c]]
  /\ delay' = [c \in Client |->
       IF phase[c] = "waiting" /\ c \notin entered THEN None ELSE delay[c]]
  /\ release' = [c \in Client |->
       IF Calls(c, entered) THEN release'[c] ELSE release[c]]
  /\ \A c, d \in Client : Calls(c, entered) /\ Calls(d, entered) =>
       /\ release'[c] + delay[c] = release'[d] + delay[d]
       /\ release'[c] >= now + Margin
  /\ UNCHANGED <<now, failed>>

\* A client that is called will be sent to at its release.
Take(c) ==
  /\ phase[c] = "called"
  /\ phase' = [phase EXCEPT ![c] = "due"]
  /\ UNCHANGED <<now, delay, release, failed>>

\* The round is forgotten, before those that it called have all been told, or
\* it fails, or both.
Forget ==
  /\ phase' = [c \in Client |-> IF phase[c] = "called" THEN "astray" ELSE phase[c]]
  /\ delay' = [c \in Client |-> IF phase[c] = "called" THEN None ELSE delay[c]]
  /\ release' = [c \in Client |-> IF phase[c] = "called" THEN None ELSE release[c]]
  /\ failed' \in {failed, TRUE}
  /\ UNCHANGED now

Fail ==
  /\ failed' = TRUE
  /\ UNCHANGED <<now, phase, delay, release>>

Release(c) ==
  /\ phase[c] = "due" /\ release[c] <= now
  /\ phase' = [phase EXCEPT ![c] = "away"]
  /\ delay' = [delay EXCEPT ![c] = None]
  /\ release' = [release EXCEPT ![c] = None]
  /\ UNCHANGED <<now, failed>>

AnswerStray(c) ==
  /\ phase[c] = "astray"
  /\ phase' = [phase EXCEPT ![c] = "away"]
  /\ UNCHANGED <<now, delay, release, failed>>

\* Time does not pass between a round's end and the waking of those it called.
Pass ==
  /\ \A c \in Client : phase[c] # "called"
  /\ now' = now + 1
  /\ UNCHANGED <<phase, delay, release, failed>>

Next ==
  \/ \E c \in Client : Ask(c) \/ Stray(c) \/ Take(c) \/ Release(c) \/ AnswerStray(c)
  \/ \E entered \in SUBSET Client : Close(entered)
  \/ Forget \/ Fail \/ Pass

Spec == Init /\ [][Next]_vars
=============================================================================
