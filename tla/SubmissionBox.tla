----------------------------- MODULE SubmissionBox -----------------------------
(***************************************************************************)
(* What the exam servers promise of a submission: a student has drafts     *)
(* until there is a final sheet; that is the sheet the student sent, and   *)
(* nothing replaces it.  Nobody is told of a submission, or listed as      *)
(* having submitted, whose final sheet is not there, except for somebody   *)
(* whose sheet could not be kept when it came in.  Only an administrator   *)
(* who has ordered a reset takes sheets away, and until the sheets go the  *)
(* order may already show elsewhere.                                       *)
(***************************************************************************)
CONSTANTS Client, None, Answers,
          Sheet        \* what each client submits

VARIABLES shown,       \* the sheet the administrator sees of each client
          told,        \* the clients that know of their submission
          listed,      \* the clients that are recorded as having submitted
          ordered,     \* a reset was ordered
          failed       \* the clients with a sheet that could not be kept
vars == <<shown, told, listed, ordered, failed>>

Draft(a) == [final |-> FALSE, answers |-> a]
Final(c) == [final |-> TRUE, answers |-> Sheet[c]]

Init ==
  /\ shown = [c \in Client |-> None]
  /\ told = {} /\ listed = {}
  /\ ordered = FALSE /\ failed = {}

Unsubmitted == {None} \cup {Draft(b) : b \in Answers}

\* Answers are saved while nothing was submitted, or are lost in the attempt.
Save(c, a) ==
  /\ shown[c] \in Unsubmitted
  /\ shown' = [shown EXCEPT ![c] = Draft(a)]
  /\ UNCHANGED <<told, listed, ordered, failed>>

LoseDraft(c) ==
  /\ shown[c] \in Unsubmitted
  /\ shown' = [shown EXCEPT ![c] = None]
  /\ UNCHANGED <<told, listed, ordered, failed>>

\* The sheet comes in; a repetition changes nothing.
Submit(c) ==
  /\ shown' = [shown EXCEPT ![c] = Final(c)]
  /\ UNCHANGED <<told, listed, ordered, failed>>

\* The sheet comes in and cannot be kept: what there was before may show.
FailSubmit(c) ==
  /\ failed' = failed \cup {c}
  /\ \E sheet \in {shown[c]} \cup Unsubmitted : shown' = [shown EXCEPT ![c] = sheet]
  /\ UNCHANGED <<told, listed, ordered>>

In(c) == ordered \/ c \in failed \/ shown[c] = Final(c)

Tell(c) ==
  /\ In(c)
  /\ told' = told \cup {c}
  /\ UNCHANGED <<shown, listed, ordered, failed>>

\* The record is written anew: it may lag behind, and not run ahead.
Record(names) ==
  /\ \A c \in names : In(c)
  /\ listed' = names
  /\ UNCHANGED <<shown, told, ordered, failed>>

Order ==
  /\ ordered' = TRUE
  /\ listed' = {}
  /\ UNCHANGED <<shown, told, failed>>

Erase ==
  /\ ordered
  /\ shown' = [c \in Client |-> None]
  /\ UNCHANGED <<told, listed, ordered, failed>>

Next ==
  \/ \E c \in Client :
       \/ Submit(c) \/ FailSubmit(c) \/ Tell(c) \/ LoseDraft(c)
       \/ \E a \in Answers : Save(c, a)
  \/ \E names \in SUBSET Client : Record(names)
  \/ Order \/ Erase

Spec == Init /\ [][Next]_vars
=============================================================================
