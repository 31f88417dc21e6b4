---------------------------- MODULE ClaimPromise ----------------------------
(***************************************************************************)
(* What the claims of a nominee go through, whoever handles them and       *)
(* however many requests and jobs do so at once.  Every step is whole:     *)
(* nothing is read earlier and written later, and nobody holds a copy.     *)
(*                                                                         *)
(* The four identity steps are taken one after the other.  The queue of    *)
(* the admins opens to a claim that has them all, or that an admin has     *)
(* asked to bring more.  A verdict is filed together with the stage it     *)
(* leads to.  The calendar ends the cooling period, and not before its     *)
(* time.  What is removed stays removed.  The assets follow an approval.   *)
(*                                                                         *)
(* No stage but the removal is final: the routes that queue, halt and      *)
(* decide a claim do not ask for one.                                      *)
(***************************************************************************)
EXTENDS Naturals

CONSTANT Claims     \* numbered in the order of their submission

VARIABLES
  stage,      \* "NONE" before the submission; both ways to wait for an admin are "QUEUED"
  progress,   \* how many of the identity steps are done
  verdicts,   \* what admins have decided so far
  due,        \* the claims whose cooling period is over by the calendar
  released    \* the nominee has been sent the assets

vars == <<stage, progress, verdicts, due, released>>

Init ==
  /\ stage = [c \in Claims |-> "NONE"]
  /\ progress = [c \in Claims |-> 0]
  /\ verdicts = [c \in Claims |-> {}]
  /\ due = {}
  /\ released = FALSE

Live(c) == stage[c] \notin {"NONE", "DELETED"}

MoveTo(c, s) == stage' = [stage EXCEPT ![c] = s]

Submit(c) ==
  /\ stage[c] = "NONE"
  /\ \A d \in Claims : d < c => stage[d] # "NONE"
  /\ MoveTo(c, "COOLING_PERIOD") \/ MoveTo(c, "NOMINEE_NOTIFIED")
  /\ UNCHANGED <<progress, verdicts, due, released>>

ComeDue(c) ==
  /\ Live(c)
  /\ due' = due \cup {c}
  /\ UNCHANGED <<stage, progress, verdicts, released>>

EndCooling(c) ==
  /\ Live(c) /\ c \in due
  /\ MoveTo(c, "NOMINEE_NOTIFIED")
  /\ UNCHANGED <<progress, verdicts, due, released>>

PassStep(c) ==
  /\ Live(c) /\ progress[c] < 4
  /\ progress' = [progress EXCEPT ![c] = @ + 1]
  /\ UNCHANGED <<stage, verdicts, due, released>>

Queue(c) ==
  /\ Live(c)
  /\ progress[c] = 4 \/ "REQUEST_MORE_DOCS" \in verdicts[c]
  /\ MoveTo(c, "QUEUED")
  /\ UNCHANGED <<progress, verdicts, due, released>>

Decide(c, verdict, s) ==
  /\ Live(c)
  /\ verdicts' = [verdicts EXCEPT ![c] = @ \cup {verdict}]
  /\ MoveTo(c, s)
  /\ UNCHANGED <<progress, due, released>>

Halt(c) ==
  /\ Live(c)
  /\ MoveTo(c, "HALTED")
  /\ UNCHANGED <<progress, verdicts, due, released>>

RemoveAll ==
  /\ stage' = [c \in Claims |-> IF Live(c) THEN "DELETED" ELSE stage[c]]
  /\ UNCHANGED <<progress, verdicts, due, released>>

Release ==
  /\ \E c \in Claims : "APPROVE" \in verdicts[c]
  /\ released' = TRUE
  /\ UNCHANGED <<stage, progress, verdicts, due>>

Next ==
  \/ \E c \in Claims :
       \/ Submit(c) \/ ComeDue(c) \/ EndCooling(c) \/ PassStep(c) \/ Queue(c) \/ Halt(c)
       \/ Decide(c, "APPROVE", "APPROVED") \/ Decide(c, "REJECT", "REJECTED")
       \/ Decide(c, "REQUEST_MORE_DOCS", "MORE_DOCUMENTS_REQUIRED")
  \/ RemoveAll
  \/ Release

Spec == Init /\ [][Next]_vars
=============================================================================
