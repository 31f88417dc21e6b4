----------------------------- MODULE JobPromise -----------------------------
(***************************************************************************)
(* What the queue promises of a job, told in whole steps.                  *)
(*                                                                         *)
(* Until a lease on it runs out, a job has one worker at a time, is taken  *)
(* in its turn, is completed once and for good, and fails as often as it   *)
(* is counted: the dead letter queue gets it at the last retry, not before *)
(* and not later.  Once a lease has run out (lapsed), several workers may  *)
(* have it, each may still report, and a failure may be counted from an    *)
(* old count; what is left is that only a worker who has the job reports.  *)
(***************************************************************************)
EXTENDS Naturals

CONSTANTS Jobs,     \* numbered in the order in which they are enqueued
          Workers, Priority, MaxRetries

VARIABLES
  stage,
  failures,   \* as many as are counted
  runners,    \* [Jobs -> SUBSET Workers]
  lapsed      \* the jobs one of whose leases ran out

vars == <<stage, failures, runners, lapsed>>

Init ==
  /\ stage = [j \in Jobs |-> "NONE"]
  /\ failures = [j \in Jobs |-> 0]
  /\ runners = [j \in Jobs |-> {}]
  /\ lapsed = {}

MoveTo(j, s) == stage' = [stage EXCEPT ![j] = s]

Submit(j) ==
  /\ stage[j] = "NONE" /\ \A i \in Jobs : i < j => stage[i] # "NONE"
  /\ MoveTo(j, "PENDING")
  /\ UNCHANGED <<failures, runners, lapsed>>

\* No job that waits comes before j.
FirstInLine(j) ==
  \A i \in Jobs : stage[i] = "PENDING" =>
    Priority[j] > Priority[i] \/ (Priority[j] = Priority[i] /\ j <= i)

Take(j, w) ==
  /\ \A i \in Jobs : w \notin runners[i]
  /\ FirstInLine(j)
  /\ \/ stage[j] = "PENDING" /\ (j \in lapsed \/ runners[j] = {})
     \/ stage[j] = "PROCESSING" /\ j \in lapsed
  /\ MoveTo(j, "PROCESSING")
  /\ runners' = [runners EXCEPT ![j] = @ \cup {w}]
  /\ UNCHANGED <<failures, lapsed>>

\* Worker w may report on j, and has then done with it.
Report(j, w) ==
  /\ w \in runners[j]
  /\ j \in lapsed \/ (stage[j] = "PROCESSING" /\ runners[j] = {w})
  /\ runners' = [runners EXCEPT ![j] = @ \ {w}]

Complete(j, w) ==
  /\ Report(j, w)
  /\ MoveTo(j, "COMPLETED")
  /\ UNCHANGED <<failures, lapsed>>

Fail(j, w) ==
  /\ Report(j, w)
  /\ failures' = [failures EXCEPT ![j] = failures'[j]]
  /\ j \in lapsed \/ failures'[j] = failures[j] + 1
  /\ MoveTo(j, IF failures'[j] >= MaxRetries THEN "DEAD_LETTER" ELSE "PENDING")
  /\ UNCHANGED lapsed

Replay(j) ==
  /\ stage[j] = "DEAD_LETTER"
  /\ MoveTo(j, "PENDING")
  /\ failures' = [failures EXCEPT ![j] = 0]
  /\ UNCHANGED <<runners, lapsed>>

Lapse(j) ==
  /\ stage[j] = "PROCESSING"
  /\ lapsed' = lapsed \cup {j}
  /\ UNCHANGED <<stage, failures, runners>>

\* A worker dies.  Only the lapse of its lease brings its job back.
Die(w) ==
  /\ runners' = [j \in Jobs |-> runners[j] \ {w}]
  /\ UNCHANGED <<stage, failures, lapsed>>

Next ==
  \/ \E j \in Jobs :
       \/ Submit(j) \/ Replay(j) \/ Lapse(j)
       \/ \E w \in Workers : Take(j, w) \/ Complete(j, w) \/ Fail(j, w)
  \/ \E w \in Workers : Die(w)

Spec == Init /\ [][Next]_vars
=============================================================================
