------------------------------ MODULE TaskQueue ------------------------------
(***************************************************************************)
(* The durable job queue of services/task_queue_service.py (collection     *)
(* background_jobs) and the daemons of workers/daemon.py that serve it.    *)
(*                                                                         *)
(* fetch_next_job is one find_one_and_update.  complete_job is one update  *)
(* by id; fail_job reads the job, then updates it by id.  A daemon never   *)
(* renews the 60-second lease of the job it runs, and nothing compares the *)
(* job's worker with the one that reports the outcome.                     *)
(***************************************************************************)
EXTENDS Naturals

CONSTANTS
  MaxJobs,        \* bound: jobs ever enqueued
  Workers,
  Priority,       \* [1 .. MaxJobs -> Nat]: priorityWeight
  MaxRetries,     \* maxRetries of every job
  MaxCrashes,     \* bound: daemons that die with a job in hand
  MaxReplays      \* bound: admin replays

ASSUME QueueAssumption ==
  /\ {MaxJobs, MaxRetries, MaxCrashes, MaxReplays} \subseteq Nat
  /\ MaxRetries > 0
  /\ Priority \in [1 .. MaxJobs -> Nat]

Jobs == 1 .. MaxJobs            \* numbered by createdAt

VARIABLES
  status,     \* [Jobs -> ...], "NONE" before the job is enqueued
  retries,    \* [Jobs -> Nat]
  leased,     \* jobs whose lockedUntil lies in the future
  work,       \* [Workers -> [phase, job, read]]: what each daemon is doing
  overdue,    \* history: jobs one of whose leases ran out
  crashes, replays

vars == <<status, retries, leased, work, overdue, crashes, replays>>
bounds == <<crashes, replays>>

Waiting == [phase |-> "idle", job |-> 0, read |-> 0]

Init ==
  /\ status = [j \in Jobs |-> "NONE"]
  /\ retries = [j \in Jobs |-> 0]
  /\ leased = {}
  /\ work = [w \in Workers |-> Waiting]
  /\ overdue = {}
  /\ crashes = 0 /\ replays = 0

-----------------------------------------------------------------------------
Enqueue(j) ==
  /\ status[j] = "NONE"
  /\ \A i \in Jobs : i < j => status[i] # "NONE"
  /\ status' = [status EXCEPT ![j] = "PENDING"]
  /\ UNCHANGED <<retries, leased, work, overdue, bounds>>

\* The query of fetch_next_job; before it one that ignores the lease and one that never
\* reclaims a job.
FetchablePending == {j \in Jobs : status[j] = "PENDING"}
FetchableUnleased == {j \in Jobs : status[j] \in {"PENDING", "PROCESSING"}}
Fetchable ==
  {j \in Jobs : status[j] = "PENDING" \/ (status[j] = "PROCESSING" /\ j \notin leased)}

\* sort=[("priorityWeight", -1), ("createdAt", 1)]
Before(i, j) == Priority[i] > Priority[j] \/ (Priority[i] = Priority[j] /\ i < j)

FetchNextJob(w) ==
  /\ work[w].phase = "idle"
  /\ \E j \in Fetchable :
       /\ \A i \in Fetchable \ {j} : Before(j, i)
       /\ status' = [status EXCEPT ![j] = "PROCESSING"]
       /\ leased' = leased \cup {j}
       /\ work' = [work EXCEPT ![w] = [phase |-> "running", job |-> j, read |-> 0]]
  /\ UNCHANGED <<retries, overdue, bounds>>

\* The handler returns: the job is completed, by its id alone.
CompleteJob(w) ==
  /\ work[w].phase = "running"
  /\ status' = [status EXCEPT ![work[w].job] = "COMPLETED"]
  /\ leased' = leased \ {work[w].job}
  /\ work' = [work EXCEPT ![w] = Waiting]
  /\ UNCHANGED <<retries, overdue, bounds>>

\* The handler raises, or none is registered for the type: fail_job reads the job ...
FailJobRead(w) ==
  /\ work[w].phase = "running"
  /\ work' = [work EXCEPT ![w] = [@ EXCEPT !.phase = "failing", !.read = retries[work[w].job]]]
  /\ UNCHANGED <<status, retries, leased, overdue, bounds>>

\* ... and writes the outcome.  An off-by-one of the limit and a status nobody fetches
\* come before the code's.
ExhaustedLate(count) == count > MaxRetries
Exhausted(count) == count >= MaxRetries

OutcomeFailed(count) == IF Exhausted(count) THEN "DEAD_LETTER" ELSE "FAILED"
Outcome(count) == IF Exhausted(count) THEN "DEAD_LETTER" ELSE "PENDING"

FailJobWrite(w) ==
  LET j == work[w].job
      count == work[w].read + 1
  IN  /\ work[w].phase = "failing"
      /\ status' = [status EXCEPT ![j] = Outcome(count)]
      /\ retries' = [retries EXCEPT ![j] = count]
      /\ leased' = leased \ {j}
      /\ work' = [work EXCEPT ![w] = Waiting]
      /\ UNCHANGED <<overdue, bounds>>

\* POST of an admin: the update's filter, without the status and with it.
ReplayableAny(j) == status[j] \notin {"NONE", "COMPLETED"}
Replayable(j) == status[j] = "DEAD_LETTER"

ReplayDeadLetterJob(j) ==
  /\ replays < MaxReplays
  /\ Replayable(j)
  /\ status' = [status EXCEPT ![j] = "PENDING"]
  /\ retries' = [retries EXCEPT ![j] = 0]
  /\ leased' = leased \ {j}
  /\ replays' = replays + 1
  /\ UNCHANGED <<work, overdue, crashes>>

\* Sixty seconds pass; the worker, if it lives, is still at it.
LeaseExpires(j) ==
  /\ j \in leased
  /\ leased' = leased \ {j}
  /\ overdue' = overdue \cup {j}
  /\ UNCHANGED <<status, retries, work, bounds>>

\* The daemon dies and is restarted under a new node id.
WorkerCrash(w) ==
  /\ crashes < MaxCrashes
  /\ work[w].phase # "idle"
  /\ crashes' = crashes + 1
  /\ work' = [work EXCEPT ![w] = Waiting]
  /\ UNCHANGED <<status, retries, leased, overdue, replays>>

WorkerStep(w) == FetchNextJob(w) \/ CompleteJob(w) \/ FailJobRead(w) \/ FailJobWrite(w)

Next ==
  \/ \E j \in Jobs : Enqueue(j) \/ ReplayDeadLetterJob(j) \/ LeaseExpires(j)
  \/ \E w \in Workers : WorkerStep(w) \/ WorkerCrash(w)

Spec == Init /\ [][Next]_vars

\* Each daemon loops over execute_one_job and its handlers return; leases run out.
Fairness ==
  /\ \A w \in Workers : WF_vars(WorkerStep(w))
  /\ \A j \in Jobs : WF_vars(LeaseExpires(j))

FairSpec == Spec /\ Fairness

-----------------------------------------------------------------------------
(* Properties                                                              *)

\* The documents and the daemons keep their shape.
TypeOK ==
  /\ status \in [Jobs -> {"NONE", "PENDING", "PROCESSING", "COMPLETED", "DEAD_LETTER"}]
  /\ retries \in [Jobs -> Nat]
  /\ leased \subseteq Jobs
  /\ work \in [Workers -> [phase : {"idle", "running", "failing"}, job : 0 .. MaxJobs,
                           read : Nat]]
  /\ overdue \subseteq Jobs
  /\ crashes \in 0 .. MaxCrashes /\ replays \in 0 .. MaxReplays

\* A job that workers may fetch has retries left, and one in the dead letter queue has
\* none: fail_job computes both from a count it read before, and other workers of the same
\* job, completions and replays write in between.
RetriesDecideStatus ==
  \A j \in Jobs :
    /\ status[j] \in {"PENDING", "PROCESSING"} => retries[j] < MaxRetries
    /\ status[j] = "DEAD_LETTER" => retries[j] >= MaxRetries

\* Two workers run one job only after a lease on it ran out.
At(w, j) == work[w].phase # "idle" /\ work[w].job = j
SoleWorker ==
  \A j \in Jobs \ overdue : \A v, w \in Workers : At(v, j) /\ At(w, j) => v = w

\* A worker's lease in the database outlives its work, while no lease of the job ran out:
\* nobody else can fetch the job then.
LeaseCoversWork ==
  \A w \in Workers : work[w].phase # "idle" /\ work[w].job \notin overdue =>
    work[w].job \in leased /\ status[work[w].job] = "PROCESSING"

\* Fetches, reports in two calls, replays, leases and deaths, in any order, have together no
\* effect that the whole steps of JobPromise would not have: while no lease of a job ran out
\* it is taken in its turn by one worker, completed for good, and counted failure by failure.
Promise == INSTANCE JobPromise
             WITH stage <- status, failures <- retries, lapsed <- overdue,
                  runners <- [j \in Jobs |-> {w \in Workers : At(w, j)}]

ImplementsPromise == Promise!Init /\ [][Promise!Next]_Promise!vars

\* Every job that waits is completed or lands in the dead letter queue, through crashes,
\* expired leases and retries counted twice or not at all.
JobSettles ==
  \A j \in Jobs : status[j] = "PENDING" ~> status[j] \in {"COMPLETED", "DEAD_LETTER"}
=============================================================================
