------------------------ MODULE TaskQueueService_proofs ------------------------
(***************************************************************************)
(* Proofs about the two services of services/task_queue_service.py, the    *)
(* lock and the job queue, for any number of processes, documents, jobs    *)
(* and retries.                                                            *)
(*                                                                         *)
(* The lock.  LeaseKept must hold from the insertion on (Leased).  A       *)
(* process that does not hold the lock has no document, and nobody has two *)
(* (Tidy), as long as the documents of the dead are not taken over.  While *)
(* no lease has run out and ids grow, who sweeps has the first document    *)
(* (Ordered): later documents come behind it, and only its owner deletes   *)
(* it.                                                                     *)
(*                                                                         *)
(* The queue.  RetriesDecideStatus is inductive with the types: fail_job   *)
(* derives the status and the count from the same number, however old it   *)
(* is.  SoleWorker needs LeaseCoversWork: a worker's job cannot be fetched *)
(* again because it is PROCESSING under a lease, and it stays so until the *)
(* one worker that has it reports back.                                    *)
(*                                                                         *)
(* The queue implements JobPromise: the two calls of fail_job come to one  *)
(* step because, until a lease of the job runs out, the count that was     *)
(* read is still the job's (FailingReads), and who fetches a job that is   *)
(* processed finds a lease that ran out (LeasedRuns).                      *)
(***************************************************************************)
EXTENDS DistributedLock, TaskQueue, TLAPS

Leased == \A o \in mine : at[o] \in {"check", "sweep"} => \E i \in Docs \ expired : owner[i] = o

Holding == {"check", "cleanup", "sweep"}
Single == \A i, k \in Docs : owner[i] = owner[k] => i = k
Tidy == deaths = 0 => Single /\ \A i \in Docs : at[owner[i]] \in Holding

Young == orderedIds /\ expiries = 0
Ordered == Young => /\ expired = {} /\ Single
                    /\ \A i \in Docs : at[owner[i]] \in Holding \cup {"gone"}
                    /\ \A o \in Owners : at[o] = "sweep" => OwnsFirst(o)

-----------------------------------------------------------------------------
(* Types                                                                   *)

LEMMA InitTypes == LockInit => LockTypeOK
BY LockAssumption DEF LockInit, LockTypeOK, Docs

LEMMA DeleteTypes ==
  ASSUME LockTypeOK, NEW o \in Owners, DeleteOwn(o)
  PROVE  owner' \in [Ids -> Owners \cup {Nobody}] /\ expired' \subseteq Docs'
BY DEF LockTypeOK, DeleteOwn, Docs

LEMMA StepTypes == LockTypeOK /\ [LockNext]_lockVars => LockTypeOK'
<1> SUFFICES ASSUME LockTypeOK, [LockNext]_lockVars PROVE LockTypeOK'
  OBVIOUS
<1> USE LockAssumption
<1>1. ASSUME NEW o \in Owners, OwnerStep(o), orderedIds' = orderedIds PROVE LockTypeOK'
  <2>1. CASE AcquireUpdate(o)
    <3>1. CASE TakeableBy(o) = {}
      BY <1>1, <2>1, <3>1 DEF AcquireUpdate, LockTypeOK, Docs, Go
    <3>2. ASSUME NEW i \in TakeableBy(o), owner' = [owner EXCEPT ![i] = o],
                 expired' = expired \ {i}, mine' = mine \cup {o}, at' = [at EXCEPT ![o] = "sweep"],
                 UNCHANGED <<expiries, deaths>>
          PROVE  LockTypeOK'
      <4>1. owner' \in [Ids -> Owners \cup {Nobody}] /\ expired' \subseteq Docs'
        BY <3>2, OwnersAssumption DEF LockTypeOK, Docs, TakeableBy
      <4> QED BY <1>1, <3>2, <4>1 DEF LockTypeOK
    <3> QED BY <2>1, <3>1, <3>2 DEF AcquireUpdate, Go
  <2>2. CASE AcquireLook(o)
    BY <1>1, <2>2 DEF AcquireLook, LockTypeOK, Docs, Go
  <2>3. CASE AcquireInsert(o)
    BY <1>1, <2>3, OwnersAssumption DEF AcquireInsert, LockTypeOK, Docs, Go
  <2>4. CASE AcquireCheck(o)
    BY <1>1, <2>4 DEF AcquireCheck, LockTypeOK, Docs, Go
  <2>5. CASE AcquireCleanup(o)
    BY <1>1, <2>5, DeleteTypes DEF AcquireCleanup, LockTypeOK, Go
  <2>6. CASE ReleaseLock(o)
    BY <1>1, <2>6, DeleteTypes DEF ReleaseLock, LockTypeOK, Go
  <2>7. CASE RenewLock(o)
    BY <1>1, <2>7 DEF RenewLock, LockTypeOK, Docs
  <2>8. CASE Crash(o)
    BY <1>1, <2>8 DEF Crash, LockTypeOK, Docs, Go
  <2> QED BY <1>1, <2>1, <2>2, <2>3, <2>4, <2>5, <2>6, <2>7, <2>8 DEF OwnerStep
<1>2. ASSUME NEW i \in Ids, Expire(i), orderedIds' = orderedIds PROVE LockTypeOK'
  BY <1>2 DEF Expire, LockTypeOK, Docs
<1>3. CASE UNCHANGED lockVars
  BY <1>3 DEF lockVars, LockTypeOK, Docs
<1> QED BY <1>1, <1>2, <1>3 DEF LockNext

\* The documents and the processes keep their shape.
THEOREM LockTypeCorrect == LockSpec => []LockTypeOK
BY InitTypes, StepTypes, PTL DEF LockSpec

-----------------------------------------------------------------------------
(* A running lease                                                         *)

\* Only the owner's document goes.
LEMMA OthersStay ==
  ASSUME LockTypeOK, NEW o \in Owners, DeleteOwn(o), NEW p, p # o, NEW i \in Docs \ expired, owner[i] = p
  PROVE  i \in Docs' \ expired' /\ owner'[i] = p
BY DEF LockTypeOK, DeleteOwn, Docs

LEMMA StepLeased == LockTypeOK /\ Leased /\ [LockNext]_lockVars => Leased'
<1> SUFFICES ASSUME LockTypeOK, Leased, [LockNext]_lockVars,
                    NEW p \in mine', at'[p] \in {"check", "sweep"}
             PROVE  \E i \in Docs' \ expired' : owner'[i] = p
  BY DEF Leased
<1> USE OwnersAssumption
<1>0. p \in mine /\ at[p] \in {"check", "sweep"} =>
        \E i \in Docs \ expired : owner[i] = p
  BY DEF Leased
<1>1. ASSUME NEW o \in Owners, OwnerStep(o) PROVE \E i \in Docs' \ expired' : owner'[i] = p
  <2>1. CASE AcquireUpdate(o)
    <3>1. CASE p = o
      BY <2>1, <3>1 DEF AcquireUpdate, Go, LockTypeOK, TakeableBy, Docs
    <3>2. CASE p # o
      <4>1. p \in mine /\ at[p] = at'[p]
        BY <2>1, <3>2 DEF AcquireUpdate, Go, LockTypeOK
      <4>2. PICK i \in Docs \ expired : owner[i] = p
        BY <1>0, <4>1
      <4>3. i \notin TakeableBy(o)
        BY <3>2, <4>2 DEF TakeableBy
      <4> QED BY <2>1, <4>2, <4>3 DEF AcquireUpdate, LockTypeOK, Docs
    <3> QED BY <3>1, <3>2
  <2>2. CASE AcquireLook(o)
    BY <1>0, <2>2 DEF AcquireLook, Go, LockTypeOK, Docs
  <2>3. CASE AcquireInsert(o)
    <3>1. CASE p = o
      BY <2>3, <3>1 DEF AcquireInsert, Go, LockTypeOK, Docs
    <3>2. CASE p # o
      <4>1. p \in mine /\ at[p] = at'[p]
        BY <2>3, <3>2 DEF AcquireInsert, Go, LockTypeOK
      <4>2. PICK i \in Docs \ expired : owner[i] = p
        BY <1>0, <4>1
      <4> QED BY <2>3, <4>2 DEF AcquireInsert, LockTypeOK, Docs
    <3> QED BY <3>1, <3>2
  <2>4. CASE AcquireCheck(o)
    BY <1>0, <2>4 DEF AcquireCheck, Go, LockTypeOK, Docs
  <2>5. CASE AcquireCleanup(o) \/ ReleaseLock(o)
    <3>1. DeleteOwn(o) /\ p \in mine /\ p # o /\ at[p] = at'[p]
      BY <2>5 DEF AcquireCleanup, ReleaseLock, Go, LockTypeOK
    <3> QED BY <1>0, <3>1, OthersStay
  <2>6. CASE RenewLock(o)
    BY <1>0, <2>6 DEF RenewLock, LockTypeOK, Docs
  <2>7. CASE Crash(o)
    BY <1>0, <2>7 DEF Crash, Go, LockTypeOK, Docs
  <2> QED BY <1>1, <2>1, <2>2, <2>3, <2>4, <2>5, <2>6, <2>7 DEF OwnerStep
<1>2. ASSUME NEW i \in Ids, Expire(i) PROVE \E k \in Docs' \ expired' : owner'[k] = p
  BY <1>0, <1>2 DEF Expire, LockTypeOK, Docs
<1>3. CASE UNCHANGED lockVars
  BY <1>0, <1>3 DEF lockVars, Docs
<1> QED BY <1>1, <1>2, <1>3 DEF LockNext

\* While a process sweeps under a lease that has not run out, its document stays.
THEOREM LeaseAlwaysKept == LockSpec => []LeaseKept
<1>1. LockInit => Leased
  BY DEF LockInit, Leased
<1>2. Leased => LeaseKept
  BY DEF Leased, LeaseKept
<1> QED BY <1>1, <1>2, LockTypeCorrect, StepLeased, PTL DEF LockSpec

-----------------------------------------------------------------------------
(* Leftovers and exclusion                                                 *)

\* A deletion of a process's only document.
LEMMA DeleteOnly ==
  ASSUME LockTypeOK, Single, NEW o \in Owners, DeleteOwn(o)
  PROVE  /\ Single' /\ Docs' \subseteq Docs
         /\ \A i \in Docs' : owner'[i] = owner[i] /\ owner[i] # o
         /\ \A i \in Docs : owner[i] # o => i \in Docs'
BY OwnersAssumption DEF LockTypeOK, Single, DeleteOwn, Docs

LEMMA StepTidy == LockTypeOK /\ Tidy /\ [LockNext]_lockVars => Tidy'
<1> SUFFICES ASSUME LockTypeOK, Tidy, [LockNext]_lockVars, deaths' = 0
             PROVE  Single' /\ \A i \in Docs' : at'[owner'[i]] \in Holding
  BY DEF Tidy
<1> USE OwnersAssumption
<1>1. deaths = 0
  BY DEF LockNext, OwnerStep, AcquireUpdate, AcquireLook, AcquireInsert, AcquireCheck, AcquireCleanup,
         ReleaseLock, RenewLock, Crash, Expire, lockVars, LockTypeOK
<1>2. Single /\ \A i \in Docs : at[owner[i]] \in Holding /\ owner[i] \in Owners
  BY <1>1 DEF Tidy, LockTypeOK, Docs
<1>3. ASSUME NEW o \in Owners, OwnerStep(o) PROVE Single' /\ \A i \in Docs' : at'[owner'[i]] \in Holding
  <2>1. CASE AcquireUpdate(o)
    <3>1. \A i \in Docs : owner[i] # o
      BY <1>2, <2>1 DEF AcquireUpdate, Holding
    <3> QED BY <1>2, <2>1, <3>1 DEF AcquireUpdate, TakeableBy, Go, LockTypeOK, Single, Holding, Docs
  <2>2. CASE AcquireLook(o)
    BY <1>2, <2>2 DEF AcquireLook, Go, LockTypeOK, Single, Holding, Docs
  <2>3. CASE AcquireInsert(o)
    <3>1. \A i \in Docs : owner[i] # o
      BY <1>2, <2>3 DEF AcquireInsert, Holding
    <3> QED BY <1>2, <2>3, <3>1 DEF AcquireInsert, Go, LockTypeOK, Single, Holding, Docs
  <2>4. CASE AcquireCheck(o)
    BY <1>2, <2>4 DEF AcquireCheck, Go, LockTypeOK, Single, Holding, Docs
  <2>5. CASE AcquireCleanup(o) \/ ReleaseLock(o)
    <3>1. DeleteOwn(o) /\ at' = [at EXCEPT ![o] = "idle"]
      BY <2>5 DEF AcquireCleanup, ReleaseLock, Go
    <3> QED BY <1>2, <3>1, DeleteOnly DEF LockTypeOK
  <2>6. CASE RenewLock(o)
    BY <1>2, <2>6 DEF RenewLock, Single, Docs
  <2>7. CASE Crash(o)
    BY <1>1, <2>7 DEF Crash
  <2> QED BY <1>3, <2>1, <2>2, <2>3, <2>4, <2>5, <2>6, <2>7 DEF OwnerStep
<1>4. ASSUME NEW i \in Ids, Expire(i) PROVE Single' /\ \A k \in Docs' : at'[owner'[k]] \in Holding
  BY <1>2, <1>4 DEF Expire, Single, Docs
<1>5. CASE UNCHANGED lockVars
  BY <1>2, <1>5 DEF lockVars, Single, Docs
<1> QED BY <1>3, <1>4, <1>5 DEF LockNext

\* When every process is done and none has died, no document is left behind.
THEOREM NeverLeftovers == LockSpec => []NoLeftovers
<1>1. LockInit => Tidy
  BY DEF LockInit, Tidy, Single, Docs
<1>2. LockTypeOK /\ Tidy => NoLeftovers
  BY DEF LockTypeOK, Tidy, NoLeftovers, Docs, Holding
<1> QED BY <1>1, <1>2, LockTypeCorrect, StepTidy, PTL DEF LockSpec

\* An owner of the first document keeps it while later ones come and others go.
LEMMA StepOrdered == LockTypeOK /\ Ordered /\ [LockNext]_lockVars => Ordered'
<1> SUFFICES ASSUME LockTypeOK, Ordered, [LockNext]_lockVars, Young'
             PROVE  /\ expired' = {} /\ Single'
                    /\ \A i \in Docs' : at'[owner'[i]] \in Holding \cup {"gone"}
                    /\ \A p \in Owners : at'[p] = "sweep" => OwnsFirst(p)'
  BY DEF Ordered
<1> DEFINE Goal == /\ expired' = {} /\ Single'
                   /\ \A i \in Docs' : at'[owner'[i]] \in Holding \cup {"gone"}
                   /\ \A p \in Owners : at'[p] = "sweep" => OwnsFirst(p)'
<1> USE OwnersAssumption
<1>1. Young
  <2>1. expiries' = 0 => expiries = 0
    BY DEF LockNext, OwnerStep, AcquireUpdate, AcquireLook, AcquireInsert, AcquireCheck,
           AcquireCleanup, ReleaseLock, RenewLock, Crash, Expire, lockVars, LockTypeOK
  <2>2. orderedIds' = orderedIds
    BY DEF LockNext, lockVars
  <2> QED BY <2>1, <2>2 DEF Young
<1>2. /\ expired = {} /\ Single
      /\ \A i \in Docs : at[owner[i]] \in Holding \cup {"gone"} /\ owner[i] \in Owners
      /\ \A p \in Owners : at[p] = "sweep" => OwnsFirst(p)
  BY <1>1 DEF Ordered, LockTypeOK, Docs
<1>3. ASSUME NEW o \in Owners, OwnerStep(o), orderedIds PROVE Goal
  <2>1. CASE AcquireUpdate(o)
    <3>1. TakeableBy(o) = {}
      BY <1>2, <2>1 DEF AcquireUpdate, TakeableBy, Holding
    <3> QED BY <1>2, <2>1, <3>1 DEF AcquireUpdate, Go, LockTypeOK, Single, Holding, Docs, OwnsFirst
  <2>2. CASE AcquireLook(o)
    BY <1>2, <2>2 DEF AcquireLook, Go, LockTypeOK, Single, Holding, Docs, OwnsFirst
  <2>3. CASE AcquireInsert(o)
    <3>1. PICK n \in Ids : owner[n] = Nobody /\ (\A k \in Docs : k < n) /\ owner' = [owner EXCEPT ![n] = o]
      BY <1>3, <2>3 DEF AcquireInsert
    <3>2. Docs' = Docs \cup {n} /\ (\A i \in Docs : owner'[i] = owner[i]) /\ owner'[n] = o
      BY <3>1 DEF Docs, LockTypeOK
    <3>3. \A i \in Docs : owner[i] # o
      BY <1>2, <2>3 DEF AcquireInsert, Holding
    <3>4. expired' = expired /\ at' = [at EXCEPT ![o] = "check"]
      BY <2>3 DEF AcquireInsert, Go
    <3>5. ASSUME NEW p \in Owners, at'[p] = "sweep" PROVE OwnsFirst(p)'
      <4>1. OwnsFirst(p)
        BY <1>2, <3>4, <3>5 DEF LockTypeOK
      <4>2. PICK i \in Docs : owner[i] = p /\ \A k \in Docs : i <= k
        BY <4>1 DEF OwnsFirst
      <4>3. i \in Nat /\ n \in Nat /\ i < n
        BY <3>1, <4>2, LockAssumption DEF Docs
      <4>4. \A k \in Docs' : i <= k
        BY <3>2, <4>2, <4>3
      <4> QED BY <3>2, <4>2, <4>4 DEF OwnsFirst
    <3>6. Single'
      BY <1>2, <3>2, <3>3 DEF Single
    <3>7. \A i \in Docs' : at'[owner'[i]] \in Holding \cup {"gone"}
      BY <1>2, <3>2, <3>4 DEF Holding, LockTypeOK
    <3> QED BY <1>2, <3>4, <3>5, <3>6, <3>7
  <2>4. CASE AcquireCheck(o)
    BY <1>2, <2>4 DEF AcquireCheck, Go, LockTypeOK, Single, Holding, Docs, OwnsFirst
  <2>5. CASE AcquireCleanup(o) \/ ReleaseLock(o)
    <3>1. DeleteOwn(o) /\ at' = [at EXCEPT ![o] = "idle"]
      BY <2>5 DEF AcquireCleanup, ReleaseLock, Go
    <3>2. /\ Single' /\ Docs' \subseteq Docs
          /\ \A i \in Docs' : owner'[i] = owner[i] /\ owner[i] # o
          /\ \A i \in Docs : owner[i] # o => i \in Docs'
      BY <1>2, <3>1, DeleteOnly
    <3>3. expired' = {}
      BY <1>2, <3>1 DEF DeleteOwn
    <3>4. ASSUME NEW p \in Owners, at'[p] = "sweep" PROVE OwnsFirst(p)'
      <4>1. p # o /\ OwnsFirst(p)
        BY <1>2, <3>1, <3>4 DEF LockTypeOK
      <4> QED BY <3>2, <4>1 DEF OwnsFirst
    <3>5. \A i \in Docs' : at'[owner'[i]] \in Holding \cup {"gone"}
      BY <1>2, <3>1, <3>2 DEF LockTypeOK
    <3> QED BY <3>2, <3>3, <3>4, <3>5
  <2>6. CASE RenewLock(o)
    BY <1>2, <2>6 DEF RenewLock, Single, Docs, OwnsFirst
  <2>7. CASE Crash(o)
    BY <1>2, <2>7 DEF Crash, Go, LockTypeOK, Single, Holding, Docs, OwnsFirst
  <2> QED BY <1>3, <2>1, <2>2, <2>3, <2>4, <2>5, <2>6, <2>7 DEF OwnerStep
<1>4. ASSUME NEW i \in Ids, Expire(i) PROVE Goal
  BY <1>4 DEF Expire, Young, LockTypeOK
<1>5. CASE UNCHANGED lockVars
  BY <1>2, <1>5 DEF lockVars, Single, Docs, OwnsFirst
<1> QED BY <1>1, <1>3, <1>4, <1>5 DEF LockNext, Young

\* With ids in the order of insertion, and before any lease runs out, the lock excludes.
THEOREM ExcludesWhenOrdered == LockSpec => []ExclusiveWhenOrdered
<1>1. LockInit => Ordered
  BY DEF LockInit, Ordered, Single, Docs
<1>2. LockTypeOK /\ Ordered => ExclusiveWhenOrdered
  <2> SUFFICES ASSUME LockTypeOK, Ordered, Young, NEW o \in mine, NEW p \in mine,
                      at[o] = "sweep", at[p] = "sweep"
               PROVE  o = p
    BY DEF ExclusiveWhenOrdered, MutualExclusion, Young
  <2>1. OwnsFirst(o) /\ OwnsFirst(p)
    BY DEF Ordered, LockTypeOK
  <2>2. PICK i \in Docs, k \in Docs : i <= k /\ k <= i /\ owner[i] = o /\ owner[k] = p
    BY <2>1 DEF OwnsFirst
  <2> QED BY <2>2, LockAssumption DEF Docs
<1> QED BY <1>1, <1>2, LockTypeCorrect, StepOrdered, PTL DEF LockSpec

-----------------------------------------------------------------------------
(* The queue                                                               *)

USE QueueAssumption

\* A worker that is busy has one of the jobs in hand; a job not enqueued has not failed.
WorkersHaveJobs ==
  /\ \A w \in Workers : work[w].phase # "idle" => work[w].job \in Jobs
  /\ \A j \in Jobs : status[j] = "NONE" => retries[j] = 0

QInv == TypeOK /\ WorkersHaveJobs /\ RetriesDecideStatus /\ SoleWorker /\ LeaseCoversWork

\* The invariant holds of the empty queue.
LEMMA Initially == Init => QInv
<1> SUFFICES ASSUME Init PROVE QInv
  OBVIOUS
<1> USE DEF Init, Waiting
<1>1. TypeOK
  BY DEF TypeOK
<1>2. WorkersHaveJobs /\ RetriesDecideStatus /\ SoleWorker /\ LeaseCoversWork
  BY DEF WorkersHaveJobs, RetriesDecideStatus, SoleWorker, LeaseCoversWork, At
<1> QED
  BY <1>1, <1>2 DEF QInv

\* No step keeps it from holding.
LEMMA Inductive == QInv /\ [Next]_vars => QInv'
<1> SUFFICES ASSUME QInv, [Next]_vars PROVE QInv'
  OBVIOUS
<1> USE DEF QInv, bounds
<1>t. TypeOK /\ WorkersHaveJobs
  OBVIOUS
<1>1. ASSUME NEW j \in Jobs, Enqueue(j) PROVE QInv'
  <2>1. TypeOK' /\ WorkersHaveJobs'
    BY <1>1, <1>t DEF Enqueue, TypeOK, WorkersHaveJobs
  <2>2. RetriesDecideStatus'
    <3>1. retries[j] < MaxRetries
      BY <1>1 DEF Enqueue, WorkersHaveJobs
    <3> QED
      BY <1>1, <1>t, <3>1 DEF Enqueue, TypeOK, RetriesDecideStatus
  <2>3. SoleWorker' /\ LeaseCoversWork'
    BY <1>1, <1>t DEF Enqueue, TypeOK, WorkersHaveJobs, SoleWorker, LeaseCoversWork, At
  <2> QED
    BY <2>1, <2>2, <2>3
<1>2. ASSUME NEW j \in Jobs, ReplayDeadLetterJob(j) PROVE QInv'
  <2>1. TypeOK' /\ WorkersHaveJobs'
    BY <1>2, <1>t DEF ReplayDeadLetterJob, TypeOK, WorkersHaveJobs
  <2>2. RetriesDecideStatus'
    BY <1>2, <1>t DEF ReplayDeadLetterJob, TypeOK, RetriesDecideStatus
  <2>3. SoleWorker' /\ LeaseCoversWork'
    BY <1>2, <1>t
    DEF ReplayDeadLetterJob, Replayable, TypeOK, WorkersHaveJobs, SoleWorker, LeaseCoversWork, At
  <2> QED
    BY <2>1, <2>2, <2>3
<1>3. ASSUME NEW j \in Jobs, LeaseExpires(j) PROVE QInv'
  <2>1. TypeOK' /\ WorkersHaveJobs'
    BY <1>3, <1>t DEF LeaseExpires, TypeOK, WorkersHaveJobs
  <2>2. RetriesDecideStatus'
    BY <1>3 DEF LeaseExpires, RetriesDecideStatus
  <2>3. SoleWorker' /\ LeaseCoversWork'
    BY <1>3, <1>t DEF LeaseExpires, TypeOK, WorkersHaveJobs, SoleWorker, LeaseCoversWork, At
  <2> QED
    BY <2>1, <2>2, <2>3
<1>4. ASSUME NEW w \in Workers, FetchNextJob(w) PROVE QInv'
  <2>1. PICK j \in Fetchable :
          /\ status' = [status EXCEPT ![j] = "PROCESSING"]
          /\ leased' = leased \cup {j}
          /\ work' = [work EXCEPT ![w] = [phase |-> "running", job |-> j, read |-> 0]]
    BY <1>4 DEF FetchNextJob
  <2>2. j \in Jobs /\ UNCHANGED <<retries, overdue, bounds>>
    BY <1>4, <2>1 DEF FetchNextJob, Fetchable
  <2>3. TypeOK'
    <3>1. [phase |-> "running", job |-> j, read |-> 0]
            \in [phase : {"idle", "running", "failing"}, job : 0 .. MaxJobs, read : Nat]
      BY <2>2 DEF Jobs
    <3>2. /\ work' \in [Workers -> [phase : {"idle", "running", "failing"}, job : 0 .. MaxJobs,
                                    read : Nat]]
          /\ leased' \subseteq Jobs
      BY <2>1, <2>2, <3>1, <1>t DEF TypeOK
    <3> QED
      BY <2>1, <2>2, <3>2, <1>t DEF TypeOK, bounds
  <2>7. WorkersHaveJobs'
    BY <2>1, <2>2, <1>t DEF TypeOK, WorkersHaveJobs
  <2>4. RetriesDecideStatus'
    BY <2>1, <2>2, <1>t DEF TypeOK, RetriesDecideStatus, Fetchable
  <2>5. j \notin overdue => \A v \in Workers : ~At(v, j)
    BY <2>1, <1>t DEF Fetchable, LeaseCoversWork, At
  <2>6. /\ work'[w].job = j /\ \A v \in Workers \ {w} : work'[v] = work[v]
        /\ status'[j] = "PROCESSING" /\ \A i \in Jobs \ {j} : status'[i] = status[i]
        /\ leased' = leased \cup {j} /\ overdue' = overdue
    BY <2>1, <2>2, <1>t DEF TypeOK
  <2>8. SoleWorker'
    BY <2>5, <2>6 DEF SoleWorker, At
  <2>9. LeaseCoversWork'
    BY <2>6 DEF LeaseCoversWork, WorkersHaveJobs
  <2> QED
    BY <2>3, <2>4, <2>7, <2>8, <2>9
<1>5. ASSUME NEW w \in Workers, CompleteJob(w) PROVE QInv'
  <2>1. work[w].job \in Jobs
    BY <1>5, <1>t DEF CompleteJob, WorkersHaveJobs
  <2>2. TypeOK' /\ WorkersHaveJobs'
    BY <1>5, <1>t, <2>1 DEF CompleteJob, Waiting, TypeOK, WorkersHaveJobs
  <2>3. RetriesDecideStatus'
    BY <1>5, <1>t, <2>1 DEF CompleteJob, TypeOK, RetriesDecideStatus
  <2>4. SoleWorker' /\ LeaseCoversWork'
    BY <1>5, <1>t, <2>1
    DEF CompleteJob, Waiting, TypeOK, WorkersHaveJobs, SoleWorker, LeaseCoversWork, At
  <2> QED
    BY <2>2, <2>3, <2>4
<1>6. ASSUME NEW w \in Workers, FailJobRead(w) PROVE QInv'
  <2>1. work[w].job \in Jobs
    BY <1>6, <1>t DEF FailJobRead, WorkersHaveJobs
  <2>2. TypeOK' /\ WorkersHaveJobs'
    BY <1>6, <1>t, <2>1 DEF FailJobRead, TypeOK, WorkersHaveJobs
  <2>3. RetriesDecideStatus'
    BY <1>6 DEF FailJobRead, RetriesDecideStatus
  <2>4. /\ work[w].phase # "idle" /\ work'[w].job = work[w].job
        /\ \A v \in Workers \ {w} : work'[v] = work[v]
        /\ UNCHANGED <<status, leased, overdue>>
    BY <1>6, <1>t DEF FailJobRead, TypeOK
  <2>5. SoleWorker'
    BY <2>4 DEF SoleWorker, At
  <2>6. LeaseCoversWork'
    BY <2>4 DEF LeaseCoversWork
  <2> QED
    BY <2>2, <2>3, <2>5, <2>6
<1>7. ASSUME NEW w \in Workers, FailJobWrite(w) PROVE QInv'
  <2>1. work[w].job \in Jobs /\ work[w].read \in Nat
    BY <1>7, <1>t DEF FailJobWrite, WorkersHaveJobs, TypeOK
  <2>2. TypeOK' /\ WorkersHaveJobs'
    BY <1>7, <1>t, <2>1 DEF FailJobWrite, Outcome, Waiting, TypeOK, WorkersHaveJobs
  <2>3. RetriesDecideStatus'
    BY <1>7, <1>t, <2>1 DEF FailJobWrite, Outcome, Exhausted, TypeOK, RetriesDecideStatus
  <2>4. /\ work'[w].phase = "idle" /\ \A v \in Workers \ {w} : work'[v] = work[v]
        /\ \A i \in Jobs \ {work[w].job} : status'[i] = status[i]
        /\ leased' = leased \ {work[w].job} /\ overdue' = overdue
        /\ work[w].phase # "idle"
    BY <1>7, <1>t, <2>1 DEF FailJobWrite, Waiting, TypeOK
  <2>5. SoleWorker'
    BY <2>4 DEF SoleWorker, At
  <2>6. LeaseCoversWork'
    BY <2>1, <2>4 DEF LeaseCoversWork, SoleWorker, WorkersHaveJobs, At
  <2> QED
    BY <2>2, <2>3, <2>5, <2>6
<1>8. ASSUME NEW w \in Workers, WorkerCrash(w) PROVE QInv'
  <2>1. TypeOK' /\ WorkersHaveJobs'
    BY <1>8, <1>t DEF WorkerCrash, Waiting, TypeOK, WorkersHaveJobs
  <2>2. RetriesDecideStatus'
    BY <1>8 DEF WorkerCrash, RetriesDecideStatus
  <2>3. SoleWorker' /\ LeaseCoversWork'
    BY <1>8, <1>t DEF WorkerCrash, Waiting, TypeOK, WorkersHaveJobs, SoleWorker, LeaseCoversWork, At
  <2> QED
    BY <2>1, <2>2, <2>3
<1>9. CASE UNCHANGED vars
  BY <1>9 DEF vars, TypeOK, WorkersHaveJobs, RetriesDecideStatus, SoleWorker, LeaseCoversWork, At
<1> QED
  BY <1>1, <1>2, <1>3, <1>4, <1>5, <1>6, <1>7, <1>8, <1>9 DEF Next, WorkerStep

\* The invariant of every reachable state.
THEOREM AlwaysQInv == Spec => []QInv
BY Initially, Inductive, PTL DEF Spec

\* Jobs, workers and counters keep their shape.
THEOREM TypeCorrect == Spec => []TypeOK
<1>1. QInv => TypeOK
  BY DEF QInv
<1> QED
  BY <1>1, AlwaysQInv, PTL

\* A job that may still run has retries left, a dead one has none.
THEOREM RetriesAlwaysDecide == Spec => []RetriesDecideStatus
<1>1. QInv => RetriesDecideStatus
  BY DEF QInv
<1> QED
  BY <1>1, AlwaysQInv, PTL

\* Until a lease of it runs out, a job has one worker.
THEOREM AlwaysSoleWorker == Spec => []SoleWorker
<1>1. QInv => SoleWorker
  BY DEF QInv
<1> QED
  BY <1>1, AlwaysQInv, PTL

\* Until a lease of its job runs out, a worker at work is covered by it in the database.
THEOREM LeaseAlwaysCoversWork == Spec => []LeaseCoversWork
<1>1. QInv => LeaseCoversWork
  BY DEF QInv
<1> QED
  BY <1>1, AlwaysQInv, PTL

-----------------------------------------------------------------------------
(* The queue keeps the promise of JobPromise                               *)

\* Until a lease of the job runs out, fail_job still has the count that it read.
FailingReads ==
  \A w \in Workers : work[w].phase = "failing" /\ work[w].job \notin overdue =>
    work[w].read = retries[work[w].job]

\* A lease is on a job that is processed, and is missing from one only after it ran out.
LeasedRuns ==
  /\ \A j \in leased : status[j] = "PROCESSING"
  /\ \A j \in Jobs \ overdue : status[j] = "PROCESSING" => j \in leased

Exact == FailingReads /\ LeasedRuns

LEMMA StepExact == QInv /\ Exact /\ [Next]_vars => Exact'
<1> SUFFICES ASSUME QInv, Exact, [Next]_vars PROVE Exact'
  OBVIOUS
<1> USE DEF Exact, bounds
<1>t. TypeOK /\ WorkersHaveJobs
  BY DEF QInv
<1>s. SoleWorker /\ LeaseCoversWork
  BY DEF QInv
<1>1. ASSUME NEW j \in Jobs, Enqueue(j) PROVE Exact'
  BY <1>1, <1>t DEF Enqueue, TypeOK, FailingReads, LeasedRuns
<1>2. ASSUME NEW j \in Jobs, ReplayDeadLetterJob(j) PROVE Exact'
  <2>1. \A w \in Workers : work[w].phase = "failing" /\ work[w].job \notin overdue => work[w].job # j
    BY <1>2, <1>s DEF ReplayDeadLetterJob, Replayable, LeaseCoversWork
  <2>2. FailingReads'
    BY <1>2, <1>t, <2>1 DEF ReplayDeadLetterJob, TypeOK, FailingReads
  <2>3. LeasedRuns'
    BY <1>2, <1>t DEF ReplayDeadLetterJob, TypeOK, LeasedRuns
  <2> QED
    BY <2>2, <2>3
<1>3. ASSUME NEW j \in Jobs, LeaseExpires(j) PROVE Exact'
  BY <1>3, <1>t DEF LeaseExpires, TypeOK, FailingReads, LeasedRuns
<1>4. ASSUME NEW w \in Workers, FetchNextJob(w) PROVE Exact'
  <2>1. PICK j \in Fetchable :
          /\ status' = [status EXCEPT ![j] = "PROCESSING"]
          /\ leased' = leased \cup {j}
          /\ work' = [work EXCEPT ![w] = [phase |-> "running", job |-> j, read |-> 0]]
    BY <1>4 DEF FetchNextJob
  <2>2. j \in Jobs /\ UNCHANGED <<retries, overdue>>
    BY <1>4, <2>1 DEF FetchNextJob, Fetchable
  <2> QED
    BY <2>1, <2>2, <1>t DEF TypeOK, FailingReads, LeasedRuns
<1>5. ASSUME NEW w \in Workers, CompleteJob(w) PROVE Exact'
  <2>1. work[w].job \in Jobs
    BY <1>5, <1>t DEF CompleteJob, WorkersHaveJobs
  <2> QED
    BY <1>5, <1>t, <2>1 DEF CompleteJob, Waiting, TypeOK, FailingReads, LeasedRuns
<1>6. ASSUME NEW w \in Workers, FailJobRead(w) PROVE Exact'
  <2>1. /\ work'[w].read = retries[work[w].job] /\ work'[w].job = work[w].job
        /\ \A v \in Workers \ {w} : work'[v] = work[v]
        /\ UNCHANGED <<status, retries, leased, overdue>>
    BY <1>6, <1>t DEF FailJobRead, TypeOK
  <2> QED
    BY <2>1 DEF FailingReads, LeasedRuns
<1>7. ASSUME NEW w \in Workers, FailJobWrite(w) PROVE Exact'
  <2>1. work[w].job \in Jobs
    BY <1>7, <1>t DEF FailJobWrite, WorkersHaveJobs
  <2>2. /\ work'[w].phase = "idle" /\ \A v \in Workers \ {w} : work'[v] = work[v]
        /\ \A i \in Jobs \ {work[w].job} : status'[i] = status[i] /\ retries'[i] = retries[i]
        /\ status'[work[w].job] # "PROCESSING"
        /\ leased' = leased \ {work[w].job} /\ overdue' = overdue
    BY <1>7, <1>t, <2>1 DEF FailJobWrite, Outcome, Waiting, TypeOK
  <2>3. \A v \in Workers \ {w} : work[v].phase = "failing" /\ work[v].job \notin overdue =>
          work[v].job \in Jobs \ {work[w].job}
    BY <1>7, <1>t, <1>s DEF FailJobWrite, SoleWorker, At, WorkersHaveJobs
  <2>4. FailingReads'
    BY <2>2, <2>3 DEF FailingReads
  <2>5. LeasedRuns'
    BY <1>t, <2>2 DEF LeasedRuns, TypeOK
  <2> QED
    BY <2>4, <2>5
<1>8. ASSUME NEW w \in Workers, WorkerCrash(w) PROVE Exact'
  BY <1>8, <1>t DEF WorkerCrash, Waiting, TypeOK, FailingReads, LeasedRuns
<1>9. CASE UNCHANGED vars
  BY <1>9 DEF vars, FailingReads, LeasedRuns
<1> QED
  BY <1>1, <1>2, <1>3, <1>4, <1>5, <1>6, <1>7, <1>8, <1>9 DEF Next, WorkerStep

\* A step that touches at most one worker's hands.
LEMMA RunnersStay ==
  ASSUME \A w \in Workers, j \in Jobs : At(w, j)' <=> At(w, j)
  PROVE  UNCHANGED [j \in Jobs |-> {w \in Workers : At(w, j)}]
<1>1. \A j \in Jobs : {w \in Workers : At(w, j)}' = {w \in Workers : At(w, j)}
  OBVIOUS
<1> QED
  BY <1>1

LEMMA RunnersLeave ==
  ASSUME QInv, NEW w \in Workers, work[w].phase # "idle", work' = [work EXCEPT ![w] = Waiting]
  PROVE  /\ [j \in Jobs |-> {v \in Workers : At(v, j)}]' =
              [[j \in Jobs |-> {v \in Workers : At(v, j)}] EXCEPT ![work[w].job] = @ \ {w}]
         /\ [j \in Jobs |-> {v \in Workers : At(v, j)}]' =
              [j \in Jobs |-> [i \in Jobs |-> {v \in Workers : At(v, i)}][j] \ {w}]
<1>1. \A v \in Workers, j \in Jobs : At(v, j)' <=> At(v, j) /\ v # w
  BY DEF At, QInv, TypeOK, Waiting
<1>2. \A j \in Jobs : {v \in Workers : At(v, j)}' = {v \in Workers : At(v, j)} \ {w}
  BY <1>1
<1>3. \A j \in Jobs : j # work[w].job => w \notin {v \in Workers : At(v, j)}
  BY DEF At
<1> QED
  BY <1>2, <1>3

\* A job reported on before a lease of it ran out is in the hands of the worker alone.
LEMMA MayReport ==
  ASSUME QInv, NEW w \in Workers, work[w].phase # "idle", work' = [work EXCEPT ![w] = Waiting]
  PROVE  work[w].job \in Jobs /\ Promise!Report(work[w].job, w)
<1> DEFINE j == work[w].job
<1>1. j \in Jobs /\ At(w, j)
  BY DEF QInv, WorkersHaveJobs, At
<1>2. j \notin overdue =>
        status[j] = "PROCESSING" /\ {v \in Workers : At(v, j)} = {w}
  BY <1>1 DEF QInv, LeaseCoversWork, SoleWorker
<1>3. w \in {v \in Workers : At(v, j)}
  BY <1>1
<1> HIDE DEF j
<1>4. [i \in Jobs |-> {v \in Workers : At(v, i)}]' =
        [[i \in Jobs |-> {v \in Workers : At(v, i)}] EXCEPT ![j] = @ \ {w}]
  BY RunnersLeave DEF j
<1>5. Promise!Report(j, w)
  BY <1>1, <1>2, <1>3, <1>4 DEF Promise!Report
<1> QED
  BY <1>1, <1>5 DEF j

LEMMA TakePromised ==
  ASSUME QInv, LeasedRuns, NEW w \in Workers, FetchNextJob(w)
  PROVE  \E j \in Jobs : Promise!Take(j, w)
<1>1. PICK j \in Fetchable :
        /\ \A i \in Fetchable \ {j} : Before(j, i)
        /\ status' = [status EXCEPT ![j] = "PROCESSING"]
        /\ work' = [work EXCEPT ![w] = [phase |-> "running", job |-> j, read |-> 0]]
  BY DEF FetchNextJob
<1>2. j \in Jobs /\ work[w].phase = "idle" /\ UNCHANGED <<retries, overdue>>
  BY <1>1 DEF FetchNextJob, Fetchable
<1>3. \A i \in Jobs : ~At(w, i)
  BY <1>2 DEF At
<1>4. Promise!FirstInLine(j)
  <2>1. \A i \in Jobs : i # j /\ status[i] = "PENDING" => Before(j, i)
    BY <1>1 DEF Fetchable
  <2> QED
    BY <1>2, <2>1 DEF Promise!FirstInLine, Before, Jobs
<1>5. \/ status[j] = "PENDING" /\ (j \in overdue \/ {v \in Workers : At(v, j)} = {})
      \/ status[j] = "PROCESSING" /\ j \in overdue
  BY <1>1 DEF Fetchable, LeasedRuns, QInv, LeaseCoversWork, At
<1>6. \A v \in Workers, i \in Jobs : At(v, i)' <=> At(v, i) \/ (v = w /\ i = j)
  BY <1>1, <1>2 DEF At, QInv, TypeOK
<1>7. \A i \in Jobs : {v \in Workers : At(v, i)}' =
                        IF i = j THEN {v \in Workers : At(v, j)} \cup {w}
                                 ELSE {v \in Workers : At(v, i)}
  BY <1>6
<1>8. [i \in Jobs |-> {v \in Workers : At(v, i)}]' =
        [[i \in Jobs |-> {v \in Workers : At(v, i)}] EXCEPT ![j] = @ \cup {w}]
  BY <1>2, <1>7
<1>9. \A i \in Jobs : w \notin [k \in Jobs |-> {v \in Workers : At(v, k)}][i]
  BY <1>3
<1> QED
  BY <1>1, <1>2, <1>4, <1>5, <1>8, <1>9 DEF Promise!Take, Promise!MoveTo

LEMMA ReportPromised ==
  ASSUME QInv, FailingReads, NEW w \in Workers, CompleteJob(w) \/ FailJobWrite(w)
  PROVE  \E j \in Jobs : Promise!Complete(j, w) \/ Promise!Fail(j, w)
<1> DEFINE j == work[w].job
<1>1. work[w].phase # "idle" /\ work' = [work EXCEPT ![w] = Waiting] /\ overdue' = overdue
  BY DEF CompleteJob, FailJobWrite
<1>2. j \in Jobs /\ Promise!Report(j, w)
  BY <1>1, MayReport
<1>3. CASE CompleteJob(w)
  BY <1>1, <1>2, <1>3 DEF CompleteJob, Promise!Complete, Promise!MoveTo
<1>4. CASE FailJobWrite(w)
  <2>1. /\ retries' = [retries EXCEPT ![j] = work[w].read + 1]
        /\ status' = [status EXCEPT ![j] = Outcome(work[w].read + 1)]
        /\ work[w].read \in Nat
        /\ j \notin overdue => work[w].read = retries[j]
    BY <1>4 DEF FailJobWrite, FailingReads, QInv, TypeOK
  <2>2. retries'[j] = work[w].read + 1
    BY <1>2, <2>1 DEF QInv, TypeOK
  <2>3. Promise!MoveTo(j, IF retries'[j] >= MaxRetries THEN "DEAD_LETTER" ELSE "PENDING")
    BY <2>1, <2>2 DEF Promise!MoveTo, Outcome, Exhausted
  <2>4. retries' = [retries EXCEPT ![j] = retries'[j]]
    BY <2>1, <2>2
  <2>5. j \in overdue \/ retries'[j] = retries[j] + 1
    BY <2>1, <2>2
  <2> HIDE DEF j
  <2>6. Promise!Fail(j, w)
    BY <1>1, <1>2, <2>3, <2>4, <2>5 DEF Promise!Fail
  <2> QED
    BY <1>2, <2>6
<1> QED
  BY <1>3, <1>4

LEMMA EveryStepPromised == QInv /\ Exact /\ [Next]_vars => [Promise!Next]_Promise!vars
<1> SUFFICES ASSUME QInv, Exact, [Next]_vars
             PROVE  Promise!Next \/ UNCHANGED Promise!vars
  OBVIOUS
<1> DEFINE Runners == [j \in Jobs |-> {w \in Workers : At(w, j)}]
<1>1. ASSUME NEW j \in Jobs, Enqueue(j) \/ ReplayDeadLetterJob(j) \/ LeaseExpires(j)
      PROVE  Promise!Submit(j) \/ Promise!Replay(j) \/ Promise!Lapse(j)
  <2>1. UNCHANGED Runners
    BY <1>1, RunnersStay DEF Enqueue, ReplayDeadLetterJob, LeaseExpires, At
  <2>2. CASE Enqueue(j)
    BY <2>1, <2>2 DEF Enqueue, Promise!Submit, Promise!MoveTo
  <2>3. CASE ReplayDeadLetterJob(j)
    BY <2>1, <2>3 DEF ReplayDeadLetterJob, Replayable, Promise!Replay, Promise!MoveTo
  <2>4. CASE LeaseExpires(j)
    BY <2>1, <2>4 DEF LeaseExpires, Exact, LeasedRuns, Promise!Lapse
  <2> QED
    BY <1>1, <2>2, <2>3, <2>4
<1>2. ASSUME NEW w \in Workers, FailJobRead(w) PROVE UNCHANGED Promise!vars
  <2>1. UNCHANGED Runners
    <3>1. \A v \in Workers, j \in Jobs : At(v, j)' <=> At(v, j)
      BY <1>2 DEF FailJobRead, At, QInv, TypeOK
    <3> QED
      BY <3>1, RunnersStay
  <2> QED
    BY <1>2, <2>1 DEF FailJobRead, Promise!vars
<1>3. ASSUME NEW w \in Workers, WorkerCrash(w) PROVE Promise!Die(w)
  BY <1>3, RunnersLeave DEF WorkerCrash, Promise!Die
<1>4. CASE UNCHANGED vars
  <2>1. UNCHANGED Runners
    BY <1>4, RunnersStay DEF vars, At
  <2> QED
    BY <1>4, <2>1 DEF vars, Promise!vars
<1> HIDE DEF Runners
<1>5. ASSUME NEW w \in Workers, FetchNextJob(w) \/ CompleteJob(w) \/ FailJobWrite(w)
      PROVE  \E j \in Jobs : Promise!Take(j, w) \/ Promise!Complete(j, w) \/ Promise!Fail(j, w)
  BY <1>5, TakePromised, ReportPromised DEF Exact
<1> QED
  BY <1>1, <1>2, <1>3, <1>4, <1>5 DEF Next, WorkerStep, Promise!Next

\* The queue, with leases, failures in two calls and deaths, implements JobPromise: until a
\* lease runs out a job is taken in its turn by one worker and each failure is counted once.
THEOREM KeepsPromise == Spec => ImplementsPromise
<1>1. Init => Promise!Init /\ Exact
  <2>1. Init => \A j \in Jobs : {w \in Workers : At(w, j)} = {}
    BY DEF Init, At, Waiting
  <2> QED
    BY <2>1 DEF Init, Waiting, Promise!Init, Exact, FailingReads, LeasedRuns
<1> QED
  BY <1>1, Initially, Inductive, StepExact, EveryStepPromised, PTL DEF Spec, ImplementsPromise
=============================================================================
