--------------------------- MODULE DistributedLock ---------------------------
(***************************************************************************)
(* One lock of DistributedLockService (collection distributed_locks), as   *)
(* the inactivity sweep of workers/daemon.py takes and releases it.        *)
(*                                                                         *)
(* acquire_lock is up to four calls to the database: an update that takes  *)
(* over an expired or own document, a look at what is there, an insert,    *)
(* and a look at the first document by _id, after which the loser of an    *)
(* insertion race deletes its own.  No index makes lockName unique, and    *)
(* the drivers choose the _ids: orderedIds says whether they grow in the   *)
(* order of the insertions, which processes do not agree on within a       *)
(* second.                                                                 *)
(***************************************************************************)
EXTENDS Naturals

CONSTANTS
  Owners,         \* the worker processes
  Ids,            \* a finite set of numbers: the _ids there are
  MaxExpiries,    \* bound: leases that run out
  MaxDeaths       \* bound: processes that die

ASSUME LockAssumption ==
  /\ Ids \subseteq Nat
  /\ {MaxExpiries, MaxDeaths} \subseteq Nat

Nobody == "nobody"

ASSUME OwnersAssumption == Nobody \notin Owners

VARIABLES
  orderedIds, \* the _ids of this behaviour grow in the order of the insertions
  owner,      \* [Ids -> Owners \cup {Nobody}]: the documents there are
  expired,    \* ids of documents whose expiresAt has passed
  at,         \* [Owners -> step]: where each process is
  mine,       \* history: owners whose current lease has not run out
  expiries, deaths

lockVars == <<orderedIds, owner, expired, at, mine, expiries, deaths>>

Docs == {i \in Ids : owner[i] # Nobody}
OwnsFirst(o) == \E i \in Docs : owner[i] = o /\ \A k \in Docs : i <= k

LockInit ==
  /\ orderedIds \in BOOLEAN
  /\ owner = [i \in Ids |-> Nobody]
  /\ expired = {}
  /\ at = [o \in Owners |-> "idle"]
  /\ mine = {}
  /\ expiries = 0 /\ deaths = 0

Go(o, step) == at' = [at EXCEPT ![o] = step]

-----------------------------------------------------------------------------
\* What the update's filter lets o take over, without the test of expiresAt and with it.
AnyDoc(o) == Docs
TakeableBy(o) == {i \in Docs : i \in expired \/ owner[i] = o}

AcquireUpdate(o) ==
  /\ at[o] = "idle"
  /\ \/ \E i \in TakeableBy(o) :
          /\ owner' = [owner EXCEPT ![i] = o]
          /\ expired' = expired \ {i}
          /\ mine' = mine \cup {o}
          /\ Go(o, "sweep")
     \/ /\ TakeableBy(o) = {}
        /\ Go(o, "look")
        /\ UNCHANGED <<owner, expired, mine>>
  /\ UNCHANGED <<expiries, deaths>>

\* Any document found, expired by now or not, means False.
AcquireLook(o) ==
  /\ at[o] = "look"
  /\ Go(o, IF Docs = {} THEN "insert" ELSE "idle")
  /\ UNCHANGED <<owner, expired, mine, expiries, deaths>>

AcquireInsert(o) ==
  /\ at[o] = "insert"
  /\ \E i \in Ids :
       /\ owner[i] = Nobody
       /\ orderedIds => \A k \in Docs : k < i
       /\ owner' = [owner EXCEPT ![i] = o]
  /\ mine' = mine \cup {o}
  /\ Go(o, "check")
  /\ UNCHANGED <<expired, expiries, deaths>>

\* The look after the insertion: without the deletion of the loser's document and with it.
AcquireCheckKeeping(o) ==
  /\ at[o] = "check"
  /\ Go(o, IF OwnsFirst(o) THEN "sweep" ELSE "idle")
  /\ UNCHANGED <<owner, expired, mine, expiries, deaths>>
AcquireCheck(o) ==
  /\ at[o] = "check"
  /\ Go(o, IF OwnsFirst(o) THEN "sweep" ELSE "cleanup")
  /\ UNCHANGED <<owner, expired, mine, expiries, deaths>>

\* delete_one({"lockName", "ownerId"}); before it a version without the owner.
DeleteAny(o) ==
  \E i \in Docs : owner' = [owner EXCEPT ![i] = Nobody] /\ expired' = expired \ {i}
DeleteOwn(o) ==
  \/ \E i \in Docs : owner[i] = o /\ owner' = [owner EXCEPT ![i] = Nobody] /\ expired' = expired \ {i}
  \/ (\A i \in Docs : owner[i] # o) /\ UNCHANGED <<owner, expired>>

AcquireCleanup(o) ==
  /\ at[o] = "cleanup"
  /\ DeleteOwn(o)
  /\ mine' = mine \ {o}
  /\ Go(o, "idle")
  /\ UNCHANGED <<expiries, deaths>>

\* The sweep's finally clause.
ReleaseLock(o) ==
  /\ at[o] = "sweep"
  /\ DeleteOwn(o)
  /\ mine' = mine \ {o}
  /\ Go(o, "idle")
  /\ UNCHANGED <<expiries, deaths>>

\* Part of the service's interface; an expired document is renewed as well.
RenewLock(o) ==
  /\ at[o] = "sweep"
  /\ \E i \in Docs :
       /\ owner[i] = o
       /\ expired' = expired \ {i}
       /\ mine' = mine \cup {o}
  /\ UNCHANGED <<owner, at, expiries, deaths>>

Expire(i) ==
  /\ i \in Docs \ expired
  /\ expiries < MaxExpiries
  /\ expiries' = expiries + 1
  /\ expired' = expired \cup {i}
  /\ mine' = mine \ {owner[i]}
  /\ UNCHANGED <<owner, at, deaths>>

\* A process that dies comes back under another node id.
Crash(o) ==
  /\ deaths < MaxDeaths
  /\ at[o] \notin {"idle", "gone"}
  /\ deaths' = deaths + 1
  /\ mine' = mine \ {o}
  /\ Go(o, "gone")
  /\ UNCHANGED <<owner, expired, expiries>>

OwnerStep(o) ==
  \/ AcquireUpdate(o) \/ AcquireLook(o) \/ AcquireInsert(o) \/ AcquireCheck(o)
  \/ AcquireCleanup(o) \/ ReleaseLock(o) \/ RenewLock(o) \/ Crash(o)

LockNext ==
  /\ (\E o \in Owners : OwnerStep(o)) \/ (\E i \in Ids : Expire(i))
  /\ UNCHANGED orderedIds

LockSpec == LockInit /\ [][LockNext]_lockVars

-----------------------------------------------------------------------------
(* Properties                                                              *)

\* The documents and the processes keep their shape.
LockTypeOK ==
  /\ orderedIds \in BOOLEAN
  /\ owner \in [Ids -> Owners \cup {Nobody}]
  /\ expired \subseteq Docs
  /\ at \in [Owners -> {"idle", "look", "insert", "check", "cleanup", "sweep", "gone"}]
  /\ mine \subseteq Owners
  /\ expiries \in 0 .. MaxExpiries /\ deaths \in 0 .. MaxDeaths

\* While a process sweeps under a lease that has not run out, its document stays: nobody
\* else's release, clean-up or take-over can touch it.
LeaseKept == \A o \in mine : at[o] = "sweep" => \E i \in Docs \ expired : owner[i] = o

\* When every process is done and none has died, no document is left behind, whoever took
\* over whose: the next acquirer meets a clean slate.
NoLeftovers == deaths = 0 /\ (\A o \in Owners : at[o] = "idle") => Docs = {}

\* "mutual exclusion across worker replicas": two processes never sweep at a time while
\* both of their leases run.
MutualExclusion == \A o, p \in mine : at[o] = "sweep" /\ at[p] = "sweep" => o = p

\* The look after the insertion settles the race of the first acquirers when _ids grow in the
\* order of the insertions: then they exclude each other as long as no lease has run out.
ExclusiveWhenOrdered == orderedIds /\ expiries = 0 => MutualExclusion
=============================================================================
