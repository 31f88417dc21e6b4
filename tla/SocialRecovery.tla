---------------------------- MODULE SocialRecovery ----------------------------
(***************************************************************************)
(* Social recovery of an account (services/social_recovery_service): the   *)
(* owner splits a recovery key among guardians; a recovery case collects   *)
(* their shards, holds the key they interpolate to in escrow for 72 hours, *)
(* and is then finalized, unless the owner aborts it first.                *)
(*                                                                         *)
(* One owner and one case.  Every method reads the case, decides, and      *)
(* writes by id only; other calls run at the await in between.  A handler  *)
(* slot holds one call that is between its read and its write.             *)
(*                                                                         *)
(* A shard is a text: the setup that dealt it and its x-coordinate.  The   *)
(* service knows no more of a text than its syntax, so that one nobody     *)
(* dealt, a made-up value or another spelling of a dealt one, is taken as  *)
(* well; all those of one x are the shard of setup Forged.  A key is the   *)
(* set of shards it was made of.  Lagrange interpolation is modelled by    *)
(* what it does: it fails with fewer than two different x, and returns     *)
(* the split secret when all the shards were dealt by one setup and reach  *)
(* that setup's threshold.                                                 *)
(***************************************************************************)
EXTENDS Naturals, FiniteSets

CONSTANTS
  Callers,       \* calls that may be under way together
  TotalShards,   \* totalShardsN
  ThresholdChoices,   \* the thresholdK an owner may choose
  Timelock,      \* timelockHours, in ticks
  MaxHours,      \* bound: the clock
  MaxSetups,     \* bound: calls of setup_social_recovery
  MaxCrashes     \* bound: crashes of the API process

ASSUME RecoveryAssumption ==
  /\ TotalShards \in Nat
  /\ ThresholdChoices \subseteq Nat /\ \A k \in ThresholdChoices : 2 <= k /\ k <= TotalShards
  /\ Timelock \in Nat /\ MaxHours \in Nat /\ MaxSetups \in Nat /\ MaxCrashes \in Nat

Setups == 1 .. MaxSetups
Forged == 0    \* no setup's number
Shards == (Setups \cup {Forged}) \X (1 .. TotalShards)
None == {}    \* reconstructedKey before and after it is kept

VARIABLES
  configs,       \* social_recovery_configs by setup: its status ("NONE" before insertion) and thresholdK
  setups,        \* how many setups have begun
  status,        \* of the case, "NONE" before initiation
  thresholdK, submittedShards, timelockEndsAt, reconstructedKey,    \* its other fields
  calls,         \* what each handler is about to write
  hour, crashes,
  reachedAt      \* history: the earliest moment at which a case in escrow found its threshold reached

case == <<status, thresholdK, submittedShards, timelockEndsAt, reconstructedKey>>
recoveryVars == <<configs, setups, case, calls, hour, crashes, reachedAt>>

CaseStatus == {"COLLECTING_SHARDS", "ESCROW_TIMELOCK", "RECOVERED", "ABORTED_BY_OWNER"}
Idle == [op |-> "idle"]
Never == MaxHours + 1

RecoveryInit ==
  /\ configs = [g \in Setups |-> [status |-> "NONE", k |-> 2]]
  /\ setups = 0
  /\ status = "NONE" /\ thresholdK = 2
  /\ submittedShards = {} /\ timelockEndsAt = 0 /\ reconstructedKey = None
  /\ calls = [h \in Callers |-> Idle]
  /\ hour = 0 /\ crashes = 0
  /\ reachedAt = Never

Begin(h, call) == calls[h] = Idle /\ calls' = [calls EXCEPT ![h] = call]
Finish(h) == calls' = [calls EXCEPT ![h] = Idle]

-----------------------------------------------------------------------------
(* setup_social_recovery supersedes every active configuration and, an     *)
(* await later, inserts its own and hands out its shards.                  *)

Supersede(h, k) ==
  /\ setups < MaxSetups
  /\ setups' = setups + 1
  /\ Begin(h, [op |-> "setup", g |-> setups + 1, k |-> k])
  /\ configs' = [g \in Setups |-> IF configs[g].status = "ACTIVE"
                                    THEN [configs[g] EXCEPT !.status = "SUPERSEDED"] ELSE configs[g]]
  /\ UNCHANGED <<case, hour, crashes, reachedAt>>

InsertConfig(h) ==
  /\ calls[h].op = "setup"
  /\ configs' = [configs EXCEPT ![calls[h].g] = [status |-> "ACTIVE", k |-> calls[h].k]]
  /\ Finish(h)
  /\ UNCHANGED <<setups, case, hour, crashes, reachedAt>>

\* initiate_recovery_case copies the threshold of an active configuration; nothing looks at
\* the case before it is inserted, so the read and the insertion are one step.
InitiateRecoveryCase(g) ==
  /\ status = "NONE"
  /\ configs[g].status = "ACTIVE"
  /\ status' = "COLLECTING_SHARDS"
  /\ thresholdK' = configs[g].k
  /\ UNCHANGED <<configs, setups, submittedShards, timelockEndsAt, reconstructedKey, calls, hour,
                 crashes, reachedAt>>

-----------------------------------------------------------------------------
(* submit_recovery_shard                                                   *)

\* Does this list of shards reach the threshold?
Reaches(shards) == Cardinality(shards) >= thresholdK

\* reconstruct_secret ignores a second shard of the same x and needs two that remain.
Interpolates(shards) == Cardinality({s[2] : s \in shards}) >= 2

\* The call reads the case and makes up its whole update: the longer list and, at the
\* threshold, the key and a new 72 hours.  Any well-formed text will do: a shard of whichever
\* setup, once there is one, or one that nobody dealt.  What does not interpolate is an error.
ReadForShard(h, s) ==
  /\ status \in {"COLLECTING_SHARDS", "ESCROW_TIMELOCK"}
  /\ s[1] # Forged => configs[s[1]].status # "NONE"
  /\ s \notin submittedShards
  /\ LET shards == submittedShards \cup {s}
     IN  /\ Reaches(shards) => Interpolates(shards)
         /\ Begin(h, [op |-> "submit", shards |-> shards, reached |-> Reaches(shards), at |-> hour])
  /\ UNCHANGED <<configs, setups, case, hour, crashes, reachedAt>>

\* The update's fields; the first form sets the status without keeping the key, the second
\* makes the key of the list as it was before this shard.
EscrowKeyless(call) ==
  /\ status' = "ESCROW_TIMELOCK"
  /\ timelockEndsAt' = call.at + Timelock
  /\ UNCHANGED reconstructedKey
EscrowEarlier(call) ==
  /\ status' = "ESCROW_TIMELOCK"
  /\ timelockEndsAt' = call.at + Timelock
  /\ reconstructedKey' = submittedShards
Escrow(call) ==
  /\ status' = "ESCROW_TIMELOCK"
  /\ timelockEndsAt' = call.at + Timelock
  /\ reconstructedKey' = call.shards

WriteShard(h) ==
  /\ calls[h].op = "submit"
  /\ submittedShards' = calls[h].shards
  /\ IF calls[h].reached THEN Escrow(calls[h])
     ELSE UNCHANGED <<status, timelockEndsAt, reconstructedKey>>
  /\ reachedAt' = IF calls[h].reached /\ calls[h].at < reachedAt THEN calls[h].at ELSE reachedAt
  /\ Finish(h)
  /\ UNCHANGED <<configs, setups, thresholdK, hour, crashes>>

-----------------------------------------------------------------------------
(* cancel_recovery and finalize_recovery                                   *)

\* What aborting leaves of the key: first, all of it.
ScrubNothing == reconstructedKey
Scrub == None

\* The owner's abort looks at no status: it may come before, during or after the escrow.
CancelRecovery ==
  /\ status # "NONE"
  /\ status' = "ABORTED_BY_OWNER"
  /\ reconstructedKey' = Scrub
  /\ UNCHANGED <<configs, setups, thresholdK, submittedShards, timelockEndsAt, calls, hour, crashes,
                 reachedAt>>

\* Has the escrow run out?  First with the comparison turned round.
TimelockOverEarly == hour <= timelockEndsAt
TimelockOver == hour >= timelockEndsAt

ReadForFinalize(h) ==
  /\ status = "ESCROW_TIMELOCK"
  /\ TimelockOver
  /\ Begin(h, [op |-> "finalize"])
  /\ UNCHANGED <<configs, setups, case, hour, crashes, reachedAt>>

WriteRecovered(h) ==
  /\ calls[h].op = "finalize"
  /\ status' = "RECOVERED"
  /\ Finish(h)
  /\ UNCHANGED <<configs, setups, thresholdK, submittedShards, timelockEndsAt, reconstructedKey, hour,
                 crashes, reachedAt>>

-----------------------------------------------------------------------------
RecoveryTick ==
  /\ hour < MaxHours
  /\ hour' = hour + 1
  /\ UNCHANGED <<configs, setups, case, calls, crashes, reachedAt>>

\* The process dies: what was read is lost, what was written stays.
Crash ==
  /\ crashes < MaxCrashes
  /\ crashes' = crashes + 1
  /\ calls' = [h \in Callers |-> Idle]
  /\ UNCHANGED <<configs, setups, case, hour, reachedAt>>

RecoveryNext ==
  \/ \E h \in Callers :
       \/ \E k \in ThresholdChoices : Supersede(h, k)
       \/ InsertConfig(h)
       \/ \E s \in Shards : ReadForShard(h, s)
       \/ WriteShard(h)
       \/ ReadForFinalize(h)
       \/ WriteRecovered(h)
  \/ \E g \in Setups : InitiateRecoveryCase(g)
  \/ CancelRecovery
  \/ RecoveryTick
  \/ Crash

RecoverySpec == RecoveryInit /\ [][RecoveryNext]_recoveryVars

-----------------------------------------------------------------------------
(* Properties                                                              *)

Call ==
  {Idle} \cup [op : {"setup"}, g : Setups, k : ThresholdChoices]
         \cup [op : {"submit"}, shards : SUBSET Shards, reached : BOOLEAN, at : Nat]
         \cup [op : {"finalize"}]

\* The documents and the calls under way keep their shape; an update that engages the escrow
\* carries the shards for it.
RecoveryTypeOK ==
  /\ configs \in [Setups -> [status : {"NONE", "ACTIVE", "SUPERSEDED"}, k : Nat]]
  /\ setups \in 0 .. MaxSetups
  /\ status \in CaseStatus \cup {"NONE"}
  /\ thresholdK \in Nat /\ timelockEndsAt \in Nat
  /\ submittedShards \subseteq Shards /\ reconstructedKey \subseteq Shards
  /\ calls \in [Callers -> Call]
  /\ \A h \in Callers :
       calls[h].op = "submit" /\ calls[h].reached => Cardinality(calls[h].shards) >= thresholdK
  /\ hour \in Nat /\ crashes \in Nat /\ reachedAt \in Nat

\* Whatever the order of the calls, an aborted case holds no key: a submission that races the
\* abort cannot leave the key behind in a case that says ABORTED_BY_OWNER.
AbortedIsScrubbed == status = "ABORTED_BY_OWNER" => reconstructedKey = None

\* Lost updates shorten the list of shards, but the key in escrow is always one made of a full
\* threshold of different texts, whoever wrote them.
EscrowHoldsKey == status = "ESCROW_TIMELOCK" => Cardinality(reconstructedKey) >= thresholdK

\* As long as the owner deals no second set of shards, the key in escrow is the one the
\* owner split, though updates get lost and the case knows its shards only by their text:
\* unless one of the texts that very key was made of is a shard nobody dealt.  A forgery whose
\* submission was overwritten before the key was made does no harm.
Genuine(key) ==
  \E g \in Setups : key \subseteq {g} \X (1 .. TotalShards) /\ Cardinality(key) >= configs[g].k
EscrowedKeyIsOwners ==
  status = "ESCROW_TIMELOCK" /\ setups = 1 /\ (\A s \in reconstructedKey : s[1] # Forged)
    => Genuine(reconstructedKey)

\* A recovered case had its timelock: finalize_recovery, on whatever old copy of the case it
\* decided, comes no sooner than 72 hours after the threshold was first reached.
RecoveredAfterTimelock == status = "RECOVERED" => hour >= reachedAt + Timelock
=============================================================================
