------------------------- MODULE SocialRecovery_proofs -------------------------
(***************************************************************************)
(* The safety of SocialRecovery for any number of concurrent calls, any    *)
(* threshold and any timelock.                                             *)
(*                                                                         *)
(* The writes of the service check nothing, so the invariant has to follow *)
(* the calls that have read and not yet written: a submission that will    *)
(* engage the escrow carries a full threshold of shards, a finalization    *)
(* under way saw the timelock over, and neither exists before the case.    *)
(* That the key is the owner's needs more: a setup is inserted once, its   *)
(* threshold stays, and every shard that was dealt is of a setup that has  *)
(* been inserted.                                                          *)
(***************************************************************************)
EXTENDS SocialRecovery, FiniteSetTheorems, TLAPS

EscrowDated == status = "ESCROW_TIMELOCK" => timelockEndsAt >= reachedAt + Timelock

CallsNeedCase ==
  status = "NONE" => \A h \in Callers : calls[h].op \notin {"submit", "finalize"}

FinalizingInTime ==
  \A h \in Callers : calls[h].op = "finalize" => hour >= reachedAt + Timelock

SInv ==
  /\ RecoveryTypeOK
  /\ AbortedIsScrubbed /\ EscrowHoldsKey /\ RecoveredAfterTimelock
  /\ EscrowDated /\ CallsNeedCase /\ FinalizingInTime

USE DEF None

\* What a call under way can be told by its operation.
LEMMA CallFields ==
  ASSUME NEW call \in Call
  PROVE  /\ call.op = "setup" => call.g \in Setups /\ call.k \in ThresholdChoices
         /\ call.op = "submit" => /\ call.shards \in SUBSET Shards
                                  /\ call.reached \in BOOLEAN /\ call.at \in Nat
BY DEF Call, Idle

\* A deadline met stays met when it is moved nearer.
LEMMA Nearer ==
  ASSUME NEW t \in Nat, NEW a \in Nat, NEW b \in Nat, NEW c \in Nat, c >= a + t, b <= a
  PROVE  c >= b + t
OBVIOUS

LEMMA Initially == RecoveryInit => SInv
BY RecoveryAssumption DEF RecoveryInit, SInv, RecoveryTypeOK, Call, Idle, Never, AbortedIsScrubbed, EscrowHoldsKey,
       RecoveredAfterTimelock, EscrowDated, CallsNeedCase, FinalizingInTime, CaseStatus

\* Configurations have no part in the safety of a case.
LEMMA ConfigsKeep ==
  ASSUME SInv, NEW h \in Callers, (\E k \in ThresholdChoices : Supersede(h, k)) \/ InsertConfig(h)
  PROVE  SInv'
<1>1. CASE \E k \in ThresholdChoices : Supersede(h, k)
  <2>1. PICK k \in ThresholdChoices : Supersede(h, k)
    BY <1>1
  <2> DEFINE call == [op |-> "setup", g |-> setups + 1, k |-> k]
  <2>2. /\ call \in Call /\ call.op = "setup" /\ setups' \in 0 .. MaxSetups
        /\ calls' = [calls EXCEPT ![h] = call]
    BY <2>1, RecoveryAssumption DEF Supersede, Begin, Call, Setups, SInv, RecoveryTypeOK
  <2>3. configs' \in [Setups -> [status : {"NONE", "ACTIVE", "SUPERSEDED"}, k : Nat]]
    BY <2>1, RecoveryAssumption DEF Supersede, SInv, RecoveryTypeOK
  <2>4. UNCHANGED <<case, hour, crashes, reachedAt>>
    BY <2>1 DEF Supersede
  <2> HIDE DEF call
  <2> QED
    BY <2>2, <2>3, <2>4 DEF SInv, RecoveryTypeOK, case, AbortedIsScrubbed, EscrowHoldsKey,
       RecoveredAfterTimelock, EscrowDated, CallsNeedCase, FinalizingInTime
<1>2. CASE InsertConfig(h)
  <2>1. calls[h].g \in Setups /\ calls[h].k \in ThresholdChoices
    BY <1>2, CallFields DEF InsertConfig, SInv, RecoveryTypeOK
  <2>2. configs' \in [Setups -> [status : {"NONE", "ACTIVE", "SUPERSEDED"}, k : Nat]]
    <3>1. calls[h].k \in Nat
      BY <2>1, RecoveryAssumption
    <3> QED
      BY <1>2, <2>1, <3>1, RecoveryAssumption DEF InsertConfig, SInv, RecoveryTypeOK
  <2>3. /\ calls' = [calls EXCEPT ![h] = Idle] /\ Idle \in Call /\ Idle.op = "idle"
        /\ UNCHANGED <<setups, case, hour, crashes, reachedAt>>
    BY <1>2 DEF InsertConfig, Finish, Call, Idle
  <2> QED
    BY <2>2, <2>3 DEF SInv, RecoveryTypeOK, case, AbortedIsScrubbed, EscrowHoldsKey,
       RecoveredAfterTimelock, EscrowDated, CallsNeedCase, FinalizingInTime
<1> QED
  BY <1>1, <1>2

LEMMA InitiateKeeps ==
  ASSUME SInv, NEW g \in Setups, InitiateRecoveryCase(g)
  PROVE  SInv'
BY RecoveryAssumption DEF SInv, RecoveryTypeOK, CaseStatus, InitiateRecoveryCase, AbortedIsScrubbed, EscrowHoldsKey,
       RecoveredAfterTimelock, EscrowDated, CallsNeedCase, FinalizingInTime

\* The submission's read: what it will write, it can write at any later moment.
LEMMA ReadForShardKeeps ==
  ASSUME SInv, NEW h \in Callers, NEW s \in Shards, ReadForShard(h, s)
  PROVE  SInv'
<1> DEFINE shards == submittedShards \cup {s}
           call == [op |-> "submit", shards |-> shards, reached |-> Reaches(shards), at |-> hour]
<1>1. shards \in SUBSET Shards
  BY DEF SInv, RecoveryTypeOK
<1>2. Reaches(shards) \in BOOLEAN /\ (Reaches(shards) => Cardinality(shards) >= thresholdK)
  BY DEF Reaches
<1>3. /\ call \in Call /\ call.op = "submit"
      /\ call.reached => Cardinality(call.shards) >= thresholdK
  BY <1>1, <1>2 DEF Call, SInv, RecoveryTypeOK
<1>4. /\ status # "NONE"
      /\ calls' = [calls EXCEPT ![h] = call]
      /\ UNCHANGED <<configs, setups, case, hour, crashes, reachedAt>>
  BY DEF ReadForShard, Begin
<1> HIDE DEF call
<1> QED
  BY <1>3, <1>4 DEF SInv, RecoveryTypeOK, case, AbortedIsScrubbed, EscrowHoldsKey,
     RecoveredAfterTimelock, EscrowDated, CallsNeedCase, FinalizingInTime

\* The submission's write, on whatever has become of the case meanwhile.
LEMMA WriteShardKeeps ==
  ASSUME SInv, NEW h \in Callers, WriteShard(h)
  PROVE  SInv'
<1> DEFINE call == calls[h]
<1>1. /\ call.shards \in SUBSET Shards
      /\ call.reached \in BOOLEAN /\ call.at \in Nat
      /\ call.reached => Cardinality(call.shards) >= thresholdK
      /\ status # "NONE"
  BY CallFields DEF WriteShard, SInv, RecoveryTypeOK, CallsNeedCase
<1>2. /\ submittedShards' = call.shards
      /\ calls' = [calls EXCEPT ![h] = Idle] /\ Idle \in Call /\ Idle.op = "idle"
      /\ UNCHANGED <<configs, setups, thresholdK, hour, crashes>>
  BY DEF WriteShard, Finish, Call, Idle
<1>3. \/ /\ call.reached
         /\ status' = "ESCROW_TIMELOCK" /\ timelockEndsAt' = call.at + Timelock
         /\ reconstructedKey' = call.shards
         /\ reachedAt' = IF call.at < reachedAt THEN call.at ELSE reachedAt
      \/ /\ ~call.reached
         /\ UNCHANGED <<status, timelockEndsAt, reconstructedKey, reachedAt>>
  BY <1>1 DEF WriteShard, Escrow
<1> HIDE DEF call
<1>4. RecoveryTypeOK'
  <2>1. /\ status' \in CaseStatus \cup {"NONE"} /\ timelockEndsAt' \in Nat /\ reachedAt' \in Nat
        /\ reconstructedKey' \subseteq Shards
    BY <1>1, <1>3, RecoveryAssumption DEF SInv, RecoveryTypeOK, CaseStatus
  <2>2. /\ calls' \in [Callers -> Call]
        /\ \A i \in Callers : calls'[i].op = "submit" /\ calls'[i].reached
                               => Cardinality(calls'[i].shards) >= thresholdK'
    BY <1>2 DEF SInv, RecoveryTypeOK
  <2> QED
    BY <1>1, <1>2, <2>1, <2>2 DEF SInv, RecoveryTypeOK
<1>5. reachedAt' <= reachedAt /\ hour' = hour /\ reachedAt \in Nat /\ reachedAt' \in Nat
  BY <1>1, <1>2, <1>3, <1>4 DEF SInv, RecoveryTypeOK
<1>6. FinalizingInTime'
  <2>1. hour \in Nat /\ Timelock \in Nat /\ calls \in [Callers -> Call] /\ FinalizingInTime
    BY RecoveryAssumption DEF SInv, RecoveryTypeOK
  <2>2. ASSUME NEW i \in Callers, calls'[i].op = "finalize" PROVE calls[i].op = "finalize"
    BY <1>2, <2>1, <2>2
  <2>3. hour >= reachedAt + Timelock => hour' >= reachedAt' + Timelock
    BY <1>5, <2>1, Nearer
  <2> QED
    BY <2>1, <2>2, <2>3 DEF FinalizingInTime
<1>7. RecoveredAfterTimelock' /\ EscrowDated'
  <2>1. hour \in Nat /\ Timelock \in Nat /\ timelockEndsAt \in Nat
    BY RecoveryAssumption DEF SInv, RecoveryTypeOK
  <2>2. RecoveredAfterTimelock /\ EscrowDated
    BY DEF SInv
  <2>3. CASE call.reached
    <3>1. reachedAt' <= call.at /\ status' = "ESCROW_TIMELOCK" /\ timelockEndsAt' = call.at + Timelock
      BY <1>1, <1>3, <1>5, <2>3
    <3> QED
      BY <1>1, <1>5, <2>1, <3>1 DEF RecoveredAfterTimelock, EscrowDated
  <2>4. CASE ~call.reached
    BY <1>3, <1>5, <2>2, <2>4 DEF RecoveredAfterTimelock, EscrowDated
  <2> QED
    BY <2>3, <2>4
<1>8. AbortedIsScrubbed' /\ EscrowHoldsKey' /\ CallsNeedCase'
  BY <1>1, <1>2, <1>3 DEF SInv, RecoveryTypeOK, AbortedIsScrubbed, EscrowHoldsKey, CallsNeedCase
<1> QED
  BY <1>4, <1>6, <1>7, <1>8 DEF SInv

LEMMA CancelKeeps == ASSUME SInv, CancelRecovery PROVE SInv'
BY DEF SInv, RecoveryTypeOK, CaseStatus, CancelRecovery, Scrub, AbortedIsScrubbed, EscrowHoldsKey,
       RecoveredAfterTimelock, EscrowDated, CallsNeedCase, FinalizingInTime

LEMMA FinalizeKeeps ==
  ASSUME SInv, NEW h \in Callers, ReadForFinalize(h) \/ WriteRecovered(h)
  PROVE  SInv'
<1>1. CASE ReadForFinalize(h)
  <2> DEFINE call == [op |-> "finalize"]
  <2>1. /\ status = "ESCROW_TIMELOCK" /\ hour >= timelockEndsAt
        /\ call \in Call /\ call.op = "finalize"
        /\ calls' = [calls EXCEPT ![h] = call]
        /\ UNCHANGED <<configs, setups, case, hour, crashes, reachedAt>>
    BY <1>1 DEF ReadForFinalize, TimelockOver, Begin, Call
  <2>2. hour >= reachedAt + Timelock
    BY <2>1, RecoveryAssumption DEF SInv, RecoveryTypeOK, EscrowDated
  <2> HIDE DEF call
  <2> QED
    BY <2>1, <2>2 DEF SInv, RecoveryTypeOK, case, AbortedIsScrubbed, EscrowHoldsKey,
       RecoveredAfterTimelock, EscrowDated, CallsNeedCase, FinalizingInTime
<1>2. CASE WriteRecovered(h)
  <2>1. hour >= reachedAt + Timelock
    BY <1>2 DEF WriteRecovered, SInv, FinalizingInTime
  <2>2. calls' = [calls EXCEPT ![h] = Idle] /\ Idle \in Call /\ Idle.op = "idle"
    BY <1>2 DEF WriteRecovered, Finish, Call, Idle
  <2> QED
    BY <1>2, <2>1, <2>2 DEF WriteRecovered, SInv, RecoveryTypeOK, CaseStatus, AbortedIsScrubbed,
       EscrowHoldsKey, RecoveredAfterTimelock, EscrowDated, CallsNeedCase, FinalizingInTime
<1> QED
  BY <1>1, <1>2

LEMMA RestKeeps == ASSUME SInv, RecoveryTick \/ Crash \/ UNCHANGED recoveryVars PROVE SInv'
<1>1. Idle \in Call /\ Idle.op = "idle"
  BY DEF Call, Idle
<1>2. CASE RecoveryTick
  BY <1>2, RecoveryAssumption DEF RecoveryTick, case, SInv, RecoveryTypeOK, AbortedIsScrubbed, EscrowHoldsKey,
     RecoveredAfterTimelock, EscrowDated, CallsNeedCase, FinalizingInTime
<1>3. CASE Crash
  BY <1>1, <1>3 DEF Crash, case, SInv, RecoveryTypeOK, AbortedIsScrubbed, EscrowHoldsKey,
     RecoveredAfterTimelock, EscrowDated, CallsNeedCase, FinalizingInTime
<1>4. CASE UNCHANGED recoveryVars
  BY <1>4 DEF recoveryVars, case, SInv, RecoveryTypeOK, AbortedIsScrubbed, EscrowHoldsKey,
     RecoveredAfterTimelock, EscrowDated, CallsNeedCase, FinalizingInTime
<1> QED
  BY <1>2, <1>3, <1>4

LEMMA Inductive == SInv /\ [RecoveryNext]_recoveryVars => SInv'
BY ConfigsKeep, InitiateKeeps, ReadForShardKeeps, WriteShardKeeps, CancelKeeps, FinalizeKeeps,
   RestKeeps DEF RecoveryNext

LEMMA AlwaysSInv == RecoverySpec => []SInv
BY Initially, Inductive, PTL DEF RecoverySpec

\* Every reachable state has its type.
THEOREM TypeCorrect == RecoverySpec => []RecoveryTypeOK
BY AlwaysSInv, PTL DEF SInv

\* An aborted case never holds a key.
THEOREM AlwaysScrubbed == RecoverySpec => []AbortedIsScrubbed
BY AlwaysSInv, PTL DEF SInv

\* The escrow never holds a key of fewer shards than the threshold.
THEOREM EscrowAlwaysHoldsKey == RecoverySpec => []EscrowHoldsKey
BY AlwaysSInv, PTL DEF SInv

\* No case is recovered before its timelock.
THEOREM AlwaysAfterTimelock == RecoverySpec => []RecoveredAfterTimelock
BY AlwaysSInv, PTL DEF SInv
-----------------------------------------------------------------------------
(* Whose key is in escrow.  A setup is inserted once, by the one call that *)
(* carries its number; from then on its threshold stays, and so does the   *)
(* case's copy of it.  Shards are forged or of setups that were inserted.  *)

Dealt(shards) == \A s \in shards : s[1] # Forged => configs[s[1]].status # "NONE"

SetupsBegun ==
  /\ \A g \in Setups : configs[g].status # "NONE" => g <= setups
  /\ \A h \in Callers :
       calls[h].op = "setup" => calls[h].g <= setups /\ configs[calls[h].g].status = "NONE"

OneCallPerSetup ==
  \A h, i \in Callers :
    calls[h].op = "setup" /\ calls[i].op = "setup" /\ calls[h].g = calls[i].g => h = i

ShardsDealt ==
  /\ Dealt(submittedShards) /\ Dealt(reconstructedKey)
  /\ \A h \in Callers : calls[h].op = "submit" => Dealt(calls[h].shards)

CaseHasSetup ==
  status # "NONE" =>
    \E g \in Setups : configs[g].status # "NONE" /\ thresholdK = configs[g].k

OwnersInv == SetupsBegun /\ OneCallPerSetup /\ ShardsDealt /\ CaseHasSetup

\* No step but the two of a setup touches a configuration.
LEMMA CaseStepsKeep ==
  ASSUME RecoveryTypeOK, OwnersInv, UNCHANGED <<configs, setups>>, UNCHANGED <<status, thresholdK>>,
         Dealt(submittedShards'), Dealt(reconstructedKey'),
         \A h \in Callers :
           \/ calls'[h] = calls[h]
           \/ /\ calls'[h].op # "setup"
              /\ calls'[h].op = "submit" => Dealt(calls'[h].shards)
  PROVE  OwnersInv'
<1>1. SetupsBegun'
  BY DEF OwnersInv, SetupsBegun
<1>2. OneCallPerSetup'
  BY DEF OwnersInv, OneCallPerSetup
<1>3. ShardsDealt'
  BY DEF OwnersInv, ShardsDealt, Dealt
<1>4. CaseHasSetup'
  BY DEF OwnersInv, CaseHasSetup
<1> QED
  BY <1>1, <1>2, <1>3, <1>4 DEF OwnersInv

LEMMA OwnersInitially == RecoveryInit => OwnersInv
BY DEF RecoveryInit, OwnersInv, SetupsBegun, OneCallPerSetup, ShardsDealt, Dealt, CaseHasSetup, Setups, Idle

\* The setup's number is new: no configuration and no other call has it.
LEMMA SupersedeKeepsOwners ==
  ASSUME RecoveryTypeOK, OwnersInv, NEW h \in Callers, NEW k \in ThresholdChoices, Supersede(h, k)
  PROVE  OwnersInv'
<1> DEFINE call == [op |-> "setup", g |-> setups + 1, k |-> k]
<1>1. /\ call.op = "setup" /\ call.g = setups + 1
      /\ calls' = [calls EXCEPT ![h] = call] /\ setups' = setups + 1
      /\ setups \in Nat /\ setups + 1 \in Setups
      /\ UNCHANGED <<status, thresholdK, submittedShards, reconstructedKey>>
  BY RecoveryAssumption DEF Supersede, Begin, case, Setups, RecoveryTypeOK
<1>2. \A g \in Setups : /\ configs'[g].status = "NONE" <=> configs[g].status = "NONE"
                        /\ configs'[g].k = configs[g].k
  BY DEF Supersede, RecoveryTypeOK
<1>3. \A g \in Setups : configs[g].status # "NONE" => g <= setups
  BY DEF OwnersInv, SetupsBegun
<1> HIDE DEF call
<1>4. \A i \in Callers : i # h => calls'[i] = calls[i]
  BY <1>1 DEF RecoveryTypeOK
<1>5. calls'[h] = call
  BY <1>1 DEF RecoveryTypeOK
<1>6. \A i \in Callers : calls[i].op = "setup" => calls[i].g \in Setups
  BY CallFields DEF RecoveryTypeOK
<1>7. SetupsBegun'
  <2>1. ASSUME NEW g \in Setups, configs'[g].status # "NONE" PROVE g <= setups'
    BY <1>1, <1>2, <1>3, <2>1 DEF Setups
  <2>2. ASSUME NEW i \in Callers, calls'[i].op = "setup"
        PROVE  calls'[i].g <= setups' /\ configs'[calls'[i].g].status = "NONE"
    <3>1. CASE i = h
      BY <1>1, <1>2, <1>3, <1>5, <3>1
    <3>2. CASE i # h
      BY <1>1, <1>2, <1>4, <1>6, <2>2, <3>2 DEF OwnersInv, SetupsBegun, Setups
    <3> QED
      BY <3>1, <3>2
  <2> QED
    BY <2>1, <2>2 DEF SetupsBegun
<1>8. OneCallPerSetup'
  <2>1. \A i \in Callers : i # h /\ calls'[i].op = "setup" => calls'[i].g # setups + 1
    BY <1>1, <1>4, <1>6 DEF OwnersInv, SetupsBegun, Setups
  <2> QED
    BY <1>1, <1>4, <1>5, <2>1 DEF OwnersInv, OneCallPerSetup
<1>9. ShardsDealt'
  <2>1. \A i \in Callers : calls'[i].op = "submit" => calls[i] = calls'[i] /\ calls[i].shards \subseteq Shards
    BY <1>1, <1>4, <1>5, CallFields DEF RecoveryTypeOK
  <2> QED
    BY <1>1, <1>2, <2>1 DEF OwnersInv, ShardsDealt, Dealt, Shards, RecoveryTypeOK
<1>10. CaseHasSetup'
  BY <1>1, <1>2 DEF OwnersInv, CaseHasSetup
<1> QED
  BY <1>7, <1>8, <1>9, <1>10 DEF OwnersInv

\* Only its own call inserts a configuration, and does so once.
LEMMA InsertKeepsOwners ==
  ASSUME RecoveryTypeOK, OwnersInv, NEW h \in Callers, InsertConfig(h)
  PROVE  OwnersInv'
<1> DEFINE n == calls[h].g
<1>1. /\ n \in Setups /\ calls[h].op = "setup" /\ n <= setups /\ configs[n].status = "NONE"
  BY CallFields DEF InsertConfig, OwnersInv, SetupsBegun, RecoveryTypeOK
<1>2. /\ configs'[n].status # "NONE"
      /\ \A g \in Setups : g # n => configs'[g] = configs[g]
  BY <1>1 DEF InsertConfig, RecoveryTypeOK
<1>3. /\ calls'[h].op = "idle" /\ \A i \in Callers : i # h => calls'[i] = calls[i]
      /\ UNCHANGED <<setups, status, thresholdK, submittedShards, reconstructedKey>>
  BY DEF InsertConfig, Finish, case, RecoveryTypeOK, Idle
<1>4. \A i \in Callers : i # h /\ calls[i].op = "setup" => calls[i].g # n /\ calls[i].g \in Setups
  BY <1>1, CallFields DEF OwnersInv, OneCallPerSetup, RecoveryTypeOK
<1> HIDE DEF n
<1>5. SetupsBegun'
  BY <1>1, <1>2, <1>3, <1>4 DEF OwnersInv, SetupsBegun
<1>6. OneCallPerSetup'
  BY <1>3 DEF OwnersInv, OneCallPerSetup
<1>7. \A g \in Setups : configs[g].status # "NONE" => configs'[g].status # "NONE" /\ configs'[g].k = configs[g].k
  BY <1>1, <1>2
<1>8. ShardsDealt'
  <2>1. \A i \in Callers : calls'[i].op = "submit" => calls[i] = calls'[i] /\ calls[i].shards \subseteq Shards
    BY <1>3, CallFields DEF RecoveryTypeOK
  <2> QED
    BY <1>3, <1>7, <2>1 DEF OwnersInv, ShardsDealt, Dealt, Shards, RecoveryTypeOK
<1>9. CaseHasSetup'
  BY <1>3, <1>7 DEF OwnersInv, CaseHasSetup
<1> QED
  BY <1>5, <1>6, <1>8, <1>9 DEF OwnersInv

LEMMA InitiateKeepsOwners ==
  ASSUME RecoveryTypeOK, OwnersInv, NEW g \in Setups, InitiateRecoveryCase(g)
  PROVE  OwnersInv'
BY DEF InitiateRecoveryCase, OwnersInv, SetupsBegun, OneCallPerSetup, ShardsDealt, Dealt, CaseHasSetup

LEMMA SubmitKeepsOwners ==
  ASSUME SInv, OwnersInv, NEW h \in Callers, (\E s \in Shards : ReadForShard(h, s)) \/ WriteShard(h)
  PROVE  OwnersInv'
<1>1. CASE \E s \in Shards : ReadForShard(h, s)
  <2>1. PICK s \in Shards : ReadForShard(h, s)
    BY <1>1
  <2> DEFINE shards == submittedShards \cup {s}
             call == [op |-> "submit", shards |-> shards, reached |-> Reaches(shards), at |-> hour]
  <2>2. /\ call.op = "submit" /\ call.shards = shards /\ Dealt(shards)
        /\ calls' = [calls EXCEPT ![h] = call] /\ UNCHANGED <<configs, setups, case>>
    BY <2>1 DEF ReadForShard, Begin, OwnersInv, ShardsDealt, Dealt
  <2> HIDE DEF call, shards
  <2>3. \A i \in Callers : calls'[i] = IF i = h THEN call ELSE calls[i]
    BY <2>2 DEF SInv, RecoveryTypeOK
  <2>4. Dealt(submittedShards') /\ Dealt(reconstructedKey')
    BY <2>2 DEF case, OwnersInv, ShardsDealt
  <2> QED
    BY <2>2, <2>3, <2>4, CaseStepsKeep DEF SInv, case
<1>2. CASE WriteShard(h)
  <2>1. /\ calls[h].op = "submit" /\ calls[h].reached \in BOOLEAN /\ Dealt(calls[h].shards)
    BY <1>2, CallFields DEF WriteShard, SInv, RecoveryTypeOK, OwnersInv, ShardsDealt
  <2> HIDE DEF Dealt
  <2>2. Dealt(submittedShards') /\ Dealt(reconstructedKey')
    BY <1>2, <2>1 DEF WriteShard, Escrow, OwnersInv, ShardsDealt
  <2>3. \A i \in Callers : calls'[i] = calls[i] \/ calls'[i].op = "idle"
    BY <1>2 DEF WriteShard, Finish, Idle, SInv, RecoveryTypeOK
  <2>4. CaseHasSetup /\ status # "NONE" /\ status' # "NONE" /\ UNCHANGED <<configs, setups, thresholdK>>
    BY <1>2, <2>1 DEF WriteShard, Escrow, SInv, CallsNeedCase, OwnersInv
  <2>5. CaseHasSetup'
    BY <2>4 DEF CaseHasSetup
  <2> QED
    BY <2>2, <2>3, <2>4, <2>5 DEF OwnersInv, SetupsBegun, OneCallPerSetup, ShardsDealt, Dealt
<1> QED
  BY <1>1, <1>2

LEMMA EndKeepsOwners ==
  ASSUME SInv, OwnersInv,
         \/ CancelRecovery \/ \E h \in Callers : ReadForFinalize(h) \/ WriteRecovered(h)
         \/ RecoveryTick \/ Crash \/ UNCHANGED recoveryVars
  PROVE  OwnersInv'
<1>1. \A h \in Callers : calls'[h] = calls[h] \/ calls'[h].op \in {"idle", "finalize"}
  BY DEF CancelRecovery, ReadForFinalize, WriteRecovered, RecoveryTick, Crash, recoveryVars, Begin, Finish, Idle,
     SInv, RecoveryTypeOK
<1>2. UNCHANGED <<configs, setups, thresholdK, submittedShards>> /\ reconstructedKey' \subseteq reconstructedKey
  BY DEF CancelRecovery, Scrub, ReadForFinalize, WriteRecovered, RecoveryTick, Crash, recoveryVars, case
<1>3. status' # "NONE" => status # "NONE"
  BY DEF CancelRecovery, ReadForFinalize, WriteRecovered, RecoveryTick, Crash, recoveryVars, case, SInv, CallsNeedCase
<1> QED
  BY <1>1, <1>2, <1>3 DEF OwnersInv, SetupsBegun, OneCallPerSetup, ShardsDealt, Dealt, CaseHasSetup

LEMMA OwnersInductive == SInv /\ OwnersInv /\ [RecoveryNext]_recoveryVars => OwnersInv'
BY SupersedeKeepsOwners, InsertKeepsOwners, InitiateKeepsOwners, SubmitKeepsOwners, EndKeepsOwners
   DEF RecoveryNext, SInv

\* After one setup every shard that was dealt is of that setup, so a full threshold of them
\* is its key.
LEMMA OwnersKey == SInv /\ OwnersInv => EscrowedKeyIsOwners
<1> SUFFICES ASSUME SInv, OwnersInv, status = "ESCROW_TIMELOCK", setups = 1,
                    \A s \in reconstructedKey : s[1] # Forged
             PROVE  Genuine(reconstructedKey)
  BY DEF EscrowedKeyIsOwners
<1>1. PICK g \in Setups : configs[g].status # "NONE" /\ thresholdK = configs[g].k
  BY DEF OwnersInv, CaseHasSetup
<1>2. \A n \in Setups : configs[n].status # "NONE" => n = 1
  BY RecoveryAssumption DEF OwnersInv, SetupsBegun, Setups
<1>3. reconstructedKey \subseteq {g} \X (1 .. TotalShards)
  BY <1>1, <1>2 DEF OwnersInv, ShardsDealt, Dealt, SInv, RecoveryTypeOK, Shards
<1>4. Cardinality(reconstructedKey) >= configs[g].k
  BY <1>1 DEF SInv, EscrowHoldsKey
<1> QED
  BY <1>3, <1>4 DEF Genuine

\* As long as there is one setup, a key that submit_recovery_shard made of dealt shards and put
\* in escrow is the one the owner split, whatever else was submitted and whatever got lost.
THEOREM KeyAlwaysOwners == RecoverySpec => []EscrowedKeyIsOwners
<1>1. RecoverySpec => []OwnersInv
  BY AlwaysSInv, OwnersInitially, OwnersInductive, PTL DEF RecoverySpec
<1> QED
  BY <1>1, AlwaysSInv, OwnersKey, PTL

=============================================================================
