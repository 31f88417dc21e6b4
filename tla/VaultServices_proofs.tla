-------------------------- MODULE VaultServices_proofs --------------------------
(***************************************************************************)
(* Three services of the owner's vault: the custodians' proposals, the     *)
(* assets under a plan, and the audit ledger.  They share no state; their  *)
(* parts of this module do not depend on each other.                       *)
(*                                                                         *)
(* CustodianConsensus implements GovernancePromise for every number of     *)
(* proposals and custodians and whatever rules the proposals are given.    *)
(* The steps alone do not show it: that ExecuteProposal is Promise!Execute *)
(* needs to know that a proposal whose timelock runs has its signatures    *)
(* and that its deadline lies a whole timelock after the last of them, and *)
(* that a proposal is EXECUTABLE only if it has no timelock.  CInv says so.*)
(*                                                                         *)
(* The asset limit is compared with a count made before the insertion; SInv*)
(* counts the insertions still to come with the assets that are there.     *)
(*                                                                         *)
(* An entry of the ledger is chained to what its recorder found.  LInv     *)
(* says what a recorder holds: a link to an entry that is still there, and *)
(* an index above those of its own entries; while nobody overlaps, the     *)
(* link to the last entry.                                                 *)
(***************************************************************************)
EXTENDS CustodianConsensus, AssetStore, AuditLedger, FiniteSetTheorems, TLAPS

Reached(p) == Cardinality(signatures[p]) >= threshold[p]

CInv ==
  /\ TypeOK
  /\ CollectingIsShort
  /\ \A p \in Proposals :
       /\ threshold[p] > 0
       /\ signedAt[p] <= clock
       /\ state[p] = "NONE" => signatures[p] = {}
       /\ state[p] = "TIMELOCK_RUNNING" => Reached(p) /\ expiresAt[p] = signedAt[p] + timelock[p]
       /\ state[p] = "EXECUTABLE" => Reached(p) /\ timelock[p] = 0

USE ConsensusAssumption

\* Signers can be counted.
LEMMA SignersFinite ==
  ASSUME NEW S \in SUBSET Custodians
  PROVE  Cardinality(S) \in Nat
BY FS_Subset, FS_CardinalityType

LEMMA Initially == Init => CInv
BY FS_EmptySet DEF Init, CInv, TypeOK, CollectingIsShort, Reached

LEMMA CreateKeeps ==
  ASSUME CInv, NEW p \in Proposals, NEW m \in Thresholds, NEW t \in Timelocks,
         CreateProposal(p, m, t)
  PROVE  CInv'
<1>1. TypeOK'
  BY DEF CInv, TypeOK, CreateProposal, ProposalState
<1>2. Cardinality(signatures[p]) = 0
  BY FS_EmptySet DEF CInv, CreateProposal
<1> QED
  BY <1>1, <1>2 DEF CInv, TypeOK, CollectingIsShort, Reached, CreateProposal

LEMMA SignKeeps ==
  ASSUME CInv, NEW p \in Proposals, NEW c \in Custodians, SignProposal(p, c)
  PROVE  CInv'
<1> DEFINE signers == signatures[p] \cup {c}
<1>1. signers \in SUBSET Custodians
  BY DEF CInv, TypeOK
<1>2. Cardinality(signers) \in Nat
  BY <1>1, SignersFinite
<1>3. /\ state[p] = "COLLECTING_SIGNATURES"
      /\ signatures' = [signatures EXCEPT ![p] = signers]
      /\ state' = [state EXCEPT ![p] = StateAfter(p, signers)]
      /\ expiresAt' = [expiresAt EXCEPT ![p] =
                         IF StateAfter(p, signers) = "TIMELOCK_RUNNING" THEN Deadline(p) ELSE @]
      /\ signedAt' = [signedAt EXCEPT ![p] = clock]
      /\ UNCHANGED <<rules, clock, restarts>>
  BY DEF SignProposal
<1>4. \/ /\ Cardinality(signers) < threshold[p]
         /\ StateAfter(p, signers) = "COLLECTING_SIGNATURES"
      \/ /\ Cardinality(signers) >= threshold[p] /\ timelock[p] > 0
         /\ StateAfter(p, signers) = "TIMELOCK_RUNNING"
      \/ /\ Cardinality(signers) >= threshold[p] /\ timelock[p] = 0
         /\ StateAfter(p, signers) = "EXECUTABLE"
  <2>1. threshold[p] \in Nat /\ timelock[p] \in Nat
    BY DEF CInv, TypeOK
  <2> HIDE DEF signers
  <2> QED
    BY <1>2, <1>3, <2>1 DEF StateAfter, ThresholdMet
<1>5. TypeOK'
  <2>1. Deadline(p) \in Nat
    BY DEF CInv, TypeOK, Deadline
  <2> HIDE DEF signers
  <2> QED
    BY <1>1, <1>3, <1>4, <2>1 DEF CInv, TypeOK, ProposalState, rules
<1>6. ASSUME NEW q \in Proposals, q # p
      PROVE  UNCHANGED <<state[q], signatures[q], signedAt[q], expiresAt[q]>>
  BY <1>3, <1>6 DEF CInv, TypeOK
<1>7. /\ signatures'[p] = signers
      /\ state'[p] = StateAfter(p, signers)
      /\ signedAt'[p] = clock
      /\ StateAfter(p, signers) = "TIMELOCK_RUNNING" => expiresAt'[p] = clock + timelock[p]
  <2> HIDE DEF signers
  <2> QED
    BY <1>3 DEF CInv, TypeOK, Deadline
<1>8. UNCHANGED <<threshold, timelock, clock>>
  BY <1>3 DEF rules
<1> HIDE DEF signers
<1> QED
  BY <1>2, <1>4, <1>5, <1>6, <1>7, <1>8 DEF CInv, TypeOK, CollectingIsShort, Reached

LEMMA OthersKeep ==
  ASSUME CInv,
         \/ \E p \in Proposals : ExecuteProposal(p) \/ OwnerVetoProposal(p)
         \/ Tick \/ Restart \/ UNCHANGED vars
  PROVE  CInv'
<1>1. CASE \E p \in Proposals : ExecuteProposal(p) \/ OwnerVetoProposal(p)
  BY <1>1 DEF CInv, TypeOK, ProposalState, CollectingIsShort, Reached, rules,
              ExecuteProposal, OwnerVetoProposal
<1>2. CASE Tick
  BY <1>2 DEF CInv, TypeOK, CollectingIsShort, Reached, rules, Tick
<1>3. CASE Restart
  BY <1>3 DEF CInv, TypeOK, CollectingIsShort, Reached, rules, Restart
<1>4. CASE UNCHANGED vars
  BY <1>4 DEF CInv, TypeOK, CollectingIsShort, Reached, vars
<1> QED
  BY <1>1, <1>2, <1>3, <1>4

LEMMA Inductive == CInv /\ [Next]_vars => CInv'
BY CreateKeeps, SignKeeps, OthersKeep DEF Next

LEMMA AlwaysCInv == Spec => []CInv
BY Initially, Inductive, PTL DEF Spec

\* Every reachable state has its type.
THEOREM TypeCorrect == Spec => []TypeOK
<1>1. CInv => TypeOK
  BY DEF CInv
<1> QED
  BY <1>1, AlwaysCInv, PTL

\* sign_proposal evaluates the threshold with every signature: a proposal that still collects
\* is still short of it.
THEOREM AlwaysShort == Spec => []CollectingIsShort
<1>1. CInv => CollectingIsShort
  BY DEF CInv
<1> QED
  BY <1>1, AlwaysCInv, PTL

-----------------------------------------------------------------------------
(* The refinement                                                          *)

LEMMA PromisedInitially == Init => Promise!Init
BY DEF Init, Promise!Init, Outcome

\* A proposal whose state does not change keeps its outcome.
LEMMA CreatePromised ==
  ASSUME CInv, NEW p \in Proposals, NEW m \in Thresholds, NEW t \in Timelocks,
         CreateProposal(p, m, t)
  PROVE  Promise!Propose(p)
<1>1. TypeOK'
  BY CreateKeeps DEF CInv
<1>2. \A q \in Proposals : Outcome(q)' = Outcome(q)
  BY DEF CInv, TypeOK, CreateProposal, Outcome
<1> QED
  BY <1>1, <1>2 DEF CInv, TypeOK, CreateProposal, Outcome, Promise!Propose

LEMMA SignPromised ==
  ASSUME CInv, NEW p \in Proposals, NEW c \in Custodians, SignProposal(p, c)
  PROVE  Promise!Approve(p, c)
<1>1. \A q \in Proposals : Outcome(q)' = Outcome(q)
  BY DEF CInv, TypeOK, SignProposal, StateAfter, Outcome
<1> QED
  BY <1>1 DEF SignProposal, rules, Outcome, Promise!Approve, Promise!rules

LEMMA ExecutePromised ==
  ASSUME CInv, NEW p \in Proposals, ExecuteProposal(p)
  PROVE  Promise!Execute(p)
<1>1. /\ Outcome(p) = "open" /\ Outcome(p)' = "executed"
      /\ \A q \in Proposals \ {p} : Outcome(q)' = Outcome(q)
  BY DEF CInv, TypeOK, ExecuteProposal, MayExecute, Outcome
<1>2. Cardinality(signatures[p]) >= threshold[p]
  BY DEF CInv, Reached, ExecuteProposal, MayExecute
<1>3. clock >= signedAt[p] + timelock[p]
  BY DEF CInv, TypeOK, ExecuteProposal, MayExecute
<1>4. Promise!Cardinality(signatures[p]) = Cardinality(signatures[p])
  BY Zenon DEF Promise!Cardinality, Cardinality
<1> QED
  BY <1>1, <1>2, <1>3, <1>4 DEF ExecuteProposal, rules, Promise!Execute, Promise!rules

LEMMA VetoPromised ==
  ASSUME CInv, NEW p \in Proposals, OwnerVetoProposal(p)
  PROVE  Promise!Nullify({p})
<1>1. /\ Outcome(p) # "executed" /\ Outcome(p)' = "void"
      /\ \A q \in Proposals \ {p} : Outcome(q)' = Outcome(q)
  BY DEF CInv, TypeOK, OwnerVetoProposal, Vetoable, Outcome
<1>2. Outcome(p) = "open" \/ Outcome(p) = "void"
  BY <1>1 DEF Outcome
<1> QED
  BY <1>1, <1>2 DEF OwnerVetoProposal, rules, Promise!Nullify, Promise!rules

LEMMA RestartPromised ==
  ASSUME CInv, Restart
  PROVE  Promise!Nullify({p \in Proposals : state[p] \notin {"NONE", "EXECUTED"}})
<1>1. ASSUME NEW p \in Proposals
      PROVE  Outcome(p)' = IF state[p] \notin {"NONE", "EXECUTED"} /\ Outcome(p) = "open"
                             THEN "void" ELSE Outcome(p)
  BY DEF Restart, Outcome
<1> QED
  BY <1>1 DEF Restart, rules, Promise!Nullify, Promise!rules

\* Every step of the service is a step of the promise, or none.
LEMMA StepPromised == CInv /\ [Next]_vars => [Promise!Next]_Promise!vars
<1> SUFFICES ASSUME CInv, [Next]_vars PROVE [Promise!Next]_Promise!vars
  OBVIOUS
<1>1. ASSUME NEW p \in Proposals, NEW m \in Thresholds, NEW t \in Timelocks,
             CreateProposal(p, m, t)
      PROVE  Promise!Next
  BY <1>1, CreatePromised DEF Promise!Next
<1>2. ASSUME NEW p \in Proposals, NEW c \in Custodians, SignProposal(p, c)
      PROVE  Promise!Next
  BY <1>2, SignPromised DEF Promise!Next
<1>3. ASSUME NEW p \in Proposals, ExecuteProposal(p) PROVE Promise!Next
  BY <1>3, ExecutePromised DEF Promise!Next
<1>4. ASSUME NEW p \in Proposals, OwnerVetoProposal(p) PROVE Promise!Next
  BY <1>4, VetoPromised DEF Promise!Next
<1>5. ASSUME Tick PROVE Promise!Next
  BY <1>5 DEF Tick, rules, Outcome, Promise!Next, Promise!Pass, Promise!rules
<1>6. ASSUME Restart PROVE Promise!Next
  BY <1>6, RestartPromised DEF Promise!Next
<1>7. ASSUME UNCHANGED vars PROVE UNCHANGED Promise!vars
  BY <1>7 DEF vars, Outcome, Promise!vars
<1> QED
  BY <1>1, <1>2, <1>3, <1>4, <1>5, <1>6, <1>7 DEF Next

\* The service keeps its promise: an executed proposal had its signatures and its whole delay,
\* and a vetoed or forgotten one is never executed.
THEOREM KeepsPromise == Spec => ImplementsPromise
BY PromisedInitially, StepPromised, AlwaysCInv, PTL DEF Spec, ImplementsPromise

-----------------------------------------------------------------------------
(* The assets                                                              *)

Inserting == {h \in Handlers : At(h, "insert")}

\* A request about to insert has found room, and takes it.
SInv ==
  /\ StoreTypeOK
  /\ Cardinality(stored) + Cardinality(Inserting) <= AssetLimit - 1 + Cardinality(Handlers) + revived

LEMMA StoreBounds ==
  /\ AssetLimit \in Nat /\ AssetLimit > 0 /\ MaxSaves \in Nat /\ MaxStops \in Nat
  /\ Sizes \subseteq Nat /\ Ids \subseteq 0 .. MaxSaves
BY StoreAssumption DEF Ids

LEMMA HandlersCounted ==
  ASSUME NEW S \in SUBSET Handlers
  PROVE  /\ IsFiniteSet(S) /\ Cardinality(S) \in Nat /\ Cardinality(Handlers) \in Nat
         /\ Cardinality(S) <= Cardinality(Handlers)
BY StoreAssumption, FS_Subset, FS_CardinalityType

LEMMA IdsCounted ==
  ASSUME NEW S \in SUBSET Ids
  PROVE  IsFiniteSet(S) /\ Cardinality(S) \in Nat
<1>1. IsFiniteSet(Ids)
  BY StoreBounds, FS_Interval DEF Ids
<1> QED
  BY <1>1, FS_Subset, FS_CardinalityType

Requests ==
  [step : {"free", "count", "insert", "update", "book", "unbook", "delete"},
   id : 0 .. MaxSaves, bytes : Nat]

LEMMA StoreInitially == StoreInit => SInv
<1> SUFFICES ASSUME StoreInit PROVE SInv
  OBVIOUS
<1>1. StoreTypeOK
  <2>1. Free.step = "free" /\ Free \in Requests
    BY StoreBounds DEF Free, Requests
  <2>2. doing \in [Handlers -> Requests] /\ \A h \in Handlers : At(h, "free")
    BY <2>1 DEF StoreInit, At
  <2>3. fileSize \in [Ids -> Nat]
    BY DEF StoreInit
  <2> QED
    <3>1. /\ stored \subseteq Ids /\ seen \subseteq Ids /\ storageUsed \in Int
          /\ saves \in 0 .. MaxSaves /\ stops \in 0 .. MaxStops /\ revived \in Nat
      BY StoreBounds DEF StoreInit
    <3>2. doubled \in BOOLEAN /\ torn \in BOOLEAN
      BY DEF StoreInit
    <3> QED
      BY <2>2, <2>3, <3>1, <3>2 DEF StoreTypeOK, Requests, At
<1>2. Inserting = {} /\ stored = {} /\ revived = 0
  BY DEF StoreInit, Inserting, At, Free
<1>3. Cardinality(Handlers) \in Nat
  BY HandlersCounted
<1> QED
  BY <1>1, <1>2, <1>3, FS_EmptySet, StoreBounds DEF SInv

OfAsset(req) == req.step # "free" => req.id \in Ids

LEMMA RequestsTyped ==
  StoreTypeOK <=>
    /\ stored \subseteq Ids /\ seen \subseteq Ids /\ fileSize \in [Ids -> Nat]
    /\ storageUsed \in Int
    /\ doing \in [Handlers -> Requests] /\ \A h \in Handlers : OfAsset(doing[h])
    /\ saves \in 0 .. MaxSaves /\ stops \in 0 .. MaxStops /\ revived \in Nat
    /\ {doubled, torn} \subseteq BOOLEAN
BY DEF StoreTypeOK, Requests, OfAsset, At

\* A request that goes a step on, or is done, is a request.
LEMMA StepTyped ==
  ASSUME StoreTypeOK, NEW h \in Handlers, doing[h].id \in Ids,
         \/ \E s \in {"insert", "book", "delete"} : GoTo(h, s)
         \/ Done(h)
         \/ BookNext(h)
  PROVE  doing' \in [Handlers -> Requests] /\ \A k \in Handlers : OfAsset(doing'[k])
<1>1. /\ doing \in [Handlers -> Requests] /\ \A k \in Handlers : OfAsset(doing[k])
      /\ Free \in Requests /\ OfAsset(Free)
  BY StoreBounds DEF StoreTypeOK, Requests, Free, OfAsset, At
<1>2. ASSUME NEW s \in {"insert", "book", "delete"}
      PROVE  /\ [doing[h] EXCEPT !.step = s] \in Requests
             /\ OfAsset([doing[h] EXCEPT !.step = s])
  BY <1>1 DEF Requests, OfAsset
<1>3. PICK new \in Requests : OfAsset(new) /\ doing' = [doing EXCEPT ![h] = new]
  BY <1>1, <1>2 DEF GoTo, Done, BookNext
<1> QED
  BY <1>1, <1>3

\* So is one that begins.
LEMMA BeginTyped ==
  ASSUME StoreTypeOK, NEW h \in Handlers, NEW new \in Requests, new.id \in Ids,
         doing' = [doing EXCEPT ![h] = new]
  PROVE  doing' \in [Handlers -> Requests] /\ \A k \in Handlers : OfAsset(doing'[k])
BY RequestsTyped DEF OfAsset

LEMMA StoreTyped == StoreTypeOK /\ [StoreNext]_storeVars => StoreTypeOK'
<1> SUFFICES ASSUME StoreTypeOK, [StoreNext]_storeVars PROVE StoreTypeOK'
  OBVIOUS
<1> DEFINE DoingOK == doing' \in [Handlers -> Requests] /\ \A k \in Handlers : OfAsset(doing'[k])
<1>0. ASSUME DoingOK,
             stored' \subseteq Ids, seen' \subseteq Ids, fileSize' \in [Ids -> Nat],
             storageUsed' \in Int, saves' \in 0 .. MaxSaves, stops' \in 0 .. MaxStops,
             revived' \in Nat, doubled' \in BOOLEAN, torn' \in BOOLEAN
      PROVE  StoreTypeOK'
  BY <1>0 DEF StoreTypeOK, Requests, OfAsset, At
<1> HIDE DEF DoingOK
<1>a. /\ stored \subseteq Ids /\ seen \subseteq Ids /\ fileSize \in [Ids -> Nat]
      /\ storageUsed \in Int /\ saves \in 0 .. MaxSaves /\ stops \in 0 .. MaxStops
      /\ revived \in Nat /\ doubled \in BOOLEAN /\ torn \in BOOLEAN
      /\ doing \in [Handlers -> Requests] /\ \A k \in Handlers : OfAsset(doing[k])
  BY RequestsTyped
<1>b. ASSUME NEW h \in Handlers, ~At(h, "free")
      PROVE  doing[h].id \in Ids /\ doing[h].bytes \in Nat
  BY <1>a, <1>b DEF OfAsset, At, Requests
<1>1. ASSUME NEW h \in Handlers, SaveAsset(h) PROVE StoreTypeOK'
  <2>1. saves + 1 \in Ids /\ saves' \in 0 .. MaxSaves
    BY <1>1, <1>a, StoreBounds DEF SaveAsset, Ids
  <2>2. PICK new \in Requests : new.id \in Ids /\ doing' = [doing EXCEPT ![h] = new]
    BY <1>1, <1>a, <2>1, StoreBounds DEF SaveAsset, Requests
  <2>3. DoingOK
    BY <2>2, BeginTyped DEF DoingOK
  <2> QED
    BY <1>0, <1>1, <1>a, <2>1, <2>3 DEF SaveAsset, history
<1>2. ASSUME NEW h \in Handlers, CheckAssetLimit(h) PROVE StoreTypeOK'
  <2>1. DoingOK
    BY <1>2, <1>b, StepTyped DEF CheckAssetLimit, At, DoingOK
  <2> QED
    BY <1>0, <1>2, <1>a, <2>1 DEF CheckAssetLimit, history
<1>3. ASSUME NEW h \in Handlers, InsertAsset(h) PROVE StoreTypeOK'
  <2>1. doing[h].id \in Ids /\ doing[h].bytes \in Nat
    BY <1>3, <1>b DEF InsertAsset, At
  <2>2. DoingOK
    BY <1>3, <2>1, StepTyped DEF InsertAsset, DoingOK
  <2> QED
    BY <1>0, <1>3, <1>a, <2>1, <2>2 DEF InsertAsset, history
<1>4. ASSUME NEW h \in Handlers, UpsertAsset(h) PROVE StoreTypeOK'
  <2>1. doing[h].id \in Ids /\ doing[h].bytes \in Nat
    BY <1>4, <1>b DEF UpsertAsset, At
  <2>2. DoingOK
    BY <1>4, <2>1, StepTyped DEF UpsertAsset, DoingOK
  <2> QED
    BY <1>0, <1>4, <1>a, <2>1, <2>2 DEF UpsertAsset
<1>5. ASSUME NEW h \in Handlers, BookBytes(h) PROVE StoreTypeOK'
  <2>1. doing[h].id \in Ids /\ doing[h].bytes \in Nat
    BY <1>5, <1>b DEF BookBytes, At
  <2>2. DoingOK
    BY <1>5, <2>1, StepTyped DEF BookBytes, DoingOK
  <2> QED
    BY <1>0, <1>5, <1>a, <2>1, <2>2 DEF BookBytes, history
<1>6. ASSUME NEW h \in Handlers, NEW i \in Ids, FindAsset(h, i) PROVE StoreTypeOK'
  <2>1. PICK new \in Requests : new.id \in Ids /\ doing' = [doing EXCEPT ![h] = new]
    <3> DEFINE bytes == IF i \in stored THEN fileSize[i] ELSE 0
               new == [step |-> IF bytes > 0 THEN "unbook" ELSE "delete", id |-> i, bytes |-> bytes]
    <3>1. bytes \in Nat /\ i \in 0 .. MaxSaves
      BY <1>a, StoreBounds
    <3>2. doing' = [doing EXCEPT ![h] = new]
      BY <1>6 DEF FindAsset
    <3>3. new \in Requests /\ new.id = i
      BY <3>1 DEF Requests
    <3> HIDE DEF new
    <3> QED
      BY <3>2, <3>3
  <2>2. DoingOK
    BY <2>1, BeginTyped DEF DoingOK
  <2>3. doubled' \in BOOLEAN
    BY <1>6, <1>a DEF FindAsset
  <2> QED
    BY <1>0, <1>6, <1>a, <2>2, <2>3 DEF FindAsset
<1>7. ASSUME NEW h \in Handlers, UnbookBytes(h) PROVE StoreTypeOK'
  <2>1. doing[h].id \in Ids /\ doing[h].bytes \in Nat
    BY <1>7, <1>b DEF UnbookBytes, At
  <2>2. DoingOK
    BY <1>7, <2>1, StepTyped DEF UnbookBytes, DoingOK
  <2> QED
    BY <1>0, <1>7, <1>a, <2>1, <2>2 DEF UnbookBytes, history
<1>8. ASSUME NEW h \in Handlers, DeleteAsset(h) PROVE StoreTypeOK'
  <2>1. doing[h].id \in Ids /\ doing[h].bytes \in Nat
    BY <1>8, <1>b DEF DeleteAsset, At
  <2>2. DoingOK
    BY <1>8, <2>1, StepTyped DEF DeleteAsset, DoingOK
  <2> QED
    BY <1>0, <1>8, <1>a, <2>1, <2>2 DEF DeleteAsset, history
<1>9. ASSUME RestartApi PROVE StoreTypeOK'
  <2>1. DoingOK
    BY <1>9, StoreBounds DEF RestartApi, DoingOK, Free, Requests, OfAsset
  <2>2. stops' \in 0 .. MaxStops /\ torn' \in BOOLEAN
    BY <1>9, <1>a, StoreBounds DEF RestartApi
  <2> QED
    BY <1>0, <1>9, <1>a, <2>1, <2>2 DEF RestartApi
<1>10. ASSUME UNCHANGED storeVars PROVE StoreTypeOK'
  BY <1>10 DEF StoreTypeOK, storeVars, history, At
<1> QED
  BY <1>1, <1>2, <1>3, <1>4, <1>5, <1>6, <1>7, <1>8, <1>9, <1>10
  DEF StoreNext, SaveStep, DeleteStep

\* The requests about to insert, after a step of one handler.
LEMMA OneMoves ==
  ASSUME StoreTypeOK, NEW h \in Handlers, NEW new, doing' = [doing EXCEPT ![h] = new]
  PROVE  Inserting' = IF new.step = "insert" THEN Inserting \cup {h} ELSE Inserting \ {h}
BY DEF StoreTypeOK, Inserting, At

\* Steps that neither insert nor begin an insertion.
LEMMA NoMore ==
  ASSUME SInv, StoreTypeOK', stored' \subseteq stored, Inserting' \subseteq Inserting,
         revived' = revived
  PROVE  SInv'
<1>1. /\ stored \in SUBSET Ids /\ stored' \in SUBSET stored
      /\ Inserting \in SUBSET Handlers /\ Inserting' \in SUBSET Inserting
  BY DEF SInv, StoreTypeOK, Inserting
<1>2. Cardinality(stored') <= Cardinality(stored) /\ Cardinality(stored') \in Nat
      /\ Cardinality(stored) \in Nat
  BY <1>1, IdsCounted, FS_Subset, FS_CardinalityType
<1>3. Cardinality(Inserting') <= Cardinality(Inserting) /\ Cardinality(Inserting') \in Nat
      /\ Cardinality(Inserting) \in Nat
  BY <1>1, HandlersCounted, FS_Subset, FS_CardinalityType
<1>4. Cardinality(Handlers) \in Nat /\ revived \in Nat /\ AssetLimit \in Nat
  BY HandlersCounted, StoreBounds DEF SInv, StoreTypeOK
<1> QED
  BY <1>2, <1>3, <1>4 DEF SInv

LEMMA CheckKeeps ==
  ASSUME SInv, NEW h \in Handlers, CheckAssetLimit(h), StoreTypeOK'
  PROVE  SInv'
<1>1. stored' = stored /\ revived' = revived /\ StoreTypeOK
  BY DEF CheckAssetLimit, history, SInv
<1>2. CASE BelowLimit
  <2>1. Inserting' \in SUBSET Handlers
    BY DEF Inserting
  <2>2. Cardinality(Inserting') \in Nat /\ Cardinality(Inserting') <= Cardinality(Handlers)
        /\ Cardinality(Handlers) \in Nat
    BY <2>1, HandlersCounted
  <2>3. Cardinality(stored) \in Nat /\ revived \in Nat /\ AssetLimit \in Nat
    BY <1>1, IdsCounted, StoreBounds DEF StoreTypeOK
  <2> QED
    BY <1>1, <1>2, <2>2, <2>3 DEF SInv, BelowLimit
<1>3. CASE ~BelowLimit
  <2>1. doing' = [doing EXCEPT ![h] = Free]
    BY <1>3 DEF CheckAssetLimit, Done
  <2>2. Free.step # "insert"
    BY DEF Free
  <2>3. Inserting' = Inserting \ {h}
    BY <1>1, <2>1, <2>2, OneMoves
  <2> QED
    BY <1>1, <2>3, NoMore
<1> QED
  BY <1>2, <1>3

LEMMA InsertKeeps ==
  ASSUME SInv, NEW h \in Handlers, InsertAsset(h), StoreTypeOK'
  PROVE  SInv'
<1>1. /\ StoreTypeOK /\ h \in Inserting /\ revived' = revived
      /\ stored' = stored \cup {doing[h].id}
  BY DEF SInv, InsertAsset, Inserting, history
<1>2. Inserting' = Inserting \ {h}
  <2>1. \/ doing' = [doing EXCEPT ![h] = [doing[h] EXCEPT !.step = "book"]]
        \/ doing' = [doing EXCEPT ![h] = Free]
    BY DEF InsertAsset, BookNext, GoTo, Done
  <2>2. [doing[h] EXCEPT !.step = "book"].step = "book"
    BY <1>1 DEF StoreTypeOK
  <2> QED
    BY <1>1, <2>1, <2>2, OneMoves DEF Free
<1>3. IsFiniteSet(Inserting) /\ Cardinality(Inserting) \in Nat
  BY HandlersCounted DEF Inserting
<1>4. Cardinality(Inserting') = Cardinality(Inserting) - 1
  BY <1>1, <1>2, <1>3, FS_RemoveElement
<1>5. IsFiniteSet(stored) /\ Cardinality(stored) \in Nat
  BY <1>1, IdsCounted DEF StoreTypeOK
<1>6. Cardinality(stored') \in Nat /\ Cardinality(stored') <= Cardinality(stored) + 1
  <2> DEFINE i == doing[h].id
  <2>1. Cardinality(stored \cup {i}) = IF i \in stored THEN Cardinality(stored)
                                                     ELSE Cardinality(stored) + 1
    BY <1>5, FS_AddElement
  <2> QED
    BY <1>1, <1>5, <2>1
<1>7. Cardinality(Handlers) \in Nat /\ revived \in Nat /\ AssetLimit \in Nat
  BY <1>1, HandlersCounted, StoreBounds DEF StoreTypeOK
<1> QED
  BY <1>1, <1>3, <1>4, <1>5, <1>6, <1>7 DEF SInv

LEMMA UpsertKeeps ==
  ASSUME SInv, NEW h \in Handlers, UpsertAsset(h), StoreTypeOK'
  PROVE  SInv'
<1> DEFINE i == doing[h].id
<1>1. /\ StoreTypeOK /\ At(h, "update") /\ stored' = stored \cup {i}
      /\ revived' = IF i \in stored THEN revived ELSE revived + 1
  BY DEF SInv, UpsertAsset
<1>2. Inserting' = Inserting
  <2>1. \/ doing' = [doing EXCEPT ![h] = [doing[h] EXCEPT !.step = "book"]]
        \/ doing' = [doing EXCEPT ![h] = Free]
    BY DEF UpsertAsset, BookNext, GoTo, Done
  <2>2. [doing[h] EXCEPT !.step = "book"].step = "book"
    BY <1>1 DEF StoreTypeOK
  <2>3. Inserting' = Inserting \ {h}
    BY <1>1, <2>1, <2>2, OneMoves DEF Free
  <2>4. h \notin Inserting
    BY <1>1 DEF Inserting, At
  <2> QED
    BY <2>3, <2>4
<1>3. Cardinality(Inserting) \in Nat
  BY HandlersCounted DEF Inserting
<1>4. IsFiniteSet(stored) /\ Cardinality(stored) \in Nat
  BY <1>1, IdsCounted DEF StoreTypeOK
<1>5. Cardinality(stored') = IF i \in stored THEN Cardinality(stored) ELSE Cardinality(stored) + 1
  BY <1>1, <1>4, FS_AddElement
<1>6. Cardinality(Handlers) \in Nat /\ revived \in Nat /\ AssetLimit \in Nat
  BY <1>1, HandlersCounted, StoreBounds DEF StoreTypeOK
<1> QED
  BY <1>1, <1>2, <1>3, <1>4, <1>5, <1>6 DEF SInv

LEMMA RestKeeps ==
  ASSUME SInv, StoreTypeOK',
         \/ \E h \in Handlers : \/ SaveAsset(h) \/ BookBytes(h) \/ UnbookBytes(h) \/ DeleteAsset(h)
                                \/ \E i \in Ids : FindAsset(h, i)
         \/ RestartApi \/ UNCHANGED storeVars
  PROVE  SInv'
<1>1. StoreTypeOK
  BY DEF SInv
<1>2. ASSUME NEW h \in Handlers,
             \/ SaveAsset(h) \/ BookBytes(h) \/ UnbookBytes(h) \/ DeleteAsset(h)
             \/ \E i \in Ids : FindAsset(h, i)
      PROVE  stored' \subseteq stored /\ Inserting' \subseteq Inserting /\ revived' = revived
  <2>1. stored' \subseteq stored /\ revived' = revived
    BY <1>2 DEF SaveAsset, BookBytes, UnbookBytes, DeleteAsset, FindAsset, history
  <2>2. PICK new : /\ doing' = [doing EXCEPT ![h] = new]
                   /\ new.step \in {"free", "count", "update", "unbook", "delete"}
    BY <1>1, <1>2 DEF SaveAsset, BookBytes, UnbookBytes, DeleteAsset, FindAsset, GoTo, Done, Free,
                      StoreTypeOK
  <2> QED
    BY <1>1, <2>1, <2>2, OneMoves
<1>3. ASSUME RestartApi
      PROVE  stored' \subseteq stored /\ Inserting' \subseteq Inserting /\ revived' = revived
  BY <1>3 DEF RestartApi, Inserting, At, Free
<1>4. ASSUME UNCHANGED storeVars
      PROVE  stored' \subseteq stored /\ Inserting' \subseteq Inserting /\ revived' = revived
  BY <1>4 DEF storeVars, Inserting, At
<1> QED
  BY <1>2, <1>3, <1>4, NoMore

LEMMA StoreInductive == SInv /\ [StoreNext]_storeVars => SInv'
<1> SUFFICES ASSUME SInv, [StoreNext]_storeVars PROVE SInv'
  OBVIOUS
<1>1. StoreTypeOK'
  BY StoreTyped DEF SInv
<1> QED
  BY <1>1, CheckKeeps, InsertKeeps, UpsertKeeps, RestKeeps DEF StoreNext, SaveStep, DeleteStep

LEMMA AlwaysSInv == StoreSpec => []SInv
BY StoreInitially, StoreInductive, PTL DEF StoreSpec

\* Every reachable state of the assets has its type.
THEOREM StoreTypeCorrect == StoreSpec => []StoreTypeOK
<1>1. SInv => StoreTypeOK
  BY DEF SInv
<1> QED
  BY <1>1, AlwaysSInv, PTL

\* check_asset_limit counts before the insertion: what parallel requests put above the limit is
\* less than their number, whatever the limit.
THEOREM OverrunAlwaysBounded == StoreSpec => []OverrunBounded
<1>1. ASSUME SInv PROVE OverrunBounded
  <2>1. Cardinality(Inserting) \in Nat /\ Cardinality(Handlers) \in Nat
    BY HandlersCounted DEF Inserting
  <2>2. Cardinality(stored) \in Nat /\ revived \in Nat /\ AssetLimit \in Nat
    BY <1>1, IdsCounted, StoreBounds DEF SInv, StoreTypeOK
  <2> QED
    BY <1>1, <2>1, <2>2 DEF SInv, OverrunBounded
<1> QED
  BY <1>1, AlwaysSInv, PTL

-----------------------------------------------------------------------------
(* The audit ledger                                                        *)

\* What a recorder holds is chained to the ledger it will go to, above its own entries.
Chained(r) ==
  /\ IF held[r].prev = GENESIS_HASH THEN held[r].index = 1
     ELSE held[r].prev \in Entries /\ held[r].index = Index(held[r].prev) + 1
  /\ \A e \in Entries : ledger[e].by = r => Index(e) < held[r].index

\* While nobody overlaps: one recorder at a time, and what it holds goes to the end.
InTurn ==
  /\ \A q, r \in Recorders : Holds(q) /\ Holds(r) => q = r
  /\ \A e \in Entries : Index(e) = e /\ ledger[e].prev = e - 1
  /\ \A r \in Recorders : Holds(r) => held[r] = [prev |-> Len(ledger), index |-> Len(ledger) + 1]

LInv ==
  /\ LedgerTypeOK
  /\ ChainedToOlder
  /\ ForkPerRecorder
  /\ \A r \in Recorders : Holds(r) => Chained(r)
  /\ ~overlapped => InTurn

EntryRecords == [prev : Nat, index : Nat, by : Recorders]

LEMMA LedgerShape ==
  ASSUME LedgerTypeOK
  PROVE  /\ Len(ledger) \in Nat /\ Entries = 1 .. Len(ledger)
         /\ \A e \in Entries : /\ e \in Nat /\ 0 < e /\ e <= Len(ledger)
                               /\ ledger[e] \in EntryRecords /\ Index(e) = ledger[e].index
                               /\ ledger[e].index \in Nat /\ ledger[e].prev \in Nat
<1>1. ledger \in Seq(EntryRecords)
  BY DEF LedgerTypeOK, EntryRecords
<1>2. Len(ledger) \in Nat /\ Entries = 1 .. Len(ledger)
  BY <1>1 DEF Entries
<1>3. \A e \in Entries : ledger[e] \in EntryRecords
  BY <1>1, <1>2
<1> QED
  BY <1>2, <1>3 DEF EntryRecords, Index

LEMMA LedgerInitially == LedgerInit => LInv
<1> SUFFICES ASSUME LedgerInit PROVE LInv
  OBVIOUS
<1>1. LedgerTypeOK
  <2>1. Nothing \in [prev : Nat, index : Nat]
    BY DEF Nothing, GENESIS_HASH
  <2>2. ledger \in Seq([prev : Nat, index : Nat, by : Recorders])
    BY DEF LedgerInit
  <2> QED
    BY <2>1, <2>2 DEF LedgerInit, LedgerTypeOK
<1>2. Entries = {} /\ \A r \in Recorders : ~Holds(r)
  BY DEF LedgerInit, Entries, Holds
<1> QED
  BY <1>1, <1>2 DEF LInv, ChainedToOlder, ForkPerRecorder, InTurn

\* A recorder takes up a link; the ledger is the same.
LEMMA LookKeeps ==
  ASSUME LInv, NEW r \in Recorders, LookUpLatest(r)
  PROVE  LInv'
<1>1. /\ LedgerTypeOK /\ ledger' = ledger /\ ~Holds(r)
      /\ overlapped' = (overlapped \/ \E q \in Recorders : Holds(q))
  BY DEF LInv, LookUpLatest
<1>2. PICK new \in [prev : Nat, index : Nat] :
        /\ held' = [held EXCEPT ![r] = new]
        /\ \/ Entries = {} /\ new = [prev |-> 0, index |-> 1]
           \/ \E e \in LatestEntries : new = [prev |-> e, index |-> Index(e) + 1]
  <2>1. \A e \in LatestEntries : e \in Nat /\ Index(e) \in Nat
    BY <1>1, LedgerShape DEF LatestEntries
  <2>2. CASE Entries = {} /\ held' = [held EXCEPT ![r] = [prev |-> 0, index |-> 1]]
    BY <2>2
  <2>3. ASSUME NEW e \in LatestEntries,
               held' = [held EXCEPT ![r] = [prev |-> e, index |-> Index(e) + 1]]
        PROVE  \E new \in [prev : Nat, index : Nat] :
                 /\ held' = [held EXCEPT ![r] = new]
                 /\ new = [prev |-> e, index |-> Index(e) + 1]
    <3>1. [prev |-> e, index |-> Index(e) + 1] \in [prev : Nat, index : Nat]
      BY <2>1, <2>3
    <3> QED
      BY <2>3, <3>1
  <2> QED
    BY <2>2, <2>3 DEF LookUpLatest, GENESIS_HASH, IndexAfter
<1>3. LedgerTypeOK'
  BY <1>1, <1>2 DEF LedgerTypeOK
<1>4. ChainedToOlder' /\ ForkPerRecorder' /\ Entries' = Entries
  BY <1>1 DEF LInv, ChainedToOlder, ForkPerRecorder, Entries, Index
<1>5. /\ held'[r] = new
      /\ \A q \in Recorders \ {r} : held'[q] = held[q]
  BY <1>1, <1>2 DEF LedgerTypeOK
<1>6. \A e \in Entries : e \in Nat /\ e > 0 /\ e <= Len(ledger) /\ Index(e) \in Nat
  BY <1>1, LedgerShape
<1>7. ASSUME NEW q \in Recorders, Holds(q)' PROVE Chained(q)'
  <2>1. CASE q = r
    <3>1. IF new.prev = 0 THEN new.index = 1
          ELSE new.prev \in Entries /\ new.index = Index(new.prev) + 1
      BY <1>2, <1>6 DEF LatestEntries
    <3>2. \A e \in Entries : Index(e) < new.index
      BY <1>2, <1>6 DEF LatestEntries
    <3> QED
      BY <1>1, <1>5, <2>1, <3>1, <3>2 DEF Chained, GENESIS_HASH, Entries, Index
  <2>2. CASE q # r
    BY <1>1, <1>5, <1>7, <2>2 DEF LInv, Holds, Chained, Entries, Index
  <2> QED
    BY <2>1, <2>2
<1>8. ASSUME ~overlapped' PROVE InTurn'
  <2>1. InTurn /\ \A q \in Recorders : ~Holds(q)
    BY <1>1, <1>8 DEF LInv
  <2>2. \A q \in Recorders : Holds(q)' => q = r
    BY <1>5, <2>1 DEF Holds
  <2>3. \A e \in Entries : Index(e) = e /\ ledger[e].prev = e - 1
    BY <2>1 DEF InTurn
  <2>4. Entries = 1 .. Len(ledger) /\ Len(ledger) \in Nat
    BY <1>1 DEF LedgerTypeOK, Entries
  <2>5. new = [prev |-> Len(ledger), index |-> Len(ledger) + 1]
    <3>1. CASE Entries = {}
      BY <1>2, <2>4, <3>1 DEF LatestEntries
    <3>2. CASE Entries # {}
      <4>1. Len(ledger) \in Entries
        BY <2>4, <3>2
      <4>2. \A e \in LatestEntries : e = Len(ledger)
        BY <2>3, <2>4, <4>1 DEF LatestEntries
      <4> QED
        BY <1>2, <2>3, <3>2, <4>1, <4>2
    <3> QED
      BY <3>1, <3>2
  <2> QED
    BY <1>1, <1>5, <2>2, <2>3, <2>5 DEF InTurn, Entries, Index
<1> QED
  BY <1>3, <1>4, <1>7, <1>8 DEF LInv

\* The ledger after an insertion.
LEMMA Appended ==
  ASSUME LedgerTypeOK, NEW r \in Recorders, InsertEntry(r)
  PROVE  /\ Len(ledger) \in Nat /\ Entries = 1 .. Len(ledger)
         /\ Entries' = Entries \cup {Len(ledger) + 1}
         /\ \A e \in Entries : ledger'[e] = ledger[e]
         /\ ledger'[Len(ledger) + 1] =
              [prev |-> held[r].prev, index |-> held[r].index, by |-> r]
<1>1. /\ ledger \in Seq([prev : Nat, index : Nat, by : Recorders])
      /\ [prev |-> held[r].prev, index |-> held[r].index, by |-> r]
           \in [prev : Nat, index : Nat, by : Recorders]
  BY DEF LedgerTypeOK
<1> QED
  BY <1>1 DEF InsertEntry, Entries

LEMMA InsertEntryKeeps ==
  ASSUME LInv, NEW r \in Recorders, InsertEntry(r)
  PROVE  LInv'
<1> DEFINE n == Len(ledger) + 1
<1>1. LedgerTypeOK /\ Holds(r) /\ overlapped' = overlapped
  BY DEF LInv, InsertEntry
<1>2. /\ n - 1 \in Nat /\ Entries = 1 .. (n - 1) /\ Entries' = Entries \cup {n}
      /\ \A e \in Entries : ledger'[e] = ledger[e]
      /\ ledger'[n] = [prev |-> held[r].prev, index |-> held[r].index, by |-> r]
      /\ Len(ledger') = n
  <2>1. Len(ledger') = n
    BY <1>1 DEF InsertEntry, LedgerTypeOK
  <2> QED
    BY <1>1, <2>1, Appended
<1>3. \A e \in Entries : /\ e \in Nat /\ Index(e) = ledger[e].index /\ e < n
                         /\ ledger[e].index \in Nat /\ ledger[e].prev \in Nat
  BY <1>1, <1>2, LedgerShape
<1>4. /\ held[r].prev \in Nat /\ held[r].index \in Nat
      /\ held'[r] = Nothing
      /\ \A q \in Recorders \ {r} : held'[q] = held[q]
  BY <1>1 DEF LedgerTypeOK, InsertEntry
<1>5. LedgerTypeOK'
  BY <1>1, <1>4 DEF LedgerTypeOK, InsertEntry, Nothing, GENESIS_HASH
<1>6. Chained(r)
  BY <1>1 DEF LInv
<1>7. n \notin Entries /\ n \in Nat
  BY <1>2
<1> HIDE DEF n
<1>8. ChainedToOlder'
  <2>1. ASSUME NEW e \in Entries
        PROVE  IF ledger[e].prev = 0 THEN ledger[e].index = 1
               ELSE /\ ledger[e].prev < e /\ ledger[e].prev \in Entries
                    /\ ledger[e].index = ledger[ledger[e].prev].index + 1
    <3>1. IF ledger[e].prev = 0 THEN ledger[e].index = 1
          ELSE ledger[e].prev < e /\ ledger[e].index = ledger[ledger[e].prev].index + 1
      BY DEF LInv, ChainedToOlder, GENESIS_HASH, Index
    <3> QED
      BY <1>2, <1>3, <3>1
  <2>2. ASSUME NEW e \in Entries
        PROVE  IF ledger'[e].prev = 0 THEN ledger'[e].index = 1
               ELSE /\ ledger'[e].prev < e
                    /\ ledger'[e].index = ledger'[ledger'[e].prev].index + 1
    BY <1>2, <2>1
  <2>3. IF ledger'[n].prev = 0 THEN ledger'[n].index = 1
        ELSE /\ ledger'[n].prev < n
             /\ ledger'[n].index = ledger'[ledger'[n].prev].index + 1
    <3>1. ledger'[n].prev = held[r].prev /\ ledger'[n].index = held[r].index
      BY <1>2
    <3>2. IF held[r].prev = 0 THEN held[r].index = 1
          ELSE held[r].prev \in Entries /\ held[r].index = ledger[held[r].prev].index + 1
      BY <1>6 DEF Chained, GENESIS_HASH, Index
    <3> QED
      BY <1>2, <1>3, <3>1, <3>2
  <2>4. \A e \in Entries' : IF ledger'[e].prev = 0 THEN ledger'[e].index = 1
                            ELSE /\ ledger'[e].prev < e
                                 /\ ledger'[e].index = ledger'[ledger'[e].prev].index + 1
    BY <1>2, <2>2, <2>3
  <2> QED
    BY <2>4 DEF ChainedToOlder, GENESIS_HASH, Index
<1>9. ForkPerRecorder'
  <2>1. \A d, e \in Entries : ledger[d].index = ledger[e].index /\ ledger[d].by = ledger[e].by
                                => d = e
    BY DEF LInv, ForkPerRecorder, Index
  <2>2. \A e \in Entries : ledger[e].by = r => ledger[e].index < held[r].index
    BY <1>6 DEF Chained, Index
  <2>3. ledger'[n].by = r /\ ledger'[n].index = held[r].index
    BY <1>2
  <2>4. \A e \in Entries : ledger'[e].by = r => ledger'[e].index # ledger'[n].index
    BY <1>2, <1>3, <1>4, <2>2, <2>3
  <2>5. \A d, e \in Entries : ledger'[d].index = ledger'[e].index /\ ledger'[d].by = ledger'[e].by
                                => d = e
    BY <1>2, <2>1
  <2>6. \A d, e \in Entries' :
          ledger'[d].index = ledger'[e].index /\ ledger'[d].by = ledger'[e].by => d = e
    BY <1>2, <2>3, <2>4, <2>5
  <2> QED
    BY <2>6 DEF ForkPerRecorder, Index
<1>10. ASSUME NEW q \in Recorders, Holds(q)' PROVE Chained(q)'
  <2>1. q # r /\ held'[q] = held[q] /\ Holds(q)
    BY <1>4, <1>10 DEF Holds
  <2>2. Chained(q)
    BY <2>1 DEF LInv
  <2>3. ledger'[n].by # q
    BY <1>2, <2>1
  <2>4. \A e \in Entries' : ledger'[e].by = q => ledger'[e].index < held[q].index
    BY <1>2, <2>2, <2>3 DEF Chained, Index
  <2>5. IF held[q].prev = 0 THEN held[q].index = 1
        ELSE held[q].prev \in Entries' /\ held[q].index = ledger'[held[q].prev].index + 1
    BY <1>2, <2>2 DEF Chained, GENESIS_HASH, Index
  <2> QED
    BY <2>1, <2>4, <2>5 DEF Chained, GENESIS_HASH, Index
<1>11. ASSUME ~overlapped' PROVE InTurn'
  <2>1. InTurn
    BY <1>1, <1>11 DEF LInv
  <2>2. \A q \in Recorders : ~Holds(q)'
    BY <1>1, <1>4, <2>1 DEF InTurn, Holds
  <2>3. held[r] = [prev |-> n - 1, index |-> n]
    BY <1>1, <1>2, <2>1 DEF InTurn, n
  <2>4. \A e \in Entries' : ledger'[e].index = e /\ ledger'[e].prev = e - 1
    BY <1>2, <2>1, <2>3 DEF InTurn, Index
  <2> QED
    BY <2>2, <2>4 DEF InTurn, Index
<1> QED
  BY <1>5, <1>8, <1>9, <1>10, <1>11 DEF LInv

LEMMA LoseKeeps ==
  ASSUME LInv, NEW r \in Recorders, LoseEntry(r)
  PROVE  LInv'
<1>1. LedgerTypeOK /\ ledger' = ledger /\ overlapped' = overlapped
  BY DEF LInv, LoseEntry
<1>2. LedgerTypeOK'
  BY <1>1 DEF LoseEntry, LedgerTypeOK, Nothing, GENESIS_HASH
<1>3. \A q \in Recorders : Holds(q)' => Holds(q) /\ held'[q] = held[q]
  BY <1>1 DEF LoseEntry, LedgerTypeOK, Holds
<1>4. \A q \in Recorders : Holds(q)' => Chained(q)'
  BY <1>1, <1>3 DEF LInv, Chained, Entries, Index
<1>5. ~overlapped' => InTurn'
  BY <1>1, <1>3 DEF LInv, InTurn, Entries, Index
<1> QED
  BY <1>1, <1>2, <1>4, <1>5 DEF LInv, ChainedToOlder, ForkPerRecorder, Entries, Index

LEMMA LedgerInductive == LInv /\ [LedgerNext]_ledgerVars => LInv'
<1>1. LInv /\ UNCHANGED ledgerVars => LInv'
  BY DEF ledgerVars, LInv, LedgerTypeOK, ChainedToOlder, ForkPerRecorder, Chained, InTurn, Holds,
         Entries, Index
<1> QED
  BY <1>1, LookKeeps, InsertEntryKeeps, LoseKeeps DEF LedgerNext

LEMMA AlwaysLInv == LedgerSpec => []LInv
BY LedgerInitially, LedgerInductive, PTL DEF LedgerSpec

\* Every reachable state of the ledger has its type.
THEOREM LedgerTypeCorrect == LedgerSpec => []LedgerTypeOK
<1>1. LInv => LedgerTypeOK
  BY DEF LInv
<1> QED
  BY <1>1, AlwaysLInv, PTL

\* record_chained_event leaves no gap and no loose end, whoever records meanwhile.
THEOREM AlwaysChained == LedgerSpec => []ChainedToOlder
<1>1. LInv => ChainedToOlder
  BY DEF LInv
<1> QED
  BY <1>1, AlwaysLInv, PTL

\* No recorder gives two of its entries one index: a fork is no wider than the recorders.
THEOREM ForksAlwaysPerRecorder == LedgerSpec => []ForkPerRecorder
<1>1. LInv => ForkPerRecorder
  BY DEF LInv
<1> QED
  BY <1>1, AlwaysLInv, PTL

\* Events recorded in turn make one chain, and verify_audit_integrity confirms it, however many
\* recorders and entries there are.
THEOREM InTurnAlwaysVerifies == LedgerSpec => []RecordedInTurnVerifies
<1>1. ASSUME LInv PROVE RecordedInTurnVerifies
  <2> SUFFICES ASSUME ~overlapped PROVE Verified
    BY DEF RecordedInTurnVerifies
  <2>1. \A e \in Entries : Index(e) = e /\ ledger[e].prev = e - 1
    BY <1>1 DEF LInv, InTurn
  <2>2. Len(ledger) \in Nat /\ Entries = 1 .. Len(ledger)
    BY <1>1 DEF LInv, LedgerTypeOK, Entries
  <2>3. ASSUME NEW e \in Entries, MayComeFirst(e) PROVE ledger[e].prev = GENESIS_HASH
    <3>1. 1 \in Entries
      BY <2>2
    <3>2. e = 1
      BY <2>1, <2>2, <2>3, <3>1 DEF MayComeFirst
    <3> QED
      BY <2>1, <3>1, <3>2 DEF GENESIS_HASH
  <2>4. ASSUME NEW e \in Entries, NEW d \in Entries, MayComeBefore(d, e) PROVE ledger[e].prev = d
    <3>1. d < e
      BY <2>1, <2>2, <2>4 DEF MayComeBefore
    <3>2. d + 1 \in Entries
      BY <2>2, <3>1
    <3>3. ~(d < d + 1 /\ d + 1 < e)
      BY <2>1, <2>4, <3>2 DEF MayComeBefore
    <3> QED
      BY <2>1, <2>2, <3>1, <3>3
  <2> QED
    BY <2>3, <2>4 DEF Verified
<1> QED
  BY <1>1, AlwaysLInv, PTL

\* Nothing fits between an entry and those that may come before it but what is there already.
LEMMA NoRoomBetween ==
  ASSUME LInv, NEW d \in Entries, NEW e \in Entries, MayComeBefore(d, e)
  PROVE  Index(e) <= Index(d) + 1
<1>1. \A c \in Entries : Index(c) \in Nat
  BY LedgerShape DEF LInv
<1>2. ASSUME Index(e) > Index(d) + 1 PROVE FALSE
  <2>1. ledger[e].prev # 0
    BY <1>1, <1>2 DEF LInv, ChainedToOlder, GENESIS_HASH
  <2>2. ledger[e].prev < e /\ Index(e) = Index(ledger[e].prev) + 1
    BY <2>1 DEF LInv, ChainedToOlder, GENESIS_HASH
  <2>3. ledger[e].prev \in Entries
    BY <2>1, <2>2, LedgerShape DEF LInv
  <2>4. Index(d) < Index(ledger[e].prev) /\ Index(ledger[e].prev) < Index(e)
    BY <1>1, <1>2, <2>2, <2>3
  <2> QED
    BY <2>3, <2>4 DEF MayComeBefore
<1> QED
  BY <1>1, <1>2

LEMMA BreakKept ==
  ASSUME LInv, NEW r \in Recorders, InsertEntry(r), ~Verified
  PROVE  ~Verified'
<1>1. /\ Entries \subseteq Entries'
      /\ \A e \in Entries : ledger'[e] = ledger[e] /\ Index(e) = ledger[e].index
      /\ \A e \in Entries : ledger[e].index \in Nat
      /\ \A c \in Entries' : ledger'[c].index \in Nat
  <2>1. LInv'
    BY InsertEntryKeeps
  <2>2. ledger' \in Seq(EntryRecords)
    BY <2>1 DEF LInv, LedgerTypeOK, EntryRecords
  <2>3. \A c \in Entries' : ledger'[c] \in EntryRecords
    BY <2>2 DEF Entries
  <2> QED
    BY <2>3, Appended, LedgerShape DEF LInv, EntryRecords
<1>2. PICK e \in Entries :
        \/ MayComeFirst(e) /\ ledger[e].prev # GENESIS_HASH
        \/ \E d \in Entries : MayComeBefore(d, e) /\ ledger[e].prev # d
  BY DEF Verified
<1>3. ~(MayComeFirst(e) /\ ledger[e].prev # GENESIS_HASH)
  <2> SUFFICES ASSUME MayComeFirst(e), ledger[e].prev # 0 PROVE FALSE
    BY DEF GENESIS_HASH
  <2>1. ledger[e].prev < e /\ Index(e) = Index(ledger[e].prev) + 1
    BY DEF LInv, ChainedToOlder, GENESIS_HASH
  <2>2. ledger[e].prev \in Entries
    BY <2>1, LedgerShape DEF LInv
  <2> QED
    BY <1>1, <2>1, <2>2 DEF MayComeFirst
<1>4. PICK d \in Entries : MayComeBefore(d, e) /\ ledger[e].prev # d
  BY <1>2, <1>3
<1>5. ledger[e].index <= ledger[d].index + 1
  BY <1>1, <1>4, NoRoomBetween
<1>6. /\ d # e /\ ledger'[d].index <= ledger'[e].index
      /\ ~\E c \in Entries' : ledger'[d].index < ledger'[c].index
                              /\ ledger'[c].index < ledger'[e].index
  BY <1>1, <1>4, <1>5 DEF MayComeBefore
<1>7. MayComeBefore(d, e)' /\ ledger'[e].prev # d /\ d \in Entries' /\ e \in Entries'
  BY <1>1, <1>4, <1>6 DEF MayComeBefore, Index
<1> QED
  BY <1>7 DEF Verified

\* A fork is not mended by what is recorded later: once verify_audit_integrity calls the chain
\* broken, it does so for ever.
THEOREM BreakIsForGood == LedgerSpec => [][~Verified => ~Verified']_ledgerVars
<1>1. LInv /\ [LedgerNext]_ledgerVars => [~Verified => ~Verified']_ledgerVars
  <2> SUFFICES ASSUME LInv, LedgerNext, ~Verified PROVE ~Verified'
    OBVIOUS
  <2>1. CASE ledger' = ledger
    BY <2>1 DEF Verified, MayComeFirst, MayComeBefore, Entries, Index
  <2>2. CASE \E r \in Recorders : InsertEntry(r)
    BY <2>2, BreakKept
  <2> QED
    BY <2>1, <2>2 DEF LedgerNext, LookUpLatest, LoseEntry
<1> QED
  BY <1>1, AlwaysLInv, PTL DEF LedgerSpec
=============================================================================
