-------------------------- MODULE CustodianConsensus --------------------------
(***************************************************************************)
(* The multi-custodian proposals of services/custodian_consensus_service   *)
(* (M-of-N signatures, timelock, owner veto), behind the governance API.   *)
(*                                                                         *)
(* The service is synchronous Python on a dictionary in the memory of the  *)
(* API process: each call is one step, and a restart forgets everything.   *)
(* A call that raises changes nothing and is left out; total_custodians is *)
(* stored and never read, so it is left out too.                           *)
(***************************************************************************)
EXTENDS Integers, FiniteSets

CONSTANTS
  Proposals,       \* the proposal ids ever drawn
  Custodians,      \* the custodian ids anybody signs under
  Thresholds, Timelocks,    \* what a client may ask for
  MaxTime,         \* bound: the clock
  MaxRestarts      \* bound: restarts of the API process

ASSUME ConsensusAssumption ==
  /\ Thresholds \subseteq Nat \ {0} /\ Timelocks \subseteq Nat
  /\ MaxTime \in Nat /\ MaxRestarts \in Nat
  /\ IsFiniteSet(Custodians)

VARIABLES
  state,        \* [Proposals -> ProposalState], "NONE" before creation, "LOST" after a restart
  signatures,   \* the custodian_ids that signed
  signedAt,     \* signed_at of the last signature
  expiresAt,    \* timelock_expires_at
  threshold, timelock,
  clock, restarts

vars == <<state, signatures, signedAt, expiresAt, threshold, timelock, clock, restarts>>
rules == <<threshold, timelock>>

ProposalState ==
  {"COLLECTING_SIGNATURES", "TIMELOCK_RUNNING", "EXECUTABLE", "EXECUTED", "VETOED_BY_OWNER"}

Init ==
  /\ state = [p \in Proposals |-> "NONE"]
  /\ signatures = [p \in Proposals |-> {}]
  /\ signedAt = [p \in Proposals |-> 0]
  /\ expiresAt = [p \in Proposals |-> 0]
  /\ threshold = [p \in Proposals |-> 1]
  /\ timelock = [p \in Proposals |-> 0]
  /\ clock = 0
  /\ restarts = 0

CreateProposal(p, m, t) ==
  /\ state[p] = "NONE"
  /\ state' = [state EXCEPT ![p] = "COLLECTING_SIGNATURES"]
  /\ threshold' = [threshold EXCEPT ![p] = m]
  /\ timelock' = [timelock EXCEPT ![p] = t]
  /\ UNCHANGED <<signatures, signedAt, expiresAt, clock, restarts>>

\* Are these signers enough?  First with the comparison off by one, then as it is.
ThresholdExceeded(p, signers) == Cardinality(signers) > threshold[p]
ThresholdMet(p, signers) == Cardinality(signers) >= threshold[p]

\* timelock_expires_at.
Deadline(p) == clock + timelock[p]

StateAfter(p, signers) ==
  IF ~ThresholdMet(p, signers) THEN state[p]
  ELSE IF timelock[p] > 0 THEN "TIMELOCK_RUNNING" ELSE "EXECUTABLE"

\* Any custodian_id will do, but each only once.
SignProposal(p, c) ==
  /\ state[p] = "COLLECTING_SIGNATURES"
  /\ c \notin signatures[p]
  /\ LET signers == signatures[p] \cup {c}
     IN  /\ signatures' = [signatures EXCEPT ![p] = signers]
         /\ state' = [state EXCEPT ![p] = StateAfter(p, signers)]
         /\ expiresAt' = [expiresAt EXCEPT ![p] =
                            IF StateAfter(p, signers) = "TIMELOCK_RUNNING" THEN Deadline(p) ELSE @]
  /\ signedAt' = [signedAt EXCEPT ![p] = clock]
  /\ UNCHANGED <<rules, clock, restarts>>

\* execute_proposal's checks, one with the deadline's comparison turned round.
MayExecuteEarly(p) ==
  state[p] = "EXECUTABLE" \/ (state[p] = "TIMELOCK_RUNNING" /\ expiresAt[p] >= clock)
MayExecute(p) ==
  state[p] = "EXECUTABLE" \/ (state[p] = "TIMELOCK_RUNNING" /\ clock >= expiresAt[p])

ExecuteProposal(p) ==
  /\ MayExecute(p)
  /\ state' = [state EXCEPT ![p] = "EXECUTED"]
  /\ UNCHANGED <<signatures, signedAt, expiresAt, rules, clock, restarts>>

\* A veto is refused for nothing but execution.
Vetoable(p) == state[p] \in ProposalState \ {"EXECUTED"}

OwnerVetoProposal(p) ==
  /\ Vetoable(p)
  /\ state' = [state EXCEPT ![p] = "VETOED_BY_OWNER"]
  /\ UNCHANGED <<signatures, signedAt, expiresAt, rules, clock, restarts>>

Tick ==
  /\ clock < MaxTime
  /\ clock' = clock + 1
  /\ UNCHANGED <<state, signatures, signedAt, expiresAt, rules, restarts>>

\* The API process restarts with an empty dictionary.  What was executed stays executed:
\* the effect of a proposal is outside the service.
Restart ==
  /\ restarts < MaxRestarts
  /\ restarts' = restarts + 1
  /\ state' = [p \in Proposals |-> IF state[p] \in {"NONE", "EXECUTED"} THEN state[p] ELSE "LOST"]
  /\ UNCHANGED <<signatures, signedAt, expiresAt, rules, clock>>

Next ==
  \/ \E p \in Proposals :
       \/ \E m \in Thresholds, t \in Timelocks : CreateProposal(p, m, t)
       \/ \E c \in Custodians : SignProposal(p, c)
       \/ ExecuteProposal(p)
       \/ OwnerVetoProposal(p)
  \/ Tick
  \/ Restart

Spec == Init /\ [][Next]_vars

-----------------------------------------------------------------------------
(* Properties                                                              *)

\* The proposals keep their shape.
TypeOK ==
  /\ state \in [Proposals -> ProposalState \cup {"NONE", "LOST"}]
  /\ signatures \in [Proposals -> SUBSET Custodians]
  /\ signedAt \in [Proposals -> Nat] /\ expiresAt \in [Proposals -> Nat]
  /\ threshold \in [Proposals -> Nat] /\ timelock \in [Proposals -> Nat]
  /\ clock \in Nat /\ restarts \in Nat

\* A proposal still collecting signatures is short of its threshold: the state and the list
\* of signatures never disagree, so no signature is asked for in vain.
CollectingIsShort ==
  \A p \in Proposals :
    state[p] = "COLLECTING_SIGNATURES" => Cardinality(signatures[p]) < threshold[p]

\* The detailed states implement the promise: a proposal is open until it is executed,
\* vetoed or lost.
Outcome(p) ==
  IF state[p] = "EXECUTED" THEN "executed"
  ELSE IF state[p] \in {"VETOED_BY_OWNER", "LOST"} THEN "void" ELSE "open"

Promise == INSTANCE GovernancePromise
             WITH outcome <- [p \in Proposals |-> Outcome(p)], approvals <- signatures,
                  approvedAt <- signedAt, delay <- timelock, now <- clock

ImplementsPromise == Promise!Init /\ [][Promise!Next]_Promise!vars
=============================================================================
