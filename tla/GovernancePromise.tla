-------------------------- MODULE GovernancePromise --------------------------
(***************************************************************************)
(* What the governance API promises of a proposal, whatever its states are *)
(* called: it is executed only after as many different custodians as it    *)
(* asks for have approved it and its whole delay has run since the last    *)
(* approval; the owner can nullify it until then, and nothing brings it    *)
(* back.                                                                   *)
(***************************************************************************)
EXTENDS Naturals, FiniteSets

CONSTANTS Proposals, Custodians

VARIABLES
  outcome,      \* "open", "executed" or "void"
  approvals,    \* the custodians who approved each proposal
  approvedAt,   \* when the last of them did
  threshold, delay,
  now

vars == <<outcome, approvals, approvedAt, threshold, delay, now>>
rules == <<threshold, delay>>

Init ==
  /\ outcome = [p \in Proposals |-> "open"]
  /\ approvals = [p \in Proposals |-> {}]
  /\ approvedAt = [p \in Proposals |-> 0]
  /\ threshold \in [Proposals -> Nat]
  /\ delay \in [Proposals -> Nat]
  /\ now = 0

\* The rules of a proposal are set before anybody approves it.
Propose(p) ==
  /\ outcome[p] = "open" /\ approvals[p] = {}
  /\ threshold' \in [Proposals -> Nat] /\ delay' \in [Proposals -> Nat]
  /\ \A q \in Proposals \ {p} : threshold'[q] = threshold[q] /\ delay'[q] = delay[q]
  /\ UNCHANGED <<outcome, approvals, approvedAt, now>>

Approve(p, c) ==
  /\ outcome[p] = "open"
  /\ approvals' = [approvals EXCEPT ![p] = @ \cup {c}]
  /\ approvedAt' = [approvedAt EXCEPT ![p] = now]
  /\ UNCHANGED <<outcome, rules, now>>

Execute(p) ==
  /\ outcome[p] = "open"
  /\ Cardinality(approvals[p]) >= threshold[p]
  /\ now >= approvedAt[p] + delay[p]
  /\ outcome' = [outcome EXCEPT ![p] = "executed"]
  /\ UNCHANGED <<approvals, approvedAt, rules, now>>

Nullify(P) ==
  /\ outcome' = [p \in Proposals |-> IF p \in P /\ outcome[p] = "open" THEN "void" ELSE outcome[p]]
  /\ UNCHANGED <<approvals, approvedAt, rules, now>>

Pass == now' = now + 1 /\ UNCHANGED <<outcome, approvals, approvedAt, rules>>

Next ==
  \/ \E p \in Proposals : Propose(p) \/ Execute(p) \/ \E c \in Custodians : Approve(p, c)
  \/ \E P \in SUBSET Proposals : Nullify(P)
  \/ Pass

Spec == Init /\ [][Next]_vars
=============================================================================
