------------------------------ MODULE MCBilling ------------------------------
(* Instances of Billing for TLC.                                           *)
EXTENDS Billing

\* The plans differ, so that a plan shows which request it was bought by.
ProThenPremium == [r \in Requests |-> IF r = 1 THEN "pro" ELSE "premium"]
=============================================================================
