--------------------------- MODULE MCClaimWorkflow ---------------------------
(* Instances of ClaimWorkflow for TLC.                                     *)
EXTENDS ClaimWorkflow, TLC

\* Handlers are interchangeable; the safety runs use it.
HandlerSymmetry == Permutations(Handlers)
=============================================================================
