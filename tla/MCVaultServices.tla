--------------------------- MODULE MCVaultServices ---------------------------
(***************************************************************************)
(* Instances for TLC of four services of the owner's vault: custodian      *)
(* consensus, social recovery, the assets and the audit ledger.  They      *)
(* share no state, so that one of them takes all the steps of a behaviour  *)
(* and the others rest.                                                    *)
(***************************************************************************)
EXTENDS CustodianConsensus, SocialRecovery, AssetStore, AuditLedger, TLC

VARIABLE active     \* the service that takes the steps

Services == {"consensus", "recovery", "assets", "ledger"}

ServicesInit == active \in Services /\ Init /\ RecoveryInit /\ StoreInit /\ LedgerInit

ConsensusStep ==
  active = "consensus" /\ Next /\ UNCHANGED <<recoveryVars, storeVars, ledgerVars>>
RecoveryStep ==
  active = "recovery" /\ RecoveryNext /\ UNCHANGED <<vars, storeVars, ledgerVars>>
StoreStep ==
  active = "assets" /\ StoreNext /\ UNCHANGED <<vars, recoveryVars, ledgerVars>>
LedgerStep ==
  active = "ledger" /\ LedgerNext /\ UNCHANGED <<vars, recoveryVars, storeVars>>

ServicesNext ==
  (ConsensusStep \/ RecoveryStep \/ StoreStep \/ LedgerStep) /\ UNCHANGED active

ServicesSpec ==
  ServicesInit /\ [][ServicesNext]_<<active, vars, recoveryVars, storeVars, ledgerVars>>

\* The requests of the assets are interchangeable, and so are the calls of the recovery.
RequestSymmetry == Permutations(Handlers) \cup Permutations(Callers)
==============================================================================
