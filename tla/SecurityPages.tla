---------------------------- MODULE SecurityPages ----------------------------
(* The owner's security, recovery, notification, system and sovereignty pages.    *)
EXTENDS PageLanguage

-----------------------------------------------------------------------------
(* app/dashboard/system/page.tsx                                           *)

\* Jobs of the durable queue, as TaskQueue.tla runs them: PENDING and PROCESSING are QUEUED.
JobStatus == {"QUEUED", "COMPLETED", "DEAD_LETTER"}
SystemFetchStatus == [Load EXCEPT !.flag = "loading"]
SystemRetryJob ==
  [Post EXCEPT !.on = "row", !.flag = "record", !.from = {"DEAD_LETTER"}, !.to = "QUEUED",
               !.then = {"list"},
               !.awaits = TRUE]
SystemTriggerSweep ==
  [Post EXCEPT !.on = "new", !.flag = "dispatch", !.from = {Absent}, !.to = "QUEUED",
               !.then = {"list"},
               !.awaits = TRUE, !.shuts = {"dispatch"}]
SystemJobs == Offers({Button("retry", {"record"}, {"DEAD_LETTER"})})
SystemHeader == Join({Offers({Unless("list", "loading")}), Leads({Move("dispatch")})})
SystemFilter == Offers({Always("list")})
SystemDispatchModal == Join({Offers({Unless("trigger", "dispatch")}), Leads({Move("main")})})
System ==
  [Page EXCEPT !.states = JobStatus, !.begin = {Absent, "QUEUED", "DEAD_LETTER"},
    !.mount = {"list"},
    !.polls = {"list"}, !.shared = Recs \cup {"dispatch"},
    !.others = {<<"QUEUED", "COMPLETED">>, <<"QUEUED", "DEAD_LETTER">>},
    !.panels = "main" :> Join({SystemHeader, SystemFilter, SystemJobs})
      @@ "dispatch" :> SystemDispatchModal,
    !.handlers = "list" :> SystemFetchStatus @@ "retry" :> SystemRetryJob
      @@ "trigger" :> SystemTriggerSweep]

-----------------------------------------------------------------------------
(* app/dashboard/security/soc/page.tsx                                     *)

\* The threats, as one record: the server lists them while ACTIVE.
SocFetch == [Load EXCEPT !.flag = "isLoading"]
SocVerifyIntegrity == [Ask EXCEPT !.flag = "isLoading", !.refused = "none", !.lost = "none"]
SocContainment ==
  [Post EXCEPT !.on = "a", !.flag = "isLoading", !.from = {"ACTIVE"}, !.to = "MITIGATED",
               !.keeps = {Absent},
               !.patch = "current", !.refused = "current", !.lost = "none", !.shuts = {"contain"}]
SocHeader == Join({Offers({Unless("verify", "isLoading")}), Leads({Move("contain")})})
SocThreats == Leads({Open("contain", {"ACTIVE"})})
SocContainmentModal == Join({Offers({Unless("contain", "isLoading")}), Leads({Move("main")})})
Soc ==
  [Page EXCEPT !.recs = {"a"}, !.states = {"ACTIVE", "MITIGATED"}, !.begin = {Absent, "ACTIVE"},
    !.demo = Shown("ACTIVE"), !.mount = {"list"},
    !.others = {<<Absent, "ACTIVE">>, <<"MITIGATED", Absent>>},
    !.panels = "main" :> Join({SocHeader, SocThreats}) @@ "contain" :> SocContainmentModal,
    !.handlers = "list" :> SocFetch @@ "verify" :> SocVerifyIntegrity
      @@ "contain" :> SocContainment]

-----------------------------------------------------------------------------
(* app/dashboard/security/page.tsx                                         *)

\* Record a: two-factor authentication; b: another session.  The page sends nothing.
CenterTerminate == [Local EXCEPT !.on = "b", !.to = Absent, !.shuts = {"revoke", "revokeOthers"}]
CenterVerifyTotp == [Local EXCEPT !.on = "a", !.to = "on", !.then = {"close"}]
CenterCloseTotp == [Timer EXCEPT !.shuts = {"totp"}]
CenterDisableTotp == [Local EXCEPT !.on = "a", !.to = "off"]
CenterSessions == Leads({Open("revoke", {"signedIn"})})
CenterSessionsTab == Leads({Move("revokeOthers")})
CenterMfaTab ==
  Join({Offers({Button("disable", {}, {"on"})}), Leads({Open("totp", {"off"}), Move("codes")})})
CenterRevokeDialog == Join({Offers({Always("terminate")}), Leads({Move("main")})})
CenterTotpModal == Join({Offers({Always("verify")}), Leads({Move("main")})})
CenterCodesModal == Leads({Move("main")})
SecurityCenter ==
  [Page EXCEPT !.states = {"on", "off", "signedIn"}, !.demo = "a" :> "off" @@ "b" :> "signedIn",
    !.panels = "main" :> Join({CenterSessions, CenterSessionsTab, CenterMfaTab})
            @@ "revoke" :> CenterRevokeDialog @@ "revokeOthers" :> CenterRevokeDialog
            @@ "totp" :> CenterTotpModal @@ "codes" :> CenterCodesModal,
    !.handlers = "terminate" :> CenterTerminate @@ "verify" :> CenterVerifyTotp
              @@ "close" :> CenterCloseTotp @@ "disable" :> CenterDisableTotp]

-----------------------------------------------------------------------------
(* app/dashboard/security/recovery/page.tsx                                *)

\* The case of SocialRecovery.tla, as a demonstration: the page sends nothing.
RecoveryAbort == [Local EXCEPT !.on = "a", !.to = "CANCELLED_BY_OWNER", !.shuts = {"abort"}]
RecoverySubmitShard == [Timer EXCEPT !.shuts = {"shard"}]
RecoveryDismiss == [Local EXCEPT !.on = "a", !.to = Absent]
RecoveryCase == Leads({Open(p, {"TIMELOCK_PENDING"}) : p \in {"shard", "abort"}})
RecoverySetupModal == Leads({Move("main")})
RecoveryShardModal == Join({Offers({Always("shard")}), Leads({Move("main")})})
RecoveryAbortModal == Join({Offers({Always("abort")}), Leads({Move("main")})})
Recovery ==
  [Page EXCEPT !.recs = {"a"}, !.states = {"TIMELOCK_PENDING", "CANCELLED_BY_OWNER"},
    !.demo = Shown("TIMELOCK_PENDING"),
    !.panels = "main" :> Join({RecoveryCase, Leads({Move("setup")}),
                               Offers({Button("dismiss", {}, {"CANCELLED_BY_OWNER"})})})
            @@ "setup" :> RecoverySetupModal @@ "shard" :> RecoveryShardModal
              @@ "abort" :> RecoveryAbortModal,
    !.handlers = "shard" :> RecoverySubmitShard @@ "abort" :> RecoveryAbort
      @@ "dismiss" :> RecoveryDismiss]

-----------------------------------------------------------------------------
(* app/dashboard/security/zerotrust/page.tsx                               *)

GrantStatus == {"PENDING_APPROVAL", "ACTIVE_ELEVATED", "REVOKED"}
GrantApprove == [Local EXCEPT !.on = "row", !.to = "ACTIVE_ELEVATED"]
GrantRevoke == [Local EXCEPT !.on = "row", !.to = "REVOKED"]
GrantCreate ==
  [Timer EXCEPT !.on = "new", !.flag = "isSubmitting", !.to = "PENDING_APPROVAL",
               !.patch = "captured",
                !.shuts = {"request"}]
GrantButtons ==
  Offers({Button("approve", {}, {"PENDING_APPROVAL"}), Button("revoke", {}, {"ACTIVE_ELEVATED"})})
GrantRequestModal == Join({Offers({Unless("create", "isSubmitting")}), Leads({Move("main")})})
ZeroTrust ==
  [Page EXCEPT !.states = GrantStatus, !.demo = "a" :> "ACTIVE_ELEVATED" @@ "b" :> Absent,
    !.panels = "main" :> Join({GrantButtons, Leads({Move("request")})})
      @@ "request" :> GrantRequestModal,
    !.handlers = "approve" :> GrantApprove @@ "revoke" :> GrantRevoke @@ "create" :> GrantCreate]

-----------------------------------------------------------------------------
(* app/dashboard/governance/page.tsx                                       *)

\* The proposals of CustodianConsensus.tla, one signature short of the threshold, as a
\* demonstration: the page sends nothing.
ProposalState == {"COLLECTING_SIGNATURES", "EXECUTABLE", "EXECUTED", "VETOED_BY_OWNER"}
ProposalSign ==
  [Timer EXCEPT !.on = "row", !.flag = "isSigning", !.to = "EXECUTABLE", !.patch = "current"]
ProposalExecute == [Local EXCEPT !.on = "row", !.to = "EXECUTED"]
ProposalVeto == [Local EXCEPT !.on = "row", !.to = "VETOED_BY_OWNER"]
ProposalButtons ==
  Offers({Button("sign", {"isSigning"}, {"COLLECTING_SIGNATURES"}),
          Button("execute", {}, {"EXECUTABLE"}),
          Button("veto", {}, {"COLLECTING_SIGNATURES", "EXECUTABLE"})})
GovernanceAirgapModal == Leads({Move("main")})
Governance ==
  [Page EXCEPT !.states = ProposalState, !.demo = Shown("COLLECTING_SIGNATURES"),
    !.panels = "main" :> Join({ProposalButtons, Leads({Move("airgap")})})
      @@ "airgap" :> GovernanceAirgapModal,
    !.handlers = "sign" :> ProposalSign @@ "execute" :> ProposalExecute @@ "veto" :> ProposalVeto]

-----------------------------------------------------------------------------
(* app/dashboard/notifications/page.tsx                                    *)

NotificationsTestDispatch == [Local EXCEPT !.on = "new", !.to = "DELIVERED", !.then = {"close"}]
NotificationsCloseTest == [Timer EXCEPT !.shuts = {"test"}]
NotificationsHeader == Leads({Move("test")})
NotificationsTestModal == Join({Offers({Always("dispatch")}), Leads({Move("main")})})
Notifications ==
  [Page EXCEPT !.states = {"DELIVERED"},
    !.panels = "main" :> NotificationsHeader @@ "test" :> NotificationsTestModal,
    !.handlers = "dispatch" :> NotificationsTestDispatch @@ "close" :> NotificationsCloseTest]

-----------------------------------------------------------------------------
(* app/dashboard/page.tsx                                                  *)

OverviewFetch == [Load EXCEPT !.refused = "answer"]
Overview ==
  [Page EXCEPT !.states = {"kept"}, !.begin = {Absent, "kept"}, !.mount = {"list"},
    !.others = {<<Absent, "kept">>, <<"kept", Absent>>}, !.panels = "main" :> Part,
    !.handlers = "list" :> OverviewFetch]

-----------------------------------------------------------------------------
(* app/dashboard/system/dr/page.tsx                                        *)

\* One record: whether writes are frozen, which the drill's timers and the button both set.
DrillStart == [Local EXCEPT !.on = "a", !.to = "frozen", !.then = {"drain"}]
DrillStage(next) ==
  [Timer EXCEPT !.flag = IF next = "promote" THEN "isDrillRunning" ELSE None,
                !.patch = IF next = "stand by" THEN "current" ELSE "none", !.to = "open",
                !.then = {next} \ {None}, !.awaits = TRUE]
DrillFreeze(s) == [Local EXCEPT !.on = "a", !.to = s]
DrillButton == Offers({Unless("start", "isDrillRunning")})
DisasterRecovery ==
  [Page EXCEPT !.recs = {"a"}, !.states = {"open", "frozen"}, !.demo = Shown("open"),
    !.panels = "main" :> Join({DrillButton, Offers({Button("freeze", {}, {"open"}),
                                                    Button("release", {}, {"frozen"})})}),
    !.handlers = "start" :> DrillStart @@ "drain" :> DrillStage("promote")
      @@ "promote" :> DrillStage("stand by") @@ "stand by" :> DrillStage("restore")
      @@ "restore" :> DrillStage(None)
      @@ "freeze" :> DrillFreeze("frozen") @@ "release" :> DrillFreeze("open")]

-----------------------------------------------------------------------------
(* app/dashboard/settings/privacy/page.tsx                                 *)

\* One record: the estate, under a legal hold or not.
PrivacyExport == [Timer EXCEPT !.flag = "isGeneratingExport"]
PrivacySaveConsent == [Timer EXCEPT !.flag = "consentSaved"]
PrivacyErase == [Timer EXCEPT !.flag = "erasureExecuting", !.then = {"erased"}]
PrivacyErased == [Timer EXCEPT !.flag = "erasureCompleted", !.shuts = {"erase"}]
PrivacyHold(s) == [Local EXCEPT !.on = "a", !.to = s]
PrivacyExportButton == Offers({Unless("export", "isGeneratingExport")})
PrivacyConsent == Offers({Always("consent")})
PrivacyDangerZone == Leads({Open("erase", {"clear"})})
PrivacyErasureModal == Join({Offers({Unless("erase", "erasureExecuting")}), Leads({Move("main")})})
Privacy ==
  [Page EXCEPT !.recs = {"a"}, !.states = {"clear", "held"}, !.demo = Shown("clear"),
    !.panels = "main" :> Join({PrivacyExportButton, PrivacyConsent, PrivacyDangerZone,
                               Offers({Button("hold", {}, {"clear"}),
                                       Button("unhold", {}, {"held"})})})
            @@ "erase" :> PrivacyErasureModal,
    !.handlers = "export" :> PrivacyExport @@ "consent" :> PrivacySaveConsent
      @@ "erase" :> PrivacyErase @@ "erased" :> PrivacyErased
      @@ "hold" :> PrivacyHold("held") @@ "unhold" :> PrivacyHold("clear")]

-----------------------------------------------------------------------------
(* app/dashboard/security/enclave/page.tsx                                 *)

\* The pages that only simulate, with timeouts.
Simulator(handlers, panel) ==
  [Page EXCEPT !.recs = {}, !.panels = "main" :> panel, !.handlers = handlers]
EnclaveExecute == [Timer EXCEPT !.flag = "isExecuting"]
EnclaveZkProof == [Timer EXCEPT !.flag = "isGeneratingZk"]
EnclaveForm == Offers({Unless("execute", "isExecuting")})
EnclaveProofButton == Offers({Unless("prove", "isGeneratingZk")})
Enclave ==
  Simulator("execute" :> EnclaveExecute @@ "prove" :> EnclaveZkProof,
            Join({EnclaveForm, EnclaveProofButton}))

-----------------------------------------------------------------------------
(* app/dashboard/security/quantum/page.tsx                                 *)

QuantumEncapsulate == [Timer EXCEPT !.flag = "isEncapsulating"]
QuantumSignDeed == [Timer EXCEPT !.flag = "isSigning"]
Quantum ==
  Simulator("encapsulate" :> QuantumEncapsulate @@ "sign" :> QuantumSignDeed,
            Offers({Unless("encapsulate", "isEncapsulating"), Unless("sign", "isSigning")}))

-----------------------------------------------------------------------------
(* app/dashboard/compliance/solvency/page.tsx                              *)

SolvencyExport == [Timer EXCEPT !.flag = "isExporting"]
Solvency == Simulator("export" :> SolvencyExport, Offers({Unless("export", "isExporting")}))
=============================================================================
