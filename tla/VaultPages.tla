----------------------------- MODULE VaultPages -----------------------------
(* The pages of the owner's vault: assets, nominees, claims, policies, settings.  *)
EXTENDS PageLanguage

-----------------------------------------------------------------------------
(* app/dashboard/assets/explorer/page.tsx                                  *)

Version == {"v1", "v2"}
ExplorerFetchVaultData == [Load EXCEPT !.flag = "loading"]
ExplorerDecryptSecret == [Fetch("secret") EXCEPT !.flag = "decrypting"]
ExplorerLoadVersions == [Fetch("versions") EXCEPT !.flag = "loadingVersions"]
ExplorerLoadAccessLogs == [Fetch("logs") EXCEPT !.flag = "loadingLogs"]
ExplorerExecuteRollback ==
  [Post EXCEPT !.flag = "rollingBack", !.from = Version, !.to = "v2",
               !.then = {"list", "versions"},
               !.shuts = {"rollback"}, !.goto = "versions"]
ExplorerSaveNewAsset ==
  [Post EXCEPT !.on = "new", !.flag = "savingAsset", !.from = {Absent}, !.to = "v1",
               !.then = {"list"},
               !.shuts = {"create"}]
ExplorerDeleteAsset ==
  [Post EXCEPT !.flag = "deleting", !.from = Version, !.to = Absent, !.then = {"list"},
               !.shuts = {"delete"}, !.own = {"drawer", "versions", "audit"}]
ExplorerHeader == Leads({Move("create")})
ExplorerFilters == Offers({Always("list")})
ExplorerOpenAssetDrawer ==
  [Open("drawer", Version) EXCEPT !.empties = {"secret"}, !.fills = {"active"}]
ExplorerGrid == Behind("loading", Leads({ExplorerOpenAssetDrawer}))
ExplorerTable == Behind("loading", Leads({ExplorerOpenAssetDrawer, Open("delete", Version)}))
ExplorerDrawerTabs ==
  Leads({Move("main"), Move("drawer"), [Move("versions") EXCEPT !.starts = {"versions"}],
         [Move("audit") EXCEPT !.starts = {"logs"}]})
ExplorerOverview == [Offers({Unless("decrypt", "decrypting")}) EXCEPT !.shows = {"secret"}]
ExplorerVersions ==
  [Behind("loadingVersions", Leads({Move("rollback")})) EXCEPT !.shows = {"versions"},
                                                              !.hidden = {"loadingVersions"}]
ExplorerAudit == [Part EXCEPT !.shows = {"logs"}, !.hidden = {"loadingLogs"}]
ExplorerCreate == [Offers({Unless("save", "savingAsset")}) EXCEPT !.moves = {Move("main")}]
ExplorerRollbackDialog == [Offers({Always("rollback")}) EXCEPT !.moves = {Move("versions")}]
ExplorerDeleteDialog == [Offers({Always("delete")}) EXCEPT !.moves = {Move("main")}]
Explorer ==
  [Page EXCEPT !.states = Version, !.begin = {Absent, "v1"}, !.mount = {"list"},
    !.slots = {"secret", "versions", "logs", "active"},
    !.panels = "main" :> Join({ExplorerHeader, ExplorerFilters, ExplorerGrid, ExplorerTable})
            @@ "drawer" :> Join({ExplorerDrawerTabs, ExplorerOverview})
            @@ "versions" :> Join({ExplorerDrawerTabs, ExplorerVersions})
            @@ "audit" :> Join({ExplorerDrawerTabs, ExplorerAudit})
            @@ "create" :> ExplorerCreate @@ "rollback" :> ExplorerRollbackDialog
            @@ "delete" :> ExplorerDeleteDialog,
    !.handlers = "list" :> ExplorerFetchVaultData @@ "decrypt" :> ExplorerDecryptSecret
              @@ "versions" :> ExplorerLoadVersions @@ "logs" :> ExplorerLoadAccessLogs
              @@ "rollback" :> ExplorerExecuteRollback @@ "save" :> ExplorerSaveNewAsset
              @@ "delete" :> ExplorerDeleteAsset]

-----------------------------------------------------------------------------
(* app/dashboard/assets/page.tsx                                           *)

AssetsFetchData == Load
AssetsDelete == [Post EXCEPT !.from = {"stored"}, !.to = Absent, !.patch = "captured"]
AssetsPinGate == Leads({Move("main")})
AssetsCardMenu == Leads({Open("detail", {"stored"}), Open("delete", {"stored"})})
AssetsCardActions == Leads({Open("detail", {"stored"}), Open("delete", {"stored"})})
AssetsDetail == Leads({Move("main")})
AssetsDeleteDialog == Leads({Move("main"), [Move("main") EXCEPT !.starts = {"delete"}]})
Assets ==
  [Page EXCEPT !.states = {"stored"}, !.begin = {Absent, "stored"}, !.first = "gate",
    !.mount = {"list"},
    !.panels = "gate" :> AssetsPinGate @@ "main" :> Join({AssetsCardMenu, AssetsCardActions})
      @@ "detail" :> AssetsDetail
            @@ "delete" :> AssetsDeleteDialog,
    !.handlers = "list" :> AssetsFetchData @@ "delete" :> AssetsDelete]

-----------------------------------------------------------------------------
(* app/dashboard/assets/add/page.tsx                                       *)

AddAssetFetch == Ask
AddAssetSubmit ==
  [Post EXCEPT !.on = "new", !.flag = "loading", !.from = {Absent}, !.to = "stored",
               !.shuts = {"main"}, !.goto = "done"]
EditAssetSubmit == [AddAssetSubmit EXCEPT !.on = "a", !.from = {"stored", "edited"},
                    !.to = "edited"]
AddAssetSubmitButton == Offers({Unless("submit", "loading")})
AddAssetDone == Part
AddAsset ==
  [Page EXCEPT !.states = {"stored"}, !.mount = {"fetch"},
    !.panels = "main" :> AddAssetSubmitButton @@ "done" :> AddAssetDone,
    !.handlers = "fetch" :> AddAssetFetch @@ "submit" :> AddAssetSubmit]
EditAsset == [AddAsset EXCEPT !.recs = {"a"}, !.states = {"stored", "edited"},
              !.begin = {"stored"},
                              !.handlers["submit"] = EditAssetSubmit]

-----------------------------------------------------------------------------
(* app/dashboard/nominees/page.tsx                                         *)

NomineeStatus == {"INVITED", "ACCEPTED", "REVOKED"}
NomineesFetch == [Load EXCEPT !.flag = "loading"]
NomineesEnrol ==
  [Post EXCEPT !.on = "new", !.flag = "savingNominee", !.from = {Absent}, !.to = "INVITED",
               !.then = {"list"}, !.shuts = {"add", "edit"}]
NomineesUpdate == [Ask EXCEPT !.on = "open", !.flag = "savingNominee", !.then = {"list"},
                   !.shuts = {"add", "edit"}]
NomineesResendInvite == [Post EXCEPT !.on = "row", !.from = NomineeStatus, !.to = "INVITED",
                         !.then = {"list"}]
NomineesSaveAllocations ==
  [Ask EXCEPT !.on = "open", !.flag = "savingAllocations", !.then = {"list"},
               !.shuts = {"allocations"}]
NomineesRevoke ==
  [Post EXCEPT !.flag = "revoking", !.from = NomineeStatus, !.to = "REVOKED", !.then = {"list"},
               !.shuts = {"revoke"}]
NomineesDelete ==
  [Post EXCEPT !.flag = "deleting", !.from = NomineeStatus, !.to = Absent, !.then = {"list"},
               !.shuts = {"delete"}]
NomineesOpenAdd == Move("add")
NomineesOpenEdit == Open("edit", NomineeStatus)
NomineesOpenAllocations == Open("allocations", NomineeStatus)
NomineesHeader == Leads({NomineesOpenAdd})
NomineesFilter == Offers({Always("list")})
NomineesGrid ==
  Behind("loading", Join({Offers({Button("resend", {}, NomineeStatus)}),
                          Leads({NomineesOpenAllocations, Open("revoke", NomineeStatus)})}))
NomineesTable ==
  Behind("loading", Leads({NomineesOpenAllocations, NomineesOpenEdit,
                           Open("revoke", NomineeStatus)}))
NomineesModal(save) == Join({Offers({Unless(save, "savingNominee")}), Leads({Move("main")})})
NomineesAllocationDrawer == Join({Offers({Unless("allocate", "savingAllocations")}),
                                  Leads({Move("main")})})
NomineesRevokeDialog == Join({Offers({Always("revoke")}), Leads({Move("main")})})
NomineesDeleteDialog == Join({Offers({Always("delete")}), Leads({Move("main")})})
Nominees ==
  [Page EXCEPT !.states = NomineeStatus, !.begin = {Absent, "INVITED"}, !.mount = {"list"},
    !.others = {<<"INVITED", "ACCEPTED">>},
    !.panels = "main" :> Join({NomineesHeader, NomineesFilter, NomineesGrid, NomineesTable})
            @@ "add" :> NomineesModal("enrol") @@ "edit" :> NomineesModal("update")
            @@ "allocations" :> NomineesAllocationDrawer @@ "revoke" :> NomineesRevokeDialog
            @@ "delete" :> NomineesDeleteDialog,
    !.handlers = "list" :> NomineesFetch @@ "enrol" :> NomineesEnrol @@ "update" :> NomineesUpdate
              @@ "resend" :> NomineesResendInvite @@ "allocate" :> NomineesSaveAllocations
              @@ "revoke" :> NomineesRevoke @@ "delete" :> NomineesDelete]

-----------------------------------------------------------------------------
(* app/dashboard/claims/page.tsx                                           *)

\* APPROVED and REJECTED are offered the same: one state, DECIDED.
ClaimStatus == {"UNDER_REVIEW", "DECIDED", "WAITING_DOCUMENTS", "REJECTED_DISPUTED"}
ClaimOpen == {"UNDER_REVIEW", "WAITING_DOCUMENTS"}
ClaimsFetch == [Load EXCEPT !.flag = "isLoading", !.patch = "unlessEmpty"]
ClaimsSubmit ==
  [Post EXCEPT !.on = "new", !.flag = "isLoading", !.from = {Absent}, !.to = "UNDER_REVIEW",
               !.patch = "current", !.refused = "current", !.lost = "none", !.shuts = {"submit"}]
ClaimsDispute ==
  [Post EXCEPT !.on = "row", !.flag = "isLoading", !.from = ClaimOpen, !.to = "REJECTED_DISPUTED",
               !.patch = "current", !.refused = "current", !.lost = "none", !.marks = TRUE]
ClaimsAdjudicate(decision) ==
  [Post EXCEPT !.flag = "isAdjudicating", !.from = ClaimOpen, !.to = decision,
               !.patch = "current", !.refused = "current", !.lost = "none", !.marks = TRUE]
ClaimsHeader == Leads({Move("submit")})
ClaimsCards ==
  Join({Leads({[Open("drawer", ClaimStatus) EXCEPT !.empties = {"copy"}]}),
        Offers({Button("dispute", {}, ClaimStatus \ {"REJECTED_DISPUTED"})})})
ClaimsSubmitModal == Join({Offers({Unless("submit", "isLoading")}), Leads({Move("main")})})
ClaimsDrawer == [Leads({Move("main")}) EXCEPT !.shows = {"copy"}]
ClaimsAdjudication == Offers({Unless(h, "isAdjudicating") : h \in {"decide", "notary"}})
Claims ==
  [Page EXCEPT !.states = ClaimStatus, !.begin = {Absent, "UNDER_REVIEW"},
    !.demo = Shown("UNDER_REVIEW"),
    !.mount = {"list"}, !.slots = {"copy"},
    !.panels = "main" :> Join({ClaimsHeader, ClaimsCards}) @@ "submit" :> ClaimsSubmitModal
            @@ "drawer" :> Join({ClaimsDrawer, ClaimsAdjudication}),
    !.handlers = "list" :> ClaimsFetch @@ "submit" :> ClaimsSubmit @@ "dispute" :> ClaimsDispute
              @@ "decide" :> ClaimsAdjudicate("DECIDED")
                @@ "notary" :> ClaimsAdjudicate("WAITING_DOCUMENTS")]

-----------------------------------------------------------------------------
(* app/dashboard/policies/page.tsx                                         *)

PoliciesFetch == [Load EXCEPT !.flag = "isLoading", !.patch = "unlessEmpty"]
PoliciesCreate ==
  [Post EXCEPT !.on = "new", !.flag = "isLoading", !.from = {Absent}, !.to = "ACTIVE",
               !.patch = "current", !.refused = "current", !.lost = "none", !.shuts = {"create"}]
PoliciesDelete ==
  [Post EXCEPT !.on = "row", !.from = {"ACTIVE"}, !.to = Absent,
               !.patch = "current", !.refused = "current", !.lost = "current"]
PoliciesHeader == Leads({Move("create")})
PoliciesCards == Join({Leads({Open("simulate", {"ACTIVE"})}),
                       Offers({Button("delete", {}, {"ACTIVE"})})})
PoliciesCreateModal == Join({Offers({Unless("create", "isLoading")}), Leads({Move("main")})})
PoliciesSimulation == Leads({Move("main")})
Policies ==
  [Page EXCEPT !.states = {"ACTIVE"}, !.begin = {Absent, "ACTIVE"}, !.demo = Shown("ACTIVE"),
    !.mount = {"list"},
    !.panels = "main" :> Join({PoliciesHeader, PoliciesCards}) @@ "create" :> PoliciesCreateModal
            @@ "simulate" :> PoliciesSimulation,
    !.handlers = "list" :> PoliciesFetch @@ "create" :> PoliciesCreate
      @@ "delete" :> PoliciesDelete]

-----------------------------------------------------------------------------
(* app/dashboard/settings/page.tsx                                         *)

Setting == {"old", "new"}   \* record a: two-factor authentication; b: profile and period
SettingsProfileUpdate ==
  [Post EXCEPT !.on = "b", !.flag = "profile", !.from = Setting, !.to = "new", !.patch = "answer"]
SettingsPasswordChange == [Ask EXCEPT !.flag = "password"]
SettingsPinChange == [Ask EXCEPT !.flag = "pin", !.patch = "before"]
SettingsInactivityChange == [SettingsProfileUpdate EXCEPT !.flag = "inactivity"]
Settings2FASetup == [Ask EXCEPT !.flag = "2fa-setup", !.shuts = {"security"}, !.goto = "2fa"]
Settings2FAVerify ==
  [Post EXCEPT !.on = "a", !.flag = "2fa-verify", !.from = Setting, !.to = "new",
               !.patch = "captured",
               !.shuts = {"2fa"}, !.goto = "security"]
SettingsExportVault == Timer
SettingsRevokeSession == [Local EXCEPT !.on = "row", !.to = Absent]
SettingsTabs == Leads({Move(p) : p \in {"main", "profile", "security", "inheritance",
                                        "activity"}})
SettingsOverview == Offers({Always("export")})
SettingsProfile == Offers({Unless("profile", "profile")})
SettingsTwoFactor == Offers({Unless("2fa-setup", "2fa-setup")})
SettingsTwoFactorSetup ==
  Join({Offers({Unless("2fa-verify", "2fa-verify")}),
        Behind("2fa-verify", Leads({Move("security")}))})
SettingsPasswordCard == Offers({Unless("password", "password")})
SettingsPinCard == Offers({Unless("pin", "pin")})
SettingsInheritance == Offers({Always("inactivity")})
SettingsActivity == Offers({Always("export"), Button("revoke", {}, {"signedIn"})})
Settings ==
  [Page EXCEPT !.states = Setting, !.begin = {"old"}, !.demo = Shown("old"), !.cached = TRUE,
    !.shared = {"profile", "password", "pin", "inactivity", "2fa-setup", "2fa-verify"},
    !.panels = "main" :> Join({SettingsTabs, SettingsOverview})
            @@ "profile" :> Join({SettingsTabs, SettingsProfile})
            @@ "security" :> Join({SettingsTabs, SettingsTwoFactor, SettingsPasswordCard,
                                   SettingsPinCard})
            @@ "2fa" :> Join({SettingsTabs, SettingsTwoFactorSetup, SettingsPasswordCard,
                              SettingsPinCard})
            @@ "inheritance" :> Join({SettingsTabs, SettingsInheritance})
            @@ "activity" :> SettingsTabs,
    !.handlers = "profile" :> SettingsProfileUpdate @@ "password" :> SettingsPasswordChange
              @@ "pin" :> SettingsPinChange @@ "inactivity" :> SettingsInactivityChange
              @@ "2fa-setup" :> Settings2FASetup @@ "2fa-verify" :> Settings2FAVerify
              @@ "export" :> SettingsExportVault]
SettingsSessions ==
  [Page EXCEPT !.states = {"signedIn"}, !.begin = {"signedIn"}, !.demo = Shown("signedIn"),
    !.panels = "main" :> SettingsActivity,
    !.handlers = "revoke" :> SettingsRevokeSession @@ "export" :> SettingsExportVault]

-----------------------------------------------------------------------------
(* app/dashboard/settings/switch/page.tsx                                  *)

SwitchFetchStatus == [Load EXCEPT !.flag = "isLoading"]
SwitchHeartbeat ==
  [Post EXCEPT !.on = "a", !.flag = "isCheckingIn", !.from = {"ACTIVE", "WARNING"},
               !.to = "ACTIVE",
               !.keeps = {"PAUSED"}, !.patch = "current", !.refused = "current", !.lost = "current",
               !.spares = {"PAUSED"}]
SwitchSaveConfig ==
  [Ask EXCEPT !.flag = "isSavingConfig", !.then = {"status"}, !.awaits = TRUE, !.refused = "none",
               !.lost = "none"]
SwitchPause ==
  [Post EXCEPT !.on = "a", !.flag = "isLoading", !.from = {"ACTIVE", "WARNING", "PAUSED"},
               !.to = "PAUSED",
               !.then = {"status"}, !.awaits = TRUE, !.refused = "current", !.lost = "current",
               !.shuts = {"pause"}]
SwitchResume ==
  [Post EXCEPT !.on = "a", !.flag = "isLoading", !.from = {"ACTIVE", "WARNING", "PAUSED"},
               !.to = "ACTIVE",
               !.then = {"status"}, !.awaits = TRUE, !.refused = "current", !.lost = "current"]
SwitchHeader ==
  Join({Offers({Button("resume", {"isLoading"}, {"PAUSED"}),
                Unless("heartbeat", "isCheckingIn")}),
        Leads({Open("pause", {"ACTIVE", "WARNING"})})})
SwitchHeartbeatCard == Offers({Unless("heartbeat", "isCheckingIn")})
SwitchConfigCard == Offers({Unless("config", "isSavingConfig")})
SwitchPauseModal == Join({Offers({Unless("pause", "isLoading")}), Leads({Move("main")})})
Switch ==
  [Page EXCEPT !.recs = {"a"}, !.states = {"ACTIVE", "WARNING", "PAUSED"},
    !.begin = {"ACTIVE", "WARNING"},
    !.demo = Shown("ACTIVE"), !.mount = {"status"}, !.others = {<<"ACTIVE", "WARNING">>},
    !.panels = "main" :> Join({SwitchHeader, SwitchHeartbeatCard, SwitchConfigCard})
            @@ "pause" :> SwitchPauseModal,
    !.handlers = "status" :> SwitchFetchStatus @@ "heartbeat" :> SwitchHeartbeat
              @@ "config" :> SwitchSaveConfig @@ "pause" :> SwitchPause
                @@ "resume" :> SwitchResume]

-----------------------------------------------------------------------------
(* app/dashboard/nominees/verify/page.tsx                                  *)

Idv == {"PENDING", "INITIATED", "APPROVED"}
VerifyDispatchIdv(r) ==
  [Post EXCEPT !.on = r, !.flag = "isLoading", !.from = Idv, !.to = "INITIATED",
               !.patch = "current",
               !.refused = "current", !.lost = "none", !.shuts = {"idv"}]
VerifyDispatchNotary ==
  [Ask EXCEPT !.flag = "isLoading", !.refused = "none", !.lost = "none", !.shuts = {"notary"}]
VerifySimulateWebhook(on) == [Local EXCEPT !.on = on, !.to = "APPROVED", !.marks = TRUE]
VerifyHeader == Leads({Move("notary"), Move("idv")})
VerifyCards ==
  Join({Leads({[Open("drawer", Idv) EXCEPT !.empties = {"copy"}]}),
        Offers({Button("webhook", {}, Idv \ {"APPROVED"})})})
VerifyIdvModal == Join({Offers({Unless("idvA", "isLoading"), Unless("idvB", "isLoading")}),
                        Leads({Move("main")})})
VerifyNotaryModal == Join({Offers({Unless("notary", "isLoading")}), Leads({Move("main")})})
VerifyDrawer ==
  [Join({Offers({Button("webhookOpen", {}, Idv \ {"APPROVED"})}),
         Leads({Move("main")})}) EXCEPT !.shows = {"copy"}]
Verify ==
  [Page EXCEPT !.states = Idv, !.begin = {"PENDING"}, !.demo = Shown("PENDING"),
    !.slots = {"copy"},
    !.panels = "main" :> Join({VerifyHeader, VerifyCards}) @@ "idv" :> VerifyIdvModal
            @@ "notary" :> VerifyNotaryModal @@ "drawer" :> VerifyDrawer,
    !.handlers = "idvA" :> VerifyDispatchIdv("a") @@ "idvB" :> VerifyDispatchIdv("b")
              @@ "notary" :> VerifyDispatchNotary @@ "webhook" :> VerifySimulateWebhook("row")
              @@ "webhookOpen" :> VerifySimulateWebhook("open")]
=============================================================================
