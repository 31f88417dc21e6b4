----------------------------- MODULE AdminPages -----------------------------
(* The pages of the administrators' console.                                      *)
EXTENDS PageLanguage

-----------------------------------------------------------------------------
(* app/admin/admins/page.tsx                                               *)

AdminStatus == {"ACTIVE", "DISABLED"}   \* of the other operators: one cannot disable oneself
AdminsFetch == [Load EXCEPT !.flag = "loading"]
AdminsCreate ==
  [Post EXCEPT !.on = "new", !.flag = "submitting", !.from = {Absent}, !.to = "ACTIVE",
               !.then = {"list"},
               !.shuts = {"create"}]
AdminsUpdate(status) ==
  [Post EXCEPT !.flag = "submitting", !.from = AdminStatus, !.to = status, !.then = {"list"},
               !.shuts = {"edit"}]
AdminsResetPassword == [Ask EXCEPT !.on = "open", !.flag = "submitting", !.shuts = {"password"}]
AdminsDelete ==
  [Post EXCEPT !.flag = "submitting", !.from = AdminStatus, !.to = Absent, !.then = {"list"},
               !.shuts = {"delete"}]
AdminsToggleStatus(status) ==
  [Post EXCEPT !.on = "row", !.from = AdminStatus, !.to = status, !.then = {"list"}]
AdminsTable ==
  Join({Leads({Open(p, AdminStatus) : p \in {"edit", "password", "delete"}}),
        Offers({Button("disable", {}, {"ACTIVE"}), Button("enable", {}, {"DISABLED"})})})
AdminsCreateDialog == Join({Offers({Unless("create", "submitting")}), Leads({Move("main")})})
AdminsEditDialog ==
  Join({Offers({Button("saveActive", {"submitting"}, {"ACTIVE"}),
                Button("saveDisabled", {"submitting"}, {"DISABLED"})}),
        Leads({Move("main")})})
AdminsPasswordDialog == Join({Offers({Unless("password", "submitting")}), Leads({Move("main")})})
AdminsDeleteDialog == Join({Offers({Unless("delete", "submitting")}), Leads({Move("main")})})
Admins ==
  [Page EXCEPT !.states = AdminStatus, !.begin = {Absent, "ACTIVE"}, !.mount = {"list"},
    !.others = {<<"ACTIVE", "DISABLED">>},
    !.panels = AllBehind("loading",
         "main" :> Join({AdminsTable, Leads({Move("create")})}) @@ "create" :> AdminsCreateDialog
      @@ "edit" :> AdminsEditDialog @@ "password" :> AdminsPasswordDialog
        @@ "delete" :> AdminsDeleteDialog),
    !.handlers = "list" :> AdminsFetch @@ "create" :> AdminsCreate
      @@ "saveActive" :> AdminsUpdate("ACTIVE")
              @@ "saveDisabled" :> AdminsUpdate("DISABLED") @@ "password" :> AdminsResetPassword
              @@ "delete" :> AdminsDelete @@ "disable" :> AdminsToggleStatus("DISABLED")
              @@ "enable" :> AdminsToggleStatus("ACTIVE")]

-----------------------------------------------------------------------------
(* components/admin/verification-action-dialog.tsx                         *)

ActionDialogConfirm(dialog) ==
  [Post EXCEPT !.on = "a", !.flag = "confirming", !.shuts = {dialog}, !.leaves = {dialog}]
ActionDialog(h) == Join({Offers({Unless(h, "confirming")}),
                         Behind("confirming", Leads({Move("main")}))})

-----------------------------------------------------------------------------
(* components/admin/ai-verification-panel.tsx                              *)

AnalysisRun == [Ask EXCEPT !.flag = "analyzing", !.then = {"load"}]
AnalysisPanel == Offers({Unless("analyse", "analyzing")})

-----------------------------------------------------------------------------
(* app/admin/verifications/[id]/page.tsx                                   *)

\* APPROVED and REJECTED are offered the same: DECIDED.  The server reviews in any status.
Review == {"PENDING", "UNDER_REVIEW", "MORE_DOCUMENTS_REQUIRED", "DECIDED"}
Claimable == {"PENDING", "MORE_DOCUMENTS_REQUIRED"}
DetailLoad ==
  [Load EXCEPT !.flag = "loading", !.leaves = {"main", "decide", "more"}, !.goto = "list"]
DetailClaim ==
  [Post EXCEPT !.on = "a", !.flag = "claiming", !.from = Claimable, !.to = "UNDER_REVIEW",
               !.then = {"load"}, !.awaits = TRUE]
DetailActionConfirm(status, dialog) ==
  [ActionDialogConfirm(dialog) EXCEPT !.from = Review, !.to = status, !.then = {"load"},
   !.awaits = TRUE]
DetailHeader ==
  Join({Offers({Button("claim", {"claiming"}, Claimable)}),
        Leads({Open("decide", Review \ {"DECIDED"}), Open("more", Review \ {"DECIDED"}),
               Move("list")})})
Detail ==
  [Page EXCEPT !.recs = {"a"}, !.states = Review,
    !.begin = {"PENDING", "MORE_DOCUMENTS_REQUIRED"},
    !.mount = {"load"},
    !.others = {<<"UNDER_REVIEW", "DECIDED">>, <<"MORE_DOCUMENTS_REQUIRED", "PENDING">>},
    !.panels = "list" :> Part
            @@ AllBehind("loading", "main" :> Join({DetailHeader, AnalysisPanel})
                                 @@ "decide" :> ActionDialog("decide")
                                 @@ "more" :> ActionDialog("more")),
    !.handlers = "load" :> DetailLoad @@ "claim" :> DetailClaim
              @@ "decide" :> DetailActionConfirm("DECIDED", "decide")
              @@ "more" :> DetailActionConfirm("MORE_DOCUMENTS_REQUIRED", "more")
              @@ "analyse" :> AnalysisRun]

-----------------------------------------------------------------------------
(* app/admin/verifications/page.tsx                                        *)

VerificationsLoad == [Load EXCEPT !.flag = "loadingRequests"]
VerificationsStats == [Ask EXCEPT !.flag = "loadingStats"]
VerificationsFilter == Offers({Always("list")})
VerificationsTable == Behind("loadingRequests", Leads({Open("detail", Review)}))
Verifications ==
  [Page EXCEPT !.states = Review, !.begin = {Absent, "PENDING"}, !.mount = {"list", "stats"},
    !.others = {<<Absent, "PENDING">>},
    !.panels = "main" :> Join({VerificationsFilter, VerificationsTable}) @@ "detail" :> Part,
    !.handlers = "list" :> VerificationsLoad @@ "stats" :> VerificationsStats]

-----------------------------------------------------------------------------
(* app/admin/support/users/[id]/page.tsx                                   *)

SupportAction == {"unlock", "lock", "password", "pin", "disable2fa", "resend"}
SupportDialog == {"lock", "password", "pin"}
SupportLoadProfile ==
  [Load EXCEPT !.flag = "loading", !.leaves = {"main"} \cup SupportDialog, !.goto = "list"]
SupportUnlock ==
  [Post EXCEPT !.on = "a", !.flag = "unlock", !.from = {"open", "locked"}, !.to = "open",
               !.then = {"load"}]
SupportLock ==
  [SupportUnlock EXCEPT !.flag = "lock", !.to = "locked", !.shuts = {"lock"}]
SupportPassword == [Ask EXCEPT !.flag = "password", !.then = {"load"}, !.shuts = {"password"}]
SupportPin == [Ask EXCEPT !.flag = "pin", !.then = {"load"}, !.shuts = {"pin"}]
SupportDisable2FA == [Ask EXCEPT !.flag = "disable2fa", !.then = {"load"}]
SupportResend == [Ask EXCEPT !.flag = "resend"]
SupportActions ==
  Join({Offers({Button("unlock", SupportAction, {"locked"}),
                Button("disable2fa", SupportAction, {}),
                Button("resend", SupportAction, {})}),
        Leads({[Open("lock", {"open"}) EXCEPT !.off = SupportAction]}
              \cup {[Move(p) EXCEPT !.off = SupportAction] : p \in {"password", "pin"}})})
SupportLockDialog == Join({Offers({Unless("lock", "lock")}), Leads({Move("main")})})
SupportPasswordDialog == Join({Offers({Unless("password", "password")}), Leads({Move("main")})})
SupportPinDialog == Join({Offers({Unless("pin", "pin")}), Leads({Move("main")})})
SupportUser ==
  [Page EXCEPT !.recs = {"a"}, !.states = {"open", "locked"}, !.begin = {"open", "locked"},
    !.mount = {"load"}, !.shared = SupportAction, !.others = {<<"open", "locked">>},
    !.panels = "list" :> Part
            @@ AllBehind("loading", "main" :> SupportActions @@ "lock" :> SupportLockDialog
                                 @@ "password" :> SupportPasswordDialog
                                   @@ "pin" :> SupportPinDialog),
    !.handlers = "load" :> SupportLoadProfile @@ "unlock" :> SupportUnlock
      @@ "lock" :> SupportLock
              @@ "password" :> SupportPassword @@ "pin" :> SupportPin
                @@ "disable2fa" :> SupportDisable2FA
              @@ "resend" :> SupportResend]

-----------------------------------------------------------------------------
(* app/admin/support/page.tsx                                              *)

SupportLoadUsers == [Load EXCEPT !.flag = "loadingUsers"]
SupportLoadStats == [Ask EXCEPT !.flag = "refreshing"]
SupportRefresh == Offers({Unless(h, "refreshing") : h \in {"stats", "list"}})
SupportTable == Behind("loadingUsers", Leads({Open("profile", {"open", "locked"})}))
SupportPages == Offers({Always("list")})
Support ==
  [Page EXCEPT !.states = {"open", "locked"}, !.begin = {Absent, "open"},
    !.mount = {"list", "stats"},
    !.others = {<<"open", "locked">>},
    !.panels = "main" :> Join({SupportRefresh, SupportTable, SupportPages}) @@ "profile" :> Part,
    !.handlers = "list" :> SupportLoadUsers @@ "stats" :> SupportLoadStats]

-----------------------------------------------------------------------------
(* app/admin/support/payments/page.tsx                                     *)

PaymentStatus == {"PENDING", "APPROVED", "REJECTED"}
PaymentsLoad == [Load EXCEPT !.flag = "loading"]
PaymentsScreenshot ==
  [Fetch("screenshot") EXCEPT !.flag = "loadingScreenshot", !.leaves = {"screenshot"}]
PaymentsApprove ==
  [Post EXCEPT !.flag = "actionLoading", !.from = {"PENDING"}, !.to = "APPROVED",
               !.then = {"list"},
               !.shuts = {"approve"}]
PaymentsReject == [PaymentsApprove EXCEPT !.to = "REJECTED", !.shuts = {"reject"}]
PaymentsHeader == Offers({Unless("list", "loading")})
PaymentsTabs == Offers({Always("list")})
PaymentsTable ==
  Behind("loading", Leads({[Open("screenshot", PaymentStatus) EXCEPT !.starts = {"screenshot"}]}))
PaymentsVerdicts == Behind("loading", Leads({Open("approve", {"PENDING"}),
                                             Open("reject", {"PENDING"})}))
PaymentsScreenshotDialog ==
  [Leads({Move("main")}) EXCEPT !.shows = {"screenshot"}, !.hidden = {"loadingScreenshot"}]
PaymentsApproveDialog == Join({Offers({Unless("approve", "actionLoading")}),
                               Leads({Move("main")})})
PaymentsRejectDialog == Join({Offers({Unless("reject", "actionLoading")}), Leads({Move("main")})})
SupportPayments ==
  [Page EXCEPT !.states = PaymentStatus, !.begin = {Absent, "PENDING"}, !.mount = {"list"},
    !.others = {<<"PENDING", "APPROVED">>}, !.slots = {"screenshot"},
    !.panels = "main" :> Join({PaymentsHeader, PaymentsTabs, PaymentsTable, PaymentsVerdicts})
            @@ "screenshot" :> PaymentsScreenshotDialog @@ "approve" :> PaymentsApproveDialog
            @@ "reject" :> PaymentsRejectDialog,
    !.handlers = "list" :> PaymentsLoad @@ "screenshot" :> PaymentsScreenshot
              @@ "approve" :> PaymentsApprove @@ "reject" :> PaymentsReject]

-----------------------------------------------------------------------------
(* app/admin/dashboard/payments/page.tsx                                   *)

SuperPaymentsLoad == [Load EXCEPT !.flag = "loading"]
SuperPaymentsScreenshot ==
  [Fetch("screenshot") EXCEPT !.flag = "loadingScreenshot", !.leaves = {"screenshot"}]
SuperPaymentsHeader == Offers({Unless("list", "loading")})
SuperPaymentsTabs == Offers({Always("list")})
SuperPaymentsTable ==
  Behind("loading", Leads({[Open("screenshot", PaymentStatus) EXCEPT !.starts = {"screenshot"}]}))
SuperPaymentsScreenshotDialog ==
  [Leads({Move("main")}) EXCEPT !.shows = {"screenshot"}, !.hidden = {"loadingScreenshot"}]
SuperPayments ==
  [Page EXCEPT !.states = PaymentStatus, !.begin = {Absent, "PENDING"}, !.mount = {"list"},
    !.others = {<<"PENDING", "APPROVED">>}, !.slots = {"screenshot"},
    !.panels = "main" :> Join({SuperPaymentsHeader, SuperPaymentsTabs, SuperPaymentsTable})
            @@ "screenshot" :> SuperPaymentsScreenshotDialog,
    !.handlers = "list" :> SuperPaymentsLoad @@ "screenshot" :> SuperPaymentsScreenshot]

-----------------------------------------------------------------------------
(* app/admin/security/accounts/page.tsx                                    *)

AccountsLoad == [Load EXCEPT !.flag = "loading"]
AccountsUnlock ==
  [Post EXCEPT !.on = "row", !.flag = "record", !.from = {"open", "locked"}, !.to = "open",
               !.then = {"list"}]
AccountsLock ==
  [Post EXCEPT !.flag = "submittingLock", !.from = {"open", "locked"}, !.to = "locked",
               !.then = {"list"},
               !.shuts = {"lock"}]
AccountsTable ==
  Behind("loading", Join({Offers({Button("unlock", {"record"}, {"locked"})}),
                          Leads({[Open("lock", {"open"}) EXCEPT !.off = {"record"}]})}))
AccountsPages == Offers({Always("list")})
AccountsLockDialog == Join({Offers({Unless("lock", "submittingLock")}), Leads({Move("main")})})
Accounts ==
  [Page EXCEPT !.states = {"open", "locked"}, !.begin = {Absent, "open", "locked"},
    !.mount = {"list"},
    !.shared = Recs, !.others = {<<"open", "locked">>},
    !.panels = "main" :> Join({AccountsTable, AccountsPages}) @@ "lock" :> AccountsLockDialog,
    !.handlers = "list" :> AccountsLoad @@ "unlock" :> AccountsUnlock @@ "lock" :> AccountsLock]

-----------------------------------------------------------------------------
(* app/admin/security/sessions/page.tsx                                    *)

AdminSessionsLoad == [Load EXCEPT !.flag = "loading"]
AdminSessionsTerminate ==
  [Post EXCEPT !.on = "row", !.flag = "record", !.from = {"live"}, !.to = Absent,
               !.then = {"list"}]
AdminSessionsTable == Behind("loading", Offers({Button("terminate", {"record"}, {"live"})}))
AdminSessionsPages == Offers({Always("list")})
AdminSessions ==
  [Page EXCEPT !.states = {"live"}, !.begin = {Absent, "live"}, !.mount = {"list"},
    !.shared = Recs,
    !.others = {<<Absent, "live">>},
    !.panels = "main" :> Join({AdminSessionsTable, AdminSessionsPages}),
    !.handlers = "list" :> AdminSessionsLoad @@ "terminate" :> AdminSessionsTerminate]

-----------------------------------------------------------------------------
(* app/admin/settings/page.tsx                                             *)

AdminSettingsPassword == [Ask EXCEPT !.flag = "changingPassword"]
AdminSettingsSave == [Timer EXCEPT !.flag = "savingSettings"]
AdminSettingsPasswordForm == Offers({Unless("password", "changingPassword")})
AdminSettingsForm == Offers({Unless("save", "savingSettings")})
AdminSettings ==
  [Page EXCEPT !.recs = {},
    !.panels = "main" :> Join({AdminSettingsPasswordForm, AdminSettingsForm}),
    !.handlers = "password" :> AdminSettingsPassword @@ "save" :> AdminSettingsSave]

-----------------------------------------------------------------------------
(* app/admin/security/otp-logs/page.tsx                                    *)

\* The logs: a list, asked for again, after a pause, whenever the search or the page changes.
LogPage(load, controls) ==
  [Page EXCEPT !.states = {"logged"}, !.begin = {Absent, "logged"}, !.mount = {"list"},
    !.others = {<<Absent, "logged">>}, !.panels = "main" :> controls,
    !.handlers = "list" :> load]
OtpLogsLoad == [Load EXCEPT !.flag = "loading"]
OtpLogsSearch == Offers({Always("list")})
OtpLogsTurn == Offers({Always("list")})
OtpLogs == LogPage(OtpLogsLoad, Join({OtpLogsSearch, OtpLogsTurn}))

-----------------------------------------------------------------------------
(* app/admin/security/admin-activity/page.tsx                              *)

AdminActivityLoad == [Load EXCEPT !.flag = "loading"]
AdminActivitySearch == Offers({Always("list")})
AdminActivityTurn == Offers({Always("list")})
AdminActivity == LogPage(AdminActivityLoad, Join({AdminActivitySearch, AdminActivityTurn}))

-----------------------------------------------------------------------------
(* app/admin/security/user-activity/page.tsx                               *)

UserActivityLoad == [Load EXCEPT !.flag = "loading"]
UserActivitySearch == Offers({Always("list")})
UserActivityTurn == Offers({Always("list")})
UserActivity == LogPage(UserActivityLoad, Join({UserActivitySearch, UserActivityTurn}))

-----------------------------------------------------------------------------
(* app/admin/security/asset-logs/page.tsx                                  *)

AssetLogsLoad == [Load EXCEPT !.flag = "loading"]
AssetLogsSearch == Offers({Always("list")})
AssetLogsTurn == Offers({Always("list")})
AssetLogs == LogPage(AssetLogsLoad, Join({AssetLogsSearch, AssetLogsTurn}))

-----------------------------------------------------------------------------
(* app/admin/security/login-history/page.tsx                               *)

LoginHistoryLoad == [Load EXCEPT !.flag = "loading"]
LoginHistorySearch == Offers({Always("list")})
LoginHistoryTurn == Offers({Always("list")})
LoginHistory == LogPage(LoginHistoryLoad, Join({LoginHistorySearch, LoginHistoryTurn}))

-----------------------------------------------------------------------------
(* app/admin/security/failed-logins/page.tsx                               *)

FailedLoginsLoad == [Load EXCEPT !.flag = "loading"]
FailedLoginsSearch == Offers({Always("list")})
FailedLoginsTurn == Offers({Always("list")})
FailedLogins == LogPage(FailedLoginsLoad, Join({FailedLoginsSearch, FailedLoginsTurn}))

-----------------------------------------------------------------------------
(* app/admin/security/alerts/page.tsx                                      *)

AlertsLoad == [Load EXCEPT !.flag = "loading"]
AlertsTurn == Offers({Always("list")})
Alerts == LogPage(AlertsLoad, AlertsTurn)

-----------------------------------------------------------------------------
(* app/admin/security/page.tsx                                             *)

\* A first load stands behind the page's spinner, a refresh behind its button's.
StatsPage(load, refresh, header) ==
  [Page EXCEPT !.states = {"logged"}, !.begin = {Absent, "logged"}, !.mount = {"list"},
    !.shared = {"loading", "refreshing"}, !.others = {<<Absent, "logged">>},
    !.panels = "main" :> Behind("loading", header),
    !.handlers = "list" :> load @@ "refresh" :> refresh]
SecurityDashboardLoad(flag) == [Load EXCEPT !.flag = flag]
SecurityDashboardHeader == Offers({Unless("refresh", "refreshing")})
SecurityDashboard ==
  StatsPage(SecurityDashboardLoad("loading"), SecurityDashboardLoad("refreshing"),
            SecurityDashboardHeader)

-----------------------------------------------------------------------------
(* app/admin/dashboard/page.tsx                                            *)

AdminDashboardLoad(flag) == [Load EXCEPT !.flag = flag]
AdminDashboardHeader == Offers({Unless("refresh", "refreshing")})
AdminDashboard ==
  StatsPage(AdminDashboardLoad("loading"), AdminDashboardLoad("refreshing"), AdminDashboardHeader)

-----------------------------------------------------------------------------
(* app/admin/analytics/page.tsx                                            *)

AnalyticsLoad == [Load EXCEPT !.flag = "loading"]
Analytics == LogPage(AnalyticsLoad, Part)

-----------------------------------------------------------------------------
(* app/admin/users/page.tsx                                                *)

UsersLoad == [Load EXCEPT !.flag = "loading"]
UsersTurn == Offers({Always("list")})
Users == LogPage(UsersLoad, UsersTurn)

-----------------------------------------------------------------------------
(* components/admin/admin-shell.tsx                                        *)

ShellNotifications == Load
ShellLogout == [Ask EXCEPT !.refused = "none", !.lost = "none", !.shuts = {"main"},
                           !.goto = "login"]
Shell ==
  [Page EXCEPT !.states = {"logged"}, !.begin = {Absent, "logged"}, !.mount = {"list"},
    !.polls = {"list"}, !.others = {<<Absent, "logged">>, <<"logged", Absent>>},
    !.panels = "main" :> Offers({Always("logout")}) @@ "login" :> Part,
    !.handlers = "list" :> ShellNotifications @@ "logout" :> ShellLogout]

-----------------------------------------------------------------------------
(* app/admin/login/page.tsx                                                *)

AdminLoginSubmit == [Ask EXCEPT !.flag = "loading", !.shuts = {"main"}, !.goto = "dashboard"]
AdminLoginForm == Offers({Unless("login", "loading")})
AdminLogin ==
  [Page EXCEPT !.recs = {}, !.panels = "main" :> AdminLoginForm @@ "dashboard" :> Part,
    !.handlers = "login" :> AdminLoginSubmit]
=============================================================================
