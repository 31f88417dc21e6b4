------------------------------- MODULE MCConsole -------------------------------
(* Every page of the dashboard and of the admin console, one tab at a time. *)
EXTENDS Console, VaultPages, AdminPages, SecurityPages

EveryPage ==
  "explorer" :> Explorer @@ "assets" :> Assets @@ "add" :> AddAsset @@ "edit" :> EditAsset
  @@ "nominees" :> Nominees @@ "claims" :> Claims @@ "policies" :> Policies
  @@ "settings" :> Settings @@ "sessions" :> SettingsSessions @@ "switch" :> Switch
  @@ "verify" :> Verify @@ "admins" :> Admins @@ "detail" :> Detail
  @@ "verifications" :> Verifications @@ "support user" :> SupportUser @@ "support" :> Support
  @@ "support payments" :> SupportPayments @@ "payments" :> SuperPayments
  @@ "accounts" :> Accounts @@ "admin sessions" :> AdminSessions
  @@ "admin settings" :> AdminSettings @@ "system" :> System @@ "soc" :> Soc
  @@ "security" :> SecurityCenter @@ "recovery" :> Recovery @@ "zerotrust" :> ZeroTrust
  @@ "governance" :> Governance @@ "notifications" :> Notifications @@ "overview" :> Overview
  @@ "drill" :> DisasterRecovery @@ "privacy" :> Privacy @@ "enclave" :> Enclave
  @@ "quantum" :> Quantum @@ "solvency" :> Solvency @@ "otp logs" :> OtpLogs
  @@ "admin activity" :> AdminActivity @@ "user activity" :> UserActivity
  @@ "asset logs" :> AssetLogs @@ "login history" :> LoginHistory
  @@ "failed logins" :> FailedLogins @@ "alerts" :> Alerts
  @@ "security dashboard" :> SecurityDashboard @@ "admin dashboard" :> AdminDashboard
  @@ "analytics" :> Analytics @@ "users" :> Users @@ "shell" :> Shell
  @@ "admin login" :> AdminLogin
AllPages == EveryPage

\* Two presses on the pages with the most panels, three on the others.
PressesOf ==
  [p \in DOMAIN EveryPage |-> IF p \in {"nominees", "claims", "explorer", "admins"} THEN 2 ELSE 3]
Presses == PressesOf

\* Pages whose list is known to drift: they show a failure as a success, or write back rows
\* captured before the request.
DriftingPages == {"assets", "claims", "policies", "settings", "switch", "soc"}

\* The explorer keeps the versions, logs and secret of the asset opened before.
MixingPages == {"explorer"}

\* Every page has what the theorems of Console_proofs ask of a site: its handlers end in a
\* finally block and name states the page knows, a flag is handed on to one handler, no panel
\* opens on another record's details, and a list is fetched again after each change.
ASSUME SiteIsSound ==
  \A p \in DOMAIN EveryPage :
    /\ \A h \in DOMAIN EveryPage[p].handlers : EveryPage[p].handlers[h].settles
    /\ Typed(EveryPage[p]) /\ Orderly(EveryPage[p])
    /\ p \notin MixingPages => Careful(EveryPage[p])
    /\ p \notin DriftingPages /\ Lists(EveryPage[p]) => Reloads(EveryPage[p])
================================================================================
