---------------------------- MODULE MCBrowserSession ----------------------------
(* Instances of BrowserSession for TLC: the constants are in the .cfg files. *)
EXTENDS BrowserSession

CONSTANTS t1, t2

\* PINs are typed in two tabs; the other journeys take one.
Journeys == {
  [in |-> Tabs, opens |-> {"dashboard"}, does |-> {"login", "verifyPin"}],
  [in |-> {t1}, opens |-> {"dashboard"}, does |-> {"login", "twoFactor", "data", "logout"}],
  [in |-> {t1}, opens |-> {"signup", "dashboard", "link"},
   does |-> {"sendOtp", "verifyOtp", "signup", "resend", "logout"}],
  [in |-> {t1}, opens |-> {"dashboard"}, does |-> {"google", "completeProfile", "data", "logout"}],
  [in |-> {t1}, opens |-> {"password", "pin"}, does |-> {"forgotRequest", "forgotVerify", "reset", "login"}]}
=============================================================================
