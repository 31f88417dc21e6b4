---------------------------- MODULE BrowserSession ----------------------------
(***************************************************************************)
(* One owner's browser: its tabs, the cookies and the localStorage they    *)
(* share (lib/store.ts), the wrapper around fetch with its refresh and     *)
(* retry (lib/api.ts), and the pages before and around the dashboard:      *)
(* login, signup, forgotten password and PIN, e-mail verification, profile *)
(* completion, the dashboard's frame and its PIN dialog, against the       *)
(* routes of api/auth.py.                                                  *)
(*                                                                         *)
(* An answer is the server's step together with the rest of the page's     *)
(* handler; the routes that look at lockedUntil and failedPinAttempts read *)
(* them in a step of their own.  A request is authenticated with the       *)
(* cookies it was sent with.  A handler whose page was left goes on; only  *)
(* what it would show is lost.  Of other accounts there are the links      *)
(* mailed to them and the logins that fail under the owner's name.         *)
(***************************************************************************)
EXTENDS Naturals, FiniteSets

CONSTANTS
  Tabs,        \* tabs of the browser
  PinLimit,    \* failed PIN checks that lock the account (10)
  MaxCalls,    \* bound: requests in flight when the owner starts one more
  MaxPins,     \* bound: PINs typed
  Itineraries  \* bound: in one behaviour, the tabs and pages opened and the requests started

Tokens == 1 .. Cardinality(Tabs) + 2      \* refresh tokens somebody can still present
NoToken == 0
Pages == {"home", "login", "signup", "password", "pin", "dashboard", "verifyEmail",
          "completeProfile", "link"}
Ops == {"login", "twoFactor", "google", "sendOtp", "verifyOtp", "signup", "forgotRequest",
        "forgotVerify", "reset", "completeProfile", "resend", "logout", "verifyPin", "data", "link"}

ASSUME SessionAssumption ==
  /\ {PinLimit, MaxCalls, MaxPins} \subseteq Nat /\ PinLimit > 0
  /\ IsFiniteSet(Tabs)
  /\ Itineraries \subseteq [in: SUBSET Tabs, opens: SUBSET Pages, does: SUBSET Ops]

VARIABLES
  account,    \* the owner's document: exists, verified, complete
  codes,      \* the documents of db.otps: "plain" has no type
  pin,        \* failedPinAttempts, and whether lockedUntil lies ahead: set for PINs or for logins
  live,       \* refresh tokens the server accepts
  cookies,    \* the cookie jar: is the access token valid, and which refresh token
  local,      \* localStorage: sv_is_logged_in with a current user, and the user's cached flags;
              \* borrowed is history: verified comes from a link to another account
  tab,        \* what each tab shows, and its isRefreshing
  calls,      \* requests in flight through secureFetch
  refreshes,  \* refresh requests in flight: which tab, which token
  typed,      \* history: PINs typed since the last right one with no other check under way
  itinerary   \* what the owner does in this behaviour

server == <<account, codes, pin, live>>
browser == <<cookies, local>>
history == <<typed, itinerary>>
vars == <<server, browser, tab, calls, refreshes, history>>

Show(p) == [page |-> p, step |-> 1, loading |-> FALSE]
SignedOut == [loggedIn |-> FALSE, verified |-> FALSE, complete |-> FALSE, borrowed |-> FALSE]

Init ==
  /\ account \in {[exists |-> FALSE, verified |-> FALSE, complete |-> FALSE],
                  [exists |-> TRUE, verified |-> TRUE, complete |-> TRUE]}
  /\ itinerary \in Itineraries
  /\ codes = {}
  /\ pin = [attempts |-> 0, locked |-> "no"]
  /\ live = {}
  /\ cookies = [access |-> FALSE, refresh |-> NoToken]
  /\ local = SignedOut
  /\ tab = [t \in Tabs |-> [view |-> Show("home"), unlocked |-> FALSE, leaving |-> FALSE]]
  /\ calls = {}
  /\ refreshes = {}
  /\ typed = 0

-----------------------------------------------------------------------------
(* Which page a navigation ends on                                         *)

\* The effects of dashboard-shell, verify-email and complete-profile look at the cached
\* user only.
Guarded(p, l) ==
  CASE p \in {"dashboard", "verifyEmail", "completeProfile"} /\ ~l.loggedIn -> "login"
    [] p \in {"dashboard", "verifyEmail"} /\ l.loggedIn ->
         IF ~l.verified THEN "verifyEmail" ELSE IF ~l.complete THEN "completeProfile" ELSE "dashboard"
    [] p = "completeProfile" /\ l.loggedIn ->
         IF ~l.complete THEN p ELSE IF ~l.verified THEN "verifyEmail" ELSE "dashboard"
    [] OTHER -> p

Detached(t, cs) == {IF k.tab = t THEN [k EXCEPT !.shown = FALSE] ELSE k : k \in cs}

\* count: the failedPinAttempts the route has read, if it has.
Unread == PinLimit

\* right: the code, the PIN or the link is this account's.
Call(t, o, from, right) == [tab |-> t, op |-> o, from |-> from, phase |-> "sent", count |-> Unread,
                            auth |-> cookies.access, right |-> right, shown |-> TRUE]

\* router.push: the JavaScript of the tab lives on.
Push(t, p, l, cs) ==
  LET q == Guarded(p, l) IN
  /\ tab' = [tab EXCEPT ![t].view = [Show(q) EXCEPT !.loading = q = "link"]]
  /\ \E own \in BOOLEAN :
       calls' = Detached(t, cs) \cup {Call(t, o, q, own) : o \in {"link"} \cap {q}}

\* A link, an address typed in.
Visit(t, p) ==
  /\ t \in itinerary.in /\ p \in itinerary.opens /\ tab[t].view.page # p
  /\ Cardinality(calls) < MaxCalls
  /\ p = "link" => \A k \in calls : k.tab = t => k.op # "link"
  /\ Push(t, p, local, calls)
  /\ UNCHANGED <<server, browser, refreshes, history>>

-----------------------------------------------------------------------------
(* What the pages offer                                                    *)

At(t, p, s) == tab[t].view.page = p /\ tab[t].view.step = s
Ready(t, p, s) == At(t, p, s) /\ ~tab[t].view.loading

Send(t, o, right) ==
  /\ o \in itinerary.does
  /\ Cardinality(calls) < MaxCalls
  /\ \A k \in calls : k.tab = t => k.op # o
  /\ calls' = calls \cup {Call(t, o, tab[t].view.page, right)}
  /\ tab' = [tab EXCEPT ![t].view.loading = TRUE]
  /\ UNCHANGED <<server, browser, refreshes>>

\* app/login: the form, the second factor it may ask for, Google's button (which no
\* loading disables), and back.
LoginForm(t) == Ready(t, "login", 1) /\ Send(t, "login", TRUE) /\ UNCHANGED history
TwoFactorForm(t, right) == Ready(t, "login", 2) /\ Send(t, "twoFactor", right) /\ UNCHANGED history
GoogleButton(t) ==
  (At(t, "login", 1) \/ At(t, "signup", 1)) /\ Send(t, "google", TRUE) /\ UNCHANGED history

\* app/signup: address, mailed code, PIN.
SignupForm(t) ==
  /\ \/ Ready(t, "signup", 1) /\ Send(t, "sendOtp", TRUE)
     \/ Ready(t, "signup", 2) /\ Send(t, "verifyOtp", TRUE)
     \/ Ready(t, "signup", 3) /\ Send(t, "signup", TRUE)
  /\ UNCHANGED history

\* app/forgot-password and app/forgot-pin; the code can be asked for again.  A reset token
\* may have expired when it is used.
ForgotForm(t, p, right) ==
  /\ \/ (Ready(t, p, 1) \/ At(t, p, 2)) /\ Send(t, "forgotRequest", TRUE)
     \/ Ready(t, p, 2) /\ Send(t, "forgotVerify", TRUE)
     \/ Ready(t, p, 3) /\ Send(t, "reset", right)
  /\ UNCHANGED history

\* The back buttons: none waits for what is in flight.
Back(t) ==
  /\ \E p \in {"login", "signup"} : At(t, p, 2) \/ At(t, p, 3)
  /\ tab' = [tab EXCEPT ![t].view.step = @ - 1]
  /\ UNCHANGED <<server, browser, calls, refreshes, history>>

ProfileForm(t) ==
  Ready(t, "completeProfile", 1) /\ Send(t, "completeProfile", TRUE) /\ UNCHANGED history

ResendButton(t) == Ready(t, "verifyEmail", 1) /\ Send(t, "resend", TRUE) /\ UNCHANGED history

\* The PIN dialog of the frame.
PinDialog(t, right) ==
  /\ Ready(t, "dashboard", 1) /\ ~tab[t].unlocked
  /\ local.loggedIn
  /\ typed < MaxPins
  /\ Send(t, "verifyPin", right)
  /\ typed' = typed + 1
  /\ UNCHANGED itinerary

\* Any other request a page of the dashboard makes.
PageData(t) == At(t, "dashboard", 1) /\ Send(t, "data", TRUE) /\ UNCHANGED history

LogoutButton(t) ==
  (At(t, "dashboard", 1) \/ At(t, "verifyEmail", 1)) /\ Send(t, "logout", TRUE) /\ UNCHANGED history

\* lib/store.ts forgets a PIN session after 15 minutes.
PinSessionEnds(t) ==
  /\ tab[t].unlocked
  /\ tab' = [tab EXCEPT ![t].unlocked = FALSE]
  /\ UNCHANGED <<server, browser, calls, refreshes, history>>

-----------------------------------------------------------------------------
(* secureFetch: the answer 401                                             *)

\* The routes behind get_current_user, and those that answer 401 to a wrong second factor,
\* a wrong PIN or an old reset token.
NeedsAuth == {"completeProfile", "resend", "logout", "data"}
Unauthorized(k) ==
  (k.op \in NeedsAuth /\ ~k.auth) \/ (k.op \in {"twoFactor", "verifyPin", "reset"} /\ ~k.right)

\* Login, second factor, Google and /verify-pin read the owner's document and refuse a
\* locked account; what they write later rests on what they read.
ReadFirst == {"login", "twoFactor", "google", "verifyPin"}
HasRead(k) == k.count # Unread

AccountRead(k) ==
  /\ k.op \in ReadFirst /\ k.phase # "waiting" /\ ~HasRead(k)
  /\ pin.locked = "no"
  /\ calls' = (calls \ {k}) \cup {[k EXCEPT !.count = IF k.op = "verifyPin" THEN pin.attempts ELSE 0]}
  /\ UNCHANGED <<server, browser, tab, refreshes, history>>

Checks(cs) == {k \in cs : k.op = "verifyPin"}

\* POST /verify-pin: a right PIN clears count and lock, a wrong one stores the count that was
\* read and one more, or locks.
WritePin(k) ==
  IF k.right
  THEN /\ pin' = [attempts |-> 0, locked |-> "no"]
       /\ typed' = IF \E x \in Checks(calls \ {k}) : HasRead(x) THEN typed
                   ELSE Cardinality(Checks(calls \ {k}))
  ELSE /\ pin' = IF k.count + 1 < PinLimit THEN [pin EXCEPT !.attempts = k.count + 1]
                 ELSE [attempts |-> 0, locked |-> "pins"]
       /\ typed' = typed

CountPin(k) ==
  IF k.op = "verifyPin" /\ HasRead(k) THEN WritePin(k) ELSE UNCHANGED <<pin, typed>>

Loading(k, b) == IF k.shown THEN [tab EXCEPT ![k.tab].view.loading = b] ELSE tab

\* A mutant: isRefreshing is reset when the requests sent again are answered.
RefreshForLate(t) ==
  IF \E r \in refreshes : r.tab = t THEN refreshes
  ELSE IF \E k \in calls : k.tab = t /\ k.phase = "retried" THEN refreshes
  ELSE refreshes \cup {[tab |-> t, token |-> cookies.refresh]}
\* The first 401 of a tab starts a refresh, the others wait for the same promise.
RefreshFor(t) ==
  IF \E r \in refreshes : r.tab = t THEN refreshes
  ELSE refreshes \cup {[tab |-> t, token |-> cookies.refresh]}

StartRefresh(k) ==
  /\ k.phase = "sent" /\ Unauthorized(k)
  /\ k.op \in ReadFirst => HasRead(k)
  /\ CountPin(k)
  /\ calls' = (calls \ {k}) \cup {[k EXCEPT !.phase = "waiting", !.count = Unread]}
  /\ refreshes' = RefreshFor(k.tab)
  /\ UNCHANGED <<account, codes, live, browser, tab, itinerary>>

Waiting(t) == {k \in calls : k.tab = t /\ k.phase = "waiting"}

\* A mutant: a request sent again may be sent a third time.
ResentAsNew(cs) == {[k EXCEPT !.phase = "sent", !.auth = TRUE] : k \in cs}
\* Every waiting request is sent again, with the new cookies.
Resent(cs) == {[k EXCEPT !.phase = "retried", !.auth = TRUE] : k \in cs}

\* The server accepts only tokens somebody still holds or presents.
Held(ts, rs, c) == ts \cap ({c.refresh} \cup {r.token : r \in rs})

Unused(ts, rs) == CHOOSE n \in Tokens \ (ts \cup {r.token : r \in rs}) :
                    \A m \in Tokens \ (ts \cup {r.token : r \in rs}) : n <= m

Issue(ts, rs, c) ==
  LET n == Unused(ts, rs) IN
  /\ cookies' = [access |-> TRUE, refresh |-> n]
  /\ live' = Held(ts, rs, [c EXCEPT !.refresh = n]) \cup {n}

\* POST /refresh-token consumes the token and sets new cookies.
RefreshAnswered(r) ==
  /\ r.token \in live
  /\ refreshes' = refreshes \ {r}
  /\ Issue(live \ {r.token}, refreshes \ {r}, cookies)
  /\ calls' = (calls \ Waiting(r.tab)) \cup Resent(Waiting(r.tab))
  /\ UNCHANGED <<account, codes, pin, local, tab, history>>

\* The logout of dashboard-shell and verify-email signs the browser out whatever happened.
LogoutPage(k) == IF k.from = "dashboard" THEN "home" ELSE "login"

\* The catch and finally blocks of the requests ks of a tab, which all fail.
Give(t, r, ks) ==
  LET quits == {k \in ks : k.op = "logout"} IN
  IF quits = {}
  THEN /\ tab' = [tab EXCEPT ![t] = IF \E k \in ks : k.shown THEN [r EXCEPT !.view.loading = FALSE] ELSE r]
       /\ calls' = calls \ ks
  ELSE \E k \in quits :
         /\ tab' = [tab EXCEPT ![t] = [r EXCEPT !.view = Show(LogoutPage(k)), !.unlocked = FALSE]]
         /\ calls' = Detached(t, calls \ ks)

QuitsIn(ks) == \E k \in ks : k.op = "logout"

\* The refresh is refused: all requests that waited throw, the browser is signed out, and
\* one second later the tab is sent to the login page.
RefreshRefused(r) ==
  /\ r.token \notin live
  /\ refreshes' = refreshes \ {r}
  /\ local' = SignedOut
  /\ Give(r.tab, [tab[r.tab] EXCEPT !.unlocked = FALSE, !.leaving = TRUE], Waiting(r.tab))
  /\ UNCHANGED <<server, cookies, history>>

\* The refresh or its answer is lost: the requests throw.
RefreshLost(r) ==
  /\ refreshes' = refreshes \ {r}
  /\ local' = IF QuitsIn(Waiting(r.tab)) THEN SignedOut ELSE local
  /\ Give(r.tab, tab[r.tab], Waiting(r.tab))
  /\ live' \in {live, live \ {r.token}}
  /\ UNCHANGED <<account, codes, pin, cookies, history>>

\* window.location.href: the tab's JavaScript starts anew.  A PIN check under way is stopped
\* or ends unheard.
SentToLogin(t) ==
  LET gone == {k \in calls : k.tab = t} IN
  /\ tab[t].leaving
  /\ IF tab[t].view.page = "login"
     THEN /\ UNCHANGED <<calls, refreshes, live, pin, typed>>
          /\ tab' = [tab EXCEPT ![t].leaving = FALSE]
     ELSE /\ tab' = [tab EXCEPT ![t].leaving = FALSE, ![t].view = Show("login")]
          /\ calls' = calls \ gone
          /\ UNCHANGED <<pin, typed>> \/ \E k \in gone : CountPin(k)
          /\ refreshes' = {r \in refreshes : r.tab # t}
          /\ live' \in {live, live \ {r.token : r \in {x \in refreshes : x.tab = t}}}
  /\ UNCHANGED <<account, codes, browser, itinerary>>

-----------------------------------------------------------------------------
(* The other answers                                                       *)

Arrived(k) == k.phase # "waiting" /\ ~Unauthorized(k) /\ (k.op \in ReadFirst => HasRead(k))
Step(k, s) ==
  IF k.shown THEN [tab EXCEPT ![k.tab].view = [@ EXCEPT !.step = s, !.loading = FALSE]] ELSE tab

\* Not ok, or no answer at all; a 401 to a request already sent again.  The logout goes on.
\* A PIN check that is not answered may have been written.
Fails(k) ==
  /\ k.phase # "waiting"
  /\ CountPin(k) \/ UNCHANGED <<pin, typed>>
  /\ local' = IF k.op = "logout" THEN SignedOut ELSE local
  /\ Give(k.tab, tab[k.tab], {k})
  /\ UNCHANGED <<account, codes, live, cookies, refreshes, itinerary>>

\* setCurrentUserId, saveUser, setLoggedIn, and the page that follows.
SignedInAs(a) ==
  [loggedIn |-> TRUE, verified |-> a.verified, complete |-> a.complete, borrowed |-> FALSE]

\* A login that succeeds also ends a lock.
SignIn(k, a, p) ==
  /\ account' = a
  /\ pin' = [pin EXCEPT !.locked = "no"]
  /\ Issue(live, refreshes, cookies)
  /\ local' = SignedInAs(a)
  /\ Push(k.tab, p, SignedInAs(a), calls \ {k})
  /\ UNCHANGED <<refreshes, history>>

\* Whether the owner has a second factor is the account's.
LoginAnswered(k) ==
  /\ k.op = "login" /\ Arrived(k) /\ account.exists
  /\ \/ /\ tab' = Step(k, 2)
        /\ calls' = calls \ {k}
        /\ UNCHANGED <<server, browser, refreshes, history>>
     \/ SignIn(k, account, "dashboard") /\ UNCHANGED codes

TwoFactorAnswered(k) ==
  k.op = "twoFactor" /\ Arrived(k) /\ SignIn(k, account, "dashboard") /\ UNCHANGED codes

\* An account Google vouches for is verified from the start, and not complete.
GoogleAnswered(k) ==
  /\ k.op = "google" /\ Arrived(k)
  /\ SignIn(k, IF account.exists THEN account
               ELSE [exists |-> TRUE, verified |-> TRUE, complete |-> FALSE],
            IF account.exists /\ account.complete THEN "dashboard" ELSE "completeProfile")
  /\ UNCHANGED codes

SignupAnswered(k) ==
  /\ k.op = "signup" /\ Arrived(k) /\ ~account.exists
  /\ SignIn(k, [exists |-> TRUE, verified |-> FALSE, complete |-> FALSE], "dashboard")
  /\ UNCHANGED codes

\* /send-otp updates the first code of the address, of whatever type; /forgot-request has
\* one of its own type, for an account that exists.
SendCode(k) ==
  CASE k.op = "sendOtp" -> IF codes = {} THEN {"plain"} ELSE codes
    [] k.op = "forgotRequest" -> IF account.exists THEN codes \cup {k.from} ELSE codes

SendCodeAnswered(k) ==
  /\ k.op \in {"sendOtp", "forgotRequest"} /\ Arrived(k) /\ k.shown
  /\ codes' = SendCode(k)
  /\ tab' = Step(k, 2)
  /\ calls' = calls \ {k}
  /\ UNCHANGED <<account, pin, live, browser, refreshes, history>>

\* /verify-otp takes the first code of the address, /forgot-verify one of its type; each
\* deletes it.
CheckCodeAnswered(k, c) ==
  /\ k.op \in {"verifyOtp", "forgotVerify"} /\ Arrived(k) /\ k.shown
  /\ c \in codes /\ (k.op = "forgotVerify" => c = k.from)
  /\ codes' = codes \ {c}
  /\ tab' = Step(k, 3)
  /\ calls' = calls \ {k}
  /\ UNCHANGED <<account, pin, live, browser, refreshes, history>>

ResetAnswered(k) ==
  /\ k.op = "reset" /\ Arrived(k)
  /\ tab' = Step(k, 4)
  /\ calls' = calls \ {k}
  /\ UNCHANGED <<server, browser, refreshes, history>>

ProfileAnswered(k) ==
  /\ k.op = "completeProfile" /\ Arrived(k)
  /\ account' = [account EXCEPT !.complete = TRUE]
  /\ local' = SignedInAs(account')
  /\ Push(k.tab, "dashboard", local', calls \ {k})
  /\ UNCHANGED <<codes, pin, live, cookies, refreshes, history>>

\* A mutant: the cached user is verified whatever the answer.
CacheVerifiedAlways(ok, own) ==
  IF local.loggedIn THEN [local EXCEPT !.verified = TRUE, !.borrowed = ok /\ ~own] ELSE local
\* The page verifies whoever is signed in when the answer comes, whose link it ever was.
CacheVerified(ok, own) ==
  IF local.loggedIn /\ ok THEN [local EXCEPT !.verified = TRUE, !.borrowed = ~own] ELSE local

\* The link of the mail: the account it was sent to is verified.
LinkAnswered(k) ==
  /\ k.op = "link" /\ Arrived(k)
  /\ \E ok \in BOOLEAN :
       /\ ok /\ k.right => account.exists
       /\ account' = [account EXCEPT !.verified = @ \/ (ok /\ k.right)]
       /\ local' = CacheVerified(ok, k.right)
  /\ tab' = Loading(k, FALSE)
  /\ calls' = calls \ {k}
  /\ UNCHANGED <<codes, pin, live, cookies, refreshes, history>>

PinAnswered(k) ==
  /\ k.op = "verifyPin" /\ Arrived(k)
  /\ CountPin(k)
  /\ tab' = [Loading(k, FALSE) EXCEPT ![k.tab].unlocked = TRUE]
  /\ calls' = calls \ {k}
  /\ UNCHANGED <<account, codes, live, browser, refreshes, itinerary>>

\* Page data, and the mail sent again: the browser keeps nothing of them here.
DataAnswered(k) ==
  /\ k.op \in {"data", "resend"} /\ Arrived(k)
  /\ tab' = Loading(k, FALSE)
  /\ calls' = calls \ {k}
  /\ UNCHANGED <<server, browser, refreshes, history>>

\* POST /logout revokes the refresh token in the cookies and deletes them.
LogoutAnswered(k) ==
  /\ k.op = "logout" /\ Arrived(k)
  /\ live' = live \ {cookies.refresh}
  /\ cookies' = [access |-> FALSE, refresh |-> NoToken]
  /\ local' = SignedOut
  /\ tab' = [tab EXCEPT ![k.tab].view = Show(LogoutPage(k)), ![k.tab].unlocked = FALSE]
  /\ calls' = Detached(k.tab, calls \ {k})
  /\ UNCHANGED <<account, codes, pin, refreshes, history>>

-----------------------------------------------------------------------------
(* Time and the outside                                                    *)

AccessExpires ==
  /\ cookies.access
  /\ cookies' = [cookies EXCEPT !.access = FALSE]
  /\ UNCHANGED <<server, local, tab, calls, refreshes, history>>

\* The refresh token expires, or the owner revokes this session elsewhere.
RefreshExpires ==
  /\ live # {}
  /\ \E x \in live : live' = live \ {x}
  /\ UNCHANGED <<account, codes, pin, browser, tab, calls, refreshes, history>>

\* Somebody's logins under the owner's name fail, and 15 minutes pass.
LoginsLock ==
  /\ account.exists /\ "login" \in itinerary.does
  /\ pin.locked # "logins"
  /\ pin' = [pin EXCEPT !.locked = "logins"]
  /\ UNCHANGED <<account, codes, live, browser, tab, calls, refreshes, history>>

LockExpires ==
  /\ pin.locked # "no"
  /\ pin' = [pin EXCEPT !.locked = "no"]
  /\ UNCHANGED <<account, codes, live, browser, tab, calls, refreshes, history>>

-----------------------------------------------------------------------------

UserStep(t) ==
  \/ \E p \in Pages : Visit(t, p)
  \/ LoginForm(t) \/ (\E right \in BOOLEAN : TwoFactorForm(t, right)) \/ GoogleButton(t)
  \/ SignupForm(t) \/ (\E p \in {"password", "pin"}, right \in BOOLEAN : ForgotForm(t, p, right))
  \/ Back(t) \/ ProfileForm(t) \/ ResendButton(t)
  \/ (\E right \in BOOLEAN : PinDialog(t, right)) \/ PageData(t) \/ LogoutButton(t)
  \/ PinSessionEnds(t)

Answered(k) ==
  \/ AccountRead(k) \/ StartRefresh(k) \/ Fails(k)
  \/ LoginAnswered(k) \/ TwoFactorAnswered(k) \/ GoogleAnswered(k) \/ SignupAnswered(k)
  \/ SendCodeAnswered(k) \/ (\E c \in codes : CheckCodeAnswered(k, c)) \/ ResetAnswered(k)
  \/ ProfileAnswered(k) \/ LinkAnswered(k) \/ PinAnswered(k) \/ DataAnswered(k)
  \/ LogoutAnswered(k)

RefreshEnds(r) == RefreshAnswered(r) \/ RefreshRefused(r) \/ RefreshLost(r)

Next ==
  \/ \E t \in Tabs : UserStep(t) \/ SentToLogin(t)
  \/ \E k \in calls : Answered(k)
  \/ \E r \in refreshes : RefreshEnds(r)
  \/ AccessExpires \/ RefreshExpires \/ LoginsLock \/ LockExpires

Spec == Init /\ [][Next]_vars

\* The fetch of a refresh has an end.
FairSpec == Spec /\ \A t \in Tabs : WF_vars(\E r \in refreshes : r.tab = t /\ RefreshEnds(r))

-----------------------------------------------------------------------------
(* Properties                                                              *)

TypeOK ==
  /\ account \in [exists: BOOLEAN, verified: BOOLEAN, complete: BOOLEAN]
  /\ codes \subseteq {"plain", "password", "pin"}
  /\ pin \in [attempts: 0 .. PinLimit - 1, locked: {"no", "pins", "logins"}]
  /\ live \subseteq Tokens
  /\ cookies \in [access: BOOLEAN, refresh: Tokens \cup {NoToken}]
  /\ local \in [loggedIn: BOOLEAN, verified: BOOLEAN, complete: BOOLEAN, borrowed: BOOLEAN]
  /\ tab \in [Tabs -> [view: [page: Pages, step: 1 .. 4, loading: BOOLEAN],
                       unlocked: BOOLEAN, leaving: BOOLEAN]]
  /\ calls \subseteq [tab: Tabs, op: Ops, from: Pages, phase: {"sent", "waiting", "retried"},
                      count: 0 .. PinLimit, auth: BOOLEAN, right: BOOLEAN, shown: BOOLEAN]
  /\ refreshes \subseteq [tab: Tabs, token: Tokens \cup {NoToken}]
  /\ typed \in 0 .. MaxPins
  /\ itinerary \in Itineraries

\* What the browser remembers of the account is never ahead of the server, so that no page is
\* skipped because of a cached flag the server does not hold; but for the link of another
\* account, which verifies whoever is signed in, until the next answer about the user.
CacheNeverAhead ==
  local.loggedIn => /\ local.verified => account.verified \/ local.borrowed
                    /\ local.complete => account.complete

\* A wrong PIN that is answered 401 is taken for an expired session, refreshed and sent
\* again: it counts twice, and no more than twice however the refresh goes and checks lose
\* each other's counts; only those PINs lock for PINs.  A right PIN starts the reckoning anew
\* unless another check has read the count it clears, and may bring it back.
LockNeedsTries ==
  /\ pin.attempts <= 2 * typed
  /\ pin.locked = "pins" => 2 * typed >= PinLimit

\* No request waits for ever for another one's refresh: it is sent again or given up,
\* whether the refresh succeeds, is refused, is lost or goes down with its page.
WaitersReleased == \A t \in Tabs : Waiting(t) # {} ~> Waiting(t) = {}

=============================================================================
