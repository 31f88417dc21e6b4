------------------------- MODULE BrowserSession_proofs -------------------------
(***************************************************************************)
(* What the browser has cached of the account is never ahead of the        *)
(* server, for any number of tabs and requests in flight, but for what the *)
(* link of another account says until the next answer about the user.      *)
(*                                                                         *)
(* The account only grows but for two steps that create it, and these,     *)
(* like each step that writes the cache, copy the account they made: it    *)
(* does not matter which tab, page or session the answer belongs to.       *)
(***************************************************************************)
EXTENDS BrowserSession, FiniteSetTheorems, WellFoundedInduction, TLAPS

Account == [exists: BOOLEAN, verified: BOOLEAN, complete: BOOLEAN]
Cached == [loggedIn: BOOLEAN, verified: BOOLEAN, complete: BOOLEAN, borrowed: BOOLEAN]

IInv == account \in Account /\ local \in Cached /\ CacheNeverAhead

\* Steps that leave the account alone and the cache alone or empty.
LEMMA LocalKept ==
  ASSUME IInv, account' = account, local' = local \/ local' = SignedOut
  PROVE  IInv'
<1>1. CASE local' = local
  BY <1>1 DEF IInv, CacheNeverAhead
<1>2. CASE local' = SignedOut
  BY <1>2 DEF IInv, CacheNeverAhead, SignedOut, Cached
<1> QED BY <1>1, <1>2

LEMMA CopyKeeps ==
  ASSUME account' \in Account, local' = SignedInAs(account')
  PROVE  IInv'
BY DEF IInv, CacheNeverAhead, SignedInAs, Account, Cached

LEMMA SignInKeeps ==
  ASSUME NEW k, NEW a \in Account, NEW p, SignIn(k, a, p)
  PROVE  IInv'
BY CopyKeeps DEF SignIn

LEMMA UserKeeps == ASSUME IInv, NEW t \in Tabs, UserStep(t) PROVE IInv'
<1>1. UNCHANGED <<account, local>>
  BY DEF UserStep, Visit, LoginForm, TwoFactorForm, GoogleButton, SignupForm, ForgotForm, Back,
         ProfileForm, ResendButton, PinDialog, PageData, LogoutButton, PinSessionEnds, Send,
         server, browser
<1> QED BY <1>1, LocalKept

LEMMA SignedInKeep ==
  ASSUME IInv, NEW k \in calls,
         LoginAnswered(k) \/ TwoFactorAnswered(k) \/ GoogleAnswered(k) \/ SignupAnswered(k)
  PROVE  IInv'
<1>1. CASE LoginAnswered(k)
  <2>1. CASE UNCHANGED <<server, browser, refreshes, history>>
    BY <2>1, LocalKept DEF server, browser
  <2>2. CASE SignIn(k, account, "dashboard")
    BY <2>2, SignInKeeps DEF IInv
  <2> QED BY <1>1, <2>1, <2>2 DEF LoginAnswered
<1>2. CASE TwoFactorAnswered(k)
  BY <1>2, SignInKeeps DEF TwoFactorAnswered, IInv
<1>3. CASE GoogleAnswered(k)
  <2> DEFINE a == IF account.exists THEN account
                  ELSE [exists |-> TRUE, verified |-> TRUE, complete |-> FALSE]
  <2>1. a \in Account
    BY DEF IInv, Account
  <2>2. \E p : SignIn(k, a, p)
    BY <1>3 DEF GoogleAnswered
  <2> HIDE DEF a
  <2> QED BY <2>1, <2>2, SignInKeeps
<1>4. CASE SignupAnswered(k)
  <2> DEFINE a == [exists |-> TRUE, verified |-> FALSE, complete |-> FALSE]
  <2>1. a \in Account /\ SignIn(k, a, "dashboard")
    BY <1>4 DEF SignupAnswered, Account
  <2> HIDE DEF a
  <2> QED BY <2>1, SignInKeeps
<1> QED BY <1>1, <1>2, <1>3, <1>4

LEMMA ProfileKeeps == ASSUME IInv, NEW k \in calls, ProfileAnswered(k) PROVE IInv'
<1>1. account' \in Account
  BY DEF ProfileAnswered, IInv, Account
<1> QED BY <1>1, CopyKeeps DEF ProfileAnswered

\* The link's answer says the address is verified only if the account now says so, or the link
\* was another account's.
LEMMA LinkKeeps == ASSUME IInv, NEW k \in calls, LinkAnswered(k) PROVE IInv'
<1>1. PICK ok \in BOOLEAN :
        /\ account' = [account EXCEPT !.verified = @ \/ (ok /\ k.right)]
        /\ local' = CacheVerified(ok, k.right)
  BY DEF LinkAnswered
<1>2. account' \in Account /\ account'.verified = (account.verified \/ (ok /\ k.right))
      /\ account'.complete = account.complete
  <2> DEFINE b == account.verified \/ (ok /\ k.right)
  <2>1. b \in BOOLEAN /\ account' = [account EXCEPT !.verified = b]
    BY <1>1
  <2> HIDE DEF b
  <2>2. account' \in Account /\ account'.verified = b /\ account'.complete = account.complete
    BY <2>1 DEF IInv, Account
  <2> QED BY <2>2 DEF b
<1>3. CASE local.loggedIn /\ ok
  <2> DEFINE c == ~k.right
  <2>1. c \in BOOLEAN /\ local' = [local EXCEPT !.verified = TRUE, !.borrowed = c]
    BY <1>1, <1>3 DEF CacheVerified
  <2> HIDE DEF c
  <2>2. local' \in Cached /\ local'.complete = local.complete /\ local'.borrowed = c
    BY <2>1 DEF IInv, Cached
  <2>3. account'.verified \/ local'.borrowed
    BY <1>2, <1>3, <2>2 DEF c
  <2> QED BY <1>2, <1>3, <2>2, <2>3 DEF IInv, CacheNeverAhead
<1>4. CASE ~(local.loggedIn /\ ok)
  BY <1>1, <1>2, <1>4 DEF CacheVerified, IInv, CacheNeverAhead
<1> QED BY <1>3, <1>4

LEMMA AnswersKeep == ASSUME IInv, NEW k \in calls, Answered(k) PROVE IInv'
<1>1. CASE AccountRead(k) \/ StartRefresh(k) \/ Fails(k) \/ SendCodeAnswered(k)
           \/ (\E c \in codes : CheckCodeAnswered(k, c)) \/ ResetAnswered(k) \/ PinAnswered(k)
           \/ DataAnswered(k) \/ LogoutAnswered(k)
  <2>1. account' = account /\ (local' = local \/ local' = SignedOut)
    BY <1>1 DEF AccountRead, StartRefresh, Fails, SendCodeAnswered, CheckCodeAnswered, ResetAnswered,
                PinAnswered, DataAnswered, LogoutAnswered, server, browser
  <2> QED BY <2>1, LocalKept
<1> QED BY <1>1, SignedInKeep, ProfileKeeps, LinkKeeps DEF Answered

LEMMA RefreshKeeps == ASSUME IInv, NEW r \in refreshes, RefreshEnds(r) PROVE IInv'
<1>1. account' = account /\ (local' = local \/ local' = SignedOut)
  BY DEF RefreshEnds, RefreshAnswered, RefreshRefused, RefreshLost, server
<1> QED BY <1>1, LocalKept

LEMMA StepKeeps == IInv /\ [Next]_vars => IInv'
<1> SUFFICES ASSUME IInv, [Next]_vars PROVE IInv'
  OBVIOUS
<1>1. ASSUME NEW t \in Tabs, SentToLogin(t) PROVE IInv'
  BY <1>1, LocalKept DEF SentToLogin, browser
<1>2. CASE AccessExpires \/ RefreshExpires \/ LoginsLock \/ LockExpires
  BY <1>2, LocalKept DEF AccessExpires, RefreshExpires, LoginsLock, LockExpires, server, browser
<1>3. CASE UNCHANGED vars
  BY <1>3, LocalKept DEF vars, server, browser
<1> QED BY <1>1, <1>2, <1>3, UserKeeps, AnswersKeep, RefreshKeeps DEF Next

LEMMA InitHolds == Init => IInv
<1> SUFFICES ASSUME Init PROVE IInv
  OBVIOUS
<1>1. account \in Account
  <2>1. PICK b \in BOOLEAN : account = [exists |-> b, verified |-> b, complete |-> b]
    BY DEF Init
  <2> QED BY <2>1 DEF Account
<1>2. local = SignedOut
  BY DEF Init
<1> QED BY <1>1, <1>2 DEF IInv, CacheNeverAhead, SignedOut, Cached

\* What the browser remembers of the account is never ahead of the server, but for what
\* app/verify writes into the cached user when the link was another account's.
THEOREM CacheNeverRunsAhead == Spec => []CacheNeverAhead
<1>1. IInv => CacheNeverAhead
  BY DEF IInv
<1> QED BY <1>1, InitHolds, StepKeeps, PTL DEF Spec
-----------------------------------------------------------------------------
(* Types, and the attempts that lock an account.  The type needs two       *)
(* counts.  A refresh token not in use exists when one is issued, since    *)
(* each tab presents one at most; and the PINs typed pay for the attempts  *)
(* counted, or read by a check that may yet write them back, and for those *)
(* still to come, one for each check under way and another for each that   *)
(* may be sent again.                                                      *)

Checking(cs) == {t \in Tabs : \E k \in Checks(cs) : k.tab = t}
Retriable(cs) == {t \in Tabs : \E k \in Checks(cs) : k.tab = t /\ k.phase = "sent"}
Counts(cs) == {k.count : k \in {l \in Checks(cs) : HasRead(l)}}

CallSet == [tab: Tabs, op: Ops, from: Pages, phase: {"sent", "waiting", "retried"},
            count: 0 .. PinLimit, auth: BOOLEAN, right: BOOLEAN, shown: BOOLEAN]
CallsOK(cs) ==
  /\ cs \subseteq CallSet
  /\ \A k, l \in Checks(cs) : k.tab = l.tab => k = l
  /\ \A k \in cs : k.op = "forgotRequest" => k.from \in {"password", "pin"}

\* No check is under way in ds that is not in cs.
Fewer(ds, cs) ==
  /\ CallsOK(ds)
  /\ Checking(ds) \subseteq Checking(cs) /\ Retriable(ds) \subseteq Retriable(cs)
  /\ Counts(ds) \subseteq Counts(cs)

PinSet == [attempts: 0 .. PinLimit - 1, locked: {"no", "pins", "logins"}]
Paid(cs, p, n) ==
  /\ Cardinality(Checking(cs)) <= n
  /\ p.attempts + Cardinality(Checking(cs)) + Cardinality(Retriable(cs)) <= 2 * n
  /\ p.locked = "pins" => 2 * n >= PinLimit
  /\ \A m \in Counts(cs) : m + Cardinality(Checking(cs)) + Cardinality(Retriable(cs)) <= 2 * n

Presented(rs) == {r.token : r \in rs}
InUse(ts, rs, c) == (ts \cup Presented(rs) \cup {c.refresh}) \ {NoToken}
TokensOK(ts, rs, c) ==
  /\ ts \subseteq Tokens
  /\ rs \subseteq [tab: Tabs, token: Tokens \cup {NoToken}]
  /\ \A r, s \in rs : r.tab = s.tab => r = s
  /\ c \in [access: BOOLEAN, refresh: Tokens \cup {NoToken}]
  /\ Cardinality(InUse(ts, rs, c)) <= Cardinality(Tabs) + 1

Codes == {"plain", "password", "pin"}
TabSet == [view: [page: Pages, step: 1 .. 4, loading: BOOLEAN], unlocked: BOOLEAN, leaving: BOOLEAN]

TInv ==
  /\ account \in Account /\ codes \subseteq Codes /\ local \in Cached /\ itinerary \in Itineraries
  /\ tab \in [Tabs -> TabSet]
  /\ CallsOK(calls)
  /\ pin \in PinSet /\ typed \in 0 .. MaxPins /\ Paid(calls, pin, typed)
  /\ TokensOK(live, refreshes, cookies)

\* Sets of tabs, and their sizes.
LEMMA TabsCount ==
  ASSUME NEW S \in SUBSET Tabs, NEW T \in SUBSET S
  PROVE  /\ IsFiniteSet(S) /\ Cardinality(S) \in Nat /\ Cardinality(T) \in Nat
         /\ Cardinality(T) <= Cardinality(S) /\ Cardinality(S) <= Cardinality(Tabs)
         /\ Cardinality(Tabs) \in Nat
BY SessionAssumption, FS_Subset, FS_CardinalityType

LEMMA TabsAdd ==
  ASSUME NEW S \in SUBSET Tabs, NEW t \in Tabs
  PROVE  /\ Cardinality(S \cup {t}) <= Cardinality(S) + 1
         /\ t \notin S => Cardinality(S \cup {t}) = Cardinality(S) + 1
         /\ t \in S => Cardinality(S \ {t}) = Cardinality(S) - 1
BY TabsCount, FS_AddElement, FS_RemoveElement

\* A nonempty set of numbers has a least one.
LEMMA Least ==
  ASSUME NEW S \in SUBSET Nat, S # {}
  PROVE  \E n \in S : \A m \in S : n <= m
<1>1. \E n \in S : \A m \in S : ~(<<m, n>> \in OpToRel(<, Nat))
  BY NatLessThanWellFounded, WFMin
<1>2. PICK n \in S : \A m \in S : ~(<<m, n>> \in OpToRel(<, Nat))
  BY <1>1
<1>3. \A m \in S : ~(m < n)
  BY <1>2, Zenon DEF OpToRel
<1> QED BY <1>3

-----------------------------------------------------------------------------
(* Requests                                                                *)

LEMMA FewerCalls ==
  ASSUME NEW cs, CallsOK(cs), NEW ds \in SUBSET cs
  PROVE  Fewer(ds, cs)
BY DEF Fewer, CallsOK, Checking, Retriable, Counts, Checks

\* Each check of ds is one of cs, further on.
LEMMA SameChecks ==
  ASSUME NEW cs, CallsOK(cs), NEW ds, CallsOK(ds),
         \A d \in Checks(ds) : \E k \in Checks(cs) :
           /\ d.tab = k.tab /\ d.count = k.count /\ (d.phase = "sent" => k.phase = "sent")
  PROVE  Fewer(ds, cs)
<1>1. Checking(ds) \subseteq Checking(cs) /\ Retriable(ds) \subseteq Retriable(cs)
  BY DEF Checking, Retriable
<1>2. Counts(ds) \subseteq Counts(cs)
  BY DEF Counts, HasRead
<1> QED BY <1>1, <1>2 DEF Fewer

LEMMA DetachedCalls ==
  ASSUME NEW cs, CallsOK(cs), NEW t \in Tabs
  PROVE  Fewer(Detached(t, cs), cs)
<1> DEFINE D(k) == IF k.tab = t THEN [k EXCEPT !.shown = FALSE] ELSE k
<1>1. \A k \in cs : /\ D(k) \in CallSet /\ D(k).tab = k.tab /\ D(k).op = k.op
                    /\ D(k).phase = k.phase /\ D(k).from = k.from /\ D(k).count = k.count
  BY DEF CallsOK, CallSet
<1>2. Detached(t, cs) = {D(k) : k \in cs}
  BY DEF Detached
<1> HIDE DEF D
<1>3. Detached(t, cs) \subseteq CallSet
  BY <1>1, <1>2
<1>4. \A k \in Detached(t, cs) : k.op = "forgotRequest" => k.from \in {"password", "pin"}
  BY <1>1, <1>2 DEF CallsOK
<1>5. \A k, l \in Checks(Detached(t, cs)) : k.tab = l.tab => k = l
  BY <1>1, <1>2 DEF CallsOK, Checks
<1>6. CallsOK(Detached(t, cs))
  BY <1>3, <1>4, <1>5 DEF CallsOK
<1>7. \A d \in Checks(Detached(t, cs)) : \E k \in Checks(cs) :
        d.tab = k.tab /\ d.count = k.count /\ (d.phase = "sent" => k.phase = "sent")
  BY <1>1, <1>2 DEF Checks
<1> QED BY <1>6, <1>7, SameChecks

\* A request that does not check the PIN.
LEMMA OtherCall ==
  ASSUME NEW cs, CallsOK(cs), NEW k \in CallSet, k.op # "verifyPin",
         k.op = "forgotRequest" => k.from \in {"password", "pin"}
  PROVE  Fewer(cs \cup {k}, cs)
BY DEF Fewer, CallsOK, Checking, Retriable, Counts, Checks

LEMMA MadeCall ==
  ASSUME TInv, NEW t \in Tabs, NEW o \in Ops, NEW p \in Pages, NEW right \in BOOLEAN
  PROVE  /\ Call(t, o, p, right) \in CallSet
         /\ Call(t, o, p, right).tab = t /\ Call(t, o, p, right).op = o
         /\ Call(t, o, p, right).from = p /\ Call(t, o, p, right).phase = "sent"
         /\ ~HasRead(Call(t, o, p, right))
BY SessionAssumption DEF TInv, TokensOK, Call, CallSet, Unread, HasRead

LEMMA FewerTwice ==
  ASSUME NEW cs, NEW ds, NEW es, Fewer(ds, cs), Fewer(es, ds)
  PROVE  Fewer(es, cs)
BY DEF Fewer

\* Less under way needs no more PINs.
LEMMA StillPaid ==
  ASSUME NEW cs, NEW ds, NEW p \in PinSet, NEW q \in PinSet, NEW n \in Nat, Paid(cs, p, n),
         CallsOK(cs), Fewer(ds, cs), q.attempts = p.attempts, q.locked = "pins" => p.locked = "pins"
  PROVE  Paid(ds, q, n)
<1>1. /\ Cardinality(Checking(ds)) <= Cardinality(Checking(cs))
      /\ Cardinality(Retriable(ds)) <= Cardinality(Retriable(cs))
      /\ Cardinality(Checking(ds)) \in Nat /\ Cardinality(Retriable(ds)) \in Nat
      /\ Cardinality(Checking(cs)) \in Nat /\ Cardinality(Retriable(cs)) \in Nat
  BY TabsCount DEF Fewer, Checking, Retriable
<1>2. \A m \in Counts(ds) : m \in Nat /\ m \in Counts(cs)
  BY SessionAssumption DEF Fewer, Counts, Checks, CallsOK, CallSet
<1> QED BY <1>1, <1>2, SessionAssumption DEF Paid, PinSet

-----------------------------------------------------------------------------
(* Tokens                                                                  *)

\* Each tab presents at most one.
LEMMA PresentedFew ==
  ASSUME NEW rs, rs \subseteq [tab: Tabs, token: Tokens \cup {NoToken}],
         \A r, s \in rs : r.tab = s.tab => r = s
  PROVE  IsFiniteSet(Presented(rs)) /\ Cardinality(Presented(rs)) <= Cardinality(Tabs)
<1> DEFINE f == [r \in rs |-> r.tab]
           g == [r \in rs |-> r.token]
<1>1. f \in Injection(rs, Tabs)
  BY DEF Injection, IsInjective
<1>2. IsFiniteSet(rs) /\ Cardinality(rs) <= Cardinality(Tabs)
  BY <1>1, SessionAssumption, FS_Injection
<1>3. g \in Surjection(rs, Presented(rs))
  BY DEF Surjection, Presented
<1>4. IsFiniteSet(Presented(rs)) /\ Cardinality(Presented(rs)) <= Cardinality(rs)
  BY <1>2, <1>3, FS_Surjection
<1> HIDE DEF f, g
<1> QED BY <1>2, <1>4, SessionAssumption, FS_CardinalityType

LEMMA TokensFinite ==
  /\ IsFiniteSet(Tokens) /\ Cardinality(Tokens) = Cardinality(Tabs) + 2
  /\ Cardinality(Tabs) \in Nat /\ Tokens \subseteq Nat /\ NoToken \notin Tokens
<1>1. Cardinality(Tabs) \in Nat
  BY SessionAssumption, FS_CardinalityType
<1>2. Cardinality(Tabs) + 2 \in Int /\ 1 <= Cardinality(Tabs) + 2
  BY <1>1
<1>3. IsFiniteSet(Tokens) /\ Cardinality(Tokens) = Cardinality(Tabs) + 2
  BY <1>1, <1>2, FS_Interval DEF Tokens
<1> QED BY <1>1, <1>3 DEF Tokens, NoToken

LEMMA FewerTokens ==
  ASSUME NEW ts, NEW rs, NEW c, TokensOK(ts, rs, c),
         NEW us \in SUBSET ts, NEW qs \in SUBSET rs,
         NEW d \in [access: BOOLEAN, refresh: Tokens \cup {NoToken}],
         d.refresh \in {c.refresh, NoToken}
  PROVE  TokensOK(us, qs, d)
<1>1. InUse(us, qs, d) \subseteq InUse(ts, rs, c)
  BY DEF InUse, Presented
<1>2. InUse(ts, rs, c) \subseteq Tokens
  BY DEF TokensOK, InUse, Presented
<1>3. /\ Cardinality(InUse(us, qs, d)) <= Cardinality(InUse(ts, rs, c))
      /\ Cardinality(InUse(us, qs, d)) \in Nat /\ Cardinality(InUse(ts, rs, c)) \in Nat
  BY <1>1, <1>2, TokensFinite, FS_Subset, FS_CardinalityType
<1> QED BY <1>3, TokensFinite DEF TokensOK

\* There is a token to issue, and those in use stay few: the server forgets the others.
LEMMA Issued ==
  ASSUME NEW ts, NEW rs, NEW c, TokensOK(ts, rs, c), Issue(ts, rs, c)
  PROVE  TokensOK(live', rs, cookies')
<1> DEFINE old == ts \cup Presented(rs)
           n == Unused(ts, rs)
<1>1. n \in Tokens
  <2>1. InUse(ts, rs, c) \subseteq Tokens /\ old \ {NoToken} \subseteq InUse(ts, rs, c)
    BY DEF TokensOK, InUse, Presented
  <2>2. Cardinality(InUse(ts, rs, c)) < Cardinality(Tokens)
    BY <2>1, TokensFinite, FS_Subset, FS_CardinalityType DEF TokensOK
  <2>3. Tokens \ old # {}
    <3>1. InUse(ts, rs, c) # Tokens
      BY <2>2, TokensFinite
    <3> QED BY <2>1, <3>1, TokensFinite
  <2>4. \E m \in Tokens \ old : \A l \in Tokens \ old : m <= l
    BY <2>3, Least, TokensFinite
  <2>5. n = CHOOSE m \in Tokens \ old : \A l \in Tokens \ old : m <= l
    BY DEF Unused, Presented
  <2> HIDE DEF n, old
  <2> QED BY <2>4, <2>5
<1>2. cookies' = [access |-> TRUE, refresh |-> n] /\ live' = Held(ts, rs, [c EXCEPT !.refresh = n]) \cup {n}
  BY DEF Issue
<1> HIDE DEF n
<1>3. [c EXCEPT !.refresh = n].refresh = n
  BY DEF TokensOK
<1>4. live' \subseteq Tokens /\ live' \subseteq Presented(rs) \cup {n}
  BY <1>1, <1>2, <1>3 DEF Held, Presented, TokensOK
<1>5. cookies' \in [access: BOOLEAN, refresh: Tokens \cup {NoToken}] /\ cookies'.refresh = n
  BY <1>1, <1>2
<1>6. InUse(live', rs, cookies') \subseteq Presented(rs) \cup {n}
  BY <1>4, <1>5 DEF InUse
<1>7. IsFiniteSet(Presented(rs)) /\ Cardinality(Presented(rs)) <= Cardinality(Tabs)
  BY PresentedFew DEF TokensOK
<1>8. /\ IsFiniteSet(Presented(rs) \cup {n})
      /\ Cardinality(Presented(rs) \cup {n}) <= Cardinality(Tabs) + 1
  <2>1. /\ IsFiniteSet(Presented(rs) \cup {n})
        /\ Cardinality(Presented(rs) \cup {n}) <= Cardinality(Presented(rs)) + 1
    <3>1. Cardinality(Presented(rs)) \in Nat
      BY <1>7, FS_CardinalityType
    <3>2. /\ IsFiniteSet(Presented(rs) \cup {n})
          /\ \/ Cardinality(Presented(rs) \cup {n}) = Cardinality(Presented(rs))
             \/ Cardinality(Presented(rs) \cup {n}) = Cardinality(Presented(rs)) + 1
      BY <1>7, FS_AddElement, Zenon
    <3> QED BY <3>1, <3>2
  <2>2. Cardinality(Presented(rs)) \in Nat /\ Cardinality(Presented(rs) \cup {n}) \in Nat
    BY <1>7, <2>1, FS_CardinalityType
  <2> QED BY <1>7, <2>1, <2>2, TokensFinite
<1>9. Cardinality(InUse(live', rs, cookies')) <= Cardinality(Tabs) + 1
  BY <1>6, <1>8, TokensFinite, FS_Subset, FS_CardinalityType
<1> QED BY <1>4, <1>5, <1>9 DEF TokensOK

\* A refresh presents the token of the cookies, which is in use already.
LEMMA RefreshForKeeps ==
  ASSUME TInv, NEW t \in Tabs
  PROVE  TokensOK(live, RefreshFor(t), cookies)
<1>1. CASE \E r \in refreshes : r.tab = t
  BY <1>1 DEF TInv, RefreshFor
<1>2. CASE ~\E r \in refreshes : r.tab = t
  <2> DEFINE q == [tab |-> t, token |-> cookies.refresh]
  <2>1. RefreshFor(t) = refreshes \cup {q}
    BY <1>2 DEF RefreshFor
  <2>2. q \in [tab: Tabs, token: Tokens \cup {NoToken}]
    BY DEF TInv, TokensOK
  <2>3. InUse(live, refreshes \cup {q}, cookies) = InUse(live, refreshes, cookies)
    BY DEF InUse, Presented
  <2>4. \A r, s \in refreshes \cup {q} : r.tab = s.tab => r = s
    BY <1>2 DEF TInv, TokensOK
  <2> HIDE DEF q
  <2> QED BY <2>1, <2>2, <2>3, <2>4 DEF TInv, TokensOK
<1> QED BY <1>1, <1>2

LEMMA TokensStay ==
  ASSUME TInv, live' \subseteq live, refreshes' \subseteq refreshes,
         cookies' = cookies \/ cookies' = [cookies EXCEPT !.access = FALSE]
         \/ cookies' = [access |-> FALSE, refresh |-> NoToken]
  PROVE  TokensOK(live', refreshes', cookies')
<1>1. /\ cookies' \in [access: BOOLEAN, refresh: Tokens \cup {NoToken}]
      /\ cookies'.refresh \in {cookies.refresh, NoToken}
  <2>1. cookies \in [access: BOOLEAN, refresh: Tokens \cup {NoToken}]
    BY DEF TInv, TokensOK
  <2>2. CASE cookies' = [cookies EXCEPT !.access = FALSE]
    BY <2>1, <2>2
  <2>3. CASE cookies' = [access |-> FALSE, refresh |-> NoToken]
    BY <2>3
  <2> QED BY <2>1, <2>2, <2>3
<1> QED BY <1>1, FewerTokens DEF TInv

LEMMA TokensKeep == ASSUME TInv, [Next]_vars PROVE TokensOK(live', refreshes', cookies')
<1>1. CASE UNCHANGED vars \/ AccessExpires \/ RefreshExpires \/ LoginsLock \/ LockExpires
  BY <1>1, TokensStay DEF vars, server, browser, AccessExpires, RefreshExpires, LoginsLock, LockExpires
<1>2. ASSUME NEW t \in Tabs, UserStep(t) PROVE TokensOK(live', refreshes', cookies')
  <2>1. UNCHANGED <<live, refreshes, cookies>>
    BY <1>2 DEF UserStep, Visit, LoginForm, TwoFactorForm, GoogleButton, SignupForm, ForgotForm,
           Back, ProfileForm, ResendButton, PinDialog, PageData, LogoutButton, PinSessionEnds, Send,
           server, browser
  <2> QED BY <2>1, TokensStay
<1>3. ASSUME NEW t \in Tabs, SentToLogin(t) PROVE TokensOK(live', refreshes', cookies')
  BY <1>3, TokensStay DEF SentToLogin, browser
<1>4. ASSUME NEW r \in refreshes, RefreshEnds(r) PROVE TokensOK(live', refreshes', cookies')
  <2>1. CASE RefreshAnswered(r)
    <3>1. TokensOK(live \ {r.token}, refreshes \ {r}, cookies)
      BY FewerTokens DEF TInv, TokensOK
    <3>2. Issue(live \ {r.token}, refreshes \ {r}, cookies) /\ refreshes' = refreshes \ {r}
      BY <2>1 DEF RefreshAnswered
    <3> QED BY <3>1, <3>2, Issued
  <2>2. CASE RefreshRefused(r) \/ RefreshLost(r)
    BY <2>2, TokensStay DEF RefreshRefused, RefreshLost, server
  <2> QED BY <1>4, <2>1, <2>2 DEF RefreshEnds
<1>5. ASSUME NEW k \in calls, Answered(k) PROVE TokensOK(live', refreshes', cookies')
  <2>1. CASE StartRefresh(k)
    <3>1. k.tab \in Tabs
      BY DEF TInv, CallsOK, CallSet
    <3>2. refreshes' = RefreshFor(k.tab) /\ UNCHANGED <<live, cookies>>
      BY <2>1 DEF StartRefresh, browser
    <3> QED BY <3>1, <3>2, RefreshForKeeps
  <2>2. ASSUME NEW a, NEW p, SignIn(k, a, p) PROVE TokensOK(live', refreshes', cookies')
    BY <2>2, Issued DEF SignIn, TInv
  <2>3. CASE LoginAnswered(k) \/ TwoFactorAnswered(k) \/ GoogleAnswered(k) \/ SignupAnswered(k)
    <3>1. UNCHANGED <<server, browser, refreshes>> \/ \E a, p : SignIn(k, a, p)
      BY <2>3 DEF LoginAnswered, TwoFactorAnswered, GoogleAnswered, SignupAnswered
    <3> QED BY <2>2, <3>1, TokensStay DEF server, browser
  <2>4. CASE \/ AccountRead(k) \/ Fails(k) \/ SendCodeAnswered(k) \/ (\E c \in codes : CheckCodeAnswered(k, c))
             \/ ResetAnswered(k) \/ ProfileAnswered(k) \/ LinkAnswered(k) \/ PinAnswered(k)
             \/ DataAnswered(k) \/ LogoutAnswered(k)
    BY <2>4, TokensStay DEF AccountRead, Fails, SendCodeAnswered, CheckCodeAnswered, ResetAnswered, ProfileAnswered,
       LinkAnswered, PinAnswered, DataAnswered, LogoutAnswered, server, browser
  <2> QED BY <1>5, <2>1, <2>3, <2>4 DEF Answered
<1> QED BY <1>1, <1>2, <1>3, <1>4, <1>5 DEF Next

-----------------------------------------------------------------------------
(* Steps that ask for no PIN check                                         *)

Lighter == Fewer(calls', calls) /\ tab' \in [Tabs -> TabSet]

\* The count is kept, and no lock set for PINs.
Eased ==
  /\ typed' = typed
  /\ pin' \in {pin} \cup {[pin EXCEPT !.locked = s] : s \in {"no", "logins"}}

LEMMA Dropped ==
  ASSUME TInv, calls' \subseteq calls, tab' \in [Tabs -> TabSet]
  PROVE  Lighter
BY FewerCalls DEF Lighter, TInv

LEMMA DroppedDetached ==
  ASSUME TInv, NEW cs \in SUBSET calls, NEW t \in Tabs, calls' = Detached(t, cs),
         tab' \in [Tabs -> TabSet]
  PROVE  Lighter
<1>1. Fewer(cs, calls)
  BY FewerCalls DEF TInv
<1>2. Fewer(Detached(t, cs), cs)
  BY <1>1, DetachedCalls DEF Fewer
<1> QED BY <1>1, <1>2, FewerTwice DEF Lighter

LEMMA ShowTyped ==
  ASSUME NEW p \in Pages
  PROVE  Show(p) \in [page: Pages, step: 1 .. 4, loading: BOOLEAN]
BY DEF Show

LEMMA PushKeeps ==
  ASSUME TInv, NEW t \in Tabs, NEW p \in Pages, NEW l, NEW cs \in SUBSET calls, Push(t, p, l, cs)
  PROVE  Lighter
<1> DEFINE q == Guarded(p, l)
<1>1. q \in Pages
  BY DEF Guarded, Pages
<1>2. tab' = [tab EXCEPT ![t].view = [Show(q) EXCEPT !.loading = q = "link"]]
  BY DEF Push
<1>0. PICK own \in BOOLEAN :
        calls' = Detached(t, cs) \cup {Call(t, o, q, own) : o \in {"link"} \cap {q}}
  BY DEF Push
<1> HIDE DEF q
<1> DEFINE b == q = "link"
           v == [Show(q) EXCEPT !.loading = b]
<1>3. v \in [page: Pages, step: 1 .. 4, loading: BOOLEAN]
  <2>1. b \in BOOLEAN
    OBVIOUS
  <2> HIDE DEF b
  <2> QED BY <1>1, <2>1, ShowTyped
<1>4. tab' = [tab EXCEPT ![t].view = v]
  BY <1>2
<1> HIDE DEF v
<1>5. tab' \in [Tabs -> TabSet]
  BY <1>3, <1>4 DEF TInv, TabSet
<1>6. CASE q = "link"
  <2>1. /\ Call(t, "link", q, own) \in CallSet /\ Call(t, "link", q, own).op = "link"
    BY <1>1, MadeCall DEF Ops
  <2>2. calls' = Detached(t, cs) \cup {Call(t, "link", q, own)}
    BY <1>0, <1>6
  <2>3. Fewer(cs, calls)
    BY FewerCalls DEF TInv
  <2>4. Fewer(Detached(t, cs), cs)
    BY <2>3, DetachedCalls DEF Fewer
  <2>5. Fewer(calls', Detached(t, cs))
    BY <2>1, <2>2, <2>4, OtherCall DEF Fewer
  <2> QED BY <1>5, <2>3, <2>4, <2>5, FewerTwice DEF Lighter
<1>7. CASE q # "link"
  BY <1>0, <1>5, <1>7, DroppedDetached
<1> QED BY <1>6, <1>7

LEMMA SendKeeps ==
  ASSUME TInv, NEW t \in Tabs, NEW o \in Ops \ {"verifyPin"}, NEW right \in BOOLEAN, Send(t, o, right),
         o = "forgotRequest" => tab[t].view.page \in {"password", "pin"}
  PROVE  Lighter
<1> DEFINE p == tab[t].view.page
<1>1. p \in Pages
  BY DEF TInv, TabSet
<1>2. calls' = calls \cup {Call(t, o, p, right)} /\ tab' = [tab EXCEPT ![t].view.loading = TRUE]
  BY DEF Send
<1>3. tab' \in [Tabs -> TabSet]
  BY <1>2 DEF TInv, TabSet
<1> HIDE DEF p
<1>4. /\ Call(t, o, p, right) \in CallSet /\ Call(t, o, p, right).op = o
      /\ Call(t, o, p, right).from = p
  BY <1>1, MadeCall
<1> QED BY <1>2, <1>3, <1>4, OtherCall DEF Lighter, TInv, p

\* The requests of a refresh that fails.
LEMMA GiveKeeps ==
  ASSUME TInv, NEW t \in Tabs, NEW r \in TabSet, NEW ks \in SUBSET calls, Give(t, r, ks)
  PROVE  Fewer(calls', calls \ ks) /\ Lighter
<1> DEFINE quits == {k \in ks : k.op = "logout"}
<1>1. Fewer(calls \ ks, calls) /\ CallsOK(calls \ ks)
  BY FewerCalls DEF TInv, Fewer
<1>2. CASE quits = {}
  <2>1. [r EXCEPT !.view.loading = FALSE] \in TabSet
    BY DEF TabSet
  <2>2. tab' \in [Tabs -> TabSet] /\ calls' = calls \ ks
    BY <1>2, <2>1 DEF Give, TInv
  <2> QED BY <1>1, <2>2 DEF Fewer, Lighter
<1>3. CASE quits # {}
  <2>1. PICK k \in quits :
          /\ tab' = [tab EXCEPT ![t] = [r EXCEPT !.view = Show(LogoutPage(k)), !.unlocked = FALSE]]
          /\ calls' = Detached(t, calls \ ks)
    BY <1>3 DEF Give
  <2>2. Show(LogoutPage(k)) \in [page: Pages, step: 1 .. 4, loading: BOOLEAN]
    BY ShowTyped DEF LogoutPage, Pages
  <2>3. [r EXCEPT !.view = Show(LogoutPage(k)), !.unlocked = FALSE] \in TabSet
    BY <2>2 DEF TabSet
  <2>4. tab' \in [Tabs -> TabSet]
    BY <2>1, <2>3 DEF TInv
  <2>5. Fewer(calls', calls \ ks)
    BY <1>1, <2>1, DetachedCalls
  <2> QED BY <1>1, <2>4, <2>5, FewerTwice DEF Lighter
<1> QED BY <1>2, <1>3

LEMMA LoadingTyped ==
  ASSUME TInv, NEW k \in calls
  PROVE  /\ Loading(k, FALSE) \in [Tabs -> TabSet]
         /\ \A s \in {2, 3, 4} : Step(k, s) \in [Tabs -> TabSet]
<1>1. k.tab \in Tabs
  BY DEF TInv, CallsOK, CallSet
<1>2. tab \in [Tabs -> TabSet]
  BY DEF TInv
<1>3. Loading(k, FALSE) \in [Tabs -> TabSet]
  BY <1>1, <1>2 DEF Loading, TabSet
<1>4. tab[k.tab].view \in [page: Pages, step: 1 .. 4, loading: BOOLEAN]
  BY <1>1, <1>2 DEF TabSet
<1>5. ASSUME NEW s \in {2, 3, 4} PROVE Step(k, s) \in [Tabs -> TabSet]
  <2>1. s \in 1 .. 4
    OBVIOUS
  <2>2. [tab[k.tab].view EXCEPT !.step = s, !.loading = FALSE]
          \in [page: Pages, step: 1 .. 4, loading: BOOLEAN]
    BY <1>4, <2>1
  <2> QED BY <1>1, <1>2, <2>2 DEF Step, TabSet
<1> QED BY <1>3, <1>5

LEMMA UserLighter ==
  ASSUME TInv, NEW t \in Tabs, UserStep(t), ~\E right \in BOOLEAN : PinDialog(t, right)
  PROVE  Lighter /\ UNCHANGED <<pin, typed>>
<1>1. UNCHANGED <<pin, typed>>
  BY DEF UserStep, Visit, LoginForm, TwoFactorForm, GoogleButton, SignupForm, ForgotForm, Back,
         ProfileForm, ResendButton, PageData, LogoutButton, PinSessionEnds, Send, server, history
<1>2. ASSUME NEW p \in Pages, Visit(t, p) PROVE Lighter
  BY <1>2, PushKeeps DEF Visit
<1>3. ASSUME NEW o \in Ops \ {"verifyPin", "forgotRequest"}, NEW right \in BOOLEAN, Send(t, o, right)
      PROVE  Lighter
  BY <1>3, SendKeeps
<1>4. CASE LoginForm(t) \/ GoogleButton(t) \/ SignupForm(t) \/ ProfileForm(t) \/ ResendButton(t)
           \/ PageData(t) \/ LogoutButton(t)
  <2>1. \E o \in {"login", "google", "sendOtp", "verifyOtp", "signup", "completeProfile", "resend",
                  "data", "logout"}, right \in BOOLEAN : Send(t, o, right)
    BY <1>4 DEF LoginForm, GoogleButton, SignupForm, ProfileForm, ResendButton, PageData, LogoutButton
  <2> QED BY <1>1, <1>3, <2>1 DEF Ops
<1>5. ASSUME NEW right \in BOOLEAN, TwoFactorForm(t, right) PROVE Lighter
  BY <1>3, <1>5 DEF TwoFactorForm, Ops
<1>6. ASSUME NEW p \in {"password", "pin"}, NEW right \in BOOLEAN, ForgotForm(t, p, right) PROVE Lighter
  <2>1. CASE (Ready(t, p, 1) \/ At(t, p, 2)) /\ Send(t, "forgotRequest", TRUE)
    <3>1. tab[t].view.page = p
      BY <2>1 DEF Ready, At
    <3>2. "forgotRequest" \in Ops \ {"verifyPin"}
      BY DEF Ops
    <3>3. \E yes \in BOOLEAN : Send(t, "forgotRequest", yes)
      BY <2>1
    <3> QED BY <1>6, <3>1, <3>2, <3>3, SendKeeps
  <2>2. CASE \E o \in {"forgotVerify", "reset"}, yes \in BOOLEAN : Send(t, o, yes)
    BY <1>3, <2>2 DEF Ops
  <2> QED BY <1>6, <2>1, <2>2 DEF ForgotForm
<1>7. CASE Back(t)
  <2>1. tab[t].view.step \in {2, 3}
    BY <1>7 DEF Back, At
  <2>2. tab' = [tab EXCEPT ![t].view.step = @ - 1] /\ calls' = calls
    BY <1>7 DEF Back
  <2>3. tab' \in [Tabs -> TabSet]
    BY <2>1, <2>2 DEF TInv, TabSet
  <2> QED BY <1>1, <2>2, <2>3, Dropped
<1>8. CASE PinSessionEnds(t)
  <2>1. tab' \in [Tabs -> TabSet] /\ calls' = calls
    BY <1>8 DEF PinSessionEnds, TInv, TabSet
  <2> QED BY <1>1, <2>1, Dropped
<1> QED BY <1>1, <1>2, <1>4, <1>5, <1>6, <1>7, <1>8 DEF UserStep

LEMMA SignInLighter ==
  ASSUME TInv, NEW k \in calls, NEW a, NEW p \in Pages, SignIn(k, a, p)
  PROVE  Lighter /\ Eased
<1>1. k.tab \in Tabs
  BY DEF TInv, CallsOK, CallSet
<1>2. Eased
  BY DEF SignIn, history, Eased
<1> QED BY <1>1, <1>2, PushKeeps DEF SignIn

\* A request sent again keeps its tab, and may not be sent a third time.
LEMMA ResentLighter ==
  ASSUME TInv, NEW r \in refreshes, RefreshAnswered(r)
  PROVE  Lighter /\ Eased
<1> DEFINE W == Waiting(r.tab)
           R(k) == [k EXCEPT !.phase = "retried", !.auth = TRUE]
<1>1. calls' = (calls \ W) \cup {R(k) : k \in W} /\ tab' = tab /\ Eased
  BY DEF RefreshAnswered, Resent, history, Eased
<1>2. W \subseteq calls /\ calls \subseteq CallSet
  BY DEF Waiting, TInv, CallsOK
<1>3. \A k \in W : /\ R(k) \in CallSet /\ R(k).tab = k.tab /\ R(k).op = k.op
                   /\ R(k).phase = "retried" /\ R(k).from = k.from /\ R(k).count = k.count
  BY <1>2 DEF CallSet
<1> HIDE DEF W, R
<1>4. CallsOK(calls')
  <2>1. calls' \subseteq CallSet /\ \A k \in calls' : k.op = "forgotRequest" => k.from \in {"password", "pin"}
    BY <1>1, <1>2, <1>3 DEF TInv, CallsOK
  <2>2. \A k, l \in Checks(calls') : k.tab = l.tab => k = l
    BY <1>1, <1>2, <1>3 DEF TInv, CallsOK, Checks
  <2> QED BY <2>1, <2>2 DEF CallsOK
<1>5. \A d \in Checks(calls') : \E k \in Checks(calls) :
        d.tab = k.tab /\ d.count = k.count /\ (d.phase = "sent" => k.phase = "sent")
  BY <1>1, <1>2, <1>3 DEF Checks
<1>6. Fewer(calls', calls)
  BY <1>4, <1>5, SameChecks DEF TInv
<1> QED BY <1>1, <1>6 DEF Lighter, TInv

LEMMA RefreshLighter ==
  ASSUME TInv, NEW r \in refreshes, RefreshEnds(r)
  PROVE  Lighter /\ Eased
<1>1. r.tab \in Tabs /\ tab[r.tab] \in TabSet
  BY DEF TInv, TokensOK
<1>2. Waiting(r.tab) \subseteq calls
  BY DEF Waiting
<1>3. CASE RefreshRefused(r)
  <2>1. [tab[r.tab] EXCEPT !.unlocked = FALSE, !.leaving = TRUE] \in TabSet
    BY <1>1 DEF TabSet
  <2> QED BY <1>1, <1>2, <1>3, <2>1, GiveKeeps DEF RefreshRefused, server, history, Eased
<1>4. CASE RefreshLost(r)
  BY <1>1, <1>2, <1>4, GiveKeeps DEF RefreshLost, history, Eased
<1> QED BY <1>3, <1>4, ResentLighter DEF RefreshEnds

LEMMA AnswersLighter ==
  ASSUME TInv, NEW k \in calls, Answered(k), ~AccountRead(k),
         ~StartRefresh(k), ~Fails(k), ~PinAnswered(k)
  PROVE  Lighter /\ Eased
<1>1. k.tab \in Tabs /\ calls \ {k} \subseteq calls /\ k.from \in Pages /\ tab[k.tab] \in TabSet
  BY DEF TInv, CallsOK, CallSet
<1>2. CASE LoginAnswered(k) \/ TwoFactorAnswered(k) \/ GoogleAnswered(k) \/ SignupAnswered(k)
  <2>1. \/ tab' = Step(k, 2) /\ calls' = calls \ {k} /\ Eased
        \/ \E a, p : SignIn(k, a, p) /\ p \in {"dashboard", "completeProfile"}
    BY <1>2 DEF LoginAnswered, TwoFactorAnswered, GoogleAnswered, SignupAnswered, server, history, Eased
  <2>2. {"dashboard", "completeProfile"} \subseteq Pages
    BY DEF Pages
  <2> QED BY <2>1, <2>2, SignInLighter, LoadingTyped, Dropped
<1>3. CASE SendCodeAnswered(k) \/ (\E c \in codes : CheckCodeAnswered(k, c)) \/ ResetAnswered(k)
  <2>1. (\E s \in {2, 3, 4} : tab' = Step(k, s)) /\ calls' = calls \ {k} /\ Eased
    BY <1>3 DEF SendCodeAnswered, CheckCodeAnswered, ResetAnswered, server, history, Eased
  <2> QED BY <2>1, LoadingTyped, Dropped
<1>4. CASE LinkAnswered(k) \/ DataAnswered(k)
  <2>1. tab' = Loading(k, FALSE) /\ calls' = calls \ {k} /\ Eased
    BY <1>4 DEF LinkAnswered, DataAnswered, server, history, Eased
  <2> QED BY <2>1, LoadingTyped, Dropped
<1>5. CASE ProfileAnswered(k)
  <2>1. Push(k.tab, "dashboard", local', calls \ {k}) /\ Eased
    BY <1>5 DEF ProfileAnswered, history, Eased
  <2>2. "dashboard" \in Pages
    BY DEF Pages
  <2> QED BY <1>1, <2>1, <2>2, PushKeeps
<1>6. CASE LogoutAnswered(k)
  <2>1. /\ tab' = [tab EXCEPT ![k.tab].view = Show(LogoutPage(k)), ![k.tab].unlocked = FALSE]
        /\ calls' = Detached(k.tab, calls \ {k}) /\ Eased
    BY <1>6 DEF LogoutAnswered, history, Eased
  <2>2. Show(LogoutPage(k)) \in [page: Pages, step: 1 .. 4, loading: BOOLEAN]
    BY ShowTyped DEF LogoutPage, Pages
  <2>3. tab' \in [Tabs -> TabSet]
    BY <1>1, <2>1, <2>2 DEF TInv, TabSet
  <2> QED BY <1>1, <2>1, <2>3, DroppedDetached
<1> QED BY <1>2, <1>3, <1>4, <1>5, <1>6 DEF Answered

LEMMA OutsideLighter ==
  ASSUME TInv, AccessExpires \/ RefreshExpires \/ LoginsLock \/ LockExpires \/ UNCHANGED vars
  PROVE  Lighter /\ Eased
<1>1. calls' = calls /\ tab' = tab /\ Eased
  BY DEF AccessExpires, RefreshExpires, LoginsLock, LockExpires, vars, server, history, Eased
<1> QED BY <1>1, Dropped DEF TInv

LEMMA SentTyped ==
  ASSUME TInv, NEW t \in Tabs, SentToLogin(t)
  PROVE  tab' \in [Tabs -> TabSet]
<1>1. Show("login") \in [page: Pages, step: 1 .. 4, loading: BOOLEAN]
  BY ShowTyped DEF Pages
<1>2. \/ tab' = [tab EXCEPT ![t].leaving = FALSE]
      \/ tab' = [tab EXCEPT ![t].leaving = FALSE, ![t].view = Show("login")]
  BY DEF SentToLogin
<1>3. tab \in [Tabs -> TabSet] /\ tab[t] \in TabSet
  BY DEF TInv
<1> DEFINE seen == [tab[t] EXCEPT !.leaving = FALSE]
           sent == [tab[t] EXCEPT !.leaving = FALSE, !.view = Show("login")]
<1>4. seen \in TabSet /\ sent \in TabSet
  BY <1>1, <1>3 DEF TabSet
<1>5. tab' = [tab EXCEPT ![t] = seen] \/ tab' = [tab EXCEPT ![t] = sent]
  BY <1>2
<1> HIDE DEF seen, sent
<1> QED BY <1>3, <1>4, <1>5

-----------------------------------------------------------------------------
(* The steps of a PIN check                                                *)

PinsOK == pin \in PinSet /\ typed \in 0 .. MaxPins /\ Paid(calls, pin, typed)
Checked == CallsOK(calls') /\ tab' \in [Tabs -> TabSet] /\ PinsOK'

LEMMA Sizes ==
  ASSUME NEW cs
  PROVE  /\ Cardinality(Checking(cs)) \in Nat /\ Cardinality(Retriable(cs)) \in Nat
         /\ Cardinality(Retriable(cs)) <= Cardinality(Checking(cs))
<1>1. Checking(cs) \in SUBSET Tabs /\ Retriable(cs) \in SUBSET Checking(cs)
  BY DEF Checking, Retriable
<1> QED BY <1>1, TabsCount

LEMMA LighterPaid == ASSUME TInv, Lighter, Eased PROVE Checked
<1>1. typed \in Nat /\ pin \in PinSet
  BY SessionAssumption DEF TInv
<1>2. pin' \in PinSet /\ pin'.attempts = pin.attempts /\ (pin'.locked = "pins" => pin.locked = "pins")
  BY <1>1 DEF Eased, PinSet
<1>3. Paid(calls', pin', typed)
  BY <1>1, <1>2, StillPaid DEF TInv, Lighter
<1> QED BY <1>2, <1>3 DEF Checked, PinsOK, Paid, Lighter, Fewer, TInv, Eased

\* A PIN typed pays for two attempts.
LEMMA DialogPays ==
  ASSUME TInv, NEW t \in Tabs, NEW right \in BOOLEAN, PinDialog(t, right)
  PROVE  Checked
<1> DEFINE p == tab[t].view.page
           k == Call(t, "verifyPin", p, right)
<1>1. /\ typed < MaxPins /\ typed' = typed + 1 /\ pin' = pin
      /\ \A l \in calls : l.tab = t => l.op # "verifyPin"
      /\ calls' = calls \cup {k} /\ tab' = [tab EXCEPT ![t].view.loading = TRUE]
  BY DEF PinDialog, Send, server
<1>2. tab' \in [Tabs -> TabSet]
  BY <1>1 DEF TInv, TabSet
<1>3. p \in Pages /\ "verifyPin" \in Ops
  BY DEF TInv, TabSet, Ops
<1> HIDE DEF p
<1>4. k \in CallSet /\ k.tab = t /\ k.op = "verifyPin" /\ k.phase = "sent" /\ ~HasRead(k)
  BY <1>3, MadeCall
<1> HIDE DEF k
<1>5. CallsOK(calls')
  BY <1>1, <1>4 DEF TInv, CallsOK, Checks
<1>6. Checking(calls') = Checking(calls) \cup {t} /\ Retriable(calls') = Retriable(calls) \cup {t}
  BY <1>1, <1>4 DEF Checking, Retriable, Checks
<1>7. /\ Cardinality(Checking(calls')) <= Cardinality(Checking(calls)) + 1
      /\ Cardinality(Retriable(calls')) <= Cardinality(Retriable(calls)) + 1
  BY <1>6, TabsAdd DEF Checking, Retriable
<1>8. Paid(calls, pin, typed) /\ typed \in Nat /\ MaxPins \in Nat /\ pin \in PinSet /\ PinLimit \in Nat
  BY SessionAssumption DEF TInv
<1>9. \A m \in Counts(calls') : m \in Nat /\ m \in Counts(calls)
  BY <1>1, <1>4, <1>5, SessionAssumption DEF Counts, Checks, CallsOK, CallSet
<1>10. Paid(calls', pin', typed')
  <2> DEFINE c == Cardinality(Checking(calls))
             d == Cardinality(Checking(calls'))
             e == Cardinality(Retriable(calls))
             f == Cardinality(Retriable(calls'))
  <2>1. {c, d, e, f} \subseteq Nat /\ d <= c + 1 /\ f <= e + 1
    BY <1>7, Sizes
  <2>2. /\ c <= typed /\ pin.attempts + c + e <= 2 * typed
        /\ pin.locked = "pins" => 2 * typed >= PinLimit
        /\ \A m \in Counts(calls) : m + c + e <= 2 * typed
    BY <1>8 DEF Paid
  <2> HIDE DEF c, d, e, f
  <2>3. /\ d <= typed + 1 /\ pin.attempts + d + f <= 2 * (typed + 1)
        /\ pin.locked = "pins" => 2 * (typed + 1) >= PinLimit
    BY <1>8, <2>1, <2>2 DEF PinSet
  <2>4. ASSUME NEW m \in Counts(calls') PROVE m + d + f <= 2 * (typed + 1)
    <3>1. m \in Nat /\ m + c + e <= 2 * typed
      BY <1>9, <2>2
    <3> QED BY <1>8, <2>1, <3>1
  <2> QED BY <1>1, <2>3, <2>4 DEF Paid, d, f
<1>11. typed' \in 0 .. MaxPins
  BY <1>1, <1>8
<1> QED BY <1>1, <1>2, <1>5, <1>8, <1>10, <1>11 DEF Checked, PinsOK

\* What is left when a check is counted, or ends: k is the only check of its tab.
LEMMA CheckLeaves ==
  ASSUME NEW cs, CallsOK(cs), NEW k \in Checks(cs)
  PROVE  /\ Checking(cs \ {k}) = Checking(cs) \ {k.tab} /\ k.tab \in Checking(cs)
         /\ k.phase = "sent" => /\ Retriable(cs \ {k}) = Retriable(cs) \ {k.tab}
                                /\ k.tab \in Retriable(cs)
         /\ k.phase # "sent" => Retriable(cs \ {k}) = Retriable(cs)
<1>1. k \in cs /\ k.tab \in Tabs /\ k.op = "verifyPin"
  BY DEF CallsOK, CallSet, Checks
<1>2. \A l \in Checks(cs) : l.tab = k.tab => l = k
  BY DEF CallsOK
<1>3. Checks(cs \ {k}) = Checks(cs) \ {k}
  BY DEF Checks
<1> QED BY <1>1, <1>2, <1>3 DEF Checking, Retriable

\* A call that only goes on.
LEMMA Replaced ==
  ASSUME TInv, NEW k \in calls, NEW w \in CallSet, w.tab = k.tab, w.op = k.op, w.from = k.from
  PROVE  CallsOK((calls \ {k}) \cup {w})
<1>1. \A l \in Checks(calls \ {k}) : k.op = "verifyPin" => l.tab # k.tab
  BY DEF TInv, CallsOK, Checks
<1> QED BY <1>1 DEF TInv, CallsOK, Checks

\* A call that checks no PIN.
LEMMA OtherReplaced ==
  ASSUME TInv, NEW k \in calls, NEW w \in CallSet, w.op = k.op, w.from = k.from, k.op # "verifyPin"
  PROVE  Fewer((calls \ {k}) \cup {w}, calls)
<1>1. Fewer(calls \ {k}, calls)
  BY FewerCalls DEF TInv
<1>2. w.op = "forgotRequest" => w.from \in {"password", "pin"}
  BY DEF TInv, CallsOK
<1>3. Fewer((calls \ {k}) \cup {w}, calls \ {k})
  BY <1>1, <1>2, OtherCall DEF Fewer
<1> QED BY <1>1, <1>3, FewerTwice

\* The count read is the one stored, which is paid for.
LEMMA AccountReadPays == ASSUME TInv, NEW k \in calls, AccountRead(k) PROVE Checked
<1> DEFINE n == IF k.op = "verifyPin" THEN pin.attempts ELSE 0
           w == [k EXCEPT !.count = n]
<1>1. calls' = (calls \ {k}) \cup {w} /\ tab' = tab /\ UNCHANGED <<pin, typed>>
  BY DEF AccountRead, server, history
<1>2. n \in 0 .. PinLimit
  BY SessionAssumption DEF TInv, PinSet
<1>3. k \in CallSet
  BY DEF TInv, CallsOK
<1> HIDE DEF n
<1>4. /\ w \in CallSet /\ w.tab = k.tab /\ w.op = k.op /\ w.from = k.from /\ w.phase = k.phase
      /\ w.count = n
  BY <1>2, <1>3 DEF CallSet
<1> HIDE DEF w
<1>5. CASE k.op # "verifyPin"
  <2>1. Fewer(calls', calls)
    BY <1>1, <1>4, <1>5, OtherReplaced
  <2> QED BY <1>1, <2>1, LighterPaid DEF Lighter, Eased, TInv
<1>6. CASE k.op = "verifyPin"
  <2>1. CallsOK(calls')
    BY <1>1, <1>4, Replaced
  <2>2. Checking(calls') = Checking(calls) /\ Retriable(calls') = Retriable(calls)
    BY <1>1, <1>4, <1>6 DEF Checking, Retriable, Checks
  <2>3. \A m \in Counts(calls') : m \in Counts(calls) \/ m = pin.attempts
    BY <1>1, <1>4, <1>6 DEF Counts, Checks, n
  <2>4. Paid(calls', pin, typed)
    BY <2>2, <2>3 DEF TInv, Paid
  <2> QED BY <1>1, <2>1, <2>4 DEF Checked, PinsOK, Paid, TInv
<1> QED BY <1>5, <1>6

\* A wrong PIN stores one more than what it read, and one attempt is less to come.
LEMMA WrongPaid ==
  ASSUME TInv, NEW k \in Checks(calls), HasRead(k), ~k.right, WritePin(k),
         CallsOK(calls'), tab' \in [Tabs -> TabSet], Counts(calls') \subseteq Counts(calls),
         Cardinality(Checking(calls')) <= Cardinality(Checking(calls)),
         Cardinality(Checking(calls')) + Cardinality(Retriable(calls'))
           < Cardinality(Checking(calls)) + Cardinality(Retriable(calls))
  PROVE  Checked
<1> DEFINE a == Cardinality(Checking(calls)) + Cardinality(Retriable(calls))
           b == Cardinality(Checking(calls')) + Cardinality(Retriable(calls'))
<1>1. a \in Nat /\ b \in Nat /\ b < a
  BY Sizes
<1>2. /\ pin \in PinSet /\ typed \in Nat /\ typed \in 0 .. MaxPins /\ Paid(calls, pin, typed)
      /\ PinLimit \in Nat /\ PinLimit > 0
  BY SessionAssumption DEF TInv
<1>3. k.count \in Counts(calls) /\ k.count \in 0 .. PinLimit
  BY DEF Counts, TInv, CallsOK, CallSet, Checks
<1>4. \A m \in Counts(calls) : m \in Nat /\ m + a <= 2 * typed
  <2>1. \A m \in Counts(calls) : m \in Nat
    BY <1>2 DEF Counts, TInv, CallsOK, CallSet, Checks
  <2> QED BY <1>2, <2>1, Sizes DEF Paid
<1>5. /\ typed' = typed
      /\ pin' = IF k.count + 1 < PinLimit THEN [pin EXCEPT !.attempts = k.count + 1]
                ELSE [attempts |-> 0, locked |-> "pins"]
  BY DEF WritePin
<1> HIDE DEF a, b
<1>6. /\ pin' \in PinSet /\ pin'.attempts + b <= 2 * typed
      /\ pin'.locked = "pins" => 2 * typed >= PinLimit
  <2>1. k.count \in Nat /\ k.count + a <= 2 * typed
    BY <1>3, <1>4
  <2>2. CASE k.count + 1 < PinLimit
    <3>1. pin'.attempts = k.count + 1 /\ pin'.locked = pin.locked /\ pin' \in PinSet
      BY <1>2, <1>5, <2>1, <2>2 DEF PinSet
    <3> QED BY <1>1, <1>2, <2>1, <3>1 DEF Paid
  <2>3. CASE ~(k.count + 1 < PinLimit)
    <3>1. pin' = [attempts |-> 0, locked |-> "pins"]
      BY <1>5, <2>3
    <3>2. pin'.attempts = 0 /\ pin' \in PinSet
      BY <1>2, <3>1 DEF PinSet
    <3>3. 2 * typed >= PinLimit
      BY <1>1, <1>2, <2>1, <2>3
    <3> QED BY <1>1, <1>2, <2>1, <3>2, <3>3
  <2> QED BY <2>2, <2>3
<1>7. \A m \in Counts(calls') : m + b <= 2 * typed
  BY <1>1, <1>2, <1>4
<1>8. Paid(calls', pin', typed)
  <2>1. Cardinality(Checking(calls')) <= typed
    BY <1>2, Sizes DEF Paid
  <2>2. pin'.attempts + Cardinality(Checking(calls')) + Cardinality(Retriable(calls')) <= 2 * typed
    BY <1>2, <1>6, Sizes DEF b, PinSet
  <2>3. \A m \in Counts(calls') : m + Cardinality(Checking(calls')) + Cardinality(Retriable(calls')) <= 2 * typed
    BY <1>4, <1>7, Sizes DEF b
  <2> QED BY <1>6, <2>1, <2>2, <2>3 DEF Paid
<1> QED BY <1>2, <1>5, <1>6, <1>8 DEF Checked, PinsOK, Paid

\* As many tabs check a PIN as there are checks.
LEMMA ChecksCount ==
  ASSUME NEW cs, CallsOK(cs)
  PROVE  Cardinality(Checks(cs)) = Cardinality(Checking(cs))
<1> DEFINE g == [x \in Checks(cs) |-> x.tab]
<1>1. g \in Injection(Checks(cs), Checking(cs)) /\ g \in Surjection(Checks(cs), Checking(cs))
  <2>1. \A x \in Checks(cs) : x.tab \in Checking(cs)
    BY DEF Checking, CallsOK, CallSet, Checks
  <2>2. \A x, y \in Checks(cs) : x.tab = y.tab => x = y
    BY DEF CallsOK
  <2>3. \A t \in Checking(cs) : \E x \in Checks(cs) : x.tab = t
    BY DEF Checking
  <2> QED BY <2>1, <2>2, <2>3 DEF Injection, IsInjective, Surjection
<1> HIDE DEF g
<1>2. IsFiniteSet(Checking(cs))
  BY TabsCount DEF Checking
<1> QED BY <1>1, <1>2, FS_Injection

\* A right PIN starts the count again, with what is still under way.
LEMMA RightPaid ==
  ASSUME TInv, NEW k \in Checks(calls), k.right, WritePin(k), Fewer(calls', calls \ {k}),
         tab' \in [Tabs -> TabSet]
  PROVE  Checked
<1> DEFINE rest == calls \ {k}
<1>1. /\ pin' = [attempts |-> 0, locked |-> "no"]
      /\ typed' = IF \E x \in Checks(rest) : HasRead(x) THEN typed ELSE Cardinality(Checks(rest))
  BY DEF WritePin
<1>2. pin'.attempts = 0 /\ pin'.locked # "pins" /\ pin' \in PinSet
  BY <1>1, SessionAssumption DEF PinSet
<1>3. k \in calls /\ CallsOK(calls) /\ Fewer(rest, calls)
  BY FewerCalls DEF TInv, Checks
<1>4. Paid(calls, pin, typed) /\ typed \in 0 .. MaxPins /\ MaxPins \in Nat /\ pin \in PinSet
  BY SessionAssumption DEF TInv
<1> HIDE DEF rest
<1>5. /\ Cardinality(Checking(rest)) <= Cardinality(Checking(calls))
      /\ Cardinality(Checks(rest)) = Cardinality(Checking(rest))
  BY <1>3, ChecksCount, TabsCount DEF Fewer, Checking
<1>6. typed' \in 0 .. MaxPins /\ Paid(rest, pin', typed')
  <2>1. CASE \E x \in Checks(rest) : HasRead(x)
    <3>1. Paid(rest, pin, typed)
      BY <1>3, <1>4, StillPaid
    <3> QED BY <1>1, <1>2, <1>4, <2>1, <3>1, Sizes DEF Paid
  <2>2. CASE ~\E x \in Checks(rest) : HasRead(x)
    <3>1. Counts(rest) = {}
      BY <2>2 DEF Counts
    <3>2. typed' = Cardinality(Checking(rest))
      BY <1>1, <1>5, <2>2
    <3>3. typed' \in 0 .. MaxPins
      BY <1>4, <1>5, <3>2, Sizes DEF Paid
    <3> QED BY <1>2, <3>1, <3>2, <3>3, Sizes DEF Paid
  <2> QED BY <2>1, <2>2
<1>7. Paid(calls', pin', typed')
  <2>1. Fewer(calls', rest) /\ CallsOK(rest) /\ typed' \in Nat
    BY <1>3, <1>4, <1>6 DEF rest, Fewer
  <2>2. \A n \in Nat : Paid(rest, pin', n) => Paid(calls', pin', n)
    BY <1>2, <2>1, StillPaid
  <2> QED BY <1>6, <2>1, <2>2
<1> QED BY <1>2, <1>6, <1>7 DEF Checked, PinsOK, Fewer

\* A request that ends, and whose check is written or not.
LEMMA LeavingPaid ==
  ASSUME TInv, NEW k \in calls, CountPin(k) \/ UNCHANGED <<pin, typed>>,
         Fewer(calls', calls \ {k}), tab' \in [Tabs -> TabSet]
  PROVE  Checked
<1>1. Fewer(calls \ {k}, calls) /\ CallsOK(calls)
  BY FewerCalls DEF TInv
<1>2. CASE UNCHANGED <<pin, typed>>
  BY <1>1, <1>2, FewerTwice, LighterPaid DEF Lighter, Eased
<1>3. CASE k.op = "verifyPin" /\ HasRead(k) /\ WritePin(k) /\ k.right
  BY <1>3, RightPaid DEF Checks
<1>4. CASE k.op = "verifyPin" /\ HasRead(k) /\ WritePin(k) /\ ~k.right
  <2>1. k \in Checks(calls)
    BY <1>4 DEF Checks
  <2>2. Checking(calls \ {k}) = Checking(calls) \ {k.tab} /\ k.tab \in Checking(calls)
    BY <1>1, <2>1, CheckLeaves
  <2>3. Cardinality(Checking(calls \ {k})) = Cardinality(Checking(calls)) - 1
    BY <2>2, TabsAdd DEF Checking
  <2>4. /\ Cardinality(Checking(calls')) <= Cardinality(Checking(calls \ {k}))
        /\ Cardinality(Retriable(calls')) <= Cardinality(Retriable(calls))
    BY <1>1, TabsCount DEF Fewer, Checking, Retriable
  <2>5. Counts(calls') \subseteq Counts(calls) /\ CallsOK(calls')
    BY <1>1 DEF Fewer
  <2> QED BY <1>4, <2>1, <2>3, <2>4, <2>5, Sizes, WrongPaid
<1> QED BY <1>2, <1>3, <1>4 DEF CountPin

\* A 401 that counts an attempt, with the check left under way to be sent again.
LEMMA StartRefreshPays == ASSUME TInv, NEW k \in calls, StartRefresh(k) PROVE Checked
<1> DEFINE w == [k EXCEPT !.phase = "waiting", !.count = Unread]
<1>1. /\ k.phase = "sent" /\ calls' = (calls \ {k}) \cup {w} /\ tab' = tab /\ CountPin(k)
      /\ k.op = "verifyPin" => HasRead(k) /\ ~k.right
  BY DEF StartRefresh, ReadFirst, Unauthorized, NeedsAuth
<1>2. Unread \in 0 .. PinLimit /\ k \in CallSet
  BY SessionAssumption DEF Unread, TInv, CallsOK
<1>3. /\ w \in CallSet /\ w.tab = k.tab /\ w.op = k.op /\ w.from = k.from /\ w.phase = "waiting"
      /\ ~HasRead(w) /\ k.tab \in Tabs
  BY <1>2 DEF CallSet, HasRead
<1> HIDE DEF w
<1>4. CASE k.op # "verifyPin"
  <2>1. Fewer(calls', calls)
    BY <1>1, <1>3, <1>4, OtherReplaced
  <2>2. UNCHANGED <<pin, typed>>
    BY <1>1, <1>4 DEF CountPin
  <2> QED BY <1>1, <2>1, <2>2, LighterPaid DEF Lighter, Eased, TInv
<1>5. CASE k.op = "verifyPin"
  <2>1. k \in Checks(calls) /\ CallsOK(calls)
    BY <1>5 DEF Checks, TInv
  <2>2. /\ Checking(calls \ {k}) = Checking(calls) \ {k.tab} /\ k.tab \in Checking(calls)
        /\ Retriable(calls \ {k}) = Retriable(calls) \ {k.tab} /\ k.tab \in Retriable(calls)
    BY <1>1, <2>1, CheckLeaves
  <2>3. Checking(calls') = Checking(calls)
    BY <1>1, <1>3, <1>5, <2>2 DEF Checking, Checks
  <2>4. Retriable(calls') = Retriable(calls) \ {k.tab}
    BY <1>1, <1>3, <2>2 DEF Retriable, Checks
  <2>5. CallsOK(calls')
    BY <1>1, <1>3, Replaced
  <2>6. Cardinality(Retriable(calls')) = Cardinality(Retriable(calls)) - 1
    BY <1>3, <2>2, <2>4, TabsAdd DEF Retriable
  <2>7. Counts(calls') \subseteq Counts(calls)
    BY <1>1, <1>3 DEF Counts, Checks
  <2>8. WritePin(k) /\ tab' \in [Tabs -> TabSet]
    BY <1>1, <1>5 DEF CountPin, TInv
  <2>9. /\ Cardinality(Checking(calls')) <= Cardinality(Checking(calls))
        /\ Cardinality(Checking(calls')) + Cardinality(Retriable(calls'))
             < Cardinality(Checking(calls)) + Cardinality(Retriable(calls))
    BY <2>3, <2>6, Sizes
  <2> QED BY <1>1, <1>5, <2>1, <2>5, <2>7, <2>8, <2>9, WrongPaid
<1> QED BY <1>4, <1>5

LEMMA FailsPays == ASSUME TInv, NEW k \in calls, Fails(k) PROVE Checked
<1>1. k.tab \in Tabs /\ tab[k.tab] \in TabSet /\ {k} \subseteq calls
  BY DEF TInv, CallsOK, CallSet
<1>2. Fewer(calls', calls \ {k}) /\ Lighter
  BY <1>1, GiveKeeps DEF Fails
<1>3. CountPin(k) \/ UNCHANGED <<pin, typed>>
  BY DEF Fails
<1> QED BY <1>2, <1>3, LeavingPaid DEF Lighter

LEMMA PinAnsweredPays == ASSUME TInv, NEW k \in calls, PinAnswered(k) PROVE Checked
<1>1. /\ CountPin(k) /\ calls' = calls \ {k}
      /\ tab' = [Loading(k, FALSE) EXCEPT ![k.tab].unlocked = TRUE]
  BY DEF PinAnswered
<1>2. Loading(k, FALSE) \in [Tabs -> TabSet] /\ k.tab \in Tabs
  BY LoadingTyped DEF TInv, CallsOK, CallSet
<1>3. tab' \in [Tabs -> TabSet]
  BY <1>1, <1>2 DEF TabSet
<1>4. CallsOK(calls \ {k})
  BY FewerCalls DEF TInv, Fewer
<1>5. Fewer(calls', calls \ {k})
  BY <1>1, <1>4 DEF Fewer
<1> QED BY <1>1, <1>3, <1>5, LeavingPaid

\* The page that starts anew leaves its check behind.
LEMMA SentPays == ASSUME TInv, NEW t \in Tabs, SentToLogin(t) PROVE Checked
<1> DEFINE gone == {k \in calls : k.tab = t}
<1>1. \/ calls' = calls /\ UNCHANGED <<pin, typed>>
      \/ /\ calls' = calls \ gone
         /\ UNCHANGED <<pin, typed>> \/ \E k \in gone : CountPin(k)
  BY DEF SentToLogin
<1>2. tab' \in [Tabs -> TabSet]
  BY SentTyped
<1>3. CASE calls' \subseteq calls /\ UNCHANGED <<pin, typed>>
  BY <1>2, <1>3, Dropped, LighterPaid DEF Eased
<1>4. CASE calls' = calls \ gone /\ \E k \in gone : CountPin(k)
  <2>1. PICK k \in gone : CountPin(k)
    BY <1>4
  <2>2. CallsOK(calls \ {k}) /\ calls' \subseteq calls \ {k}
    BY <1>4, FewerCalls DEF TInv, Fewer
  <2>3. Fewer(calls', calls \ {k})
    BY <2>2, FewerCalls
  <2> QED BY <1>2, <2>1, <2>3, LeavingPaid
<1> QED BY <1>1, <1>3, <1>4

-----------------------------------------------------------------------------
(* Documents, and the whole                                                *)

LEMMA DocumentsKeep ==
  ASSUME TInv, IInv, [Next]_vars
  PROVE  codes' \subseteq Codes /\ itinerary' \in Itineraries
<1>1. ASSUME NEW t \in Tabs, UserStep(t) PROVE UNCHANGED <<codes, itinerary>>
  BY <1>1 DEF UserStep, Visit, LoginForm, TwoFactorForm, GoogleButton, SignupForm, ForgotForm, Back,
         ProfileForm, ResendButton, PinDialog, PageData, LogoutButton, PinSessionEnds, Send, server,
         history
<1>2. ASSUME NEW k \in calls, Answered(k) PROVE codes' \subseteq Codes /\ itinerary' = itinerary
  <2>1. CASE SendCodeAnswered(k)
    <3>1. k.op = "forgotRequest" => k.from \in {"password", "pin"}
      BY DEF TInv, CallsOK
    <3>2. SendCode(k) \subseteq Codes
      BY <2>1, <3>1 DEF SendCodeAnswered, SendCode, TInv, Codes
    <3> QED BY <2>1, <3>2 DEF SendCodeAnswered, history
  <2>2. CASE \E c \in codes : CheckCodeAnswered(k, c)
    BY <2>2 DEF CheckCodeAnswered, TInv, history
  <2>3. CASE \/ AccountRead(k) \/ StartRefresh(k) \/ Fails(k) \/ LoginAnswered(k) \/ TwoFactorAnswered(k)
             \/ GoogleAnswered(k) \/ SignupAnswered(k) \/ ResetAnswered(k) \/ ProfileAnswered(k)
             \/ LinkAnswered(k) \/ PinAnswered(k) \/ DataAnswered(k) \/ LogoutAnswered(k)
    BY <2>3 DEF AccountRead, StartRefresh, Fails, LoginAnswered, TwoFactorAnswered, GoogleAnswered, SignupAnswered,
       ResetAnswered, ProfileAnswered, LinkAnswered, PinAnswered, DataAnswered, LogoutAnswered,
       SignIn, server, history, TInv
  <2> QED BY <1>2, <2>1, <2>2, <2>3 DEF Answered
<1>3. ASSUME \/ \E r \in refreshes : RefreshEnds(r)
             \/ (\E t \in Tabs : SentToLogin(t)) \/ AccessExpires \/ RefreshExpires
             \/ LoginsLock \/ LockExpires \/ UNCHANGED vars
      PROVE  UNCHANGED <<codes, itinerary>>
  BY <1>3 DEF RefreshEnds, RefreshAnswered, RefreshRefused, RefreshLost, SentToLogin, AccessExpires,
     RefreshExpires, LoginsLock, LockExpires, vars, server, browser, history
<1> QED BY <1>1, <1>2, <1>3 DEF Next, TInv

LEMMA TypesKept == TInv /\ IInv /\ [Next]_vars => TInv'
<1> SUFFICES ASSUME TInv, IInv, [Next]_vars PROVE TInv'
  OBVIOUS
<1>1. Checked
  <2>1. ASSUME NEW t \in Tabs, UserStep(t) PROVE Checked
    BY <2>1, DialogPays, UserLighter, LighterPaid DEF Eased
  <2>2. ASSUME NEW k \in calls, Answered(k) PROVE Checked
    BY <2>2, AccountReadPays, StartRefreshPays, FailsPays, PinAnsweredPays, AnswersLighter, LighterPaid
  <2>3. ASSUME NEW r \in refreshes, RefreshEnds(r) PROVE Checked
    BY <2>3, RefreshLighter, LighterPaid
  <2>4. ASSUME NEW t \in Tabs, SentToLogin(t) PROVE Checked
    BY <2>4, SentPays
  <2>5. CASE AccessExpires \/ RefreshExpires \/ LoginsLock \/ LockExpires \/ UNCHANGED vars
    BY <2>5, OutsideLighter, LighterPaid
  <2> QED BY <2>1, <2>2, <2>3, <2>4, <2>5 DEF Next
<1>2. TokensOK(live', refreshes', cookies')
  BY TokensKeep
<1>3. codes' \subseteq Codes /\ itinerary' \in Itineraries
  BY DocumentsKeep
<1>4. account' \in Account /\ local' \in Cached
  BY StepKeeps DEF IInv
<1> QED BY <1>1, <1>2, <1>3, <1>4 DEF TInv, Checked, PinsOK, Paid, CallsOK, Checks, TokensOK,
       Presented, InUse, Checking, Retriable, Counts, HasRead, Unread

LEMMA TypesHold == Init => TInv
<1> SUFFICES ASSUME Init PROVE TInv
  OBVIOUS
<1>1. Checking({}) = {} /\ Retriable({}) = {} /\ Counts({}) = {} /\ InUse({}, {}, cookies) = {}
  BY DEF Init, Checking, Retriable, Counts, Checks, InUse, Presented, NoToken
<1>2. Cardinality({}) = 0
  BY FS_EmptySet
<1>3. account \in Account /\ local \in Cached /\ codes \subseteq Codes /\ itinerary \in Itineraries
  BY InitHolds DEF IInv, Init
<1>4. tab \in [Tabs -> TabSet]
  <2>1. Show("home") \in [page: Pages, step: 1 .. 4, loading: BOOLEAN]
    BY ShowTyped DEF Pages
  <2> QED BY <2>1 DEF Init, TabSet
<1>5. CallsOK(calls)
  BY DEF Init, CallsOK, Checks
<1>6. pin \in PinSet /\ typed \in 0 .. MaxPins /\ Paid(calls, pin, typed)
  <2>1. pin = [attempts |-> 0, locked |-> "no"] /\ typed = 0 /\ calls = {}
    BY DEF Init
  <2>2. pin \in PinSet /\ typed \in 0 .. MaxPins
    BY <2>1, SessionAssumption DEF PinSet
  <2>3. pin.attempts = 0 /\ pin.locked # "pins"
    BY <2>1
  <2> QED BY <1>1, <1>2, <2>1, <2>2, <2>3 DEF Paid
<1>7. TokensOK(live, refreshes, cookies)
  <2>1. live = {} /\ refreshes = {} /\ cookies = [access |-> FALSE, refresh |-> NoToken]
    BY DEF Init
  <2>2. cookies \in [access: BOOLEAN, refresh: Tokens \cup {NoToken}]
    BY <2>1
  <2>3. InUse(live, refreshes, cookies) = {}
    BY <1>1, <2>1, Zenon
  <2>4. Cardinality(InUse(live, refreshes, cookies)) = 0
    BY <1>2, <2>3
  <2>5. Cardinality(InUse(live, refreshes, cookies)) <= Cardinality(Tabs) + 1
    BY <2>4, TokensFinite
  <2> QED BY <2>1, <2>2, <2>5 DEF TokensOK
<1> QED BY <1>3, <1>4, <1>5, <1>6, <1>7 DEF TInv

\* The invariant of every reachable state.
LEMMA AlwaysTInv == Spec => []TInv
<1>1. Spec => []IInv
  BY InitHolds, StepKeeps, PTL DEF Spec
<1> QED BY <1>1, TypesHold, TypesKept, PTL DEF Spec

\* Account, cookies, tabs and requests keep their shape, and secureFetch's refreshes issue no
\* more tokens than the tabs and the browser can hold at once.
THEOREM TypeCorrect == Spec => []TypeOK
<1>1. TInv => TypeOK
  BY DEF TInv, TypeOK, Account, Cached, Codes, TabSet, CallsOK, CallSet, PinSet, TokensOK
<1> QED BY <1>1, AlwaysTInv, PTL

\* A wrong PIN counts at most twice (secureFetch takes its 401 for an expired session and sends
\* it again), although verify_pin stores a count it read earlier; so it locks an account only
\* after half its limit was typed since a right PIN that no other check had overtaken.
THEOREM LockAlwaysNeedsTries == Spec => []LockNeedsTries
<1>1. TInv => LockNeedsTries
  <2> SUFFICES ASSUME TInv PROVE LockNeedsTries
    OBVIOUS
  <2>1. Cardinality(Checking(calls)) \in Nat /\ Cardinality(Retriable(calls)) \in Nat
    BY TabsCount DEF Checking, Retriable
  <2> QED BY <2>1, SessionAssumption DEF TInv, Paid, PinSet, LockNeedsTries
<1> QED BY <1>1, AlwaysTInv, PTL

=============================================================================
