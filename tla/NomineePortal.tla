----------------------------- MODULE NomineePortal -----------------------------
(***************************************************************************)
(* The nominee's three pages, each browser tab a process of its own:       *)
(* app/nominee/verify/[token], status/[token] and vault/[token], against   *)
(* the routes they call.  A page handler is an async function: between two *)
(* fetches other handlers of the page, other tabs and the server's other   *)
(* callers run.  A call in flight is a record that names the tab and the   *)
(* stage its handler waits in; an answer is the server's step and the rest *)
(* of the handler up to its next fetch.  A handler whose page was left     *)
(* goes on: its setState calls do nothing, its router.push still works.    *)
(* The life of a claim is ClaimWorkflow's; here it is reduced to what the  *)
(* pages can tell apart.                                                   *)
(***************************************************************************)
EXTENDS Naturals, FiniteSets

CONSTANTS
  Tabs,             \* tabs the nominee's link is opened in
  MaxClaims,        \* bound: claims ever submitted
  MaxCalls,         \* bound: requests in flight when the nominee starts one more
  CoolingEnabled    \* settings.COOLING_PERIOD_DAYS > 0

ASSUME PortalAssumption == MaxClaims \in Nat /\ MaxCalls \in Nat /\ CoolingEnabled \in BOOLEAN

Claims == 1 .. MaxClaims          \* numbered by createdAt
Status == {"NONE", "COOLING_PERIOD", "NOMINEE_NOTIFIED", "PENDING_REVIEW", "UNDER_REVIEW",
           "MORE_DOCUMENTS_REQUIRED", "APPROVED", "REJECTED", "HALTED"}
Gone == "reloaded"                \* the tab of a request whose page was reloaded
Pages == {"closed", "home", "verify", "status", "vault"}
Ops == {"details", "checkStatus", "sendOtp", "verifyOtp", "claim", "insert", "upload",
        "complete", "fetchStatus", "assets"}

ASSUME TabsAssumption == Gone \notin Tabs

VARIABLES
  status,     \* the claims of db.verification_requests
  evidence,   \* claims with a death certificate
  token,      \* the nominee's accessToken: "valid", "expired" or "none"
  code,       \* nominee_otps holds a code for this token
  tab,        \* what each tab shows
  calls,      \* requests in flight
  passed      \* history: a tab has entered the mailed code

server == <<status, evidence, token, code>>
vars == <<server, tab, calls, passed>>

Fresh(p, session) ==
  [page |-> p, loading |-> p \in {"verify", "status", "vault"}, details |-> FALSE, step |-> 1,
   otpSent |-> FALSE, timer |-> FALSE, verifying |-> FALSE, file |-> FALSE,
   shown |-> "NONE", assets |-> FALSE, session |-> session]

Call(t, o) == [tab |-> t, op |-> o, live |-> TRUE]

\* An insertion nobody waits for any more.
Orphan == [tab |-> Gone, op |-> "insert", live |-> FALSE]

Init ==
  /\ status = [c \in Claims |-> "NONE"]
  /\ evidence = {}
  /\ token = "valid"
  /\ code = FALSE
  /\ tab = [t \in Tabs |-> Fresh("closed", FALSE)]
  /\ calls = {}
  /\ passed = FALSE

-----------------------------------------------------------------------------
(* The routes, as far as the pages see them                                *)

Stored(c) == status[c] # "NONE"
Latest(c) == Stored(c) /\ \A d \in Claims : d > c => ~Stored(d)
AnyClaim == \E c \in Claims : Stored(c)
LatestStatus ==
  IF \E c \in Claims : Latest(c) THEN status[CHOOSE c \in Claims : Latest(c)] ELSE "NONE"
ActiveClaim == \E c \in Claims : status[c] \notin {"NONE", "REJECTED", "HALTED"}
NextClaim(c) == ~Stored(c) /\ \A d \in Claims : d < c => Stored(d)

\* POST /complete asks for a certificate and for the four identity steps.  None of the pages
\* takes those steps; identified says whether the nominee has with another client.
Checklist(c, identified) == c \in evidence /\ identified

-----------------------------------------------------------------------------
(* Navigation                                                              *)

\* What a page fetches when it is mounted.
LoadOf(p) == CASE p = "verify" -> {"details"} [] p = "status" -> {"fetchStatus"}
               [] p = "vault" -> {"assets"} [] OTHER -> {}

\* The vault page sends a tab without the session's token back to the form.
Target(p, session) == IF p = "vault" /\ ~session THEN "verify" ELSE p

\* router.push: the page is mounted anew unless it is the one shown.  The other
\* handlers of the tab, rest, lose their page.
Push(t, p, session, rest) ==
  LET q == Target(p, session) IN
  IF tab[t].page = q
  THEN calls' = rest /\ tab' = [tab EXCEPT ![t].session = session]
  ELSE /\ tab' = [tab EXCEPT ![t] = Fresh(q, session)]
       /\ calls' = {IF k.tab = t THEN [k EXCEPT !.live = FALSE] ELSE k : k \in rest}
                     \cup {Call(t, o) : o \in LoadOf(q)}

\* The link of a mail, a bookmark, or the reload button: nothing of the page survives but
\* sessionStorage.  Requests that only the client waits for are gone; the insertion of a
\* claim that the server has begun is not.
OpenLink(t, p) ==
  LET q == Target(p, tab[t].session) IN
  /\ Cardinality(calls) < MaxCalls
  /\ tab' = [tab EXCEPT ![t] = Fresh(q, tab[t].session)]
  /\ calls' = {k \in calls : k.tab # t}
       \cup {Orphan : k \in {x \in calls : x.tab = t /\ x.op = "insert"}}
       \cup {Call(t, o) : o \in LoadOf(q)}
  /\ UNCHANGED <<server, passed>>

-----------------------------------------------------------------------------
(* Answers                                                                 *)

Show(k, r) == tab' = IF k.live THEN [tab EXCEPT ![k.tab] = r] ELSE tab

\* The finally blocks.
SettledLoading(r) == [r EXCEPT !.loading = FALSE]     \* a mutant: one of the two
Settled(r) == [r EXCEPT !.loading = FALSE, !.verifying = FALSE]

\* The handler ends with nothing but a toast: an error answer, or no answer.
EndsIn(k) ==
  /\ Show(k, Settled(tab[k.tab]))
  /\ calls' = calls \ {k}

\* The handler goes on to its next fetch.
GoesOn(k, o) == calls' = (calls \ {k}) \cup {[k EXCEPT !.op = o]}

InFlight(k, o) == k.op = o /\ k.tab \in Tabs

\* The catch blocks: the request or its answer is lost; what the server began it ends.
NetworkError(k) ==
  /\ k.tab \in Tabs
  /\ Show(k, Settled(tab[k.tab]))
  /\ calls' = (calls \ {k}) \cup {x \in {Orphan} : k.op = "insert"}
  /\ code' = code \/ code' = (code \/ (k.op = "sendOtp" /\ token # "none"))
  /\ UNCHANGED <<status, evidence, token, passed>>

-----------------------------------------------------------------------------
(* app/nominee/verify/[token]: loading                                     *)

DetailsAnswered(k) ==
  /\ InFlight(k, "details")
  /\ IF token = "valid"
     THEN GoesOn(k, "checkStatus") /\ Show(k, [tab[k.tab] EXCEPT !.details = TRUE])
     ELSE Push(k.tab, "home", tab[k.tab].session, calls \ {k})
  /\ UNCHANGED <<server, passed>>

\* Claims that are under way are shown on the status page; any other leads to the form.
UnderWay == {"PENDING_REVIEW", "UNDER_REVIEW", "APPROVED", "COOLING_PERIOD", "NOMINEE_NOTIFIED"}

FormFor(r) == [Settled(r) EXCEPT !.step = 3]
\* A mutant: a page that asks nobody for the code, not even a newcomer.
FormForAll(r, s) == FormFor(r)
LoadedStep(r, s) == IF s = "NONE" THEN Settled(r) ELSE FormFor(r)

StatusAnswered(k) ==
  /\ InFlight(k, "checkStatus")
  /\ IF token = "valid" /\ LatestStatus \in UnderWay
     THEN Push(k.tab, "status", tab[k.tab].session, calls \ {k})
     ELSE /\ calls' = calls \ {k}
          /\ Show(k, IF token = "valid" THEN LoadedStep(tab[k.tab], LatestStatus)
                                        ELSE Settled(tab[k.tab]))
  /\ UNCHANGED <<server, passed>>

-----------------------------------------------------------------------------
(* Steps 1 and 2: the mailed code                                          *)

AtStep(t, n) == tab[t].page = "verify" /\ ~tab[t].loading /\ tab[t].details /\ tab[t].step = n

Proceed(t) ==
  /\ AtStep(t, 1)
  /\ tab' = [tab EXCEPT ![t].step = 2]
  /\ UNCHANGED <<server, calls, passed>>

BackToNotice(t) ==
  /\ AtStep(t, 2) /\ tab[t].otpSent
  /\ tab' = [tab EXCEPT ![t].step = 1]
  /\ UNCHANGED <<server, calls, passed>>

\* What step 2 offers: the first code when nothing is in flight, another one once the
\* minute is over whatever is in flight, the check of the code typed in.
OffersSend(t) == AtStep(t, 2) /\ (IF tab[t].otpSent THEN ~tab[t].timer ELSE ~tab[t].verifying)
OffersVerify(t) == AtStep(t, 2) /\ tab[t].otpSent /\ ~tab[t].verifying

\* Bound: a tab has one call of a kind in flight.
Fetch(t, o) ==
  /\ Cardinality(calls) < MaxCalls
  /\ \A k \in calls : k.tab = t => k.op # o
  /\ tab' = [tab EXCEPT ![t].verifying = TRUE]
  /\ calls' = calls \cup {Call(t, o)}
  /\ UNCHANGED <<server, passed>>

SendOtp(t) == OffersSend(t) /\ Fetch(t, "sendOtp")

SendOtpAnswered(k) ==
  /\ InFlight(k, "sendOtp")
  /\ token # "none"
  /\ code' = TRUE
  /\ calls' = calls \ {k}
  /\ Show(k, [Settled(tab[k.tab]) EXCEPT !.otpSent = TRUE, !.timer = TRUE])
  /\ UNCHANGED <<status, evidence, token, passed>>

TimerEnds(t) ==
  /\ tab[t].timer
  /\ tab' = [tab EXCEPT ![t].timer = FALSE]
  /\ UNCHANGED <<server, calls, passed>>

VerifyOtp(t) == OffersVerify(t) /\ Fetch(t, "verifyOtp")

\* The code is the mailed one and not ten minutes old; it stays valid.
VerifyOtpAnswered(k) ==
  /\ InFlight(k, "verifyOtp")
  /\ code
  /\ calls' = calls \ {k}
  /\ Show(k, FormFor(tab[k.tab]))
  /\ passed' = TRUE
  /\ UNCHANGED server

-----------------------------------------------------------------------------
(* Step 3: the form, and its three requests                                *)

SelectFile(t) ==
  /\ AtStep(t, 3) /\ ~tab[t].file
  /\ tab' = [tab EXCEPT ![t].file = TRUE]
  /\ UNCHANGED <<server, calls, passed>>

SubmitForm(t) == AtStep(t, 3) /\ tab[t].file /\ ~tab[t].verifying /\ Fetch(t, "claim")

\* POST /claim looks for an active claim and inserts in a later call.  "already exists" is
\* no error for the page.
ClaimChecked(k) ==
  /\ InFlight(k, "claim")
  /\ token = "valid"
  /\ GoesOn(k, IF ActiveClaim THEN "upload" ELSE "insert")
  /\ UNCHANGED <<server, tab, passed>>

ClaimInserted(k, c) ==
  /\ k.op = "insert" /\ NextClaim(c)
  /\ status' = [status EXCEPT ![c] = IF CoolingEnabled THEN "COOLING_PERIOD" ELSE "NOMINEE_NOTIFIED"]
  /\ IF k.tab = Gone THEN calls' = calls \ {k} ELSE GoesOn(k, "upload")
  /\ UNCHANGED <<evidence, token, code, tab, passed>>

\* POST /upload-death-document: onto the latest claim, whatever its status.
UploadAnswered(k) ==
  /\ InFlight(k, "upload")
  /\ token = "valid"
  /\ \E c \in Claims : Latest(c) /\ evidence' = evidence \cup {c}
  /\ GoesOn(k, "complete")
  /\ UNCHANGED <<status, token, code, tab, passed>>

\* POST /complete: accepted or refused, the page goes to the status.
CompleteAnswered(k) ==
  /\ InFlight(k, "complete")
  /\ \E identified \in BOOLEAN :
       LET complete == {c \in Claims : token = "valid" /\ Latest(c) /\ Checklist(c, identified)} IN
       status' = [c \in Claims |-> IF c \in complete THEN "PENDING_REVIEW" ELSE status[c]]
  /\ Push(k.tab, "status", tab[k.tab].session, calls \ {k})
  /\ UNCHANGED <<evidence, token, code, passed>>

\* An answer that is not ok: the access link has expired or was withdrawn, the code is wrong.
Refused(k) ==
  /\ \/ InFlight(k, "sendOtp") /\ token = "none"
     \/ InFlight(k, "verifyOtp")
     \/ (InFlight(k, "claim") \/ InFlight(k, "upload")) /\ token # "valid"
  /\ EndsIn(k)
  /\ UNCHANGED <<server, passed>>

-----------------------------------------------------------------------------
(* app/nominee/status/[token] and vault/[token]                            *)

FetchStatusAnswered(k) ==
  /\ InFlight(k, "fetchStatus")
  /\ IF token = "none"
     THEN Push(k.tab, "home", tab[k.tab].session, calls \ {k})
     ELSE calls' = calls \ {k} /\ Show(k, [Settled(tab[k.tab]) EXCEPT !.shown = LatestStatus])
  /\ UNCHANGED <<server, passed>>

AtStatus(t) == tab[t].page = "status" /\ ~tab[t].loading

OpenVault(t) ==
  /\ AtStatus(t) /\ tab[t].shown = "APPROVED"
  /\ Push(t, "vault", TRUE, calls)
  /\ UNCHANGED <<server, passed>>

\* "Go to Verification Page", "Resubmit Claim", "Upload Supporting Documents", "Return".
BackToForm(t) ==
  /\ AtStatus(t)
  /\ Push(t, "verify", tab[t].session, calls)
  /\ UNCHANGED <<server, passed>>

\* GET /nominees/assets: any approved claim will do.
AssetsAnswered(k) ==
  /\ InFlight(k, "assets")
  /\ IF token = "valid" /\ \E c \in Claims : status[c] = "APPROVED"
     THEN calls' = calls \ {k} /\ Show(k, [Settled(tab[k.tab]) EXCEPT !.assets = TRUE])
     ELSE Push(k.tab, "verify", tab[k.tab].session, calls \ {k})
  /\ UNCHANGED <<server, passed>>

SignOut(t) ==
  /\ tab[t].page = "vault" /\ ~tab[t].loading
  /\ Push(t, "home", FALSE, calls)
  /\ UNCHANGED <<server, passed>>

-----------------------------------------------------------------------------
(* The server's other callers (ClaimWorkflow has them in detail)           *)

Decide(c, s) ==
  /\ Stored(c) /\ s # status[c]
  /\ \/ s = "HALTED" /\ status[c] \notin {"APPROVED", "HALTED", "REJECTED"}
     \/ s \in {"APPROVED", "REJECTED", "MORE_DOCUMENTS_REQUIRED"}
     \/ s = "UNDER_REVIEW" /\ status[c] \in {"PENDING_REVIEW", "MORE_DOCUMENTS_REQUIRED"}
     \/ s = "NOMINEE_NOTIFIED" /\ status[c] = "COOLING_PERIOD"
  /\ status' = [status EXCEPT ![c] = s]
  /\ UNCHANGED <<evidence, token, code, tab, calls, passed>>

TokenEnds ==
  /\ \/ token = "valid" /\ token' = "expired"
     \/ token = "expired" /\ token' = "none"
  /\ UNCHANGED <<status, evidence, code, tab, calls, passed>>

-----------------------------------------------------------------------------

UserStep(t) ==
  \/ \E p \in {"verify", "status", "vault"} : OpenLink(t, p)
  \/ Proceed(t) \/ BackToNotice(t) \/ SendOtp(t) \/ VerifyOtp(t) \/ SelectFile(t) \/ SubmitForm(t)
  \/ OpenVault(t) \/ BackToForm(t) \/ SignOut(t) \/ TimerEnds(t)

Answered(k) ==
  \/ DetailsAnswered(k) \/ StatusAnswered(k) \/ SendOtpAnswered(k) \/ VerifyOtpAnswered(k)
  \/ ClaimChecked(k) \/ (\E c \in Claims : ClaimInserted(k, c)) \/ UploadAnswered(k)
  \/ CompleteAnswered(k) \/ FetchStatusAnswered(k) \/ AssetsAnswered(k)
  \/ Refused(k) \/ NetworkError(k)

OtherStep ==
  \/ \E c \in Claims, s \in Status : Decide(c, s)
  \/ TokenEnds

Next ==
  \/ \E t \in Tabs : UserStep(t)
  \/ \E k \in calls : Answered(k)
  \/ OtherStep

Spec == Init /\ [][Next]_vars

\* Every request is answered or fails: fetch has an end.
FairSpec == Spec /\ \A t \in Tabs, o \in Ops : WF_vars(\E k \in calls : k.tab = t /\ k.op = o /\ Answered(k))

-----------------------------------------------------------------------------
(* Properties                                                              *)

CallTab == Tabs \cup {Gone}

TypeOK ==
  /\ status \in [Claims -> Status]
  /\ evidence \subseteq Claims
  /\ token \in {"valid", "expired", "none"}
  /\ code \in BOOLEAN /\ passed \in BOOLEAN
  /\ tab \in [Tabs -> [page: Pages, loading: BOOLEAN, details: BOOLEAN, step: 1 .. 3,
                       otpSent: BOOLEAN, timer: BOOLEAN, verifying: BOOLEAN, file: BOOLEAN,
                       shown: Status, assets: BOOLEAN, session: BOOLEAN]]
  /\ calls \subseteq [tab: CallTab, op: Ops, live: BOOLEAN]

\* Nobody files the first claim with these pages without the code mailed to the nominee: a
\* form shown without asking for it (a tab that loads next to another, a claim decided
\* meanwhile, a network error while loading) is only ever a returning nominee's.
CodeBeforeClaim == AnyClaim => passed

Busy(t) == tab[t].loading \/ tab[t].verifying

\* No tab keeps its spinner or its disabled button: with several handlers of a page in
\* flight, sharing the one flag, each early return, error and redirect still ends it, for
\* a nominee who does not reload for ever.
TabSettles == \A t \in Tabs : []<>~Busy(t) \/ []<><<\E p \in Pages : OpenLink(t, p)>>_vars

=============================================================================
