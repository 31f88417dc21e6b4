------------------------- MODULE NomineePortal_proofs -------------------------
(***************************************************************************)
(* The type invariant of NomineePortal, and that no first claim is filed   *)
(* without the mailed code, for any number of tabs, claims and calls.      *)
(*                                                                         *)
(* The form appears in four ways, and only one of them asks for the code.  *)
(* The invariant says why the others need not: a tab that shows the form,  *)
(* and a request of the form in flight, come from a tab that has entered   *)
(* the code or found a claim, and a claim is there only after a code.      *)
(***************************************************************************)
EXTENDS NomineePortal, TLAPS

TabState == [page: Pages, loading: BOOLEAN, details: BOOLEAN, step: 1 .. 3, otpSent: BOOLEAN,
             timer: BOOLEAN, verifying: BOOLEAN, file: BOOLEAN, shown: Status, assets: BOOLEAN,
             session: BOOLEAN]
CallState == [tab: CallTab, op: Ops, live: BOOLEAN]

\* The requests of the form.
Filing == {"claim", "insert", "upload", "complete"}

TabsOK(tb, done) == tb \in [Tabs -> TabState] /\ \A t \in Tabs : tb[t].step = 3 => done
CallsOK(cs, done) == cs \subseteq CallState /\ \A k \in cs : k.op \in Filing => done
ServerOK ==
  /\ status \in [Claims -> Status] /\ evidence \subseteq Claims
  /\ token \in {"valid", "expired", "none"}
  /\ code \in BOOLEAN /\ passed \in BOOLEAN

IInv == ServerOK /\ TabsOK(tab, passed) /\ CallsOK(calls, passed) /\ CodeBeforeClaim

LEMMA InvTypes == IInv => TypeOK
BY DEF IInv, ServerOK, TabsOK, CallsOK, TypeOK, TabState, CallState

-----------------------------------------------------------------------------
(* Pages and answers                                                       *)

LEMMA FreshOK ==
  ASSUME NEW p \in Pages, NEW session \in BOOLEAN
  PROVE  Fresh(p, session) \in TabState /\ Fresh(p, session).step = 1
BY DEF Fresh, TabState, Pages, Status

LEMMA TargetOK ==
  ASSUME NEW p \in Pages, NEW session
  PROVE  Target(p, session) \in Pages
BY DEF Target, Pages

LEMMA LoadsOK ==
  ASSUME NEW t \in Tabs, NEW p, NEW o \in LoadOf(p)
  PROVE  Call(t, o) \in CallState /\ Call(t, o).op \notin Filing
BY DEF LoadOf, Call, CallState, CallTab, Ops, Filing

LEMMA LinkOK ==
  ASSUME NEW done, NEW cs, NEW t \in Tabs, NEW p, CallsOK(cs, done)
  PROVE  CallsOK(cs \cup {Call(t, o) : o \in LoadOf(p)}, done)
BY LoadsOK DEF CallsOK

\* A page pushed by an answer is fresh; the handlers left behind only lose their page.
LEMMA PushOK ==
  ASSUME NEW done, TabsOK(tab, done), NEW rest, CallsOK(rest, done),
         NEW t \in Tabs, NEW p \in Pages, NEW session \in BOOLEAN, Push(t, p, session, rest)
  PROVE  TabsOK(tab', done) /\ CallsOK(calls', done)
<1> DEFINE q == Target(p, session)
           left == {IF k.tab = t THEN [k EXCEPT !.live = FALSE] ELSE k : k \in rest}
<1>1. q \in Pages
  BY TargetOK
<1>2. CASE tab[t].page = q
  <2>1. tab' = [tab EXCEPT ![t].session = session] /\ calls' = rest
    BY <1>2 DEF Push
  <2>2. [tab[t] EXCEPT !.session = session] \in TabState
    BY DEF TabsOK, TabState
  <2>3. tab' = [tab EXCEPT ![t] = [tab[t] EXCEPT !.session = session]]
    BY <2>1
  <2>4. [tab[t] EXCEPT !.session = session].step = tab[t].step
    BY DEF TabsOK, TabState
  <2> QED BY <2>1, <2>2, <2>3, <2>4 DEF TabsOK
<1>3. CASE tab[t].page # q
  <2>1. tab' = [tab EXCEPT ![t] = Fresh(q, session)]
    BY <1>3 DEF Push
  <2>2. calls' = left \cup {Call(t, o) : o \in LoadOf(q)}
    BY <1>3 DEF Push
  <2>3. \A k \in rest : [k EXCEPT !.live = FALSE] \in CallState /\ [k EXCEPT !.live = FALSE].op = k.op
    BY DEF CallsOK, CallState
  <2>4. CallsOK(left, done)
    BY <2>3 DEF CallsOK
  <2> HIDE DEF q, left
  <2> QED BY <1>1, <2>1, <2>2, <2>4, FreshOK, LinkOK DEF TabsOK
<1> QED BY <1>2, <1>3

\* What an answer shows, in its tab or nowhere.
LEMMA ShowOK ==
  ASSUME NEW done, TabsOK(tab, done), NEW k, NEW r \in TabState, r.step = 3 => done, Show(k, r)
  PROVE  TabsOK(tab', done)
BY DEF Show, TabsOK

LEMMA GoesOnOK ==
  ASSUME NEW done, CallsOK(calls, done), NEW k \in calls, NEW o \in Ops, GoesOn(k, o),
         o \in Filing => done
  PROVE  CallsOK(calls', done)
<1>1. [k EXCEPT !.op = o] \in CallState /\ [k EXCEPT !.op = o].op = o
  BY DEF CallsOK, CallState
<1> QED BY <1>1 DEF GoesOn, CallsOK

LEMMA SettledOK ==
  ASSUME NEW r \in TabState
  PROVE  Settled(r) \in TabState /\ Settled(r).step = r.step
BY DEF Settled, TabState

LEMMA EndsInOK ==
  ASSUME NEW done, TabsOK(tab, done), CallsOK(calls, done), NEW k \in calls, k.tab \in Tabs,
         EndsIn(k)
  PROVE  TabsOK(tab', done) /\ CallsOK(calls', done)
<1>1. Show(k, Settled(tab[k.tab])) /\ calls' = calls \ {k}
  BY DEF EndsIn
<1>2. Settled(tab[k.tab]) \in TabState /\ Settled(tab[k.tab]).step = tab[k.tab].step
  BY SettledOK DEF TabsOK
<1> QED BY <1>1, <1>2, ShowOK DEF TabsOK, CallsOK

-----------------------------------------------------------------------------
(* The nominee                                                             *)

LEMMA UserKeeps ==
  ASSUME IInv, NEW t \in Tabs, UserStep(t)
  PROVE  IInv'
<1> USE DEF IInv
<1>1. tab[t] \in TabState /\ (tab[t].step = 3 => passed) /\ tab[t].session \in BOOLEAN
  BY DEF TabsOK, TabState
<1>2. UNCHANGED <<server, passed>> => ServerOK' /\ CodeBeforeClaim' /\ passed' = passed
  BY DEF server, ServerOK, CodeBeforeClaim, AnyClaim, Stored
<1>3. ASSUME NEW r \in TabState, r.step = 3 => passed, tab' = [tab EXCEPT ![t] = r]
      PROVE  TabsOK(tab', passed)
  BY <1>3 DEF TabsOK
<1>4. ASSUME NEW p \in {"verify", "status", "vault"}, OpenLink(t, p) PROVE IInv'
  <2> DEFINE q == Target(p, tab[t].session)
             kept == {k \in calls : k.tab # t}
                       \cup {Orphan : k \in {x \in calls : x.tab = t /\ x.op = "insert"}}
  <2>1. q \in Pages
    BY TargetOK DEF Pages
  <2>2. /\ tab' = [tab EXCEPT ![t] = Fresh(q, tab[t].session)]
        /\ calls' = kept \cup {Call(t, o) : o \in LoadOf(q)}
        /\ UNCHANGED <<server, passed>>
    BY <1>4 DEF OpenLink
  <2>3. Orphan \in CallState
    BY DEF Orphan, CallState, CallTab, Ops
  <2>4. CallsOK(kept, passed)
    BY <2>3 DEF CallsOK, Filing
  <2> HIDE DEF q, kept
  <2>5. Fresh(q, tab[t].session) \in TabState /\ Fresh(q, tab[t].session).step # 3
    BY <1>1, <2>1, FreshOK
  <2>6. TabsOK(tab', passed)
    BY <1>3, <2>2, <2>5
  <2> QED BY <1>2, <2>2, <2>4, <2>6, LinkOK
<1>5. ASSUME NEW o \in Ops, Fetch(t, o), o \in Filing => passed PROVE IInv'
  <2>1. Call(t, o) \in CallState /\ Call(t, o).op = o
    BY DEF Call, CallState, CallTab
  <2>2. [tab[t] EXCEPT !.verifying = TRUE] \in TabState
    BY <1>1 DEF TabState
  <2>3. [tab[t] EXCEPT !.verifying = TRUE].step = tab[t].step
    BY <1>1 DEF TabState
  <2>4. /\ tab' = [tab EXCEPT ![t] = [tab[t] EXCEPT !.verifying = TRUE]]
        /\ calls' = calls \cup {Call(t, o)} /\ UNCHANGED <<server, passed>>
    BY <1>5 DEF Fetch
  <2>5. CallsOK(calls', passed)
    BY <1>5, <2>1, <2>4 DEF CallsOK
  <2> QED BY <1>1, <1>2, <1>3, <2>2, <2>3, <2>4, <2>5
<1>6. CASE SendOtp(t) \/ VerifyOtp(t) \/ SubmitForm(t)
  BY <1>1, <1>5, <1>6 DEF SendOtp, VerifyOtp, SubmitForm, AtStep, Ops, Filing
<1>7. ASSUME NEW r \in TabState, r.step = 3 => passed, tab' = [tab EXCEPT ![t] = r],
             UNCHANGED <<server, calls, passed>>
      PROVE  IInv'
  BY <1>2, <1>3, <1>7
<1>8. CASE Proceed(t)
  <2>1. [tab[t] EXCEPT !.step = 2] \in TabState /\ [tab[t] EXCEPT !.step = 2].step # 3
    BY <1>1 DEF TabState
  <2>2. tab' = [tab EXCEPT ![t] = [tab[t] EXCEPT !.step = 2]] /\ UNCHANGED <<server, calls, passed>>
    BY <1>8 DEF Proceed
  <2> QED BY <1>7, <2>1, <2>2
<1>9. CASE BackToNotice(t)
  <2>1. [tab[t] EXCEPT !.step = 1] \in TabState /\ [tab[t] EXCEPT !.step = 1].step # 3
    BY <1>1 DEF TabState
  <2>2. tab' = [tab EXCEPT ![t] = [tab[t] EXCEPT !.step = 1]] /\ UNCHANGED <<server, calls, passed>>
    BY <1>9 DEF BackToNotice
  <2> QED BY <1>7, <2>1, <2>2
<1>10. CASE SelectFile(t)
  <2>1. [tab[t] EXCEPT !.file = TRUE] \in TabState /\ [tab[t] EXCEPT !.file = TRUE].step = tab[t].step
    BY <1>1 DEF TabState
  <2> QED BY <1>1, <1>7, <1>10, <2>1 DEF SelectFile
<1>11. CASE TimerEnds(t)
  <2>1. [tab[t] EXCEPT !.timer = FALSE] \in TabState /\ [tab[t] EXCEPT !.timer = FALSE].step = tab[t].step
    BY <1>1 DEF TabState
  <2> QED BY <1>1, <1>7, <1>11, <2>1 DEF TimerEnds
<1>12. ASSUME NEW p \in Pages, NEW session \in BOOLEAN, Push(t, p, session, calls),
              UNCHANGED <<server, passed>>
       PROVE  IInv'
  BY <1>2, <1>12, PushOK
<1>13. CASE OpenVault(t) \/ BackToForm(t) \/ SignOut(t)
  BY <1>1, <1>12, <1>13 DEF OpenVault, BackToForm, SignOut, Pages
<1> QED BY <1>4, <1>6, <1>8, <1>9, <1>10, <1>11, <1>13 DEF UserStep

-----------------------------------------------------------------------------
(* The answers                                                             *)

\* An answer that leaves the server's data alone, or a claim where one is.
LEMMA DataKept ==
  ASSUME IInv, passed' = passed, code' \in BOOLEAN, token' = token, evidence' \subseteq Claims,
         status' \in [Claims -> Status], \A c \in Claims : status'[c] # "NONE" => Stored(c)
  PROVE  ServerOK' /\ CodeBeforeClaim'
BY DEF IInv, ServerOK, CodeBeforeClaim, AnyClaim, Stored

LEMMA DataSame ==
  ASSUME IInv, UNCHANGED <<server, passed>>
  PROVE  ServerOK' /\ CodeBeforeClaim' /\ passed' = passed
BY DEF IInv, server, ServerOK, CodeBeforeClaim, AnyClaim, Stored

LEMMA CallKnown ==
  ASSUME IInv, NEW k \in calls
  PROVE  /\ k \in CallState
         /\ k.tab \in Tabs => /\ tab[k.tab] \in TabState /\ tab[k.tab].session \in BOOLEAN
                              /\ tab[k.tab].step = 3 => passed
         /\ CallsOK(calls \ {k}, passed)
BY DEF IInv, CallsOK, TabsOK, CallState, TabState

LEMMA EndKeeps ==
  ASSUME IInv, NEW k \in calls, k.tab \in Tabs, EndsIn(k), UNCHANGED <<server, passed>>
  PROVE  IInv'
BY EndsInOK, DataSame DEF IInv

LEMMA LeaveKeeps ==
  ASSUME IInv, NEW k \in calls, k.tab \in Tabs, NEW p \in Pages,
         Push(k.tab, p, tab[k.tab].session, calls \ {k})
  PROVE  TabsOK(tab', passed) /\ CallsOK(calls', passed)
BY CallKnown, PushOK DEF IInv

LEMMA LoadAnswers ==
  ASSUME IInv, NEW k \in calls, DetailsAnswered(k) \/ StatusAnswered(k)
  PROVE  IInv'
<1>1. k.tab \in Tabs /\ UNCHANGED <<server, passed>>
  BY DEF DetailsAnswered, StatusAnswered, InFlight
<1>2. tab[k.tab] \in TabState /\ (tab[k.tab].step = 3 => passed) /\ CallsOK(calls \ {k}, passed)
  BY <1>1, CallKnown
<1>3. ASSUME NEW p \in Pages, Push(k.tab, p, tab[k.tab].session, calls \ {k}) PROVE IInv'
  BY <1>1, <1>3, LeaveKeeps, DataSame DEF IInv
<1>4. CASE DetailsAnswered(k)
  <2>1. CASE token = "valid"
    <3> DEFINE r == [tab[k.tab] EXCEPT !.details = TRUE]
    <3>1. GoesOn(k, "checkStatus") /\ Show(k, r)
      BY <1>4, <2>1 DEF DetailsAnswered
    <3>2. r \in TabState /\ r.step = tab[k.tab].step
      BY <1>2 DEF TabState
    <3> HIDE DEF r
    <3>3. TabsOK(tab', passed)
      BY <1>2, <3>1, <3>2, ShowOK DEF IInv
    <3>4. CallsOK(calls', passed)
      BY <3>1, GoesOnOK DEF IInv, Ops, Filing
    <3> QED BY <1>1, <3>3, <3>4, DataSame DEF IInv
  <2>2. CASE token # "valid"
    BY <1>3, <1>4, <2>2 DEF DetailsAnswered, Pages
  <2> QED BY <2>1, <2>2
<1>5. CASE StatusAnswered(k)
  <2>1. CASE token = "valid" /\ LatestStatus \in UnderWay
    BY <1>3, <1>5, <2>1 DEF StatusAnswered, Pages
  <2>2. CASE ~(token = "valid" /\ LatestStatus \in UnderWay)
    <3> DEFINE r == IF token = "valid" THEN LoadedStep(tab[k.tab], LatestStatus)
                    ELSE Settled(tab[k.tab])
    <3>1. calls' = calls \ {k} /\ Show(k, r)
      BY <1>5, <2>2 DEF StatusAnswered
    <3>2. Settled(tab[k.tab]) \in TabState /\ Settled(tab[k.tab]).step = tab[k.tab].step
      BY <1>2, SettledOK
    <3>3. FormFor(tab[k.tab]) \in TabState
      BY <3>2 DEF FormFor, TabState
    <3>4. LatestStatus # "NONE" => passed
      BY DEF LatestStatus, Latest, AnyClaim, IInv, CodeBeforeClaim
    <3>5. r \in TabState /\ (r.step = 3 => passed)
      BY <1>2, <3>2, <3>3, <3>4 DEF LoadedStep
    <3> HIDE DEF r
    <3>6. TabsOK(tab', passed)
      BY <3>1, <3>5, ShowOK DEF IInv
    <3> QED BY <1>1, <1>2, <3>1, <3>6, DataSame DEF IInv
  <2> QED BY <2>1, <2>2
<1> QED BY <1>4, <1>5

LEMMA OtpAnswers ==
  ASSUME IInv, NEW k \in calls, SendOtpAnswered(k) \/ VerifyOtpAnswered(k)
  PROVE  IInv'
<1>1. k.tab \in Tabs /\ calls' = calls \ {k}
  BY DEF SendOtpAnswered, VerifyOtpAnswered, InFlight
<1>2. tab[k.tab] \in TabState /\ (tab[k.tab].step = 3 => passed) /\ CallsOK(calls \ {k}, passed)
  BY <1>1, CallKnown
<1>3. Settled(tab[k.tab]) \in TabState /\ Settled(tab[k.tab]).step = tab[k.tab].step
  BY <1>2, SettledOK
<1>4. CASE SendOtpAnswered(k)
  <2> DEFINE r == [Settled(tab[k.tab]) EXCEPT !.otpSent = TRUE, !.timer = TRUE]
  <2>1. r \in TabState /\ r.step = tab[k.tab].step
    BY <1>3 DEF TabState
  <2>2. Show(k, r) /\ code' = TRUE /\ UNCHANGED <<status, evidence, token, passed>>
    BY <1>4 DEF SendOtpAnswered
  <2> HIDE DEF r
  <2>3. TabsOK(tab', passed)
    BY <1>2, <2>1, <2>2, ShowOK DEF IInv
  <2>4. ServerOK' /\ CodeBeforeClaim'
    BY <2>2, DataKept DEF IInv, ServerOK, Stored
  <2> QED BY <1>1, <1>2, <2>2, <2>3, <2>4 DEF IInv
<1>5. CASE VerifyOtpAnswered(k)
  <2>1. FormFor(tab[k.tab]) \in TabState
    BY <1>3 DEF FormFor, TabState
  <2>2. Show(k, FormFor(tab[k.tab])) /\ passed' = TRUE /\ UNCHANGED server
    BY <1>5 DEF VerifyOtpAnswered
  <2>3. TabsOK(tab, TRUE) /\ CallsOK(calls', TRUE)
    BY <1>1, <1>2 DEF IInv, TabsOK, CallsOK
  <2>4. TabsOK(tab', TRUE)
    BY <2>1, <2>2, <2>3, ShowOK
  <2> QED BY <2>2, <2>3, <2>4 DEF IInv, server, ServerOK, CodeBeforeClaim
<1> QED BY <1>4, <1>5

\* The requests of the form follow one another, so each was begun by a form.
LEMMA FormAnswers ==
  ASSUME IInv, NEW k \in calls,
         ClaimChecked(k) \/ (\E c \in Claims : ClaimInserted(k, c)) \/ UploadAnswered(k)
           \/ CompleteAnswered(k)
  PROVE  IInv'
<1>1. passed' = passed /\ token' = token /\ code' = code
  BY DEF ClaimChecked, ClaimInserted, UploadAnswered, CompleteAnswered, server
<1>2. passed
  BY DEF ClaimChecked, ClaimInserted, UploadAnswered, CompleteAnswered, InFlight, IInv, CallsOK,
         Filing
<1>3. CallsOK(calls \ {k}, passed)
  BY CallKnown
<1>4. ASSUME NEW o \in Ops, GoesOn(k, o) PROVE CallsOK(calls', passed)
  BY <1>2, <1>4, GoesOnOK DEF IInv
<1>5. CASE ClaimChecked(k)
  <2>1. UNCHANGED <<server, tab, passed>> /\ \E o \in {"upload", "insert"} : GoesOn(k, o)
    BY <1>5 DEF ClaimChecked
  <2> QED BY <1>4, <2>1, DataSame DEF Ops, IInv
<1>6. ASSUME NEW c \in Claims, ClaimInserted(k, c) PROVE IInv'
  <2>1. CallsOK(calls', passed)
    BY <1>3, <1>4, <1>6 DEF ClaimInserted, Ops
  <2>2. ServerOK'
    BY <1>1, <1>6 DEF ClaimInserted, ServerOK, IInv, Status
  <2>3. CodeBeforeClaim'
    BY <1>1, <1>2 DEF CodeBeforeClaim
  <2>4. tab' = tab
    BY <1>6 DEF ClaimInserted
  <2> QED BY <1>1, <2>1, <2>2, <2>3, <2>4 DEF IInv
<1>7. CASE UploadAnswered(k)
  <2>1. evidence' \subseteq Claims /\ status' = status /\ tab' = tab
    BY <1>7 DEF UploadAnswered, IInv, ServerOK
  <2>2. CallsOK(calls', passed)
    BY <1>4, <1>7 DEF UploadAnswered, Ops
  <2> QED BY <1>1, <1>2, <2>1, <2>2 DEF IInv, ServerOK, CodeBeforeClaim
<1>8. CASE CompleteAnswered(k)
  <2>1. k.tab \in Tabs /\ Push(k.tab, "status", tab[k.tab].session, calls \ {k})
    BY <1>8 DEF CompleteAnswered, InFlight
  <2>2. status' \in [Claims -> Status] /\ evidence' = evidence
    BY <1>8 DEF CompleteAnswered, IInv, ServerOK, Status
  <2>3. TabsOK(tab', passed) /\ CallsOK(calls', passed)
    BY <2>1, LeaveKeeps DEF Pages
  <2> QED BY <1>1, <1>2, <2>2, <2>3 DEF IInv, ServerOK, CodeBeforeClaim
<1> QED BY <1>5, <1>6, <1>7, <1>8

LEMMA OtherAnswers ==
  ASSUME IInv, NEW k \in calls,
         FetchStatusAnswered(k) \/ AssetsAnswered(k) \/ Refused(k)
  PROVE  IInv'
<1>1. k.tab \in Tabs /\ UNCHANGED <<server, passed>>
  BY DEF FetchStatusAnswered, AssetsAnswered, Refused, InFlight
<1>2. tab[k.tab] \in TabState /\ (tab[k.tab].step = 3 => passed) /\ CallsOK(calls \ {k}, passed)
  BY <1>1, CallKnown
<1>3. Settled(tab[k.tab]) \in TabState /\ Settled(tab[k.tab]).step = tab[k.tab].step
  BY <1>2, SettledOK
<1>4. ASSUME NEW p \in Pages, Push(k.tab, p, tab[k.tab].session, calls \ {k}) PROVE IInv'
  BY <1>1, <1>4, LeaveKeeps, DataSame DEF IInv
<1>5. ASSUME NEW r \in TabState, r.step = 3 => passed, Show(k, r), calls' = calls \ {k} PROVE IInv'
  <2>1. TabsOK(tab', passed)
    BY <1>5, ShowOK DEF IInv
  <2> QED BY <1>1, <1>2, <1>5, <2>1, DataSame DEF IInv
<1>6. CASE FetchStatusAnswered(k)
  <2> DEFINE r == [Settled(tab[k.tab]) EXCEPT !.shown = LatestStatus]
  <2>1. LatestStatus \in Status
    BY DEF LatestStatus, IInv, ServerOK, Status
  <2>2. r \in TabState /\ r.step = tab[k.tab].step
    BY <1>3, <2>1 DEF TabState
  <2>3. token = "none" \/ (calls' = calls \ {k} /\ Show(k, r))
    BY <1>6 DEF FetchStatusAnswered
  <2>4. token = "none" => Push(k.tab, "home", tab[k.tab].session, calls \ {k})
    BY <1>6 DEF FetchStatusAnswered
  <2> HIDE DEF r
  <2> QED BY <1>2, <1>4, <1>5, <2>2, <2>3, <2>4 DEF Pages
<1>7. CASE AssetsAnswered(k)
  <2> DEFINE r == [Settled(tab[k.tab]) EXCEPT !.assets = TRUE]
  <2>1. r \in TabState /\ r.step = tab[k.tab].step
    BY <1>3 DEF TabState
  <2>2. \/ calls' = calls \ {k} /\ Show(k, r)
        \/ Push(k.tab, "verify", tab[k.tab].session, calls \ {k})
    BY <1>7 DEF AssetsAnswered
  <2> HIDE DEF r
  <2> QED BY <1>2, <1>4, <1>5, <2>1, <2>2 DEF Pages
<1>8. CASE Refused(k)
  BY <1>1, <1>8, EndKeeps DEF Refused
<1> QED BY <1>6, <1>7, <1>8

LEMMA ErrorKeeps == ASSUME IInv, NEW k \in calls, NetworkError(k) PROVE IInv'
<1>1. /\ k.tab \in Tabs /\ Show(k, Settled(tab[k.tab]))
      /\ calls' = (calls \ {k}) \cup {x \in {Orphan} : k.op = "insert"}
      /\ UNCHANGED <<status, evidence, token, passed>>
  BY DEF NetworkError
<1>2. tab[k.tab] \in TabState /\ (tab[k.tab].step = 3 => passed) /\ CallsOK(calls \ {k}, passed)
  BY <1>1, CallKnown
<1>3. Settled(tab[k.tab]) \in TabState /\ Settled(tab[k.tab]).step = tab[k.tab].step
  BY <1>2, SettledOK
<1>4. TabsOK(tab', passed)
  BY <1>1, <1>2, <1>3, ShowOK DEF IInv
<1>5. Orphan \in CallState
  BY DEF Orphan, CallState, CallTab, Ops
<1>6. k.op = "insert" => passed
  BY DEF IInv, CallsOK, Filing
<1>7. CallsOK(calls', passed)
  BY <1>1, <1>2, <1>5, <1>6 DEF CallsOK
<1>8. code' \in BOOLEAN
  BY DEF NetworkError, IInv, ServerOK
<1>9. ServerOK' /\ CodeBeforeClaim'
  BY <1>1, <1>8, DataKept DEF IInv, ServerOK, Stored
<1> QED BY <1>1, <1>4, <1>7, <1>9 DEF IInv

LEMMA OthersKeep == ASSUME IInv, OtherStep PROVE IInv'
<1>1. UNCHANGED <<evidence, code, tab, calls, passed>>
  BY DEF OtherStep, Decide, TokenEnds
<1>2. ASSUME NEW c \in Claims, NEW s \in Status, Decide(c, s) PROVE IInv'
  <2>1. status' = [status EXCEPT ![c] = s] /\ Stored(c) /\ token' = token
    BY <1>2 DEF Decide
  <2> QED BY <1>1, <2>1 DEF IInv, ServerOK, CodeBeforeClaim, AnyClaim, Stored
<1>3. CASE TokenEnds
  BY <1>1, <1>3 DEF TokenEnds, IInv, ServerOK, CodeBeforeClaim, AnyClaim, Stored
<1> QED BY <1>2, <1>3 DEF OtherStep

-----------------------------------------------------------------------------

LEMMA InitHolds == Init => IInv
<1> SUFFICES ASSUME Init PROVE IInv
  OBVIOUS
<1>1. ServerOK /\ CallsOK(calls, passed)
  BY DEF Init, ServerOK, CallsOK, Status
<1>2. ~AnyClaim
  BY DEF Init, AnyClaim, Stored
<1>3. Fresh("closed", FALSE) \in TabState /\ Fresh("closed", FALSE).step # 3
  BY DEF Fresh, TabState, Pages, Status
<1>4. TabsOK(tab, passed)
  BY <1>3 DEF Init, TabsOK
<1> QED BY <1>1, <1>2, <1>4 DEF IInv, CodeBeforeClaim

LEMMA StepKeeps == IInv /\ [Next]_vars => IInv'
<1> SUFFICES ASSUME IInv, [Next]_vars PROVE IInv'
  OBVIOUS
<1>1. ASSUME NEW t \in Tabs, UserStep(t) PROVE IInv'
  BY <1>1, UserKeeps
<1>2. ASSUME NEW k \in calls, Answered(k) PROVE IInv'
  BY <1>2, LoadAnswers, OtpAnswers, FormAnswers, OtherAnswers, ErrorKeeps DEF Answered
<1>3. CASE OtherStep
  BY <1>3, OthersKeep
<1>4. CASE UNCHANGED vars
  BY <1>4 DEF vars, server, IInv, ServerOK, TabsOK, CallsOK, CodeBeforeClaim, AnyClaim, Stored
<1> QED BY <1>1, <1>2, <1>3, <1>4 DEF Next

LEMMA InvariantHolds == Spec => []IInv
BY InitHolds, StepKeeps, PTL DEF Spec

\* The tabs, the requests in flight and the server's data keep their shape.
THEOREM TypeCorrect == Spec => []TypeOK
BY InvariantHolds, InvTypes, PTL

\* Nobody files the first claim with these pages without the code mailed to the nominee.
THEOREM CodeAlwaysFirst == Spec => []CodeBeforeClaim
<1>1. IInv => CodeBeforeClaim
  BY DEF IInv
<1> QED BY <1>1, InvariantHolds, PTL
=============================================================================
