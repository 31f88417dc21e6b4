------------------------------- MODULE Billing -------------------------------
(***************************************************************************)
(* The payments and subscriptions of one user: requests for a paid plan,   *)
(* their review by the support admins (lib/subscription_service.py), the   *)
(* daily job that ends subscriptions, and the plan in the user's document. *)
(* Every call to the database is a step; the API's coroutines and the job  *)
(* of every replica interleave between them, and no call but the first     *)
(* looks at what the others have done since.                               *)
(***************************************************************************)
EXTENDS Naturals, FiniteSets

CONSTANTS
  Handlers,      \* API requests served at once
  Replicas,      \* servers whose scheduler runs the daily job, without a lock
  MaxRequests,   \* bound: payment requests
  Wants,         \* [1 .. MaxRequests -> PaidPlans]: their planId
  MaxSubs,       \* bound: subscriptions
  MaxDeaths      \* bound: coroutines that die

PaidPlans == {"pro", "premium"}
Requests == 1 .. MaxRequests
Subs == 1 .. MaxSubs
Nothing == 0

ASSUME BillingAssumption ==
  /\ {MaxRequests, MaxSubs, MaxDeaths} \subseteq Nat
  /\ Wants \in [Requests -> PaidPlans]

VARIABLES
  request,   \* [Requests -> status]: collection payment_requests
  sub,       \* [Subs -> status]: collection subscriptions
  pays,      \* [Subs -> request]: their paymentRequestId
  ended,     \* the subscriptions whose endDate has passed
  plan,      \* the plan of the user's document
  invoices,  \* the subscriptions an invoice was written for
  at,        \* [Handlers -> step]
  doing,     \* [Handlers -> the request it reviews, the subscriptions it found and made]
  job,       \* [Replicas -> step, subscriptions listed, the one at hand]
  raced,     \* history: two coroutines wrote from what both had read
  torn,      \* history: a coroutine died between two writes that belong together
  deaths

books == <<request, sub, pays, ended, plan, invoices>>
billingVars == <<request, sub, pays, ended, plan, invoices, at, doing, job, raced, torn, deaths>>

Active == {s \in Subs : sub[s] = "ACTIVE"}
Free(f) == {n \in DOMAIN f : f[n] = "none"}
NoReview == [req |-> Nothing, old |-> Nothing, new |-> Nothing]

BillingInit ==
  /\ request = [r \in Requests |-> "none"]
  /\ sub = [s \in Subs |-> "none"] /\ pays = [s \in Subs |-> Nothing]
  /\ ended = {} /\ plan = "free" /\ invoices = {}
  /\ at = [h \in Handlers |-> "idle"] /\ doing = [h \in Handlers |-> NoReview]
  /\ job = [j \in Replicas |-> [at |-> "idle", todo |-> {}, sub |-> Nothing]]
  /\ raced = FALSE /\ torn = FALSE /\ deaths = 0

-----------------------------------------------------------------------------
(* The API                                                                 *)

Go(h, from, to) == at[h] = from /\ at' = [at EXCEPT ![h] = to]
Done(h, from) == Go(h, from, "idle") /\ doing' = [doing EXCEPT ![h] = NoReview]

\* create_payment_request refuses a second pending request; both of two at once pass.
SubmitLook(h) ==
  /\ \A r \in Requests : request[r] # "PENDING"
  /\ Go(h, "idle", "submit")
  /\ UNCHANGED <<books, doing, job, raced, torn, deaths>>

SubmitInsert(h) ==
  /\ Done(h, "submit")
  /\ \E r \in Free(request) :
       /\ \A q \in Free(request) : r <= q
       /\ request' = [request EXCEPT ![r] = "PENDING"]
  /\ UNCHANGED <<sub, pays, ended, plan, invoices, job, raced, torn, deaths>>

\* Both reviews begin with the check that the request is pending.
ReviewRead(h, r, verdict) ==
  /\ request[r] = "PENDING"
  /\ Go(h, "idle", verdict)
  /\ doing' = [doing EXCEPT ![h].req = r]
  /\ UNCHANGED <<books, job, raced, torn, deaths>>

Mark(h, status) ==
  /\ request' = [request EXCEPT ![doing[h].req] = status]
  /\ raced' = (raced \/ request[doing[h].req] # "PENDING")
  /\ UNCHANGED <<sub, pays, ended, plan, invoices, job, torn, deaths>>

RejectMark(h) == Done(h, "reject") /\ Mark(h, "REJECTED")
ApproveMark(h) == Go(h, "approve", "look") /\ Mark(h, "APPROVED") /\ UNCHANGED doing

\* The steps in which another approval makes this one's finding stale.
Replacing == {"supersede", "insert", "upgrade"}

ApproveLook(h) ==
  /\ Go(h, "look", IF Active = {} THEN "insert" ELSE "supersede")
  /\ \E s \in IF Active = {} THEN {Nothing} ELSE Active :
       doing' = [doing EXCEPT ![h].old = s]
  /\ raced' = (raced \/ \E g \in Handlers : at[g] \in Replacing)
  /\ UNCHANGED <<books, job, torn, deaths>>

ApproveSupersede(h) ==
  /\ Go(h, "supersede", "insert")
  /\ sub' = [sub EXCEPT ![doing[h].old] = "SUPERSEDED"]
  /\ doing' = [doing EXCEPT ![h].old = Nothing]
  /\ UNCHANGED <<request, pays, ended, plan, invoices, job, raced, torn, deaths>>

ApproveInsert(h) ==
  /\ Go(h, "insert", "upgrade")
  /\ \E s \in Free(sub) :
       /\ \A t \in Free(sub) : s <= t
       /\ sub' = [sub EXCEPT ![s] = "ACTIVE"]
       /\ pays' = [pays EXCEPT ![s] = doing[h].req]
       /\ doing' = [doing EXCEPT ![h].new = s]
  /\ UNCHANGED <<request, ended, plan, invoices, job, raced, torn, deaths>>

\* A job that has looked, and is about to write, takes the plan away again.
ApproveUpgrade(h) ==
  /\ Go(h, "upgrade", "invoice")
  /\ plan' = Wants[doing[h].req]
  /\ raced' = (raced \/ \E j \in Replicas : job[j].at = "downgrade")
  /\ UNCHANGED <<request, sub, pays, ended, invoices, doing, job, torn, deaths>>

ApproveInvoice(h) ==
  /\ Done(h, "invoice")
  /\ invoices' = invoices \cup {doing[h].new}
  /\ UNCHANGED <<request, sub, pays, ended, plan, job, raced, torn, deaths>>

-----------------------------------------------------------------------------
(* The daily job                                                           *)

\* A month goes by: no approval takes as long.
Lapse(s) ==
  /\ sub[s] = "ACTIVE" /\ s \notin ended
  /\ \A h \in Handlers : doing[h].new # s
  /\ ended' = ended \cup {s}
  /\ UNCHANGED <<request, sub, pays, plan, invoices, at, doing, job, raced, torn, deaths>>

ExpireList(j) ==
  /\ job[j].at = "idle"
  /\ Active \cap ended # {}
  /\ job' = [job EXCEPT ![j].at = "mark", ![j].todo = Active \cap ended]
  /\ UNCHANGED <<books, at, doing, raced, torn, deaths>>

\* A mutant: the subscription is left ACTIVE when the user has another one.
ExpireMarkOnly(j) ==
  /\ job[j].at = "mark"
  /\ \E s \in job[j].todo :
       /\ sub' = IF Active \subseteq {s} THEN [sub EXCEPT ![s] = "EXPIRED"] ELSE sub
       /\ job' = [job EXCEPT ![j].at = "look", ![j].todo = @ \ {s}, ![j].sub = s]
  /\ UNCHANGED <<request, pays, ended, plan, invoices, at, doing, raced, torn, deaths>>

\* By id: a subscription superseded since it was listed is marked EXPIRED, too.
ExpireMark(j) ==
  /\ job[j].at = "mark"
  /\ \E s \in job[j].todo :
       /\ sub' = [sub EXCEPT ![s] = "EXPIRED"]
       /\ job' = [job EXCEPT ![j].at = "look", ![j].todo = @ \ {s}, ![j].sub = s]
  /\ UNCHANGED <<request, pays, ended, plan, invoices, at, doing, raced, torn, deaths>>

NextOf(j) == IF job[j].todo = {} THEN "idle" ELSE "mark"

\* A mutant: the user is downgraded whatever else is active.
ExpireLookNot(j) ==
  /\ job[j].at = "look"
  /\ job' = [job EXCEPT ![j].at = "downgrade", ![j].sub = Nothing]
  /\ UNCHANGED <<books, at, doing, raced, torn, deaths>>

ExpireLook(j) ==
  /\ job[j].at = "look"
  /\ job' = [job EXCEPT ![j].at = IF Active \subseteq {job[j].sub} THEN "downgrade"
                                  ELSE NextOf(j),
                        ![j].sub = Nothing]
  /\ UNCHANGED <<books, at, doing, raced, torn, deaths>>

ExpireDowngrade(j) ==
  /\ job[j].at = "downgrade"
  /\ plan' = "free"
  /\ job' = [job EXCEPT ![j].at = NextOf(j)]
  /\ UNCHANGED <<request, sub, pays, ended, invoices, at, doing, raced, torn, deaths>>

-----------------------------------------------------------------------------
(* Coroutines die with their process                                       *)

Halfway == {"look", "supersede", "insert", "upgrade", "invoice"}

CrashHandler(h) ==
  /\ at[h] # "idle" /\ deaths < MaxDeaths
  /\ at' = [at EXCEPT ![h] = "idle"] /\ doing' = [doing EXCEPT ![h] = NoReview]
  /\ torn' = (torn \/ at[h] \in Halfway)
  /\ deaths' = deaths + 1
  /\ UNCHANGED <<books, job, raced>>

CrashJob(j) ==
  /\ job[j].at # "idle" /\ deaths < MaxDeaths
  /\ job' = [job EXCEPT ![j] = [at |-> "idle", todo |-> {}, sub |-> Nothing]]
  /\ torn' = (torn \/ job[j].at \in {"look", "downgrade"})
  /\ deaths' = deaths + 1
  /\ UNCHANGED <<books, at, doing, raced>>

-----------------------------------------------------------------------------

Submit(h) == SubmitLook(h) \/ SubmitInsert(h)
Approve(h) ==
  \/ ApproveMark(h) \/ ApproveLook(h) \/ ApproveSupersede(h)
  \/ ApproveInsert(h) \/ ApproveUpgrade(h) \/ ApproveInvoice(h)
Expire(j) == ExpireList(j) \/ ExpireMark(j) \/ ExpireLook(j) \/ ExpireDowngrade(j)

BillingNext ==
  \/ \E h \in Handlers :
       \/ Submit(h) \/ RejectMark(h) \/ Approve(h) \/ CrashHandler(h)
       \/ \E r \in Requests, verdict \in {"approve", "reject"} : ReviewRead(h, r, verdict)
  \/ \E j \in Replicas : Expire(j) \/ CrashJob(j)
  \/ \E s \in Subs : Lapse(s)

BillingSpec == BillingInit /\ [][BillingNext]_billingVars

\* The scheduler's cron trigger: each replica's job goes on, and begins again every day.
BillingFairSpec == BillingSpec /\ \A j \in Replicas : WF_billingVars(Expire(j))

-----------------------------------------------------------------------------
(* Properties                                                              *)

BillingTypeOK ==
  /\ request \in [Requests -> {"none", "PENDING", "APPROVED", "REJECTED"}]
  /\ sub \in [Subs -> {"none", "ACTIVE", "SUPERSEDED", "EXPIRED"}]
  /\ pays \in [Subs -> Requests \cup {Nothing}]
  /\ ended \subseteq Subs /\ invoices \subseteq Subs
  /\ plan \in PaidPlans \cup {"free"}
  /\ at \in [Handlers -> {"idle", "submit", "approve", "reject"} \cup Halfway]
  /\ doing \in [Handlers -> [req: Requests \cup {Nothing}, old: Subs \cup {Nothing},
                             new: Subs \cup {Nothing}]]
  /\ job \in [Replicas -> [at: {"idle", "mark", "look", "downgrade"}, todo: SUBSET Subs,
                           sub: Subs \cup {Nothing}]]
  /\ {raced, torn} \subseteq BOOLEAN /\ deaths \in 0 .. MaxDeaths

\* Between reviews and jobs, the user's plan is that of the one active subscription, or free
\* without one, and an approved request has bought exactly one subscription, with an invoice,
\* unless two approvals or two verdicts overlapped, an approval changed the plan between the
\* job's look and its downgrade, or a coroutine died halfway (approve_payment, reject_payment,
\* expire_subscriptions).
BooksBalance ==
  (/\ ~raced /\ ~torn
   /\ \A h \in Handlers : at[h] \notin Halfway
   /\ \A j \in Replicas : job[j].at \in {"idle", "mark"}) =>
    /\ Cardinality(Active) <= 1
    /\ {plan} = IF Active = {} THEN {"free"} ELSE {Wants[pays[s]] : s \in Active}
    /\ invoices = {s \in Subs : sub[s] # "none"}
    /\ \A r \in Requests :
         Cardinality({s \in Subs : pays[s] = r}) = IF request[r] = "APPROVED" THEN 1 ELSE 0

\* A subscription past its end does not stay active, also beside another one, after races and
\* when jobs die: the job finds it again on a later day (expire_subscriptions).
EndedExpires == \A s \in Subs : (s \in ended /\ sub[s] = "ACTIVE") ~> (sub[s] # "ACTIVE")
=============================================================================
