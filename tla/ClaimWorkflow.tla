---------------------------- MODULE ClaimWorkflow ----------------------------
(***************************************************************************)
(* The life of the death claims one nominee makes on a vault: the records  *)
(* of db.verification_requests, the nominee's access token, the OTP        *)
(* documents, the owner's halt link, the admins' review routes and the     *)
(* scheduler's cooling-period job.                                         *)
(*                                                                         *)
(* A FastAPI handler suspends at every await on a collection.  The model   *)
(* splits a handler where another one can come in between and matter: the  *)
(* token lookup, the reads with the guards on them, and the write.  A      *)
(* handler in flight is a record of work[h]; its write names the claim the *)
(* read found and takes no second look at it, as update_one({"id": ...})   *)
(* does in the code.  Owners and nominees do not interact in this part of  *)
(* the system, so one nominee of one owner is modelled.                    *)
(***************************************************************************)
EXTENDS Naturals

CONSTANTS
  MaxClaims,        \* bound: claims ever submitted by the nominee
  Handlers,         \* requests the API process serves at the same time
  CoolingEnabled,   \* settings.COOLING_PERIOD_DAYS > 0
  MaxCrashes        \* bound: restarts of the API process

ASSUME ClaimsAssumption ==
  /\ MaxClaims \in Nat
  /\ CoolingEnabled \in BOOLEAN
  /\ MaxCrashes \in Nat

Claims == 1 .. MaxClaims        \* numbered by createdAt
Steps == {"email", "mobile", "govtId", "face"}
ReviewActions == {"APPROVE", "REJECT", "REQUEST_MORE_DOCS"}
LiveStatus == {"COOLING_PERIOD", "NOMINEE_NOTIFIED", "PENDING_REVIEW", "UNDER_REVIEW",
               "MORE_DOCUMENTS_REQUIRED", "APPROVED", "REJECTED", "HALTED"}
Status == LiveStatus \cup {"NONE", "DELETED"}
\* What a suspended handler will write; "authenticated" has chosen nothing yet.
Writes == {"submit", "halt", "sendEmailOtp", "verifyEmail", "sendMobileOtp", "verifyMobile",
           "uploadId", "uploadSelfie", "uploadDeath", "complete", "poll", "additional",
           "deleteDocument", "assign", "serveAssets", "deleteNominee"} \cup ReviewActions
Op == Writes \cup {"idle", "authenticated"}

VARIABLES
  status,     \* [Claims -> Status]
  verified,   \* emailVerified, mobileVerified, govtIdVerified, faceVerified
  evidence,   \* whether deathEvidence is non-empty
  reviews,    \* the actions recorded in reviewHistory
  elapsed,    \* claims whose coolingPeriodEnd has passed
  otp,        \* the documents of verification_otps
  nominee,    \* the nominee's document exists
  token,      \* its accessToken: "none" (nulled), "valid" or "expired"
  work,       \* the handlers in flight
  advancing,  \* claims the cooling job has read and not yet written
  served,     \* history: the nominee has been sent the assets
  crashes     \* history: restarts so far

record == <<status, verified, evidence, reviews>>
identity == <<nominee, token>>
vars == <<status, verified, evidence, reviews, elapsed, otp, nominee, token,
          work, advancing, served, crashes>>

Idle == [op |-> "idle", c |-> 0]

Init ==
  /\ status = [c \in Claims |-> "NONE"]
  /\ verified = [c \in Claims |-> {}]
  /\ evidence = [c \in Claims |-> FALSE]
  /\ reviews = [c \in Claims |-> {}]
  /\ elapsed = {}
  /\ otp = {}
  /\ nominee = TRUE
  /\ token = "valid"
  /\ work = [h \in Handlers |-> Idle]
  /\ advancing = {}
  /\ served = FALSE
  /\ crashes = 0

-----------------------------------------------------------------------------
(* Reads and writes of a claim                                             *)

Stored(c) == status[c] \in LiveStatus

\* _get_active_request: the latest claim, whatever its status.
Latest(c) == Stored(c) /\ \A d \in Claims : d > c => ~Stored(d)

\* The claim number the next insertion gets.
Fresh(c) == status[c] = "NONE" /\ \A d \in Claims : d < c => status[d] # "NONE"

\* update_one({"id": c}, {"$set": ...}) matches nothing once c is deleted; an upsert would.
SetStatusUpserting(c, s) == status' = [status EXCEPT ![c] = s]
SetStatus(c, s) == status' = IF Stored(c) THEN [status EXCEPT ![c] = s] ELSE status

SetVerified(c, step) ==
  verified' = IF Stored(c) THEN [verified EXCEPT ![c] = @ \cup {step}] ELSE verified

SetEvidence(c, e) == evidence' = IF Stored(c) THEN [evidence EXCEPT ![c] = e] ELSE evidence

PushReview(c, a) ==
  reviews' = IF Stored(c) THEN [reviews EXCEPT ![c] = @ \cup {a}] ELSE reviews

\* The OTP document that was read is deleted by its _id in a call of its own: one put there
\* since another request deleted it stays, and a restart may come before the deletion.
ConsumeOtp(c, type) == otp' \in {otp, otp \ {<<c, type>>}}

Suspend(h, o, c) == work' = [work EXCEPT ![h] = [op |-> o, c |-> c]]

\* The nominee's handlers go on from a token lookup and the latest claim.
ReadLatest(h, o, c) ==
  /\ work[h].op = "authenticated"
  /\ Latest(c)
  /\ Suspend(h, o, c)
  /\ UNCHANGED <<record, elapsed, otp, identity, advancing, served, crashes>>

\* The owner's and the admins' handlers look the claim up directly.
ReadStored(h, o, c) ==
  /\ work[h].op = "idle"
  /\ Stored(c)
  /\ Suspend(h, o, c)
  /\ UNCHANGED <<record, elapsed, otp, identity, advancing, served, crashes>>

\* The write that ends handler h, o being what it suspended for.
Finish(h, o) ==
  /\ work[h].op = o
  /\ work' = [work EXCEPT ![h] = Idle]
  /\ UNCHANGED <<elapsed, identity, advancing, crashes>>

-----------------------------------------------------------------------------
(* The nominee's routes                                                    *)

Authenticate(h) ==
  /\ work[h].op = "idle"
  /\ nominee /\ token = "valid"
  /\ Suspend(h, "authenticated", 0)
  /\ UNCHANGED <<record, elapsed, otp, identity, advancing, served, crashes>>

\* Any route refuses an authenticated request with an error and writes nothing.
Refuse(h) ==
  /\ work[h].op = "authenticated"
  /\ work' = [work EXCEPT ![h] = Idle]
  /\ UNCHANGED <<record, elapsed, otp, identity, advancing, served, crashes>>

SubmitDeathClaim(h) ==
  /\ work[h].op = "authenticated"
  /\ \A c \in Claims : Stored(c) => status[c] \in {"REJECTED", "HALTED"}
  /\ Suspend(h, "submit", 0)
  /\ UNCHANGED <<record, elapsed, otp, identity, advancing, served, crashes>>

SubmitDeathClaimWrite(h) ==
  /\ Finish(h, "submit")
  /\ \E c \in Claims :
       /\ Fresh(c)
       /\ status' = [status EXCEPT ![c] =
                       IF CoolingEnabled THEN "COOLING_PERIOD" ELSE "NOMINEE_NOTIFIED"]
  /\ UNCHANGED <<verified, evidence, reviews, otp, served>>

SendEmailOtp(h, c) ==
  /\ ReadLatest(h, "sendEmailOtp", c)
  /\ status[c] # "HALTED"
  /\ "email" \notin verified[c]

SendEmailOtpWrite(h) ==
  /\ Finish(h, "sendEmailOtp")
  /\ otp' = otp \cup {<<work[h].c, "email">>}
  /\ UNCHANGED <<record, served>>

\* The nominee presents the right code in time.
VerifyEmailOtp(h, c) == ReadLatest(h, "verifyEmail", c) /\ <<c, "email">> \in otp

VerifyEmailOtpWrite(h) ==
  /\ Finish(h, "verifyEmail")
  /\ SetVerified(work[h].c, "email")
  /\ ConsumeOtp(work[h].c, "email")
  /\ UNCHANGED <<status, evidence, reviews, served>>

SendMobileOtp(h, c) ==
  /\ ReadLatest(h, "sendMobileOtp", c)
  /\ "email" \in verified[c]
  /\ "mobile" \notin verified[c]

SendMobileOtpWrite(h) ==
  /\ Finish(h, "sendMobileOtp")
  /\ otp' = otp \cup {<<work[h].c, "mobile">>}
  /\ UNCHANGED <<record, served>>

\* The OTP is looked up by request and type; the first form confuses the types.
VerifyMobileOtpAnyCode(h, c) == ReadLatest(h, "verifyMobile", c) /\ <<c, "email">> \in otp
VerifyMobileOtp(h, c) == ReadLatest(h, "verifyMobile", c) /\ <<c, "mobile">> \in otp

VerifyMobileOtpWrite(h) ==
  /\ Finish(h, "verifyMobile")
  /\ SetVerified(work[h].c, "mobile")
  /\ ConsumeOtp(work[h].c, "mobile")
  /\ UNCHANGED <<status, evidence, reviews, served>>

UploadGovernmentId(h, c) == ReadLatest(h, "uploadId", c) /\ "mobile" \in verified[c]

UploadGovernmentIdWrite(h) ==
  /\ Finish(h, "uploadId")
  /\ SetVerified(work[h].c, "govtId")
  /\ UNCHANGED <<status, evidence, reviews, otp, served>>

UploadSelfie(h, c) == ReadLatest(h, "uploadSelfie", c) /\ "govtId" \in verified[c]

UploadSelfieWrite(h) ==
  /\ Finish(h, "uploadSelfie")
  /\ SetVerified(work[h].c, "face")
  /\ UNCHANGED <<status, evidence, reviews, otp, served>>

UploadDeathDocument(h, c) == ReadLatest(h, "uploadDeath", c)

UploadDeathDocumentWrite(h) ==
  /\ Finish(h, "uploadDeath")
  /\ SetEvidence(work[h].c, TRUE)
  /\ UNCHANGED <<status, verified, reviews, otp, served>>

\* The checklist of POST /complete, and the same one with the selfie forgotten.
ChecklistWithoutSelfie(c) == {"email", "mobile", "govtId"} \subseteq verified[c] /\ evidence[c]
Checklist(c) == verified[c] = Steps /\ evidence[c]

CompleteVerification(h, c) == ReadLatest(h, "complete", c) /\ Checklist(c)

CompleteVerificationWrite(h) ==
  /\ Finish(h, "complete")
  /\ SetStatus(work[h].c, "PENDING_REVIEW")
  /\ UNCHANGED <<verified, evidence, reviews, otp, served>>

GetVerificationStatus(h, c) ==
  /\ ReadLatest(h, "poll", c)
  /\ status[c] = "COOLING_PERIOD"
  /\ c \in elapsed

GetVerificationStatusWrite(h) ==
  /\ Finish(h, "poll")
  /\ SetStatus(work[h].c, "NOMINEE_NOTIFIED")
  /\ UNCHANGED <<verified, evidence, reviews, otp, served>>

UploadAdditionalDocument(h, c) ==
  ReadLatest(h, "additional", c) /\ status[c] = "MORE_DOCUMENTS_REQUIRED"

UploadAdditionalDocumentWrite(h) ==
  /\ Finish(h, "additional")
  /\ SetEvidence(work[h].c, TRUE)
  /\ SetStatus(work[h].c, "PENDING_REVIEW")
  /\ UNCHANGED <<verified, reviews, otp, served>>

DeleteVerificationDocument(h, c) == ReadLatest(h, "deleteDocument", c) /\ evidence[c]

\* Other documents may or may not be left in deathEvidence.
DeleteVerificationDocumentWrite(h) ==
  /\ Finish(h, "deleteDocument")
  /\ \E left \in BOOLEAN :
       /\ left => evidence[work[h].c]
       /\ SetEvidence(work[h].c, left)
  /\ UNCHANGED <<status, verified, reviews, otp, served>>

\* GET /assets: the token lookup is Authenticate, then comes the approval lookup (the
\* first form forgets its status filter).
AnyClaimStored == \E c \in Claims : Stored(c)
SomeClaimApproved == \E c \in Claims : status[c] = "APPROVED"

GetNomineeAssets(h) ==
  /\ work[h].op = "authenticated"
  /\ SomeClaimApproved
  /\ Suspend(h, "serveAssets", 0)
  /\ UNCHANGED <<record, elapsed, otp, identity, advancing, served, crashes>>

GetNomineeAssetsServe(h) ==
  /\ Finish(h, "serveAssets")
  /\ served' = TRUE
  /\ UNCHANGED <<record, otp>>

-----------------------------------------------------------------------------
(* The owner's routes                                                      *)

HaltVerification(h, c) ==
  ReadStored(h, "halt", c) /\ status[c] \notin {"APPROVED", "HALTED", "REJECTED"}

HaltVerificationWrite(h) ==
  /\ Finish(h, "halt")
  /\ SetStatus(work[h].c, "HALTED")
  /\ UNCHANGED <<verified, evidence, reviews, otp, served>>

\* The nominee's document goes first, its claims with the next await.  The third
\* call filters verification_otps by nomineeId, a field they do not have.
DeleteNominee(h) ==
  /\ work[h].op = "idle"
  /\ nominee
  /\ nominee' = FALSE
  /\ token' = "none"
  /\ Suspend(h, "deleteNominee", 0)
  /\ UNCHANGED <<record, elapsed, otp, advancing, served, crashes>>

DeleteNomineeClaims(h) ==
  /\ Finish(h, "deleteNominee")
  /\ status' = [c \in Claims |-> IF Stored(c) THEN "DELETED" ELSE status[c]]
  /\ UNCHANGED <<verified, evidence, reviews, otp, served>>

-----------------------------------------------------------------------------
(* The admins' routes                                                      *)

AssignVerification(h, c) ==
  ReadStored(h, "assign", c) /\ status[c] \in {"PENDING_REVIEW", "MORE_DOCUMENTS_REQUIRED"}

AssignVerificationWrite(h) ==
  /\ Finish(h, "assign")
  /\ SetStatus(work[h].c, "UNDER_REVIEW")
  /\ PushReview(work[h].c, "ASSIGNED")
  /\ UNCHANGED <<verified, evidence, otp, served>>

\* No status is asked for.
ReviewVerification(h, c, action) == ReadStored(h, action, c)

\* action_map, and a route that stores the action instead of looking it up.
ReviewOutcomeUnmapped(action) == action
ReviewOutcome(action) ==
  CASE action = "APPROVE" -> "APPROVED"
    [] action = "REJECT" -> "REJECTED"
    [] action = "REQUEST_MORE_DOCS" -> "MORE_DOCUMENTS_REQUIRED"

ReviewVerificationWrite(h, action) ==
  /\ Finish(h, action)
  /\ SetStatus(work[h].c, ReviewOutcome(action))
  /\ PushReview(work[h].c, action)
  /\ UNCHANGED <<verified, evidence, otp, served>>

-----------------------------------------------------------------------------
(* The scheduler's jobs, time and restarts                                 *)

\* The cooling job's query, and the same one with the comparison turned round.
DueForAdvanceInverted == {c \in Claims : status[c] = "COOLING_PERIOD" /\ c \notin elapsed}
DueForAdvance == {c \in Claims : status[c] = "COOLING_PERIOD" /\ c \in elapsed}

AdvanceCoolingPeriod ==
  /\ advancing = {}
  /\ DueForAdvance # {}
  /\ advancing' = DueForAdvance
  /\ UNCHANGED <<record, elapsed, otp, identity, work, served, crashes>>

AdvanceCoolingPeriodWrite(c) ==
  /\ c \in advancing
  /\ advancing' = advancing \ {c}
  /\ SetStatus(c, "NOMINEE_NOTIFIED")
  /\ UNCHANGED <<verified, evidence, reviews, elapsed, otp, identity, work, served, crashes>>

CleanupExpiredNomineeTokens ==
  /\ token = "expired"
  /\ token' = "none"
  /\ UNCHANGED <<record, elapsed, otp, nominee, work, advancing, served, crashes>>

\* CleanupWorker, the handler of cleanup_sweep jobs; any code may have expired.
CleanupExpiredOtps ==
  /\ \E kept \in SUBSET otp : kept # otp /\ otp' = kept
  /\ UNCHANGED <<record, elapsed, identity, work, advancing, served, crashes>>

\* notify_nominees_for_user gives the nominee a new token.
IssueNomineeToken ==
  /\ nominee
  /\ token' = "valid"
  /\ UNCHANGED <<record, elapsed, otp, nominee, work, advancing, served, crashes>>

TokenExpires ==
  /\ token = "valid"
  /\ token' = "expired"
  /\ UNCHANGED <<record, elapsed, otp, nominee, work, advancing, served, crashes>>

CoolingElapses(c) ==
  /\ Stored(c)
  /\ c \notin elapsed
  /\ elapsed' = elapsed \cup {c}
  /\ UNCHANGED <<record, otp, identity, work, advancing, served, crashes>>

\* The process dies with its handlers and its job; MongoDB keeps the documents.
Crash ==
  /\ crashes < MaxCrashes
  /\ crashes' = crashes + 1
  /\ work' = [h \in Handlers |-> Idle]
  /\ advancing' = {}
  /\ UNCHANGED <<record, elapsed, otp, identity, served>>

-----------------------------------------------------------------------------
NomineeRead(h, c) ==
  \/ SendEmailOtp(h, c) \/ VerifyEmailOtp(h, c)
  \/ SendMobileOtp(h, c) \/ VerifyMobileOtp(h, c)
  \/ UploadGovernmentId(h, c) \/ UploadSelfie(h, c) \/ UploadDeathDocument(h, c)
  \/ CompleteVerification(h, c) \/ GetVerificationStatus(h, c)
  \/ UploadAdditionalDocument(h, c) \/ DeleteVerificationDocument(h, c)

NomineeWrite(h) ==
  \/ SubmitDeathClaimWrite(h)
  \/ SendEmailOtpWrite(h) \/ VerifyEmailOtpWrite(h)
  \/ SendMobileOtpWrite(h) \/ VerifyMobileOtpWrite(h)
  \/ UploadGovernmentIdWrite(h) \/ UploadSelfieWrite(h) \/ UploadDeathDocumentWrite(h)
  \/ CompleteVerificationWrite(h) \/ GetVerificationStatusWrite(h)
  \/ UploadAdditionalDocumentWrite(h) \/ DeleteVerificationDocumentWrite(h)
  \/ GetNomineeAssetsServe(h)

OwnerStep(h) ==
  \/ \E c \in Claims : HaltVerification(h, c)
  \/ HaltVerificationWrite(h)
  \/ DeleteNominee(h)
  \/ DeleteNomineeClaims(h)

AdminStep(h) ==
  \/ \E c \in Claims : AssignVerification(h, c)
  \/ AssignVerificationWrite(h)
  \/ \E c \in Claims, a \in ReviewActions : ReviewVerification(h, c, a)
  \/ \E a \in ReviewActions : ReviewVerificationWrite(h, a)

JobStep ==
  \/ AdvanceCoolingPeriod
  \/ \E c \in Claims : AdvanceCoolingPeriodWrite(c)
  \/ CleanupExpiredNomineeTokens
  \/ CleanupExpiredOtps
  \/ IssueNomineeToken

Next ==
  \/ \E h \in Handlers :
       \/ Authenticate(h) \/ Refuse(h) \/ SubmitDeathClaim(h) \/ GetNomineeAssets(h)
       \/ \E c \in Claims : NomineeRead(h, c)
       \/ NomineeWrite(h)
       \/ OwnerStep(h)
       \/ AdminStep(h)
  \/ JobStep
  \/ TokenExpires
  \/ \E c \in Claims : CoolingElapses(c)
  \/ Crash

Spec == Init /\ [][Next]_vars

\* APScheduler runs the job every 5 minutes and awaits each of its writes.
FairSpec ==
  /\ Spec
  /\ WF_vars(AdvanceCoolingPeriod)
  /\ \A c \in Claims : WF_vars(AdvanceCoolingPeriodWrite(c))

-----------------------------------------------------------------------------
(* Properties                                                              *)

\* Every variable keeps the shape of the documents and handlers it stands for.
TypeOK ==
  /\ status \in [Claims -> Status]
  /\ verified \in [Claims -> SUBSET Steps]
  /\ evidence \in [Claims -> BOOLEAN]
  /\ reviews \in [Claims -> SUBSET (ReviewActions \cup {"ASSIGNED"})]
  /\ elapsed \subseteq Claims
  /\ otp \subseteq Claims \X {"email", "mobile"}
  /\ nominee \in BOOLEAN
  /\ token \in {"none", "valid", "expired"}
  /\ work \in [Handlers -> [op : Op, c : 0 .. MaxClaims]]
  /\ advancing \subseteq Claims
  /\ served \in BOOLEAN
  /\ crashes \in 0 .. MaxCrashes

\* The identity steps of a claim are passed in the order of the workflow (email,
\* mobile, government ID, selfie), though each is checked by another handler against
\* a copy of the claim that other handlers have changed since.
StepsInOrder ==
  \A c \in Claims :
    /\ "mobile" \in verified[c] => "email" \in verified[c]
    /\ "govtId" \in verified[c] => "mobile" \in verified[c]
    /\ "face" \in verified[c] => "govtId" \in verified[c]

\* A claim waits for an admin (PENDING_REVIEW, UNDER_REVIEW) only with all four identity
\* steps done, or after an admin has asked this very claim for more documents: the
\* checklist of /complete cannot be overtaken by any interleaving of routes and jobs.
QueueNeedsDossier ==
  \A c \in Claims :
    status[c] \in {"PENDING_REVIEW", "UNDER_REVIEW"} =>
      verified[c] = Steps \/ "REQUEST_MORE_DOCS" \in reviews[c]

\* The nominee is never sent an asset unless an admin has approved one of this nominee's
\* claims: GET /assets reads token, approval and assets in three awaits.
AssetsOnlyAfterApproval == served => \E c \in Claims : "APPROVE" \in reviews[c]

\* A claim removed with its nominee never comes back, although handlers and the job hold
\* copies of it and write by id after the deletion.
StaysDeleted(c) ==
  status[c] = "DELETED" =>
    /\ status'[c] = "DELETED"
    /\ verified'[c] = verified[c] /\ evidence'[c] = evidence[c] /\ reviews'[c] = reviews[c]
DeletedStaysDeleted == [][\A c \in Claims : StaysDeleted(c)]_vars

\* The routes and the jobs, each with its reads and its writes apart and the copies they
\* hold in between, have together no effect on a claim that the whole steps of ClaimPromise
\* would not have: in particular identity steps are passed one at a time, a queued claim
\* has its dossier, a stage and the verdict for it are one write, a removed claim rests.
Stage(c) == IF status[c] \in {"PENDING_REVIEW", "UNDER_REVIEW"} THEN "QUEUED" ELSE status[c]
StepsPassed(steps) ==
  IF "face" \in steps THEN 4 ELSE IF "govtId" \in steps THEN 3
  ELSE IF "mobile" \in steps THEN 2 ELSE IF "email" \in steps THEN 1 ELSE 0

Promise == INSTANCE ClaimPromise
             WITH stage <- [c \in Claims |-> Stage(c)],
                  progress <- [c \in Claims |-> StepsPassed(verified[c])],
                  verdicts <- [c \in Claims |-> reviews[c] \ {"ASSIGNED"}],
                  due <- elapsed, released <- served

ImplementsPromise == Promise!Init /\ [][Promise!Next]_Promise!vars

\* A claim does not stay in the cooling period for ever once its end has passed, whoever
\* polls, halts or crashes.
CoolingEnds ==
  \A c \in Claims : (status[c] = "COOLING_PERIOD" /\ c \in elapsed) ~> status[c] # "COOLING_PERIOD"

\* What POST /claim means to ensure: "Block if there's already an active (non-terminal)
\* request".  Two submissions that look at once both insert one.
OneActiveClaim ==
  \A c, d \in Claims :
    (\A b \in {c, d} : Stored(b) /\ status[b] \notin {"REJECTED", "HALTED"}) => c = d

\* What POST /halt answers, "Claim has been cancelled. No further action will be taken.", as far
\* as the workflow acts by itself: a halted claim does not advance to its nominee.  An admin may
\* still review it, which asks for no status and is a person's decision.
HaltIsFinal ==
  [][\A c \in Claims : status[c] = "HALTED" => status'[c] # "NOMINEE_NOTIFIED"]_vars

-----------------------------------------------------------------------------
(* The inductive strengthening of the safety invariants, used by           *)
(* ClaimWorkflow_proofs: what a suspended handler may rely on when it      *)
(* writes.  It holds because verified and reviews only ever grow.          *)

ClaimOps == Writes \ {"submit", "serveAssets", "deleteNominee"}

HandlersHaveClaims == \A h \in Handlers : work[h].op \in ClaimOps => work[h].c \in Claims

MobileOtpAfterEmail == \A c \in Claims : <<c, "mobile">> \in otp => "email" \in verified[c]

DossierOrRequest(c) == verified[c] = Steps \/ "REQUEST_MORE_DOCS" \in reviews[c]
Approved(c) == "APPROVE" \in reviews[c]

\* What a handler that is about to write o to claim c has read, and still finds true.
Justified(o, c) ==
  /\ o \in {"sendMobileOtp", "verifyMobile"} => "email" \in verified[c]
  /\ o = "uploadId" => "mobile" \in verified[c]
  /\ o = "uploadSelfie" => "govtId" \in verified[c]
  /\ o = "complete" => verified[c] = Steps
  /\ o \in {"assign", "additional"} => DossierOrRequest(c)
  /\ o = "serveAssets" => \E d \in Claims : Approved(d)

StatusHasReview ==
  \A c \in Claims :
    /\ status[c] = "MORE_DOCUMENTS_REQUIRED" => "REQUEST_MORE_DOCS" \in reviews[c]
    /\ status[c] = "APPROVED" => Approved(c)

DocumentInv ==
  /\ MobileOtpAfterEmail
  /\ StepsInOrder
  /\ StatusHasReview
  /\ QueueNeedsDossier
  /\ AssetsOnlyAfterApproval

\* What the polls and the job have read as over is over when they write.
DueInTime ==
  /\ \A h \in Handlers : work[h].op = "poll" => work[h].c \in elapsed
  /\ advancing \subseteq elapsed

HandlerInv ==
  /\ HandlersHaveClaims
  /\ \A h \in Handlers : Justified(work[h].op, work[h].c)

IInv == TypeOK /\ DocumentInv /\ HandlerInv
=============================================================================
