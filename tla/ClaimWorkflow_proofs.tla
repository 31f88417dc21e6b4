------------------------ MODULE ClaimWorkflow_proofs ------------------------
(***************************************************************************)
(* Proofs about ClaimWorkflow, for every number of claims and handlers.    *)
(*                                                                         *)
(* The argument: what the model's documents promise (DocumentInv) survives *)
(* a write because what the writer read is still true when it writes       *)
(* (HandlerInv), and that survives everybody else's writes because the     *)
(* flags and the review history of a claim only grow (Grows).              *)
(*                                                                         *)
(* From the same invariant follows that the workflow implements            *)
(* ClaimPromise: each read is a stutter and each write a whole step of the *)
(* promise, because what the handler read is still so (Justified), and     *)
(* because a write that would end a cooling period was due (DueInTime).    *)
(***************************************************************************)
EXTENDS ClaimWorkflow, TLAPS

USE ClaimsAssumption

\* The flags and the review history of no claim shrink.
Grows == \A c \in Claims : verified[c] \subseteq verified'[c] /\ reviews[c] \subseteq reviews'[c]

\* What a handler read stays true while claims only grow.
LEMMA JustifiedStays ==
  ASSUME TypeOK, TypeOK', Grows, NEW o \in Op, NEW c, o \in ClaimOps => c \in Claims, Justified(o, c)
  PROVE  Justified(o, c)'
<1>1. \A d \in Claims : verified[d] \subseteq verified'[d] /\ reviews[d] \subseteq reviews'[d]
  BY DEF Grows
<1>2. \A d \in Claims : verified[d] = Steps => verified'[d] = Steps
  BY <1>1 DEF TypeOK
<1>3. \A d \in Claims : DossierOrRequest(d) => DossierOrRequest(d)'
  BY <1>1, <1>2 DEF DossierOrRequest
<1>4. \A d \in Claims : Approved(d) => Approved(d)'
  BY <1>1 DEF Approved
<1> QED
  BY <1>1, <1>2, <1>3, <1>4 DEF Justified, ClaimOps, Writes

\* The handlers' part of the invariant, for any step that only lets claims grow and
\* leaves every handler with a write that was justified before it.
LEMMA HandlersStay ==
  ASSUME TypeOK, TypeOK', Grows,
         \A k \in Handlers : /\ work'[k].op \in ClaimOps => work'[k].c \in Claims
                             /\ Justified(work'[k].op, work'[k].c)
  PROVE  HandlerInv'
<1>1. ASSUME NEW k \in Handlers, NEW p, NEW d, p = work'[k].op, d = work'[k].c
      PROVE  Justified(p, d)'
  <2>1. p \in Op
    BY <1>1 DEF TypeOK
  <2>2. p \in ClaimOps => d \in Claims
    BY <1>1
  <2>3. Justified(p, d)
    BY <1>1
  <2> QED
    BY <2>1, <2>2, <2>3, JustifiedStays
<1> QED
  BY <1>1 DEF HandlerInv, HandlersHaveClaims, Justified

\* A handler that suspends with a justified write keeps the invariant.
LEMMA SuspendKeeps ==
  ASSUME IInv, NEW h \in Handlers, NEW o \in Op, NEW c \in 0 .. MaxClaims, Suspend(h, o, c),
         UNCHANGED <<record, elapsed, otp, advancing, served, crashes>>,
         nominee' \in BOOLEAN, token' \in {"none", "valid", "expired"},
         o \in ClaimOps => c \in Claims, Justified(o, c)
  PROVE  IInv'
<1>1. TypeOK'
  BY DEF IInv, TypeOK, Suspend, record
<1>2. DocumentInv'
  BY DEF IInv, DocumentInv, MobileOtpAfterEmail, StepsInOrder, StatusHasReview, QueueNeedsDossier,
         AssetsOnlyAfterApproval, Approved, record
<1>3. Grows
  BY DEF Grows, record
<1>4. ASSUME NEW k \in Handlers
      PROVE  /\ work'[k].op \in ClaimOps => work'[k].c \in Claims
             /\ Justified(work'[k].op, work'[k].c)
  <2>1. CASE k = h
    BY <2>1 DEF IInv, TypeOK, Suspend
  <2>2. CASE k # h
    BY <2>2 DEF IInv, TypeOK, HandlerInv, HandlersHaveClaims, Suspend
  <2> QED
    BY <2>1, <2>2
<1>5. HandlerInv'
  BY <1>1, <1>3, <1>4, HandlersStay DEF IInv
<1> QED
  BY <1>1, <1>2, <1>5 DEF IInv

\* A read followed by a justified suspension, with a claim in hand or without.
LEMMA ReadKeeps ==
  ASSUME IInv, NEW h \in Handlers, NEW o \in ClaimOps, NEW c \in Claims, Justified(o, c),
         ReadLatest(h, o, c) \/ ReadStored(h, o, c)
  PROVE  IInv'
<1>1. o \in Op /\ c \in 0 .. MaxClaims
  BY DEF ClaimOps, Op, Claims
<1>2. /\ Suspend(h, o, c)
      /\ UNCHANGED <<record, elapsed, otp, identity, advancing, served, crashes>>
  BY DEF ReadLatest, ReadStored
<1>3. nominee' \in BOOLEAN /\ token' \in {"none", "valid", "expired"}
  BY <1>2 DEF IInv, TypeOK, identity
<1> QED
  BY <1>1, <1>2, <1>3, SuspendKeeps

\* The same for a handler that holds no claim; DELETE /nominees nulls the token as well.
LEMMA ReadAloneKeeps ==
  ASSUME IInv, NEW h \in Handlers, NEW o \in Op \ ClaimOps, Justified(o, 0), Suspend(h, o, 0),
         UNCHANGED <<record, elapsed, otp, advancing, served, crashes>>,
         UNCHANGED identity \/ (nominee' = FALSE /\ token' = "none")
  PROVE  IInv'
<1>1. nominee' \in BOOLEAN /\ token' \in {"none", "valid", "expired"}
  BY DEF IInv, TypeOK, identity
<1> QED
  BY <1>1, SuspendKeeps

\* Every read of a handler: what its guards say of the claim justifies its write.
LEMMA ReadsKeep ==
  ASSUME IInv, NEW h \in Handlers, NEW c \in Claims
  PROVE  /\ NomineeRead(h, c) \/ HaltVerification(h, c) \/ AssignVerification(h, c) => IInv'
         /\ \A a \in ReviewActions : ReviewVerification(h, c, a) => IInv'
<1> USE ReadKeeps DEF Justified, ClaimOps, Writes
<1>1. ASSUME SendEmailOtp(h, c) PROVE IInv'
  BY <1>1 DEF SendEmailOtp
<1>2. ASSUME VerifyEmailOtp(h, c) PROVE IInv'
  BY <1>2 DEF VerifyEmailOtp
<1>3. ASSUME SendMobileOtp(h, c) PROVE IInv'
  BY <1>3 DEF SendMobileOtp
<1>4. ASSUME VerifyMobileOtp(h, c) PROVE IInv'
  BY <1>4 DEF VerifyMobileOtp, IInv, DocumentInv, MobileOtpAfterEmail
<1>5. ASSUME UploadGovernmentId(h, c) PROVE IInv'
  BY <1>5 DEF UploadGovernmentId
<1>6. ASSUME UploadSelfie(h, c) PROVE IInv'
  BY <1>6 DEF UploadSelfie
<1>7. ASSUME UploadDeathDocument(h, c) PROVE IInv'
  BY <1>7 DEF UploadDeathDocument
<1>8. ASSUME CompleteVerification(h, c) PROVE IInv'
  BY <1>8 DEF CompleteVerification, Checklist
<1>9. ASSUME GetVerificationStatus(h, c) PROVE IInv'
  BY <1>9 DEF GetVerificationStatus
<1>10. ASSUME UploadAdditionalDocument(h, c) PROVE IInv'
  BY <1>10 DEF UploadAdditionalDocument, ReadLatest, IInv, DocumentInv, StatusHasReview, DossierOrRequest
<1>11. ASSUME DeleteVerificationDocument(h, c) PROVE IInv'
  BY <1>11 DEF DeleteVerificationDocument
<1>12. ASSUME HaltVerification(h, c) PROVE IInv'
  BY <1>12 DEF HaltVerification
<1>13. ASSUME AssignVerification(h, c) PROVE IInv'
  BY <1>13 DEF AssignVerification, ReadStored, IInv, DocumentInv, StatusHasReview, QueueNeedsDossier, DossierOrRequest
<1>14. ASSUME NEW a \in ReviewActions, ReviewVerification(h, c, a) PROVE IInv'
  BY <1>14 DEF ReviewVerification, ReviewActions
<1> QED
  BY <1>1, <1>2, <1>3, <1>4, <1>5, <1>6, <1>7, <1>8, <1>9, <1>10, <1>11, <1>12, <1>13, <1>14 DEF NomineeRead

\* A handler that suspends without a claim in hand.
LEMMA ReadsAlone ==
  ASSUME IInv, NEW h \in Handlers
  PROVE  /\ Authenticate(h) \/ Refuse(h) \/ SubmitDeathClaim(h) \/ GetNomineeAssets(h) => IInv'
         /\ DeleteNominee(h) => IInv'
<1>0. {"authenticated", "idle", "submit", "serveAssets", "deleteNominee"} \subseteq Op \ ClaimOps
  BY DEF Op, Writes, ClaimOps, ReviewActions
<1> USE <1>0, ReadAloneKeeps DEF Justified
<1>1. ASSUME Authenticate(h) PROVE IInv'
  BY <1>1 DEF Authenticate
<1>2. ASSUME Refuse(h) PROVE IInv'
  BY <1>2 DEF Refuse, Suspend, Idle
<1>3. ASSUME SubmitDeathClaim(h) PROVE IInv'
  BY <1>3 DEF SubmitDeathClaim
<1>4. ASSUME GetNomineeAssets(h) PROVE IInv'
  BY <1>4 DEF GetNomineeAssets, SomeClaimApproved, IInv, DocumentInv, StatusHasReview
<1>5. ASSUME DeleteNominee(h) PROVE IInv'
  BY <1>5 DEF DeleteNominee
<1> QED
  BY <1>1, <1>2, <1>3, <1>4, <1>5

\* A handler that writes and ends keeps the invariant if its write keeps the documents'.
LEMMA FinishKeeps ==
  ASSUME IInv, NEW h \in Handlers, NEW o, Finish(h, o), TypeOK', Grows, DocumentInv'
  PROVE  IInv'
<1>1. ASSUME NEW k \in Handlers
      PROVE  /\ work'[k].op \in ClaimOps => work'[k].c \in Claims
             /\ Justified(work'[k].op, work'[k].c)
  <2>1. CASE k = h
    <3>1. work'[k].op = "idle"
      BY <2>1 DEF IInv, TypeOK, Finish, Idle
    <3>2. "idle" \notin ClaimOps
      BY DEF ClaimOps, Writes, ReviewActions
    <3> QED
      BY <3>1, <3>2 DEF Justified
  <2>2. CASE k # h
    BY <2>2 DEF IInv, TypeOK, HandlerInv, HandlersHaveClaims, Finish
  <2> QED
    BY <2>1, <2>2
<1>2. HandlerInv'
  BY <1>1, HandlersStay DEF IInv
<1> QED
  BY <1>2 DEF IInv

\* Every write of a handler.
LEMMA WritesKeep ==
  ASSUME IInv, NEW h \in Handlers
  PROVE  /\ NomineeWrite(h) => IInv'
         /\ HaltVerificationWrite(h) \/ DeleteNomineeClaims(h) => IInv'
         /\ AssignVerificationWrite(h) => IInv'
         /\ \A a \in ReviewActions : ReviewVerificationWrite(h, a) => IInv'
<1> DEFINE d == work[h].c
<1> USE DEF record, identity, Finish
<1>t. TypeOK
  BY DEF IInv
<1>d. work[h].op \in ClaimOps => d \in Claims
  BY DEF IInv, HandlerInv, HandlersHaveClaims
<1>j. Justified(work[h].op, d)
  BY DEF IInv, HandlerInv
<1>i. DocumentInv
  BY DEF IInv
<1>w. Idle \in [op : Op, c : 0 .. MaxClaims]
  BY DEF Idle, Op
<1>1. ASSUME SubmitDeathClaimWrite(h) PROVE IInv'
  <2>o. Finish(h, "submit")
    BY <1>1 DEF SubmitDeathClaimWrite
  <2>1. TypeOK'
    BY <1>1, <1>t, <1>w, SMTT(30) DEF TypeOK, Fresh, Stored, Status, LiveStatus, SubmitDeathClaimWrite
  <2>2. Grows
    BY <1>1, <1>t, SMTT(30) DEF TypeOK, Grows, Fresh, Stored, Status, LiveStatus, SubmitDeathClaimWrite
  <2>3. DocumentInv'
    BY <1>1, <1>t, <1>i, SMTT(30)
    DEF TypeOK, DocumentInv, MobileOtpAfterEmail, StepsInOrder, StatusHasReview,
        QueueNeedsDossier, AssetsOnlyAfterApproval, Approved, DossierOrRequest, Fresh, Stored, Status, LiveStatus, SubmitDeathClaimWrite
  <2> QED
    BY <2>o, <2>1, <2>2, <2>3, FinishKeeps
<1>2. ASSUME SendEmailOtpWrite(h) PROVE IInv'
  <2>o. Finish(h, "sendEmailOtp")
    BY <1>2 DEF SendEmailOtpWrite
  <2>c. d \in Claims
    BY <1>d, <2>o DEF ClaimOps, Writes, ReviewActions
  <2>1. TypeOK'
    BY <1>2, <1>t, <1>w, <2>c, SMTT(30) DEF TypeOK, SendEmailOtpWrite
  <2>2. Grows
    BY <1>2, <1>t, <2>c, SMTT(30) DEF TypeOK, Grows, SendEmailOtpWrite
  <2>3. DocumentInv'
    BY <1>2, <1>t, <1>i, <2>c, SMTT(30)
    DEF TypeOK, DocumentInv, MobileOtpAfterEmail, StepsInOrder, StatusHasReview,
        QueueNeedsDossier, AssetsOnlyAfterApproval, Approved, DossierOrRequest, SendEmailOtpWrite
  <2> QED
    BY <2>o, <2>1, <2>2, <2>3, FinishKeeps
<1>3. ASSUME VerifyEmailOtpWrite(h) PROVE IInv'
  <2>o. Finish(h, "verifyEmail")
    BY <1>3 DEF VerifyEmailOtpWrite
  <2>c. d \in Claims
    BY <1>d, <2>o DEF ClaimOps, Writes, ReviewActions
  <2>1. TypeOK'
    BY <1>3, <1>t, <1>w, <2>c, SMTT(30) DEF TypeOK, SetVerified, Steps, ConsumeOtp, VerifyEmailOtpWrite
  <2>2. Grows
    BY <1>3, <1>t, <2>c, SMTT(30) DEF TypeOK, Grows, SetVerified, Steps, ConsumeOtp, VerifyEmailOtpWrite
  <2>3. DocumentInv'
    BY <1>3, <1>t, <1>i, <2>c, SMTT(30)
    DEF TypeOK, DocumentInv, MobileOtpAfterEmail, StepsInOrder, StatusHasReview,
        QueueNeedsDossier, AssetsOnlyAfterApproval, Approved, DossierOrRequest, SetVerified, Steps, ConsumeOtp, VerifyEmailOtpWrite
  <2> QED
    BY <2>o, <2>1, <2>2, <2>3, FinishKeeps
<1>4. ASSUME SendMobileOtpWrite(h) PROVE IInv'
  <2>o. Finish(h, "sendMobileOtp")
    BY <1>4 DEF SendMobileOtpWrite
  <2>c. d \in Claims
    BY <1>d, <2>o DEF ClaimOps, Writes, ReviewActions
  <2>j. "email" \in verified[d]
    BY <1>j, <2>o DEF Justified
  <2>1. TypeOK'
    BY <1>4, <1>t, <1>w, <2>c, SMTT(30) DEF TypeOK, SendMobileOtpWrite
  <2>2. Grows
    BY <1>4, <1>t, <2>c, SMTT(30) DEF TypeOK, Grows, SendMobileOtpWrite
  <2>3. DocumentInv'
    BY <1>4, <1>t, <1>i, <2>c, <2>j, SMTT(30)
    DEF TypeOK, DocumentInv, MobileOtpAfterEmail, StepsInOrder, StatusHasReview,
        QueueNeedsDossier, AssetsOnlyAfterApproval, Approved, DossierOrRequest, SendMobileOtpWrite
  <2> QED
    BY <2>o, <2>1, <2>2, <2>3, FinishKeeps
<1>5. ASSUME VerifyMobileOtpWrite(h) PROVE IInv'
  <2>o. Finish(h, "verifyMobile")
    BY <1>5 DEF VerifyMobileOtpWrite
  <2>c. d \in Claims
    BY <1>d, <2>o DEF ClaimOps, Writes, ReviewActions
  <2>j. "email" \in verified[d]
    BY <1>j, <2>o DEF Justified
  <2>1. TypeOK'
    BY <1>5, <1>t, <1>w, <2>c, SMTT(30) DEF TypeOK, SetVerified, Steps, ConsumeOtp, VerifyMobileOtpWrite
  <2>2. Grows
    BY <1>5, <1>t, <2>c, SMTT(30) DEF TypeOK, Grows, SetVerified, Steps, ConsumeOtp, VerifyMobileOtpWrite
  <2>3. DocumentInv'
    BY <1>5, <1>t, <1>i, <2>c, <2>j, SMTT(30)
    DEF TypeOK, DocumentInv, MobileOtpAfterEmail, StepsInOrder, StatusHasReview,
        QueueNeedsDossier, AssetsOnlyAfterApproval, Approved, DossierOrRequest, SetVerified, Steps, ConsumeOtp, VerifyMobileOtpWrite
  <2> QED
    BY <2>o, <2>1, <2>2, <2>3, FinishKeeps
<1>6. ASSUME UploadGovernmentIdWrite(h) PROVE IInv'
  <2>o. Finish(h, "uploadId")
    BY <1>6 DEF UploadGovernmentIdWrite
  <2>c. d \in Claims
    BY <1>d, <2>o DEF ClaimOps, Writes, ReviewActions
  <2>j. "mobile" \in verified[d]
    BY <1>j, <2>o DEF Justified
  <2>1. TypeOK'
    BY <1>6, <1>t, <1>w, <2>c, SMTT(30) DEF TypeOK, SetVerified, Steps, UploadGovernmentIdWrite
  <2>2. Grows
    BY <1>6, <1>t, <2>c, SMTT(30) DEF TypeOK, Grows, SetVerified, Steps, UploadGovernmentIdWrite
  <2>3. DocumentInv'
    BY <1>6, <1>t, <1>i, <2>c, <2>j, SMTT(30)
    DEF TypeOK, DocumentInv, MobileOtpAfterEmail, StepsInOrder, StatusHasReview,
        QueueNeedsDossier, AssetsOnlyAfterApproval, Approved, DossierOrRequest, SetVerified, Steps, UploadGovernmentIdWrite
  <2> QED
    BY <2>o, <2>1, <2>2, <2>3, FinishKeeps
<1>7. ASSUME UploadSelfieWrite(h) PROVE IInv'
  <2>o. Finish(h, "uploadSelfie")
    BY <1>7 DEF UploadSelfieWrite
  <2>c. d \in Claims
    BY <1>d, <2>o DEF ClaimOps, Writes, ReviewActions
  <2>j. "govtId" \in verified[d]
    BY <1>j, <2>o DEF Justified
  <2>1. TypeOK'
    BY <1>7, <1>t, <1>w, <2>c, SMTT(30) DEF TypeOK, SetVerified, Steps, UploadSelfieWrite
  <2>2. Grows
    BY <1>7, <1>t, <2>c, SMTT(30) DEF TypeOK, Grows, SetVerified, Steps, UploadSelfieWrite
  <2>3. DocumentInv'
    BY <1>7, <1>t, <1>i, <2>c, <2>j, SMTT(30)
    DEF TypeOK, DocumentInv, MobileOtpAfterEmail, StepsInOrder, StatusHasReview,
        QueueNeedsDossier, AssetsOnlyAfterApproval, Approved, DossierOrRequest, SetVerified, Steps, UploadSelfieWrite
  <2> QED
    BY <2>o, <2>1, <2>2, <2>3, FinishKeeps
<1>8. ASSUME UploadDeathDocumentWrite(h) PROVE IInv'
  <2>o. Finish(h, "uploadDeath")
    BY <1>8 DEF UploadDeathDocumentWrite
  <2>c. d \in Claims
    BY <1>d, <2>o DEF ClaimOps, Writes, ReviewActions
  <2>1. TypeOK'
    BY <1>8, <1>t, <1>w, <2>c, SMTT(30) DEF TypeOK, SetEvidence, UploadDeathDocumentWrite
  <2>2. Grows
    BY <1>8, <1>t, <2>c, SMTT(30) DEF TypeOK, Grows, SetEvidence, UploadDeathDocumentWrite
  <2>3. DocumentInv'
    BY <1>8, <1>t, <1>i, <2>c, SMTT(30)
    DEF TypeOK, DocumentInv, MobileOtpAfterEmail, StepsInOrder, StatusHasReview,
        QueueNeedsDossier, AssetsOnlyAfterApproval, Approved, DossierOrRequest, SetEvidence, UploadDeathDocumentWrite
  <2> QED
    BY <2>o, <2>1, <2>2, <2>3, FinishKeeps
<1>9. ASSUME CompleteVerificationWrite(h) PROVE IInv'
  <2>o. Finish(h, "complete")
    BY <1>9 DEF CompleteVerificationWrite
  <2>c. d \in Claims
    BY <1>d, <2>o DEF ClaimOps, Writes, ReviewActions
  <2>j. verified[d] = Steps
    BY <1>j, <2>o DEF Justified
  <2>1. TypeOK'
    BY <1>9, <1>t, <1>w, <2>c, SMTT(30) DEF TypeOK, SetStatus, Stored, Status, LiveStatus, CompleteVerificationWrite
  <2>2. Grows
    BY <1>9, <1>t, <2>c, SMTT(30) DEF TypeOK, Grows, SetStatus, Stored, Status, LiveStatus, CompleteVerificationWrite
  <2>3. DocumentInv'
    BY <1>9, <1>t, <1>i, <2>c, <2>j, SMTT(30)
    DEF TypeOK, DocumentInv, MobileOtpAfterEmail, StepsInOrder, StatusHasReview,
        QueueNeedsDossier, AssetsOnlyAfterApproval, Approved, DossierOrRequest, SetStatus, Stored, Status, LiveStatus, CompleteVerificationWrite
  <2> QED
    BY <2>o, <2>1, <2>2, <2>3, FinishKeeps
<1>10. ASSUME GetVerificationStatusWrite(h) PROVE IInv'
  <2>o. Finish(h, "poll")
    BY <1>10 DEF GetVerificationStatusWrite
  <2>c. d \in Claims
    BY <1>d, <2>o DEF ClaimOps, Writes, ReviewActions
  <2>1. TypeOK'
    BY <1>10, <1>t, <1>w, <2>c, SMTT(30) DEF TypeOK, SetStatus, Stored, Status, LiveStatus, GetVerificationStatusWrite
  <2>2. Grows
    BY <1>10, <1>t, <2>c, SMTT(30) DEF TypeOK, Grows, SetStatus, Stored, Status, LiveStatus, GetVerificationStatusWrite
  <2>3. DocumentInv'
    BY <1>10, <1>t, <1>i, <2>c, SMTT(30)
    DEF TypeOK, DocumentInv, MobileOtpAfterEmail, StepsInOrder, StatusHasReview,
        QueueNeedsDossier, AssetsOnlyAfterApproval, Approved, DossierOrRequest, SetStatus, Stored, Status, LiveStatus, GetVerificationStatusWrite
  <2> QED
    BY <2>o, <2>1, <2>2, <2>3, FinishKeeps
<1>11. ASSUME UploadAdditionalDocumentWrite(h) PROVE IInv'
  <2>o. Finish(h, "additional")
    BY <1>11 DEF UploadAdditionalDocumentWrite
  <2>c. d \in Claims
    BY <1>d, <2>o DEF ClaimOps, Writes, ReviewActions
  <2>j. DossierOrRequest(d)
    BY <1>j, <2>o DEF Justified
  <2>1. TypeOK'
    BY <1>11, <1>t, <1>w, <2>c, SMTT(30) DEF TypeOK, SetEvidence, SetStatus, Stored, Status, LiveStatus, UploadAdditionalDocumentWrite
  <2>2. Grows
    BY <1>11, <1>t, <2>c, SMTT(30) DEF TypeOK, Grows, SetEvidence, SetStatus, Stored, Status, LiveStatus, UploadAdditionalDocumentWrite
  <2>3. DocumentInv'
    BY <1>11, <1>t, <1>i, <2>c, <2>j, SMTT(30)
    DEF TypeOK, DocumentInv, MobileOtpAfterEmail, StepsInOrder, StatusHasReview,
        QueueNeedsDossier, AssetsOnlyAfterApproval, Approved, DossierOrRequest, SetEvidence, SetStatus, Stored, Status, LiveStatus, UploadAdditionalDocumentWrite
  <2> QED
    BY <2>o, <2>1, <2>2, <2>3, FinishKeeps
<1>12. ASSUME DeleteVerificationDocumentWrite(h) PROVE IInv'
  <2>o. Finish(h, "deleteDocument")
    BY <1>12 DEF DeleteVerificationDocumentWrite
  <2>c. d \in Claims
    BY <1>d, <2>o DEF ClaimOps, Writes, ReviewActions
  <2>1. TypeOK'
    BY <1>12, <1>t, <1>w, <2>c, SMTT(30) DEF TypeOK, SetEvidence, DeleteVerificationDocumentWrite
  <2>2. Grows
    BY <1>12, <1>t, <2>c, SMTT(30) DEF TypeOK, Grows, SetEvidence, DeleteVerificationDocumentWrite
  <2>3. DocumentInv'
    BY <1>12, <1>t, <1>i, <2>c, SMTT(30)
    DEF TypeOK, DocumentInv, MobileOtpAfterEmail, StepsInOrder, StatusHasReview,
        QueueNeedsDossier, AssetsOnlyAfterApproval, Approved, DossierOrRequest, SetEvidence, DeleteVerificationDocumentWrite
  <2> QED
    BY <2>o, <2>1, <2>2, <2>3, FinishKeeps
<1>13. ASSUME GetNomineeAssetsServe(h) PROVE IInv'
  <2>o. Finish(h, "serveAssets")
    BY <1>13 DEF GetNomineeAssetsServe
  <2>j. \E e \in Claims : Approved(e)
    BY <1>j, <2>o DEF Justified
  <2>1. TypeOK'
    BY <1>13, <1>t, <1>w, SMTT(30) DEF TypeOK, GetNomineeAssetsServe
  <2>2. Grows
    BY <1>13, <1>t, SMTT(30) DEF TypeOK, Grows, GetNomineeAssetsServe
  <2>3. DocumentInv'
    BY <1>13, <1>t, <1>i, <2>j, SMTT(30)
    DEF TypeOK, DocumentInv, MobileOtpAfterEmail, StepsInOrder, StatusHasReview,
        QueueNeedsDossier, AssetsOnlyAfterApproval, Approved, DossierOrRequest, GetNomineeAssetsServe
  <2> QED
    BY <2>o, <2>1, <2>2, <2>3, FinishKeeps
<1>14. ASSUME HaltVerificationWrite(h) PROVE IInv'
  <2>o. Finish(h, "halt")
    BY <1>14 DEF HaltVerificationWrite
  <2>c. d \in Claims
    BY <1>d, <2>o DEF ClaimOps, Writes, ReviewActions
  <2>1. TypeOK'
    BY <1>14, <1>t, <1>w, <2>c, SMTT(30) DEF TypeOK, SetStatus, Stored, Status, LiveStatus, HaltVerificationWrite
  <2>2. Grows
    BY <1>14, <1>t, <2>c, SMTT(30) DEF TypeOK, Grows, SetStatus, Stored, Status, LiveStatus, HaltVerificationWrite
  <2>3. DocumentInv'
    BY <1>14, <1>t, <1>i, <2>c, SMTT(30)
    DEF TypeOK, DocumentInv, MobileOtpAfterEmail, StepsInOrder, StatusHasReview,
        QueueNeedsDossier, AssetsOnlyAfterApproval, Approved, DossierOrRequest, SetStatus, Stored, Status, LiveStatus, HaltVerificationWrite
  <2> QED
    BY <2>o, <2>1, <2>2, <2>3, FinishKeeps
<1>15. ASSUME DeleteNomineeClaims(h) PROVE IInv'
  <2>o. Finish(h, "deleteNominee")
    BY <1>15 DEF DeleteNomineeClaims
  <2>1. TypeOK'
    BY <1>15, <1>t, <1>w, SMTT(30) DEF TypeOK, Stored, Status, LiveStatus, DeleteNomineeClaims
  <2>2. Grows
    BY <1>15, <1>t, SMTT(30) DEF TypeOK, Grows, Stored, Status, LiveStatus, DeleteNomineeClaims
  <2>3. DocumentInv'
    BY <1>15, <1>t, <1>i, SMTT(30)
    DEF TypeOK, DocumentInv, MobileOtpAfterEmail, StepsInOrder, StatusHasReview,
        QueueNeedsDossier, AssetsOnlyAfterApproval, Approved, DossierOrRequest, Stored, Status, LiveStatus, DeleteNomineeClaims
  <2> QED
    BY <2>o, <2>1, <2>2, <2>3, FinishKeeps
<1>16. ASSUME AssignVerificationWrite(h) PROVE IInv'
  <2>o. Finish(h, "assign")
    BY <1>16 DEF AssignVerificationWrite
  <2>c. d \in Claims
    BY <1>d, <2>o DEF ClaimOps, Writes, ReviewActions
  <2>j. DossierOrRequest(d)
    BY <1>j, <2>o DEF Justified
  <2>1. TypeOK'
    BY <1>16, <1>t, <1>w, <2>c, SMTT(30) DEF TypeOK, SetStatus, PushReview, Stored, Status, LiveStatus, AssignVerificationWrite
  <2>2. Grows
    BY <1>16, <1>t, <2>c, SMTT(30) DEF TypeOK, Grows, SetStatus, PushReview, Stored, Status, LiveStatus, AssignVerificationWrite
  <2>3. DocumentInv'
    BY <1>16, <1>t, <1>i, <2>c, <2>j, SMTT(30)
    DEF TypeOK, DocumentInv, MobileOtpAfterEmail, StepsInOrder, StatusHasReview,
        QueueNeedsDossier, AssetsOnlyAfterApproval, Approved, DossierOrRequest, SetStatus, PushReview, Stored, Status, LiveStatus, AssignVerificationWrite
  <2> QED
    BY <2>o, <2>1, <2>2, <2>3, FinishKeeps
<1>17. ASSUME NEW a \in ReviewActions, ReviewVerificationWrite(h, a) PROVE IInv'
  <2>o. Finish(h, a)
    BY <1>17 DEF ReviewVerificationWrite
  <2>c. d \in Claims
    BY <1>d, <2>o DEF ClaimOps, Writes, ReviewActions
  <2>1. TypeOK'
    BY <1>17, <1>t, <1>w, <2>c, SMTT(30) DEF TypeOK, SetStatus, PushReview, Stored, Status, LiveStatus, ReviewOutcome, ReviewActions, ReviewVerificationWrite
  <2>2. Grows
    BY <1>17, <1>t, <2>c, SMTT(30) DEF TypeOK, Grows, SetStatus, PushReview, Stored, Status, LiveStatus, ReviewOutcome, ReviewActions, ReviewVerificationWrite
  <2>3. DocumentInv'
    BY <1>17, <1>t, <1>i, <2>c, SMTT(30)
    DEF TypeOK, DocumentInv, MobileOtpAfterEmail, StepsInOrder, StatusHasReview,
        QueueNeedsDossier, AssetsOnlyAfterApproval, Approved, DossierOrRequest, SetStatus, PushReview, Stored, Status, LiveStatus, ReviewOutcome, ReviewActions, ReviewVerificationWrite
  <2> QED
    BY <2>o, <2>1, <2>2, <2>3, FinishKeeps
<1> QED
  BY <1>1, <1>2, <1>3, <1>4, <1>5, <1>6, <1>7, <1>8, <1>9, <1>10, <1>11, <1>12, <1>13, <1>14, <1>15, <1>16, <1>17 DEF NomineeWrite

\* Any step that touches no handler in flight and keeps the documents' part.
LEMMA OutsideHandlersKeeps ==
  ASSUME IInv, work' = work, TypeOK', Grows, DocumentInv'
  PROVE  IInv'
<1>1. HandlerInv'
  BY HandlersStay DEF IInv, HandlerInv, HandlersHaveClaims
<1> QED
  BY <1>1 DEF IInv

\* The job that leaves the cooling period, token housekeeping, time and restarts.
LEMMA JobsKeep ==
  ASSUME IInv
  PROVE  /\ JobStep \/ TokenExpires \/ Crash => IInv'
         /\ \A c \in Claims : CoolingElapses(c) => IInv'
<1> USE DEF record, identity
<1>t. TypeOK
  BY DEF IInv
<1>i. DocumentInv
  BY DEF IInv
<1>1. ASSUME NEW c \in Claims, AdvanceCoolingPeriodWrite(c) PROVE IInv'
  <2>1. TypeOK'
    BY <1>1, <1>t DEF TypeOK, AdvanceCoolingPeriodWrite, SetStatus, Status, LiveStatus
  <2>2. Grows
    BY <1>1 DEF AdvanceCoolingPeriodWrite, Grows
  <2>3. DocumentInv'
    BY <1>1, <1>t, <1>i
    DEF TypeOK, DocumentInv, MobileOtpAfterEmail, StepsInOrder, StatusHasReview, QueueNeedsDossier,
        AssetsOnlyAfterApproval, Approved, AdvanceCoolingPeriodWrite, SetStatus
  <2> QED
    BY <1>1, <2>1, <2>2, <2>3, OutsideHandlersKeeps DEF AdvanceCoolingPeriodWrite
<1>2. ASSUME AdvanceCoolingPeriod \/ CleanupExpiredNomineeTokens \/ IssueNomineeToken
             \/ TokenExpires \/ (\E c \in Claims : CoolingElapses(c))
      PROVE  IInv'
  <2> USE DEF AdvanceCoolingPeriod, CleanupExpiredNomineeTokens, IssueNomineeToken, TokenExpires,
              CoolingElapses
  <2>1. TypeOK' /\ UNCHANGED <<record, otp, work, served>>
    BY <1>2, <1>t DEF TypeOK, DueForAdvance
  <2>2. Grows
    BY <2>1 DEF Grows
  <2>3. DocumentInv'
    BY <2>1, <1>i
    DEF DocumentInv, MobileOtpAfterEmail, StepsInOrder, StatusHasReview, QueueNeedsDossier,
        AssetsOnlyAfterApproval, Approved
  <2> QED
    BY <2>1, <2>2, <2>3, OutsideHandlersKeeps
<1>3. ASSUME Crash PROVE IInv'
  <2>1. TypeOK'
    BY <1>3, <1>t DEF TypeOK, Crash, Idle, Op
  <2>2. Grows
    BY <1>3 DEF Crash, Grows
  <2>3. DocumentInv'
    BY <1>3, <1>i
    DEF Crash, DocumentInv, MobileOtpAfterEmail, StepsInOrder, StatusHasReview, QueueNeedsDossier,
        AssetsOnlyAfterApproval, Approved
  <2>4. "idle" \notin ClaimOps
    BY DEF ClaimOps, Writes, ReviewActions
  <2>5. HandlerInv'
    BY <1>3, <2>4, SMT DEF Crash, HandlerInv, HandlersHaveClaims, Justified, Idle
  <2> QED
    BY <2>1, <2>3, <2>5 DEF IInv
<1>4. ASSUME CleanupExpiredOtps PROVE IInv'
  <2>1. otp' \subseteq otp /\ UNCHANGED <<record, work, served>>
    BY <1>4 DEF CleanupExpiredOtps
  <2>2. TypeOK'
    BY <1>4, <1>t, <2>1 DEF TypeOK, CleanupExpiredOtps
  <2>3. Grows
    BY <2>1 DEF Grows
  <2>4. DocumentInv'
    BY <2>1, <1>i
    DEF DocumentInv, MobileOtpAfterEmail, StepsInOrder, StatusHasReview, QueueNeedsDossier,
        AssetsOnlyAfterApproval, Approved
  <2> QED
    BY <2>1, <2>2, <2>3, <2>4, OutsideHandlersKeeps
<1> QED
  BY <1>1, <1>2, <1>3, <1>4 DEF JobStep

\* The invariant holds of an empty database.
LEMMA Initially == Init => IInv
<1> SUFFICES ASSUME Init PROVE IInv
  OBVIOUS
<1> USE DEF Init
<1>1. TypeOK
  <2>1. status \in [Claims -> Status] /\ work \in [Handlers -> [op : Op, c : 0 .. MaxClaims]]
    BY DEF Status, Idle, Op
  <2>2. /\ verified \in [Claims -> SUBSET Steps] /\ evidence \in [Claims -> BOOLEAN]
        /\ reviews \in [Claims -> SUBSET (ReviewActions \cup {"ASSIGNED"})]
    OBVIOUS
  <2>3. elapsed \subseteq Claims /\ otp \subseteq Claims \X {"email", "mobile"} /\ advancing \subseteq Claims
    OBVIOUS
  <2>4. nominee \in BOOLEAN /\ token \in {"none", "valid", "expired"} /\ served \in BOOLEAN
    OBVIOUS
  <2>5. crashes \in 0 .. MaxCrashes
    OBVIOUS
  <2> QED
    BY <2>1, <2>2, <2>3, <2>4, <2>5 DEF TypeOK
<1>2. DocumentInv
  BY DEF DocumentInv, MobileOtpAfterEmail, StepsInOrder, StatusHasReview, QueueNeedsDossier,
         AssetsOnlyAfterApproval
<1>3. HandlerInv
  <2>1. "idle" \notin ClaimOps
    BY DEF ClaimOps, Writes, ReviewActions
  <2> QED
    BY <2>1 DEF HandlerInv, HandlersHaveClaims, Justified, Idle
<1> QED
  BY <1>1, <1>2, <1>3 DEF IInv

\* No step of the system breaks it.
LEMMA Inductive == IInv /\ [Next]_vars => IInv'
<1> SUFFICES ASSUME IInv, [Next]_vars PROVE IInv'
  OBVIOUS
<1>1. ASSUME NEW h \in Handlers,
             \/ Authenticate(h) \/ Refuse(h) \/ SubmitDeathClaim(h) \/ GetNomineeAssets(h)
             \/ \E c \in Claims : NomineeRead(h, c)
             \/ NomineeWrite(h) \/ OwnerStep(h) \/ AdminStep(h)
      PROVE  IInv'
  <2>1. CASE \E c \in Claims : NomineeRead(h, c)
    BY <2>1, ReadsKeep
  <2>2. CASE NomineeWrite(h)
    BY <2>2, WritesKeep
  <2>3. CASE OwnerStep(h)
    BY <2>3, ReadsAlone, WritesKeep, ReadsKeep DEF OwnerStep
  <2>4. CASE AdminStep(h)
    BY <2>4, ReadsKeep, WritesKeep DEF AdminStep
  <2>5. CASE Authenticate(h) \/ Refuse(h) \/ SubmitDeathClaim(h) \/ GetNomineeAssets(h)
    BY <2>5, ReadsAlone
  <2> QED
    BY <1>1, <2>1, <2>2, <2>3, <2>4, <2>5
<1>2. CASE JobStep \/ TokenExpires \/ Crash \/ \E c \in Claims : CoolingElapses(c)
  BY <1>2, JobsKeep
<1>3. CASE UNCHANGED vars
  BY <1>3 DEF vars, IInv, TypeOK, DocumentInv, MobileOtpAfterEmail, StepsInOrder, StatusHasReview,
              QueueNeedsDossier, AssetsOnlyAfterApproval, Approved, HandlerInv, HandlersHaveClaims,
              Justified, DossierOrRequest
<1> QED
  BY <1>1, <1>2, <1>3 DEF Next

\* The invariant of every reachable state.
THEOREM AlwaysIInv == Spec => []IInv
BY Initially, Inductive, PTL DEF Spec

\* The documents and the handlers keep their shape.
THEOREM TypeCorrect == Spec => []TypeOK
<1>1. IInv => TypeOK
  BY DEF IInv
<1> QED
  BY <1>1, AlwaysIInv, PTL

\* The identity steps are passed in order, however requests interleave.
THEOREM StepsAlwaysInOrder == Spec => []StepsInOrder
<1>1. IInv => StepsInOrder
  BY DEF IInv, DocumentInv
<1> QED
  BY <1>1, AlwaysIInv, PTL

\* No claim reaches the review queue without its dossier or an admin's request.
THEOREM QueueAlwaysNeedsDossier == Spec => []QueueNeedsDossier
<1>1. IInv => QueueNeedsDossier
  BY DEF IInv, DocumentInv
<1> QED
  BY <1>1, AlwaysIInv, PTL

\* The nominee is sent assets only after an admin approved one of the nominee's claims.
THEOREM AssetsAlwaysApproved == Spec => []AssetsOnlyAfterApproval
<1>1. IInv => AssetsOnlyAfterApproval
  BY DEF IInv, DocumentInv
<1> QED
  BY <1>1, AlwaysIInv, PTL

\* Each write names a claim by its number and does nothing once that claim is deleted.
LEMMA StepKeepsDeleted ==
  ASSUME TypeOK, [Next]_vars, NEW c \in Claims
  PROVE  StaysDeleted(c)
<1> USE DEF StaysDeleted, record
<1>1. ASSUME UNCHANGED record PROVE StaysDeleted(c)
  BY <1>1
<1>2. ASSUME NEW h \in Handlers, NomineeWrite(h) PROVE StaysDeleted(c)
  <2>1. CASE SubmitDeathClaimWrite(h)
    BY <2>1 DEF SubmitDeathClaimWrite, Fresh, TypeOK
  <2>2. CASE \/ SendEmailOtpWrite(h) \/ VerifyEmailOtpWrite(h) \/ SendMobileOtpWrite(h)
             \/ VerifyMobileOtpWrite(h) \/ UploadGovernmentIdWrite(h) \/ UploadSelfieWrite(h)
    BY <2>2 DEF TypeOK, SendEmailOtpWrite, VerifyEmailOtpWrite, SendMobileOtpWrite,
                VerifyMobileOtpWrite, UploadGovernmentIdWrite, UploadSelfieWrite, SetVerified,
                Stored, LiveStatus
  <2>3. CASE \/ UploadDeathDocumentWrite(h) \/ CompleteVerificationWrite(h)
             \/ GetVerificationStatusWrite(h) \/ UploadAdditionalDocumentWrite(h)
             \/ DeleteVerificationDocumentWrite(h) \/ GetNomineeAssetsServe(h)
    BY <2>3 DEF TypeOK, UploadDeathDocumentWrite, CompleteVerificationWrite,
                GetVerificationStatusWrite, UploadAdditionalDocumentWrite,
                DeleteVerificationDocumentWrite, GetNomineeAssetsServe, SetEvidence, SetStatus,
                Stored, LiveStatus
  <2> QED
    BY <1>2, <2>1, <2>2, <2>3 DEF NomineeWrite
<1>3. ASSUME NEW h \in Handlers,
             \/ HaltVerificationWrite(h) \/ DeleteNomineeClaims(h) \/ AssignVerificationWrite(h)
             \/ \E a \in ReviewActions : ReviewVerificationWrite(h, a)
      PROVE  StaysDeleted(c)
  BY <1>3 DEF TypeOK, HaltVerificationWrite, DeleteNomineeClaims, AssignVerificationWrite,
              ReviewVerificationWrite, SetStatus, PushReview, Stored, LiveStatus
<1>4. ASSUME NEW h \in Handlers, NEW d \in Claims,
             \/ NomineeRead(h, d) \/ HaltVerification(h, d) \/ AssignVerification(h, d)
             \/ \E a \in ReviewActions : ReviewVerification(h, d, a)
      PROVE  UNCHANGED record
  BY <1>4 DEF NomineeRead, SendEmailOtp, VerifyEmailOtp, SendMobileOtp, VerifyMobileOtp,
              UploadGovernmentId, UploadSelfie, UploadDeathDocument, CompleteVerification,
              GetVerificationStatus, UploadAdditionalDocument, DeleteVerificationDocument,
              HaltVerification, AssignVerification, ReviewVerification, ReadLatest, ReadStored
<1>5. ASSUME NEW h \in Handlers,
             \/ Authenticate(h) \/ Refuse(h) \/ SubmitDeathClaim(h) \/ GetNomineeAssets(h)
             \/ DeleteNominee(h)
      PROVE  UNCHANGED record
  BY <1>5 DEF Authenticate, Refuse, SubmitDeathClaim, GetNomineeAssets, DeleteNominee
<1>6. ASSUME JobStep PROVE StaysDeleted(c)
  BY <1>6 DEF TypeOK, JobStep, AdvanceCoolingPeriod, AdvanceCoolingPeriodWrite,
              CleanupExpiredNomineeTokens, CleanupExpiredOtps, IssueNomineeToken, SetStatus, Stored,
              LiveStatus
<1>7. ASSUME TokenExpires \/ Crash \/ (\E d \in Claims : CoolingElapses(d)) \/ UNCHANGED vars
      PROVE  UNCHANGED record
  BY <1>7 DEF TokenExpires, Crash, CoolingElapses, vars
<1> QED
  BY <1>1, <1>2, <1>3, <1>4, <1>5, <1>6, <1>7 DEF Next, OwnerStep, AdminStep

\* A claim removed with its nominee is never written again.
THEOREM DeletedAlwaysStaysDeleted == Spec => DeletedStaysDeleted
<1>1. TypeOK /\ [Next]_vars => [\A c \in Claims : StaysDeleted(c)]_vars
  BY StepKeepsDeleted
<1> QED
  BY <1>1, TypeCorrect, PTL DEF Spec, DeletedStaysDeleted

-----------------------------------------------------------------------------
(* The claims keep their promise.  Each write is one step of ClaimPromise, *)
(* or none when it finds its claim deleted; each read is none.             *)

Quiet == UNCHANGED <<status, verified, reviews, elapsed, served>>

\* What was due when it was read is due when it is written: the calendar does not go back.
LEMMA DueStays == IInv /\ DueInTime /\ [Next]_vars => DueInTime'
<1> SUFFICES ASSUME IInv, DueInTime, [Next]_vars PROVE DueInTime'
  OBVIOUS
<1> USE DEF DueInTime
<1>t. TypeOK
  BY DEF IInv
<1>1. ASSUME NEW h \in Handlers, NEW o, NEW c, Suspend(h, o, c), o = "poll" => c \in elapsed,
             UNCHANGED <<elapsed, advancing>>
      PROVE  DueInTime'
  <2>1. ASSUME NEW k \in Handlers, work'[k].op = "poll" PROVE work'[k].c \in elapsed
    <3>1. CASE k = h
      BY <1>1, <1>t, <2>1, <3>1 DEF Suspend, TypeOK
    <3>2. CASE k # h
      BY <1>1, <1>t, <2>1, <3>2 DEF Suspend, TypeOK
    <3> QED
      BY <3>1, <3>2
  <2> QED
    BY <1>1, <2>1
<1>2. ASSUME NEW h \in Handlers, NEW c \in Claims,
             \/ NomineeRead(h, c) \/ HaltVerification(h, c) \/ AssignVerification(h, c)
             \/ \E a \in ReviewActions : ReviewVerification(h, c, a)
      PROVE  DueInTime'
  <2>1. \E o : Suspend(h, o, c) /\ (o = "poll" => c \in elapsed)
    BY <1>2 DEF NomineeRead, SendEmailOtp, VerifyEmailOtp, SendMobileOtp, VerifyMobileOtp,
                UploadGovernmentId, UploadSelfie, UploadDeathDocument, CompleteVerification,
                GetVerificationStatus, UploadAdditionalDocument, DeleteVerificationDocument,
                HaltVerification, AssignVerification, ReviewVerification, ReviewActions,
                ReadLatest, ReadStored
  <2>2. UNCHANGED <<elapsed, advancing>>
    BY <1>2 DEF NomineeRead, SendEmailOtp, VerifyEmailOtp, SendMobileOtp, VerifyMobileOtp,
                UploadGovernmentId, UploadSelfie, UploadDeathDocument, CompleteVerification,
                GetVerificationStatus, UploadAdditionalDocument, DeleteVerificationDocument,
                HaltVerification, AssignVerification, ReviewVerification, ReadLatest, ReadStored
  <2> QED
    BY <1>1, <2>1, <2>2
<1>3. ASSUME NEW h \in Handlers,
             \/ Authenticate(h) \/ SubmitDeathClaim(h) \/ GetNomineeAssets(h) \/ DeleteNominee(h)
      PROVE  DueInTime'
  <2>1. \E o : Suspend(h, o, 0) /\ o # "poll"
    BY <1>3 DEF Authenticate, SubmitDeathClaim, GetNomineeAssets, DeleteNominee
  <2>2. UNCHANGED <<elapsed, advancing>>
    BY <1>3 DEF Authenticate, SubmitDeathClaim, GetNomineeAssets, DeleteNominee
  <2> QED
    BY <1>1, <2>1, <2>2
<1>4. ASSUME NEW h \in Handlers,
             \/ NomineeWrite(h) \/ HaltVerificationWrite(h) \/ DeleteNomineeClaims(h)
             \/ AssignVerificationWrite(h) \/ Refuse(h)
             \/ \E a \in ReviewActions : ReviewVerificationWrite(h, a)
      PROVE  DueInTime'
  <2>1. Suspend(h, "idle", 0) /\ UNCHANGED <<elapsed, advancing>>
    BY <1>4 DEF NomineeWrite, SubmitDeathClaimWrite, SendEmailOtpWrite, VerifyEmailOtpWrite,
                SendMobileOtpWrite, VerifyMobileOtpWrite, UploadGovernmentIdWrite, UploadSelfieWrite,
                UploadDeathDocumentWrite, CompleteVerificationWrite, GetVerificationStatusWrite,
                UploadAdditionalDocumentWrite, DeleteVerificationDocumentWrite, GetNomineeAssetsServe,
                HaltVerificationWrite, DeleteNomineeClaims, AssignVerificationWrite, Refuse,
                ReviewVerificationWrite, Finish, Idle, Suspend
  <2> QED
    BY <1>1, <2>1
<1>5. ASSUME JobStep \/ TokenExpires \/ (\E c \in Claims : CoolingElapses(c)) \/ UNCHANGED vars
      PROVE  DueInTime'
  <2>1. /\ work' = work /\ elapsed \subseteq elapsed'
        /\ advancing' \subseteq advancing \cup elapsed
    BY <1>5 DEF JobStep, AdvanceCoolingPeriod, AdvanceCoolingPeriodWrite, DueForAdvance,
                CleanupExpiredNomineeTokens, CleanupExpiredOtps, IssueNomineeToken, TokenExpires,
                CoolingElapses, vars
  <2> QED
    BY <2>1
<1>6. CASE Crash
  BY <1>6 DEF Crash, Idle
<1> QED
  BY <1>2, <1>3, <1>4, <1>5, <1>6 DEF Next, OwnerStep, AdminStep

LEMMA QuietPromised == Quiet => UNCHANGED Promise!vars
BY DEF Quiet, Promise!vars, Stage, StepsPassed

\* A claim is stored in the one sense when it is in the other.
LEMMA LiveIsStored ==
  ASSUME TypeOK, NEW c \in Claims
  PROVE  Promise!Live(c) <=> Stored(c)
BY DEF Promise!Live, Stage, Stored, TypeOK, Status, LiveStatus

LEMMA StatusMoves ==
  ASSUME TypeOK, NEW c \in Claims, NEW s, NEW t, Stored(c), SetStatus(c, s),
         t = IF s \in {"PENDING_REVIEW", "UNDER_REVIEW"} THEN "QUEUED" ELSE s
  PROVE  Promise!MoveTo(c, t)
BY DEF SetStatus, Promise!MoveTo, Stage, TypeOK

\* One more identity step, taken in the order of the workflow, counts as one.
LEMMA StepCounts ==
  ASSUME NEW v \in SUBSET Steps, NEW step \in Steps,
         "mobile" \in v => "email" \in v, "govtId" \in v => "mobile" \in v,
         "face" \in v => "govtId" \in v,
         step = "mobile" => "email" \in v, step = "govtId" => "mobile" \in v,
         step = "face" => "govtId" \in v
  PROVE  \/ v \cup {step} = v
         \/ StepsPassed(v) < 4 /\ StepsPassed(v \cup {step}) = StepsPassed(v) + 1
BY DEF Steps, StepsPassed

LEMMA StepPromised ==
  ASSUME IInv, NEW c \in Claims, NEW step \in Steps, SetVerified(c, step),
         UNCHANGED <<status, reviews, elapsed, served>>,
         step = "mobile" => "email" \in verified[c], step = "govtId" => "mobile" \in verified[c],
         step = "face" => "govtId" \in verified[c]
  PROVE  Promise!PassStep(c) \/ Quiet
<1> DEFINE v == verified[c]
<1>1. CASE ~Stored(c) \/ v \cup {step} = v
  BY <1>1 DEF SetVerified, Quiet, IInv, TypeOK
<1>2. CASE Stored(c) /\ v \cup {step} # v
  <2>1. /\ verified' = [verified EXCEPT ![c] = v \cup {step}]
        /\ v \in SUBSET Steps
    BY <1>2 DEF SetVerified, IInv, TypeOK
  <2>2. /\ "mobile" \in v => "email" \in v
        /\ "govtId" \in v => "mobile" \in v
        /\ "face" \in v => "govtId" \in v
    BY DEF IInv, DocumentInv, StepsInOrder
  <2>3. StepsPassed(v) < 4 /\ StepsPassed(v \cup {step}) = StepsPassed(v) + 1
    BY <1>2, <2>1, <2>2, StepCounts
  <2>4. \A d \in Claims : verified'[d] = IF d = c THEN v \cup {step} ELSE verified[d]
    BY <2>1 DEF IInv, TypeOK
  <2>5. Promise!Live(c)
    BY <1>2, LiveIsStored DEF IInv
  <2>6. [d \in Claims |-> StepsPassed(verified[d])]' =
          [[d \in Claims |-> StepsPassed(verified[d])] EXCEPT ![c] = @ + 1]
    BY <2>3, <2>4
  <2>7. UNCHANGED <<[d \in Claims |-> Stage(d)], [d \in Claims |-> reviews[d] \ {"ASSIGNED"}],
                    elapsed, served>>
    BY DEF Stage
  <2> QED
    BY <2>3, <2>5, <2>6, <2>7 DEF Promise!PassStep
<1> QED
  BY <1>1, <1>2

LEMMA NextPromised ==
  ASSUME NEW c \in Claims,
         \/ Promise!Submit(c) \/ Promise!ComeDue(c) \/ Promise!EndCooling(c) \/ Promise!PassStep(c)
         \/ Promise!Queue(c) \/ Promise!Halt(c) \/ Promise!Decide(c, "APPROVE", "APPROVED")
         \/ Promise!Decide(c, "REJECT", "REJECTED")
         \/ Promise!Decide(c, "REQUEST_MORE_DOCS", "MORE_DOCUMENTS_REQUIRED")
  PROVE  Promise!Next
BY DEF Promise!Next

LEMMA QueuePromised ==
  ASSUME IInv, NEW c \in Claims, NEW s \in {"PENDING_REVIEW", "UNDER_REVIEW"}, SetStatus(c, s),
         DossierOrRequest(c), UNCHANGED <<verified, elapsed, served>>,
         UNCHANGED reviews \/ PushReview(c, "ASSIGNED")
  PROVE  Promise!Queue(c) \/ Quiet
<1>1. CASE ~Stored(c)
  BY <1>1 DEF SetStatus, PushReview, Quiet
<1>2. CASE Stored(c)
  <2>1. Promise!Live(c) /\ Promise!MoveTo(c, "QUEUED")
    BY <1>2, LiveIsStored, StatusMoves DEF IInv
  <2>2. StepsPassed(verified[c]) = 4 \/ "REQUEST_MORE_DOCS" \in reviews[c] \ {"ASSIGNED"}
    BY DEF DossierOrRequest, StepsPassed, Steps
  <2>3. \A d \in Claims : reviews'[d] \ {"ASSIGNED"} = reviews[d] \ {"ASSIGNED"}
    BY DEF PushReview, IInv, TypeOK
  <2>4. UNCHANGED <<[d \in Claims |-> StepsPassed(verified[d])],
                    [d \in Claims |-> reviews[d] \ {"ASSIGNED"}], elapsed, served>>
    BY <2>3
  <2> QED
    BY <2>1, <2>2, <2>4 DEF Promise!Queue
<1> QED
  BY <1>1, <1>2

LEMMA DecisionPromised ==
  ASSUME IInv, NEW c \in Claims, NEW a \in ReviewActions, SetStatus(c, ReviewOutcome(a)),
         PushReview(c, a), UNCHANGED <<verified, elapsed, served>>
  PROVE  Promise!Decide(c, a, ReviewOutcome(a)) \/ Quiet
<1>1. CASE ~Stored(c)
  BY <1>1 DEF SetStatus, PushReview, Quiet
<1>2. CASE Stored(c)
  <2>1. ReviewOutcome(a) \notin {"PENDING_REVIEW", "UNDER_REVIEW"} /\ a # "ASSIGNED"
    BY DEF ReviewOutcome, ReviewActions
  <2>2. Promise!Live(c) /\ Promise!MoveTo(c, ReviewOutcome(a))
    BY <1>2, <2>1, LiveIsStored, StatusMoves DEF IInv
  <2>3. \A d \in Claims : reviews'[d] = IF d = c THEN reviews[c] \cup {a} ELSE reviews[d]
    BY <1>2 DEF PushReview, IInv, TypeOK
  <2>4. \A d \in Claims :
          reviews'[d] \ {"ASSIGNED"} =
            IF d = c THEN (reviews[c] \ {"ASSIGNED"}) \cup {a} ELSE reviews[d] \ {"ASSIGNED"}
    BY <2>1, <2>3
  <2>5. [d \in Claims |-> reviews[d] \ {"ASSIGNED"}]' =
          [[d \in Claims |-> reviews[d] \ {"ASSIGNED"}] EXCEPT ![c] = @ \cup {a}]
    BY <2>4
  <2>6. UNCHANGED <<[d \in Claims |-> StepsPassed(verified[d])], elapsed, served>>
    OBVIOUS
  <2> QED
    BY <2>2, <2>5, <2>6 DEF Promise!Decide
<1> QED
  BY <1>1, <1>2

\* Leaving the cooling period and halting differ in what they need.
LEMMA MovePromised ==
  ASSUME IInv, NEW c \in Claims, NEW s \in {"NOMINEE_NOTIFIED", "HALTED"}, SetStatus(c, s),
         s = "NOMINEE_NOTIFIED" => c \in elapsed, UNCHANGED <<verified, reviews, elapsed, served>>
  PROVE  Promise!EndCooling(c) \/ Promise!Halt(c) \/ Quiet
<1>1. CASE ~Stored(c)
  BY <1>1 DEF SetStatus, Quiet
<1>2. CASE Stored(c)
  <2>1. Promise!Live(c) /\ Promise!MoveTo(c, s)
    BY <1>2, LiveIsStored, StatusMoves DEF IInv
  <2>2. UNCHANGED <<[d \in Claims |-> StepsPassed(verified[d])],
                    [d \in Claims |-> reviews[d] \ {"ASSIGNED"}], elapsed, served>>
    OBVIOUS
  <2> QED
    BY <2>1, <2>2 DEF Promise!EndCooling, Promise!Halt
<1> QED
  BY <1>1, <1>2

LEMMA SubmissionPromised ==
  ASSUME IInv, NEW h \in Handlers, SubmitDeathClaimWrite(h)
  PROVE  \E c \in Claims : Promise!Submit(c)
<1>1. PICK c \in Claims : Fresh(c) /\ status' = [status EXCEPT ![c] =
                            IF CoolingEnabled THEN "COOLING_PERIOD" ELSE "NOMINEE_NOTIFIED"]
  BY DEF SubmitDeathClaimWrite
<1>2. Stage(c) = "NONE" /\ \A d \in Claims : d < c => Stage(d) # "NONE"
  BY <1>1 DEF Fresh, Stage
<1>3. Promise!MoveTo(c, "COOLING_PERIOD") \/ Promise!MoveTo(c, "NOMINEE_NOTIFIED")
  BY <1>1 DEF Promise!MoveTo, Stage, IInv, TypeOK
<1>4. UNCHANGED <<[d \in Claims |-> StepsPassed(verified[d])],
                  [d \in Claims |-> reviews[d] \ {"ASSIGNED"}], elapsed, served>>
  BY DEF SubmitDeathClaimWrite, Finish
<1>5. [d \in Claims |-> Stage(d)][c] = "NONE"
      /\ \A d \in Claims : d < c => [e \in Claims |-> Stage(e)][d] # "NONE"
  BY <1>2
<1> QED
  BY <1>3, <1>4, <1>5 DEF Promise!Submit

LEMMA RemovalPromised ==
  ASSUME IInv, NEW h \in Handlers, DeleteNomineeClaims(h)
  PROVE  Promise!RemoveAll
<1>1. \A c \in Claims : Stage(c)' = IF Stored(c) THEN "DELETED" ELSE Stage(c)
  BY DEF DeleteNomineeClaims, Stage, IInv, TypeOK
<1>2. \A c \in Claims : Promise!Live(c) <=> Stored(c)
  BY LiveIsStored DEF IInv
<1>3. [c \in Claims |-> Stage(c)]' =
        [c \in Claims |-> IF Promise!Live(c) THEN "DELETED" ELSE [d \in Claims |-> Stage(d)][c]]
  BY <1>1, <1>2
<1>4. UNCHANGED <<[d \in Claims |-> StepsPassed(verified[d])],
                  [d \in Claims |-> reviews[d] \ {"ASSIGNED"}], elapsed, served>>
  BY DEF DeleteNomineeClaims, Finish
<1> QED
  BY <1>3, <1>4 DEF Promise!RemoveAll

\* The nominee's writes.
LEMMA NomineePromised ==
  ASSUME IInv, DueInTime, NEW h \in Handlers, NomineeWrite(h)
  PROVE  Promise!Next \/ Quiet
<1> DEFINE d == work[h].c
<1>d. work[h].op \in ClaimOps => d \in Claims
  BY DEF IInv, HandlerInv, HandlersHaveClaims
<1>j. Justified(work[h].op, d)
  BY DEF IInv, HandlerInv
<1>o. {"verifyEmail", "verifyMobile", "uploadId", "uploadSelfie", "complete", "poll", "additional"}
        \subseteq ClaimOps
  BY DEF ClaimOps, Writes, ReviewActions
<1>1. CASE SubmitDeathClaimWrite(h)
  BY <1>1, SubmissionPromised, NextPromised
<1>2. CASE VerifyEmailOtpWrite(h)
  <2>1. d \in Claims /\ SetVerified(d, "email") /\ UNCHANGED <<status, reviews, elapsed, served>>
    BY <1>2, <1>d, <1>o DEF VerifyEmailOtpWrite, Finish
  <2> QED
    BY <2>1, StepPromised, NextPromised DEF Steps
<1>3. CASE VerifyMobileOtpWrite(h)
  <2>1. /\ d \in Claims /\ SetVerified(d, "mobile") /\ "email" \in verified[d]
        /\ UNCHANGED <<status, reviews, elapsed, served>>
    BY <1>3, <1>d, <1>j, <1>o DEF VerifyMobileOtpWrite, Finish, Justified
  <2> QED
    BY <2>1, StepPromised, NextPromised DEF Steps
<1>4. CASE UploadGovernmentIdWrite(h)
  <2>1. /\ d \in Claims /\ SetVerified(d, "govtId") /\ "mobile" \in verified[d]
        /\ UNCHANGED <<status, reviews, elapsed, served>>
    BY <1>4, <1>d, <1>j, <1>o DEF UploadGovernmentIdWrite, Finish, Justified
  <2> QED
    BY <2>1, StepPromised, NextPromised DEF Steps
<1>5. CASE UploadSelfieWrite(h)
  <2>1. /\ d \in Claims /\ SetVerified(d, "face") /\ "govtId" \in verified[d]
        /\ UNCHANGED <<status, reviews, elapsed, served>>
    BY <1>5, <1>d, <1>j, <1>o DEF UploadSelfieWrite, Finish, Justified
  <2> QED
    BY <2>1, StepPromised, NextPromised DEF Steps
<1>6. CASE CompleteVerificationWrite(h)
  <2>1. /\ d \in Claims /\ SetStatus(d, "PENDING_REVIEW") /\ DossierOrRequest(d)
        /\ UNCHANGED <<verified, reviews, elapsed, served>>
    BY <1>6, <1>d, <1>j, <1>o
    DEF CompleteVerificationWrite, Finish, Justified, DossierOrRequest
  <2> QED
    BY <2>1, QueuePromised, NextPromised
<1>7. CASE GetVerificationStatusWrite(h)
  <2>1. /\ d \in Claims /\ SetStatus(d, "NOMINEE_NOTIFIED") /\ d \in elapsed
        /\ UNCHANGED <<verified, reviews, elapsed, served>>
    BY <1>7, <1>d, <1>o DEF GetVerificationStatusWrite, Finish, DueInTime
  <2> QED
    BY <2>1, MovePromised, NextPromised
<1>8. CASE UploadAdditionalDocumentWrite(h)
  <2>1. /\ d \in Claims /\ SetStatus(d, "PENDING_REVIEW") /\ DossierOrRequest(d)
        /\ UNCHANGED <<verified, reviews, elapsed, served>>
    BY <1>8, <1>d, <1>j, <1>o DEF UploadAdditionalDocumentWrite, Finish, Justified
  <2> QED
    BY <2>1, QueuePromised, NextPromised
<1>9. CASE GetNomineeAssetsServe(h)
  <2>1. /\ served' = TRUE /\ \E c \in Claims : Approved(c)
        /\ UNCHANGED <<status, verified, reviews, elapsed>>
    BY <1>9, <1>j DEF GetNomineeAssetsServe, Finish, Justified, record
  <2>2. \E c \in Claims : "APPROVE" \in [e \in Claims |-> reviews[e] \ {"ASSIGNED"}][c]
    BY <2>1 DEF Approved
  <2>3. UNCHANGED <<[e \in Claims |-> Stage(e)], [e \in Claims |-> StepsPassed(verified[e])],
                    [e \in Claims |-> reviews[e] \ {"ASSIGNED"}]>>
    BY <2>1 DEF Stage
  <2> QED
    BY <2>1, <2>2, <2>3 DEF Promise!Next, Promise!Release
<1>10. CASE \/ SendEmailOtpWrite(h) \/ SendMobileOtpWrite(h) \/ UploadDeathDocumentWrite(h)
            \/ DeleteVerificationDocumentWrite(h)
  BY <1>10 DEF SendEmailOtpWrite, SendMobileOtpWrite, UploadDeathDocumentWrite,
               DeleteVerificationDocumentWrite, Finish, Quiet, record
<1> QED
  BY <1>1, <1>2, <1>3, <1>4, <1>5, <1>6, <1>7, <1>8, <1>9, <1>10 DEF NomineeWrite

\* The owner's, the admins' and the jobs' writes, and the calendar.
LEMMA OthersPromised ==
  ASSUME IInv, DueInTime
  PROVE  /\ \A h \in Handlers :
              \/ HaltVerificationWrite(h) \/ DeleteNomineeClaims(h) \/ AssignVerificationWrite(h)
              \/ \E a \in ReviewActions : ReviewVerificationWrite(h, a)
              => Promise!Next \/ Quiet
         /\ \A c \in Claims :
              AdvanceCoolingPeriodWrite(c) \/ CoolingElapses(c) => Promise!Next \/ Quiet
<1>1. ASSUME NEW h \in Handlers, work[h].op \in ClaimOps
      PROVE  work[h].c \in Claims /\ Justified(work[h].op, work[h].c)
  BY <1>1 DEF IInv, HandlerInv, HandlersHaveClaims
<1>2. {"halt", "assign"} \subseteq ClaimOps /\ ReviewActions \subseteq ClaimOps
  BY DEF ClaimOps, Writes, ReviewActions
<1>3. ASSUME NEW h \in Handlers, HaltVerificationWrite(h) PROVE Promise!Next \/ Quiet
  <2>1. /\ work[h].c \in Claims /\ SetStatus(work[h].c, "HALTED")
        /\ UNCHANGED <<verified, reviews, elapsed, served>>
    BY <1>1, <1>2, <1>3 DEF HaltVerificationWrite, Finish
  <2> QED
    BY <2>1, MovePromised, NextPromised
<1>4. ASSUME NEW h \in Handlers, DeleteNomineeClaims(h) PROVE Promise!Next \/ Quiet
  BY <1>4, RemovalPromised DEF Promise!Next
<1>5. ASSUME NEW h \in Handlers, AssignVerificationWrite(h) PROVE Promise!Next \/ Quiet
  <2>1. /\ work[h].c \in Claims /\ SetStatus(work[h].c, "UNDER_REVIEW")
        /\ PushReview(work[h].c, "ASSIGNED") /\ DossierOrRequest(work[h].c)
        /\ UNCHANGED <<verified, elapsed, served>>
    BY <1>1, <1>2, <1>5 DEF AssignVerificationWrite, Finish, Justified
  <2> QED
    BY <2>1, QueuePromised, NextPromised
<1>6. ASSUME NEW h \in Handlers, NEW a \in ReviewActions, ReviewVerificationWrite(h, a)
      PROVE  Promise!Next \/ Quiet
  <2>1. /\ work[h].c \in Claims /\ SetStatus(work[h].c, ReviewOutcome(a))
        /\ PushReview(work[h].c, a) /\ UNCHANGED <<verified, elapsed, served>>
    BY <1>1, <1>2, <1>6 DEF ReviewVerificationWrite, Finish
  <2>2. Promise!Decide(work[h].c, a, ReviewOutcome(a)) \/ Quiet
    BY <2>1, DecisionPromised
  <2> QED
    BY <2>1, <2>2, NextPromised DEF ReviewOutcome, ReviewActions
<1>7. ASSUME NEW c \in Claims, AdvanceCoolingPeriodWrite(c) PROVE Promise!Next \/ Quiet
  <2>1. /\ SetStatus(c, "NOMINEE_NOTIFIED") /\ c \in elapsed
        /\ UNCHANGED <<verified, reviews, elapsed, served>>
    BY <1>7 DEF AdvanceCoolingPeriodWrite, DueInTime
  <2> QED
    BY <2>1, MovePromised, NextPromised
<1>8. ASSUME NEW c \in Claims, CoolingElapses(c) PROVE Promise!Next \/ Quiet
  <2>1. Promise!Live(c) /\ elapsed' = elapsed \cup {c}
    BY <1>8, LiveIsStored DEF CoolingElapses, IInv
  <2>2. UNCHANGED <<[e \in Claims |-> Stage(e)], [e \in Claims |-> StepsPassed(verified[e])],
                    [e \in Claims |-> reviews[e] \ {"ASSIGNED"}], served>>
    BY <1>8 DEF CoolingElapses, record, Stage
  <2>3. Promise!ComeDue(c)
    BY <2>1, <2>2 DEF Promise!ComeDue
  <2> QED
    BY <2>3, NextPromised
<1> QED
  BY <1>3, <1>4, <1>5, <1>6, <1>7, <1>8

\* Every step of the system is one of the promise, or none.
LEMMA EveryStepPromised == IInv /\ DueInTime /\ [Next]_vars => [Promise!Next]_Promise!vars
<1> SUFFICES ASSUME IInv, DueInTime, [Next]_vars PROVE Promise!Next \/ Quiet
  BY QuietPromised
<1>1. ASSUME NEW h \in Handlers, NEW c \in Claims,
             \/ NomineeRead(h, c) \/ HaltVerification(h, c) \/ AssignVerification(h, c)
             \/ \E a \in ReviewActions : ReviewVerification(h, c, a)
      PROVE  Quiet
  BY <1>1 DEF Quiet, record, NomineeRead, SendEmailOtp, VerifyEmailOtp, SendMobileOtp,
              VerifyMobileOtp, UploadGovernmentId, UploadSelfie, UploadDeathDocument,
              CompleteVerification, GetVerificationStatus, UploadAdditionalDocument,
              DeleteVerificationDocument, HaltVerification, AssignVerification, ReviewVerification,
              ReadLatest, ReadStored
<1>2. ASSUME NEW h \in Handlers,
             \/ Authenticate(h) \/ Refuse(h) \/ SubmitDeathClaim(h) \/ GetNomineeAssets(h)
             \/ DeleteNominee(h)
      PROVE  Quiet
  BY <1>2 DEF Quiet, record, Authenticate, Refuse, SubmitDeathClaim, GetNomineeAssets, DeleteNominee
<1>3. ASSUME \/ AdvanceCoolingPeriod \/ CleanupExpiredNomineeTokens \/ CleanupExpiredOtps
             \/ IssueNomineeToken \/ TokenExpires \/ Crash \/ UNCHANGED vars
      PROVE  Quiet
  BY <1>3 DEF Quiet, record, AdvanceCoolingPeriod, CleanupExpiredNomineeTokens,
              CleanupExpiredOtps, IssueNomineeToken, TokenExpires, Crash, vars
<1> QED
  BY <1>1, <1>2, <1>3, NomineePromised, OthersPromised DEF Next, OwnerStep, AdminStep, JobStep

\* The workflow, with its reads and writes apart, implements ClaimPromise: no interleaving of
\* nominee, owner, admins, jobs and restarts takes a claim a way that whole steps would not.
THEOREM KeepsPromise == Spec => ImplementsPromise
<1>1. Init => Promise!Init /\ DueInTime
  BY DEF Init, Promise!Init, Stage, StepsPassed, DueInTime, Idle
<1> QED
  BY <1>1, Initially, Inductive, DueStays, EveryStepPromised, PTL DEF Spec, ImplementsPromise
===============================================================================
