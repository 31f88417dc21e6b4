---------------------------- MODULE DeadMansSwitch ----------------------------
(***************************************************************************)
(* One owner's dead man's switch: the re-engagement fields of the owner's  *)
(* document in db.users, the routes of api/auth.py that write them, and    *)
(* the job of lib/scheduler.py that logs an absent owner out, calls,       *)
(* sends reminders and in the end sends the nominees their access links.   *)
(*                                                                         *)
(* Times are ages in ticks, capped at MaxAge.  A tick is 30 seconds in the *)
(* two-minute workflow, a minute in the five-minute one and ten days in    *)
(* production; the job runs at least once per JobPeriod ticks and a run    *)
(* ends before the next is due.  The job is split at its awaits: the query *)
(* for active owners, the auto-logout, the query for absent owners, the    *)
(* fresh read of the owner, and each call, mail and write after it.        *)
(***************************************************************************)
EXTENDS Naturals, Sequences

CONSTANTS
  WaitPeriod,     \* production: inactivityPeriod
  Duration,       \* production: how long reminders are sent
  MaxCrashes      \* bound: restarts of the API process

ASSUME SwitchAssumption == {WaitPeriod, Duration, MaxCrashes} \subseteq Nat

Workflows == {"twoMinute", "fiveMinute", "production"}

VARIABLES
  workflow,       \* which of the three the owner's inactivityPeriod selects; it never changes
  lastActive,     \* age of lastActive
  logoutTime,     \* age of logoutTime, or None
  callSent,       \* reEngagementCallSent
  messagesSent,   \* reEngagementMessagesSent
  lastMessageAt,  \* age of reEngagementLastMessageAt, or None
  notified,       \* nomineesNotified
  isVerified,     \* the e-mail address
  session,        \* the owner's browser has a valid access token
  alive,          \* the owner still makes requests
  heartbeat,      \* a heartbeat has read the owner and not yet written
  sinceRun,       \* ticks since the job last started
  run,            \* the job: its next step and what it read of the owner
  mails, links,   \* history: reminders and nominee links since the absence began
  crashes,        \* history: restarts so far
  overran         \* history: fields the job wrote over a later write of the owner

\* Ticks between two runs of the job, and the heartbeat timeout.
JobPeriod == IF workflow = "twoMinute" THEN 2 ELSE 1
AutoLogout == CASE workflow = "twoMinute" -> 2
                [] workflow = "fiveMinute" -> 1
                [] workflow = "production" -> 0

\* How long an absence lasts before the nominees get their links.
Release == CASE workflow = "twoMinute" -> 4
             [] workflow = "fiveMinute" -> 5
             [] workflow = "production" -> WaitPeriod + Duration

\* How many reminders one absence gets; production sends one per tick (GAP).
Reminders == CASE workflow = "twoMinute" -> 2
               [] workflow = "fiveMinute" -> 3
               [] workflow = "production" -> Duration

\* A run that read the previous absence may add one of its own.
MaxReminders == IF workflow = "production" THEN Reminders + 1 ELSE Reminders

MaxAge == Release + 1           \* bound: ages stop growing here
None == MaxAge + 1              \* Python's None, for an age
Age == 0 .. None

\* The order of the steps that follow the job's read of the owner; the first form has the
\* call come too late.
OrderCallLast == <<"mail", "notify", "call">>
Order == CASE workflow = "twoMinute" -> <<"mail", "notify">>
           [] workflow = "fiveMinute" -> <<"mail", "call", "notify">>
           [] workflow = "production" -> <<"call", "mail", "notify">>

fields == <<logoutTime, callSent, messagesSent, lastMessageAt, notified>>
client == <<isVerified, session, alive>>
vars == <<workflow, lastActive, fields, client, heartbeat, sinceRun, run, mails, links, crashes,
          overran>>

\* returned: the owner has written since the job read what it decides from.
Sleeping == [step |-> "sleep", elapsed |-> 0, messages |-> 0, called |-> FALSE, gap |-> 0,
             returned |-> FALSE]

Init ==
  /\ workflow \in Workflows
  /\ lastActive = 0 /\ logoutTime = None
  /\ callSent = FALSE /\ messagesSent = 0 /\ lastMessageAt = None /\ notified = FALSE
  /\ isVerified \in BOOLEAN /\ session = TRUE /\ alive = TRUE
  /\ heartbeat = FALSE /\ sinceRun = 0 /\ run = Sleeping
  /\ mails = 0 /\ links = 0 /\ crashes = 0 /\ overran = {}

-----------------------------------------------------------------------------
(* The owner's routes                                                      *)

NewAbsence == mails' = 0 /\ links' = 0

\* Every write of the owner, as the job's run in progress sees it.
OwnerWrites ==
  /\ NewAbsence
  /\ overran' = {}
  /\ run' = [run EXCEPT !.returned = TRUE]
  /\ UNCHANGED <<workflow, alive, sinceRun, crashes>>

\* _reset_reengagement_fields.
ResetReengagement ==
  /\ logoutTime' = None
  /\ callSent' = FALSE /\ messagesSent' = 0 /\ lastMessageAt' = None
  /\ notified' = FALSE

\* Password, 2FA and Google login, and POST /refresh-token: all end with this write.
Login ==
  /\ alive
  /\ lastActive' = 0
  /\ ResetReengagement
  /\ session' = TRUE
  /\ OwnerWrites
  /\ UNCHANGED <<isVerified, heartbeat>>

HeartbeatRead ==
  /\ alive /\ session /\ ~heartbeat
  /\ logoutTime = None
  /\ heartbeat' = TRUE
  /\ UNCHANGED <<workflow, lastActive, fields, client, sinceRun, run, mails, links, crashes, overran>>

HeartbeatWrite ==
  /\ heartbeat
  /\ heartbeat' = FALSE
  /\ lastActive' = 0
  /\ ResetReengagement
  /\ OwnerWrites
  /\ UNCHANGED <<isVerified, session>>

\* POST /update-profile and /resend-verification reset the fields but not lastActive: the
\* job counts on from the login or heartbeat before them.
UpdateProfile ==
  /\ alive /\ session
  /\ ResetReengagement
  /\ OwnerWrites
  /\ UNCHANGED <<lastActive, isVerified, session, heartbeat>>

\* The link mailed at signup needs no session and has no expiry.
VerifyEmail ==
  /\ alive /\ ~isVerified
  /\ isVerified' = TRUE
  /\ ResetReengagement
  /\ OwnerWrites
  /\ UNCHANGED <<lastActive, session, heartbeat>>

Logout ==
  /\ alive /\ session
  /\ lastActive' = 0 /\ logoutTime' = 0
  /\ callSent' = FALSE /\ messagesSent' = 0 /\ lastMessageAt' = None /\ notified' = FALSE
  /\ session' = FALSE
  /\ OwnerWrites
  /\ UNCHANGED <<isVerified, heartbeat>>

-----------------------------------------------------------------------------
(* The scheduler's job                                                     *)

ownerSide == <<workflow, client, heartbeat, crashes>>

\* _run_inactivity_check starts: the owner is active on record, or not.  A tick of
\* production is many runs long.
JobFindActive ==
  /\ run.step = "sleep"
  /\ sinceRun > 0 \/ workflow = "production"
  /\ sinceRun' = 0
  /\ run' = IF ~notified /\ logoutTime = None /\ lastActive > AutoLogout
              THEN [Sleeping EXCEPT !.step = "autoLogout", !.elapsed = lastActive]
              ELSE [Sleeping EXCEPT !.step = "findAbsent"]
  /\ UNCHANGED <<lastActive, fields, ownerSide, mails, links, overran>>

\* logoutTime becomes the lastActive the query returned, whatever the owner did meanwhile.
JobAutoLogout ==
  /\ run.step = "autoLogout"
  /\ logoutTime' = run.elapsed
  /\ callSent' = FALSE /\ messagesSent' = 0 /\ lastMessageAt' = None
  /\ run' = [Sleeping EXCEPT !.step = "findAbsent"]
  /\ overran' = IF run.returned THEN {"logoutTime"} ELSE {}
  /\ NewAbsence
  /\ UNCHANGED <<lastActive, notified, ownerSide, sinceRun>>

\* The second query, without its nomineesNotified filter and with it.
AbsentUnfiltered == logoutTime # None
Absent == logoutTime # None /\ ~notified

JobFindAbsent ==
  /\ run.step = "findAbsent"
  /\ run' = IF Absent THEN [Sleeping EXCEPT !.step = "read"] ELSE Sleeping
  /\ UNCHANGED <<lastActive, fields, ownerSide, sinceRun, mails, links, overran>>

MailDue(r) ==
  IF workflow = "production"
    THEN r.elapsed >= WaitPeriod /\ r.elapsed < Release /\ r.gap >= 1
    ELSE r.messages < Reminders /\ r.elapsed >= r.messages + 1

CallDue(r) ==
  /\ ~r.called
  /\ IF workflow = "production" THEN r.elapsed >= WaitPeriod ELSE r.elapsed >= 4 /\ r.messages >= 3

\* The end of the absence, too early, hit or missed, and as it is.
NotifyDueEarly(r) == r.elapsed >= Release - 1
NotifyDueExactly(r) == r.elapsed = Release
NotifyDue(r) == r.elapsed >= Release

Due(step, r) == CASE step = "mail" -> MailDue(r)
                  [] step = "call" -> CallDue(r)
                  [] step = "notify" -> NotifyDue(r)

\* The run goes on to the first step due after the first n of the order.
GoOn(r, n) ==
  LET due == {i \in (n + 1) .. Len(Order) : Due(Order[i], r)}
  IN  IF due = {} THEN Sleeping
      ELSE [r EXCEPT !.step = Order[CHOOSE i \in due : \A j \in due : i <= j]]

Position(step) == CHOOSE i \in 1 .. Len(Order) : Order[i] = step

\* process_reengagement_for_user reads the owner again and decides from this copy.
JobReadOwner ==
  /\ run.step = "read"
  /\ run' = IF Absent
              THEN GoOn([step |-> "read", elapsed |-> logoutTime, messages |-> messagesSent,
                         called |-> callSent, gap |-> lastMessageAt, returned |-> FALSE], 0)
              ELSE Sleeping
  /\ UNCHANGED <<lastActive, fields, ownerSide, sinceRun, mails, links, overran>>

\* trigger_reengagement_call records the call whether or not Twilio made it.
JobCall ==
  /\ run.step = "call"
  /\ callSent' = TRUE
  /\ run' = GoOn(run, Position("call"))
  /\ UNCHANGED <<lastActive, logoutTime, messagesSent, lastMessageAt, notified, ownerSide, sinceRun,
                 mails, links, overran>>

JobSendMail ==
  /\ run.step = "mail"
  /\ run' = [run EXCEPT !.step = "countMail"]
  /\ mails' = mails + 1
  /\ UNCHANGED <<lastActive, fields, ownerSide, sinceRun, links, overran>>

JobMailFails ==
  /\ run.step = "mail"
  /\ run' = GoOn(run, Position("mail"))
  /\ UNCHANGED <<lastActive, fields, ownerSide, sinceRun, mails, links, overran>>

\* The write after a mail that left, and a version that forgets it.
CountMailForgotten == UNCHANGED <<messagesSent, lastMessageAt>>
CountMail == lastMessageAt' = 0 /\ messagesSent' = messagesSent + 1

JobCountMail ==
  /\ run.step = "countMail"
  /\ CountMail
  /\ run' = GoOn([run EXCEPT !.messages = @ + 1], Position("mail"))
  /\ UNCHANGED <<lastActive, logoutTime, callSent, notified, ownerSide, sinceRun, mails, links, overran>>

\* notify_nominees_for_user: a token for the nominee (and its mail), then the mark.
JobIssueLink ==
  /\ run.step = "notify"
  /\ run' = [run EXCEPT !.step = "mark"]
  /\ links' = links + 1
  /\ UNCHANGED <<lastActive, fields, ownerSide, sinceRun, mails, overran>>

JobMarkNotified ==
  /\ run.step = "mark"
  /\ notified' = TRUE
  /\ overran' = overran \cup IF run.returned THEN {"nomineesNotified"} ELSE {}
  /\ run' = Sleeping
  /\ UNCHANGED <<lastActive, logoutTime, callSent, messagesSent, lastMessageAt, ownerSide, sinceRun,
                 mails, links>>

JobStep ==
  \/ JobFindActive \/ JobAutoLogout \/ JobFindAbsent \/ JobReadOwner
  \/ JobCall \/ JobSendMail \/ JobMailFails \/ JobCountMail
  \/ JobIssueLink \/ JobMarkNotified

-----------------------------------------------------------------------------
(* Time, restarts and the owner's end                                      *)

Older(a) == IF a >= MaxAge THEN a ELSE a + 1

\* An access token lives 60 minutes: less than a tick of production.
Tick ==
  /\ sinceRun < JobPeriod
  /\ sinceRun' = sinceRun + 1
  /\ lastActive' = Older(lastActive) /\ logoutTime' = Older(logoutTime)
  /\ lastMessageAt' = Older(lastMessageAt)
  /\ run' = IF run.step = "autoLogout" THEN [run EXCEPT !.elapsed = Older(@)] ELSE run
  /\ session' \in IF workflow = "production" THEN {FALSE} ELSE {session, FALSE}
  /\ UNCHANGED <<workflow, callSent, messagesSent, notified, isVerified, alive, heartbeat, mails,
                 links, crashes, overran>>

Crash ==
  /\ crashes < MaxCrashes
  /\ crashes' = crashes + 1
  /\ run' = Sleeping
  /\ heartbeat' = FALSE
  /\ sinceRun' = 0
  /\ UNCHANGED <<workflow, lastActive, fields, client, mails, links, overran>>

\* The owner dies, or stops using the platform for good.
Die ==
  /\ alive
  /\ alive' = FALSE
  /\ UNCHANGED <<workflow, lastActive, fields, isVerified, session, heartbeat, sinceRun, run, mails,
                 links, crashes, overran>>

Next ==
  \/ Login \/ HeartbeatRead \/ HeartbeatWrite \/ UpdateProfile \/ VerifyEmail \/ Logout
  \/ JobStep
  \/ Tick \/ Crash \/ Die

Spec == Init /\ [][Next]_vars

\* AsyncIOScheduler runs the job every minute and each of its awaits returns; time passes.
FairSpec == Spec /\ WF_vars(JobStep) /\ WF_vars(Tick)

-----------------------------------------------------------------------------
(* Properties                                                              *)

\* Every variable keeps its shape; no counter of the document outgrows its limit.
TypeOK ==
  /\ workflow \in Workflows
  /\ lastActive \in 0 .. MaxAge /\ {logoutTime, lastMessageAt} \subseteq Age
  /\ {callSent, notified, isVerified, session, alive, heartbeat} \subseteq BOOLEAN
  /\ messagesSent \in 0 .. MaxReminders
  /\ sinceRun \in 0 .. JobPeriod
  /\ run \in [step : {"sleep", "autoLogout", "findAbsent", "read", "mail", "countMail", "call",
                      "notify", "mark"},
              elapsed : Age, messages : 0 .. MaxReminders, called : BOOLEAN, gap : Age,
              returned : BOOLEAN]
  /\ mails \in 0 .. MaxReminders + MaxCrashes /\ links \in Nat
  /\ crashes \in 0 .. MaxCrashes
  /\ overran \subseteq {"logoutTime", "nomineesNotified"}

\* One absence brings each nominee at most one link, except that a restart between the
\* link and the mark repeats it: the two are separate writes of a run that starts anew
\* every minute, and the owner's routes write the same fields meanwhile.
OneLinkPerAbsence == links <= 1 + crashes

\* One absence brings the owner at most the planned reminders, one more per restart between
\* a mail and the write that counts it, and in production one more if the owner logs out
\* while a run that read the previous absence is about to mail.
RemindersBounded == mails <= MaxReminders + crashes

\* A nominee gets a link only when the owner's last login, logout or accepted heartbeat lies
\* as far back as the workflow asks (lastActive; the requests it does not record do not count).
\* Excluded are two races: a request of the owner since this run read the document (returned),
\* and one between the query and the write of an auto-logout, whose older time then stands in
\* logoutTime until the owner logs in again.
LinkOnlyAfterAbsence ==
  [][JobIssueLink => run.returned \/ "logoutTime" \in overran \/ lastActive >= Release]_vars

\* In production the call comes before the link, in whatever order runs, restarts and
\* the owner's routes come.
CallBeforeLink == [][JobIssueLink /\ workflow = "production" => run.returned \/ callSent]_vars

\* What nomineesNotified means to the job, "Skip if nominees have already been notified (cycle
\* complete)": a link was issued in this absence.  A login between the link and the mark leaves
\* the mark to the next absence.
NotifiedHasLink == notified => links > 0

\* An owner who is gone for good is logged out and the nominees have a link, through failed
\* mails, failed calls and restarts.  Only a mark that a run set over the owner's last login
\* keeps the job away for ever.
GoneOwnerNoticed ==
  ~alive ~> \/ logoutTime # None /\ links > 0 /\ notified
            \/ "nomineesNotified" \in overran
=============================================================================
