------------------------- MODULE SchedulerJobs_proofs -------------------------
(***************************************************************************)
(* Proofs about the two components driven by jobs of lib/scheduler.py, the *)
(* dead man's switch and billing.                                          *)
(*                                                                         *)
(* The switch, for every waiting period and duration and any number of     *)
(* restarts.  The job decides from a copy of the owner's document, and the *)
(* owner may write between the copy and the decision's effect: the         *)
(* invariant says, step by step, how old the copy can be (Copied) and      *)
(* which of the job's conditions it satisfied (Decided).  Reminders are    *)
(* bounded since each lies a tick behind the last (Spaced), and each that  *)
(* left is counted but for one per restart.  The absence is measured from  *)
(* the owner's last login, logout or heartbeat (Measured) until a job has  *)
(* written over a later one.                                               *)
(*                                                                         *)
(* Billing, for any number of coroutines, replicas, requests and           *)
(* subscriptions.  The invariant says what each coroutine holds between    *)
(* its writes (Shaped, Invoiced) and, until two of them write from what    *)
(* both had read, that each approved request has one subscription or one   *)
(* approval that will make it (OwnRequest, Bought, Delivered), that one    *)
(* approval at a time replaces what is active (OneActive), and that a      *)
(* wrong plan is about to be written by an approval or a job (PlanOwed).   *)
(***************************************************************************)
EXTENDS DeadMansSwitch, Billing, FiniteSetTheorems, TLAPS

USE SwitchAssumption

-----------------------------------------------------------------------------
(* The dead man's switch                                                   *)

Deciding == {"mail", "countMail", "call", "notify", "mark"}
Mailing == {"call", "mail", "countMail"}

\* n reminders so far, the last g ticks ago, in an absence of a ticks: at most one per tick
\* of the time for reminders, and another one.
Paced(n, g, a) == a < Release => n <= 1 \/ n + g + WaitPeriod <= a + 2

\* What the job read is what the document still says, only older, or the owner is back.
Copied ==
  run.step \in Deciding =>
    /\ messagesSent <= run.messages
    /\ run.step \in Mailing /\ workflow = "production" =>
         messagesSent = 0 \/ run.elapsed <= logoutTime
    /\ run.returned \/ (run.elapsed <= logoutTime /\ logoutTime <= MaxAge)

\* The conditions of the steps the run goes through.
Decided ==
  /\ run.step \in Deciding \cup {"read"} => ~notified
  /\ run.step \in {"mail", "countMail"} => MailDue(run)
  /\ run.step = "call" => workflow # "twoMinute"
  /\ run.step \in {"notify", "mark"} => NotifyDue(run)
  /\ run.step \in {"mail", "countMail", "notify"} /\ workflow = "production" =>
       run.returned \/ callSent \/ run.elapsed < WaitPeriod
  /\ run.step \in Mailing /\ workflow = "production" => Paced(run.messages, run.gap, run.elapsed)

Spaced == workflow = "production" => Paced(messagesSent, lastMessageAt, logoutTime)

Counted ==
  /\ mails <= messagesSent + crashes + IF run.step = "countMail" THEN 1 ELSE 0
  /\ links <= crashes + IF run.step = "mark" \/ notified THEN 1 ELSE 0

WInv == TypeOK /\ Copied /\ Decided /\ Spaced /\ Counted

\* What an absence is measured from.
Measured ==
  /\ run.step = "autoLogout" => run.returned \/ run.elapsed = lastActive
  /\ logoutTime = None \/ "logoutTime" \in overran \/ logoutTime = lastActive

Overruns == {"logoutTime", "nomineesNotified"}
RunSet == [step : {"sleep", "autoLogout", "findAbsent", "read", "mail", "countMail", "call",
                   "notify", "mark"},
           elapsed : Age, messages : 0 .. MaxReminders, called : BOOLEAN, gap : Age,
           returned : BOOLEAN]

LEMMA Limits ==
  ASSUME workflow \in Workflows
  PROVE  /\ {Release, Reminders, MaxReminders, JobPeriod, AutoLogout} \subseteq Nat
         /\ MaxAge = Release + 1 /\ None = Release + 2 /\ Age = 0 .. Release + 2
         /\ workflow = "production" => Release = WaitPeriod + Duration /\ MaxReminders = Duration + 1
         /\ workflow # "production" => MaxReminders = Reminders
<1>1. {Release, Reminders, JobPeriod, AutoLogout} \subseteq Nat
  BY DEF Workflows, Release, Reminders, JobPeriod, AutoLogout
<1>2. workflow = "production" => Release = WaitPeriod + Duration /\ MaxReminders = Duration + 1
  BY DEF Release, Reminders, MaxReminders
<1>3. workflow # "production" => MaxReminders = Reminders
  BY DEF MaxReminders
<1>4. MaxReminders \in Nat
  BY <1>1, <1>3, <1>2
<1> QED BY <1>1, <1>2, <1>3, <1>4 DEF MaxAge, None, Age

LEMMA SameLimits ==
  ASSUME workflow' = workflow
  PROVE  /\ Release' = Release /\ MaxReminders' = MaxReminders /\ MaxAge' = MaxAge /\ Age' = Age
         /\ JobPeriod' = JobPeriod /\ None' = None /\ RunSet' = RunSet
         /\ \A r : (MailDue(r)' = MailDue(r)) /\ (NotifyDue(r)' = NotifyDue(r))
<1>1. Release' = Release /\ Reminders' = Reminders /\ JobPeriod' = JobPeriod
  BY DEF Release, Reminders, JobPeriod
<1>2. MaxReminders' = MaxReminders /\ MaxAge' = MaxAge
  BY <1>1 DEF MaxReminders, MaxAge
<1>3. None' = None
  BY <1>2 DEF None
<1>4. Age' = Age
  BY <1>3 DEF Age
<1>5. RunSet' = RunSet
  BY <1>2, <1>4 DEF RunSet
<1>6. ASSUME NEW r PROVE (MailDue(r)' = MailDue(r)) /\ (NotifyDue(r)' = NotifyDue(r))
  BY <1>1 DEF MailDue, NotifyDue
<1> QED BY <1>1, <1>2, <1>3, <1>4, <1>5, <1>6

-----------------------------------------------------------------------------
(* Where a run goes on                                                     *)

LEMMA LeastOfThree ==
  ASSUME NEW S, S \subseteq 1 .. 3, S # {}
  PROVE  \E i \in S : \A j \in S : i <= j
<1>1. CASE 1 \in S
  BY <1>1
<1>2. CASE 1 \notin S /\ 2 \in S
  <2>1. \A j \in S : 2 <= j
    BY <1>2
  <2> QED BY <1>2, <2>1
<1>3. CASE 1 \notin S /\ 2 \notin S
  <2>1. \A j \in S : j = 3
    BY <1>3
  <2>2. PICK i \in S : TRUE
    OBVIOUS
  <2> QED BY <2>1, <2>2
<1> QED BY <1>1, <1>2, <1>3

\* The first step due, if any.
LEMMA Ahead ==
  ASSUME NEW r, NEW n \in 0 .. 3, Len(Order) \in 2 .. 3
  PROVE  \/ GoOn(r, n) = Sleeping
         \/ \E i \in (n + 1) .. Len(Order) :
              /\ Due(Order[i], r) /\ GoOn(r, n) = [r EXCEPT !.step = Order[i]]
              /\ \A j \in (n + 1) .. Len(Order) : Due(Order[j], r) => i <= j
<1> DEFINE due == {i \in (n + 1) .. Len(Order) : Due(Order[i], r)}
           first == CHOOSE i \in due : \A j \in due : i <= j
<1>1. CASE due = {}
  BY <1>1 DEF GoOn
<1>2. CASE due # {}
  <2>1. due \subseteq 1 .. 3
    OBVIOUS
  <2>2. \E i \in due : \A j \in due : i <= j
    <3> HIDE DEF due
    <3> QED BY <1>2, <2>1, LeastOfThree
  <2>3. first \in due /\ \A j \in due : first <= j
    <3> HIDE DEF due
    <3> QED BY <2>2
  <2>4. GoOn(r, n) = [r EXCEPT !.step = Order[first]]
    BY <1>2 DEF GoOn
  <2> HIDE DEF first
  <2> QED BY <2>3, <2>4
<1> QED BY <1>1, <1>2

LEMMA Orders ==
  /\ workflow = "twoMinute" => Order = <<"mail", "notify">>
  /\ workflow = "fiveMinute" => Order = <<"mail", "call", "notify">>
  /\ workflow = "production" => Order = <<"call", "mail", "notify">>
BY DEF Order

LEMMA Positions ==
  ASSUME workflow \in Workflows
  PROVE  /\ Len(Order) \in 2 .. 3
         /\ Position("mail") = IF workflow = "production" THEN 2 ELSE 1
         /\ workflow # "twoMinute" => Position("call") = IF workflow = "production" THEN 1 ELSE 2
<1>1. CASE workflow = "twoMinute"
  <2>1. Order = <<"mail", "notify">>
    BY <1>1, Orders
  <2>2. Len(Order) = 2 /\ Order[1] = "mail" /\ Order[2] # "mail"
    BY <2>1
  <2>3. \E i \in 1 .. Len(Order) : Order[i] = "mail"
    BY <2>2
  <2>4. Position("mail") \in 1 .. 2 /\ Order[Position("mail")] = "mail"
    BY <2>2, <2>3 DEF Position
  <2> QED BY <1>1, <2>2, <2>4
<1>2. CASE workflow = "fiveMinute"
  <2>1. Order = <<"mail", "call", "notify">>
    BY <1>2, Orders
  <2>2. Len(Order) = 3 /\ Order[1] = "mail" /\ Order[2] = "call" /\ Order[3] = "notify"
    BY <2>1
  <2>3. \E i \in 1 .. Len(Order) : Order[i] = "mail"
    BY <2>2
  <2>4. Position("mail") \in 1 .. 3 /\ Order[Position("mail")] = "mail"
    BY <2>2, <2>3 DEF Position
  <2>5. \E i \in 1 .. Len(Order) : Order[i] = "call"
    BY <2>2
  <2>6. Position("call") \in 1 .. 3 /\ Order[Position("call")] = "call"
    BY <2>2, <2>5 DEF Position
  <2>7. Position("mail") = 1
    BY <2>2, <2>4
  <2>8. Position("call") = 2
    BY <2>2, <2>6
  <2> QED BY <1>2, <2>2, <2>7, <2>8
<1>3. CASE workflow = "production"
  <2>1. Order = <<"call", "mail", "notify">>
    BY <1>3, Orders
  <2>2. Len(Order) = 3 /\ Order[1] = "call" /\ Order[2] = "mail" /\ Order[3] = "notify"
    BY <2>1
  <2>3. \E i \in 1 .. Len(Order) : Order[i] = "mail"
    BY <2>2
  <2>4. Position("mail") \in 1 .. 3 /\ Order[Position("mail")] = "mail"
    BY <2>2, <2>3 DEF Position
  <2>5. \E i \in 1 .. Len(Order) : Order[i] = "call"
    BY <2>2
  <2>6. Position("call") \in 1 .. 3 /\ Order[Position("call")] = "call"
    BY <2>2, <2>5 DEF Position
  <2>7. Position("mail") = 2
    BY <2>2, <2>4
  <2>8. Position("call") = 1
    BY <2>2, <2>6
  <2> QED BY <1>3, <2>2, <2>7, <2>8
<1> QED BY <1>1, <1>2, <1>3 DEF Workflows

\* From the read: the call comes first in production.
LEMMA FromRead ==
  ASSUME workflow \in Workflows, NEW r
  PROVE  \/ GoOn(r, 0) = Sleeping
         \/ \E s \in {"mail", "call", "notify"} :
              /\ GoOn(r, 0) = [r EXCEPT !.step = s] /\ Due(s, r)
              /\ workflow = "production" /\ s # "call" => ~CallDue(r)
              /\ s = "call" => workflow # "twoMinute"
<1>1. SUFFICES ASSUME GoOn(r, 0) # Sleeping
               PROVE  \E s \in {"mail", "call", "notify"} :
                        /\ GoOn(r, 0) = [r EXCEPT !.step = s] /\ Due(s, r)
                        /\ workflow = "production" /\ s # "call" => ~CallDue(r)
                        /\ s = "call" => workflow # "twoMinute"
  OBVIOUS
<1>2. PICK i \in 1 .. Len(Order) : /\ Due(Order[i], r) /\ GoOn(r, 0) = [r EXCEPT !.step = Order[i]]
                                   /\ \A j \in 1 .. Len(Order) : Due(Order[j], r) => i <= j
  BY <1>1, Positions, Ahead
<1>3. CASE workflow # "production"
  <2>1. Order[i] \in {"mail", "call", "notify"} /\ (Order[i] = "call" => workflow # "twoMinute")
    BY <1>3, Orders DEF Workflows
  <2> QED BY <1>2, <1>3, <2>1
<1>4. CASE workflow = "production"
  <2>1. Order = <<"call", "mail", "notify">>
    BY <1>4, Orders
  <2>2. Len(Order) = 3 /\ Order[1] = "call" /\ Order[2] = "mail" /\ Order[3] = "notify"
    BY <2>1
  <2>3. Due("call", r) => i = 1
    BY <1>2, <2>2
  <2>4. Order[i] \in {"mail", "call", "notify"} /\ (Order[i] # "call" => ~Due("call", r))
    BY <2>2, <2>3
  <2>5. CallDue(r) => Due("call", r)
    BY DEF Due
  <2>6. Order[i] # "call" => ~CallDue(r)
    BY <2>4, <2>5
  <2> QED BY <1>2, <1>4, <2>4, <2>6
<1> QED BY <1>3, <1>4

\* After a mail comes the call in the five-minute workflow, then the links.
LEMMA FromMail ==
  ASSUME workflow \in Workflows, NEW r
  PROVE  \/ GoOn(r, Position("mail")) = Sleeping
         \/ \E s \in {"call", "notify"} :
              /\ GoOn(r, Position("mail")) = [r EXCEPT !.step = s] /\ Due(s, r)
              /\ s = "call" => workflow = "fiveMinute"
<1> DEFINE n == Position("mail")
<1>1. n \in 1 .. 2 /\ Len(Order) \in 2 .. 3 /\ (workflow = "production" => n = 2)
      /\ (workflow # "production" => n = 1)
  BY Positions
<1> HIDE DEF n
<1>2. SUFFICES ASSUME GoOn(r, n) # Sleeping
               PROVE  \E s \in {"call", "notify"} :
                        /\ GoOn(r, n) = [r EXCEPT !.step = s] /\ Due(s, r)
                        /\ s = "call" => workflow = "fiveMinute"
  BY DEF n
<1>3. PICK i \in (n + 1) .. Len(Order) : Due(Order[i], r) /\ GoOn(r, n) = [r EXCEPT !.step = Order[i]]
  BY <1>1, <1>2, Ahead
<1>4. Order[i] \in {"call", "notify"} /\ (Order[i] = "call" => workflow = "fiveMinute")
  BY <1>1, <1>3, Orders DEF Workflows
<1> QED BY <1>3, <1>4

\* A call is made in two workflows; in production a mail may follow.
LEMMA FromCall ==
  ASSUME workflow \in Workflows, workflow # "twoMinute", NEW r
  PROVE  \/ GoOn(r, Position("call")) = Sleeping
         \/ \E s \in {"mail", "notify"} :
              /\ GoOn(r, Position("call")) = [r EXCEPT !.step = s] /\ Due(s, r)
              /\ s = "mail" => workflow = "production"
<1> DEFINE n == Position("call")
<1>1. n \in 1 .. 2 /\ Len(Order) \in 2 .. 3 /\ (workflow = "production" => n = 1)
      /\ (workflow # "production" => n = 2)
  BY Positions
<1> HIDE DEF n
<1>2. SUFFICES ASSUME GoOn(r, n) # Sleeping
               PROVE  \E s \in {"mail", "notify"} :
                        /\ GoOn(r, n) = [r EXCEPT !.step = s] /\ Due(s, r)
                        /\ s = "mail" => workflow = "production"
  BY DEF n
<1>3. PICK i \in (n + 1) .. Len(Order) : Due(Order[i], r) /\ GoOn(r, n) = [r EXCEPT !.step = Order[i]]
  BY <1>1, <1>2, Ahead
<1>4. Order[i] \in {"mail", "notify"} /\ (Order[i] = "mail" => workflow = "production")
  BY <1>1, <1>3, Orders DEF Workflows
<1> QED BY <1>3, <1>4

-----------------------------------------------------------------------------
(* The owner's side, time and restarts                                     *)

LEMMA Typed ==
  ASSUME WInv
  PROVE  /\ workflow \in Workflows /\ run \in RunSet
         /\ lastActive \in 0 .. MaxAge /\ logoutTime \in Age /\ lastMessageAt \in Age
         /\ messagesSent \in 0 .. MaxReminders /\ mails \in Nat /\ links \in Nat /\ crashes \in Nat
         /\ run.elapsed \in Nat /\ run.messages \in Nat /\ run.gap \in Nat
         /\ logoutTime \in Nat /\ lastMessageAt \in Nat /\ messagesSent \in Nat
         /\ overran \subseteq Overruns
<1>1. workflow \in Workflows
  BY DEF WInv, TypeOK
<1> QED BY <1>1, Limits DEF WInv, TypeOK, RunSet, Overruns

LEMMA StillTyped ==
  ASSUME WInv, workflow' = workflow, run' \in RunSet,
         lastActive' \in 0 .. MaxAge, logoutTime' \in Age, lastMessageAt' \in Age,
         {callSent', notified', isVerified', session', alive', heartbeat'} \subseteq BOOLEAN,
         messagesSent' \in 0 .. MaxReminders, sinceRun' \in 0 .. JobPeriod,
         mails' \in 0 .. MaxReminders + MaxCrashes, links' \in Nat, crashes' \in 0 .. MaxCrashes,
         overran' \subseteq Overruns
  PROVE  TypeOK'
<1>1. /\ MaxReminders' = MaxReminders /\ MaxAge' = MaxAge /\ Age' = Age /\ JobPeriod' = JobPeriod
      /\ RunSet' = RunSet
  BY SameLimits
<1>2. run' \in RunSet'
  BY <1>1
<1> QED BY <1>1, <1>2, Typed DEF TypeOK, RunSet, Overruns

\* A write of the owner starts a new absence, or none; the run goes on with its old copy.
LEMMA OwnerBack ==
  ASSUME WInv, OwnerWrites, ~callSent', messagesSent' = 0, lastMessageAt' = None, ~notified',
         logoutTime' \in {None, 0}, lastActive' \in {0, lastActive},
         {callSent', notified', isVerified', session', alive', heartbeat'} \subseteq BOOLEAN
  PROVE  WInv'
<1>1. /\ workflow' = workflow /\ run' = [run EXCEPT !.returned = TRUE] /\ mails' = 0 /\ links' = 0
      /\ UNCHANGED <<sinceRun, crashes>> /\ overran' = {}
  BY DEF OwnerWrites, NewAbsence
<1>2. /\ run' \in RunSet /\ run'.returned /\ run'.step = run.step /\ run'.elapsed = run.elapsed
      /\ run'.messages = run.messages /\ run'.gap = run.gap
  BY <1>1, Typed DEF RunSet
<1>3. TypeOK'
  <2>1. /\ 0 \in 0 .. MaxAge /\ {0, None} \subseteq Age /\ 0 \in 0 .. MaxReminders
        /\ 0 \in 0 .. MaxReminders + MaxCrashes
    <3>1. Release \in Nat /\ MaxReminders \in Nat /\ MaxCrashes \in Nat
      BY Typed, Limits
    <3>2. MaxAge = Release + 1 /\ None = Release + 2 /\ Age = 0 .. Release + 2
      BY Typed, Limits
    <3> QED BY <3>1, <3>2
  <2>2. sinceRun \in 0 .. JobPeriod /\ crashes \in 0 .. MaxCrashes /\ lastActive \in 0 .. MaxAge
    BY DEF WInv, TypeOK
  <2> QED BY <1>1, <1>2, <2>1, <2>2, StillTyped
<1>4. Copied'
  BY <1>2, Typed DEF Copied
<1>5. MailDue(run)' = MailDue(run) /\ NotifyDue(run)' = NotifyDue(run)
  BY <1>1, <1>2, SameLimits DEF MailDue, NotifyDue
<1>6. Decided'
  BY <1>1, <1>2, <1>5, SameLimits DEF WInv, Decided, Paced
<1>7. Spaced' /\ Counted'
  BY <1>1, Typed DEF Spaced, Paced, Counted
<1> QED BY <1>3, <1>4, <1>6, <1>7 DEF WInv

LEMMA OwnerKeeps ==
  ASSUME WInv, Login \/ HeartbeatRead \/ HeartbeatWrite \/ UpdateProfile \/ VerifyEmail \/ Logout \/ Die
  PROVE  WInv'
<1>1. {callSent, notified, isVerified, session, alive, heartbeat} \subseteq BOOLEAN
  BY DEF WInv, TypeOK
<1>2. CASE Login
  BY <1>1, <1>2, OwnerBack DEF Login, ResetReengagement, OwnerWrites
<1>3. CASE HeartbeatWrite
  BY <1>1, <1>3, OwnerBack DEF HeartbeatWrite, ResetReengagement, OwnerWrites
<1>4. CASE UpdateProfile
  BY <1>1, <1>4, OwnerBack DEF UpdateProfile, ResetReengagement, OwnerWrites
<1>5. CASE VerifyEmail
  BY <1>1, <1>5, OwnerBack DEF VerifyEmail, ResetReengagement, OwnerWrites
<1>6. CASE Logout
  BY <1>1, <1>6, OwnerBack DEF Logout, OwnerWrites
<1>7. CASE HeartbeatRead \/ Die
  <2>1. /\ UNCHANGED <<workflow, lastActive, fields, isVerified, session, sinceRun, run, mails, links, crashes, overran>>
        /\ {alive', heartbeat'} \subseteq BOOLEAN
    BY <1>1, <1>7 DEF HeartbeatRead, Die, client
  <2>2. /\ UNCHANGED <<workflow, lastActive, logoutTime, callSent, messagesSent, lastMessageAt, notified>>
        /\ UNCHANGED <<isVerified, session, sinceRun, run, mails, links, crashes, overran>>
    BY <2>1 DEF fields
  <2>3. TypeOK'
    <3>1. /\ lastActive \in 0 .. MaxAge /\ sinceRun \in 0 .. JobPeriod /\ run \in RunSet
          /\ mails \in 0 .. MaxReminders + MaxCrashes /\ crashes \in 0 .. MaxCrashes
      BY DEF WInv, TypeOK, RunSet
    <3> QED BY <1>1, <2>1, <2>2, <3>1, Typed, StillTyped
  <2>4. MailDue(run)' = MailDue(run) /\ NotifyDue(run)' = NotifyDue(run) /\ MaxAge' = MaxAge
        /\ Release' = Release
    BY <2>2, SameLimits DEF MailDue, NotifyDue
  <2> QED BY <2>2, <2>3, <2>4 DEF WInv, Copied, Decided, Spaced, Counted, Paced
<1> QED BY <1>2, <1>3, <1>4, <1>5, <1>6, <1>7

\* Ages grow together, up to their cap.
LEMMA Aged ==
  ASSUME workflow \in Workflows, NEW a \in Age
  PROVE  /\ Older(a) \in Age /\ a <= Older(a) /\ Older(a) <= a + 1
         /\ a <= MaxAge => Older(a) <= MaxAge
         /\ Older(a) < Release => Older(a) = a + 1
<1>1. /\ Release \in Nat /\ MaxAge = Release + 1 /\ Age = 0 .. Release + 2 /\ a \in 0 .. Release + 2
  BY Limits
<1> QED BY <1>1 DEF Older

LEMMA TickKeeps == ASSUME WInv, Tick PROVE WInv'
<1>1. /\ UNCHANGED <<workflow, callSent, messagesSent, notified, isVerified, alive, heartbeat, mails, links, crashes>>
      /\ overran' = overran
      /\ lastActive' = Older(lastActive) /\ logoutTime' = Older(logoutTime)
      /\ lastMessageAt' = Older(lastMessageAt)
      /\ sinceRun < JobPeriod /\ sinceRun' = sinceRun + 1 /\ session' \in {session, FALSE}
      /\ run' = IF run.step = "autoLogout" THEN [run EXCEPT !.elapsed = Older(@)] ELSE run
  BY DEF Tick
<1>2. /\ Release \in Nat /\ JobPeriod \in Nat /\ MaxAge = Release + 1 /\ Age = 0 .. Release + 2
  BY Typed, Limits
<1>3. /\ logoutTime' \in Age /\ logoutTime <= logoutTime' /\ (logoutTime <= MaxAge => logoutTime' <= MaxAge)
      /\ (logoutTime' < Release => logoutTime' = logoutTime + 1)
      /\ lastMessageAt' \in Age /\ lastMessageAt' <= lastMessageAt + 1
      /\ logoutTime' \in Nat /\ lastMessageAt' \in Nat
  <2>1. workflow \in Workflows /\ logoutTime \in Age /\ lastMessageAt \in Age
    BY Typed
  <2>2. /\ Older(logoutTime) \in Age /\ logoutTime <= Older(logoutTime)
        /\ logoutTime <= MaxAge => Older(logoutTime) <= MaxAge
        /\ Older(logoutTime) < Release => Older(logoutTime) = logoutTime + 1
    BY <2>1, Aged
  <2>3. Older(lastMessageAt) \in Age /\ Older(lastMessageAt) <= lastMessageAt + 1
    BY <2>1, Aged
  <2>4. Age \subseteq Nat
    BY <1>2
  <2> QED BY <1>1, <2>2, <2>3, <2>4
<1>4. lastActive' \in 0 .. MaxAge
  <2>1. workflow \in Workflows /\ lastActive \in 0 .. MaxAge
    BY Typed
  <2>2. lastActive \in Age /\ lastActive <= MaxAge
    BY <1>2, <2>1
  <2>3. Older(lastActive) \in Age /\ Older(lastActive) <= MaxAge
    BY <2>1, <2>2, Aged
  <2> QED BY <1>1, <1>2, <2>3
<1>5. run' \in RunSet /\ run'.step = run.step /\ (run.step # "autoLogout" => run' = run)
  BY <1>1, Typed, Aged DEF RunSet
<1>6. TypeOK'
  <2>1. /\ sinceRun \in 0 .. JobPeriod /\ {callSent, notified, isVerified, session, alive, heartbeat} \subseteq BOOLEAN
        /\ mails \in 0 .. MaxReminders + MaxCrashes /\ crashes \in 0 .. MaxCrashes
    BY DEF WInv, TypeOK
  <2>2. sinceRun' \in 0 .. JobPeriod
    BY <1>1, <1>2, <2>1
  <2> QED BY <1>1, <1>3, <1>4, <1>5, <2>1, <2>2, Typed, StillTyped
<1>7. Release' = Release /\ MaxAge' = MaxAge
  BY <1>1, SameLimits
<1>8. Copied'
  <2>1. CASE run.step \in Deciding
    <3>1. run' = run
      BY <1>5, <2>1 DEF Deciding
    <3>2. run.elapsed \in Nat /\ logoutTime \in Nat /\ logoutTime' \in Nat
      BY <1>3, Typed
    <3>3. run.elapsed <= logoutTime => run.elapsed <= logoutTime'
      BY <1>3, <3>2
    <3> QED BY <1>1, <1>3, <1>7, <2>1, <3>1, <3>3 DEF WInv, Copied
  <2>2. CASE run.step \notin Deciding
    BY <1>5, <2>2 DEF Copied
  <2> QED BY <2>1, <2>2
<1>9. Decided'
  <2>1. CASE run.step = "autoLogout"
    BY <1>5, <2>1 DEF Decided, Deciding, Mailing
  <2>2. CASE run.step # "autoLogout"
    <3>1. run' = run
      BY <1>5, <2>2
    <3>2. MailDue(run)' = MailDue(run) /\ NotifyDue(run)' = NotifyDue(run)
      BY <1>1, <3>1, SameLimits DEF MailDue, NotifyDue
    <3> QED BY <1>1, <1>7, <3>1, <3>2 DEF WInv, Decided, Paced
  <2> QED BY <2>1, <2>2
<1>10. Spaced'
  <2> SUFFICES ASSUME workflow = "production", logoutTime' < Release
               PROVE  messagesSent <= 1 \/ messagesSent + lastMessageAt' + WaitPeriod <= logoutTime' + 2
    BY <1>1, <1>7 DEF Spaced, Paced
  <2>1. logoutTime' = logoutTime + 1 /\ lastMessageAt' <= lastMessageAt + 1
    BY <1>3
  <2>2. /\ logoutTime \in Nat /\ lastMessageAt \in Nat /\ messagesSent \in Nat
        /\ logoutTime' \in Nat /\ lastMessageAt' \in Nat
    BY <1>3, Typed
  <2>3. messagesSent <= 1 \/ messagesSent + lastMessageAt + WaitPeriod <= logoutTime + 2
    BY <1>2, <2>1, <2>2 DEF WInv, Spaced, Paced
  <2> QED BY <2>1, <2>2, <2>3
<1>11. Counted'
  BY <1>1, <1>5 DEF WInv, Counted
<1> QED BY <1>6, <1>8, <1>9, <1>10, <1>11 DEF WInv

LEMMA Asleep ==
  ASSUME WInv
  PROVE  /\ [Sleeping EXCEPT !.step = "findAbsent"] \in RunSet /\ Sleeping \in RunSet
         /\ [Sleeping EXCEPT !.step = "read"] \in RunSet
         /\ \A a \in Age : [Sleeping EXCEPT !.step = "autoLogout", !.elapsed = a] \in RunSet
<1>1. /\ 0 \in 0 .. MaxReminders /\ 0 \in Age
  <2>1. Release \in Nat /\ MaxReminders \in Nat /\ Age = 0 .. Release + 2
    BY Typed, Limits
  <2> QED BY <2>1
<1> QED BY <1>1 DEF Sleeping, RunSet

LEMMA CrashKeeps == ASSUME WInv, Crash PROVE WInv'
<1>1. /\ UNCHANGED <<workflow, lastActive, logoutTime, callSent, messagesSent, lastMessageAt, notified>>
      /\ UNCHANGED <<isVerified, session, alive, mails, links, overran>>
      /\ crashes < MaxCrashes /\ crashes' = crashes + 1 /\ run' = Sleeping /\ heartbeat' = FALSE /\ sinceRun' = 0
  BY DEF Crash, fields, client
<1>2. run'.step = "sleep"
  BY <1>1 DEF Sleeping
<1>3. TypeOK'
  <2>1. /\ {callSent, notified, isVerified, session, alive, heartbeat} \subseteq BOOLEAN
        /\ mails \in 0 .. MaxReminders + MaxCrashes /\ crashes \in 0 .. MaxCrashes
    BY DEF WInv, TypeOK
  <2>2. sinceRun' \in 0 .. JobPeriod /\ crashes' \in 0 .. MaxCrashes
    <3>1. JobPeriod \in Nat /\ MaxCrashes \in Nat
      BY Typed, Limits
    <3> QED BY <1>1, <2>1, <3>1
  <2> QED BY <1>1, <2>1, <2>2, Asleep, Typed, StillTyped
<1>4. Copied' /\ Decided'
  BY <1>2 DEF Copied, Decided, Deciding, Mailing
<1>5. Spaced'
  BY <1>1, SameLimits DEF WInv, Spaced, Paced
<1>6. Counted'
  BY <1>1, <1>2, Typed DEF WInv, Counted
<1> QED BY <1>3, <1>4, <1>5, <1>6 DEF WInv

-----------------------------------------------------------------------------
(* The job                                                                 *)

LEMMA JobTyped ==
  ASSUME WInv, UNCHANGED <<ownerSide, lastActive>>, sinceRun' \in {0, sinceRun}, run' \in RunSet,
         logoutTime' \in Age, lastMessageAt' \in Age, {callSent', notified'} \subseteq BOOLEAN,
         messagesSent' \in 0 .. MaxReminders, mails' \in 0 .. MaxReminders + MaxCrashes, links' \in Nat,
         overran' \subseteq overran \cup Overruns
  PROVE  TypeOK' /\ workflow' = workflow /\ crashes' = crashes
<1>1. /\ UNCHANGED <<workflow, isVerified, session, alive, heartbeat, crashes>>
      /\ {isVerified, session, alive, heartbeat} \subseteq BOOLEAN
      /\ sinceRun \in 0 .. JobPeriod /\ crashes \in 0 .. MaxCrashes
  BY DEF ownerSide, client, WInv, TypeOK
<1>2. sinceRun' \in 0 .. JobPeriod
  <2>1. JobPeriod \in Nat
    BY Typed, Limits
  <2> QED BY <1>1, <2>1
<1>3. lastActive' \in 0 .. MaxAge /\ overran' \subseteq Overruns
  BY Typed
<1> QED BY <1>1, <1>2, <1>3, StillTyped

LEMMA JobPlain ==
  ASSUME WInv
  PROVE  /\ {callSent, notified} \subseteq BOOLEAN /\ mails \in 0 .. MaxReminders + MaxCrashes
         /\ 0 \in 0 .. MaxReminders /\ 0 \in 0 .. MaxReminders + MaxCrashes /\ None \in Age /\ 0 \in Age
<1>1. Release \in Nat /\ MaxReminders \in Nat /\ None = Release + 2 /\ Age = 0 .. Release + 2
  BY Typed, Limits
<1> QED BY <1>1 DEF WInv, TypeOK

LEMMA Undecided ==
  ASSUME run'.step \notin Deciding \cup {"read"}
  PROVE  Copied' /\ Decided'
BY DEF Copied, Decided, Deciding, Mailing

LEMMA SearchKeeps ==
  ASSUME WInv, JobFindActive \/ JobAutoLogout \/ JobFindAbsent \/ JobMarkNotified
  PROVE  WInv'
<1>1. CASE JobFindActive
  <2>1. /\ UNCHANGED <<lastActive, logoutTime, callSent, messagesSent, lastMessageAt, notified>>
        /\ UNCHANGED <<ownerSide, mails, links, overran>> /\ sinceRun' = 0 /\ run.step = "sleep"
        /\ run' \in {[Sleeping EXCEPT !.step = "autoLogout", !.elapsed = lastActive],
                     [Sleeping EXCEPT !.step = "findAbsent"]}
    BY <1>1 DEF JobFindActive, fields
  <2>2. lastActive \in Age
    <3>1. Release \in Nat /\ MaxAge = Release + 1 /\ Age = 0 .. Release + 2
      BY Typed, Limits
    <3> QED BY <3>1, Typed
  <2>3. run' \in RunSet /\ run'.step \in {"autoLogout", "findAbsent"}
    BY <2>1, <2>2, Asleep DEF Sleeping
  <2>4. TypeOK' /\ workflow' = workflow /\ crashes' = crashes
    BY <2>1, <2>3, JobPlain, Typed, JobTyped
  <2>5. Copied' /\ Decided'
    BY <2>3, Undecided DEF Deciding
  <2>6. Spaced' /\ Counted'
    BY <2>1, <2>3, <2>4, SameLimits, Typed DEF WInv, Spaced, Paced, Counted
  <2> QED BY <2>4, <2>5, <2>6 DEF WInv
<1>2. CASE JobAutoLogout
  <2>1. /\ UNCHANGED <<lastActive, notified, ownerSide, sinceRun>>
        /\ logoutTime' = run.elapsed /\ callSent' = FALSE /\ messagesSent' = 0 /\ lastMessageAt' = None
        /\ mails' = 0 /\ links' = 0 /\ run' = [Sleeping EXCEPT !.step = "findAbsent"]
        /\ overran' \subseteq Overruns
    BY <1>2 DEF JobAutoLogout, NewAbsence, Overruns
  <2>2. run' \in RunSet /\ run'.step = "findAbsent" /\ run.elapsed \in Age
    BY <2>1, Asleep, Typed DEF Sleeping, RunSet
  <2>3. TypeOK' /\ workflow' = workflow /\ crashes' = crashes
    BY <2>1, <2>2, JobPlain, JobTyped
  <2>4. Copied' /\ Decided'
    BY <2>2, Undecided DEF Deciding
  <2>5. Spaced' /\ Counted'
    BY <2>1, <2>2, <2>3, Typed DEF Spaced, Paced, Counted
  <2> QED BY <2>3, <2>4, <2>5 DEF WInv
<1>3. CASE JobFindAbsent
  <2>1. /\ UNCHANGED <<lastActive, logoutTime, callSent, messagesSent, lastMessageAt, notified>>
        /\ UNCHANGED <<ownerSide, mails, links, sinceRun, overran>> /\ run.step = "findAbsent"
        /\ run' = IF Absent THEN [Sleeping EXCEPT !.step = "read"] ELSE Sleeping
    BY <1>3 DEF JobFindAbsent, fields
  <2>2. run' \in RunSet /\ run'.step \in {"sleep", "read"} /\ (run'.step = "read" => ~notified)
    BY <2>1, Asleep DEF Sleeping, Absent
  <2>3. TypeOK' /\ workflow' = workflow /\ crashes' = crashes
    BY <2>1, <2>2, JobPlain, Typed, JobTyped
  <2>4. Copied' /\ Decided'
    BY <2>1, <2>2 DEF Copied, Decided, Deciding, Mailing
  <2>5. Spaced' /\ Counted'
    BY <2>1, <2>2, <2>3, SameLimits, Typed DEF WInv, Spaced, Paced, Counted
  <2> QED BY <2>3, <2>4, <2>5 DEF WInv
<1>4. CASE JobMarkNotified
  <2>1. /\ UNCHANGED <<lastActive, logoutTime, callSent, messagesSent, lastMessageAt>>
        /\ UNCHANGED <<ownerSide, mails, links, sinceRun>> /\ run.step = "mark"
        /\ run' = Sleeping /\ notified' = TRUE /\ overran' \subseteq overran \cup Overruns
    BY <1>4 DEF JobMarkNotified, Overruns
  <2>2. run' \in RunSet /\ run'.step = "sleep"
    BY <2>1, Asleep DEF Sleeping
  <2>3. TypeOK' /\ workflow' = workflow /\ crashes' = crashes
    BY <2>1, <2>2, JobPlain, Typed, JobTyped
  <2>4. Copied' /\ Decided'
    BY <2>2, Undecided DEF Deciding
  <2>5. Spaced' /\ Counted'
    BY <2>1, <2>2, <2>3, SameLimits, Typed DEF WInv, Spaced, Paced, Counted
  <2> QED BY <2>3, <2>4, <2>5 DEF WInv
<1> QED BY <1>1, <1>2, <1>3, <1>4

\* The reminder under way is within the limit.
LEMMA RoomForMail ==
  ASSUME WInv, run.step \in {"mail", "countMail"}
  PROVE  run.messages + 1 <= MaxReminders /\ messagesSent + 1 <= MaxReminders
<1>1. messagesSent <= run.messages /\ MailDue(run)
  BY DEF WInv, Copied, Decided, Deciding
<1>2. run.messages \in Nat /\ messagesSent \in Nat /\ run.elapsed \in Nat /\ run.gap \in Nat
  BY Typed
<1>3. CASE workflow # "production"
  <2>1. run.messages < Reminders /\ MaxReminders = Reminders /\ Reminders \in Nat
    BY <1>1, <1>3, Typed, Limits DEF MailDue
  <2> QED BY <1>1, <1>2, <2>1
<1>4. CASE workflow = "production"
  <2>1. run.elapsed >= WaitPeriod /\ run.elapsed < Release /\ run.gap >= 1
    BY <1>1, <1>4 DEF MailDue
  <2>2. run.messages <= 1 \/ run.messages + run.gap + WaitPeriod <= run.elapsed + 2
    BY <1>4, <2>1 DEF WInv, Decided, Mailing, Paced
  <2>3. Release = WaitPeriod + Duration /\ MaxReminders = Duration + 1
    BY <1>4, Typed, Limits
  <2> QED BY <1>1, <1>2, <2>1, <2>2, <2>3
<1> QED BY <1>3, <1>4

LEMMA Onward ==
  ASSUME WInv, workflow' = workflow, NEW r \in RunSet, NEW s \in {"mail", "call", "notify"},
         run' = [r EXCEPT !.step = s], Due(s, r), s = "call" => workflow # "twoMinute", ~notified',
         messagesSent' <= r.messages,
         r.returned \/ (r.elapsed <= logoutTime' /\ logoutTime' <= MaxAge),
         s \in Mailing /\ workflow = "production" => messagesSent' = 0 \/ r.elapsed <= logoutTime',
         s # "call" /\ workflow = "production" => r.returned \/ callSent' \/ r.elapsed < WaitPeriod,
         s \in Mailing /\ workflow = "production" => Paced(r.messages, r.gap, r.elapsed)
  PROVE  run' \in RunSet /\ Copied' /\ Decided' /\ run'.step = s
<1>1. /\ run' \in RunSet /\ run'.step = s /\ run'.elapsed = r.elapsed /\ run'.messages = r.messages
      /\ run'.gap = r.gap /\ run'.returned = r.returned
  BY DEF RunSet
<1>2. Release' = Release /\ MaxAge' = MaxAge /\ Reminders' = Reminders
  BY SameLimits DEF Reminders
<1>3. Copied'
  BY <1>1, <1>2 DEF Copied
<1>4. s = "mail" => MailDue(run)'
  BY <1>1, <1>2 DEF Due, MailDue
<1>5. s = "notify" => NotifyDue(run)'
  BY <1>1, <1>2 DEF Due, NotifyDue
<1>6. Decided'
  BY <1>1, <1>2, <1>4, <1>5 DEF Decided, Deciding, Paced
<1> QED BY <1>1, <1>3, <1>6

LEMMA ReadKeeps == ASSUME WInv, JobReadOwner PROVE WInv'
<1> DEFINE r == [step |-> "read", elapsed |-> logoutTime, messages |-> messagesSent,
                 called |-> callSent, gap |-> lastMessageAt, returned |-> FALSE]
<1>1. /\ UNCHANGED <<lastActive, logoutTime, callSent, messagesSent, lastMessageAt, notified>>
      /\ UNCHANGED <<ownerSide, mails, links, sinceRun, overran>> /\ run.step = "read"
      /\ run' = IF Absent THEN GoOn(r, 0) ELSE Sleeping
  BY DEF JobReadOwner, fields
<1>2. r \in RunSet
  BY JobPlain, Typed DEF RunSet
<1>3. workflow' = workflow
  BY <1>1 DEF ownerSide
<1>4. ASSUME Absent PROVE logoutTime <= MaxAge /\ ~notified
  <2>1. Release \in Nat /\ MaxAge = Release + 1 /\ None = Release + 2 /\ Age = 0 .. Release + 2
    BY Typed, Limits
  <2> QED BY <1>4, <2>1, Typed DEF Absent
<1>5. /\ r.elapsed = logoutTime /\ r.messages = messagesSent /\ r.gap = lastMessageAt
      /\ (r.called => callSent)
  OBVIOUS
<1> HIDE DEF r
<1>6. run' \in RunSet /\ Copied' /\ Decided' /\ run'.step \notin {"countMail", "mark"}
  <2>1. CASE run' = Sleeping
    BY <2>1, Asleep, Undecided DEF Deciding, Sleeping
  <2>2. CASE run' # Sleeping
    <3>1. Absent /\ run' = GoOn(r, 0)
      BY <1>1, <2>2
    <3>2. PICK s \in {"mail", "call", "notify"} :
            /\ run' = [r EXCEPT !.step = s] /\ Due(s, r)
            /\ workflow = "production" /\ s # "call" => ~CallDue(r)
            /\ s = "call" => workflow # "twoMinute"
      BY <2>2, <3>1, FromRead, Typed
    <3>3. logoutTime <= MaxAge /\ ~notified
      BY <1>4, <3>1
    <3>4. s # "call" /\ workflow = "production" => callSent \/ r.elapsed < WaitPeriod
      <4>1. r.elapsed \in Nat
        BY <1>5, Typed
      <4> QED BY <1>5, <3>2, <4>1 DEF CallDue
    <3>5. s \in Mailing /\ workflow = "production" => Paced(r.messages, r.gap, r.elapsed)
      BY <1>5 DEF WInv, Spaced
    <3>6. /\ messagesSent' <= r.messages /\ r.elapsed <= logoutTime' /\ logoutTime' <= MaxAge
          /\ (s # "call" /\ workflow = "production" => callSent' \/ r.elapsed < WaitPeriod)
          /\ ~notified'
      BY <1>1, <1>5, <3>3, <3>4, Typed
    <3> QED BY <1>2, <1>3, <3>2, <3>5, <3>6, Onward
  <2> QED BY <2>1, <2>2
<1>7. TypeOK' /\ crashes' = crashes
  BY <1>1, <1>6, JobPlain, Typed, JobTyped
<1>8. Spaced' /\ Counted'
  BY <1>1, <1>3, <1>6, <1>7, SameLimits, Typed DEF WInv, Spaced, Paced, Counted
<1> QED BY <1>6, <1>7, <1>8 DEF WInv

LEMMA CallKeeps == ASSUME WInv, JobCall PROVE WInv'
<1>1. /\ UNCHANGED <<lastActive, logoutTime, messagesSent, lastMessageAt, notified>>
      /\ UNCHANGED <<ownerSide, mails, links, sinceRun, overran>> /\ run.step = "call"
      /\ callSent' = TRUE /\ run' = GoOn(run, Position("call"))
  BY DEF JobCall
<1>2. workflow' = workflow
  BY <1>1 DEF ownerSide
<1>3. workflow # "twoMinute" /\ ~notified /\ messagesSent <= run.messages
      /\ (run.returned \/ (run.elapsed <= logoutTime /\ logoutTime <= MaxAge))
      /\ (workflow = "production" => /\ messagesSent = 0 \/ run.elapsed <= logoutTime
                                     /\ Paced(run.messages, run.gap, run.elapsed))
  BY <1>1 DEF WInv, Copied, Decided, Deciding, Mailing
<1>4. run' \in RunSet /\ Copied' /\ Decided' /\ run'.step \notin {"countMail", "mark"}
  <2>1. CASE run' = Sleeping
    BY <2>1, Asleep, Undecided DEF Deciding, Sleeping
  <2>2. CASE run' # Sleeping
    <3>1. PICK s \in {"mail", "notify"} : run' = [run EXCEPT !.step = s] /\ Due(s, run)
      BY <1>1, <1>3, <2>2, FromCall, Typed
    <3>2. /\ messagesSent' <= run.messages /\ ~notified' /\ callSent'
          /\ run.returned \/ (run.elapsed <= logoutTime' /\ logoutTime' <= MaxAge)
          /\ workflow = "production" => messagesSent' = 0 \/ run.elapsed <= logoutTime'
      BY <1>1, <1>3
    <3> QED BY <1>2, <1>3, <3>1, <3>2, Typed, Onward
  <2> QED BY <2>1, <2>2
<1>5. TypeOK' /\ crashes' = crashes
  BY <1>1, <1>4, JobPlain, Typed, JobTyped
<1>6. Spaced' /\ Counted'
  BY <1>1, <1>2, <1>4, <1>5, SameLimits, Typed DEF WInv, Spaced, Paced, Counted
<1> QED BY <1>4, <1>5, <1>6 DEF WInv

LEMMA LinkKeeps == ASSUME WInv, JobIssueLink PROVE WInv'
<1>1. /\ UNCHANGED <<lastActive, logoutTime, callSent, messagesSent, lastMessageAt, notified>>
      /\ UNCHANGED <<ownerSide, mails, sinceRun, overran>> /\ run.step = "notify"
      /\ links' = links + 1 /\ run' = [run EXCEPT !.step = "mark"]
  BY DEF JobIssueLink, fields
<1>2. workflow' = workflow
  BY <1>1 DEF ownerSide
<1>3. /\ run' \in RunSet /\ run'.step = "mark" /\ run'.elapsed = run.elapsed
      /\ run'.messages = run.messages /\ run'.returned = run.returned
  BY <1>1, Typed DEF RunSet
<1>4. TypeOK' /\ crashes' = crashes
  BY <1>1, <1>3, JobPlain, Typed, JobTyped
<1>5. Copied'
  BY <1>1, <1>2, <1>3, SameLimits DEF WInv, Copied, Deciding, Mailing
<1>6. Decided'
  <2>1. NotifyDue(run)' /\ ~notified
    BY <1>1, <1>2, <1>3, SameLimits DEF WInv, Decided, NotifyDue, Deciding
  <2> QED BY <1>1, <1>3, <2>1 DEF Decided, Mailing
<1>7. Spaced' /\ Counted'
  <2>1. ~notified
    BY <1>1 DEF WInv, Decided, Deciding
  <2> QED BY <1>1, <1>2, <1>3, <1>4, <2>1, SameLimits, Typed DEF WInv, Spaced, Paced, Counted
<1> QED BY <1>4, <1>5, <1>6, <1>7 DEF WInv

LEMMA MailKeeps == ASSUME WInv, JobSendMail \/ JobMailFails PROVE WInv'
<1>1. /\ UNCHANGED <<lastActive, logoutTime, callSent, messagesSent, lastMessageAt, notified>>
      /\ UNCHANGED <<ownerSide, links, sinceRun, overran>> /\ run.step = "mail"
  BY DEF JobSendMail, JobMailFails, fields
<1>2. workflow' = workflow
  BY <1>1 DEF ownerSide
<1>3. ~notified /\ messagesSent <= run.messages /\ MailDue(run)
      /\ (run.returned \/ (run.elapsed <= logoutTime /\ logoutTime <= MaxAge))
      /\ (workflow = "production" => /\ messagesSent = 0 \/ run.elapsed <= logoutTime
                                     /\ Paced(run.messages, run.gap, run.elapsed)
                                     /\ run.returned \/ callSent \/ run.elapsed < WaitPeriod)
  BY <1>1 DEF WInv, Copied, Decided, Deciding, Mailing
<1>4. CASE JobMailFails
  <2>1. mails' = mails /\ run' = GoOn(run, Position("mail"))
    BY <1>4 DEF JobMailFails
  <2>2. run' \in RunSet /\ Copied' /\ Decided' /\ run'.step \notin {"countMail", "mark"}
    <3>1. CASE run' = Sleeping
      BY <3>1, Asleep, Undecided DEF Deciding, Sleeping
    <3>2. CASE run' # Sleeping
      <4>1. PICK s \in {"call", "notify"} : /\ run' = [run EXCEPT !.step = s] /\ Due(s, run)
                                            /\ s = "call" => workflow = "fiveMinute"
        BY <2>1, <3>2, FromMail, Typed
      <4>2. /\ messagesSent' <= run.messages /\ ~notified'
            /\ run.returned \/ (run.elapsed <= logoutTime' /\ logoutTime' <= MaxAge)
            /\ workflow = "production" => /\ messagesSent' = 0 \/ run.elapsed <= logoutTime'
                                          /\ run.returned \/ callSent' \/ run.elapsed < WaitPeriod
        BY <1>1, <1>3
      <4> QED BY <1>2, <1>3, <4>1, <4>2, Typed, Onward
    <3> QED BY <3>1, <3>2
  <2>3. TypeOK' /\ crashes' = crashes
    BY <1>1, <2>1, <2>2, JobPlain, Typed, JobTyped
  <2>4. Spaced' /\ Counted'
    BY <1>1, <1>2, <2>1, <2>2, <2>3, SameLimits, Typed DEF WInv, Spaced, Paced, Counted
  <2> QED BY <2>2, <2>3, <2>4 DEF WInv
<1>5. CASE JobSendMail
  <2>1. mails' = mails + 1 /\ run' = [run EXCEPT !.step = "countMail"]
    BY <1>5 DEF JobSendMail
  <2>2. /\ run' \in RunSet /\ run'.step = "countMail" /\ run'.elapsed = run.elapsed /\ run'.gap = run.gap
        /\ run'.messages = run.messages /\ run'.returned = run.returned
    BY <2>1, Typed DEF RunSet
  <2>3. mails' \in 0 .. MaxReminders + MaxCrashes
    <3>1. mails <= messagesSent + crashes /\ crashes \in 0 .. MaxCrashes /\ MaxReminders \in Nat
      BY <1>1, Typed, Limits DEF WInv, Counted, TypeOK
    <3> QED BY <1>1, <2>1, <3>1, RoomForMail, Typed
  <2>4. TypeOK' /\ crashes' = crashes
    BY <1>1, <2>2, <2>3, JobPlain, Typed, JobTyped
  <2>5. MailDue(run)'
    BY <1>2, <1>3, <2>2, SameLimits DEF MailDue
  <2>6. Copied' /\ Decided'
    BY <1>1, <1>2, <1>3, <2>2, <2>5, SameLimits DEF Copied, Decided, Deciding, Paced
  <2>7. Spaced' /\ Counted'
    BY <1>1, <1>2, <2>1, <2>2, <2>4, SameLimits, Typed DEF WInv, Spaced, Paced, Counted
  <2> QED BY <2>4, <2>6, <2>7 DEF WInv
<1> QED BY <1>4, <1>5

\* A reminder counted lies a tick behind the last one the run knew of.
LEMMA CountKeeps == ASSUME WInv, JobCountMail PROVE WInv'
<1> DEFINE r == [run EXCEPT !.messages = @ + 1]
<1>1. /\ UNCHANGED <<lastActive, logoutTime, callSent, notified>>
      /\ UNCHANGED <<ownerSide, mails, links, sinceRun, overran>> /\ run.step = "countMail"
      /\ lastMessageAt' = 0 /\ messagesSent' = messagesSent + 1 /\ run' = GoOn(r, Position("mail"))
  BY DEF JobCountMail, CountMail
<1>2. workflow' = workflow
  BY <1>1 DEF ownerSide
<1>3. ~notified /\ messagesSent <= run.messages /\ MailDue(run)
      /\ (run.returned \/ (run.elapsed <= logoutTime /\ logoutTime <= MaxAge))
      /\ (workflow = "production" => /\ messagesSent = 0 \/ run.elapsed <= logoutTime
                                     /\ Paced(run.messages, run.gap, run.elapsed)
                                     /\ run.returned \/ callSent \/ run.elapsed < WaitPeriod)
  BY <1>1 DEF WInv, Copied, Decided, Deciding, Mailing
<1>4. run.messages + 1 <= MaxReminders /\ messagesSent + 1 <= MaxReminders /\ MaxReminders \in Nat
  BY <1>1, RoomForMail, Typed, Limits
<1>5. /\ r \in RunSet /\ r.messages = run.messages + 1 /\ r.elapsed = run.elapsed
      /\ r.returned = run.returned
  <2>1. run.messages + 1 \in 0 .. MaxReminders
    BY <1>4, Typed
  <2> QED BY <2>1, Typed DEF RunSet
<1> HIDE DEF r
<1>6. run' \in RunSet /\ Copied' /\ Decided' /\ run'.step \notin {"countMail", "mark"}
  <2>1. CASE run' = Sleeping
    BY <2>1, Asleep, Undecided DEF Deciding, Sleeping
  <2>2. CASE run' # Sleeping
    <3>1. PICK s \in {"call", "notify"} : /\ run' = [r EXCEPT !.step = s] /\ Due(s, r)
                                          /\ s = "call" => workflow = "fiveMinute"
      BY <1>1, <2>2, FromMail, Typed
    <3>2. /\ messagesSent' <= r.messages /\ ~notified'
          /\ r.returned \/ (r.elapsed <= logoutTime' /\ logoutTime' <= MaxAge)
          /\ workflow = "production" => r.returned \/ callSent' \/ r.elapsed < WaitPeriod
      BY <1>1, <1>3, <1>5, Typed
    <3>3. s \in Mailing => workflow # "production"
      BY <3>1 DEF Mailing
    <3> QED BY <1>2, <1>5, <3>1, <3>2, <3>3, Onward
  <2> QED BY <2>1, <2>2
<1>7. TypeOK' /\ crashes' = crashes
  <2>1. messagesSent' \in 0 .. MaxReminders
    BY <1>1, <1>4, Typed
  <2> QED BY <1>1, <1>6, <2>1, JobPlain, Typed, JobTyped
<1>8. Spaced'
  <2> SUFFICES ASSUME workflow = "production", logoutTime < Release
               PROVE  messagesSent + 1 <= 1 \/ messagesSent + 1 + WaitPeriod <= logoutTime + 2
    BY <1>1, <1>2, SameLimits DEF Spaced, Paced
  <2>1. run.elapsed < Release /\ run.gap >= 1 /\ run.elapsed >= WaitPeriod
    BY <1>3 DEF MailDue
  <2>2. messagesSent = 0 \/ run.elapsed <= logoutTime
    BY <1>3
  <2>3. run.messages <= 1 \/ run.messages + run.gap + WaitPeriod <= run.elapsed + 2
    BY <1>3, <2>1 DEF Paced
  <2>4. {messagesSent, run.messages, run.gap, run.elapsed, logoutTime, WaitPeriod} \subseteq Nat
    BY Typed
  <2> QED BY <1>3, <2>1, <2>2, <2>3, <2>4
<1>9. Counted'
  BY <1>1, <1>6, <1>7, Typed DEF WInv, Counted
<1> QED BY <1>6, <1>7, <1>8, <1>9 DEF WInv

-----------------------------------------------------------------------------

LEMMA SwitchStarts == Init => WInv
<1> SUFFICES ASSUME Init PROVE WInv
  OBVIOUS
<1>1. /\ workflow \in Workflows /\ lastActive = 0 /\ logoutTime = None /\ lastMessageAt = None
      /\ messagesSent = 0 /\ run = Sleeping /\ mails = 0 /\ links = 0 /\ crashes = 0 /\ sinceRun = 0
      /\ {callSent, notified, isVerified, session, alive, heartbeat} \subseteq BOOLEAN /\ ~notified
      /\ overran = {}
  BY DEF Init
<1>2. run.step = "sleep"
  BY <1>1 DEF Sleeping
<1>3. TypeOK
  <2>1. {Release, MaxReminders, JobPeriod} \subseteq Nat /\ MaxAge = Release + 1 /\ None = Release + 2
        /\ Age = 0 .. Release + 2
    BY <1>1, Limits
  <2>2. /\ 0 \in 0 .. MaxAge /\ None \in Age /\ 0 \in Age /\ 0 \in 0 .. MaxReminders
        /\ 0 \in 0 .. JobPeriod /\ 0 \in 0 .. MaxReminders + MaxCrashes /\ 0 \in 0 .. MaxCrashes
    BY <2>1
  <2>3. run \in RunSet
    BY <1>1, <2>2 DEF Sleeping, RunSet
  <2> QED BY <1>1, <2>2, <2>3 DEF TypeOK, RunSet
<1>4. Copied /\ Decided
  BY <1>2 DEF Copied, Decided, Deciding, Mailing
<1>5. Spaced /\ Counted
  BY <1>1, <1>2 DEF Spaced, Paced, Counted
<1> QED BY <1>3, <1>4, <1>5 DEF WInv

LEMMA SwitchSteps == WInv /\ [Next]_vars => WInv'
<1> SUFFICES ASSUME WInv, [Next]_vars PROVE WInv'
  OBVIOUS
<1>1. CASE JobStep
  BY <1>1, SearchKeeps, ReadKeeps, CallKeeps, MailKeeps, CountKeeps, LinkKeeps DEF JobStep
<1>2. CASE UNCHANGED vars
  <2>1. /\ UNCHANGED <<workflow, lastActive, logoutTime, callSent, messagesSent, lastMessageAt, notified>>
        /\ UNCHANGED <<isVerified, session, alive, heartbeat, sinceRun, run, mails, links, crashes, overran>>
    BY <1>2 DEF vars, fields, client
  <2>2. TypeOK'
    <3>1. /\ {callSent, notified, isVerified, session, alive, heartbeat} \subseteq BOOLEAN
          /\ mails \in 0 .. MaxReminders + MaxCrashes /\ crashes \in 0 .. MaxCrashes
          /\ sinceRun \in 0 .. JobPeriod
      BY DEF WInv, TypeOK
    <3> QED BY <2>1, <3>1, Typed, StillTyped
  <2>3. MailDue(run)' = MailDue(run) /\ NotifyDue(run)' = NotifyDue(run) /\ MaxAge' = MaxAge
        /\ Release' = Release
    BY <2>1, SameLimits DEF MailDue, NotifyDue
  <2> QED BY <2>1, <2>2, <2>3 DEF WInv, Copied, Decided, Spaced, Counted, Paced
<1> QED BY <1>1, <1>2, OwnerKeeps, TickKeeps, CrashKeeps DEF Next

LEMMA MeasuredStarts == Init => Measured
BY DEF Init, Sleeping, Measured

\* An absence is measured from the owner's last act: the owner's writes set both times or clear
\* one, they age together, and a run that was overtaken leaves its trace.
LEMMA MeasuredKeeps == WInv /\ Measured /\ [Next]_vars => Measured'
<1> SUFFICES ASSUME WInv, Measured, [Next]_vars PROVE Measured'
  OBVIOUS
<1>1. run \in RunSet /\ workflow \in Workflows
  BY Typed
<1>2. workflow' = workflow => None' = None
  BY SameLimits
<1>3. CASE Login \/ HeartbeatWrite \/ UpdateProfile \/ VerifyEmail \/ Logout
  <2>1. run' = [run EXCEPT !.returned = TRUE] /\ workflow' = workflow
    BY <1>3 DEF Login, HeartbeatWrite, UpdateProfile, VerifyEmail, Logout, OwnerWrites
  <2>2. logoutTime' = None \/ (logoutTime' = 0 /\ lastActive' = 0)
    BY <1>3 DEF Login, HeartbeatWrite, UpdateProfile, VerifyEmail, Logout, ResetReengagement
  <2>3. run'.returned
    BY <1>1, <2>1 DEF RunSet
  <2> QED BY <1>2, <2>1, <2>2, <2>3 DEF Measured
<1>4. CASE JobFindActive
  <2>1. run'.step = "findAbsent" \/ run'.elapsed = lastActive'
    BY <1>4 DEF JobFindActive, Sleeping
  <2>2. UNCHANGED <<workflow, logoutTime, lastActive, overran>>
    BY <1>4 DEF JobFindActive, fields, ownerSide
  <2> QED BY <1>2, <2>1, <2>2 DEF Measured
<1>5. CASE JobAutoLogout
  <2>1. run'.step = "findAbsent"
    BY <1>5 DEF JobAutoLogout, Sleeping
  <2>2. run.returned => overran' = {"logoutTime"}
    BY <1>5 DEF JobAutoLogout
  <2>3. logoutTime' = run.elapsed /\ lastActive' = lastActive /\ run.step = "autoLogout"
    BY <1>5 DEF JobAutoLogout
  <2> QED BY <2>1, <2>2, <2>3 DEF Measured
<1>6. CASE JobStep /\ ~JobFindActive /\ ~JobAutoLogout
  <2>1. run'.step # "autoLogout"
    <3>1. CASE run' \in {Sleeping, [Sleeping EXCEPT !.step = "read"], [run EXCEPT !.step = "countMail"],
                         [run EXCEPT !.step = "mark"]}
      BY <1>1, <3>1 DEF Sleeping, RunSet
    <3>2. ASSUME NEW r, "step" \in DOMAIN r, NEW s \in {"mail", "call", "notify"},
                 run' = [r EXCEPT !.step = s]
          PROVE  run'.step = s
      BY <3>2
    <3>3. CASE JobReadOwner
      <4> DEFINE r == [step |-> "read", elapsed |-> logoutTime, messages |-> messagesSent,
                       called |-> callSent, gap |-> lastMessageAt, returned |-> FALSE]
      <4>1. run' = Sleeping \/ run' = GoOn(r, 0)
        BY <3>3 DEF JobReadOwner
      <4>2. "step" \in DOMAIN r
        OBVIOUS
      <4> HIDE DEF r
      <4> QED BY <1>1, <3>1, <3>2, <4>1, <4>2, FromRead
    <3>4. CASE JobCall
      <4>1. run' = GoOn(run, Position("call")) /\ run.step = "call" /\ "step" \in DOMAIN run
        BY <1>1, <3>4 DEF JobCall, RunSet
      <4>2. workflow # "twoMinute"
        BY <4>1 DEF WInv, Decided
      <4> QED BY <1>1, <3>1, <3>2, <4>1, <4>2, FromCall
    <3>5. CASE JobMailFails \/ JobCountMail
      <4>1. PICK r : "step" \in DOMAIN r /\ run' = GoOn(r, Position("mail"))
        <5>1. "step" \in DOMAIN run /\ "step" \in DOMAIN [run EXCEPT !.messages = @ + 1]
          BY <1>1 DEF RunSet
        <5> QED BY <3>5, <5>1 DEF JobMailFails, JobCountMail
      <4> QED BY <1>1, <3>1, <3>2, <4>1, FromMail
    <3> QED BY <1>6, <3>1, <3>3, <3>4, <3>5 DEF JobStep, JobFindAbsent, JobSendMail, JobIssueLink, JobMarkNotified
  <2>2. UNCHANGED <<workflow, logoutTime, lastActive>> /\ overran \subseteq overran'
    BY <1>6 DEF JobStep, JobFindAbsent, JobReadOwner, JobCall, JobSendMail, JobMailFails, JobCountMail,
       JobIssueLink, JobMarkNotified, fields, ownerSide
  <2> QED BY <1>2, <2>1, <2>2 DEF Measured
<1>7. CASE Tick
  <2>1. /\ workflow' = workflow /\ overran' = overran
        /\ lastActive' = Older(lastActive) /\ logoutTime' = Older(logoutTime)
        /\ run' = IF run.step = "autoLogout" THEN [run EXCEPT !.elapsed = Older(@)] ELSE run
    BY <1>7 DEF Tick
  <2>2. /\ run'.step = run.step /\ run'.returned = run.returned
        /\ run.step = "autoLogout" => run'.elapsed = Older(run.elapsed)
    BY <1>1, <2>1 DEF RunSet
  <2>3. Older(None) = None
    BY <1>1, Limits DEF Older
  <2> QED BY <1>2, <2>1, <2>2, <2>3 DEF Measured
<1>8. CASE Crash
  <2>1. run' = Sleeping /\ UNCHANGED <<workflow, logoutTime, lastActive, overran>>
    BY <1>8 DEF Crash, fields
  <2>2. run'.step = "sleep"
    BY <2>1 DEF Sleeping
  <2> QED BY <1>2, <2>1, <2>2 DEF Measured
<1>9. CASE HeartbeatRead \/ Die \/ UNCHANGED vars
  <2>1. UNCHANGED <<workflow, logoutTime, lastActive, overran, run>>
    BY <1>9 DEF HeartbeatRead, Die, vars, fields
  <2> QED BY <1>2, <2>1 DEF Measured
<1> QED BY <1>3, <1>4, <1>5, <1>6, <1>7, <1>8, <1>9 DEF Next, JobStep

\* The invariant of every reachable state.
LEMMA AlwaysWInv == Spec => []WInv
BY SwitchStarts, SwitchSteps, PTL DEF Spec

LEMMA AlwaysMeasured == Spec => []Measured
BY AlwaysWInv, MeasuredStarts, MeasuredKeeps, PTL DEF Spec

\* The owner's document, the job and its copy keep their shape; no counter outgrows its limit.
THEOREM SwitchTypeCorrect == Spec => []TypeOK
<1>1. WInv => TypeOK
  BY DEF WInv
<1> QED BY <1>1, AlwaysWInv, PTL

\* One absence brings each nominee at most one link, and one more per restart between the
\* link and the mark that it was sent (process_reengagement_for_user).
THEOREM AlwaysOneLink == Spec => []OneLinkPerAbsence
<1>1. WInv => OneLinkPerAbsence
  BY Typed DEF WInv, Counted, OneLinkPerAbsence
<1> QED BY <1>1, AlwaysWInv, PTL

\* One absence brings the owner at most the planned reminders, and one more per restart
\* between a mail and the write that counts it (process_reengagement_for_user).
THEOREM RemindersAlwaysBounded == Spec => []RemindersBounded
<1>1. WInv => RemindersBounded
  <2> SUFFICES ASSUME WInv PROVE mails <= MaxReminders + crashes
    BY DEF RemindersBounded
  <2>1. CASE run.step = "countMail"
    <3>1. mails <= messagesSent + crashes + 1 /\ messagesSent + 1 <= MaxReminders /\ MaxReminders \in Nat
      BY <2>1, RoomForMail, Typed, Limits DEF WInv, Counted
    <3> QED BY <3>1, Typed
  <2>2. CASE run.step # "countMail"
    <3>1. mails <= messagesSent + crashes /\ messagesSent <= MaxReminders /\ MaxReminders \in Nat
      BY <2>2, Typed, Limits DEF WInv, Counted
    <3> QED BY <3>1, Typed
  <2> QED BY <2>1, <2>2
<1> QED BY <1>1, AlwaysWInv, PTL

\* No link leaves before the owner's last login, logout or accepted heartbeat lies as far back
\* as the workflow asks, unless the owner has been back since process_reengagement_for_user
\* read the document, or an auto-logout wrote an older time over the owner's.
THEOREM LinksAlwaysAfterAbsence == Spec => LinkOnlyAfterAbsence
<1>1. WInv /\ Measured /\ [Next]_vars =>
        [JobIssueLink => run.returned \/ "logoutTime" \in overran \/ lastActive >= Release]_vars
  <2> SUFFICES ASSUME WInv, Measured, JobIssueLink, ~run.returned, "logoutTime" \notin overran
               PROVE  lastActive >= Release
    OBVIOUS
  <2>1. run.step = "notify"
    BY DEF JobIssueLink
  <2>2. run.elapsed <= logoutTime /\ logoutTime <= MaxAge /\ run.elapsed >= Release
    BY <2>1 DEF WInv, Copied, Decided, Deciding, NotifyDue
  <2>3. Release \in Nat /\ MaxAge = Release + 1 /\ None = Release + 2
    BY Typed, Limits
  <2>4. logoutTime = lastActive
    BY <2>2, <2>3, Typed DEF Measured
  <2> QED BY <2>2, <2>3, <2>4, Typed
<1> QED BY <1>1, AlwaysWInv, AlwaysMeasured, PTL DEF Spec, LinkOnlyAfterAbsence

\* In production the call is on record before the links leave, unless the owner has been back.
THEOREM CallAlwaysBeforeLink == Spec => CallBeforeLink
<1>1. WInv /\ [Next]_vars =>
        [JobIssueLink /\ workflow = "production" => run.returned \/ callSent]_vars
  <2> SUFFICES ASSUME WInv, JobIssueLink, workflow = "production", ~run.returned PROVE callSent
    OBVIOUS
  <2>1. run.step = "notify"
    BY DEF JobIssueLink
  <2>2. (callSent \/ run.elapsed < WaitPeriod) /\ run.elapsed >= Release
    BY <2>1 DEF WInv, Decided, NotifyDue
  <2>3. Release = WaitPeriod + Duration /\ run.elapsed \in Nat
    BY Typed, Limits
  <2> QED BY <2>2, <2>3
<1> QED BY <1>1, AlwaysWInv, PTL DEF Spec, CallBeforeLink

-----------------------------------------------------------------------------
(* Billing                                                                 *)

Used == {s \in Subs : sub[s] # "none"}
Buying == {"look", "supersede", "insert"}
Sold == {"upgrade", "invoice"}

\* What a coroutine holds at each of its steps.
Holds(a, d) ==
  /\ a \in {"idle", "submit"} => d = NoReview
  /\ a \notin {"idle", "submit"} => d.req \in Requests
  /\ IF a = "supersede" THEN d.old \in Used ELSE d.old = Nothing
  /\ IF a \in Sold THEN d.new \in Used \ ended ELSE d.new = Nothing
Shaped ==
  /\ \A h \in Handlers : Holds(at[h], doing[h])
  /\ \A g, h \in Handlers : at[g] \in Sold /\ at[h] \in Sold /\ doing[g].new = doing[h].new => g = h
  /\ \A j \in Replicas : job[j].todo \subseteq ended /\ (job[j].at = "look" => job[j].sub \in ended \ Active)
  /\ ended \subseteq Used /\ invoices \subseteq Used
  /\ \A s \in Subs \ Used : pays[s] = Nothing

\* Without a coroutine that died halfway, what was made has its invoice, or gets it.
Invoiced ==
  ~torn => \A s \in Used : s \in invoices \/ \E h \in Handlers : at[h] \in Sold /\ doing[h].new = s

\* Each approved request has its subscription, or one approval that will make it.
OwnRequest ==
  /\ \A h \in Handlers : at[h] \in Halfway => request[doing[h].req] = "APPROVED"
  /\ \A g, h \in Handlers :
       at[g] \in Halfway /\ at[h] \in Halfway /\ doing[g].req = doing[h].req => g = h
Bought ==
  /\ \A s, t \in Used : pays[s] = pays[t] => s = t
  /\ \A s \in Used : /\ pays[s] \in Requests /\ request[pays[s]] = "APPROVED"
                     /\ \A h \in Handlers : at[h] \in Buying => doing[h].req # pays[s]
Delivered ==
  \A r \in Requests : request[r] = "APPROVED" =>
    \/ \E s \in Used : pays[s] = r
    \/ \E h \in Handlers : at[h] \in Buying /\ doing[h].req = r

\* One approval at a time replaces what is active, which is one subscription or none.
OneActive ==
  /\ \A g, h \in Handlers : at[g] \in Replacing /\ at[h] \in Replacing => g = h
  /\ \A s, t \in Active : s = t
  /\ \A h \in Handlers :
       /\ at[h] = "supersede" => Active \subseteq {doing[h].old}
       /\ at[h] = "insert" => Active = {}
       /\ at[h] = "upgrade" => Active = {doing[h].new} /\ pays[doing[h].new] = doing[h].req

\* The plan is right, or somebody is on the way to write it.
PlanRight == IF Active = {} THEN plan = "free" ELSE \A s \in Active : plan = Wants[pays[s]]
PlanOwed ==
  /\ \/ PlanRight
     \/ \E h \in Handlers : at[h] \in Replacing
     \/ Active = {} /\ \E j \in Replicas : job[j].at \in {"look", "downgrade"}
  /\ \A j \in Replicas : job[j].at = "downgrade" =>
       Active = {} \/ \E h \in Handlers : at[h] = "upgrade"

Undisturbed ==
  ~raced => /\ OwnRequest /\ Bought
            /\ ~torn => Delivered /\ OneActive /\ PlanOwed

BInv == BillingTypeOK /\ Shaped /\ Invoiced /\ Undisturbed

Reviews == [req: Requests \cup {Nothing}, old: Subs \cup {Nothing}, new: Subs \cup {Nothing}]
Jobs == [at: {"idle", "mark", "look", "downgrade"}, todo: SUBSET Subs, sub: Subs \cup {Nothing}]

\* Only coroutine h moves.
Alone(h) ==
  /\ at' \in [Handlers -> {"idle", "submit", "approve", "reject"} \cup Halfway]
  /\ doing' \in [Handlers -> Reviews]
  /\ \A g \in Handlers \ {h} : at'[g] = at[g] /\ doing'[g] = doing[g]

LEMMA Goes ==
  ASSUME BInv, NEW h \in Handlers, NEW from, NEW to, Go(h, from, to),
         to \in {"idle", "submit", "approve", "reject"} \cup Halfway
  PROVE  /\ at[h] = from /\ at'[h] = to
         /\ at' \in [Handlers -> {"idle", "submit", "approve", "reject"} \cup Halfway]
         /\ \A g \in Handlers \ {h} : at'[g] = at[g]
BY DEF BInv, BillingTypeOK, Go

LEMMA Does ==
  ASSUME BInv, NEW h \in Handlers, NEW d \in Reviews, doing' = [doing EXCEPT ![h] = d]
  PROVE  /\ doing'[h] = d /\ doing' \in [Handlers -> Reviews]
         /\ \A g \in Handlers \ {h} : doing'[g] = doing[g]
BY DEF BInv, BillingTypeOK, Reviews

LEMMA Rests ==
  ASSUME BInv, NEW h \in Handlers, NEW from, Done(h, from)
  PROVE  /\ at[h] = from /\ at'[h] = "idle" /\ doing'[h] = NoReview /\ Alone(h)
         /\ doing'[h].req = Nothing /\ doing'[h].old = Nothing /\ doing'[h].new = Nothing
<1>1. NoReview \in Reviews
  BY DEF NoReview, Reviews
<1>2. Go(h, from, "idle") /\ doing' = [doing EXCEPT ![h] = NoReview]
  BY DEF Done
<1>3. /\ doing'[h] = NoReview /\ doing' \in [Handlers -> Reviews]
      /\ \A g \in Handlers \ {h} : doing'[g] = doing[g]
  BY <1>1, <1>2, Does
<1>4. /\ at[h] = from /\ at'[h] = "idle"
      /\ at' \in [Handlers -> {"idle", "submit", "approve", "reject"} \cup Halfway]
      /\ \A g \in Handlers \ {h} : at'[g] = at[g]
  BY <1>2, Goes
<1> QED BY <1>3, <1>4 DEF Alone, NoReview

LEMMA Steps ==
  /\ Halfway = Buying \cup Sold /\ Replacing = {"supersede", "insert", "upgrade"}
  /\ "idle" \notin Halfway /\ "submit" \notin Halfway /\ "approve" \notin Halfway /\ "reject" \notin Halfway
  /\ Replacing \subseteq Halfway
BY DEF Halfway, Buying, Sold, Replacing

\* A coroutine that has nothing to do with the subscriptions any more, or not yet.
LEMMA Aside ==
  ASSUME BInv, NEW h \in Handlers, Alone(h), UNCHANGED <<sub, pays, ended, plan, invoices, job>>,
         at'[h] \notin Halfway, Holds(at[h], doing[h])', ~torn' => ~torn /\ at[h] \notin Halfway,
         ~raced' => ~raced /\ \A r \in Requests : request'[r] = "APPROVED" <=> request[r] = "APPROVED"
  PROVE  Shaped' /\ Invoiced' /\ Undisturbed'
<1>1. Used' = Used /\ Active' = Active
  BY DEF Used, Active
<1>2. \A g \in Handlers : g # h => at'[g] = at[g] /\ doing'[g] = doing[g]
  BY DEF Alone
<1>3. \A g \in Handlers : at'[g] \in Halfway => g # h
  OBVIOUS
<1>4. Shaped'
  <2>1. \A g \in Handlers : Holds(at[g], doing[g])'
    BY <1>1, <1>2 DEF BInv, Shaped, Holds
  <2>2. \A g \in Handlers : at'[g] \in Sold => g # h
    BY <1>3, Steps
  <2> QED BY <1>1, <1>2, <2>1, <2>2 DEF BInv, Shaped
<1>5. Invoiced'
  BY <1>1, <1>2, Steps DEF BInv, Invoiced
<1>6. ASSUME ~raced' PROVE OwnRequest' /\ Bought' /\ (~torn' => Delivered' /\ OneActive' /\ PlanOwed')
  <2>1. OwnRequest /\ Bought /\ (~torn => Delivered /\ OneActive /\ PlanOwed)
    BY <1>6 DEF BInv, Undisturbed
  <2>2. \A g \in Handlers : at[g] \in Halfway => doing[g].req \in Requests
    BY Steps DEF BInv, Shaped, Holds
  <2>3. OwnRequest'
    BY <1>2, <1>3, <1>6, <2>1, <2>2 DEF OwnRequest
  <2>4. Bought'
    BY <1>1, <1>2, <1>3, <1>6, <2>1, Steps DEF Bought
  <2>5. ASSUME ~torn' PROVE Delivered'
    <3>1. \A g \in Handlers : at[g] \in Buying => at'[g] = at[g] /\ doing'[g] = doing[g]
      BY <1>2, <2>5, Steps
    <3> QED BY <1>1, <1>6, <2>1, <2>5, <3>1 DEF Delivered
  <2>6. ASSUME ~torn' PROVE OneActive'
    <3>1. \A g \in Handlers : at'[g] \in Replacing => g # h
      BY <1>3, Steps
    <3> QED BY <1>1, <1>2, <2>1, <2>6, <3>1, Steps DEF OneActive
  <2>7. ASSUME ~torn' PROVE PlanOwed'
    <3>1. \A g \in Handlers : at[g] \in Replacing => at'[g] = at[g]
      BY <1>2, <2>7, Steps
    <3>2. PlanRight' = PlanRight
      BY <1>1 DEF PlanRight
    <3> QED BY <1>1, <2>1, <2>7, <3>1, <3>2, Steps DEF PlanOwed
  <2> QED BY <2>3, <2>4, <2>5, <2>6, <2>7
<1> QED BY <1>4, <1>5, <1>6 DEF Undisturbed

LEMMA Billed ==
  ASSUME BInv
  PROVE  /\ request \in [Requests -> {"none", "PENDING", "APPROVED", "REJECTED"}]
         /\ sub \in [Subs -> {"none", "ACTIVE", "SUPERSEDED", "EXPIRED"}]
         /\ pays \in [Subs -> Requests \cup {Nothing}] /\ ended \subseteq Used /\ Used \subseteq Subs
         /\ at \in [Handlers -> {"idle", "submit", "approve", "reject"} \cup Halfway]
         /\ doing \in [Handlers -> Reviews] /\ job \in [Replicas -> Jobs]
         /\ raced \in BOOLEAN /\ torn \in BOOLEAN /\ deaths \in 0 .. MaxDeaths
         /\ \A h \in Handlers : Holds(at[h], doing[h])
BY DEF BInv, BillingTypeOK, Shaped, Reviews, Jobs, Used

LEMMA StillBilled ==
  ASSUME BInv,
         request' \in [Requests -> {"none", "PENDING", "APPROVED", "REJECTED"}],
         sub' \in [Subs -> {"none", "ACTIVE", "SUPERSEDED", "EXPIRED"}],
         pays' \in [Subs -> Requests \cup {Nothing}], ended' \subseteq Subs, invoices' \subseteq Subs,
         plan' \in PaidPlans \cup {"free"},
         at' \in [Handlers -> {"idle", "submit", "approve", "reject"} \cup Halfway],
         doing' \in [Handlers -> Reviews], job' \in [Replicas -> Jobs],
         raced' \in BOOLEAN, torn' \in BOOLEAN, deaths' \in 0 .. MaxDeaths
  PROVE  BillingTypeOK'
BY DEF BillingTypeOK, Reviews, Jobs

LEMMA StillPlans ==
  ASSUME BInv, UNCHANGED <<sub, pays, ended, plan, invoices, job>>
  PROVE  /\ sub' \in [Subs -> {"none", "ACTIVE", "SUPERSEDED", "EXPIRED"}]
         /\ pays' \in [Subs -> Requests \cup {Nothing}] /\ ended' \subseteq Subs /\ invoices' \subseteq Subs
         /\ plan' \in PaidPlans \cup {"free"} /\ job' \in [Replicas -> Jobs]
BY DEF BInv, BillingTypeOK, Jobs

\* The steps of a coroutine before an approval is on record, and its death.
LEMMA BeforeKeeps ==
  ASSUME BInv, NEW h \in Handlers,
         \/ SubmitLook(h) \/ SubmitInsert(h) \/ RejectMark(h) \/ CrashHandler(h)
         \/ \E r \in Requests, verdict \in {"approve", "reject"} : ReviewRead(h, r, verdict)
  PROVE  BInv'
<1>1. CASE SubmitLook(h)
  <2>1. /\ Go(h, "idle", "submit") /\ UNCHANGED <<request, sub, pays, ended, plan, invoices, job>>
        /\ UNCHANGED <<doing, raced, torn, deaths>>
    BY <1>1 DEF SubmitLook, books
  <2>2. at[h] = "idle" /\ at'[h] = "submit" /\ Alone(h)
    BY <2>1, Goes, Billed DEF Alone
  <2>3. Holds(at[h], doing[h])'
    <3>1. Holds(at[h], doing[h])
      BY Billed
    <3> QED BY <2>1, <2>2, <3>1 DEF Holds, Sold
  <2>4. Shaped' /\ Invoiced' /\ Undisturbed'
    BY <2>1, <2>2, <2>3, Steps, Aside
  <2>5. BillingTypeOK'
    BY <2>1, <2>2, Billed, StillPlans, StillBilled DEF Alone
  <2> QED BY <2>4, <2>5 DEF BInv
<1>2. CASE SubmitInsert(h)
  <2>1. /\ Done(h, "submit") /\ UNCHANGED <<sub, pays, ended, plan, invoices, job, raced, torn, deaths>>
        /\ \E r \in Free(request) : request' = [request EXCEPT ![r] = "PENDING"]
    BY <1>2 DEF SubmitInsert
  <2>2. PICK r \in Requests : request[r] = "none" /\ request' = [request EXCEPT ![r] = "PENDING"]
    BY <2>1, Billed DEF Free
  <2>3. /\ request' \in [Requests -> {"none", "PENDING", "APPROVED", "REJECTED"}]
        /\ \A q \in Requests : request'[q] = "APPROVED" <=> request[q] = "APPROVED"
    BY <2>2, Billed
  <2>4. at[h] = "submit" /\ at'[h] = "idle" /\ doing'[h] = NoReview /\ Alone(h)
    BY <2>1, Rests
  <2>5. Holds(at[h], doing[h])'
    BY <2>4 DEF Holds, Sold, NoReview
  <2>6. Shaped' /\ Invoiced' /\ Undisturbed'
    BY <2>1, <2>3, <2>4, <2>5, Steps, Aside
  <2>7. BillingTypeOK'
    BY <2>1, <2>3, <2>4, Billed, StillPlans, StillBilled DEF Alone
  <2> QED BY <2>6, <2>7 DEF BInv
<1>3. CASE RejectMark(h)
  <2>1. /\ Done(h, "reject") /\ UNCHANGED <<sub, pays, ended, plan, invoices, job, torn, deaths>>
        /\ request' = [request EXCEPT ![doing[h].req] = "REJECTED"]
        /\ raced' = (raced \/ request[doing[h].req] # "PENDING")
    BY <1>3 DEF RejectMark, Mark
  <2>2. at[h] = "reject" /\ at'[h] = "idle" /\ doing'[h] = NoReview /\ Alone(h)
    BY <2>1, Rests
  <2>3. doing[h].req \in Requests
    BY <2>2, Billed DEF Holds
  <2>4. /\ request' \in [Requests -> {"none", "PENDING", "APPROVED", "REJECTED"}]
        /\ ~raced' => ~raced /\ \A q \in Requests : request'[q] = "APPROVED" <=> request[q] = "APPROVED"
    BY <2>1, <2>3, Billed
  <2>5. Holds(at[h], doing[h])'
    BY <2>2 DEF Holds, Sold, NoReview
  <2>6. Shaped' /\ Invoiced' /\ Undisturbed'
    BY <2>1, <2>2, <2>4, <2>5, Steps, Aside
  <2>7. BillingTypeOK'
    BY <2>1, <2>2, <2>4, Billed, StillPlans, StillBilled DEF Alone
  <2> QED BY <2>6, <2>7 DEF BInv
<1>4. CASE CrashHandler(h)
  <2>1. /\ UNCHANGED <<request, sub, pays, ended, plan, invoices, job, raced>>
        /\ at' = [at EXCEPT ![h] = "idle"] /\ doing' = [doing EXCEPT ![h] = NoReview]
        /\ torn' = (torn \/ at[h] \in Halfway) /\ deaths < MaxDeaths /\ deaths' = deaths + 1
    BY <1>4 DEF CrashHandler, books
  <2>2. at'[h] = "idle" /\ doing'[h] = NoReview /\ Alone(h)
    BY <2>1, Rests DEF Done, Go
  <2>3. Holds(at[h], doing[h])'
    BY <2>2 DEF Holds, Sold, NoReview
  <2>4. Shaped' /\ Invoiced' /\ Undisturbed'
    BY <2>1, <2>2, <2>3, Steps, Aside
  <2>5. deaths' \in 0 .. MaxDeaths /\ torn' \in BOOLEAN
    BY <2>1, Billed, BillingAssumption
  <2>6. BillingTypeOK'
    BY <2>1, <2>2, <2>5, Billed, StillPlans, StillBilled DEF Alone
  <2> QED BY <2>4, <2>6 DEF BInv
<1>5. ASSUME NEW r \in Requests, NEW verdict \in {"approve", "reject"}, ReviewRead(h, r, verdict)
      PROVE  BInv'
  <2>1. /\ Go(h, "idle", verdict) /\ UNCHANGED <<request, sub, pays, ended, plan, invoices, job>>
        /\ UNCHANGED <<raced, torn, deaths>> /\ doing' = [doing EXCEPT ![h].req = r]
    BY <1>5 DEF ReviewRead, books
  <2>2. /\ at[h] = "idle" /\ at'[h] = verdict
        /\ at' \in [Handlers -> {"idle", "submit", "approve", "reject"} \cup Halfway]
        /\ \A g \in Handlers \ {h} : at'[g] = at[g]
    BY <2>1, Goes
  <2>3. doing[h] = NoReview
    BY <2>2, Billed DEF Holds
  <2>4. [doing[h] EXCEPT !.req = r] = [req |-> r, old |-> Nothing, new |-> Nothing]
    BY <2>3 DEF NoReview
  <2>5. [req |-> r, old |-> Nothing, new |-> Nothing] \in Reviews
    BY DEF Reviews
  <2>6. doing' = [doing EXCEPT ![h] = [req |-> r, old |-> Nothing, new |-> Nothing]]
    BY <2>1, <2>4
  <2>7. doing'[h] = [req |-> r, old |-> Nothing, new |-> Nothing] /\ Alone(h)
    BY <2>2, <2>5, <2>6, Does DEF Alone
  <2>8. Holds(at[h], doing[h])'
    BY <2>2, <2>7 DEF Holds, Sold
  <2>9. Shaped' /\ Invoiced' /\ Undisturbed'
    BY <2>1, <2>2, <2>7, <2>8, Steps, Aside
  <2>10. BillingTypeOK'
    BY <2>1, <2>7, Billed, StillPlans, StillBilled DEF Alone
  <2> QED BY <2>9, <2>10 DEF BInv
<1> QED BY <1>1, <1>2, <1>3, <1>4, <1>5

LEMMA MarkKeeps == ASSUME BInv, NEW h \in Handlers, ApproveMark(h) PROVE BInv'
<1>1. /\ Go(h, "approve", "look") /\ UNCHANGED <<sub, pays, ended, plan, invoices, job, torn, deaths, doing>>
      /\ request' = [request EXCEPT ![doing[h].req] = "APPROVED"]
      /\ raced' = (raced \/ request[doing[h].req] # "PENDING")
  BY DEF ApproveMark, Mark
<1>2. at[h] = "approve" /\ at'[h] = "look" /\ Alone(h)
  <2>1. "look" \in {"idle", "submit", "approve", "reject"} \cup Halfway
    BY DEF Halfway
  <2>2. /\ at[h] = "approve" /\ at'[h] = "look"
        /\ at' \in [Handlers -> {"idle", "submit", "approve", "reject"} \cup Halfway]
        /\ \A g \in Handlers \ {h} : at'[g] = at[g]
    BY <1>1, <2>1, Goes
  <2>3. doing' \in [Handlers -> Reviews] /\ doing' = doing
    BY <1>1, Billed
  <2> QED BY <2>2, <2>3 DEF Alone
<1>3. doing[h].req \in Requests /\ doing[h].old = Nothing /\ doing[h].new = Nothing
  BY <1>2, Billed DEF Holds, Sold
<1>4. /\ request' \in [Requests -> {"none", "PENDING", "APPROVED", "REJECTED"}]
      /\ request'[doing[h].req] = "APPROVED"
      /\ \A r \in Requests : r # doing[h].req => request'[r] = request[r]
  BY <1>1, <1>3, Billed
<1>5. Used' = Used /\ Active' = Active
  BY <1>1 DEF Used, Active
<1>6. \A g \in Handlers : doing'[g] = doing[g] /\ (g # h => at'[g] = at[g])
  BY <1>1, <1>2 DEF Alone
<1>7. BillingTypeOK'
  BY <1>1, <1>2, <1>4, Billed, StillPlans, StillBilled DEF Alone
<1>8. Shaped'
  <2>1. \A g \in Handlers : Holds(at[g], doing[g])'
    BY <1>1, <1>2, <1>3, <1>5, <1>6, Billed DEF Holds, Sold
  <2> QED BY <1>1, <1>2, <1>5, <1>6, <2>1 DEF BInv, Shaped, Sold
<1>9. Invoiced'
  BY <1>1, <1>2, <1>5, <1>6 DEF BInv, Invoiced, Sold
<1>10. ASSUME ~raced' PROVE OwnRequest' /\ Bought' /\ (~torn' => Delivered' /\ OneActive' /\ PlanOwed')
  <2>1. request[doing[h].req] = "PENDING" /\ OwnRequest /\ Bought
        /\ (~torn => Delivered /\ OneActive /\ PlanOwed)
    BY <1>1, <1>10 DEF BInv, Undisturbed
  <2>2. \A g \in Handlers : g # h /\ at'[g] \in Halfway =>
          at[g] \in Halfway /\ doing[g].req \in Requests /\ doing[g].req # doing[h].req
    BY <1>6, <2>1, Billed, Steps DEF OwnRequest, Holds
  <2>3. OwnRequest'
    <3>1. \A g \in Handlers : at'[g] \in Halfway => request'[doing'[g].req] = "APPROVED"
      BY <1>4, <1>6, <2>1, <2>2 DEF OwnRequest
    <3>2. \A f, g \in Handlers : at'[f] \in Halfway /\ at'[g] \in Halfway
                                 /\ doing'[f].req = doing'[g].req => f = g
      BY <1>6, <2>1, <2>2 DEF OwnRequest
    <3> QED BY <3>1, <3>2 DEF OwnRequest
  <2>4. Bought'
    <3>1. \A s \in Used : pays[s] \in Requests /\ request[pays[s]] = "APPROVED" /\ pays[s] # doing[h].req
      BY <2>1 DEF Bought
    <3> QED BY <1>1, <1>4, <1>5, <1>6, <2>1, <3>1 DEF Bought
  <2>5. ASSUME ~torn' PROVE Delivered'
    <3>1. Delivered
      BY <1>1, <2>1, <2>5
    <3>2. \A g \in Handlers : at[g] \in Buying => g # h
      BY <1>2 DEF Buying
    <3> QED BY <1>1, <1>2, <1>3, <1>4, <1>5, <1>6, <3>1, <3>2 DEF Delivered, Buying
  <2>6. ASSUME ~torn' PROVE OneActive'
    <3>1. OneActive
      BY <1>1, <2>1, <2>6
    <3> QED BY <1>1, <1>2, <1>5, <1>6, <3>1 DEF OneActive, Replacing
  <2>7. ASSUME ~torn' PROVE PlanOwed'
    <3>1. PlanOwed /\ PlanRight' = PlanRight
      BY <1>1, <1>5, <2>1, <2>7 DEF PlanRight
    <3> QED BY <1>1, <1>2, <1>5, <1>6, <3>1 DEF PlanOwed, Replacing
  <2> QED BY <2>3, <2>4, <2>5, <2>6, <2>7
<1> QED BY <1>7, <1>8, <1>9, <1>10 DEF BInv, Undisturbed

\* An approval that goes on keeps its request; the others keep theirs.
LEMMA SameRequests ==
  ASSUME BInv, NEW h \in Handlers, Alone(h), request' = request, at[h] \in Halfway, at'[h] \in Halfway,
         doing'[h].req = doing[h].req, OwnRequest
  PROVE  OwnRequest'
BY DEF OwnRequest, Alone

LEMMA LookKeeps == ASSUME BInv, NEW h \in Handlers, ApproveLook(h) PROVE BInv'
<1>1. /\ Go(h, "look", IF Active = {} THEN "insert" ELSE "supersede")
      /\ UNCHANGED <<request, sub, pays, ended, plan, invoices, job, torn, deaths>>
      /\ raced' = (raced \/ \E g \in Handlers : at[g] \in Replacing)
      /\ \E s \in IF Active = {} THEN {Nothing} ELSE Active : doing' = [doing EXCEPT ![h].old = s]
  BY DEF ApproveLook, books
<1>2. PICK s \in IF Active = {} THEN {Nothing} ELSE Active : doing' = [doing EXCEPT ![h].old = s]
  BY <1>1
<1>3. at[h] = "look" /\ at'[h] = (IF Active = {} THEN "insert" ELSE "supersede")
      /\ at' \in [Handlers -> {"idle", "submit", "approve", "reject"} \cup Halfway]
      /\ \A g \in Handlers \ {h} : at'[g] = at[g]
  BY <1>1, Goes, Steps DEF Halfway
<1>4. /\ doing[h] \in Reviews /\ doing[h].req \in Requests /\ doing[h].new = Nothing
      /\ Active \subseteq Used /\ Used \subseteq Subs
  BY <1>3, Billed DEF Holds, Sold, Active, Used
<1>5. /\ [doing[h] EXCEPT !.old = s] \in Reviews /\ [doing[h] EXCEPT !.old = s].old = s
      /\ [doing[h] EXCEPT !.old = s].req = doing[h].req /\ [doing[h] EXCEPT !.old = s].new = Nothing
  BY <1>4 DEF Reviews
<1>6. Alone(h) /\ doing'[h].old = s /\ doing'[h].req = doing[h].req /\ doing'[h].new = Nothing
  <2> DEFINE d == [doing[h] EXCEPT !.old = s]
  <2>1. doing' = [doing EXCEPT ![h] = d]
    BY <1>2
  <2>2. d \in Reviews /\ d.old = s /\ d.req = doing[h].req /\ d.new = Nothing
    BY <1>5
  <2> HIDE DEF d
  <2> QED BY <1>3, <2>1, <2>2, Does DEF Alone
<1>7. Used' = Used /\ Active' = Active
  BY <1>1 DEF Used, Active
<1>8. \A g \in Handlers : g # h => doing'[g] = doing[g] /\ at'[g] = at[g]
  BY <1>6 DEF Alone
<1>9. BillingTypeOK'
  BY <1>1, <1>6, Billed, StillPlans, StillBilled DEF Alone
<1>10. Shaped'
  <2>1. Holds(at[h], doing[h])'
    BY <1>2, <1>3, <1>4, <1>6, <1>7 DEF Holds, Sold
  <2>2. \A g \in Handlers : Holds(at[g], doing[g])'
    BY <1>1, <1>7, <1>8, <2>1, Billed DEF Holds
  <2> QED BY <1>1, <1>3, <1>7, <1>8, <2>2 DEF BInv, Shaped, Sold
<1>11. Invoiced'
  BY <1>1, <1>3, <1>7, <1>8 DEF BInv, Invoiced, Sold
<1>12. ASSUME ~raced' PROVE OwnRequest' /\ Bought' /\ (~torn' => Delivered' /\ OneActive' /\ PlanOwed')
  <2>1. OwnRequest /\ Bought /\ (~torn => Delivered /\ OneActive /\ PlanOwed)
        /\ \A g \in Handlers : at[g] \notin Replacing
    BY <1>1, <1>12 DEF BInv, Undisturbed
  <2>2. OwnRequest'
    BY <1>1, <1>3, <1>6, <2>1, SameRequests DEF Halfway
  <2>3. \A g \in Handlers : (at'[g] \in Buying <=> at[g] \in Buying) /\ doing'[g].req = doing[g].req
    BY <1>3, <1>6, <1>8 DEF Buying
  <2>4. Bought'
    BY <1>1, <1>7, <2>1, <2>3 DEF Bought
  <2>5. ASSUME ~torn' PROVE Delivered'
    BY <1>1, <1>7, <2>1, <2>3, <2>5 DEF Delivered
  <2>6. ASSUME ~torn' PROVE OneActive'
    <3>1. OneActive
      BY <1>1, <2>1, <2>6
    <3>2. \A g \in Handlers : at'[g] \in Replacing => g = h
      BY <1>8, <2>1
    <3>3. at'[h] = "supersede" => Active \subseteq {doing'[h].old}
      BY <1>2, <1>3, <1>6, <3>1 DEF OneActive
    <3>4. at'[h] = "insert" => Active = {}
      BY <1>3
    <3> QED BY <1>3, <1>7, <3>1, <3>2, <3>3, <3>4 DEF OneActive, Replacing
  <2>7. ASSUME ~torn' PROVE PlanOwed'
    <3>1. PlanOwed /\ at'[h] \in Replacing
      BY <1>1, <1>3, <2>1, <2>7 DEF Replacing
    <3>2. \A g \in Handlers : at[g] # "upgrade"
      BY <2>1 DEF Replacing
    <3> QED BY <1>1, <1>7, <3>1, <3>2 DEF PlanOwed
  <2> QED BY <2>2, <2>4, <2>5, <2>6, <2>7
<1> QED BY <1>9, <1>10, <1>11, <1>12 DEF BInv, Undisturbed

LEMMA SupersedeKeeps == ASSUME BInv, NEW h \in Handlers, ApproveSupersede(h) PROVE BInv'
<1>1. /\ Go(h, "supersede", "insert")
      /\ UNCHANGED <<request, pays, ended, plan, invoices, job, raced, torn, deaths>>
      /\ sub' = [sub EXCEPT ![doing[h].old] = "SUPERSEDED"]
      /\ doing' = [doing EXCEPT ![h].old = Nothing]
  BY DEF ApproveSupersede
<1>2. "insert" \in {"idle", "submit", "approve", "reject"} \cup Halfway
  BY DEF Halfway
<1>3. at[h] = "supersede" /\ at'[h] = "insert"
      /\ at' \in [Handlers -> {"idle", "submit", "approve", "reject"} \cup Halfway]
      /\ \A g \in Handlers \ {h} : at'[g] = at[g]
  BY <1>1, <1>2, Goes
<1>4. /\ doing[h] \in Reviews /\ doing[h].req \in Requests /\ doing[h].new = Nothing
      /\ doing[h].old \in Used /\ Used \subseteq Subs
  BY <1>3, Billed DEF Holds, Sold
<1>5. Alone(h) /\ doing'[h].old = Nothing /\ doing'[h].req = doing[h].req /\ doing'[h].new = Nothing
  <2> DEFINE d == [doing[h] EXCEPT !.old = Nothing]
  <2>1. doing' = [doing EXCEPT ![h] = d]
    BY <1>1
  <2>2. d \in Reviews /\ d.old = Nothing /\ d.req = doing[h].req /\ d.new = Nothing
    BY <1>4 DEF Reviews
  <2> HIDE DEF d
  <2> QED BY <1>3, <2>1, <2>2, Does DEF Alone
<1>6. sub' \in [Subs -> {"none", "ACTIVE", "SUPERSEDED", "EXPIRED"}]
      /\ Used' = Used /\ Active' = Active \ {doing[h].old}
  BY <1>1, <1>4, Billed DEF Used, Active
<1>7. \A g \in Handlers : g # h => doing'[g] = doing[g] /\ at'[g] = at[g]
  BY <1>5 DEF Alone
<1>8. BillingTypeOK'
  <2>1. pays' \in [Subs -> Requests \cup {Nothing}] /\ ended' \subseteq Subs /\ invoices' \subseteq Subs
        /\ plan' \in PaidPlans \cup {"free"} /\ job' \in [Replicas -> Jobs]
    BY <1>1 DEF BInv, BillingTypeOK, Jobs
  <2> QED BY <1>1, <1>5, <1>6, <2>1, Billed, StillBilled DEF Alone
<1>9. Shaped'
  <2>1. Holds(at[h], doing[h])'
    BY <1>3, <1>4, <1>5 DEF Holds, Sold
  <2>2. \A g \in Handlers : Holds(at[g], doing[g])'
    BY <1>1, <1>6, <1>7, <2>1, Billed DEF Holds
  <2> QED BY <1>1, <1>3, <1>6, <1>7, <2>2 DEF BInv, Shaped, Sold
<1>10. Invoiced'
  BY <1>1, <1>3, <1>6, <1>7 DEF BInv, Invoiced, Sold
<1>11. ASSUME ~raced' PROVE OwnRequest' /\ Bought' /\ (~torn' => Delivered' /\ OneActive' /\ PlanOwed')
  <2>1. OwnRequest /\ Bought /\ (~torn => Delivered /\ OneActive /\ PlanOwed)
    BY <1>1, <1>11 DEF BInv, Undisturbed
  <2>2. OwnRequest'
    BY <1>1, <1>3, <1>5, <2>1, SameRequests DEF Halfway
  <2>3. \A g \in Handlers : (at'[g] \in Buying <=> at[g] \in Buying) /\ doing'[g].req = doing[g].req
    BY <1>3, <1>5, <1>7 DEF Buying
  <2>4. Bought'
    BY <1>1, <1>6, <2>1, <2>3 DEF Bought
  <2>5. ASSUME ~torn' PROVE Delivered'
    BY <1>1, <1>6, <2>1, <2>3, <2>5 DEF Delivered
  <2>6. ASSUME ~torn' PROVE OneActive'
    <3>1. OneActive /\ Active' = {}
      BY <1>1, <1>3, <1>6, <2>1, <2>6 DEF OneActive
    <3>2. \A g \in Handlers : at'[g] \in Replacing => g = h
      BY <1>3, <1>7, <3>1 DEF OneActive, Replacing
    <3> QED BY <1>3, <3>1, <3>2 DEF OneActive, Replacing
  <2>7. ASSUME ~torn' PROVE PlanOwed'
    <3>1. OneActive /\ Active' = {} /\ at'[h] \in Replacing
      BY <1>1, <1>3, <1>6, <2>1, <2>7 DEF OneActive, Replacing
    <3> QED BY <3>1 DEF PlanOwed
  <2> QED BY <2>2, <2>4, <2>5, <2>6, <2>7
<1> QED BY <1>8, <1>9, <1>10, <1>11 DEF BInv, Undisturbed

LEMMA InsertKeeps == ASSUME BInv, NEW h \in Handlers, ApproveInsert(h) PROVE BInv'
<1>1. /\ Go(h, "insert", "upgrade")
      /\ UNCHANGED <<request, ended, plan, invoices, job, raced, torn, deaths>>
      /\ \E s \in Free(sub) : /\ sub' = [sub EXCEPT ![s] = "ACTIVE"]
                              /\ pays' = [pays EXCEPT ![s] = doing[h].req]
                              /\ doing' = [doing EXCEPT ![h].new = s]
  BY DEF ApproveInsert
<1>2. PICK s \in Subs : /\ sub[s] = "none" /\ sub' = [sub EXCEPT ![s] = "ACTIVE"]
                        /\ pays' = [pays EXCEPT ![s] = doing[h].req]
                        /\ doing' = [doing EXCEPT ![h].new = s]
  BY <1>1, Billed DEF Free
<1>3. "upgrade" \in {"idle", "submit", "approve", "reject"} \cup Halfway
  BY DEF Halfway
<1>4. at[h] = "insert" /\ at'[h] = "upgrade"
      /\ at' \in [Handlers -> {"idle", "submit", "approve", "reject"} \cup Halfway]
      /\ \A g \in Handlers \ {h} : at'[g] = at[g]
  BY <1>1, <1>3, Goes
<1>5. /\ doing[h] \in Reviews /\ doing[h].req \in Requests /\ doing[h].old = Nothing
      /\ s \notin Used /\ s \notin ended /\ Used \subseteq Subs /\ ended \subseteq Used
  BY <1>2, <1>4, Billed DEF Holds, Used
<1>6. Alone(h) /\ doing'[h].old = Nothing /\ doing'[h].req = doing[h].req /\ doing'[h].new = s
  <2> DEFINE d == [doing[h] EXCEPT !.new = s]
  <2>1. doing' = [doing EXCEPT ![h] = d]
    BY <1>2
  <2>2. d \in Reviews /\ d.old = Nothing /\ d.req = doing[h].req /\ d.new = s
    BY <1>5 DEF Reviews
  <2> HIDE DEF d
  <2> QED BY <1>4, <2>1, <2>2, Does DEF Alone
<1>7. sub' \in [Subs -> {"none", "ACTIVE", "SUPERSEDED", "EXPIRED"}]
      /\ Used' = Used \cup {s} /\ Active' = Active \cup {s}
  BY <1>2, <1>5, Billed DEF Used, Active
<1>8. pays' \in [Subs -> Requests \cup {Nothing}] /\ pays'[s] = doing[h].req
      /\ \A t \in Subs : t # s => pays'[t] = pays[t]
  BY <1>2, <1>5, Billed
<1>9. \A g \in Handlers : g # h => doing'[g] = doing[g] /\ at'[g] = at[g]
  BY <1>6 DEF Alone
<1>10. BillingTypeOK'
  <2>1. ended' \subseteq Subs /\ invoices' \subseteq Subs
        /\ plan' \in PaidPlans \cup {"free"} /\ job' \in [Replicas -> Jobs]
    BY <1>1 DEF BInv, BillingTypeOK, Jobs
  <2> QED BY <1>1, <1>6, <1>7, <1>8, <2>1, Billed, StillBilled DEF Alone
<1>11. Shaped'
  <2>1. Holds(at[h], doing[h])'
    BY <1>1, <1>4, <1>5, <1>6, <1>7 DEF Holds, Sold
  <2>2. \A g \in Handlers : Holds(at[g], doing[g])'
    BY <1>1, <1>7, <1>9, <2>1, Billed DEF Holds
  <2>3. \A g \in Handlers : g # h /\ at'[g] \in Sold => at[g] \in Sold /\ doing[g].new \in Used
    BY <1>9, Billed DEF Holds
  <2>4. \A f, g \in Handlers : at'[f] \in Sold /\ at'[g] \in Sold /\ doing'[f].new = doing'[g].new => f = g
    <3>1. \A f, g \in Handlers : at[f] \in Sold /\ at[g] \in Sold /\ doing[f].new = doing[g].new => f = g
      BY DEF BInv, Shaped
    <3> QED BY <1>5, <1>6, <1>9, <2>3, <3>1
  <2>5. /\ \A j \in Replicas : job'[j].todo \subseteq ended' /\ (job'[j].at = "look" => job'[j].sub \in ended' \ Active')
        /\ ended' \subseteq Used' /\ invoices' \subseteq Used'
    BY <1>1, <1>5, <1>7 DEF BInv, Shaped
  <2>6. \A t \in Subs \ Used' : pays'[t] = Nothing
    BY <1>7, <1>8 DEF BInv, Shaped
  <2> QED BY <2>2, <2>4, <2>5, <2>6 DEF Shaped
<1>12. Invoiced'
  <2>1. ASSUME ~torn', NEW t \in Used'
        PROVE  t \in invoices' \/ \E g \in Handlers : at'[g] \in Sold /\ doing'[g].new = t
    <3>1. CASE t = s
      BY <1>4, <1>6, <3>1 DEF Sold
    <3>2. CASE t # s
      <4>1. t \in invoices \/ \E g \in Handlers : at[g] \in Sold /\ doing[g].new = t
        BY <1>1, <1>7, <2>1, <3>2 DEF BInv, Invoiced
      <4>2. at[h] \notin Sold
        BY <1>4 DEF Sold
      <4> QED BY <1>1, <1>9, <4>1, <4>2
    <3> QED BY <3>1, <3>2
  <2> QED BY <2>1 DEF Invoiced
<1>13. ASSUME ~raced' PROVE OwnRequest' /\ Bought' /\ (~torn' => Delivered' /\ OneActive' /\ PlanOwed')
  <2>1. OwnRequest /\ Bought /\ (~torn => Delivered /\ OneActive /\ PlanOwed)
    BY <1>1, <1>13 DEF BInv, Undisturbed
  <2>2. OwnRequest'
    BY <1>1, <1>4, <1>6, <2>1, SameRequests DEF Halfway
  <2>3. at[h] \in Halfway /\ at[h] \in Buying /\ request[doing[h].req] = "APPROVED"
    BY <1>4, <2>1 DEF OwnRequest, Halfway, Buying
  <2>4. \A g \in Handlers : at'[g] \in Buying => /\ g # h /\ at[g] \in Buying /\ doing'[g] = doing[g]
                                                 /\ doing[g].req # doing[h].req
    <3>1. \A g \in Handlers : at'[g] \in Buying => g # h /\ at[g] \in Buying /\ doing'[g] = doing[g]
      BY <1>4, <1>9 DEF Buying
    <3> QED BY <2>1, <2>3, <3>1, Steps DEF OwnRequest
  <2>5. \A t \in Used : pays'[t] = pays[t] /\ pays[t] # doing[h].req
    BY <1>5, <1>8, <2>1, <2>3 DEF Bought
  <2>6. Bought'
    <3>1. \A t, u \in Used' : pays'[t] = pays'[u] => t = u
      BY <1>7, <1>8, <2>1, <2>5 DEF Bought
    <3>2. ASSUME NEW t \in Used'
          PROVE  /\ pays'[t] \in Requests /\ request'[pays'[t]] = "APPROVED"
                 /\ \A g \in Handlers : at'[g] \in Buying => doing'[g].req # pays'[t]
      <4>1. CASE t = s
        BY <1>1, <1>5, <1>8, <2>3, <2>4, <4>1
      <4>2. CASE t # s
        <5>1. t \in Used
          BY <1>7, <4>2
        <5> QED BY <1>1, <2>1, <2>4, <2>5, <5>1 DEF Bought
      <4> QED BY <4>1, <4>2
    <3> QED BY <3>1, <3>2 DEF Bought
  <2>7. ASSUME ~torn' PROVE Delivered'
    <3>1. ASSUME NEW r \in Requests, request'[r] = "APPROVED"
          PROVE  \/ \E t \in Used' : pays'[t] = r
                 \/ \E g \in Handlers : at'[g] \in Buying /\ doing'[g].req = r
      <4>1. CASE r = doing[h].req
        BY <1>7, <1>8, <4>1
      <4>2. CASE r # doing[h].req
        <5>1. \/ \E t \in Used : pays[t] = r
              \/ \E g \in Handlers : at[g] \in Buying /\ doing[g].req = r
          BY <1>1, <2>1, <2>7, <3>1 DEF Delivered
        <5> QED BY <1>7, <1>9, <2>5, <4>2, <5>1
      <4> QED BY <4>1, <4>2
    <3> QED BY <3>1 DEF Delivered
  <2>8. ASSUME ~torn' PROVE OneActive'
    <3>1. OneActive /\ Active' = {s}
      BY <1>1, <1>4, <1>7, <2>1, <2>8 DEF OneActive
    <3>2. \A g \in Handlers : at'[g] \in Replacing => g = h
      BY <1>4, <1>9, <3>1 DEF OneActive, Replacing
    <3> QED BY <1>4, <1>6, <1>8, <3>1, <3>2 DEF OneActive, Replacing
  <2>9. ASSUME ~torn' PROVE PlanOwed'
    BY <1>4 DEF PlanOwed, Replacing
  <2> QED BY <2>2, <2>6, <2>7, <2>8, <2>9
<1> QED BY <1>10, <1>11, <1>12, <1>13 DEF BInv, Undisturbed

LEMMA UpgradeKeeps == ASSUME BInv, NEW h \in Handlers, ApproveUpgrade(h) PROVE BInv'
<1>1. /\ Go(h, "upgrade", "invoice") /\ plan' = Wants[doing[h].req]
      /\ UNCHANGED <<request, sub, pays, ended, invoices, doing, job, torn, deaths>>
      /\ raced' = (raced \/ \E j \in Replicas : job[j].at = "downgrade")
  BY DEF ApproveUpgrade
<1>2. "invoice" \in {"idle", "submit", "approve", "reject"} \cup Halfway
  BY DEF Halfway
<1>3. at[h] = "upgrade" /\ at'[h] = "invoice"
      /\ at' \in [Handlers -> {"idle", "submit", "approve", "reject"} \cup Halfway]
      /\ \A g \in Handlers \ {h} : at'[g] = at[g]
  BY <1>1, <1>2, Goes
<1>4. Alone(h) /\ doing' = doing
  BY <1>1, <1>3, Billed DEF Alone
<1>5. doing[h].req \in Requests /\ doing[h].old = Nothing /\ doing[h].new \in Used \ ended
  BY <1>3, Billed DEF Holds, Sold
<1>6. Used' = Used /\ Active' = Active
  BY <1>1 DEF Used, Active
<1>7. \A g \in Handlers : g # h => at'[g] = at[g]
  BY <1>3
<1>8. BillingTypeOK'
  <2>1. /\ sub' \in [Subs -> {"none", "ACTIVE", "SUPERSEDED", "EXPIRED"}]
        /\ pays' \in [Subs -> Requests \cup {Nothing}] /\ ended' \subseteq Subs /\ invoices' \subseteq Subs
        /\ job' \in [Replicas -> Jobs]
    BY <1>1 DEF BInv, BillingTypeOK, Jobs
  <2>2. plan' \in PaidPlans \cup {"free"}
    BY <1>1, <1>5, BillingAssumption
  <2> QED BY <1>1, <1>4, <2>1, <2>2, Billed, StillBilled DEF Alone
<1>9. Shaped'
  <2>1. Holds(at[h], doing[h])'
    BY <1>1, <1>3, <1>4, <1>5, <1>6 DEF Holds, Sold
  <2>2. \A g \in Handlers : Holds(at[g], doing[g])'
    BY <1>1, <1>4, <1>6, <1>7, <2>1, Billed DEF Holds
  <2>3. \A g \in Handlers : at'[g] \in Sold <=> at[g] \in Sold
    BY <1>3, <1>7 DEF Sold
  <2> QED BY <1>1, <1>4, <1>6, <2>2, <2>3 DEF BInv, Shaped
<1>10. Invoiced'
  BY <1>1, <1>3, <1>4, <1>6, <1>7 DEF BInv, Invoiced, Sold
<1>11. ASSUME ~raced' PROVE OwnRequest' /\ Bought' /\ (~torn' => Delivered' /\ OneActive' /\ PlanOwed')
  <2>1. OwnRequest /\ Bought /\ (~torn => Delivered /\ OneActive /\ PlanOwed)
        /\ \A j \in Replicas : job[j].at # "downgrade"
    BY <1>1, <1>11 DEF BInv, Undisturbed
  <2>2. OwnRequest'
    BY <1>1, <1>3, <1>4, <2>1, SameRequests DEF Halfway
  <2>3. \A g \in Handlers : at'[g] \in Buying <=> at[g] \in Buying
    BY <1>3, <1>7 DEF Buying
  <2>4. Bought'
    BY <1>1, <1>6, <2>1, <2>3 DEF Bought
  <2>5. ASSUME ~torn' PROVE Delivered'
    BY <1>1, <1>6, <2>1, <2>3, <2>5 DEF Delivered
  <2>6. ASSUME ~torn' PROVE OneActive'
    <3>1. OneActive
      BY <1>1, <2>1, <2>6
    <3>2. \A g \in Handlers : at'[g] \in Replacing => g # h /\ at'[g] = at[g]
      BY <1>3, <1>7 DEF Replacing
    <3> QED BY <1>1, <1>4, <1>6, <3>1, <3>2 DEF OneActive, Replacing
  <2>7. ASSUME ~torn' PROVE PlanOwed'
    <3>1. Active = {doing[h].new} /\ pays[doing[h].new] = doing[h].req
      BY <1>1, <1>3, <2>1, <2>7 DEF OneActive
    <3>2. PlanRight'
      BY <1>1, <1>6, <3>1 DEF PlanRight
    <3> QED BY <1>1, <2>1, <3>2 DEF PlanOwed
  <2> QED BY <2>2, <2>4, <2>5, <2>6, <2>7
<1> QED BY <1>8, <1>9, <1>10, <1>11 DEF BInv, Undisturbed

LEMMA InvoiceKeeps == ASSUME BInv, NEW h \in Handlers, ApproveInvoice(h) PROVE BInv'
<1>1. /\ Done(h, "invoice") /\ invoices' = invoices \cup {doing[h].new}
      /\ UNCHANGED <<request, sub, pays, ended, plan, job, raced, torn, deaths>>
  BY DEF ApproveInvoice
<1>2. /\ at[h] = "invoice" /\ at'[h] = "idle" /\ doing'[h] = NoReview /\ Alone(h)
      /\ doing[h].new \in Used /\ Used \subseteq Subs
  BY <1>1, Rests, Billed DEF Holds, Sold
<1>3. Used' = Used /\ Active' = Active
  BY <1>1 DEF Used, Active
<1>4. \A g \in Handlers : g # h => at'[g] = at[g] /\ doing'[g] = doing[g]
  BY <1>2 DEF Alone
<1>5. BillingTypeOK'
  <2>1. /\ sub' \in [Subs -> {"none", "ACTIVE", "SUPERSEDED", "EXPIRED"}]
        /\ pays' \in [Subs -> Requests \cup {Nothing}] /\ ended' \subseteq Subs /\ invoices' \subseteq Subs
        /\ plan' \in PaidPlans \cup {"free"} /\ job' \in [Replicas -> Jobs]
    BY <1>1, <1>2 DEF BInv, BillingTypeOK, Jobs
  <2> QED BY <1>1, <1>2, <2>1, Billed, StillBilled DEF Alone
<1>6. \A g \in Handlers : at'[g] \in Halfway => g # h
  BY <1>2, Steps
<1>7. Shaped'
  <2>1. Holds(at[h], doing[h])'
    BY <1>2 DEF Holds, Sold, NoReview
  <2>2. \A g \in Handlers : Holds(at[g], doing[g])'
    BY <1>1, <1>3, <1>4, <2>1, Billed DEF Holds
  <2>3. \A g \in Handlers : at'[g] \in Sold => g # h
    BY <1>6, Steps
  <2> QED BY <1>1, <1>2, <1>3, <1>4, <2>2, <2>3 DEF BInv, Shaped
<1>8. Invoiced'
  <2>1. ASSUME ~torn', NEW s \in Used'
        PROVE  s \in invoices' \/ \E g \in Handlers : at'[g] \in Sold /\ doing'[g].new = s
    <3>1. s \in invoices \/ \E g \in Handlers : at[g] \in Sold /\ doing[g].new = s
      BY <1>1, <1>3, <2>1 DEF BInv, Invoiced
    <3> QED BY <1>1, <1>4, <3>1
  <2> QED BY <2>1 DEF Invoiced
<1>9. ASSUME ~raced' PROVE OwnRequest' /\ Bought' /\ (~torn' => Delivered' /\ OneActive' /\ PlanOwed')
  <2>1. OwnRequest /\ Bought /\ (~torn => Delivered /\ OneActive /\ PlanOwed)
    BY <1>1, <1>9 DEF BInv, Undisturbed
  <2>2. OwnRequest'
    BY <1>1, <1>4, <1>6, <2>1 DEF OwnRequest
  <2>3. /\ \A g \in Handlers : at'[g] \in Buying \cup Replacing => g # h
        /\ \A g \in Handlers : at[g] \in Buying \cup Replacing => g # h
    BY <1>2, <1>6, Steps DEF Buying
  <2>4. Bought'
    BY <1>1, <1>3, <1>4, <2>1, <2>3 DEF Bought
  <2>5. ASSUME ~torn' PROVE Delivered'
    BY <1>1, <1>3, <1>4, <2>1, <2>3, <2>5 DEF Delivered
  <2>6. ASSUME ~torn' PROVE OneActive'
    <3>1. OneActive
      BY <1>1, <2>1, <2>6
    <3> QED BY <1>1, <1>3, <1>4, <2>3, <3>1, Steps DEF OneActive
  <2>7. ASSUME ~torn' PROVE PlanOwed'
    <3>1. PlanOwed /\ PlanRight' = PlanRight
      BY <1>1, <1>3, <2>1, <2>7 DEF PlanRight
    <3>2. \A g \in Handlers : at[g] \in Replacing => at'[g] = at[g]
      BY <1>4, <2>3
    <3> QED BY <1>1, <1>3, <3>1, <3>2, Steps DEF PlanOwed
  <2> QED BY <2>2, <2>4, <2>5, <2>6, <2>7
<1> QED BY <1>5, <1>7, <1>8, <1>9 DEF BInv, Undisturbed

\* What the daily job and the calendar leave to the approvals.
LEMMA JobAside ==
  ASSUME BInv, UNCHANGED <<request, pays, invoices, at, doing, raced>>, ~torn' => ~torn,
         Used' = Used, ended' \subseteq Used, ended \subseteq ended', Active' \subseteq Active,
         \A h \in Handlers : at[h] \in Sold => doing[h].new \notin ended',
         \A j \in Replicas : /\ job'[j].todo \subseteq ended'
                             /\ job'[j].at = "look" => job'[j].sub \in ended' \ Active'
  PROVE  /\ Shaped' /\ Invoiced'
         /\ ~raced' => OwnRequest' /\ Bought' /\ (~torn' => Delivered')
         /\ ~raced' /\ ~torn' => OneActive /\ PlanOwed
<1>1. Shaped'
  <2>1. \A h \in Handlers : Holds(at[h], doing[h])'
    BY DEF BInv, Shaped, Holds
  <2> QED BY <2>1 DEF BInv, Shaped
<1>2. Invoiced'
  BY DEF BInv, Invoiced
<1>3. ~raced' => OwnRequest' /\ Bought' /\ (~torn' => Delivered')
  BY DEF BInv, Undisturbed, OwnRequest, Bought, Delivered
<1>4. ~raced' /\ ~torn' => OneActive /\ PlanOwed
  BY DEF BInv, Undisturbed
<1> QED BY <1>1, <1>2, <1>3, <1>4

LEMMA SameActive ==
  ASSUME UNCHANGED <<pays, at, doing>>, Active' = Active, OneActive
  PROVE  OneActive'
BY DEF OneActive

LEMMA StillBooks ==
  ASSUME BInv, UNCHANGED <<request, pays, invoices, at, doing, raced>>
  PROVE  /\ request' \in [Requests -> {"none", "PENDING", "APPROVED", "REJECTED"}]
         /\ pays' \in [Subs -> Requests \cup {Nothing}] /\ invoices' \subseteq Subs
         /\ at' \in [Handlers -> {"idle", "submit", "approve", "reject"} \cup Halfway]
         /\ doing' \in [Handlers -> Reviews] /\ raced' \in BOOLEAN
         /\ \A h \in Handlers : at[h] \in Sold => doing[h].new \notin ended
         /\ ended \subseteq Used /\ Used \subseteq Subs
         /\ \A j \in Replicas : /\ job[j].todo \subseteq ended
                                /\ job[j].at = "look" => job[j].sub \in ended \ Active
BY Billed DEF BInv, BillingTypeOK, Reviews, Shaped, Holds

LEMMA Runs ==
  ASSUME BInv, NEW j \in Replicas, NEW d \in Jobs, job' = [job EXCEPT ![j] = d]
  PROVE  /\ job'[j] = d /\ job' \in [Replicas -> Jobs]
         /\ \A k \in Replicas \ {j} : job'[k] = job[k]
BY Billed

LEMMA ListKeeps == ASSUME BInv, NEW j \in Replicas, ExpireList(j) PROVE BInv'
<1> DEFINE d == [job[j] EXCEPT !.at = "mark", !.todo = Active \cap ended]
<1>1. /\ job[j].at = "idle" /\ job' = [job EXCEPT ![j] = d]
      /\ UNCHANGED <<request, sub, pays, ended, plan, invoices, at, doing, raced, torn, deaths>>
  BY DEF ExpireList, books
<1>2. Active \subseteq Subs /\ job[j] \in Jobs
  BY Billed DEF Active
<1>3. d \in Jobs /\ d.at = "mark" /\ d.todo = Active \cap ended
  BY <1>2 DEF Jobs
<1> HIDE DEF d
<1>4. /\ job'[j].at = "mark" /\ job'[j].todo \subseteq ended /\ job' \in [Replicas -> Jobs]
      /\ \A k \in Replicas \ {j} : job'[k] = job[k]
  BY <1>1, <1>3, Runs
<1>5. Used' = Used /\ Active' = Active
  BY <1>1 DEF Used, Active
<1>6. BillingTypeOK'
  <2>1. sub' \in [Subs -> {"none", "ACTIVE", "SUPERSEDED", "EXPIRED"}] /\ ended' \subseteq Subs
        /\ plan' \in PaidPlans \cup {"free"} /\ torn' \in BOOLEAN /\ deaths' \in 0 .. MaxDeaths
    BY <1>1 DEF BInv, BillingTypeOK
  <2> QED BY <1>1, <1>4, <2>1, StillBooks, StillBilled
<1>7. \A k \in Replicas : /\ job'[k].todo \subseteq ended'
                          /\ job'[k].at = "look" => job'[k].sub \in ended' \ Active'
  BY <1>1, <1>4, <1>5, StillBooks
<1>8. /\ Shaped' /\ Invoiced' /\ (~raced' => OwnRequest' /\ Bought' /\ (~torn' => Delivered'))
      /\ ~raced' /\ ~torn' => OneActive /\ PlanOwed
  BY <1>1, <1>5, <1>7, StillBooks, JobAside
<1>9. ASSUME ~raced', ~torn' PROVE OneActive' /\ PlanOwed'
  <2>1. OneActive /\ PlanOwed
    BY <1>8, <1>9
  <2>2. PlanRight' = PlanRight
    BY <1>1, <1>5 DEF PlanRight
  <2>3. \A k \in Replicas : /\ job[k].at \in {"look", "downgrade"} => job'[k].at = job[k].at
                            /\ job'[k].at = "downgrade" => job[k].at = "downgrade"
    BY <1>1, <1>4
  <2> QED BY <1>1, <1>5, <2>1, <2>2, <2>3, SameActive DEF PlanOwed
<1> QED BY <1>6, <1>8, <1>9 DEF BInv, Undisturbed

LEMMA ExpireMarkKeeps == ASSUME BInv, NEW j \in Replicas, ExpireMark(j) PROVE BInv'
<1>1. /\ job[j].at = "mark"
      /\ \E s \in job[j].todo :
           /\ sub' = [sub EXCEPT ![s] = "EXPIRED"]
           /\ job' = [job EXCEPT ![j].at = "look", ![j].todo = @ \ {s}, ![j].sub = s]
      /\ UNCHANGED <<request, pays, ended, plan, invoices, at, doing, raced, torn, deaths>>
  BY DEF ExpireMark
<1>2. PICK s \in job[j].todo :
           /\ sub' = [sub EXCEPT ![s] = "EXPIRED"]
           /\ job' = [job EXCEPT ![j].at = "look", ![j].todo = @ \ {s}, ![j].sub = s]
  BY <1>1
<1> DEFINE d == [job[j] EXCEPT !.at = "look", !.todo = @ \ {s}, !.sub = s]
<1>3. job' = [job EXCEPT ![j] = d]
  BY <1>2
<1>4. job[j] \in Jobs /\ s \in ended /\ s \in Used /\ s \in Subs /\ job[j].todo \subseteq ended
  BY <1>2, Billed, StillBooks, <1>1
<1>5. d \in Jobs /\ d.at = "look" /\ d.todo = job[j].todo \ {s} /\ d.sub = s
  BY <1>4 DEF Jobs
<1> HIDE DEF d
<1>6. /\ job'[j].at = "look" /\ job'[j].todo = job[j].todo \ {s} /\ job'[j].sub = s
      /\ job' \in [Replicas -> Jobs] /\ \A k \in Replicas \ {j} : job'[k] = job[k]
  BY <1>3, <1>5, Runs
<1>7. sub' \in [Subs -> {"none", "ACTIVE", "SUPERSEDED", "EXPIRED"}]
      /\ Used' = Used /\ Active' = Active \ {s}
  BY <1>2, <1>4, Billed DEF Used, Active
<1>8. BillingTypeOK'
  <2>1. ended' \subseteq Subs
        /\ plan' \in PaidPlans \cup {"free"} /\ torn' \in BOOLEAN /\ deaths' \in 0 .. MaxDeaths
    BY <1>1 DEF BInv, BillingTypeOK
  <2> QED BY <1>1, <1>6, <1>7, <2>1, StillBooks, StillBilled
<1>9. \A k \in Replicas : /\ job'[k].todo \subseteq ended'
                          /\ job'[k].at = "look" => job'[k].sub \in ended' \ Active'
  <2>1. \A k \in Replicas : /\ job[k].todo \subseteq ended
                            /\ job[k].at = "look" => job[k].sub \in ended \ Active
    BY <1>1, StillBooks
  <2> QED BY <1>1, <1>4, <1>6, <1>7, <2>1
<1>10. /\ Shaped' /\ Invoiced' /\ (~raced' => OwnRequest' /\ Bought' /\ (~torn' => Delivered'))
       /\ ~raced' /\ ~torn' => OneActive /\ PlanOwed
  BY <1>1, <1>7, <1>9, StillBooks, JobAside
<1>11. ASSUME ~raced', ~torn' PROVE OneActive' /\ PlanOwed'
  <2>1. OneActive /\ PlanOwed
    BY <1>10, <1>11
  <2>2. \A h \in Handlers : at[h] = "upgrade" => doing[h].new # s
    BY <1>1, <1>4, StillBooks DEF Sold
  <2>3. OneActive'
    BY <1>1, <1>7, <2>1, <2>2 DEF OneActive
  <2>4. Active' = {} \/ Active' = Active
    BY <1>7, <2>1 DEF OneActive
  <2>5. \A k \in Replicas : job'[k].at = "downgrade" => job[k].at = "downgrade"
    BY <1>6
  <2>6. \A k \in Replicas : job'[k].at = "downgrade" =>
          Active' = {} \/ \E h \in Handlers : at'[h] = "upgrade"
    BY <1>1, <2>1, <2>4, <2>5 DEF PlanOwed
  <2>7. CASE Active' = {}
    <3>1. PlanOwed'
      BY <1>6, <2>6, <2>7 DEF PlanOwed
    <3> QED BY <2>3, <3>1
  <2>8. CASE Active' # {}
    <3>1. Active' = Active /\ Active # {}
      BY <2>4, <2>8
    <3>2. PlanRight' = PlanRight
      BY <1>1, <3>1 DEF PlanRight
    <3>3. PlanRight \/ \E h \in Handlers : at[h] \in Replacing
      BY <2>1, <3>1 DEF PlanOwed
    <3>4. PlanOwed'
      BY <1>1, <2>6, <3>2, <3>3 DEF PlanOwed
    <3> QED BY <2>3, <3>4
  <2> QED BY <2>3, <2>7, <2>8
<1> QED BY <1>8, <1>10, <1>11 DEF BInv, Undisturbed

LEMMA ExpireLookKeeps == ASSUME BInv, NEW j \in Replicas, ExpireLook(j) PROVE BInv'
<1> DEFINE to == IF Active \subseteq {job[j].sub} THEN "downgrade" ELSE NextOf(j)
           d == [job[j] EXCEPT !.at = to, !.sub = Nothing]
<1>1. /\ job[j].at = "look" /\ job' = [job EXCEPT ![j] = d]
      /\ UNCHANGED <<request, sub, pays, ended, plan, invoices, at, doing, raced, torn, deaths>>
  BY DEF ExpireLook, books
<1>2. job[j] \in Jobs /\ to \in {"idle", "mark", "downgrade"}
  BY Billed DEF NextOf
<1>3. to = "downgrade" => Active \subseteq {job[j].sub}
  BY DEF NextOf
<1>4. to # "downgrade" => Active # {}
  OBVIOUS
<1> HIDE DEF to
<1>5. d \in Jobs /\ d.at = to /\ d.todo = job[j].todo
  BY <1>2 DEF Jobs
<1> HIDE DEF d
<1>6. /\ job'[j].at = to /\ job'[j].todo = job[j].todo
      /\ job' \in [Replicas -> Jobs] /\ \A k \in Replicas \ {j} : job'[k] = job[k]
  BY <1>1, <1>5, Runs
<1>7. Used' = Used /\ Active' = Active
  BY <1>1 DEF Used, Active
<1>8. BillingTypeOK'
  <2>1. sub' \in [Subs -> {"none", "ACTIVE", "SUPERSEDED", "EXPIRED"}] /\ ended' \subseteq Subs
        /\ plan' \in PaidPlans \cup {"free"} /\ torn' \in BOOLEAN /\ deaths' \in 0 .. MaxDeaths
    BY <1>1 DEF BInv, BillingTypeOK
  <2> QED BY <1>1, <1>6, <2>1, StillBooks, StillBilled
<1>9. \A k \in Replicas : /\ job[k].todo \subseteq ended
                          /\ job[k].at = "look" => job[k].sub \in ended \ Active
  BY <1>1, StillBooks
<1>10. \A k \in Replicas : /\ job'[k].todo \subseteq ended'
                           /\ job'[k].at = "look" => job'[k].sub \in ended' \ Active'
  BY <1>1, <1>2, <1>6, <1>7, <1>9
<1>11. /\ Shaped' /\ Invoiced' /\ (~raced' => OwnRequest' /\ Bought' /\ (~torn' => Delivered'))
       /\ ~raced' /\ ~torn' => OneActive /\ PlanOwed
  BY <1>1, <1>7, <1>10, StillBooks, JobAside
<1>12. ASSUME ~raced', ~torn' PROVE OneActive' /\ PlanOwed'
  <2>1. OneActive /\ PlanOwed
    BY <1>11, <1>12
  <2>2. OneActive'
    BY <1>1, <1>7, <2>1, SameActive
  <2>3. PlanRight' = PlanRight
    BY <1>1, <1>7 DEF PlanRight
  <2>4. CASE to = "downgrade"
    <3>1. Active = {}
      BY <1>1, <1>3, <1>9, <2>4
    <3>2. job'[j].at = "downgrade" /\ Active' = {}
      BY <1>6, <1>7, <2>4, <3>1
    <3>3. PlanOwed'
      BY <3>2 DEF PlanOwed
    <3> QED BY <2>2, <3>3
  <2>5. CASE to # "downgrade"
    <3>1. \A k \in Replicas : job'[k].at = "downgrade" => job[k].at = "downgrade"
      BY <1>6, <2>5
    <3>2. PlanRight' \/ \E h \in Handlers : at'[h] \in Replacing
      BY <1>1, <1>4, <2>1, <2>3, <2>5 DEF PlanOwed
    <3>3. \A k \in Replicas : job'[k].at = "downgrade" =>
            Active' = {} \/ \E h \in Handlers : at'[h] = "upgrade"
      BY <1>1, <1>7, <2>1, <3>1 DEF PlanOwed
    <3>4. PlanOwed'
      BY <3>2, <3>3 DEF PlanOwed
    <3> QED BY <2>2, <3>4
  <2> QED BY <2>2, <2>4, <2>5
<1> QED BY <1>8, <1>11, <1>12 DEF BInv, Undisturbed

LEMMA DowngradeKeeps == ASSUME BInv, NEW j \in Replicas, ExpireDowngrade(j) PROVE BInv'
<1> DEFINE to == NextOf(j)
           d == [job[j] EXCEPT !.at = to]
<1>1. /\ job[j].at = "downgrade" /\ plan' = "free" /\ job' = [job EXCEPT ![j] = d]
      /\ UNCHANGED <<request, sub, pays, ended, invoices, at, doing, raced, torn, deaths>>
  BY DEF ExpireDowngrade
<1>2. job[j] \in Jobs /\ to \in {"idle", "mark"}
  BY Billed DEF NextOf
<1> HIDE DEF to
<1>3. d \in Jobs /\ d.at = to /\ d.todo = job[j].todo
  BY <1>2 DEF Jobs
<1> HIDE DEF d
<1>4. /\ job'[j].at = to /\ job'[j].todo = job[j].todo
      /\ job' \in [Replicas -> Jobs] /\ \A k \in Replicas \ {j} : job'[k] = job[k]
  BY <1>1, <1>3, Runs
<1>5. Used' = Used /\ Active' = Active
  BY <1>1 DEF Used, Active
<1>6. BillingTypeOK'
  <2>1. sub' \in [Subs -> {"none", "ACTIVE", "SUPERSEDED", "EXPIRED"}] /\ ended' \subseteq Subs
        /\ plan' \in PaidPlans \cup {"free"} /\ torn' \in BOOLEAN /\ deaths' \in 0 .. MaxDeaths
    BY <1>1 DEF BInv, BillingTypeOK
  <2> QED BY <1>1, <1>4, <2>1, StillBooks, StillBilled
<1>7. \A k \in Replicas : /\ job[k].todo \subseteq ended
                          /\ job[k].at = "look" => job[k].sub \in ended \ Active
  BY <1>1, StillBooks
<1>8. \A k \in Replicas : /\ job'[k].todo \subseteq ended'
                          /\ job'[k].at = "look" => job'[k].sub \in ended' \ Active'
  BY <1>1, <1>2, <1>4, <1>5, <1>7
<1>9. /\ Shaped' /\ Invoiced' /\ (~raced' => OwnRequest' /\ Bought' /\ (~torn' => Delivered'))
      /\ ~raced' /\ ~torn' => OneActive /\ PlanOwed
  BY <1>1, <1>5, <1>8, StillBooks, JobAside
<1>10. ASSUME ~raced', ~torn' PROVE OneActive' /\ PlanOwed'
  <2>1. OneActive /\ PlanOwed
    BY <1>9, <1>10
  <2>2. OneActive'
    BY <1>1, <1>5, <2>1, SameActive
  <2>3. Active = {} \/ \E h \in Handlers : at[h] = "upgrade"
    BY <1>1, <2>1 DEF PlanOwed
  <2>4. PlanRight' \/ \E h \in Handlers : at'[h] \in Replacing
    <3>1. CASE Active = {}
      BY <1>1, <1>5, <3>1 DEF PlanRight
    <3>2. CASE \E h \in Handlers : at[h] = "upgrade"
      BY <1>1, <3>2, Steps
    <3> QED BY <2>3, <3>1, <3>2
  <2>5. \A k \in Replicas : job'[k].at = "downgrade" =>
          Active' = {} \/ \E h \in Handlers : at'[h] = "upgrade"
    BY <1>1, <1>5, <2>3
  <2>6. PlanOwed'
    BY <2>4, <2>5 DEF PlanOwed
  <2> QED BY <2>2, <2>6
<1> QED BY <1>6, <1>9, <1>10 DEF BInv, Undisturbed

LEMMA CrashJobKeeps == ASSUME BInv, NEW j \in Replicas, CrashJob(j) PROVE BInv'
<1> DEFINE d == [at |-> "idle", todo |-> {}, sub |-> Nothing]
<1>1. /\ job' = [job EXCEPT ![j] = d] /\ torn' = (torn \/ job[j].at \in {"look", "downgrade"})
      /\ deaths < MaxDeaths /\ deaths' = deaths + 1
      /\ UNCHANGED <<request, sub, pays, ended, plan, invoices, at, doing, raced>>
  BY DEF CrashJob, books
<1>2. d \in Jobs /\ d.at = "idle" /\ d.todo = {}
  BY DEF Jobs
<1> HIDE DEF d
<1>3. /\ job'[j].at = "idle" /\ job'[j].todo = {}
      /\ job' \in [Replicas -> Jobs] /\ \A k \in Replicas \ {j} : job'[k] = job[k]
  BY <1>1, <1>2, Runs
<1>4. Used' = Used /\ Active' = Active
  BY <1>1 DEF Used, Active
<1>5. BillingTypeOK'
  <2>1. sub' \in [Subs -> {"none", "ACTIVE", "SUPERSEDED", "EXPIRED"}] /\ ended' \subseteq Subs
        /\ plan' \in PaidPlans \cup {"free"}
    BY <1>1 DEF BInv, BillingTypeOK
  <2>2. torn' \in BOOLEAN /\ deaths' \in 0 .. MaxDeaths
    BY <1>1, Billed, BillingAssumption
  <2> QED BY <1>1, <1>3, <2>1, <2>2, StillBooks, StillBilled
<1>6. \A k \in Replicas : /\ job'[k].todo \subseteq ended'
                          /\ job'[k].at = "look" => job'[k].sub \in ended' \ Active'
  BY <1>1, <1>3, <1>4, StillBooks
<1>7. /\ Shaped' /\ Invoiced' /\ (~raced' => OwnRequest' /\ Bought' /\ (~torn' => Delivered'))
      /\ ~raced' /\ ~torn' => OneActive /\ PlanOwed
  BY <1>1, <1>4, <1>6, StillBooks, JobAside
<1>8. ASSUME ~raced', ~torn' PROVE OneActive' /\ PlanOwed'
  <2>1. OneActive /\ PlanOwed
    BY <1>7, <1>8
  <2>2. PlanRight' = PlanRight
    BY <1>1, <1>4 DEF PlanRight
  <2>3. \A k \in Replicas : /\ job[k].at \in {"look", "downgrade"} => job'[k].at = job[k].at
                            /\ job'[k].at = "downgrade" => job[k].at = "downgrade"
    BY <1>1, <1>3, <1>8
  <2> QED BY <1>1, <1>4, <2>1, <2>2, <2>3, SameActive DEF PlanOwed
<1> QED BY <1>5, <1>7, <1>8 DEF BInv, Undisturbed

LEMMA LapseKeeps == ASSUME BInv, NEW s \in Subs, Lapse(s) PROVE BInv'
<1>1. /\ sub[s] = "ACTIVE" /\ ended' = ended \cup {s} /\ \A h \in Handlers : doing[h].new # s
      /\ UNCHANGED <<request, sub, pays, plan, invoices, at, doing, job, raced, torn, deaths>>
  BY DEF Lapse
<1>2. Used' = Used /\ Active' = Active /\ s \in Used
  BY <1>1 DEF Used, Active
<1>3. /\ ended' \subseteq Used /\ Used \subseteq Subs
      /\ \A h \in Handlers : at[h] \in Sold => doing[h].new \notin ended'
      /\ \A k \in Replicas : /\ job'[k].todo \subseteq ended'
                             /\ job'[k].at = "look" => job'[k].sub \in ended' \ Active'
  BY <1>1, <1>2, StillBooks
<1>4. BillingTypeOK'
  <2>1. sub' \in [Subs -> {"none", "ACTIVE", "SUPERSEDED", "EXPIRED"}] /\ job' \in [Replicas -> Jobs]
        /\ plan' \in PaidPlans \cup {"free"} /\ torn' \in BOOLEAN /\ deaths' \in 0 .. MaxDeaths
    BY <1>1 DEF BInv, BillingTypeOK, Jobs
  <2>2. ended' \subseteq Subs
    BY <1>3
  <2> QED BY <1>1, <2>1, <2>2, StillBooks, StillBilled
<1>5. /\ Shaped' /\ Invoiced' /\ (~raced' => OwnRequest' /\ Bought' /\ (~torn' => Delivered'))
      /\ ~raced' /\ ~torn' => OneActive /\ PlanOwed
  <2>1. ended \subseteq ended'
    BY <1>1
  <2> QED BY <1>1, <1>2, <1>3, <2>1, JobAside
<1>6. ASSUME ~raced', ~torn' PROVE OneActive' /\ PlanOwed'
  <2>1. OneActive /\ PlanOwed /\ PlanRight' = PlanRight
    BY <1>1, <1>2, <1>5, <1>6 DEF PlanRight
  <2> QED BY <1>1, <1>2, <2>1, SameActive DEF PlanOwed
<1> QED BY <1>4, <1>5, <1>6 DEF BInv, Undisturbed

-----------------------------------------------------------------------------

LEMMA BillingStarts == BillingInit => BInv
<1> SUFFICES ASSUME BillingInit PROVE BInv
  OBVIOUS
<1> USE DEF BillingInit
<1>1. /\ \A r \in Requests : request[r] = "none"
      /\ \A s \in Subs : sub[s] = "none" /\ pays[s] = Nothing
      /\ \A h \in Handlers : at[h] = "idle" /\ doing[h] = NoReview
      /\ \A j \in Replicas : job[j].at = "idle" /\ job[j].todo = {}
      /\ ended = {} /\ invoices = {} /\ plan = "free"
  OBVIOUS
<1>2. Used = {} /\ Active = {}
  BY <1>1 DEF Used, Active
<1>3. BillingTypeOK
  <2>1. NoReview \in [req: Requests \cup {Nothing}, old: Subs \cup {Nothing}, new: Subs \cup {Nothing}]
    BY DEF NoReview
  <2>2. doing \in [Handlers -> [req: Requests \cup {Nothing}, old: Subs \cup {Nothing},
                               new: Subs \cup {Nothing}]]
    BY <2>1
  <2>3. job \in [Replicas -> [at: {"idle", "mark", "look", "downgrade"}, todo: SUBSET Subs,
                              sub: Subs \cup {Nothing}]]
    OBVIOUS
  <2>4. at \in [Handlers -> {"idle", "submit", "approve", "reject"} \cup Halfway]
    OBVIOUS
  <2>5. request \in [Requests -> {"none", "PENDING", "APPROVED", "REJECTED"}]
        /\ sub \in [Subs -> {"none", "ACTIVE", "SUPERSEDED", "EXPIRED"}]
        /\ pays \in [Subs -> Requests \cup {Nothing}]
    OBVIOUS
  <2>6. deaths \in 0 .. MaxDeaths /\ {raced, torn} \subseteq BOOLEAN
    <3>1. MaxDeaths \in Nat
      BY BillingAssumption
    <3>2. deaths \in 0 .. MaxDeaths
      BY <3>1
    <3>3. {raced, torn} \subseteq BOOLEAN
      OBVIOUS
    <3> QED BY <3>2, <3>3
  <2>7. ended \subseteq Subs /\ invoices \subseteq Subs /\ plan \in PaidPlans \cup {"free"}
    OBVIOUS
  <2> HIDE DEF BillingInit
  <2> QED BY <2>2, <2>3, <2>4, <2>5, <2>6, <2>7 DEF BillingTypeOK
<1> USE DEF Buying, Sold, Replacing, Halfway
<1>4. Shaped
  BY <1>1, <1>2 DEF Shaped, Holds, NoReview
<1>5. Invoiced
  BY <1>2 DEF Invoiced
<1>6. OwnRequest /\ Bought /\ Delivered
  BY <1>1, <1>2 DEF OwnRequest, Bought, Delivered
<1>7. OneActive
  BY <1>1, <1>2 DEF OneActive
<1>8. PlanRight
  BY <1>1, <1>2 DEF PlanRight
<1>9. PlanOwed
  BY <1>1, <1>8 DEF PlanOwed
<1> QED BY <1>3, <1>4, <1>5, <1>6, <1>7, <1>9 DEF BInv, Undisturbed

LEMMA BillingKeeps == BInv /\ [BillingNext]_billingVars => BInv'
<1> SUFFICES ASSUME BInv, [BillingNext]_billingVars PROVE BInv'
  OBVIOUS
<1>1. ASSUME NEW h \in Handlers, Submit(h) \/ RejectMark(h) \/ CrashHandler(h) PROVE BInv'
  BY <1>1, BeforeKeeps DEF Submit
<1>2. ASSUME NEW h \in Handlers, NEW r \in Requests, NEW verdict \in {"approve", "reject"},
             ReviewRead(h, r, verdict)
      PROVE  BInv'
  BY <1>2, BeforeKeeps
<1>3. ASSUME NEW h \in Handlers, Approve(h) PROVE BInv'
  BY <1>3, MarkKeeps, LookKeeps, SupersedeKeeps, InsertKeeps, UpgradeKeeps, InvoiceKeeps DEF Approve
<1>4. ASSUME NEW j \in Replicas, Expire(j) \/ CrashJob(j) PROVE BInv'
  BY <1>4, ListKeeps, ExpireMarkKeeps, ExpireLookKeeps, DowngradeKeeps, CrashJobKeeps DEF Expire
<1>5. ASSUME NEW s \in Subs, Lapse(s) PROVE BInv'
  BY <1>5, LapseKeeps
<1>6. CASE UNCHANGED billingVars
  <2>1. /\ UNCHANGED <<request, sub, pays, ended, plan, invoices, at, doing, job, raced, torn, deaths>>
        /\ Used' = Used /\ Active' = Active
    BY <1>6 DEF billingVars, Used, Active
  <2>2. /\ BillingTypeOK' = BillingTypeOK /\ Shaped' = Shaped /\ Invoiced' = Invoiced
        /\ OwnRequest' = OwnRequest /\ Bought' = Bought /\ Delivered' = Delivered
    BY <2>1 DEF BillingTypeOK, Shaped, Holds, Invoiced, OwnRequest, Bought, Delivered
  <2>3. OneActive' = OneActive /\ PlanOwed' = PlanOwed
    BY <2>1 DEF OneActive, PlanOwed, PlanRight
  <2> QED BY <2>1, <2>2, <2>3 DEF BInv, Undisturbed
<1> QED BY <1>1, <1>2, <1>3, <1>4, <1>5, <1>6 DEF BillingNext

LEMMA BillingAlways == BillingSpec => []BInv
BY BillingStarts, BillingKeeps, PTL DEF BillingSpec

\* Everything in the books has its shape, after every race and death: a subscription's
\* paymentRequestId is a request, what a coroutine holds was found or made by it
\* (approve_payment, expire_subscriptions).
THEOREM BooksTyped == BillingSpec => []BillingTypeOK
<1>1. BInv => BillingTypeOK
  BY DEF BInv
<1> QED BY <1>1, BillingAlways, PTL

LEMMA Balanced == BInv => BooksBalance
<1> SUFFICES ASSUME BInv, ~raced, ~torn, \A h \in Handlers : at[h] \notin Halfway,
                    \A j \in Replicas : job[j].at \in {"idle", "mark"}
             PROVE  /\ Cardinality(Active) <= 1
                    /\ {plan} = IF Active = {} THEN {"free"} ELSE {Wants[pays[s]] : s \in Active}
                    /\ invoices = {s \in Subs : sub[s] # "none"}
                    /\ \A r \in Requests :
                         Cardinality({s \in Subs : pays[s] = r}) = IF request[r] = "APPROVED" THEN 1 ELSE 0
  BY DEF BooksBalance
<1>1. Shaped /\ Invoiced /\ Bought /\ Delivered /\ OneActive /\ PlanOwed
  BY DEF BInv, Undisturbed
<1>2. \A h \in Handlers : at[h] \notin Buying /\ at[h] \notin Sold /\ at[h] \notin Replacing
  BY Steps
<1>3. Active = {} \/ \E s \in Active : Active = {s}
  BY <1>1 DEF OneActive
<1>4. Cardinality(Active) <= 1
  <2>1. CASE Active = {}
    <3>1. Cardinality(Active) = 0
      BY <2>1, FS_EmptySet
    <3> QED BY <3>1
  <2>2. CASE \E s \in Active : Active = {s}
    <3>1. Cardinality(Active) = 1
      BY <2>2, FS_Singleton
    <3> QED BY <3>1
  <2> QED BY <1>3, <2>1, <2>2
<1>5. {plan} = IF Active = {} THEN {"free"} ELSE {Wants[pays[s]] : s \in Active}
  <2>1. PlanRight
    BY <1>1, <1>2 DEF PlanOwed
  <2>2. CASE Active = {}
    BY <2>1, <2>2 DEF PlanRight
  <2>3. CASE Active # {}
    <3>1. PICK s \in Active : Active = {s}
      BY <1>3, <2>3
    <3>2. plan = Wants[pays[s]]
      BY <2>1, <2>3 DEF PlanRight
    <3>3. {Wants[pays[t]] : t \in Active} = {Wants[pays[s]]}
      BY <3>1
    <3> QED BY <2>3, <3>2, <3>3
  <2> QED BY <2>2, <2>3
<1>6. invoices = {s \in Subs : sub[s] # "none"}
  <2>1. invoices = Used
    BY <1>1, <1>2 DEF Shaped, Invoiced
  <2> QED BY <2>1 DEF Used
<1>7. ASSUME NEW r \in Requests
      PROVE  Cardinality({s \in Subs : pays[s] = r}) = IF request[r] = "APPROVED" THEN 1 ELSE 0
  <2>1. r # Nothing
    BY DEF Requests, Nothing
  <2>2. \A s \in Subs : pays[s] = r => s \in Used
    BY <1>1, <2>1 DEF Shaped
  <2>3. CASE request[r] = "APPROVED"
    <3>1. PICK s \in Used : pays[s] = r
      BY <1>1, <1>2, <2>3 DEF Delivered
    <3>2. \A t \in Subs : pays[t] = r <=> t = s
      BY <1>1, <2>2, <3>1 DEF Bought, Used
    <3>3. s \in Subs
      BY DEF Used
    <3>4. {t \in Subs : pays[t] = r} = {s}
      BY <3>2, <3>3
    <3> QED BY <2>3, <3>4, FS_Singleton
  <2>4. CASE request[r] # "APPROVED"
    <3>1. \A s \in Subs : pays[s] # r
      BY <1>1, <2>2, <2>4 DEF Bought
    <3>2. {s \in Subs : pays[s] = r} = {}
      BY <3>1
    <3> QED BY <2>4, <3>2, FS_EmptySet
  <2> QED BY <2>3, <2>4
<1> QED BY <1>4, <1>5, <1>6, <1>7

\* The books balance whenever no approval is under way and no job between its writes, if
\* neither races nor deaths disturbed them: for any number of coroutines and of replicas, of
\* requests and of subscriptions, the interleavings of approvals, refusals and daily jobs
\* leave one active subscription at most, its plan, its invoice, and one per approved request
\* (approve_payment, reject_payment, expire_subscriptions).
THEOREM BooksAlwaysBalance == BillingSpec => []BooksBalance
BY Balanced, BillingAlways, PTL

=============================================================================
