# Secure Vault: TLA+ models, checks and proofs

Secure Vault keeps a user's digital assets and hands them to nominees when the
user is gone. The backend is a FastAPI process (`src/backend/app`) over MongoDB,
with an APScheduler inside the API process and separate worker daemons; the
frontend is a Next.js application (`src/frontend`) whose pages run in the
browsers of owners, nominees and admins. This directory holds TLA+ models of the
parts whose correctness depends on *order*: what may happen between two
`await`s, two processes, two tabs, or a process and its restart.

Paths are relative to `src/backend/app/` or, in what concerns pages, to
`src/frontend/`, unless they start with `src/`.

## 1. How the program runs

* **API process.** One asyncio event loop. A handler runs until it awaits a
  collection; any other handler or job may run there. No transaction is used in
  the modelled parts, and nearly all writes are `update_one({"id": ...})` *by id
  only*: a write does not look again at what the handler read.
* **Scheduler** (`lib/scheduler.py`, `lib/enterprise_scheduler.py`). APScheduler
  jobs on the same loop: the inactivity job every minute, the cooling-period job
  every five minutes, clean-up jobs. APScheduler's default
  of one instance per job: no two runs of one job overlap.
* **Daemons** (`workers/daemon.py`). Processes of their own that fetch jobs from
  a MongoDB queue under a lease, and take a MongoDB lock before a sweep.
* **In-memory services** (custodian consensus, just-in-time access, passkeys).
  Synchronous Python on dictionaries of the API process: each call is one step,
  and a restart forgets everything.
* **Browser.** A page's handlers are async functions: each runs to its `fetch`
  and goes on, with the values it captured, when the answer is there. Others run
  meanwhile; no page aborts a request, answers come in any order or not at all,
  and a handler whose page was left goes on without it. Tabs share cookies and
  `localStorage`. All requests of the owner go through one wrapper
  (`lib/api.ts`) that refreshes the session on a 401 and sends them again.

So the hazards are interleavings at awaits, stale copies, writes by id that
overwrite a newer decision, expiring leases, restarts between two writes, and
pages that show, flag or send back what is no longer so.
`PROJECT.json` lists each hazard at its line, with the properties that would
catch it, or the reason why none does yet.

## 2. Inventory

| component | state | operations | hard behaviour | what makes it correct | status |
|---|---|---|---|---|---|
| Death claims: `api/verification_workflow.py`, `api/verification.py`, `api/nominees.py` | `verification_requests` (status, step flags, evidence, review history), `verification_otps`, the nominee's token | nominee's steps, owner's halt and deletion of the nominee, admins' assignment and review, `GET /assets` | every handler checks a copy and writes by id while others and the cooling job do the same | steps in order, no queue without dossier, no assets without approval, deleted stays deleted; no interleaving does what whole steps would not | **modelled in part** (`ClaimWorkflow`, `ClaimPromise`) |
| Housekeeping: `lib/enterprise_scheduler.py`, `workers/workers_collection.py` | the same, and sessions, notifications, logs | cooling period, token and OTP clean-up, retention | reads a list, then writes one by one | claims leave the cooling period; nothing is deleted under a handler | **in part** (in `ClaimWorkflow`) |
| Dead man's switch: `lib/scheduler.py`, `api/auth.py` | the re-engagement fields of `users`, the nominee's link | inactivity job; login, heartbeat, profile, e-mail check, logout | a run of minutes (calls, mails) against the owner's return; a restart between a mail and the write that counts it | bounded reminders, one link, none too early, a gone owner is noticed | **in part** (`DeadMansSwitch`) |
| Job queue: `services/task_queue_service.py`, `workers/daemon.py` | `background_jobs` | enqueue, fetch, complete, fail, replay | leases that are never renewed, outcomes reported by id | one worker per lease, retries bounded, every job settles; until a lease runs out, as if each step were whole | **modelled** (`TaskQueue`, `JobPromise`) |
| Distributed lock: the same two files | `distributed_locks` | acquire (four calls), release, renew | racing inserts without a unique index | mutual exclusion, no lock left behind | **modelled** (`DistributedLock`) |
| Custodian consensus: `services/custodian_consensus_service.py` | proposals in memory | create, sign, execute, veto | timelock, veto, restart | M-of-N, whole delay, veto wins | **in part** (`CustodianConsensus`, `GovernancePromise`) |
| Social recovery: `services/social_recovery_service.py` | `social_recovery_configs`, `account_recovery_cases` | setup, initiate, submit, cancel, finalize | lost updates on the list of shards, abort against submission | key only from a full threshold, abort, timelock | **modelled** (`SocialRecovery`) |
| Payments and subscriptions: `lib/subscription_service.py`, `api/payment_admin.py` | requests, subscriptions, invoices, the user's plan | submit, approve (five writes), reject, the daily expiry job | approve, reject and expire race, on several replicas; a process dies between two writes | plan, subscription, request and invoice agree; what has ended ends | **modelled in part** (`Billing`) |
| Vault state machine, v1 claims: `lib/state_machine.py`, `services/claim_service.py` | `claims`, `vault_states` | table of transitions | compare, then write | only transitions of the table | planned |
| Release policies: `services/policy_service.py` | `policies` | create, approve, rebind assets | approvals appended to a copy | no approval lost | planned |
| Just-in-time grants, passkeys: `services/ephemeral_access_service.py` | dictionaries | request, grant, expire, revoke | expiry | no access after expiry or revocation | planned |
| Sessions, tokens: `services/session_service.py`, `lib/session_manager.py` | `sessions`, refresh tokens | create, rotate, revoke, revoke all | rotation against revocation, session cap | a refresh token works once | planned |
| MFA and recovery codes: `services/mfa_service.py` | `users` | set up, verify, burn | the code is checked on a copy and burnt later | a recovery code works once | planned |
| Plan limits, idempotency: `lib/limit_enforcement.py`, `lib/idempotency.py` | counts, `storageUsed`, stored answers | check, process, insert | check, then insert, by parallel requests | limits overrun by no more than what runs at once | **in part** (`AssetStore`); idempotency not modelled: no client sends a key |
| Audit chains, SIEM: `services/security_siem_service.py`, `lib/audit.py` | `audit_logs` | append, verify | two recorders read the same latest entry | a chain without gaps, that verifies if recorded in turn | **in part** (`AuditLedger`); nothing verifies the chain of `lib/audit.py` |
| Key management, encryption: `lib/kms.py`, `lib/encryption.py` | keys and versions | rotate, revoke, encrypt | rotate against revoke | a revoked key stays revoked | key states planned; cryptography out of reach |
| v1 inactivity service: `services/inactivity_service.py` | its own fields of the vault | pause, resume, stage | computed on request | – | not modelled: the scheduler reads none of it |
| Assets and nominees (CRUD): `api/assets.py` | `assets`, the owner's `storageUsed` | save, delete | the bytes are booked by a call of their own | every byte kept is charged for | **in part** (`AssetStore`: the owner's saves and deletions) |
| Dual approval: `api/dual_approval.py` | – | – | – | – | not modelled: every handler ends in a `NameError` |
| `api/verification_submit.py` | a collection nobody advances | submit | – | – | not modelled |
| AI analysis, OCR | – | pure computation | – | – | not modelled |
| Notifications | outside services, a sliding window | send | – | – | not modelled; the switch treats a mail as sent or failed |
| Compliance, evidence, notary, simulation, risk | reports | read, export | – | – | not modelled |
| Disaster-recovery drill | in memory | one call without an await | – | – | not modelled: nothing can interrupt it |
| Post-quantum, enclave, solvency, zero-knowledge | – | cryptography | – | – | not modelled |
| Admin accounts, support (backend) | accounts | CRUD | – | roles | not modelled; their pages are |
| Infrastructure: `main.py`, `core/` | – | start-up, indexes, logging | restart | – | restarts are the `Crash` actions |
| Nominee portal: `app/nominee/{verify,status,vault}/[token]` | per tab: page, step, flags; `sessionStorage` | load, mailed code, form of three requests, status, vault, sign-out | one flag for every handler; reloads and lost answers; a claim decided meanwhile | no first claim without the code; no spinner for ever | **modelled** (`NomineePortal`) |
| Browser session: `lib/api.ts`, `lib/store.ts`, the sign-in pages, the dashboard's frame and PIN dialog, `api/auth.py` | cookies, the cached user, `isRefreshing` and its waiters, PIN attempts | sign in, sign up, 2FA, Google, reset, verify, refresh, retry, log out | one refresh for many requests; two tabs; a 401 that means a wrong PIN | nobody waits for ever; the cache is not ahead of the account | **in part** (`BrowserSession`) |
| Owner's dashboard: `app/dashboard` | per page: rows, panel, open record, busy flags | load, change, details, poll, timers | answers in any order, failures shown as success, flags shared by rows | flags come down; lists end up true; a drawer shows its own record | **in part** (`Console`, `VaultPages`, `SecurityPages`) |
| Admin console: `app/admin` | the same | the same | the same | the same | **in part** (`Console`, `AdminPages`) |
| Rest of the frontend: landing pages, look, exports, browser cryptography | – | – | – | – | not modelled; the tracker's heartbeat is `HeartbeatRead` |
| Deployment, scripts | – | – | – | – | not modelled |

Interactions: the scheduler's inactivity job (dead man's switch) issues the
links whose token authenticates a nominee in the claim workflow; the cooling job
advances claims; the daemons run jobs of the queue and their sweep under the
lock. These meet only in the nominee's token: `ClaimWorkflow!IssueNomineeToken`
may happen at any moment, so it covers every time at which the switch may issue
one, and the two modules are checked separately. A page and the server behind it
are one module: the page in full, the server as far as its answers differ.
`NomineePortal` has the claim's status only, and lets it change at any moment as
`ClaimWorkflow` may change it.

## 3. Modules

`X` is a component's model, `MCX` instantiates it for TLC (a symmetry set or a
function-valued constant), `X_proofs` holds its theorems. `MCTaskQueueService`
instantiates the queue and the lock, `MCVaultServices` consensus, social recovery,
assets and ledger: parts of one file or one layer, each small, that share no state. Its
variable `active` says which of them takes the steps of a behaviour while the others
rest, so a run has as many states as all its parts together and checks
the properties of each on the part's own instance. Three proof modules serve
several components: `TaskQueueService_proofs` the queue and the lock of
`task_queue_service.py`; `SchedulerJobs_proofs` the switch and billing, which
jobs of `scheduler.py` and `enterprise_scheduler.py` drive; `VaultServices_proofs`
the consensus, the assets and the audit ledger. So that they can be
extended at once, lock, billing, recovery, assets and ledger carry their name in
`LockSpec`, `BillingSpec`, `RecoverySpec`, `StoreSpec`, `LedgerSpec` and the like. A run `X_name` uses `X_name.cfg`. Definitions carry the names of the code's functions in TLA+
spelling; `PROJECT.json` maps each to its lines. An operator defined just before
another one with a similar name (`OutcomeFailed` before `Outcome`,
`FetchableUnleased` before `Fetchable`) is the *mutated* form a plausible bug
would give it; the specification does not use it, and the property that catches
it is named in `PROJECT.json`. In the page modules the comment says so ("A mutant").

### ClaimWorkflow

One nominee of one owner, with the claims this nominee submits (numbered by
`createdAt`). A handler is a record of `work[h]`. `Authenticate` is the token
lookup every nominee route begins with; the action named after the route reads
the latest claim and checks the route's guards (`ReadLatest`); the action
`...Write` is what the route writes, by the claim's id, on whatever the claim
has become. `SetStatus` and friends leave a deleted claim alone, as an
`update_one` without upsert does. `ConsumeOtp` may or may not remove an OTP:
`delete_one` names the `_id` of the document the handler read, and a document
sent meanwhile survives it. `AdvanceCoolingPeriod` is the job's query and
`AdvanceCoolingPeriodWrite(c)` its write per claim. `DeleteNominee` and
`DeleteNomineeClaims` are the two deletions of the owner's route.

Left out: attempt counters of OTPs, OCR and risk data, history and audit
entries, comments, and the admins' emergency halt (it writes another collection).

`ClaimPromise` is the abstract specification: claims that move from stage to
stage in *whole* steps, with nobody holding a copy. A claim is queued only with
all its steps or on an admin's request, a verdict and its stage are one step, the
cooling period ends when it is due, what is removed stays so. It says what the code
does keep, so no stage but the removal is final. `ClaimWorkflow!Promise` forgets the
handlers and what they have read, merges the two ways of waiting for an admin, and
counts the step flags; `ImplementsPromise` is the refinement.

### DeadMansSwitch

One owner. Times are ages in ticks, capped one above the release age: 30 s in
the two-minute workflow, a minute in the five-minute one, ten days in
production. `workflow` is chosen in `Init`, so one run covers all three. The job
is a record `run`: `JobFindActive`, `JobAutoLogout`, `JobFindAbsent`,
`JobReadOwner` (the fresh read, on which all the decisions of the run are
based), then the calls, mails and writes in the order of the code
(`Order`). Owner actions may come between any two of them, and a restart too.
`mails` and `links` count what was sent in this absence; `run.returned` records
that the owner came back since the run read what it decides from, and `overran` which fields
the job then wrote over the owner's: `logoutTime` (the auto-logout's old time over a
login or heartbeat) or `nomineesNotified`. `lastActive` is the owner's alone, so the
absence before a link is measured from it.

Left out: several owners (the loop treats them one after the other and they
share no state), wording, and a change of `inactivityPeriod` during an absence.

### TaskQueue

`FetchNextJob` is the single `find_one_and_update`; `CompleteJob` and
`FailJobRead`/`FailJobWrite` report by id without comparing the worker, as the
code does. `LeaseExpires` lets `lockedUntil` pass while a worker is still busy.
`overdue` is history: the jobs one of whose leases ran out.

`JobPromise` is the abstract specification, in whole steps: until a lease of it
runs out, a job is taken in its turn, by one worker, is completed for good, and each
failure is counted once. `TaskQueue!Promise` maps `overdue` to `lapsed` and the workers'
states to who runs what; `fail_job`'s two calls become one `Fail` at the write.

### DistributedLock

`AcquireUpdate` (take over an expired or own document), `AcquireLook`,
`AcquireInsert`, `AcquireCheck` (first document by `_id`), `AcquireCleanup`
(the loser's `delete_one`), then the sweep, `RenewLock`, `ReleaseLock`. Ids are
drawn by the drivers of different processes, so `orderedIds` decides per
behaviour whether they grow with the insertions.

### CustodianConsensus and GovernancePromise

One step per call. `GovernancePromise` is the abstract specification, without the
service's states: a proposal is executed only with enough approvals and after
its whole delay, and a nullified one stays so. `CustodianConsensus!Promise` maps
the five states onto it (`EXECUTABLE` and `TIMELOCK_RUNNING` are both "open");
`ImplementsPromise` is the refinement. A restart that empties the dictionary is
`Nullify` of all open proposals.

### SocialRecovery

One owner and one case, with several setups. A shard is the pair of the setup
that dealt it and an index; a key *is* the set of shards it was interpolated
from, which is what the properties need to know about Shamir's scheme. The service
knows a shard by its syntax only, so the shards of setup `Forged` are the texts nobody dealt,
and `ReadForShard` takes any. `Interpolates` is the refusal of
fewer than two different x. Each method is a read action that fills `calls[h]` and a write
action that applies it.

### Billing

One user's payment requests, subscriptions and plan. `SubmitLook`/`SubmitInsert`
are `create_payment_request`; `ReviewRead` is the check both reviews begin with;
`ApproveMark` to `ApproveInvoice` are the five writes of an approval in the
order of the code, with the look for an active subscription between them;
`ExpireList`, `ExpireMark`, `ExpireLook` and `ExpireDowngrade` are the daily job, which every
replica runs without a lock. `CrashHandler` and `CrashJob` end either between
two calls. `raced` and `torn` are history: two coroutines wrote from what both
had read, or one died between writes that belong together.

Left out: the trial a signup starts, storage limits (written with the plan in
one call), screenshots, audit entries and mails.

### AssetStore

One owner's assets. `SaveAsset` is the first call of `POST /assets`, with the comparison
of `storageUsed` as it was read there; then `CheckAssetLimit` (the count),
`InsertAsset` or, for a form with an id, `UpsertAsset`, and `BookBytes`. `FindAsset`,
`UnbookBytes` and `DeleteAsset` are the three calls of the deletion. `RestartApi`
drops the requests under way. `revived`, `doubled` and `torn` are history: updates
that inserted again what had been deleted, two deletions of one file that
overlapped, a restart between an asset and its bytes.

Left out: contents and encryption, the size limit of a single file (refused before anything
is written), the nominees named in an asset, a change of plan. The nominee limit is
the same count before an insertion.

### AuditLedger

One user's chain in `audit_logs`. `LookUpLatest` is the `find_one` of
`record_chained_event`, which sorts by `chainIndex` and so takes any of several
entries with the highest; `InsertEntry` is its `insert_one`, `LoseEntry` an
insertion that fails. A hash *is* the entry it was computed from. `Verified` is
`verify_audit_integrity`, which reads entries of one index in any order: it
holds when the report is "intact" in all of them.

Left out: what an event says, threat signals, the list and the live stream.

### NomineePortal

Any number of tabs on the nominee's link. A tab is its page with the page's
state, a request in flight is a record of its tab and stage; an answer is one
step, the server's part and the rest of the handler up to its next `fetch`.
`SubmitForm` is the chain `claim`, `upload`, `complete`; the route of `claim`
looks and inserts in two steps (`ClaimChecked`, `ClaimInserted`), and the
insertion goes on without its page (`Orphan`). `Decide` is whatever
`ClaimWorkflow` may do to a claim, `TokenEnds` the end of the access link.

Left out: what the forms ask for, the text of notices and errors.

### BrowserSession

The owner's tabs over one cookie jar and one `localStorage`. `Send` is
`secureFetch` up to its `fetch`. A 401 (`Unauthorized`) makes the request wait
(`phase = "waiting"`) and, if it is the tab's first, start a refresh; when that
ends, the waiting requests are sent again once (`Resent`, `phase = "retried"`),
or given up. A request carries the cookies it was sent with, and a refresh
replaces the token it presented, which is why two tabs can refresh each other
out. `Guarded` is the redirects that pages derive from the cached user.
The routes that look at `lockedUntil` first read the owner's document (`AccountRead`);
`CountPin` is what `/verify-pin` then writes from the count it read, while other checks
go on. A check whose answer is lost may have been written or not. The lock of failed logins
is the same field (`LoginsLock`). A link of the mail may be another account's, and then
`borrowed` says where the cached flag comes from. `itinerary` limits a behaviour
to the tabs, pages and requests of one journey.

Left out: validation of fields, error texts, CSRF headers, and the session
countdown, which `app/layout.tsx:59` has switched off.

### PageLanguage, Console, VaultPages, SecurityPages, AdminPages

Forty-seven pages follow the same few patterns, so their *rules* are one module
and their *contents* data. `PageLanguage` is the vocabulary: a handler has a kind (load,
fetch, post, ask, timer, local), the record it is about, the flag it raises, the
change it asks of the server, what it does to the rows on success, refusal and
loss, and the handlers it calls next. `VaultPages`, `SecurityPages` and
`AdminPages` describe each page with its panels, buttons and handlers; every
handler and panel is a definition of its own, mapped to its function or its JSX.
`Console` runs one page: `Press` and `Click` begin handlers, `Serve` is the
server, `Arrive` and `Fail` the rest of a handler, `Poll` the intervals,
`Elsewhere` changes of others, `Reload` the browser's button. A list has two
records, which is enough for "another one".

A click may fill a slot at once (`fills`), a handler keeps the record a slot held when it
began (`active`), and may write back the rows it captured, changed or as they were (`patch`).

`missed` and `crossed` are history. `missed`: a change was made elsewhere or
lost, or two answers crossed, since the last list was served. `crossed`: another
record was opened while details of one were on their way. `MCConsole!DriftingPages`
names the pages whose rows are known to come apart from the server's even so,
and `MCConsole!MixingPages` the one whose drawer mixes two records; section 6 says how
each of them does.

Left out: pages that keep no record and send nothing, search, sorting and pages
of a loaded list, form fields, exports.

## 4. What the runs check

| run | bounds | states | shows |
|---|---|---|---|
| `ClaimWorkflow_race` | 1 claim, 2 handlers, cooling on, no restart | 4.2 million | `StepsInOrder`, `QueueNeedsDossier`, `AssetsOnlyAfterApproval`: no interleaving of two routes and the jobs passes a step too early, queues a claim without its dossier, or serves assets without an approval |
| `ClaimWorkflow_cooling` | 1 claim, 1 handler, 1 restart, `FairSpec` | 0.67 million | `DeletedStaysDeleted`, `CoolingEnds`; `ImplementsPromise`: every step is one of `ClaimPromise` or changes nothing there |
| `DeadMansSwitch_workflows` | wait 3, duration 6, 1 restart, three workflows, `FairSpec` | 0.86 million | `OneLinkPerAbsence`, `RemindersBounded`, `LinkOnlyAfterAbsence`, `CallBeforeLink`, `GoneOwnerNoticed` |
| `TaskQueueService_leases` | queue: 2 jobs of different priority, 2 workers, 2 retries, 1 crash, 1 replay, with fairness; lock: 3 processes, 4 ids, 2 expiries, 1 death | 97 420 | queue: `RetriesDecideStatus`, `SoleWorker`, `LeaseCoversWork`, `JobSettles`, and `ImplementsPromise`: it is a `JobPromise`; lock: `LeaseKept`, `NoLeftovers`, `ExclusiveWhenOrdered` |
| `VaultServices_promises` | consensus: 2 proposals, 3 custodians, thresholds 1 and 2, delays 0 and 2, time 3, 1 restart; recovery: 2 calls at once, 2 shards of each setup and 2 forged, threshold 2, timelock 1, time 2, 2 setups, 1 crash; assets: 2 requests at once, 4 saves, limit 2, storage 3, files of 0 to 2, 1 restart; ledger: 3 recorders, 4 entries | 4.8 million | consensus: `ImplementsPromise`; recovery: `AbortedIsScrubbed`, `EscrowHoldsKey`, `EscrowedKeyIsOwners`, `RecoveredAfterTimelock`; assets: `OverrunBounded` (the limit is overrun by the requests that run at once and revived assets only) and `BytesCharged` (between requests, the bytes kept are booked); ledger: `RecordedInTurnVerifies`, `ChainedToOlder`, `ForkPerRecorder` |
| `Billing_books` | 2 reviews, 2 replicas, 2 requests for different plans, 2 subscriptions, 1 death, `FairSpec` | 0.96 million | `BooksBalance`: plan, subscription, request and invoice agree unless reviews overlap or one dies halfway; `EndedExpires` |
| `NomineePortal_tabs` | 1 tab, 2 claims, 2 requests in flight, `FairSpec` | 0.42 million | `CodeBeforeClaim`, `TabSettles` |
| `BrowserSession_refresh` | 2 tabs in the journey of the PIN, 1 in four others, lock at 3 attempts, 3 PINs, 2 requests in flight, `FairSpec` | 0.87 million | `CacheNeverAhead`, `LockNeedsTries`, `WaitersReleased` |
| `Console_pages` | 47 pages, 2 requests in flight, 2 or 3 presses | 1.6 million | `NoStuckFlag`, `SentOnce`, `QuietList`, `Details` |

The type invariants (`TypeOK`, `LockTypeOK`, `BillingTypeOK`, `RecoveryTypeOK`, `StoreTypeOK`,
`LedgerTypeOK`) are proved for every module (section 7), and so is
`CollectingIsShort` of the consensus; no run repeats them. Three more runs end in a
violation; see section 6.

**Why the bounds are enough.** Every race in the backend is between one stale
copy and one newer write, which needs two actors; a third can only repeat the pair,
except in the lock, whose cleanup race takes a third process, and in the queue,
where the third fetch of a job is made by a worker that is idle again. Two
retries are the least for which "retry" and "dead letter" differ; one restart is
enough to fall between any two writes, and the properties count restarts where
they matter (`1 + crashes`). Time runs one tick past the longest delay. In the
switch the production instance is thirty and sixty days at ten days a tick, so
every stage (logout, call, each reminder, release) is reached. Several claims of
one nominee are covered by the proofs, which hold for every `MaxClaims` and
every set of handlers. Assets: two requests overrun the limit, and with four saves
an asset is created, changed, deleted and revived while the other request does the
same; the largest files fill the storage in two. Ledger: three recorders make a fork of three
branches, and the fourth entry goes on from one of them.

In a page the actors are two handlers in flight: two suffice for every order of
two answers, and what they call in turn is not bounded. Two or three presses
reach every panel and use it; `Reload` starts the count again, so behaviours are
unbounded in length. A second tab of the nominee matters through the claims it
files and the code it enters, which the first tab finds as it loads (`Decide`,
a second claim) and which the proofs cover for any number of tabs. The journeys of
`BrowserSession_refresh` are the five ways through its pages; with a lock at three attempts,
two typed PINs lock the account and one cannot, and the third is typed after a right one.
Two tabs are needed for two checks of a PIN at once. In recovery, two submissions and an
abort or a finalization meet in every order with one tick of timelock; two forged shards are
enough to reach the threshold without the owner's, with one of them, or beside them.

Deadlock is checked in the three frontend runs: a page can always be reloaded.
It is off in the others: terminal statuses, exhausted counters and a
crashed-and-finished instance stop the model by design.

**Symmetry** is used where only safety is checked and the permuted values are
interchangeable (the handlers of `ClaimWorkflow_race`, the requests of the assets and the
calls of the recovery in `VaultServices_promises`).

## 5. Fairness

* `ClaimWorkflow!FairSpec`: weak fairness on the cooling job's query and writes.
  APScheduler runs it every five minutes, for ever. Nothing is assumed of
  nominees, owners or admins.
* `DeadMansSwitch!FairSpec`: weak fairness on `JobStep` (the job runs every
  minute and each of its awaits returns, with success or not) and on `Tick`.
  No mail or call is assumed to succeed.
* `TaskQueue!Fairness`: weak fairness on each daemon's steps (it loops over
  `execute_one_job`; handlers return) and on the expiry of leases. Crashes are
  allowed and bounded.
* `Billing!FairSpec`: weak fairness on each replica's job: its cron trigger
  starts it every day, and a list of ended subscriptions is worked off. Nothing is
  assumed of users and admins.
* `NomineePortal!FairSpec`: every request of a tab ends, with an answer or an
  error, as a `fetch` does. Nothing is assumed of the nominee; a nominee who
  reloads for ever is excepted in `TabSettles`.
* `BrowserSession!FairSpec`: the request that refreshes a session ends, with new
  cookies, a refusal, or an error.
* `Console` states safety only.

## 6. Where the code disagrees with its own words

Three runs each check one sentence of the code and end in a violation.

* `ClaimWorkflow_HaltIsFinal`: "Claim has been cancelled. No further action will be
  taken." (`api/verification_workflow.py:432`). The run: the cooling period ends, the cooling job lists
  the claim as `COOLING_PERIOD` (`lib/enterprise_scheduler.py:94-109`), the owner's halt
  writes `HALTED`, and the job's write by id (line 113) makes it `NOMINEE_NOTIFIED`.
* `ClaimWorkflow_OneActiveClaim`: "Block if there's already an active (non-terminal)
  request" (`api/verification_workflow.py:299`). Two submissions in flight both find
  none (line 300) and both insert (line 357); the index on `nomineeId` is
  not unique (`infrastructure/db_indexes.py:77`). The same happens to a request that
  is sent again, since no client sends an `Idempotency-Key`.
* `DeadMansSwitch_NotifiedHasLink`: "Skip if nominees have already been notified
  (cycle complete)" (`lib/scheduler.py:211`). The mark is the last write of a run
  (line 195); a login between the links and the mark ends the absence, and the
  mark stands in the next one, in which no link was issued. Until another request resets
  it, both queries of the job pass over the owner.

What follows was seen while modelling. It has no run of its own; where a
property comes close, it is named, with the premise that leaves the case out.

**Backend.**

* `/complete` checks no status, so a halted claim can be completed even without
  a race, and an admin's review asks for no status either (`api/verification.py:678-749`); a
  status poll that read before the halt advances the claim as the cooling job does. None of
  these is what `HaltIsFinal` shows (`api/verification_workflow.py:812-851`), and the steps before it do
  not wait for the cooling period the module's header describes (lines 5-8).
* "Skip if user has re-logged in" (`lib/scheduler.py:215`) is checked once per run, before
  calls and mails. `GoneOwnerNoticed` promises logout, link and mark to every owner but one
  over whose last login the job had set the mark (`overran`;
  `DeadMansSwitch_NotifiedHasLink` above).
* `_cleanup_expired_otps` (`lib/enterprise_scheduler.py:46-50`) compares a date
  with a string, so it deletes nothing; the worker of
  `workers/workers_collection.py:50-64` compares dates and does.
* The auto-logout writes the `lastActive` of its query into `logoutTime`, over a login or
  heartbeat that came in between (`lib/scheduler.py:429-437`): an owner who was just there
  counts as absent from the old time on, and links may leave too early.
  `LinkOnlyAfterAbsence` leaves out this race and a return within the run itself. Failed mails
  do not hold up the release.
* "reclaims jobs whose worker lease lockedUntil has expired"
  (`services/task_queue_service.py:225`): a late `fail_job` also gives away a job
  that another worker holds under a running lease, and sets a completed one back to
  `PENDING`. `SoleWorker` and `LeaseCoversWork` say what holds until a lease
  runs out.
* "mutual exclusion across worker replicas" (`services/task_queue_service.py:4`):
  the second inserter can have the smaller `_id`. `ExclusiveWhenOrdered` says
  what holds: with ids in the order of insertion, and before any lease runs out,
  the lock excludes.
* "instantly cancels recovery" (`services/social_recovery_service.py:354`): a
  submission or finalization that read the case before the abort overwrites it.
  `AbortedIsScrubbed` and `RecoveredAfterTimelock` hold all the same.
* Racing setups leave two `ACTIVE` configurations, and a case with shards of two
  setups interpolates to neither secret; hence the premise `setups = 1` of
  `EscrowedKeyIsOwners`.
* "Requires at least k valid distinct shards." (`services/social_recovery_service.py:104`):
  any text of the right form counts to the threshold (305-312), and so does a dealt shard
  in another spelling. A case may hold a key that is nobody's; `EscrowedKeyIsOwners` speaks of keys
  without such a part.
* `custodian_id` and the threshold are not compared with `total_custodians`
  (`api/v1/governance/router.py:67`): "custodian" in the model is any name.
* An approval is announced as done "In one logical transaction"
  (`lib/subscription_service.py:74`), but its writes are separate: a process that
  dies between lines 127 and 165 leaves an approved request without subscription,
  plan or invoice, and the expiry job that dies between its mark (368) and its
  downgrade (382) leaves a paid plan for ever. Approve and reject in parallel
  both find the request pending; an approval between the job's look (375) and
  its downgrade loses the plan just bought. `BooksBalance` excepts exactly these
  (`raced`, `torn`).
* "Every check uses atomic MongoDB operations to prevent TOCTOU race conditions from
  concurrent requests." (`lib/limit_enforcement.py:7`): the count (line 92) and the
  insertion (`api/assets.py:159`) are two calls. `OverrunBounded` says what holds.
* "Record an audit event appended to the cryptographic hash chain."
  (`services/security_siem_service.py:86`): two events of a user recorded at
  once chain to the same entry, and the report says "Chain break" (line 153)
  though nobody tampered with anything. `RecordedInTurnVerifies` says when it verifies,
  `BreakIsForGood` (section 7) that a fork never heals.
* An update of an asset deleted meanwhile inserts it again, past the limit
  (`api/assets.py:152-156`, `upsert=True`). Two deletions of one file that overlap take its
  size off twice, and a restart between the file and its bytes leaves them
  apart: `BytesCharged` excepts these (`doubled`, `torn`).
* The chain of `lib/audit.py:116-123` forks in the same way, and nothing verifies it.
* An idempotency key is looked up before the request and stored after it
  (`lib/idempotency.py:71-110`); `lib/state_machine.py:145-148` does not await a
  `find_one`. Neither is modelled.

**Session and portal.**

* A wrong PIN, or a wrong 2FA code, is answered 401, which `secureFetch` takes
  for an expired session: it refreshes and sends it again, so a typed PIN counts
  twice and five wrong ones lock an account whose limit is ten.
  `LockNeedsTries` says that it is never worse than twice.
* `/verify-pin` reads the count (`api/auth.py:625`) and writes one more with `$set` (655, 670):
  checks in two tabs lose each other's counts, and one that read before a right PIN brings the
  old count back. `LockNeedsTries` starts its reckoning anew only with a right PIN that no
  check had read past.
* Two tabs that refresh with the same cookie sign each other out; logging out shows
  success when the request failed; the page of the verification link caches the flag for whoever
  is signed in by then (`app/verify/page.tsx:36-38`), whose link it ever was:
  `CacheNeverAhead` excepts a `borrowed` flag, and nothing else.
* The nominee's form shares one `verifying` flag between its handlers, and
  "Resend" is not disabled by it (`app/nominee/verify/[token]/page.tsx`).

**Pages exempt from `QuietList`** (`DriftingPages`):

* assets: `handleDelete` writes back the list captured before the request, and a
  row deleted meanwhile comes back.
* claims, policies, switch, soc: a refusal or a lost answer is shown as success and the row
  is changed (`app/dashboard/claims/page.tsx:274`, "Dispute recorded."); `handleAdjudicate` marks
  whichever claim is selected by then. The switch page also shows a state of its
  own beside `services/inactivity_service.py:95-310`.
* settings: verifying 2FA and changing the PIN write back the user captured before
  (`app/dashboard/settings/page.tsx:234-236`).

**Exempt from `Details`** (`MixingPages`): the explorer keeps versions, access log and
secret of the asset opened before, and offers "rollback" to such a version.

**Outside `SentOnce`.** The property asks of a flag that is a state variable of its own and
disables every button that starts its handlers, which nothing else starts (`Guards`). That is
so for some 27 handlers, among them payments, reviews, enrolment, configuration and accounts of
admins. It is not so

* where handlers share the flag with one another or with the list, and whichever ends first
  clears it: unlocking accounts (`app/admin/security/accounts/page.tsx:70`), ending admins'
  sessions, retrying and triggering jobs, settings, a user's support page, soc, filing a claim,
  new policies, pausing and resuming the switch
  (`app/dashboard/settings/switch/page.tsx:87`);
* where nothing disables the button: disputing a claim, deleting or rolling back an asset,
  deleting or revoking a nominee, the inactivity settings.

**Other pages.**

* Without an abort, the answer to an older filter may be the list that stays
  (all filtered lists). `QuietList` counts that as `missed` and is silent: it says that changes,
  failures and the lists around them end up true, not that two lists arrive in order.
* Governance keeps its proposals to itself: a signature's timer sets
  the state by the number of signatures, over a veto made meanwhile (`app/dashboard/governance/page.tsx:93-113`).
  Zero trust: the timer that creates a grant undoes a revocation (127-146).
* Disaster recovery: the drill's write freeze is released or overwritten by
  timers of another drill (109-139, 208-225). Privacy: the second timer of an
  erasure closes a dialog opened again (114-120).
* A verification page left open can decide a claim again
  (`app/admin/verifications/[id]/page.tsx:108-124`; the server reviews in any status,
  `api/verification.py:678-749`). The dialog that edits an admin sends back the
  status it was opened with (`app/admin/admins/page.tsx:141-168`).
* The screenshot of another payment may be shown when two are opened in turn
  (`app/admin/support/payments/page.tsx:90-103`); that is `crossed` in `Details`,
  which is about what is left of the record before, not about late answers.
  `NoStuckFlag` says that flags come down, not that they stay up: that is `SentOnce`.
* Adding an asset may report an error although it was stored, so a retry makes a
  duplicate; the overview shows a refused list as an empty one
  (`app/dashboard/page.tsx:66-70`); the pricing page uses names it does not import
  (96-122) and never renders its payment dialog.

## 7. What is proved

TLAPS proves the following for every value of the constants, under the modules'
named assumptions (`ClaimsAssumption`, `QueueAssumption`, `ConsensusAssumption`,
`RecoveryAssumption`, `LockAssumption`, `OwnersAssumption`, `PortalAssumption`,
`TabsAssumption`, `SessionAssumption`, `ConsoleAssumption`, `SiteAssumption`,
`SwitchAssumption`, `BillingAssumption`, `StoreAssumption`, `LedgerAssumption`: bounds
are natural numbers, `MaxRetries` is positive, thresholds of recovery lie
between 2 and the number of shards, custodians, tabs and an owner's requests are finite sets, an asset limit is positive, no
process is called `Nobody` and no tab `Gone`, a request for a plan asks for a paid
one, a page names only handlers and panels it has). TLC evaluates these assumptions in the runs.

* **`ClaimWorkflow_proofs`**: `TypeCorrect`, `StepsAlwaysInOrder`,
  `QueueAlwaysNeedsDossier`, `AssetsAlwaysApproved`, `DeletedAlwaysStaysDeleted`.
  None of the properties is inductive: a write is justified by a guard checked
  in an earlier step. The invariant `IInv` adds what each suspended handler has
  read (`Justified`), and the argument is that it is *still* true at the write:
  the step flags and the reviews of a claim only grow, whoever else writes. It
  also adds that a mobile OTP exists only for a claim whose e-mail is verified
  (the guard sits in another route), and that `APPROVED` and
  `MORE_DOCUMENTS_REQUIRED` have their review (status and review are one
  write). The proof goes by groups of actions: nominee's reads, nominee's writes,
  owner, admins, jobs.
  `KeepsPromise` is the refinement of `ClaimPromise`: each of the thirty-odd actions
  maps to a whole step or a stutter. A read maps to a stutter, so what the step
  requires has to be known of the claim *at the write*: `IInv` says so of steps and
  dossiers, and `DueInTime` adds that every claim on the cooling job's list is
  still due.
* **`TaskQueueService_proofs`**, the queue: `TypeCorrect`, `RetriesAlwaysDecide`,
  `AlwaysSoleWorker`, `LeaseAlwaysCoversWork`. `SoleWorker` and
  `LeaseCoversWork` need each other: a second worker cannot fetch because the
  lease covers the work, and the lease covers the work because nobody else can
  report an outcome for the job. `RetriesDecideStatus` holds because each write
  sets status and count together, from one count, however old that count is.
  The lock: `LockTypeCorrect`, `LeaseAlwaysKept`, `NeverLeftovers`,
  `ExcludesWhenOrdered`, for any number of processes and documents. `LeaseKept`
  has to hold from the insertion on; `NoLeftovers` needs that nobody has two
  documents; exclusion needs that whoever sweeps has the *first* document, and
  later ones come behind it.
  `KeepsPromise` is the refinement of `JobPromise`. Its invariant `Exact` adds to the
  above that, until a lease of the job runs out, `fail_job` still has the
  count it read (`FailingReads`), and a job is leased exactly while it is processed
  (`LeasedRuns`); so the increment of an old count is the increment of the present
  one, and a fetch finds no other worker.
* **`VaultServices_proofs`**, the consensus: `TypeCorrect`, `AlwaysShort` and
  `KeepsPromise`, the refinement: the initial states map to initial states, and
  each action maps to `Propose`, `Approve`, `Execute`, `Nullify`, `Pass` or a
  stutter. The invariant `CInv` relates a proposal's state to its signatures and its
  expiry to the last signature.
  The assets: `StoreTypeCorrect` and `OverrunAlwaysBounded`, for any plan and finite set of
  requests. The bound is not inductive, since an insertion adds an asset whatever the count
  is by now; `SInv` counts the requests that are about to insert with the assets,
  and then the insertion changes nothing, while the check that lets a request
  join them found fewer assets than the limit.
  The ledger: `LedgerTypeCorrect`, `AlwaysChained`, `ForksAlwaysPerRecorder`,
  `InTurnAlwaysVerifies`, for any number of recorders and entries. `LInv` says of what a
  recorder holds that it continues an entry that exists, and that no entry of its own has that index
  or a later one; as long as nobody overlaps, that entry is the last one and places and indices are
  the same (`InTurn`). `BreakIsForGood` is an action property no run checks: a
  chain that does not verify never does again, since an entry that comes to a fork
  leaves the entries of the fork where they were in the order of reading.
* **`SocialRecovery_proofs`**: `TypeCorrect`, `AlwaysScrubbed`,
  `EscrowAlwaysHoldsKey`, `AlwaysAfterTimelock`, `KeyAlwaysOwners`, whatever texts are submitted. The invariant says what a call
  under way may assume of a case that others have changed: an engaging
  submission carries a full threshold of shards, and a finalization was decided
  after the timelock, which cannot become untrue because `reachedAt` is the
  *earliest* moment of escrow. `KeyAlwaysOwners` adds that before a second setup
  every shard in the case, in a key or carried by a call is of the one setup or forged: a key
  without a forged part is then made of the one setup's shards, and of enough of them.
* **`SchedulerJobs_proofs`**, the switch: `SwitchTypeCorrect`, `AlwaysOneLink`,
  `RemindersAlwaysBounded`, `LinksAlwaysAfterAbsence` and `CallAlwaysBeforeLink`
  (action properties), for every waiting period, duration and number of
  restarts. The job decides from a copy of the owner's document; the invariant
  says how the copy may differ from the document at each step (`Copied`: only
  older, unless the owner came back during the run), which of the job's
  conditions the copy satisfied (`Decided`), that a reminder lies a tick behind
  the one before (`Spaced`), and that what was sent is what was counted plus one
  per restart and the mail or link just sent (`Counted`). For the link, `Measured` adds that
  `logoutTime` is the owner's `lastActive` unless an auto-logout wrote it over a later one. The bound on reminders
  is an inequality between their number, the age of the last one and the length
  of the absence, which every tick, mail and logout preserves.
  Billing: `BooksTyped` and `BooksAlwaysBalance`, for any number of coroutines,
  replicas, requests and subscriptions. `BooksBalance` speaks of quiet moments;
  the invariant of the moments between says what each coroutine holds (`Shaped`,
  `Invoiced`: what was sold has its invoice or a coroutine that will write it)
  and, until two of them write from what both had read, that each approved
  request has one subscription or one approval that will make it (`OwnRequest`,
  `Bought`, `Delivered`), that one approval at a time replaces what is active
  (`OneActive`), and that a wrong plan is about to be written (`PlanOwed`: by an
  approval, or by a job after it expired the last subscription). That a job about
  to downgrade finds nothing active, or an approval that will upgrade afterwards,
  is the part that makes the downgrade's own step safe.
* **`NomineePortal_proofs`**: `TypeCorrect`, `CodeAlwaysFirst`. Three of the four
  ways to the form do not ask for the code. The invariant says why they need not:
  a tab that shows the form, and a request of the form in flight, come from a
  tab that entered the code or found a claim, and there is a claim only after a
  code.
* **`BrowserSession_proofs`**: `CacheNeverRunsAhead`, `TypeCorrect`,
  `LockAlwaysNeedsTries`, for any finite set of tabs. Every step that writes the
  cache copies the account it made, whatever tab or session the answer belongs
  to, or verifies it with a link, and the account only grows between; only a link of another
  account leaves the cache ahead, and says so. The type invariant needs a count:
  every token in use belongs to the browser or to a tab that refreshes, so one
  more than the tabs are enough names for the tokens. A wrong PIN was counted
  twice only if its request cannot be sent again: attempts, checks under way and
  those that may be sent again are together at most twice the PINs typed, and the same with any
  count a check has read in place of the attempts (`Counts`), since the check may write it back.
* **`Console_proofs`**: five theorems about every site, not only the 47 pages, for any
  number of calls and presses. The descriptions must be consistent
  (`SiteAssumption`), and each theorem has a hypothesis about the pages, which TLC evaluates
  for the 47 (`SiteIsSound`, an assumption of `MCConsole`); a page whose description loses, say,
  a `finally` block or the reload after a change fails it.
  `NeverStuck` (`AllSettle`: each handler has a `finally` block): a call holds the flag
  put up for it or handed to it by the handler that awaits it; flags that share
  a variable come down together, and then the invariant is about fewer flags,
  not more.
  `SentAlwaysOnce` (`AllOrderly`: a flag is handed on to one handler, and a click starts one
  handler of a flag): a guarding flag has at most one holder, the handler in flight whose flag
  it is or one that was handed it, and while there is one it is up, so that no button starts another;
  a flag comes down only with its holder.
  `TypeCorrect` (`AllTyped`: pages name states they know, and have finitely many
  handlers): the invariant adds that the calls in flight are finitely many, so
  that a new run of a handler finds a free number.
  `DetailsMatch` (`AllCareful`, of the pages outside `Mixing`: each way into a panel
  empties what it shows or fetches it behind a spinner, and leaves the panel if that
  fails): a slot holds details of the open record, or a handler that fills it is on its
  way under a flag nobody else takes down, and then the spinner hides the slot;
  such a handler, and one that changes the copy shown, is about the open record
  until another is opened, which sets `crossed`.
  `ListsQuiet` (`AllReload`, of the pages outside `Drifting` that have a list: it is fetched on
  mount and again after each change, and nothing else touches the rows): while
  rows and records differ, a load is in flight or a change was served whose handler
  will call one, and a load that was served carries the records as they are;
  whatever breaks this sets `missed`.

**Only model-checked:** all liveness (`CoolingEnds`, `GoneOwnerNoticed`,
`JobSettles`, `EndedExpires`, `TabSettles`, `WaitersReleased`), that the 47
pages have what `Console_proofs` asks (`SiteIsSound`), and `BytesCharged`, which adds up
the sizes of a set of files: the sum is defined by recursion over the set, and
what it is after a file more or less needs an induction. Every other property of the
passing runs is stated by a theorem.
Liveness under fairness and `ENABLED`, induction over data, and
anything about `RECURSIVE` operators are out of this prover's reach; no module
here declares a recursive operator.

## 8. Abstractions common to all modules

* A database call is atomic, and calls of one handler are in order (one MongoDB
  primary, no transactions).
* Awaits with nothing between them that another actor could tell apart are
  merged; a module's header says which remain.
* Contents (codes, documents, hashes, texts, scores) are left out or kept as the
  one bit that decides a branch. A code is right or refused.
* A handler may give up at any point of its guards (`Refuse`), and a crash drops
  every handler in flight but no document.
* Counters named *bound* in the modules cap what could grow without limit.

## 9. Plan

Done: claims and queue with their abstract promises, switch, lock, consensus with
its promise, recovery, billing, assets and their limits, the audit ledger, the
nominee's portal, the browser session, the pages of dashboard and console. Next, in
this order:

1. **Sessions** – refresh rotation, revocation and session cap on the server, which
   `BrowserSession` takes as a set of live tokens; OTP attempts and recovery
   codes (used once).
2. **ReleasePolicy** and **JitGrants** – approvals, expiry, revocation.
3. **VaultStateMachine** – the transition table against its callers.
4. **KeyStates** – rotation against revocation.
5. An abstract specification of the switch (absent, reminded, called, released) in
   whole steps, with `DeadMansSwitch` as its implementation where the code allows.
6. Proofs: what the new modules claim. Of the present ones every safety property
   that does not sum over a set is proved.

Runs stay merged where one instance answers two questions, so that a full check
stays short.
