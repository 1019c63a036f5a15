# ZernFlow: a verification project

ZernFlow runs social-media operations: it schedules and publishes content, answers
messages with flows, sends broadcasts and sequences, and does so through workers that
may die at any moment.  This directory models its execution core in TLA+, and the
services beside it whose correctness depends on the order of several calls: sequences,
flow sessions, the webhook ledger, secrets and browser sessions, artifacts, schedules.
TLC checks the models, and TLAPS proves what matters most of the task plane, publishing,
the drain of the legacy queue, the completion of broadcasts, sequences, secrets and
browser sessions, artifacts, the inbox projection and schedules.  Paths below are relative to
the repository.

## 1. The system

| Part | State | Operations | What makes it hard | What makes it correct |
|---|---|---|---|---|
| **Durable task plane** `supabase/migrations/00031_execution_plane.sql`, `lib/tasks/*`, `app/api/cron/tick` | `tasks` rows: state, attempts, lease, approval, intervention, dependencies | `claim_tasks`, `heartbeat_task`, `complete_task`, `fail_task`, `defer_task`, `recover_expired_leases`, `approve_task`, `cancel_task`, `retry_task`, enqueue, prune | overlapping ticks, crashed workers, late settlements, retries | one owner per task, settlements are of the current attempt, gates hold, nothing is stranded |
| **Browser worker API and executor** `app/api/worker/v1`, `lib/workers`, `workers/browser-executor` | identities, running counts | claim, heartbeat, complete, fail, defer | counts read before the claim, shared identities | caps, no stale settlement |
| **API publishing** `lib/publishing/*`, `00033`, `00038` | `editorial_variants.publish_state`, `publish_receipts`, the task | schedule, unschedule, resolve; the engine; the reconciliation sweep | three rows and a provider written one after the other without a transaction; lost answers; ambiguous attempts | at most one post, evidence is kept, nothing stays publishing for ever |
| **Legacy jobs drain** `app/api/cron/jobs`, `lib/jobs`, `00037` | `scheduled_jobs` | claim by compare-and-swap, stale reclaim, settle by id | settlement does not check the claim | no unit lost, none settled twice |
| **Flow engine** `lib/flow-engine/engine.ts` | `flow_sessions` markers | start, resume, delay, wait for input | a session mid-traversal looks like a dead one | one active run per contact, none stranded |
| **Broadcasts** `app/api/v1/broadcasts/*/send`, `lib/jobs/legacy-work.ts` | recipients, counters | enqueue, deliver, settle | settle and count are two calls | counters agree, broadcasts complete |
| **Webhook ledger and inbox** `app/api/webhooks/social-gateway`, `lib/social-gateway/webhook-processor.ts`, `00019`, `00020` | `webhook_events`, conversations | claim, process, settle, event-time projection | redelivery, retries, reordering | each event once, newest preview wins |
| **Sequences** `lib/sequence-processor.ts` | enrolments | advance, park, cancel | no lease: compare-and-swap on the step | each step once, in order |
| **Secrets** `lib/secrets/*` | secrets, versions | create, rotate, revoke, delete, rewrap | two-table updates with compensation | the current version exists and can be opened |
| **Artifacts, browser sessions** `lib/artifacts`, `lib/browser-sessions` | rows and objects | upload, complete, sweep | row and object are not atomic | available means present |
| **Schedules** `lib/tasks/schedules.ts`, `lib/tasks/cron.ts`, `lib/publishing/recurring.ts` | `next_run_at` | materialise | compare-and-swap, time zones | each occurrence once |
| CRM, work items and SLA, attribution, analytics, health, tenancy, dashboard | single records | reads and single-transaction writes | little | – |

How they interact: everything that has to happen later is a task.  A cron job calls
`GET /api/cron/tick`, whose stages recover expired leases, materialise schedules, run
the publishing sweep, execute tasks (`runTaskBatch`) and drain the legacy jobs.  Ticks
overlap.  Browser tasks are leased over HTTP by remote executors.  A worker leases a
task with `claim_tasks`, runs its handler outside any transaction, and settles it with
an RPC that checks the lease owner.  Publishing keeps three rows in step: the variant
(what the user sees), the receipts (what is known of each attempt) and the task (what
will be run next).  Everything else that is slow (broadcast, flow resume, webhook
event) goes through `scheduled_jobs` and, by route, moves to tasks.

## 2. Modules

| Module | Models | Runs | Proofs |
|---|---|---|---|
| `LeaseService` | what the plane promises about a work item: one holder, given up before the next one gets it, never handed out once finished | through `ImplementsLease` | – |
| `TaskPlane` | the tasks table, its RPCs, ticks, remote executors, the pruner | `task_plane`, `browser_cap`, `browser_cap_violation`, `task_plane_live` | `TaskPlaneProofs` |
| `Publishing` | one variant, its schedules, receipts, engine, sweep, operators, provider; its tasks *are* `TaskPlane` (`Plane == INSTANCE TaskPlane`) | `publishing`, `publishing_live`, `publishing_repost` | `PublishingProofs` |
| `LegacyQueue` | the drain of `scheduled_jobs`: fetch, claim by compare-and-swap, stale reclaim, settlement by id, for work that ends in any way | through `Broadcasts` | `LegacyQueueProofs` |
| `Broadcasts` | one broadcast on that queue: the Send requests, the enqueuing RPC, the calls of `processBroadcast` and of the failure path, the Gateway's operations; extends `LegacyQueue` and implements `QueueSpec` | `broadcasts`, `broadcasts_live`, `broadcasts_stuck` | `BroadcastsProofs` |
| `Enrollments` | a contact's enrollment in a sequence, the runs of the cron job, the Gateway's operations, the owners | `services` | `ContactProofs` |
| `FlowSessions` | the runs of a contact through a flow: messages, delays, the `resume_flow` jobs, walkers that throw or die | `services` | `ContactProofs` |
| `WebhookLedger` | the messages of a sender from the delivery to the conversation: ledger, rows, processor; extends `LegacyQueue` | `services`, `sender_split` | `WebhookLedgerProofs` |
| `Secrets` | the secret store: create, rotate, revoke, delete, resolve, rewrap, the keys | `services` | `StorageProofs` |
| `BrowserSessions` | a browser session whose flows call the secret store; extends `Secrets` | `services` | `StorageProofs` |
| `Artifacts` | uploads, their verification, deletion, retention | `services` | `StorageProofs` |
| `Schedules` | a recurring schedule: ticks, operators, the copies its tasks make; its tasks are handed out by the plane as it promises (`Plane == INSTANCE LeaseService`) | `services` | `ServicesProofs` |
| `MCTaskPlane`, `MCPublishing`, `MCBroadcasts`, `MCServices` | values of the constants and symmetry sets for TLC; `MCServices` chooses one of the services in `Init` | | |

Operators that end in `_something` are mutants: plausible bugs of the definition that
follows them.  TLC finds the property that each is paired with in `PROJECT.json`
violated when the mutant takes the definition's place.

### TaskPlane

An RPC is one transaction and one action: `ClaimTasks`, `HeartbeatTask`,
`CompleteTask`, `FailTask`, `DeferTask`, `RecoverExpiredLeases`, `ApproveTask`,
`CancelTask`, `RetryFailed` and `RetryResolved` (the two halves of `retry_task`),
`EnqueueTask`, `PruneHistory`.  The row columns are functions over `Tasks`.
The trigger `task_transition_guard` contributes two things: it nulls the lease of a row
that leaves running (`Leave`), and its table is `Allowed`, which the actions are not
guarded by: `TransitionsLegal` shows that no RPC ever asks for a transition it refuses.

What a process holds is separate from the rows: `exec[p][t]` is the attempt of `t` that
`p` was handed, `pc[p]` says whether a tick is running or how far a claim over HTTP got
(`ClaimAdmit` reads the global count, `ClaimCount` the owner's, `ClaimBrowser` leases).
The global count may fail, and `POST /claim` then takes it for zero: `uncounted` remembers
whose claim was let in so, `unseen` which tasks such claims have leased.
A process may crash in any step, its lease may run out while it works, and its
settlement may find the lease gone (`SettleLost`).  `SKIP LOCKED` is modelled by letting
a claim take any subset of the candidates.

Time is abstract: `due[t]` and `leaseLive[t]` change in `BecomesDue` and `LeaseExpires`.
`resolves` is history: it counts resolved interventions, which do not reset the attempts.

### Publishing

A schedule key (`publish:<variant>:v<version>:<time>`) is a task; keys are never reused
because every update of the variant bumps the version.  `vstate` and `vkey` are the
variant, `receipts[k]` maps the attempts made under key `k` to receipt statuses, `ops[k]`
is what the provider made of each submission (`pending`, `live`, `dead`).  A worker's
`job` is what its handler knows: the publish state it read, the attempt it works on, the
answer it got, and which state and settlement it is heading for.  Each database call
and each provider call of the handler is an action (`Load`, `Look`, `Condemn`, `Move`
once per hop of `moveTo`, `Insert`, `Submit`, `Poll`, `Record`, `Settle`), and `Fault`
or `Crash` may come between any two.  `moveTo` plans its hops from the state the worker
last knew and writes by id, so the row it writes to may be another state by then;
`Accepts` is what the trigger and the check of the table do about that.  The sweep reads
the variant, reads its task, writes by id, in separate steps; its task query may fail
unnoticed, and so may the queries of `loadPublishContext`: `Load` then ends the job as
skipped, and `overlooked` remembers that its variant was there.  A provider is of one of
three kinds: the `gateway` (idempotent, polled), a legacy `adapter` (synchronous, no
status), and a `polled` one that is not idempotent.  Each may answer that it does not know.
A status read that fails keeps polling or ends as unknown, and where the provider lets an
error escape whose class is not retried, the engine takes it for a failure of the
publication (`Misreads`); `misread` remembers the attempts written off so.

### LegacyQueue

A run of `GET /api/cron/jobs` fetches a batch and handles it row by row.  `snapshot[r]`
is what it fetched and has not dealt with, `cur[r]` the row it works on; the loop's
branches are the actions `Stamp` (a claim that has no stamp gets one), `Exhaust` (a
reclaimed row out of attempts), `Claim` and `PassOver` (the swap lost, failed, or
succeeded with its answer lost), and the ends of the work are `Complete`, `Park` (the two
errors that give the attempt back), `Retry` and `GiveUp`.  They write to the row by its
id, whatever it has become, and supabase-js returns errors that the route does not look
at, so each of these writes may also be lost.  `claimedAt[j]` is abstract: null, within
five minutes, or older; `ClaimAges` lets the five minutes pass whether or not the run
is still at work, and a claim that ages under a live run is remembered in `aged[j]`.
`UnstampedClaim` is a claim by the code before migration 00014, which the route still
expects.  `parked[j]` remembers that the attempts of a row were put back.

### Broadcasts

`EXTENDS LegacyQueue`: the actions of the queue get the effect they have on the work.
`rstatus`, `bstatus`, `sent` and `failed` are the tables; `step[r]` is the next call of a
run's work, and each call (`Load`, `Promote`, `Call`, `MarkSending`, `SettleRecipient`,
`Count`, `Check`, `Close`, `FailRecipient`) is an action that may fail before or after it
took effect.  A recipient and its row are one identifier, a request and a contact,
because the RPC dedupes rows by recipient and a second request inserts recipients of its
own.  `ops[j]` is the Gateway's operation under the recipient's idempotency key, which is
why submitting again and asking for the status are the same step.  `uncounted` and
`interrupted` are history: which settled recipients no run could count, and whether a run
stopped between settling a recipient and completing the broadcast.

### Enrollments

`enrollment` is the row, `operation[n]` the Gateway's operation under the key of step
`n`, `cron[c]` what a run is doing and the snapshot (step, operation id) it works from.
There is no claim: every write of a run is filtered by the step of its snapshot
(`Matches`), except `Postpone`, which a run that saw the sequence paused writes whatever
the step is by then; the owners' `CancelEnrollment` is unconditional too.  A write may
fail, take effect, or take effect and lose its answer.  `waited` and `hasty` are
history: the delays that have passed, and whether a `Postpone` hit a later step.

### FlowSessions

`sessions` are the rows of `flow_sessions` with their marks of waiting, `resumes` the
`resume_flow` jobs, `walk[w]` what a call of `executeFlow` or `processResumeFlow` is
doing.  A node does one of five kinds of thing (`Flow` says which, at each depth).  The
engine writes a session by id, whoever else carries on with it, and so do the actions.
What `processResumeFlow` makes of a session that is not parked where its job says, over
which several comments of the source argue, is one action per branch (`Look`, `Count`,
`RecheckJob`, `CancelSession`, `LookExhausted`, `CountExhausted`).  Age is the one bit the
code looks at, whether something is older than `STALE_INVOCATION_MS`; `elders` are the
walkers that must have ended by the time it is.  `forsaken`, `deceived` and `overtaken`
are history and name the cases, listed in section 4, in which the code does leave a
session behind.

### WebhookLedger

`EXTENDS LegacyQueue`: an event and its row are one identifier.  `Deliver` is
`claim_social_gateway_webhook` with the enqueuing, one transaction.  The calls of the
processor (`LookUp`, `NewContact`, `MapSender`, `ReadConversation`, `ApplyMessage`,
`CreateConversation`, `Automate`, `SettleLedger`) are actions that may throw before or after
they took effect.  `shown[c]` is the event that the conversation of a contact shows: it
stands for `last_message_at` and the preview, which are always written together.  The
flow that is `started` is what `FlowSessions` takes up as a message.

### Secrets and BrowserSessions

`sstatus`, `scurrent` and `versions` are the two tables, `kek` the key that new versions
are wrapped under, `call[c]` the operation of a caller with the version it loaded and the
key it seals under.  Sealing is abstracted to that key.  A step of an operation is one
call of the database, and the compensations (`RollBack`, `UndoCreate`) are steps that may
fail like any other.  `BrowserSessions` composes flows on top of the same callers: a flow
reads the session, lets its caller go through an operation of the store, and writes the
session by id, where only the trigger `browser_session_guard` (`Guarded`) stands between
it and what happened since.  Owners also rotate, revoke and delete the secret of a state on
the Secrets page (`PageRequest`), which knows nothing of sessions: an import that finds its
secret gone makes a fresh one.

### Artifacts

`astatus` is the row, `object` what the store holds under its key, `url` the upload URL.
An object is the declared one, one `alike` in everything that `completeUpload` looks at,
or `other`.  The client writes as often as the URL lives.  The sweep scans once and then
deals with what it scanned, object first and row second, as `deleteArtifact` does.

### Schedules

`schedule` is the row, `origin[t]` the occurrence a task was materialised for (its key),
`copies` the drafts with their `source_task_id`, `hand[h]` an invocation of a tick, of a
request, or of the handler of `content.recur`, with what it read.  Time is counted in the
periods of the definitions, and a cron expression matches the multiples of its period:
`NextCronRun`, `FirstRun` and `FollowingRun` are the functions of `cron.ts` and
`schedules.ts` on that scale.

## 3. Runs

| Run | Instance | Shows |
|---|---|---|
| `task_plane` | 2 tasks, 2 ticks, 2 attempts, 1 dependency, 1 resolution, batches of 2 | `TypeOK`, `RowConsistent`, `ApprovalGate`, `DependenciesSettled`, `AttemptsBounded`, `NoStaleSettlement`, `TransitionsLegal`, `ImplementsLease` |
| `browser_cap` | 4 browser tasks, 2 executors with own identities, cap 2, 2 for each identity | `OvershootBounded`, `IdentityCap` |
| `browser_cap_violation` | 3 browser tasks, 2 executors with own identities, cap 1, 1 for each identity | `GlobalBrowserCap` fails: see findings |
| `task_plane_live` | 1 internal and 1 browser task, 1 tick, 2 executors sharing an identity, last attempt, counts that work | `NoStrandedWork` |
| `publishing` | 1 key, 1 worker, 2 attempts, 1 poll, `polled` with 1 retry by the operator or `gateway` without | `TypeOK`, `AtMostOnePost`, `EvidenceKept`, `SubmitsFollowFailures`, `ImplementsLease` |
| `publishing_live` | 2 keys used in order, 1 worker, 1 attempt, `adapter` | `PublishedIsRecorded`, `NeverStuck` |
| `publishing_repost` | 1 key, 3 attempts, 1 retry, `adapter` | `ResubmitsGranted` fails: see findings |
| `broadcasts` | 1 request, 1 contact, 2 drains, 3 attempts (as in the code), batches of 1 | `TypeOK`, `Exclusive`, `CountersExact`, `CompletedMeansSettled`, `BackoffRespected` |
| `broadcasts_live` | the same with 1 attempt | `RowsEnd`, `BroadcastCompletes` |
| `broadcasts_stuck` | 1 request, 1 contact, 1 drain, 2 attempts | `CompletesOnceSent` fails: see findings |
| `services`, all parts | one part per behaviour; 2 callers (requests, runs, walkers, hands) | `ServicesTypeOK` |
| – secrets | 1 secret, 2 versions, 2 keys | `CurrentVersionKept`, `RetiredKeyUnused` |
| – sessions | 2 secrets, 2 versions, 4 flows and page requests started | the same, `RevokedForGood`, `RevocationShreds` |
| – artifacts | 2 artifacts, quota 1, with and without signed checksums, 1 deletion that stops half-way | `AvailableIsStored`, `SweepLeavesNoObject` |
| – ledger | 2 events, delivered in any order and again, 2 drains, 2 attempts, 2 contacts, 1 fault | `NeverBackwards`, `FlowStartsOnce`, `QueuedMeansQueued` |
| – sequence | message, delay, message; 2 runs of the cron job | `StepsInOrder`, `DelayRespected` |
| – flow | 3 nodes of up to 3 kinds, 2 walkers, 2 sessions, jobs, messages and tries, 1 death | `SessionRecoverable`, `LiveNotCancelled` |
| – schedule | an interval of 1 and a cron of 2, time up to 2, 2 tasks, 2 hands | `OccurrenceOnce` |
| `sender_split` | the ledger part without faults | `ConversationIsSenders` fails: see findings |

Why the bounds are enough.  Two ticks are the smallest number that race, and with two
attempts a lease expires under one tick and the task is reclaimed, settled late and
dead-lettered by recovery.  Two tasks make a dependency and a batch.  The cap runs need more
tasks than the bound they test, so that the cap and not the supply stops the executors: in
`browser_cap` the caps of the identities alone would let four tasks run, the bound on the
overshoot three.  It has operators out of the way (`CapSpec`); `task_plane_live` leaves
failed counts out (`CountedSpec`), since they change which claim is refused and not what
happens to a task that was leased. The claims that could depend on larger instances are the
ones proved for every instance (section 5).  In `publishing` one key with two attempts
reaches every branch of the engine's decision: an attempt without an answer, an accepted, a
failed, a partial and an unknown one, each looked at by a second attempt; one retry by the
operator covers consent, which decides only where a provider is not idempotent
(`AsksWhenAmbiguous`).  Two more constraints keep operators and outcomes apart that do not
meet: that content could not be read only ends a job early and is left to `publishing_live`
(`ContentIsRead`), and after a status read that wrote an attempt off, the job's own retry is
what matters, so that the variant is not unscheduled, cancelled or swept
(`RetriesAfterMisread`).  The theorems of section 5 have none of the three.  A second key
matters where a stale job or sweep meets a rescheduled variant, which is what
`publishing_live` is about; it has one attempt per key so that the dead letter comes early,
its keys are alike and used in order (`FirstComesFirst`), and only the first job is
cancelled from the list of tasks (`CancelsFirst`).  `MaxPolls` stands for both the poll
limit and the age limit of an accepted operation.  `MaxResolves`, `MaxRetries` bound what
operators may do over and over; without them the counters grow without end.  All runs but
the two of the services check for deadlock; a part of the services stops where its bounds do
(no version, flow, message or artifact is left), which is no deadlock of the program. In
`broadcasts` two drains share one row with the code's three attempts: each may hold the
snapshot of any earlier moment, lose the swap, outlive its claim and settle the row of the
other.  What a second contact, or a second request, adds is covered by the theorems on
`Exclusive` and `CompletedMeansSettled`, which hold for any number of them; the inductive
invariant `CompletionInv` of the second also holds on two contacts and on two requests with
one drain.

The services share no state, so one run takes them one at a time (`part`, chosen in `Init`),
and its behaviours are those of all of them.  Two callers are the smallest number that race,
and each part has what its hazards need: a rotation that meets another one, a rewrapping, a
revocation or a deletion; a session whose secret is replaced by a second one, after an owner
revoked the first on the Secrets page; an event newer than the one already shown; a delay
behind a message, so that a late run could both skip it and cut it short; a session with two
jobs, and two sessions of a contact.  One fault lets a call fail or a claim come late; with
two of them the same properties hold, but what a second one adds is left to the theorems,
which are about any number.  One deletion that stops half-way (`HalfOnce`) is enough, since
a second one concerns another object.  A second session of a contact is made inside
`goToFlow`, by the walker of a job (`OtherInside`); by another message it would be a first
session again. `RunsLast` orders the runs of `content.recur` after the deletion of the
schedule, of which they read nothing.  What larger instances could add to the properties
that are proved (section 5) is covered there.

Symmetry is used in `task_plane` (ticks and tasks), the cap runs (tasks), `broadcasts` (drains) and
the services (callers, and the ids of secrets and artifacts), never with liveness.

### Fairness

Nothing is assumed of operators, of claims by executors, of heartbeats or of a
provider's pending operation, which may stay pending for ever.

- `TaskPlane!Fairness`: the tick recovers each expired lease (its first stage,
  `app/api/cron/tick/route.ts:54-58`, runs before anything else and handles 200 rows a
  call); a lease nobody renews runs out; a process that executes a task settles it or
  dies (handlers have a deadline, functions and CI jobs a time limit).  Weak fairness is
  enough.  It matters that the executors of `task_plane_live` share an identity: one may
  keep the other's lease alive with heartbeats only for as long as it executes.
- `Publishing!Fairness`: ticks keep starting, each executes what it claimed step by
  step (weak fairness of `EngineStep`), recovers, and runs the sweep.  Claiming a task
  is strongly fair: a worker may die before it claims, but not every one does.

- `Broadcasts!Fairness`: the cron job keeps starting drains and each goes from call to
  call until it dies (weak fairness of `FetchRows`, `WorkStep` and `PassRow`); time passes
  and the Gateway ends what it accepted.  Strong fairness says that not every drain dies
  before it claims or stamps a row, not every call of the Gateway goes without an answer,
  and not every write that fails an exhausted row is lost: each is tried again by every
  run of the cron job for as long as it is needed.

## 4. Findings

1. **The global browser cap is not a cap.**  `POST /claim` counts before it calls
   `claim_tasks` (`app/api/worker/v1/claim/route.ts:32-44`), so racing executors of
   different identities exceed it.  `docs/architecture/EXECUTION_MODEL.md:42-43` says
   leases are capped globally.  It also drops the error of the count and goes on with zero
   (`count ?? 0`, line 41), and then nothing but the caps of the identities bounds what runs.
   The finding is stated without such claims (`unseen`), so that the race alone shows it.
   What holds: `IdentityCap`, and `OvershootBounded` for the tasks that were not leased on a
   failed count.
2. **An old consent resubmits a new ambiguous attempt.**  The engine reads
   `human_intervention = 'resolved'` (`lib/publishing/engine.ts:209`) and nothing clears
   it when the task is claimed.  Attempt 1 ends as unknown, the operator retries the
   job, attempt 2 ends as unknown too, and the worker dies after it recorded that: attempt
   3 submits without anybody having been asked.  `engine.ts:21-22` says that never
   happens.  `SubmitsFollowFailures` holds because it is about keys nobody gave consent
   for; `ResubmitsGranted` counts the consents.
3. **A broadcast whose messages were all sent may stay "sending" for ever.**  When a
   drain dies between settling the last recipient and completing the broadcast, the
   reclaimed row finds its recipient settled and returns (`lib/jobs/legacy-work.ts:273`)
   without `settleBroadcastIfDone`.  Line 380 promises that the broadcast completes "once
   no recipient is left unfinished", and the failure path runs the check again for just
   this case (lines 424-426).  `BroadcastCompletes` says that nothing else keeps a
   broadcast from completing, apart from claims that went stale under a live run.

4. **Two first messages split a sender.**  `upsertContactForSender` looks the mapping up,
   creates a contact and inserts the mapping, and looks at the result of the second only
   (`lib/contacts/sender.ts:65`).  Two runs that process a sender's first two messages at
   once create two contacts; the second mapping is refused, the error is dropped, and
   that run goes on with a contact nobody is mapped to, although line 8 says that it
   "reuses the mapping".

Smaller disagreements, and sequences of steps that end badly without contradicting a
text, were met while modelling.  Where a property would fail because of one, it exempts
exactly that case by a named condition, given in brackets.

- *Queue.*  `app/api/cron/jobs/route.ts:110-112` says that a stale snapshot can never claim
  a row again once its attempts were bumped, so that backoff is respected: parking puts the
  attempts back, and a snapshot from before the claim matches again (`parked` in
  `BackoffRespected`).
- *Broadcasts.*  Two overlapping Send requests give every contact two recipients, the
  second set possibly after the broadcast has completed (`SentOnce` in
  `CompletedMeansSettled`).
- *Publishing.*  A status read that throws an error of a class that is not retried is
  recorded as a failure of the publication (`lib/publishing/engine.ts:198-201`), although
  the line above says that "a failed *status read* does not mean the publication failed" and
  `docs/architecture/PUBLISHING_CONTRACT.md:49` that it "never marks the publication failed".
  The Gateway's provider catches its errors; one that is polled, not idempotent and lets them
  escape has a live attempt written off, and a redriven dead letter then posts again without
  anybody's consent (`misread` in `AtMostOnePost` and `EvidenceKept`, which fail without it).
  A query of `loadPublishContext` that fails looks like deleted content
  (`lib/publishing/service.ts:26-38`): the job completes as skipped, the sweep passes over
  skipped results (`lib/publishing/sweeps.ts:52`), and the variant stays scheduled, queued or
  publishing for ever, although the sweep "keeps variant publish state consistent with its
  durable task" (`sweeps.ts:7`; `Abandoned` in `NeverStuck`, which fails without it).  An
  operator who unschedules while a worker has read the variant does not stop that worker.
- *Secrets.*  A caller that dies between inserting a version and swapping
  `current_version` makes every later rotation conflict, and a swap that took effect and
  lost its answer is rolled back by deleting the version that is current by then
  (`faulted` in `CurrentVersionKept`).  "Revoked versions are never decrypted again"
  (`lib/secrets/rewrap.ts:14`) does not hold for a `resolveSecret` that read the pointer
  before.  A crash in `importLegacyAiKey` (`lib/secrets/store.ts:398`) leaves the plaintext.
- *Browser sessions.*  A worker's late report overwrites a fresh import; a failed import
  orphans its secret; a revocation that is repeated after a crash returns early and shreds
  nothing (`overlapped` and `missed` in `RevocationShreds`).  When the owner revokes the
  secret of a session on the Secrets page and imports again, the import makes a fresh secret
  (`lib/browser-sessions/service.ts:113`) and forgets the first one, whose sealed state
  stays until somebody deletes that secret by hand: the revocation of the session deletes
  only what the session points at, although its comment says that it "crypto-shreds its
  state" (line 188).  This needs no overlap and no failure.  `RevocationShreds` exempts
  secrets that are revoked and not the session's, and fails without that.
- *Artifacts.*  A sweep deletes an upload that was completed after its scan; a write
  through a live URL after a deletion leaves an object that nothing points at; without
  signed checksums the content may change after its verification; the quota is read before
  the insert, so that concurrent uploads exceed it.
- *Webhooks.*  `unread_count` grows with every retry of an event.  A lost ledger update
  leaves an event processing, and its redeliveries are answered "already queued" (`adrift`
  in `QueuedMeansQueued`).
- *Sequences.*  `Postpone` may cut a later delay short (`hasty` in `DelayRespected`).  A
  failed write of the operation's id fails an enrollment whose message is on its way.  A
  run that fetched before a cancellation still sends, and a completed enrollment can be
  cancelled.
- *Flows.*  Two waiting sessions of a contact make `.single()` fail, so neither is resumed.
  A run for a message that throws or dies leaves its session active and unparked.
  `executeDelay` stamps the session after it enqueued the job.  Two jobs of a session may
  each take the other for the one that goes on with it, which
  `lib/jobs/legacy-work.ts:159-162` argues away.  Two messages that resume the same waiting
  session walk it at the same time: when one has parked it at a delay, the other's
  `EnterNode` moves `current_node_id` away under the stamp (`engine.ts:280-283`), every job
  then takes it for parked further on, and nobody returns to it, although
  `lib/jobs/legacy-work.ts:77-79` says that "non-null means a later delay executed".
  (`forsaken`, `deceived` and `overtaken` in `SessionRecoverable` and `LiveNotCancelled`.)
- *Schedules.*  A `PATCH` that stalls between its read and its write may set `next_run_at`
  back; only the task's key prevents a second task.  A retry of `content.recur` after a
  failed copy of the variants, or a failed read of them, reports the bare copy as complete.

## 5. Proofs

`TaskPlaneProofs` proves, for any tasks, ticks, executors and identities and any values of
the bounds that `TaskPlaneAssumption` allows:

| Theorem | Statement |
|---|---|
| `TypeCorrect` | `Spec => []TypeOK` |
| `Invariance` | `Spec => []IInv` |
| `RowsConsistent`, `ApprovalRespected`, `DependenciesRespected`, `AttemptsAreBounded` | `Spec => []` of `RowConsistent`, `ApprovalGate`, `DependenciesSettled`, `AttemptsBounded` |
| `SettlementsAreCurrent` | `Spec => NoStaleSettlement` |
| `TransitionsAreLegal` | `Spec => TransitionsLegal` |
| `PlaneImplementsLease` | `Spec => ImplementsLease` |
| `OvershootIsBounded`, `IdentitiesCapped` | `Spec => []` of `OvershootBounded`, `IdentityCap` |
| `OneOwnerAtATime` | `Spec => []Lease!HeldIsOpen`, `Lease!NoTakeover`, `Lease!FinishedForGood` |

The inductive invariant `IInv` is the conjunction of the checked invariants and of three
facts they need.  `AttemptLeft`: a task that can be claimed has an attempt left, so the
claim that spends it stays within the bound; without it `AttemptsBounded` does not survive a
claim. `AbsentBlank`: a row that was never inserted has no history and nothing depends on
it, so that `ApprovalGate` and `DependenciesSettled` survive `EnqueueTask`.
`CurrentAttempt`: what a process with an owner of its own executes under a lease it still
holds is the newest attempt; this is what makes the owner comparison of the RPCs as good as
a comparison of attempts, and it rests on a tick drawing a fresh id (`TickStart`) and on a
process never claiming while it executes.  There is one lemma per invariant and step
(`TypeStep`, `RowStep`, `ApprovalStep`, ...), each with one case per action.  The refinement
maps each RPC to a step of `LeaseService` or to a stuttering one (`LeaseRefinement`).
`OneOwnerAtATime` says what that is good for.  That a held task is open, that no claim takes
over a row somebody still has, and that an ended task stays ended are proved of
`LeaseService` alone (`LeaseSteps`), and the plane has them because each of its steps is one
of those.

The caps rest on `CapInv`.  An executor that has been admitted and has not claimed yet is
counted together with the leases that run (`AdmitInv`), unless its count failed and its
lease will be `unseen`: the sum grows only where an admission sees the count below the cap,
so the cap is exceeded by at most one lease for each other executor.  Where an identity
belongs to one executor, nobody else leases under it between its count and its claim
(`CountedInv`), and its own cap holds.  Counting needs finitely many tasks and executors,
which `TaskPlaneAssumption` says.

`PublishingProofs` proves, for any schedules and workers, each kind of provider, and any
number of attempts, polls and retries by operators:

| Theorem | Statement |
|---|---|
| `TypeCorrect`, `Invariance` | `Spec => []` of `TypeOK`, `Inv` |
| `PostsOnce`, `KeepsEvidence`, `ShowsTheRecorded` | `Spec => []` of `AtMostOnePost`, `EvidenceKept`, `PublishedIsRecorded` |
| `FollowsFailures` | `Spec => SubmitsFollowFailures` |
| `PublishingKeepsLease` | `Spec => ImplementsLease` |

None of the three invariants is inductive, because a worker writes from what it read several
calls ago.  `Inv` says what is still true by then.  `WorkersAlone`: whoever executes a task
is the only one to do so, since its lease runs out only when it is gone (section 6 says
why).  `Consent`: a resolved intervention, and a worker that read one, mean a counted
consent or a task that is completed.  `Ledger(k)`: of the attempts that may be live and that
no failed status read wrote off (`Standing(k)`) there is one and its receipt does not say
failed, and every receipt before the last says failed, unless the operator found the post.
What was misread stays so (`MisreadStep`): no step brings an attempt back into
`Standing(k)`.  `Work(p, k)`: a worker about to insert a receipt has seen that all say
failed; one about to submit has a receipt of its own, which no operation answers to yet; one
about to record a failure, or to complete the task, has the provider's answer or a receipt
for it.  `Shown`: what is published, or about to be shown so by a sweep, has a receipt.
`Strict(k)`, a provider that is not idempotent and a key without consent, is where receipts
decide; an idempotent provider has one operation for each key.  As in the task plane there
is a lemma for each part and kind of step: the handler's, the settlements, the operators',
the sweep's and time's.

`PublishingKeepsLease` is a refinement again: what the operators of publishing write to the
tasks, the completion of a task by hand among it, is not a `TaskPlane` action, and still a
step of `LeaseService`.  Each step moves at most one row (`RowMoves`), and a row is leased
while it runs and only then (`LeasedRuns`), which is what a grant and a return need.

`LegacyQueueProofs` and `BroadcastsProofs` prove, for any rows, runs, attempts and batch
size (`QueueAssumption`), finitely many requests and contacts (`BroadcastAssumption`):

| Theorem | Statement |
|---|---|
| `QueueTypeCorrect` | `QueueSpec => []QueueTypeOK` |
| `Exclusion` | `QueueSpec => []Exclusive` |
| `BackoffKept` | `QueueSpec => BackoffRespected` |
| `BroadcastsDrain` | `Spec => QueueSpec` |
| `BroadcastsExclusive`, `BroadcastsBackoff` | `Spec => []Exclusive`, `Spec => BackoffRespected` |
| `Completion`, `CountersCorrect` | `Spec => []` of `CompletedMeansSettled`, `CountersExact` |
| `BroadcastsTypeCorrect` | `Spec => []TypeOK` |

`Exclusive` is not inductive: that the swap of a second run fails depends on what its
snapshot may still say.  `SwapInv` adds it, row by row and for rows that never went stale
under a run: no snapshot is ahead of its row (`NotAhead`), and while a run works the row is
as its claim left it and nobody's snapshot has more attempts than the run's own
(`Holding`).  So a swap that succeeds on the row's attempts would need a snapshot newer
than the worker's, and parking, which puts attempts back, puts them back to where no
other snapshot exceeds them.  A lemma per kind of step (a row nobody works on, a row left,
claimed, passed over, fetched) keeps the case analysis of `SwapStep` short.  Since
`Exclusive` and `BackoffRespected` are proved of the queue with any work behind it,
`Broadcasts` inherits them through `BroadcastsDrain`.

That a row which waits for its time is not claimed before (`BackoffRespected`) rests on
`AheadInv`: a row that waits has more attempts than any snapshot of it, because a failed
attempt keeps its count and only a claim that succeeds adds to it, so that no swap from an
earlier snapshot succeeds.

`CompletionInv` says why checking who is left and completing may be two steps: nothing is
delivered before the request that starts the broadcast (`DraftInv`), that request is over
by then and no other adds recipients (`SendInv`), so a run that found nobody left stays
right (`LeftInv`).

`CountInv` makes `CountersExact` inductive: a run that is about to count holds a recipient
that it settled itself and that no other run is about to count (`Counting`), so that one
settlement is counted once or is in `uncounted`.

For the services, with any callers, ids, versions, events, steps and definitions that
their assumptions allow (`StorageProofs` has the theorems about `Secrets`, `BrowserSessions`
and `Artifacts`; `ContactProofs` those about `Enrollments` and `FlowSessions`;
`ServicesProofs` those about `Schedules` and about all of them together):

| Theorem | Statement |
|---|---|
| `SequenceInvariant`, `SequenceTypeCorrect` | `SequenceSpec => []` of `SequenceInv`, `SequenceTypeOK` |
| `InOrder`, `DelaysPass` | `SequenceSpec => StepsInOrder`, `DelayRespected` |
| `FlowInvariant`, `FlowTypeCorrect` | `FlowSpec => []` of `FlowInv`, `FlowTypeOK` |
| `SessionsRecover` | `FlowSpec => []SessionRecoverable` |
| `LiveSessionsStay` | `FlowSpec => LiveNotCancelled` |
| `SecretsInvariant`, `SecretsTypeCorrect` | `SecretsSpec => []` of `SecretsInv`, `SecretsTypeOK` |
| `CurrentVersion`, `RetiredKey` | `SecretsSpec => []` of `CurrentVersionKept`, `RetiredKeyUnused` |
| `RevocationIsFinal` | `SessionSpec => RevokedForGood` |
| `SessionsInvariant`, `SessionsTypeCorrect` | `SessionSpec => []` of `SessionInv`, `SessionTypeOK` |
| `SessionsUseStore` | `SessionSpec => SecretsSpec` |
| `StateShredded` | `SessionSpec => []RevocationShreds` |
| `ArtifactsInvariant`, `ArtifactsTypeCorrect` | `ArtifactsSpec => []` of `ArtifactsInv`, `ArtifactsTypeOK` |
| `AvailableHasObject`, `SweepIsFinal` | `ArtifactsSpec => []` of `AvailableIsStored`, `SweepLeavesNoObject` |
| `LedgerRowsTyped`, `LedgerTypeCorrect` | `LedgerSpec => []` of `QueueTypeOK`, `LedgerTypeOK` |
| `ConversationMovesOn` | `LedgerSpec => NeverBackwards` |
| `QueuedIsQueued`, `StartedOnce` | `LedgerSpec => []` of `QueuedMeansQueued`, `FlowStartsOnce` |
| `SchedulesInvariant`, `SchedulesTypeCorrect` | `SchedulesSpec => []` of `SchedulesInv`, `SchedulesTypeOK` |
| `OneDraft` | `SchedulesSpec => []OccurrenceOnce` |
| `SchedulesKeepLease` | `SchedulesSpec => Plane!Spec` (`LeaseService`) |
| `ServicesTypeCorrect` | `ServicesSpec => []ServicesTypeOK` |
| `ServicesCorrect` | `ServicesSpec =>` every other invariant and action property of `services` |

`SequenceInv` adds to the types that a run which is about to advance from a message has
seen it delivered (`AllPlaced`), so that a late write either finds the step it was made for
or no row; and that an enrollment is due at a delay, or in a run's hands there, only when the
delay has passed (`Delayed`).

`FlowInv` is for any flow, walkers, sessions, jobs and tries, and says what the walkers of a
contact's sessions may rely on while others walk the same ones.  `WalksFit` and `RowsFit`
tie each walker to one job and each job to a session that exists.  `Ways` says that a
walker leaves the session of its job by a `goToFlow` only, and that a session nobody has
written to for five minutes is at most being looked at: this is what lets a job call a
session dead.  `SessionRecoverable` is not inductive, because the job of a parked session
is looked at, loaded and resumed in separate calls, and other walkers may move the session
in between.  `Recovers` strengthens it for the sessions that are neither `forsaken` nor
`deceived`: one that is active waits for a message, is tended by a walker that is on it or
about to end it, or has an open job that is not over yet (`Tended`); and one that is parked
at a delay has a job which names that very node and will find it so, or gives up and
cancels it (`Awaited`).  `Judgements` serves `LiveNotCancelled`: a walker that has found its
session neither parked nor recently written, and has not been overtaken, is right until it
cancels, because nobody is on the session to write to it (`Still`), and no other open job
is there to start (`Covering`); where one was there, counting finds it.

Two of its cases need more walkers and jobs than `services` has, and were found by the proof:
a job that runs out of tries settles between another's two reads (`Judges`), and two
messages leave a session parked where no job looks for it (`EnterNode`).

`SecretsInv` says what a caller may rely on between its calls (`CallersOk`: what it loaded
is not ahead of the row); that an active secret has a current version, not revoked, nor
any newer one (`SecretsOk`); that after the old key was retired nobody seals under it and
nothing that is not revoked is sealed so (`KeysOk`); and that of a secret on which
nothing failed the versions from the second to the current one are there, and each beyond
it belongs to the one rotation that inserted it (`TidyOk`).  The last is what makes the
rollback of a rotation harmless: it takes back nobody else's version, and never the
current one.

`SessionInv` adds the flows above the store.  `FitInv` says what a flow and its call have
to do with each other (`CallsFit`), that an id is created by one caller only (`CreatesOk`), that
what the session and the flows point at has been created (`KnownOk`), and that the session
service deletes only the secret of a session that is revoked (`DeletesOk`); the Secrets page
may ask for anything that exists.  From these follows that the sessions use the store as its
specification lets any caller (`SessionsUseStore`), so that what is proved of the store holds
under them.  `RevocationShreds` is about calm runs, in which no state was stored beside
another flow that stored or shredded one (the page rotates and deletes among them), no flow
was interrupted and no write of the store failed.  For these `Orderly` says that who stores
is alone with what it read (`Apart`, `ReadsHold`), that every secret which is neither the
session's nor gone (`Gone`: revoked, or shredded and no longer active) is one that some import
is about to point at (`NoOrphans`), and that the state of a revoked session is shredded or a
revocation is about to do so (`StateGoes`, `DeletesShredded`).  Only a creation or a rotation
that was under way brings a version back (`StaysGone`), and neither goes on beside a deletion
in a calm run.

`ArtifactsInv` adds the facts about time that the sweep rests on (an overdue artifact has
no live URL, `NoUrlLeft`, and the sweep holds overdue artifacts only, `SweepsOverdue`), that
an insert works on a row of its own (`InsertsAlone`), the sweep on one row at a time
(`OneAtATime`), and that a verification that passed has seen an object that is still
accounted for (`SeenStored`).

`NeverBackwards` needs little more than the types, because the comparison is in the
projection's own transaction; the proof shows that no redelivery, retry or other call
touches what is shown.  `QueuedInv` adds that a run which is done with an event has settled
the ledger or left it adrift.  A flow starts once where nothing went wrong: `CalmInv` says
of an event that is not `troubled` that at most one run works on its row, under a claim
that is fresh, and that its flow has started only if that run is past it or the row is
completed.

`SchedulesInv` says that a run's task exists (`RunsOfTasks`), that no two tasks have one
origin (`OriginsOnce`) and no two copies one task (`CopiesOnce`).  It does not mention the
compare-and-set on `next_run_at`, since a stalled `PATCH` can undo that.

`SchedulesKeepLease` closes the gap between the two levels a schedule's task is seen at:
`Schedules` uses the operations of `LeaseService` one by one, and together with ticks that
overlap, operators and runs that settle late they are a behaviour of it, as `TaskPlane`'s are
(`PlaneImplementsLease`).

The run `services` explores a specification of its own, `ServicesSpec`, in which one service
moves and the others rest; the theorems above are about each service's specification.
`ServicesCompose` joins the two: a behaviour of the former is one of every service's (its
step is theirs or leaves their variables alone, `PartSteps`).  The store is the exception.
Where it is the part that moves, its callers are not the session service's, so that this
behaviour is not one of `SessionSpec`; but then the sessions stay as they were created
(`SessionUntouched`), which gives them their properties too.  From this follow
`ServicesTypeCorrect` and `ServicesCorrect`: all that the run checks on its small instance
holds of `ServicesSpec` for every value of the constants.  `MCServices` leaves some of a
service's steps out to keep the run small (`OneSecret`, `HalfOnce`, `OtherInside`,
`RunsLast`); the theorems of the services themselves do not.

Only model-checked: liveness (`NoStrandedWork`, `NeverStuck`, `RowsEnd`,
`BroadcastCompletes`), which under fairness is out of the prover's reach.

## 6. What is left out

- Task plane: payloads, priorities, back-off times, modes other than browser or not,
  workspaces, idempotent enqueues of an existing key (no change), logs and executions.
- Publishing: content, media, validation (an outcome of `Reject`), browser and manual
  variants, other variants of the item, the pruning of linked tasks, more than one sweep
  at a time, and the `current_step` marker, which only the engine's deferrals set and so
  says the same as `waiting`.  A lease does not run out on a worker that is alive:
  `runTaskBatch` asks for twice its time budget and provider calls end at the
  deadline.  The update of `poll_count` is part of `Poll`.
- Legacy queue: back-off times, the error texts, `refresh_sla_notifications` and the pruning
  of webhook events at the ends of the route, and the task queue that
  `legacy_queue_target` may choose instead.  Broadcasts: segments and message content, the
  totals, `sent_at`; a Send request that stops half-way is one that inserted fewer
  recipients.
- Sequences: the content of messages, the times of day, the editing of a sequence's steps,
  and the batch limit.
- Flows: what a node does beyond the session (messages, tags, HTTP calls), the conditions that
  choose an edge (any kind of node the depth allows may come next), and failures of writes
  whose result the engine does not look at.
- Webhooks: events that are not messages, and comments; keywords and triggers are
  outcomes of `Automate`.
- Secrets: names, bindings, expiry, cryptography, audit rows.  Browser sessions: policies,
  the browser, and the difference between statuses that call for the same.
- Artifacts: sizes, signatures of types, downloads.
- Schedules: the pruner, the deletion of copies, notifications, time zones, the other kinds
  of tasks, the batch limit, and what a cron expression matches within a period.
- Manual and browser publishing: a person's confirmation is one transaction, and a browser
  worker's outcome is written best effort after its task is settled, which the
  reconciliation sweep repairs; the task's side is `TaskPlane`'s.
- The task queue that `legacy_queue_target` may choose instead of `scheduled_jobs` (00037).
- The parts of section 1 that have no module, and the reasons, are listed in
  `PROJECT.json`.  They are most of the repository's lines: the dashboard's pages and
  components, generated database types, analytics queries, forms, policies of the schema.
  They read, or write one record in one transaction, and leave a model checker nothing to
  interleave; this is why the modules stand for a small share of the repository's lines
  although they cover its execution core.

## 7. Where it could be extended

A second variant of an item, and what two schedules of one variant mean for each other;
and `Broadcasts` and the flows' jobs on `TaskPlane` instead of `LegacyQueue`, once rows move
to durable tasks.
