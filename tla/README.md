# Verification of veza-lms

veza-lms is a multi-tenant learning management system: a NestJS API over PostgreSQL (`apps/api`), a polling worker
(`apps/worker`), two Next.js front ends (`apps/web`, `apps/control-plane`) and shared packages.  This directory holds TLA+
models of its core logic, TLC configurations that check them on small instances, and TLAPS proofs of theorems about them.
Paths below are relative to `src/`; migrations are under `apps/api/database/migrations/`.

## 1. Inventory

The API commits every domain change together with an `outbox_events` row.  Everything asynchronous hangs on that table: the
worker publishes its rows to the event bus, and in the transaction that marks a row published PostgreSQL enqueues one
`event_consumer_inbox` row per active consumer whose subscription matches.  The consumers (notification router, webhook
router, search projection) are worker handlers that write rows of further queues (notification intents, webhook deliveries,
search index operations), which the same worker polls.

| Component | State | Operations | What makes it correct | Module |
| --- | --- | --- | --- | --- |
| Transactional outbox (`outbox-repository.ts`, `main.ts`, `event-publisher.ts`) and dead-letter requeue (`dead-letter-operations.service.ts`) | `outbox_events` flags, attempts, lease; delivery evidence; idempotency ledger and audit | append, claim, publish, acknowledge (published, retry, dead letter), requeue | no event is lost, a stale cycle cannot acknowledge, evidence equals rows | `Outbox` |
| Consumer inbox (`consumer-repository.ts`, `consumer-runtime.ts`, 0033), replay (`event-operations.service.ts`) | `event_consumer_inbox` state, attempts, lease; consumer status | enqueue, replay, claim, handle, complete, fail | one handler at a time per row, exact evidence, completed only after the effect | `ConsumerInbox` |
| Worker scheduler (`scheduler.ts`, 0033, 0053) | `scheduled_jobs`, `scheduled_job_runs` | claim retries and due jobs, complete, fail with the retry run, reconcile schedules | one run per job, time and attempt; bounded attempts | `Scheduler` |
| Notifications (`notification-dispatcher.ts`, `communications.service.ts`, 0035-0037, 0055) | intents, deliveries, suppressions, provider events | request, prepare, deliver, provider feedback, reconcile | every intent ends; sent at most as often as attempted; nothing is sent to a suppressed recipient | `Notifications` |
| Digests (`notification-dispatcher.ts`, 0055) | digest items, batches | collect, prepare, claim, deliver | no item lost, bounded sends | `NotificationDigests` |
| Webhooks (`webhook-runtime.ts`, 0045) | `webhook_deliveries` | route, claim, deliver, fail, reconcile | each matching endpoint gets the event at least once | `Webhooks` |
| Search (`search-runtime.ts`, 0040, 0041, 0055) | `search_documents`, `search_index_operations` | refresh projection, claim, publish, complete, fail | the documents converge to the source; an operation ends only after its effect | `SearchProjection`, `SearchOperations` |
| Governed exports (`export-processor.ts`, `academic-evidence.service.ts`, 0052) | `export_jobs`, stored objects | request, claim, render, store, complete, fail, expire | one evidence row per attempt, ready bytes have the recorded checksum | `Exports` |
| Media (`media-processor.ts`, `storage.service.ts`, 0038, 0039) | assets, processing jobs, deletion requests | upload, verify, scan, transcode, record accessibility, request and approve deletion, retention sweep | nothing unscanned is ready, nothing is deleted without an approval | `MediaAssets` |
| Catalogue and enrolment (`catalogue.service.ts`, `catalogue-governance.service.ts`, `delivery-completion.service.ts`, 0011, 0021) | course runs, offerings, enrolments, waitlists | enrol, transfer, end, reinstate, promote, change lifecycles | bounded overbooking, ended enrolments stay, completed runs resolved | `Enrolments` |
| Studio (`studio.service.ts`, 0022, 0028) | lessons, revisions, reviews, publications | edit, comment, review, publish, roll back | published as seen and as approved | `Studio` |
| Academic evidence (`academic-evidence.service.ts`, `academic-governance.service.ts`, `learner-submission.service.ts`, 0024-0032) | attempts, files, marks, results, certificates | submit, scan, mark, release, override, publish, issue, revoke | whole and scanned submissions, one chain of results | `Assessment` |
| People (`people-integrity.service.ts`, `people-operations.service.ts`, `people.service.ts`, 0008) | persons, child rows, profiles, relationships, merges | create, relate, merge, reverse | no row with a merged person, merges end at a living one | `PeopleMerges` |
| Identity and access (`access-administration.service.ts`, `membership-invitation.service.ts`, `packages/authz`, 0006, 0007) | memberships, roles, invitations | invite, accept, assign, end, suspend, revoke | a tenant keeps an owner; requests under way do not take the last one away together | `TenantOwners` |
| Control plane (`control-plane-completion.service.ts`, `release-completion.service.ts`, 0046-0048) | tenant lifecycle, retention holds, deletion schedule; releases, ring targets, what a ring shows | change lifecycle, hold, release, schedule; register, promote, plan, activate, pause, complete, roll back | holds decide deletions; a ring shows what runs | `TenantRetention`, `ReleaseRings` |
| Plans, support and elevation sessions, billing, quotas (`commercial-governance.service.ts`, `plan-operations.service.ts`, 0049-0051) | rows approved by a second person | request, approve, apply, expire | four eyes | none |
| Curriculum, course room, credentials, imports, structure, activation, observability, flags, terminology, audit, service accounts | one row or one read each | see `PROJECT.json` | constraints of one statement or one transaction | none |
| Idempotency interceptor (`idempotency.interceptor.ts`) | `api_idempotency_records` | reserve, run handler, complete | provided by `api-standards.module.ts`, but no controller or module registers it: no request passes it | none |
| `packages/oidc-bff`, front ends, `packages/ui`, infra, scripts | sessions and views | sign in, refresh, render | outside the models | none |

Some of what the schema suggests does not happen in this code, and the models leave it out: no statement sets a
media asset's legal hold, nothing executes a scheduled tenant deletion or tells its schedule that a hold expired, a release gets
its migration state at registration only, no code writes webhook endpoints (their status is an action of the environment), and
one-shot jobs are created paused and never activated.

Hard behaviours.  The worker's main loop (`main.ts:375-454`) starts seven tasks with `Promise.all` and catches a rejection
of any of them; the loop then starts the next cycle while the other tasks are still running, so **two activations of the same
task under the same worker id can overlap** in one process, besides the overlap of several processes.  The queues fence their
acknowledgements with (`lease_owner`, `attempts`); claims use `FOR UPDATE SKIP LOCKED`.  Answers of the bus, of providers and
of PostgreSQL's COMMIT can be lost.  Leases can expire under a working cycle.  A process can die anywhere.  Operators requeue
and replay at any moment.  On the API side requests are transactions at READ COMMITTED that lock some rows and only read
others: what they read may be overtaken before they commit, triggers count committed rows without a lock, `now()` is the time
a transaction began, and people act on forms they loaded before somebody else's change.

## 2. Plan

Most important first, so that what is composed later rests on what was checked before.

| Step | Modules | State |
| --- | --- | --- |
| 1 | `DeliveryContract` - abstract at-least-once queue; `Outbox` with requeue; `OutboxProofs` | checked and proved |
| 2 | `ConsumerInbox`, `Scheduler` - both implement `DeliveryContract`; `NotificationDigests`; composed in `WorkerLoops` | checked and proved |
| 3 | `Notifications`; `NotificationProofs` | checked and proved |
| 4 | `WorkerBatch` and on it `Webhooks`, `SearchOperations`, `Exports`; `SearchProjection`; composed in `WorkerQueues`; `QueueProofs`, also for step 2 | checked and proved |
| 5 | `MediaAssets`, `Enrolments`, `Studio`, `Assessment`, `PeopleMerges`; composed in `Records`; `MediaProofs`, `EnrolmentProofs`, `AcademicProofs` | checked and proved |
| 6 | `TenantOwners`, `TenantRetention`, `ReleaseRings`; in `Records` too; `GovernanceProofs`, `RecordsProofs` | checked and proved |
| 7 | What the theorems leave of the findings: for each violated property, the steps that can break it | five of six proved; the sixth speaks of ENABLED |
| 8 | Plans, support and elevation sessions, imports of people, moderation groups | later |

No module uses a recursive operator.  Each composition gets one run, or one for each set of its components whose state spaces
fit together; a component that disagrees with what the repository says of it gets a run of its own for that.

## 3. Conventions of the models

* **One action per transaction**, or a read step and a commit step where what a transaction read may be overtaken
  (`Enrolments`, `TenantOwners`, `TenantRetention`, the planning of a target in `ReleaseRings`, the certificate in `Assessment`,
  the refresh in `SearchProjection`, the preparation in `NotificationDigests`).  Handlers that lock the rows they decide on, or
  would deadlock and abort, are one step.  What a process or a person remembers between two steps (claimed rows, attempt numbers,
  the answer of a provider, a form) is a variable of the process or person.
* **Cycles.**  A cycle (`Runner`, `WebhookCycle`, `PublisherCycle`, `ExportCycle`, `MediaCycle`) is one activation of a
  `process...` function.  `InstanceOf` gives the worker id where the fence tests it, so that two cycles can be two processes or two
  overlapping cycles of one.  Where attempts are never reset the attempt number alone tells claims apart, and the owner is left
  out.  In `Scheduler`, which the main loop awaits by itself, a worker has one activation at a time.
* **Time** is what SQL compares: a row is due, a lease is live or older than its limit, a hold or a role has ended, a day has
  come.  The delays of `retry.ts` only say when a row becomes due.  Where a claim may leave out any row anyway a row that is not yet
  due is one the claim leaves out.  `SKIP LOCKED`, `LIMIT` and the order of a claim are the same freedom: a claim takes any subset of
  what its WHERE clause matches.
* **Faults** are actions: a dead process or a throwing statement (`Abandon...`), an answer of COMMIT that is lost (`...Throws`,
  `CompleteUnheard`), a lease that outlives its cycle.  A counter and its bound (`MaxFaults`, `MaxRunFaults`, ...) belong to each
  component; the properties that allow repetition say how much of it one fault may buy.
* **Refusals and retries** of providers, the bus and handlers are not faults.  They happen freely.
* **Versions** that a form or a request sends back are modelled by whether they still match (`stFresh` in `Studio`); where the
  request locks the row it just read they always do, and are left out.
* **Mutants**: an operator introduced by a comment that says so is a plausible wrong version of the definition after it.
  Replacing the definition by it must violate the property named in `PROJECT.json`.  Nothing else refers to these operators.

## 4. Modules

**`DeliveryContract`** - what a durable queue promises: an item enters once, is settled only after its effect happened at least
once, stays settled, and leaves the dead letters only by a requeue.  `Outbox`, `ConsumerInbox`, `Scheduler`, `Webhooks`,
`SearchOperations` and `Exports` are each shown to implement it, by the mapping from a row's state that ends the module.

### The worker

**`Outbox`** - `Append` is `OutboxWriter.append`; `Claim` is the claim statement; `Publish` is the request to the bus with its
per-event answers; `MarkPublished` and `MarkFailed` carry the guard `HoldsLease` (lease owner and attempts)
and write the evidence; `Requeue` is the operator's request with its ledger and audit rows; `Abandon`, `LeaseExpires` and
`BecomesDue` are the environment.

**`ConsumerInbox`** - rows are (consumer, event, replay sequence).  `EnqueueConsumers` runs in the transaction that marks an event
published and takes the consumers active then; `Replay` adds the next sequence under an idempotency key; `Handle` is the
handler with its own effect, which may be committed although the handler throws; `Complete`, `CompleteRefused`,
`CompleteUnheard` and `Fail` are the ways a row is dealt with; `UpdateConsumerStatus` is the operator's.

**`Scheduler`** - a run is (job, time, attempt), the unique key of its table.  `ClaimJobs` takes retries and due jobs in one
transaction and advances the job's next time; `Execute` runs the handler; `CompleteRun`, `CompleteRunThrows` and `FailRun` are the
guarded updates, the last adding the retry run whether or not its update matched; `SetActive` is the tenant trigger and the
schedule reconciliation.

**`Notifications`** - the intents and deliveries of one recipient.  `Queue`, `ClaimIntents`, `Prepare` (all channels in one
transaction, with preference, digest and the suppression trigger), `PrepareFails` (the catch block), `ClaimDeliveries`, `Send`,
`RecordSent` and `RecordFailure` with the guard `Owns`, `Finalize` as the separate statement it is, `Feedback`
(`app.apply_notification_provider_event`) and `Reconcile` (`app.reconcile_notification_delivery_state`).  `Collides` is the unique
key on provider and message id.  The recipient may be suppressed on a channel from the start, by feedback on what was sent before.  Provider events without effect (accepted, opened, clicked) and quiet hours are left out.

**`NotificationDigests`** - the digest items and batches of one recipient, channel and frequency.  Preparation is one statement
that groups a snapshot and then updates rows, so it is two steps per execution (`PrepareRead`, `PrepareWrite`).  `ClaimDigests`,
`Send`, `RecordSent`, `RecordSentThrows` and `RecordFailure` are the delivery of batches, which have neither lease nor owner.

**`WorkerBatch`** - what the four newer processors share: a claimed batch handled row by row, each in a try block whose catch
block records the failure, an exception of which gives up the rest of the batch.

**`Webhooks`** - `RouteEvent` is `WebhookRouter` (insert unless the delivery exists), `PostWebhook` the request,
`RecordWebhookDelivered`, its lost answer and `FailWebhook` the updates, `ReconcileWebhooks` the scheduled function that puts rows
back whose lease ran out.  **`SearchOperations`** - the same for the rows that a trigger queues for each change of a document;
there is no reconciliation.  **`SearchProjection`** - `app.refresh_search_projection`: a refresh takes its snapshot of the source in
`StartRefresh` and writes in `FinishRefresh`.  **`Exports`** - `Render`, `Put` and `CompleteExport` are the awaits of
`ExportProcessor`, `ClaimExports` reclaims processing rows whose lease expired, `ExpireExport` is the retention; the attempt number
stands for the bytes, since each rendering carries its time.

**`WorkerLoops`** (inbox, scheduler, digests) and **`WorkerQueues`** (webhooks, projection, operations, exports) put components
side by side.  They share no row, so one of them moves per behaviour, chosen by the first state: their state spaces add up
instead of multiplying.  The fairness of each component is stated there.

### The API

**`MediaAssets`** - one asset.  `CompleteUpload` creates its jobs, `ClaimMedia`, `ProcessMedia`, `CompleteMedia` and `FailMedia` are
`MediaProcessor` (whose completion applies its effects before the guarded update of the job), `Reconciled` is
`app.reconcile_media_asset`, `RequestDeletion`, `ApproveDeletion` and `PrepareRetentionDeletion` are `StorageService` and the sweep.

**`Enrolments`** - `Begin(c)` stages one of the transactions of `CatalogueService`, `CatalogueGovernanceService` and
`DeliveryCompletionService` on what is committed, with the decision of the eligibility and capacity triggers; `Commit(c)` makes its
rows visible, in the locks' order.  Two clerks thus read around each other's uncommitted rows as READ COMMITTED lets them.

**`Studio`** - handlers lock what they decide on, so each is one step; what races is the form a person loaded (`Load`) and sends
later.  `SaveRevision`, `RequestReview`, `DecideReview`, `Publish` and `RollBack` compare its versions; `stFresh` says whose form still
has the version of which row.

**`Assessment`** - the attempts, files, marks, result chain and certificates of one enrolment in one assignment.  `RecordScan` may
arrive at any time and repeatedly; `ReleaseMark`, `OverrideGrade` and `PublishGrade` share `Superseding`; the certificate's
duplicate test and its insert are two steps, as no lock or index joins them.

**`PeopleMerges`** - `MergePeople` empties the source and remembers what it moved, `ReverseMerge` gives those ids back whatever has
happened since; `AddChild`, `UpsertProfile` and `CreateRelationship` are the writers a merge has to keep out.

**`TenantOwners`** - the owner role of one tenant.  `BeginChange` fixes `now()` and with it the roles the count will find valid;
`FinishChange` counts, updates and commits under the advisory lock.  `LapsedAfter` is the trigger of 0007, which opens every membership
that becomes active and ends every revoked one; `SignsIn` is what the session query asks for.

**`TenantRetention`** - `ReadForHold`, `ReadForRelease` and `ReadForSchedule` are what the requests' SELECTs found, `CommitRequest`
what they write; `Expire` is the end date of a hold.  **`ReleaseRings`** - releases, the targets of one ring in the order of their
creation, and what `project_release_ring_target` shows for them; `ReadRelease` and `PlanTarget` are the two halves of
`createRingTarget`, `RollBackRing` is `createRollback` with the CHECK of its row.

**`Records`** puts these eight side by side, like the compositions of the worker.  `Moving` names the components a run looks at.

## 5. Runs

| Run | Question | Instance |
| --- | --- | --- |
| `outbox` | Does the fencing hold when cycles of one worker id overlap; do evidence, flags, audits and ledger agree through requeues; is the contract kept and every event settled? | 2 events, 2 cycles of one worker, 1 key, 2 attempts, 1 fault |
| `loops` | Inbox: exact evidence when commits are not heard, the contract, deliveries settle or are stranded by a fault.  Scheduler: one live attempt, the contract, runs settle or are stranded.  Digests: no item lost, bounded sends, batches settle or are stranded | inbox: 1 consumer and event with its replay, 2 cycles of one worker, 2 attempts, 1 fault; scheduler: 1 job, 2 times, 2 attempts, 2 workers, 2 faults; digests: 2 items, 2 batches, 2 preparations, 1 delivering cycle, 2 attempts, 1 fault |
| `notify` | One sender per attempt, attempts bounded by faults and deferrals, closed intents quiet, nothing opened for or sent to a suppressed recipient; does every intent end? | 1 intent, 2 channels, each suppressed by earlier feedback or not, a template that may be retired, 2 cycles of one worker, bounces and deferrals, 1 fault |
| `queues` | Webhooks and search operations: the contract, rows settle (webhooks) or are stranded (search).  Projection: it catches up.  Exports: the contract, evidence once per attempt, every job ends | 1 or 2 rows, 2 cycles of each queue, 2 attempts, 1 or 2 faults; 1 entity, 2 contents, 2 refreshes |
| `evidence` | All of `Records` but the studio: readiness and deletion of media, ended enrolments, whole submissions and one chain of results, merges, owners, holds, rings | 2 actors each; 1 asset with one media cycle, 2 attempts, 1 fault; 2 learners, 1 place, a waitlist; 1 attempt and an extra one, 2 marks, 2 results; 3 people, 2 merges; 2 members; 2 holds, one with an end; 2 releases, 2 targets, 2 days |
| `delivery` | Overbooking with two clerks at work at once; publications hold approved revisions that their publisher saw | 3 learners, 1 place, 2 clerks; 2 lessons, 2 authors, 2 revisions, 2 publications |
| `notify_collide`, `exports_overwritten`, `studio_unapproved`, `run_unresolved`, `tenant_ownerless`, `ring_rollback` | *violated*: see the findings | the smallest that shows them |

Why the bounds are enough.  The guards compare a row with its own owner and attempt number, so two cycles and one row already
show every confusion of holders; the second row (an event, a replay, a channel, a batch, a job) is there for what one cycle does to
the rest of its batch.  In `notify` all the final provider events are represented by the bounce, which is the one that also
suppresses; a deferral is the one that reopens.  With two attempts a
row has a first, a last and, after a fault, an excess attempt.  One fault shows each recovery path; two show a
fault during the recovery of another.  A digest batch is claimed once until it fails and nobody else can come to hold it,
so a second delivering cycle would only do to another batch what the first does to its own.  In `Records` every race is between
two requests, two forms or two transactions; a third person is there where a chain needs one (a survivor merged in turn, a
learner who takes the place two others lost).  The one clerk of `evidence` takes an offering and its waitlist
through every sequence of operations; `delivery` has the two that overlap, without the offering, and checks the bound on
overbooking, which `EnrolmentProofs` proves for both together.  Targets of `evidence` have an
end date, so that they may be withdrawn before they begin; without one the withdrawal is refused until then, which
`GovernanceProofs` covers with the rest.  Counters are bounded by the constants in the guards (`Max...`, attempts, keys), not by
state constraints.

Symmetry is used in the two passing runs of `Records` and in `studio_unapproved` only.  They check no liveness, and no definition tells the actors apart:
the actors of all moving components are given the same two values, so that one exchange permutes them all.

Deadlock is not an error where the system comes to rest: outside `notify` and `tenant_ownerless` every counter may be used up
with all rows ended.

### Fairness

The main loop polls until shutdown and every request in it has a timeout, so the steps of a cycle are weakly fair
(`main.ts:375-454`), also when the poll that started it has failed.  A claim may leave out any row, and by its ORDER BY a row that
stays due gets to the front: claims are strongly fair, per row, where a step of another actor can disable them in between.  Leases
expire, rows become due and scheduled functions run because time passes; the refresh of the search documents runs for ever and is
assumed not to fail for ever.  Nothing is assumed fair that depends on a person or on
luck: requeues, replays, feedback, status changes, faults, nor that any provider ever accepts.  `Outbox` and `Notifications` state
their fairness themselves, the other queues in `WorkerLoops` and `WorkerQueues`.  `Records` has none, and no liveness.

### Findings

* `notify_collide` - the unique key on provider and message id treats NULLs as equal, so a second delivery of a provider cannot be
  prepared while another has no message id; its intent is dead-lettered untried.
* `exports_overwritten` - the object key names the job and not the attempt: a cycle that outlived its lease stores its rendering over
  the bytes whose checksum a later attempt recorded, and every download of the ready export fails.
* `studio_unapproved` - a rollback marks every lesson of the space published, also one whose current revision no review saw.
* `run_unresolved` - the test for current enrolments before a run is completed does not see one that is being inserted.
* `tenant_ownerless` - the advisory lock orders the counts of owners, but each compares `valid_until` with the time its own transaction
  began: of two requests that overlap the second still counts the owner whose role the first has ended, and takes the last one away.
* `ring_rollback` - the new target of a rolled-back ring names one operator as author and approver, which a CHECK of the table
  refuses: no ring rollback can be recorded.

What the passing runs show and a reader may not expect: outbox attempts pass the maximum by one per fault (`RetryBudget`), as
the claim does not look at them; deliveries of the inbox, search operations, scheduled runs and digest batches whose cycle crashed
are never taken up again (`DeliveriesSettle`, `OperationsSettleOrStrand`, `RunsSettle` and `BatchesSettleOrStrand` name them), whereas
outbox rows, webhooks, exports and notification deliveries are; the reconciliation of notifications may complete an intent before
it is prepared, and `Prepare` opens it again; a repeated provider event is recorded once and applied again; two clerks may overbook a run by
one; holds and a deletion schedule part company when a hold expires or a request decided on a reading that was overtaken; two
officers may each issue a certificate.

## 6. Proofs

Each proof module is about its component for every value of the constants that its named assumption admits, and `MaxFaults` and its
like are constants too: the bounds of the runs do not limit the theorems.

`OutboxProofs` (`OutboxAssumption`):

1. `OutboxTyped` - `TypeOK` is inductive by itself.
2. `OutboxStructure` - `StructInv`, the strengthening the others need.  `IdleHoldsNothing` (a claim starts from an empty
   batch), `ReportedWasAccepted` (an acknowledgement as published stands for an event the bus took) and `LeasedIsOpen` (whoever passes
   `HoldsLease` finds the row neither published nor dead-lettered; without it an acknowledgement could settle a row twice).
3. `DeadLettersExhausted` and `EvidenceIsExact` - by `LeasedIsOpen` each acknowledgement writes the one evidence row that its
   change of the flags stands for.
4. `OverlapIsFenced` - `ExclusiveHolder`, by `DistinctAttempts`: claims of one event that was never requeued carry different
   attempt numbers.  A requeue resets attempts to 0 and a later claim may repeat a number, so after one the guard can match
   for two cycles of one worker id; both formulas therefore speak of events without a requeue audit.
5. `AttemptsBounded` - `RetryBudget` by `OpenBudget`: an open event no cycle holds under a live lease has an attempt left within
   maximum plus faults, and whatever ends a lease either is a fault or records an outcome that decides by the maximum.
6. `OutboxKeepsContract` - each step of the outbox is a step of `DeliveryContract` or a stutter under the mapping
   `contractStatus`; the lemmas `StatusCases` and `StatusOfOthers` say how a row's flags determine its status.

`QueueProofs` (`InboxAssumption`, `SchedulerAssumption`, `DigestAssumption`, `WebhookAssumption`, `SearchAssumption`,
`ExportAssumption`), one part for each queue of `WorkerLoops` and `WorkerQueues`:

1. `InboxTyped` - `InboxInv`: types, `Sequenced` (the replays of an event are numbered without a gap; without it the next sequence of
   a replay could name a row that exists, and its insert would reopen a settled delivery) and `CarriedWasEnqueued` (a cycle says that a
   handler ended only after its effect).  `AttemptsAccounted` is `AttemptsMatchEvidence`: the fence matches one claim only, so an attempt
   writes its evidence once.
2. `SchedulerTyped` - `SchedulerInv`: `AttemptsInOrder` (an attempt exists only after those before it ended, and the dead letter is the
   last possible one), `HeldWasClaimed`, `SucceededWasDone`.  From it `OneAttemptLive` for `OneLiveAttempt`.
3. `DigestsTyped` - `DigestInv`: `OneCarrier` (batches have no lease; that two cycles never carry one follows from the claim taking only
   pending and retry rows), `AttemptsLeft` and `DeliveriesPaid` (each delivery beyond those on record was paid for by a fault).  From it
   `DigestSendsBounded` for `DigestSendBudget`; `NoDigestItemLost` for `NoItemLost` is inductive by itself.
4. `InboxKeepsContract`, `SchedulerKeepsContract`, `WebhooksKeepContract`, `OperationsKeepContract`, `ExportsKeepContract` - each step
   is one of `DeliveryContract` or a stutter.  The mappings `slotStatus`, `webhookStatus`, `operationStatus` and `exportStatus` name what the
   contract's item is: for the scheduler it is a job's time with all its attempts.  `WebhookInv`, `SearchInv` and `ExportsBacked` add to the
   types that claims are of rows that exist and that what a cycle records as taken or stored was.
5. `ExportsTyped`, and `EvidenceOnce` for `ExportEvidenceOnce`: a claim whose row still has its attempt number has written nothing yet.
6. `ProjectionTyped` - `RefreshInv`: no document carries the generation of a refresh that has yet to write, so that a refresh never takes
   another's documents for its own.  By it `RefreshesShowWhatTheyRead`: a refresh that gets through leaves every document as its snapshot
   of the source has it, and documents that show the source stay so until it changes unless an older snapshot is still in use.  What is
   left of `ProjectionCatchesUp` for TLC is that refreshes do get through.
7. `LoopsKeepPromises`, `QueuesKeepPromises` - the compositions are, component by component, the specifications above, so that what is proved
   of each holds of the behaviours the runs explore.

`NotificationProofs` (`NotificationAssumption`): `NotificationsTyped` - `NotificationInv`, the strengthening all but `SuppressedAlways` need:

* `ClaimedAreBare` - an intent is claimed once and has no delivery before its preparation; without it a preparation could open a
  delivery under an intent that another cycle has closed.
* `ClaimsDistinct` - two cycles that hold one delivery hold it under different attempts, hence `OneSenderAlways` although all cycles
  share one worker id; `CyclesDone` - a cycle that goes on to finalise an intent no longer owns the delivery, so the finalisation finds it
  as recorded.  With the first, `ClosedIntentsStayQuiet`.
* `AttemptLeft` - a delivery that a claim takes, or that the reconciliation gives back to one (`Loose`), has an attempt left within
  the maximum plus faults and deferrals: what strands it is a fault, what reopens it a deferral, and every other way back to retry
  compares with the maximum.  Hence `NotificationAttemptsBounded`.

`EnrolmentProofs` (`EnrolmentAssumption`: finitely many clerks, positive capacities): `EnrolmentsKeepInv` - `EnrolmentInv` is about what open
transactions will do when they commit.  `LocksApart` - no two write rows of one learner in one run; `HistoryKept` - each writes only
after the rows there are and leaves those that ended as they are; `OneSeatEach` - each takes one place at most; `SeatsBounded` - the
places taken in a run or offering, and the clerks about to take one more, are together at most the capacity and the clerks beyond the
first: the trigger of whoever began last saw a place left, and the others are at most all clerks but this one.  A commit moves a clerk
from the second number to the first.  Hence `OverbookingAlwaysBounded`, whose bound grows with the clerks and not with the
transactions, and `EndedEnrolmentsAlwaysStay`.

`MediaProofs` (`MediaAssumption`): `MediaStructure` - `MediaInv`: answers fit the job they are about, claims are of attempts that
were made, and a queued or finished deletion has an approval by a second person.  `DeletionsApproved` follows from it.
`ReadyAssetsEvidenced` needs one processing cycle's claims to be current and those of two to be disjoint, and holds for policies
that require a scan (its assumption `ScanRequired`).

`AcademicProofs`, the studio (`StudioAssumption`: the space's own row is no lesson): `StudioStructure` - `StudioInv`, whose core is `FormsAreCurrent`: a form that still
has the version of a row shows that row's current revision.  From it `PublishersSaw` and `NoEditIsLost`; `PublishedRevisionsApproved`
from `ReviewedPass` - a review is of a revision that passed its validation.

`AcademicProofs`, the evidence (`AssessmentAssumption`): `SubmittedAreWhole`, with every file belonging to an attempt, and `OneChain`, by cases on the three
handlers that touch the results.

`GovernanceProofs`, people (`PeopleAssumption`): `PeopleTyped` with every relationship a merge remembers existing, `MergedOwnNothing`, and `ChainsEnd`: a merge adds
to the merged people one whose survivor is alive, a reversal only takes one away, so no set of merged people comes to point into
itself.

`GovernanceProofs`, owners (`OwnerAssumption`): `OwnersTyped` - `OwnersInv`, with `CountsOthers` (a request never counts the member it is about)
and `ActiveAreOpen` (an active membership has no end, without which the count could take somebody for an owner who cannot sign in).
By it `OwnersOutlastRequests`: whoever was counted and still has the role can sign in as owner after the request.
`RequestsInTurnKeepOwner` adds `CountedKeepRole` - while one request is under way nobody else takes a role from those it may count.

`GovernanceProofs`, control plane (`RetentionAssumption`, `ReleaseAssumption`): `RetentionTyped` with `HoldsPending` - a hold under creation is not there
yet, one under release is - and `HolderLocks` - a hold that found the deletion scheduled has locked its row, so that its reading is never
overtaken; by them `HoldsDecideAlways` - a request whose reading is not overtaken leaves the schedule as the holds decide - and
`RequestsInTurnHeedHolds` - requests one after the other, about holds that do not expire, keep schedule and holds in step; `RingsShowWhatRuns` by `RingInOrder`: targets name promoted releases, one target is open at a time, and what took effect did
so on a day that has come.  Without the last two a withdrawal could fall back on a target that never began, or leave a running one
unshown.

`RecordsProofs`: `RecordsAreTheComponents` - the records side by side are each of the eight components, as none writes another's
state; `RecordsKeepPromises` - so all the invariants and action properties of the runs hold of the composition.

**What the findings leave.**  Five of the six violated properties are bracketed by a theorem that says which steps can break them, so that
whoever repairs the code knows when it is done:

| Violated | Theorem | What breaks it, and nothing else |
| --- | --- | --- |
| `PublishedLessonApproved` | `OnlyRollbacksUnapprove` (by `StudioInv`) | a rollback |
| `TenantRetainsOwner` | `OwnersOutlastRequests` (by `OwnersInv`), `RequestsInTurnKeepOwner` | a role in time that ends, or a request all of whose counted owners lost the role since it began; with one request at a time and no role in time nothing does |
| `DeadLetterHasEvidence` | `OnlyFailedPreparationsBury` (by `NotificationInv`) | a preparation that throws, or feedback on a delivery after its dead letter |
| `CompletedRunResolved` | `OneClerkResolvesRuns` | two clerks at work at the same time |
| `ReadyExportVerifies` | `FaultFreeExportsVerify` | a crash, a lost answer or an outlived lease; until the first, `Undisturbed`: claims are fresh, disjoint and stored under their own attempt |

The first three are action properties of every behaviour; the last two and `RequestsInTurnKeepOwner` have a hypothesis that real
behaviours satisfy (one clerk, no fault yet, one request), and the run of the finding is outside it.

Only model-checked: liveness (`...Settle`, `...SettleOrStrand`, `ProjectionCatchesUp`) and `RollbackRecoverable`, which speaks of ENABLED;
both are outside the prover's reach.  Every invariant and every action property of the passing runs is proved, and so is every
refinement of `DeliveryContract`.

## 7. Not modelled

The map covers about a tenth of the repository's lines of code.  The models stand for the code that keeps state under concurrency, faults or long
sequences of calls, which is roughly a third of the files they are about.  The rest of the repository has no behaviour of this kind:

* half of it is presentation: the two front ends, the UI package, style sheets and contracts;
* most of the API's longest services are read models and single inserts: catalogue analysis, the people directory, the course room,
  audit, search queries, observability, terminology, flags.  Their correctness is a constraint of one statement;
* seeds, catalogues of test scenarios, scripts, infrastructure and generated clients.

What has a protocol and is still left out: plans, offers and adjustments with a second approver, support and elevation sessions,
billing links and quotas, tenant release exceptions (`commercial-governance.service.ts`, `plan-operations.service.ts`,
`control-plane-completion.service.ts`, `release-completion.service.ts`); imports of people, staff engagements and data subject requests; rubrics,
groups and formulas of the gradebook; reusable blocks, assets and import reports of the studio; programmes, blueprints, cohorts, classes and
timetables of the catalogue; storage namespaces, quotas and signed URLs.  Each is rows under their own lock, on which none of the
modelled components decides.  `PROJECT.json` gives the reason for each component.

Within the modelled components: wording of errors, logs, checksums other than those of exports, tenant scoping of rows (each model is one
tenant's rows), authorisation except where owners delegate it, and graceful shutdown, which ends cycles as `Abandon` or between
them.
