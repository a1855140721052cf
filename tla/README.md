# Verification of the case, evidence and decision platform

TLA+ models of the services under `apps/`, the TLC runs that check them on
small instances and the TLAPS proofs that hold for every instance.  The
repository is the reference: each definition is translated from the code named
in `PROJECT.json` ("map").

Some of the modelled files carry unresolved merge-conflict markers:
`workflow.service.ts`, the two `event.consumer.ts` of the workflow and the AI
service, `CaseLedger.tsx` and `chaincode/evidence-proof/main.go`.  The `HEAD`
side is modelled.  In one place the sides differ in what they do: in
`publishVersion` (305) only `HEAD` takes the default flag from a tenant's other
definitions (`MoveDefault`).  Elsewhere they differ in presentation, in how the
chaincode is started and in whether malformed JSON is dropped or thrown.

## 1. The system

Nine processes share no memory: each service has its own PostgreSQL database
and talks to the others by HTTP calls and by Kafka topics fed from an outbox
table (at least once, unordered between topics).  Every service may run several
replicas and may exit between any two `await`s; what a transaction wrote stays.
Prisma transactions run at READ COMMITTED unless the code says otherwise, so a
row read in a transaction may be changed by another before the write.

| Component | State | Operations | Hard behaviour |
|---|---|---|---|
| ledger-service | `proof_requests`, `ledger_transactions`, `ledger_provider_bindings`, outbox | create (evidence, decision), worker `tick`/`process`, `retry`, `reconcile`, verification | leases that expire under a live worker, a ledger that commits outside the database transaction, lost answers, exits between steps |
| chaincode/evidence-proof | world state by proof id | anchor, lookup | identical and conflicting re-submissions, late commits |
| validation-workflow-service | instances, tasks, validation runs, reviews, recommendations, decisions, `case_sync_operations` | start, reopen, validate, claim, assign, review, correct, resubmit, recommend, decide, withdraw; expiry and sync workers; consumer of case events | checks and writes in different snapshots, updates by primary key, two transactions in `resubmit`, a remote call after the commit |
| case-service | `cases`, timeline, evidence projection, inbox | create, update, cancel, `internalWorkflowSync`, projection of evidence events | optimistic versions against unguarded writes, events out of order |
| evidence-service | assets, versions, upload sessions, processing jobs, legal holds, orphan candidates, object store | upload, scan, promote, reject, integrity check, reconcile, holds | leased jobs without renewal, object store and database changed one after the other, abandoned uploads that complete |
| audit-query-service | audit records (hash chain), quarantine, checkpoints, report/export/operation jobs | ingest, control records, verify chain, jobs | serializable appends, order of records written in one millisecond, jobs left RUNNING |
| integration-ingestion-service | connectors, leases, checkpoints, triggers, canonical events, outbox | webhook capture, leased polling, processing, replay, case resolution | crash between capture and processing, duplicate deliveries, replay racing the publisher |
| ai-assessment-service | assessments, leases, executions, acceptances | request, worker, cancel, accept, retry | cancellation racing completion, expired leases, remote drafts |
| identity-access-service | users, refresh sessions | login, refresh, logout | concurrent rotation, detection of reuse |
| web-portal | the browser's refresh cookie, the queries of a case's ledger view | refresh, logout, summary and paged list | tabs that share one cookie, lost answers, several reads shown as one |
| api-gateway, packages, infrastructure | none that outlives a request | forwarding, schemas | none |

Interactions: the workflow reads case and evidence snapshots and pushes its
status to the case service (`case_sync_operations`); evidence events are
projected into the case service; the ledger service anchors evidence versions
and decision packages; every service's outbox feeds the audit chain;
integration triggers become evidence and cases.

What makes each component correct:

* ledger: nothing is announced that the ledger does not hold; conflicts are
  genuine; attempts are accounted for; requests are settled.
* workflow: one active cycle per case, one claimant per task, separation of
  duties, at most one decision per cycle, decisions stand; what was started
  under a published version finds the content it was started with.
* case synchronization: each operation is applied once, and the case ends in the
  status of the last transition.
* evidence: only scanned content becomes available and stays so; a failed
  version does not come back; holds prevent removal.
* projection and proof view: the case shows the asset's last event, and
  nothing as anchored or verified that the ledger does not back.
* audit: one unbroken chain per tenant; what was consumed is kept; jobs end once.
* integration: each trigger is queued or sent; none is stranded by a failing
  write; the checkpoint passes no row that was not captured.
* AI assessment: a result stands, and requests are settled.
* identity: session and browser agree on whether they go on; what was revoked
  is refused.

## 2. Modules

| Module | Models | Proofs |
|---|---|---|
| `ProofSaga` | what the ledger service promises of a proof (abstract) | |
| `LedgerProof` | `proof.worker.ts`, `proof.service.ts` (create, retry, reconcile), the Fabric provider and the chaincode; refines `ProofSaga` | `LedgerProofProofs` |
| `MCLedgerProof` | instances of `LedgerProof` for TLC | |
| `WorkflowDecision` | `workflow.service.ts` commands on one case, task expiry, the consumer's start and cancellation | `WorkflowDecisionProofs` |
| `MCWorkflowDecision` | instances of `WorkflowDecision` for TLC | |
| `CaseSync` | `queueSync`, `attemptCaseSync` and the worker's ticks in the workflow service, composed with `case.service.ts` (`internalWorkflowSync`, update, cancel) | `CaseSyncProofs` |
| `MCCaseSync` | an instance of `CaseSync` for TLC | |
| `EvidenceLifecycle` | `evidence.service.ts` (upload, holds, integrity requests) and `processing.worker.ts` on one asset | `EvidenceLifecycleProofs` |
| `MCEvidenceLifecycle` | instances of `EvidenceLifecycle` for TLC | |
| `TriggerIntake` | capture, processing, replay and resolution of source triggers in `integration.service.ts`, its outbox publisher, and `source-trigger.consumer.ts` of the evidence service | `TriggerIntakeProofs` |
| `ConnectorPolling` | `runConnector`, `runDueConnectors`, leases and checkpoint of a polling connector, `sql-polling.adapter.ts`, `connector-scheduler.ts` | `SchedulersProofs` |
| `AssessmentRun` | `assessment.service.ts` (request, cancel, retry, disabling), `assessment.worker.ts` and the superseding consumer of the AI service | `SchedulersProofs` |
| `AuditTrail` | `audit.service.ts`, `event.consumer.ts` and `job.worker.ts` of the audit service | `AuditTrailProofs` |
| `RefreshSession` | `auth.service.ts` and `auth.controller.ts` of the identity service with `auth.tsx` of the portal | `ServicesProofs` |
| `EvidenceProjection` | the evidence service's outbox and publisher, and the projection consumer of the case service | `ServicesProofs` |
| `CaseProofs` | `case-proof-read.service.ts` and verification in `proof.service.ts`, with the queries of `CaseLedger.tsx` | `ServicesProofs` |
| `DefinitionVersions` | workflow definitions in `workflow.service.ts` and prompt versions in `assessment.service.ts` | `ServicesProofs` |
| `MCServices` | one instance of the components without fairness: `TriggerIntake`, `AuditTrail`, `RefreshSession`, `EvidenceProjection`, `CaseProofs`, `DefinitionVersions` | `ServicesProofs` |
| `MCSchedulers` | one instance of `ConnectorPolling` and `AssessmentRun`, with their fairness | `SchedulersProofs` |

Definitions marked `Seeded fault` are not part of a specification: each is a
plausible bug in the definition that follows it, used to confirm that a
property can fail.

### 2.1 LedgerProof

`req[p]` is the `proof_requests` row (state, attempts, lease, backoff),
`attemptLog[p]` its `ledger_transactions` rows, `binding` the rows of
`ledger_provider_bindings`, `outbox[p]` the event types appended, `ledger[p]`
what the channel holds under the proof id and `inFlight` the transactions a
client stopped waiting for.  `worker[w]` and `operator[o]` hold the program
counter and the local variables of a tick and of an operator's call.

| Code | Actions |
|---|---|
| `createEvidence`, `createDecision` | `Create` |
| `tick`: `findFirst`, `updateMany` | `Find`, `Acquire` |
| `process`: row read, `getTransaction`, `confirmExisting` | `Read`, `Query`, `Confirm` |
| `process`: SUBMITTING, attempt row, `submitProof` | `Mark`, `Record`, `Submit` |
| `process`: success transaction, its failure, catch | `FinishSubmitted`, `CommitFails`, `FinishFailed` |
| an exit, or a throw nobody catches | `Crash`, `Exit` |
| `retry` | `RetryCheck`, `RetryWrite` |
| `reconcile` | `ReconcileStart`, `ReconcileQuery`, `ReconcileWrite` |
| clock, orderer, other clients | `LeaseExpires`, `BackoffElapses`, `LateCommit`, `ForeignAnchor` |

Each `await` at which another process may run separates two actions; a
`$transaction` is one action.  Time is abstract: a lease or a backoff ends when
`LeaseExpires` or `BackoffElapses` says so, except that a lease read as expired
by `findFirst` is still expired in the `updateMany` of the same tick, which
compares with the same `now`.  `Submit` covers the answers the provider can
give: success, success with the answer lost, a deadline with the transaction
still at the orderer, an error before it got there, a permanent rejection
(endorsement or MVCC validation) and `PROOF_ID_CONFLICT`.  The provider
interface also allows `PENDING_FINALITY`, which the one provider installed
today never answers: `Providers` chooses.  A lost answer is a retryable failure;
`fabric-ledger-provider.ts:136-147` sorts errors by their message, and one it
does not recognise would be permanent although the ledger may have committed:
that outcome is left out.

### 2.2 WorkflowDecision

One case.  `instances` is the sequence of its cycles; `tasks`, `runs`,
`reviews`, `recs` and `decisions` are the tables; `call[a]` is what a request
(or the consumer's event) holds between its reads and its writes.  A command is
an `Enter…` action with its checks, which the code makes before its transaction
and repeats inside it against the same row version, and a `Commit…` action with
its writes.  What the database checks again at the write is part of `Commit…`:
unique indexes (`Fresh`, `FreshNumber`, `Undecided`) and conditional updates
(`Claimable`, the task of `requestCorrection`).  `claim` updates its task first,
so from `EnterClaim` on the row is locked (`Locked`).  `resubmit` is two
transactions.  `GiveUp` stands for every refusal that depends on what is not
modelled: eligibility, a stale evidence snapshot, malformed input, a lost
connection.

Abstracted: COMPLETED, CANCELLED and EXPIRED tasks are all "CLOSED" (no guard
tells them apart); the verdict of the rules is a free choice; the versions a
client sends are the current ones, since any other is refused at once.
Left out: definitions and recommendation drafts, comments, the append-only
history, the outbox and case synchronization.

### 2.3 EvidenceLifecycle

One asset.  `asset`, `version`, `session`, `job`, `scans`, `candidate` and
`holds` are the tables, `quarantined` and `canonical` the versions whose object
is in each bucket.  `upload[v]`, `worker[w]`, `clerk[k]`, `expired` and `doomed`
are what a request, a tick or the reconciler holds between a read and the write
that uses it.

| Code | Actions |
|---|---|
| `upload`: `prepareUpload`, `putQuarantineObject` and checks, final transaction | `Prepare`, `Store`, `CompleteUpload`, `UploadRollsBack` |
| `markUploadFailure`, the exit of the server | `MarkUploadFailure`, `UploadLost` |
| worker `claim`; `scan` and its reads | `Claim`, `LoadScan`, `Scan`, `Complete` |
| `rejectInfected`; `promote` | `Reject`; `Copy`, `Finalize`, `FinalizeFails`, `Cleanup` |
| `integrity` | `LoadCheck`, `Verify` |
| `fail`; exit; `onModuleDestroy` | `Fail`; `Crash`; `Shutdown` |
| `reconcile` | `RecoverLease`, `FindExpired`, `Abandon`, `Examine`, `Collect` |
| `queueIntegrity`, `placeHold`, `releaseHold` | `QueueIntegrity`, `Enter…Hold`, `PlaceHold`, `ReleaseHold` |

Time is abstract: a lease, a session or a candidate's safety period may have
ended whenever it is looked at, so a worker can lose its lease at any step and
several can hold the same job in turn.  A transaction may fail and roll back; a
commit whose answer is lost is modelled for the copy between buckets only, not
for the last transaction of an upload (`evidence.service.ts:507-581`), which
`CompleteUpload` knows to have committed or not.
Left out: integrity-check rows, idempotency records, metadata, links, access
grants and events; nothing modelled reads them.

### 2.4 CaseSync

One case and two services.  `instances` (by cycle: state, `active` and
`caseSyncStatus`), `decisions` (the cycles with a decision record) and `ops`
(`case_sync_operations`, in the order of `createdAt`) are the workflow's tables;
`record`, `history` and `inbox` are the case service's.
`call[a]` is an attempt, of a tick or of the request of `decide`; `requests` are
the calls of `workflow-sync` under way, with what the case service has read for
them; `edit[k]` is what a clerk's transaction has read; `notices` the
`case.cancelled` events not yet consumed, `cancelling` the instance the consumer
of one has found.

| Code | Actions |
|---|---|
| `start`, `reopen`, automatic start | `Start` |
| `validate`, `recommend`, `decide` with `queueSync` | `Validate`, `Recommend`, `Decide` |
| review, correction, `withdraw`, consumer of `case.cancelled` | `Review`, `Correct`, `Withdraw`; `FindCancelled`, `CaseCancelled` |
| `OperationalWorker.tick` | `Tick` |
| `attemptCaseSync`: reads and call, success, catch | `Attempt`, `FinishSynced`, `FinishFailed` |
| `nextAttemptAt`, `AbortSignal.timeout`, exit | `BackoffElapses`, `Timeout`, `Exit` |
| `internalWorkflowSync`: reads, writes | `Receive`, `Apply` |
| case `update`, `cancel` | `BeginUpdate`, `BeginCancel`, `Write` |
| `addParty`, `addAssignment`, `removeAssignment` | `Touch` |

A command of the workflow checks the instance and writes it by primary key
later.  The write is an action; the checks are remembered in the row itself:
`passed` are the commands whose check holds of some state the instance has had
(`From`), so `Passed(c, "withdraw")` says that some request may have checked a
withdrawal by now.  A command is therefore taken whatever became of the instance
since its check, and a decided instance may be withdrawn, corrected or validated
again, as `workflow_terminal` shows of the code.  What the database does check at
the write is kept: one decision record for an instance, one active instance.
Tasks and who asks are the subject of `WorkflowDecision`; `Correct` and `Review`
stand for every command that queues nothing.  An exit forgets the checks made
before.  APPROVED and REJECTED are one state.  A timed out request
is lost or goes on without its caller (`Late`).  `Start` may read a status that
is no longer the case's: the automatic start does not look at it at all.
Backoff is a flag, cleared when the time comes.  A tick takes all that is due;
the code takes ten, which is more than the model holds.  Attempts are counted up
to `MaxAttempts`, above which no guard tells them apart.
Left out: the timeline's reasons, versions and times, and events other than the
cancellation.

### 2.5 TriggerIntake

`trigger`, `canonical`, `outbox` and `listed` (a row of `failed_triggers`) are
the integration service's tables, `topic` is `cdep.integration.trigger.v1`,
`asset` and `inbox` the evidence service's tables.  `caller[c]` is a webhook
request, a poll, a replay or an operator's resolution; `publisher[f]` a flush.

| Code | Actions |
|---|---|
| `acceptWebhook`: receipt looked up; transaction | `LookUp`, `Insert` |
| `runConnector`: upsert of a polled row | `PollDelivers` |
| `processTrigger`: reads, pending, correlation, outcome | `Load`, `Pend`, `Correlate`, `Write`, `WriteFails` |
| `replay`, `resolveCase` | `Replay`, `Reopen`, `ResolveCase` |
| exit, or an error nobody catches | `Abandon` |
| `OutboxPublisher.flush` | `Pick`, `Send`, `SendFails`, `MarkPublished` |
| `SourceTriggerConsumer` | `Consume`, `Dismiss` |

The outcome of correlation (one case, none, several, a failure) is a free
choice: it depends on rules and data outside the model.  Events on the topic are
read in any order and any number of times.

### 2.6 ConnectorPolling

One connector and the external table it polls.  `table` are the visible rows,
ordered by watermark and tie-breaker, `captured` those with a trigger.
`runner[r]` is a call of `runConnector`: `Claim` (the scheduler's conditional
update) or `RunNow`, then `Open`, `Acquire`, `Read`, `Poll`, `Commit`, `Finish`,
or `RecordFailure` and `Exit`.  `PutCredential`, `Activate` and `Pause` are the
operator's.  The transaction of `Commit` does not look at the lease again.  A
row that becomes visible behind a checkpoint that is stored or in use is `late`:
no cursor over a watermark can find it, and the properties exclude it by name.

### 2.7 AssessmentRun

One assessment: its status, `jobLease`, executions, prepared input, output, and
what each worker holds (`aiWorker[w]`) between the steps of `process`.

| Code | Actions |
|---|---|
| `request` | `Request` |
| `tick` | `Find`, `Acquire_AI` |
| `process`: load; refusals; prepare; execution; gateway; save | `Load_AI`, `FinishCancelled`, `FinishBlocked`, `Fetch`, `Store`, `CreateExecution`, `SubmitToGateway`, `AwaitResult`, `Save` |
| `status` between them | `Announce` |
| `fail` | `Fail` |
| `cancel`, `retry`, `retryFailure` | `CancelCheck`, `CancelWrite`, `RetryCheck`, `RetryWrite` |
| `setKillSwitch`, `updateRuntime`; superseding consumer | `Disable`; `Supersede` |
| clock, exit, the workflow's own changes | `LeaseLapses_AI`, `BackoffElapses_AI`, `Exit_AI`, `WorkflowMoves` |

`raced` records that a status was written over one its writer had not read: by
`cancel` and `retry`, which read before they update by primary key, and by
`status()` of a worker whose lease has lapsed, which writes RUNNING over
SUCCEEDED.  `ResultStands` and `RequestsSettle` hold up to that, the model reaches
it, and the code does lose or strand a result there.  `Supersede` is taken only
when the workflow's version differs from the pinned one; the consumer supersedes
on any later event.

### 2.8 AuditTrail

`record` are the audit records with the millisecond of their ingestion and the
record they link to; ids are random, so a new record takes any unused one.
`KeepEvent`, `QuarantineMessage` and `ConsumeMessage` are the consumer of one
partition, `CommitOffset` and `Redeliver` its Kafka client; `CreateJob`,
`CancelExport` and `Download` the requests that append a control record;
`FindJob`, `ClaimJob`, `DoJob`, `FinishJob`, `JobFails` and `AuditorExits` the
job worker.  One clock serves all processes (`TimePasses`); `ingestedAt` is each
process's own `now()`, so replicas whose clocks differ may order records
otherwise.  An update to COMPLETED that commits while its answer is lost, so that
the catch writes FAILED over it (`job.worker.ts:113-139`), is left out.  Appends are serializable transactions and so one step each.  A
record's hash is as good as its id.

### 2.9 RefreshSession

`session` are the rows of `refresh_token_sessions`; the tabs share one `cookie`.
A refresh is `SendRefresh` (tab), `FindSession` and `Rotate` or `RevokeFamily`
(service), `HearRefresh` or `LoseRefresh`; a logout `SendLogout`,
`RevokeCurrent`, `HearLogout`.  `Bar` stands for expiry and for an account that
is locked.  `disturbed` records that two calls overlapped or that an answer was
lost: then the code does not keep session and browser together, and
`SessionFollowsBrowser` says nothing.  `RevokedIsRefused` has no such exception.

### 2.10 EvidenceProjection

`AppendEvent` writes an outbox row of the asset; `StartFlush`, `SendRow`,
`MarkRow`, `RowFails`, `FlushPasses` and `RowComesDue` are flushes, which may
overlap; `partition` is the topic's partition with its `offset` and the
committed one, `safe`; `ConsumeEvent` is the projection's transaction, `ReadAgain` a
rebalance.  A failed send lets later rows pass.

### 2.11 CaseProofs

`proof[p]` is a proof request with its target (an evidence version or the n-th
decision of the case), `held[p]` what the ledger has under its id, `latest[p]`
the verification that counts.  The saga is that of `LedgerProof`, reduced to
what it may write to the row (`Resume`, `Succeed`, `Confirm_CP`, `Fail_CP`).  A
verification is `FindProof`, `CompareLocal`, `AskLedger`, `RecordVerification`;
a summary is three reads answered in any order (`ReadPart`) after `Open_CP`; the
portal's list is `StartWalk` and `NextPage`, with the cursor of the service;
`InOrder` is the `ORDER BY` of its query, and a proof's id is never the cursor's
"none" (`CaseProofsAssumption`).
`SummaryState` and `LedgerConfirmation` are the derivations of the same names,
without the provider's availability.  `CountIn` counts the decision proof of the
list whether or not the decision was there to be read, as the code does (170);
`Eligible` depends on the decision (169).

### 2.12 DefinitionVersions

`text[v]` is the row of a version (status and content), of a workflow
definition or of a prompt template.  Creating, changing, publishing and, for
prompts, retiring is an `Enter…` action with the check and a `Commit…` action
with the write by primary key; `Flag` and `RetireDefinition` are conditional
updates and one step.  `Pin` is `start` or `request` under a published version.
`crossed` and `flagMoved` record that another request came between a
publication's check and its write.

### 2.13 MCCaseSync, MCServices and MCSchedulers

`MCCaseSync` restricts `CaseSync` to one `scene` in a behaviour (`Within`), which
leaves every step a step of `CaseSync`.  `SceneFairness` is the fairness of
`FairSpec` of the steps a scene has; a fair step that is left out is one of the
second caller, who then never begins, or the abandoning of a request without its
being lost, which the same action can always do by losing it.

The components joined in `MCServices` share no state, so a behaviour moves one
of them (`active`) and their states add up instead of multiplying; `CaseProofs`
is joined three times, for the summary, for verification and for the list,
which do not read each other's state except that a verification issue hides the
other states of the summary.  `MCSchedulers` does the same for the two
components with fairness.

## 3. Runs

| Run | Question | Result |
|---|---|---|
| `ledger_safety` | Can any interleaving of two workers, an operator, an exit, lost answers and foreign anchors announce, confirm or refuse a proof wrongly, or break the abstract saga? | holds |
| `ledger_settles` | Is every pending proof settled in the end? | holds |
| `ledger_restart` | Does another worker submit a proof whose process exited before submission (`docs/ledger-phase6.md`)? | violated |
| `workflow` | Do two users' overlapping requests, through cycles and repeated validation, keep duties separate, one active cycle, one claimant, one record of a decided state and a review before it? | holds |
| `case` | With commands that write over what they have not read, overlapping attempts, a request that outlives its caller, an exit or a clerk's cancellation: is nothing unapplied SYNCED, nothing applied twice, the case DECIDED only through a recorded decision, the newest operation settled in the end? | holds |
| `case_behind` | Does a SYNCED workflow mean the case has its status (`docs/workflow-phase4.md`)? | violated |
| `workflow_terminal` | Are terminal decisions immutable (`docs/workflow-phase4.md`)? | violated |
| `evidence_workers` | Two workers and an exit around one version: is only scanned content made available, does every job keep its version moving, is every version settled? | holds |
| `evidence_versions` | Two overlapping uploads, a hold and an integrity check: is an ACTIVE asset never without content, the lineage without gaps? | holds |
| `services` | Six components under their overlaps, exits and redeliveries: is a trigger's event queued or sent, a trigger stranded by an exit or a throw only, the audit chain broken at ties only and its events kept, a job ended once, a revoked session refused, the last event shown, no proof shown that the ledger does not back, a page walk complete, a published version unchanged, each outside the overlaps its property exempts? | holds, with the exemptions listed below |
| `schedulers` | Leased polling and leased assessments with lapsed leases and exits: does the checkpoint pass no row, do rows arrive, does a result stand and is a request settled unless a status was written over one not read? | holds, with the exemptions listed below |
| `evidence_rejected` | Does a failed version leave the current one readable (`docs/evidence-management.md`)? | violated |

`ledger_restart`: an exit after `Mark` leaves the row SUBMITTING.  `tick` looks
for PENDING, FAILED_RETRYABLE and SUBMITTED, `retry` accepts FAILED_RETRYABLE
and `reconcile` lists SUBMITTED and FAILED_RETRYABLE, so no operation of the
service moves it again.

`workflow_terminal`: `withdraw` compares the row version before its transaction
and updates by primary key inside it; a decision recorded in between is
overwritten by WITHDRAWN.  The decision record itself remains
(`DecidedIsRecorded` holds).

`evidence_rejected`: `markUploadFailure` derives the asset's status from the
asset as it was before its own upload.  When the first version becomes available
between, the failure of the second writes REJECTED over ACTIVE, a status in
which the content is no longer served.  (Without that overlap a failed or
infected second version also leaves the asset PROCESSING.)

`case_behind`: two validations of one workflow with different verdicts.  The
upsert of `queueSync` keeps the target of the first, so the case gets the status
of the first (or, when that was applied before, nothing: its id is in the
inbox), and the workflow says SYNCED.

What the properties of `services` and `schedulers` exempt by name, because the
code does not keep it there.  None of them shows that the hazard is harmless;
each says that nothing else breaks what it states.

| Property | Exempt | What the code does there |
|---|---|---|
| `QueuedOrSent` | `overtaken`: a replay replaced the outbox row while a flush was sending it | marks the new event published unsent; an earlier event of the trigger was sent |
| `StrandedOnlyByExit` | `forsaken`: the caller exited or threw halfway | leaves the trigger waiting until it is replayed |
| `BreaksOnlyAtTies` | records ingested in one millisecond | links to the record with the greater id |
| `SessionFollowsBrowser` | `disturbed`: overlapping calls, a lost answer | revokes the family of an honest browser, or lets a session outlive a logout |
| `SettledIsLatest` | `Overtaken`: an event sent after a later one | shows the earlier event |
| `GovernanceStands` | `crossed`, `flagMoved`: edits that crossed | alters published content, leaves two defaults or none |
| `ShownIsHeld` | a second decision; a decision read before it was made and its proof after | shows the first decision's proof; counts it for the evidence |
| `PassedIsCaptured`, `RowsArrive` | `late`: rows that became visible behind a checkpoint in use | passes them |
| `ResultStands`, `RequestsSettle` | `raced`: a status written over one not read | queues a result again, strands a request |

Behaviours of the models that no run is spent on.

Synchronization: the newest
operation of an instance is asked for again without bound as long as an older
one is due, and one that is always refused keeps the older waiting; a re-queued
operation whose attempts are used up is never taken by a tick; a
synchronization that read the case before a cancellation writes over it, and may
give out a version a second time, after which a clerk's conditional update
succeeds on a case the clerk has not seen; a cycle reopened after a decision
never reaches the case, which stays DECIDED.

Evidence: a FAILED version may become
AVAILABLE through a worker that lost its lease or an upload that completes after
its session was abandoned; an exhausted integrity check turns an AVAILABLE
version FAILED; the current version may move back when an older one is finalized
last; the collector may delete the object of an upload that completed after it
was abandoned; a version that failed before it had a digest blocks every later
one (`LineageKnown`).

Integration: rows captured by a poll stay RECEIVED when `processTrigger` throws
for one before them; without a checkpoint each poll computes its first watermark
anew, so rows may fall below it.

Assessments: failures before an execution exists are retried without bound
(`assessment.worker.ts:396`), although `docs/ai-assessment-phase5.md:29` says
"bounded retries".

Audit: a job whose worker exits stays RUNNING.

Proofs: the summary takes the decision proof requested last for the proof of
the last decision, so after a reopening and a second decision the case is shown
ANCHORED with the first decision's proof, and `verifyDecision` then reports a
mismatch; a summary whose read of the decision was answered before the decision
was made, and whose read of the proofs after the decision was anchored, counts
the decision's proof for the evidence and shows the case ANCHORED with no entry
for it; a NOT_FOUND verification made before the anchoring stays the latest
and makes the summary VERIFICATION_ISSUE; `confirmExisting` and `reconcile`
confirm by id without comparing content.

Versions: a change that crosses a publication alters the published content,
against ADR 0017; two publications of defaults that cross may leave two
defaults or none.  Read from the code, not modelled: `start` orders definitions
by `organizationId` descending (`workflow.service.ts:456`), which in PostgreSQL
puts NULL, the platform's own, first, so that a tenant's default is not chosen
while the platform has one.

### Bounds

* `ledger_safety`: one proof, because proofs share nothing but the order in
  which `findFirst` takes them; two workers are enough for a lease to be lost
  to a successor; two attempts make the retryable failure and the last one
  distinct; `MaxSubmissions` = 3 lets a worker overrun `MaxAttempts`, which
  re-acquisition makes possible; two operator calls, one crash.
* `ledger_settles`: two proofs compete for one worker, so starvation would
  show; `MaxSubmissions` = 5 is above what the attempts and the two operator
  calls can reach, so the bound does not end a behaviour.  No crash: with one,
  `ledger_restart` shows the property fails.
* `workflow`: two users for separation of duties (`FourEyes`,
  `ReviewerExcluded`), two overlapping requests.  `MaxStages` = 3 bounds cycles
  and validation runs together: a reopened case, or a cycle validated again.
  `MaxTasks` = 3 and `MaxUpdates` = 8 bound the rows at which commands still
  enter; the way to a decision has three tasks and seven updates.
* `workflow_terminal`: one user without separation of duties, the same rows.
* `evidence_workers`: one version, since workers share nothing but jobs; two
  workers so that a lease passes on, two attempts so that a retry and the last
  attempt differ.  The code does not bound claims: `MaxClaims` = 4 allows each
  attempt to be lost once.  One exit or shutdown.
* `evidence_versions`: two versions to overlap, one attempt and two claims each,
  one hold, one version checked; the worker is one because a second adds only
  what `evidence_workers` covers.
* `case`: one case, as cases share nothing; one cycle with its three operations;
  `MaxAttempts` = 2, so that a failure backs off and is retried.  A behaviour has
  one `scene` of five, since all of them together are more than TLC finishes:
  commands taken after any check they may have passed; two callers at once, up to
  the second operation; one request that nobody waits for, which overlaps the
  retry; one exit; a clerk who cancels the case or changes its version while an
  operation is applied or the workflow moves on (`MaxVersion` = 2 is the version
  at which the case is OPEN).  Outside the first scene no command crosses another
  (`Onward`).  The safety properties are proved for any number of callers, late
  requests and exits in one behaviour; of `NewestSettles` nothing is known beyond
  the scenes.
* `case_behind`: one caller, no late request and no exit.
* `services`: intake with one trigger, two cases, two callers, two flushes, three
  events, one replay and one abandoned caller, enough for a replay to overtake a
  flush; audit with three records, one event delivered at two offsets, one job,
  two workers, three milliseconds, one rebalance, one exit; session with one login,
  two tabs, four tokens and one lost answer, enough for a rotation, its overlap
  and a token used again; projection with one version, two events, two flushes,
  three sends, one second reading; proofs with one version, two decisions, two
  proofs (three for the list, so that a page has a successor and ties occur), one
  verification recorded, and a summary of a case decided once, as its property says; versions
  with two definitions, one prompt, two requests, two versions each, two
  contents, one start.
* `schedulers`: two rows of one watermark, a batch of one and two runs, so that a
  run overtakes another between two rows of a tie; one fault, three commands
  (credential, activation, one more).  Two workers on one assessment, one retry,
  one outage, one lost worker, one command, one change of the inputs.
* Deadlock is not checked: a ledger with every request settled, a decided or
  exhausted case, a cancelled one, an asset or a service at its bounds have
  nothing left to do.

### Fairness

`FairSpec` of `LedgerProof`: weak fairness of each worker's tick, because
`setInterval` calls it for as long as the process lives, and of the expiry of
leases and backoffs, because the clock moves.  Nothing is assumed of operators,
of the answers of the ledger or of the orderer.  `WorkflowDecision` has no
fairness: its progress depends on people.  `FairSpec` of `CaseSync`: weak
fairness of each caller's ticks and of the steps of its attempt, as the timer
goes on and a call ends within four seconds, and of the end of each backoff;
none of people, of the case service's answers or of exits, whose number is
bounded.  `FairSpec` of `EvidenceLifecycle`:
weak fairness of each worker's tick and, for each version, of finding and
abandoning its expired session, which the same process does on a timer; none of
requests, of the answers of scanner and store or of the recovery of leases.
`PollingFairness`: weak fairness of the passing of the interval and of the
lapse of a lease, which are the clock's, and of each runner's claim and of its
next step, because the scheduler's timer goes on and a run ends in success or
failure.  `AssessmentFairness`: the lapse of leases and of backoffs, each
worker's look for work and the next step of its run; outages, exits and operators
are bounded but not fair.  `MCServices` has none.

## 4. Proofs

The theorems hold for every value of the constants that satisfies the named
`ASSUME` of the module: any sets of users, workers, tabs, rows, proofs or
events, however often a process exits, and with every bound put as far as one
likes.  What is assumed:

* bounds are natural numbers, attempts and page or batch sizes at least 1;
* "none" values (`Nobody`, `NoTrigger`, `NoCase`, ...) are not members of the
  sets they stand beside, and ids of proofs are numbers other than the cursor's
  "none";
* `Proofs` of `LedgerProof` and `Workers` of `AssessmentRun` are finite;
* in `AuditTrail` time has a first millisecond, and the ids of consumed events
  differ from those of control records, which are drawn as random uuids
  (`appendControlRecord`);
* rows of a polled table are ordered by numbers.

Each proof has the same layout: an invariant, made of named parts, that is
stronger than the properties; one lemma per action, or per group of actions that
touch the same rows, which says that the step keeps it; the step theorem by cases
on the next-state relation; the properties from the invariant.  None of the
properties below is inductive by itself except where a type is.

### 4.1 The ledger (`LedgerProofProofs`)

* `TypeCorrect`: `Spec => []TypeOK`
* `AnnouncedSafe`: `Spec => []AnnouncedIsAnchored`
* `ConfirmedSafe`: `Spec => []ConfirmedIsRecorded`
* `ConflictSafe`: `Spec => []ConflictIsForeign`
* `ExclusiveSafe`: `Spec => []AttemptExclusive`
* `SagaImplemented`: `Spec => ImplementsSaga`, the refinement of `ProofSaga`

The invariant is `LedgerInv == TypeInv /\ Memory /\ Rows`: `TypeInv` adds to
`TypeOK` that what a process remembers names an existing request; `Memory` says
what a worker or an operator may rely on between two steps (a worker about to
finish with FINALIZED knows its payload is anchored, one about to confirm knows
the ledger holds an entry and the binding exists, one that got a conflict knows
the entry is foreign); `Rows` states the three properties and the binding's
announcement.  The argument rests on `Monotone`: no step removes an entry of the
ledger, a binding or an event, so what a process remembered stays true however
old it is.  The lemmas `ReleaseEffect` to `AnchorEffect` say what each shorthand
of the actions changes; `MemoryStep` and `RowsStep` go through the actions with
them.

`AttemptExclusive` is inductive beside `TypeInv`: a number is handed out only
where no row has it (`Record`, the unique index), and a submission under way has
its row.  For the refinement every
action is mapped to a step of `ProofSaga` on the mapped state or to a stutter.

### 4.2 Evidence (`EvidenceLifecycleProofs`)

* `TypeCorrect`: `Spec => []TypeOK`
* `CurrentSafe`: `Spec => []CurrentIsVerified`
* `StrandedSafe`: `Spec => []NothingStranded`
* `ActiveSafe`: `Spec => []ActiveHasCurrent`
* `LineageSafe`: `Spec => []LineageIntact`

The invariant is `EvidenceInv`.  Besides the five properties it says that a
busy worker holds an existing job and knows the number of its attempt
(`Holding`, `Owned`), that a version with a scan job was uploaded in full by an
upload that is over (`Accepted`), what an upload or hold request may rely on
(`Requests`) and what a worker may rely on (`Memory`): one about to copy knows
of a clean scan, one about to finalize of the copy as well, one about to
complete a job without doing anything knows its version is settled, and one
about to fail a scan job will tell the version.  None of this mentions the
lease: the worker that lost it acts on facts no step takes back (`Monotone`,
`SettledStays`).  `VersionStep`, `AssetStep`, `UploadStep`, `ClerkStep` and
`JobStep` go through the actions once each and say how a row may change; the
properties follow from them.

### 4.3 The workflow (`WorkflowDecisionProofs`)

* `WorkflowInvariant`: `Spec => []FullInv`
* `WorkflowTypeCorrect`: `Spec => []TypeOK`
* `ApproverSeparated`: `Spec => []SeparateApprover`
* `DecisionRecorded`: `Spec => []DecidedIsRecorded`
* `DecisionReviewed`: `Spec => []ReviewedBeforeDecision`
* `HolderUnique`: `Spec => OneHolder`

`FullInv` is `TypeInv`, `Sound`, `Claims` and `OneActive`.  `TypeInv` has the
types and the references: a row's cycle exists, an instance's task and
recommendation are of its own cycle.  `Sound` says why a decision may be made at
all: a cycle that is ready for a recommendation or a decision has a favourable
review, one that waits for a decision has a recommendation that does not ask for
evidence, and a request between its checks and its commit holds what it was
checked against (`CallSound`).  Reviews, recommendations and decisions are only
ever added, so a check made earlier still holds at the commit, whatever other
requests committed between; that is what the proof turns on, because the writes
themselves are by primary key.  `Claims` says that a claim in its transaction has
its task, still PENDING, to itself, which is the row lock of the conditional
update.

### 4.4 Case synchronization (`CaseSyncProofs`)

* `CaseSyncInvariant`: `Spec => []Inv`
* `CaseSyncTypeCorrect`: `Spec => []TypeOK`
* `SyncedShown`: `Spec => []SyncedWasShown`
* `OperationAppliedOnce`: `Spec => []AppliedOnce`
* `CaseDecidedByWorkflow`: `Spec => []DecidedByWorkflow`

The inbox of the case service is the anchor.  `CaseSound`: what is in it the
timeline shows, and an entry an operation made is of one in it, once; `CallSound`: an attempt is answered "ok"
for an operation in the inbox only; `RequestSound`, `OneRequest`: whoever waits
for a request asked for its operation and for nothing else, so an answer that
comes late has nobody to mislead; `OpSound`: only a decision asks for DECIDED,
and its cycle has its decision record, which no command removes whatever it
writes over the instance; `EditSound`: no clerk writes DECIDED, and what a
clerk has read the case once was.

### 4.5 Source triggers (`TriggerIntakeProofs`)

* `IntakeInvariant`: `IntakeSpec => []IntakeInv`
* `EventQueuedOrSent`: `IntakeSpec => []QueuedOrSent`.  A published row's event is
  on the topic; of a row in `overtaken` it says only that some event of its
  trigger is, as the replay's may be lost.
* `WaitingIsAttended`: `IntakeSpec => []StrandedOnlyByExit`, except what is in
  `forsaken`.

`IntakeInv` adds to the types that the canonical event and the outbox row of a
trigger are of one emission (`SameEvent`), that a flush about to mark a row has
its event on the topic (`PublisherSound`), and that a waiting trigger has a
caller past its insert or one that ended halfway (`Attended`).

### 4.6 The audit trail (`AuditTrailProofs`)

* `AuditInvariant`: `AuditSpec => []AuditInv`
* `ChainBreaksOnlyAtTies`: `AuditSpec => []BreaksOnlyAtTies`
* `CommittedIsKept`: `AuditSpec => []PassedIsKept`
* `JobsEndOnce`: `AuditSpec => JobEndsOnce`

`AuditInv` is `AuditTyped`, `ChainSound` (as long as no two records share a
millisecond, each links to the one that sorts last before it), `IngestSound`
(every offset the consumer left behind has its record, once, or is in quarantine)
and `WorkSound` (a worker past its claim is alone on a job that is RUNNING).

### 4.7 Sessions, versions, projection, proof view (`ServicesProofs`)

* `SessionInvariant`, `RevokedSessionRefused`, `BrowserFollowed`:
  `SessionSpec => []RevokedIsRefused`, `SessionSpec => []SessionFollowsBrowser`.
  `SessionInv`: a token is claimed by one session at most, counting the rotation
  that has passed its check; a call sent after its session had ended does not get
  to its rotation; undisturbed, one call is under way and carries the browser's
  cookie.
* `VersionsInvariant`, `PublishedStands`: `DefinitionsSpec => []GovernanceStands`.
  `VersionsInv`: once a version was published nobody who would change or publish
  it is left in a transaction, unless the requests crossed.
* `ProjectionInvariant`, `ProjectionSettles`:
  `ProjectionSpec => []SettledIsLatest`.  `ProjectionInv`: what counts as sent is
  in the partition; for some offset, the view is that of the messages up to it,
  each taken once, and is that of their last event unless one of them was
  overtaken.
* `CaseProofsInvariant`, `ShownIsOnLedger`, `WalkListsAll`:
  `CaseProofsSpec => []ShownIsHeld`, `CaseProofsSpec => []PagedOnce`.
  `CaseProofsInv`: a match, recorded or on its way, is the ledger's own record;
  what the summary has read so far stays true, because the ledger forgets
  nothing; the pages read so far are the requests up to the cursor, each once,
  and what was there at the start and is not listed lies behind the cursor.
  For a case with one decision, the summary's counts are sums over its evidence
  and its decision proof (`PairCount`); if both are eligible, ANCHORED needs both
  confirmed (`FullCount`).  If the decision was not there to be read, its proof
  may be the one that is counted, and the theorem says no more than that one of
  the two has an entry.

The last needs that a page is a prefix of the requests after the cursor.
`OrderedSequence` shows that a finite set with a strict total order has a
sequence of its members in that order, each at the place its number of
predecessors gives; `LaterOrders` shows that the query's order, by time and then
by id, is one.  `InOrder` chooses that sequence instead of using
`SetToSortSeq`, which TLC evaluates by Java code and of which the prover knows
nothing.

`ServicesTypeCorrect`: `ServicesSpec => []ServicesTypeOK`.  `Joined` shows that a
behaviour of the joined instance is one of each component, so that whatever is
proved of a component holds of the instance TLC runs; the types follow from the
component's own (`IntakeTypeCorrect`, `AuditTypeCorrect`, `SessionTypeCorrect`,
`ProjectionTypeCorrect`, `CaseProofsTypeCorrect`, `DefinitionsTypeCorrect`).  The
invariants leave two things open that these prove: no two rows of
`proof_requests` have one target (`OncePerTarget`), and a version whose editor is
in a transaction exists, with a content that was written (`ContentSound`).

### 4.8 Polling and assessments (`SchedulersProofs`)

* `PollingInvariant`, `CheckpointCaptures`:
  `PollingSpec => []PassedIsCaptured`.  `PollingInv`: the mark a run has read
  passes only rows that are captured, late or below the floor (`PollSound`), and
  the one it is about to write only those and the rows it brings itself
  (`CommitSound`), with or without the lease, as what was captured stays so.  That
  a batch is a prefix of the rows after the mark rests on their order
  (`BatchIsPrefix`), that it has a last row on its being finite (`FiniteTop`).
* `AssessmentInvariant`, `ResultKeepsStanding`: `AssessmentSpec => []ResultStands`.
  `AssessmentInv`: nobody works before the request (`Unasked`); a worker past the
  preparation finds its input (`InputSound`); a worker that has made its
  execution is alone in that attempt and the attempt has not succeeded, as the
  pair of assessment and number is unique (`WorkerSound`); the lease is gone with
  the result unless a status was written over one not read (`LeaseGone`).  The
  theorem is about `save` and `fail`, which a lapsed worker cannot pass; after a
  write by `cancel`, `retry` or a lapsed worker's `status()` (`raced`) it leaves
  the status open.

* `SchedulersTypeCorrect`: `SchedulersSpec => []SchedulersTypeOK`, from
  `PollingTypeCorrect` and `AssessmentTypeCorrect`.  What the invariant of the
  assessment leaves open is how many retries `fail` orders in a row.
  `RetryBudget` counts them together with the workers about to report an error
  that may be retried (`Doomed`) and the attempts within the limit that may still
  fail (`Untried`): a failure at the gateway uses up an attempt that no other
  worker runs, and one before it needs an owner that is out, so the sum never
  exceeds the limit, the outages and the workers together.

### 4.9 What is only model-checked

* The liveness properties `Settles`, `NewestSettles`, `UploadsSettle`,
  `RowsArrive` and `RequestsSettle`: fairness is out of the prover's reach.
* The four runs that find a violation.

Nothing is proved by induction over data.  Where an argument asks for a first or
a last member (the maximum of a set, the next row, the next token) it takes a
minimal element of a well-founded relation on numbers (`WFMin`) or a cardinality
of a finite set.

## 5. Plan and what is not modelled

Done: `LedgerProof` with `ProofSaga`, `EvidenceLifecycle` (both with proofs),
`WorkflowDecision`, `CaseSync`, `TriggerIntake`, `ConnectorPolling`,
`AssessmentRun`, `AuditTrail`, `RefreshSession`, `EvidenceProjection`,
`CaseProofs`, `DefinitionVersions`.

Worth proving next: that a worker's or an operator's step of `EvidenceLifecycle`
and `CaseSync` implements an abstract service, as `SagaImplemented` does for the
ledger; for each liveness property the safety half of its argument (that what is
due has a process whose step is enabled).

Not modelled:

* Rule evaluation of the workflow service: a function of one JSON snapshot,
  without state; the workflow takes its verdict as an input.
* The API gateway, the shared packages, controllers, schemas and scripts: they
  forward, parse or describe, and keep nothing between requests.
* The portal's screens.  They are the largest part of the code after the
  services and present what the services answer; their fetching, caching and
  invalidation is the library's.  `App.tsx`, `Workflow.tsx` and other screens
  carry unresolved merge conflicts.  What the portal decides itself (refreshing
  a session; walking the pages of a case's proofs) is in `RefreshSession` and
  `CaseProofs`.
* The outbox publishers of the other services: they have the form of the two
  modelled in `TriggerIntake` and `EvidenceProjection`.
* Maintenance of source systems, rule sets, users, roles, model policies and
  runtimes, links, grants and metadata: writes of one descriptive row that guard
  nothing modelled.
* Acceptance of an assessment into a workflow draft (`assessment.service.ts:456`):
  a read, a remote draft and a row, without a transaction around them, so that an
  assessment superseded after the read is still accepted and a draft may exist
  without its acceptance.

For these reasons the map covers about a fifth of the lines of the repository's
code: most of what has state and overlaps in the services, little of the screens
and of the code that only validates, selects or formats.
