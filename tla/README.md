# A TLA+ model of WatchPoint

WatchPoint is a serverless weather monitoring service. Users register
*WatchPoints* (a place, a time window or a rolling horizon, and threshold
conditions); forecast runs arrive from a nowcast and a medium-range model; every
run is evaluated against every active WatchPoint of its tiles; crossings and
clearances are notified by e-mail and webhook. This directory holds TLA+ modules
of its core logic, TLC configurations that check them on small instances, and
TLAPS proofs.

## 1. The system

| Component | State it keeps | Operations | Interacts with |
|---|---|---|---|
| Data poller (`internal/scheduler/poller.go`, `internal/forecasts/upstream.go`) | none of its own; reads `forecast_runs` | Poll, CheckAvailability, IntersectTimestamps, triggerInference | NOAA buckets, `forecast_runs`, RunPod |
| RunPod worker (`runpod/`) | forecast arrays in S3 | inference, Zarr upload, success marker | S3 events to the Batcher |
| Reconciler (`internal/scheduler/forecast_ops.go`) | `forecast_runs` (status, retry_count, external_id) | ReconcileStaleRuns | RunPod cancel and submit |
| Batcher (`internal/batcher`) | `forecast_runs.status` | handleS3Event, ProcessRun | S3, SQS evaluation queues |
| Eval Worker (`worker/eval`) | `watchpoint_evaluation_state`, `notifications`, `notification_deliveries` | process_tile, evaluate_batch, commit_batch | SQS, S3, PostgreSQL |
| WatchPoint API (`internal/api/handlers/watchpoints.go`, `internal/db/watchpoint_repo.go`) | `watchpoints` | Create, Update, Delete, Pause, Resume, BulkCreate | `config_version` trigger, TriggerEvaluation |
| Notification core and workers (`internal/notifications`, `cmd/email-worker`, `cmd/webhook-worker`) | `notification_deliveries` | Deliver, retry, defer, bounce | SQS notification queue, SES, webhooks |
| Digests (`internal/scheduler/digest.go`) | `organizations.next_digest_at` | ScheduleDigests, Generate | notification queue |
| Maintenance (`internal/scheduler/maintenance.go`, `cmd/archiver`) | `job_locks`, `job_history`, archived rows | one task per EventBridge rule | all tables |
| Billing (`internal/scheduler/system_ops.go`, `usage.go`, `stripe_webhook.go`) | `organizations` (plan, payment_failed_at, overage_started_at), `watchpoints.paused_reason`, `rate_limits`, `usage_history` | EnforcePaymentFailure, EnforceOverage, Stripe events, usage aggregation | Stripe |
| Accounts and sessions (`internal/auth`, handlers) | `users`, `sessions`, `api_keys`, `security_events` | login, invite, rotate, revoke | middleware |
| HTTP middleware (`internal/core`) | `idempotency_keys`, `rate_limits` | auth, idempotency, rate limit | all handlers |
| Forecast API (`internal/forecasts/service.go`, `reader.go`) | none | point and batch forecasts | Zarr in S3 |
| Infrastructure (`template.yml`, `migrations/`) | queues, tables, triggers | redrive, config_version trigger | all |

Everything hard happens between these components: SQS delivers at least once
and in no order, Lambda instances of one function run at once and die, every
transaction is short and reads are made outside the transaction that writes,
and each external call may fail after the database was changed. What would make
the parts correct:

* **Poller, reconciler, Batcher**: every upstream run is eventually computed and
  dispatched exactly once, or ends failed; a completed run stays completed.
* **Eval Worker**: an older run never overrides a newer one; a run alerts a
  WatchPoint once; alerts follow the trigger state; every active WatchPoint sees
  every run or a newer one.
* **WatchPoint API and billing**: a pause is in force until someone entitled
  lifts it; billing reactivates what billing paused and nothing else.
* **Delivery**: each notification reaches each channel once, or is reported
  failed; a failing channel is retried a bounded number of times.
* **Scheduler**: a task runs once per period, and a failed one runs again.
* **Middleware and accounts**: a retried request has one effect; limits hold
  under concurrency; an organization keeps an owner.

`PROJECT.json` lists the components with what is and is not modelled, and the
hazards at the line where they bite.

## 2. The evaluation pipeline

`EvalLogic.tla` is `StandardEvaluator.evaluate_batch` for one WatchPoint in Event
Mode, as pure operators: granular idempotency (`AlreadyEvaluated`), the
configuration policy (`ApplyConfigPolicy`), and the three transitions of
`_evaluate_event` (`CrossThreshold`, `ClearThreshold`, `StayTriggered`). The
forecast is abstracted to a *reading*: conditions met without hysteresis
(`above`) and with it (`held`), and the escalation level.

`EvalPipeline.tla` is the pipeline around it. One action per step that another
process can see:

| Action | Code |
|---|---|
| `DispatchRun` | `Batcher.ProcessRun` from the tile counts to `SendBatch` |
| `Receive`, `MoveToDLQ` | SQS delivery and redrive as `template.yml` configures them |
| `DiscardForecast`, `FetchWatchPoints` | `process_tile`, `load_tile` and `fetch_watchpoints` |
| `EvaluateBatch` | `fetch_states` (its own transaction) and `evaluate_batch` |
| `Commit` | the transaction of `commit_batch`: conditional upserts, then notifications for the rows really written |
| `Publish` | one `send_message` after the commit |
| `Finish`, `Fail`, `Crash` | the handler's return; an exception, reported in `batchItemFailures`, which nobody reads, so that the message is deleted (section 13); a dead instance, whose message comes back |
| `UpdateConfig`, `Pause`, `Resume` | the API's effect on the rows the worker reads |

`evalState` is the table `watchpoint_evaluation_state`, `history` the rows of
`notifications` per WatchPoint in insertion order, `published` what was sent to
the notification queue. One tile is modelled, because tiles share neither rows
nor messages. `result` and `outbox` are a worker's local `BatchResult` and the
loop variable of the publish. Three history variables, which no action reads but to
write them, record what the properties have to know: `dropped`, the messages that
failed and were deleted; `outdated`, per worker, the WatchPoints of its result that
another worker has committed since it read their states, or for which an older
configuration was fetched than the state is for; and `overwritten`, the WatchPoints
whose row was once written from such a result. All others are `Coherent`.

`AtomicEvaluation.tla` is what this pipeline promises: a page of WatchPoints is
evaluated in one step, from the states stored, each under one version of its
configuration, and never for a run it has seen. It has the variables `forecast`,
`evalState`, `history` and `overwritten`, and neither queues nor workers nor faults.
`ImplementsAtomicEvaluation` is the refinement: the variables of the same name are
mapped to each other, `Commit` to `Evaluate` of the rows really written, and every
other action to a stutter. It holds for any number of workers that evaluate anything at
once; a row that one of them overwrote is promised no more than that no older run is
written to it. `template.yml:551` has the limit of concurrent workers commented
out, so overwritten rows do occur (section 13).

What `Readings` abstracts is the content of the next module: `EvalPipeline` takes
any sequence of readings, `Conditions` says which ones a forecast produces.

## 3. Conditions and the memory of an alert

`Conditions.tla` translates `check_condition`, `check_condition_with_hysteresis`,
`_check_all_conditions` and the escalation level, in whole units for thresholds
and tenths for values, so that the 10% buffers are exact integers. It has no
variables. `ConditionTracking.tla` puts it under `EvalLogic`: one WatchPoint, one
`EvaluateRun` per committed evaluation, any forecast value and any delay each
time. It EXTENDS both and so is the composition the real worker runs, without
the concurrency, which the pipeline module has. Its specification is called `Tracking`,
so that the proofs about the pipeline can use its lemmas.

## 4. The life of a WatchPoint

`WatchPointLifecycle.tla` is the table `watchpoints` of one organization and
everybody who writes it. A request is two steps because nothing holds the row
between its `GetByID` (or `CheckLimit`) and its write.

| Action | Code |
|---|---|
| `BeginCreate`, `Insert` | `WatchPointHandler.Create`: the limit check, then the INSERT |
| `Patch`, `BeginPause`, `BeginResume`, `Write` | read, checks and 409s of the handlers, then `WatchPointRepository.Update`, which writes the whole row except `paused_reason` |
| `Abandon`, `Delete` | a request that fails; the soft delete |
| `ArchiveExpired` | the archiver's single UPDATE |
| `ListDelinquent`, `EnforcePaymentFailure`, `ListOverage`, `EnforceOverage` | `subscriptionEnforcer`: listing and pausing are separate statements |
| `CheckCompliance` | `usageAggregator.processOrg` on `overage_started_at` |
| `Emit`, `HandleEvent` | Stripe, whose events arrive in any order and any number of times, and `routeEvent` |

`settings` stands for the columns `increment_config_version` watches; `billing` is
`paused_reason = 'billing_delinquency'`. `committed`, `billed` and `reopened` are
history variables that no action reads.

## 5. Forecast runs

`ForecastRuns.tla` is the table `forecast_runs` of one model and the four processes
that share it without a lock.

| Action | Code |
|---|---|
| `Poll`, `Backfill`, `ListUpstream` | `getSinceTime`, with and without `BackfillHours`, and later `CheckAvailability` |
| `CreateRun`, `TriggerInference`, and their failures | `triggerInference`: the INSERT, then the submission with `UpdateExternalID` |
| `StopPoll` | the `limit` of a request, an instance that dies |
| `StartJob`, `WriteForecast`, `JobFails` | `runpod/handler.py` (Clean Slate Policy) and `zarr_writer.py` (arrays, then `_SUCCESS`) |
| `InvokeManually`, `Receive` | S3's notification or an operator's `RunContext`, `ParseRunContext`, the query of the run (`GetByTimestamp`) |
| `MarkComplete`, `SendBatch` | the rest of `Batcher.ProcessRun` |
| `BatcherFails` | an error or a dead instance, and Lambda's repetition of the invocation |
| `ListStaleRuns`, `GiveUp`, `Resubmit`, `ResubmitFails`, `IncrementRetryAndUpdateExternalID`, `ReconcileRunFails` | `ReconcileStaleRuns` and `reconcileRun`, on rows read once at the beginning |

The bounds on faults, backfills and manual dispatches are one joint bound,
`MaxExtras`. `ListStaleRuns` picks a prefix of the rows as the old ones, because
`created_at` orders the rows as they were created; it does not let the oldest
include a row whose poller is between INSERT and submission, since the timeouts
of at least 20 minutes exceed the poller's time limit.

How often a timestamp is dispatched was stated wrongly at first, and the proof found
it: TLC, with one Batcher, had agreed that only a run whose *status* is failed is
dispatched more often than there are Batchers. With two, the reconciler fails a run,
each repeated event dispatches it again, since only a complete run stops the
Batcher, and then the other Batcher, which had read "running" before, marks it
complete. Hence `givenUp`, a history variable that remembers the timestamps of
failed runs.

The segments of the marker's key before the model are a constant, `KeyPrefix`,
because the code disagrees with itself: `triggerInference` writes none,
`ParseRunContext` requires `forecasts`. `ForecastRuns_keys` checks the former and
finds that nothing is ever dispatched; `ForecastRuns_runs` checks the latter,
which is the layout that the Batcher, `verify-phase6.sh` and the sample data use,
so that what lies behind that disagreement is examined too.

## 6. Delivery

`Delivery.tla` is one notification on its way to the channels of its WatchPoint. The
email and the webhook worker receive from the *same* queue, each takes the channels
it can serve, and a retry is a new message about all of them.

| Action | Code |
|---|---|
| `Take` (`ReceiveEmail`, `ReceiveWebhook`) | `Handle`, `processMessage`: the channels of the message one after the other |
| `EnsureDeliveryExists`, `Attempt` | `processChannel`: the row, the counted attempt |
| `CallEmail`, `CallWebhook`, `CallImpossible` | `Deliver` and `ShouldRetry` with every class of answer |
| `MarkSuccess`, `MarkDone`, `HandleRetry`, `HandleFailure` | `handleDeliveryResult` and what it calls |
| `CheckAggregate`, `ResetNotificationState` | `checkAndResetOnAggregateFailure`: two statements |
| `Requeue`, `RequeueFails`, `CancelDeferred` | `RequeueDeferredNotifications`, `CancelDeferredDeliveries` |
| `Bounce` | `BounceProcessor.Process` |
| `Crash`, `Redeliver`, `StepFails` | a dead instance, SQS, a failed statement |

`NextChannel` is the loop of `processMessage` (which channel comes next, or the end of the
message), `Reported` what a bounce or a complaint does to the health of its channel.
A message is its retry count, since all messages of one notification name the same
channels. `accepted` is a history variable: what the endpoints have taken.

`NotificationRules.tla` has no variables. It is the quiet hours of the policy engine,
the next time of a digest, the delay of a retry and the comparison of two digests;
`RulesHold` states what they promise for every period and every hour of a week. Time
is in whole hours; daylight saving is left out.

## 7. Accounts and requests

`Accounts.tla` is one organization with its users, invitations and sessions. A request
is authenticated with the role its actor has then (`Admitted`) and goes on statement
by statement; only `Login` and `AcceptInvite` hold theirs in a transaction.

| Action | Code |
|---|---|
| `InsertOrganization`, `InsertOwner` | `OrganizationHandler.Create`: two inserts |
| `BeginLogin`, `CommitLogin`, `Logout`, `ExpireSession` | `authService.Login`, `Logout`, the expiry |
| `Invite`, `BeginResend`, `UpdateInviteToken`, `SendInvite` | `UserHandler.Invite`, `ResendInvite` |
| `BeginAccept`, `CommitAccept`, `ExpireInvite`, `PurgeExpiredInvites` | `AcceptInvite`, and the maintenance |
| `BeginUpdateRole`, `BeginDeleteUser`, `CountOwners`, `WriteRole`, `DeleteUser`, `DeleteByUser` | `UserHandler.UpdateRole`, `Delete` |
| `CancelSubscription`, `DeleteOrganization` | `OrganizationHandler.Delete` |
| `Abandon` | an error or a dead process between two statements |

`Requests.tla` is the middleware around two groups of handlers: `RateLimit`, `Lookup`,
`Claim`, `Save` (`middleware_traffic.go`), `BulkCreate` of WatchPoints, and the creation,
rotation and revocation of API keys. A client may lose an answer and send a body
again, at once or later. `undisturbed` is a history variable: the idempotency keys
whose attempts followed one another and met no failing database.

## 8. The archiver

`HourlyJobs.tla` states what a job lock is for: within one hour at most one invocation
works on a task. `Scheduler.tla` is the archiver: the lock, taken and never given back,
and the tasks statement by statement (digests, purges of organizations and
WatchPoints, audit logs, archival with its summaries, forecast retention), by Lambda
invocations with a timeout and by the job-runner, which has none. `Jobs` is the
refinement mapping: `working` counts the Lambda invocations that hold the lock of
this hour. Time is counted in lifetimes of a lock, `PerHour` of them to an hour.

## 9. The forecast API

`ForecastGrid.tla` is the arithmetic of places: tiles, grid points, chunks with their
halo, and interpolation, where the value stored at a grid point is the coordinate of
the point, so that an answer shows what place it is about. `Forecasts.tla` is one
request (point, batch, snapshot or status) read by read, while runs complete and
`EnforceRetention` deletes old ones; its specification is called `API`, as its proofs
share a module with those of `ForecastRuns`. Requests share nothing but the runs, so one is
enough. The goroutines of `GetBatchForecast` are `ReadTile`, in any order. Their results are
put into a map under the identifiers of the client (`Put`), which nobody checks to be
distinct: of two locations of one tile the last one is named (`LastPlace`), of two tiles
the one read later, and an identifier may be answered and in error at once.

`Listings.tla` is the other half of what the API reads: the lists of WatchPoints, audit
logs, users, keys and notifications, page by page. Each repository and handler is an
operator from a table, a limit and a cursor to the pages it may answer with (`Fetched`,
`Trimmed`, `Cut`); `Walks` puts them one after the other over tables that change between
the pages. It has no variables: a list writes nothing. `Forecasts` extends it, so that
one run looks at both.

## 10. The clients of external services

`Clients.tla` is `BaseClient.Do` (circuit breaker, retries, waits) and every operation
of the Stripe, OAuth and RunPod clients above it, with the handlers that call Stripe
and the OAuth callback. Two requests share one provider, chosen in `Init`, and its
breaker. An operation is the list of its steps (`StepsOf`); a step is sent (`Send`), takes
effect or not, and its answer arrives, is lost, is an error or is garbled
(`...Answered`, `Fails`, `Garbled`). The breaker is the external package gobreaker;
its generations are modelled as the set of the calls it still counts. `Lapse` is the
time after which it half opens. `excused` is a history variable: checkouts overlapped,
or the answer to the creation of a customer was lost.

## 11. What the runs check

| Run | Question | Result |
|---|---|---|
| `EvalPipeline_chaos` | Two workers, duplicate and reordered messages, a crash or failed call, edits between the reads: can a stale evaluation overwrite or announce anything? Do alerts, sequence numbers and states agree? | no: `RunsInOrder`, `PublishedIsRecorded`, `LastRunNeverDecreases`, `NotifiedWithState`; yes, for every row that no worker overwrote: `HistoryIsWhole`, `AlertsAlternate`, and the pipeline implements `AtomicEvaluation`: `ImplementsAtomicEvaluation` |
| `EvalPipeline_pages` | With two workers, WatchPoints that come and go between the counts and the pages, and failing and dying workers, is every dispatched run evaluated? | for a WatchPoint that stays, with all before it, unless the message of its page failed (and was deleted) or went to the dead letter queue: `DispatchedIsEvaluated` |
| `ConditionTracking_tracking` | With thresholds that are not negative, does hysteresis only delay clearances, and is every escalation announced once? | yes |
| `WatchPointLifecycle_races` | Which effects can stale writes, concurrent creations and reordered payments have? | only those the properties admit |
| `ForecastRuns_runs` | How many runs, jobs and dispatches can a timestamp get, what can be skipped, and is what was written dispatched? | as the properties say |
| `ForecastRuns_keys` | With the poller's own keys, is what was written dispatched? (`handler.go:24`) | no |
| `Delivery_workers` | Do the rows of the channels tell what happened, do retries of one channel that repeat the others end, and do the rules of quiet hours and digests hold? | yes: `Consistent`, `ResetAfterExhaustion`, `Drains`, `RulesHold` |
| `Accounts_requests` | Who may lose the last owner, who becomes one, whom are sessions made for, what do spent invitations open? | only a request that counted before another wrote; the founder, whom an owner promotes, and whom an owner *or an admin* invites; active users; nothing |
| `Scheduler_jobs` | Does the lock serialize a task, is nothing lost or doubled by what overlaps nevertheless, and is every digest sent? | yes: `ImplementsHourlyJobs`, `NothingLostOrDoubled`, `NoDigestSkipped`, `DueDigestsAreSent` |
| `Requests_attempts` | Is a body executed once under its idempotency key, and is every answer true? | yes, while attempts follow one another and the database answers |
| `Forecasts_api` | Is every identifier answered, at most once, from one run per model, about a place asked under it, and is a fallback announced? Does a walk through a list repeat or miss a row? | yes; it repeats none, and misses those as old as the end of a page, and those a handler cuts off |
| `Clients_calls` | Does an organization keep one customer, is anything done twice without a lost answer, and does the breaker count the right calls? | no overlap, no lost answer: one customer; no; yes |

The pure algorithms are checked over bounded inputs in the runs of the modules that
use them: `RulesHold` and `ChoicesAreSafe` begin with `Init =>`, `ReadsAreSound` and
`WalksHold` with `APIInit =>`, which has TLC evaluate them in the initial states.

**Bounds.** Two workers, two requests, two pollers: every hazard found is between
two actors, and a third only repeats the role of one of them. `Requests_attempts` has
three, so that two attempts can overlap and a third come later. `Accounts_requests` has
five in a row, two at a time: an owner signs in and invites another, who accepts, and
both act at once. Two or three runs or
versions are needed for an order to be wrong, and one more to come back from it.
One tile and one organization, because they share no rows. `EvalPipeline_chaos` has one
WatchPoint, since WatchPoints only meet in a page; `EvalPipeline_pages` has two, each on a
page of its own, so that the rows of one shift those of the other, and a forecast that
says the same each time, since that does not decide whether it is evaluated. The
lifecycle has three WatchPoints, as the limits count them. `MaxFaults` 1 or 2 lets a
fault hit every step and a
second one its recovery. `ForecastRuns_runs` has three rows and two jobs, so that
two pollers and a backfill can meet on one timestamp and a resubmission can
overlap the job it replaces; it has one Batcher, since with two TLC needs more than five
minutes (it finds no violation either, in 3.2 million states), and the theorems
cover any number. `Delivery_workers` has one email and one or two webhook
channels, so that siblings of one worker and of two meet, and two attempts instead
of three. In `Scheduler_jobs` a lock lives half an hour, so that a second invocation
can take it within the hour, and a batch holds one row, so that every batch is full.
`Forecasts_api` has runs of four and two steps and ages of one or two hours, so that
every status and both sides of the horizon occur; its lists have four rows, two of them
of one time, and walks of three pages. `Clients_calls` opens the breaker at
the second failure instead of the sixth; once in a behaviour one of its timers runs out
or a caller hangs up. Where a theorem exists, it has none of these bounds.

Most models stop when their bounds are used up, hence `CHECK_DEADLOCK FALSE`.
Symmetry is used only in runs without liveness, over interchangeable workers,
requests, users, sessions, keys and settings.

**Fairness.** `EvalPipeline!FairSpec`: SQS delivers a visible message again and
again and Lambda runs the handler to an end or a fault; faults themselves,
edits and the clock are not forced. `DispatchedIsEvaluated` holds for any number of
faults, because it names what they cost: the messages in `dropped` and in the DLQ, and
those of the WatchPoint's own page only. Nothing weaker is enough than that all WatchPoints
before it stay active as well: TLC finds that otherwise one that is paused between the
counts and the fetch moves the rows under the OFFSET, so that no page has the WatchPoint.
`ForecastRuns!FairSpec`: the Batcher, when it has something to do, does it; RunPod,
pollers and the reconciler may stop forever, as nothing in the repository
schedules a RunPod worker and `NewForecastReconciler` has no caller outside tests.
Again the faults are fewer than Lambda's attempts.
`Delivery!Spec`: the workers go on with what they hold and take what is in the queue,
and the requeue job is scheduled. `Scheduler!Spec`: time passes, EventBridge goes on
invoking the function, and an invocation goes on until it ends; `DueDigestsAreSent`
assumes besides that at some time statements and sends stop failing
(`FailuresCease`). `Accounts`, `Requests`, `Forecasts` and `Clients` have no fairness: a
request may stop anywhere, and only safety is claimed.

## 12. What is proved

Every theorem is for all values of the constants that the modules' assumptions
allow: any number of workers, requests, rows, runs, keys and days. `Typed` is in each
module the type invariant with what an action needs to know besides types (a busy
worker holds a message; a pending write names a row).

| Module | Theorem | Argument |
|---|---|---|
| `EvalPipeline_proofs` | `TypeCorrect` | `Typed` is inductive |
| | `StaleWriteProtection` (`LastRunNeverDecreases`) | from the guard of the conditional upsert, given `Typed` |
| | `NotificationsMatchStates` (`NotifiedWithState`) | results announce themselves, and only written rows insert |
| | `NotificationsInRunOrder` (`RunsInOrder`) | strengthened by `StateCoversHistory`: no notification is of a run later than its state's |
| | `PublishedNotificationsAreRecorded` (`PublishedIsRecorded`) | strengthened by `OutboxRecorded`: what a worker still has to send is recorded; histories only grow |
| | `CoherentHistoryIsWhole` (`HistoryIsWhole`), `CoherentAlertsAlternate` (`AlertsAlternate`) | `Fresh`, for any number of workers: what a worker computed, and is not `outdated`, is an evaluation of the state now stored, under no older configuration; so each history of a `Coherent` WatchPoint is numbered, alternates, and ends as the state says |
| | `EvaluationIsAtomic` (`ImplementsAtomicEvaluation`) | `Current`, for any number of workers: what a worker computed, and is not `outdated`, is the evaluation of the state now stored, under one configuration and at one time gone by; so a commit is an `Evaluate`, and every other action a stutter |
| (of `ConditionTracking`) | lemmas on `EvaluateOne`, which the theorems above use too | types; a result's notifications carry its state's run, version and number; the run of the result is the run evaluated; `Outcome`: an evaluation leaves the state, crosses (from no alert, or to a higher level after the cooldown), or clears |
| | `TrackingTypeCorrect` | levels stay between 0 and 3 for any integers |
| | `HysteresisOnlyDelays` (`ClearedIsNotMet`) | for every set of configurations whose buffers lie on the clearing side, `CheckCondition` implies `CheckWithHysteresis`, and `Combine` is monotone |
| | `NoEscalationLost` (`SeverityAnnounced`) | inductive with `Announced`: the level and time of the last alert are those in the state |
| | `OneAlertPerLevel` (`AtMostOneAlertPerLevel`) | `CrossingsAreOpen`: the alerts since the last clearance are of distinct levels, the highest of which is in the state; `StateIsOfConfig` |
| | `AlertsDoNotFlap` (`FluctuationKeepsAlert`) | what was met and moved less than the buffer is still met with hysteresis, for each operator and both ways to combine |
| `WatchPointLifecycle_proofs` | `TypeCorrect` | `Typed` |
| | `DeletedSafe` (`DeletedStaysDeleted`) | every statement has its own condition on `deleted_at` or skips archived rows |
| | `VersionsSafe` (`VersionIdentifiesSettings`) | `Versioned`: no version committed is above the row's, so a new one is fresh |
| | `BillingLiftsItsOwn` (`OnlyBillingPausesAreLifted`) | `Marked`: the reason in a row implies that an enforcement paused it once |
| | `PlanIsNewest` (`SubscriptionIsNewest`) | `Newest`: a stored event time comes from an event delivered |
| | `LimitOvershoot` (`OvershootBounded`) | `Bounded`: rows and creations that passed the check are counted together, against the largest plan held so far |
| `Delivery_proofs` | `RowsTellTheTruth` (`Consistent`) | `WorkerHolds`: a worker that goes to mark a row failed has seen its last attempt fail, one that goes to mark it sent had it accepted, and no other worker lowers what it saw; `RowHolds` |
| | `ResetsAreEarned` (`ResetAfterExhaustion`) | from the same: attempts only grow, so the reset may come long after the check |
| | `QuietPeriodsEnd`, `DigestsKeepTheirHour` | division by the length of a day, for every time and period |
| | `FirstPeriodDecides` | the least place of a period that holds the notification back; whatever the later periods say |
| | `ComparisonsAreFair` | turning a change round is a bijection between the changes of two summaries and those of the way back |
| | `RulesAlwaysHold` (`RulesHold`) | the four together, and the delays of retries, which grow up to their limit |
| `Scheduler_proofs` | `TypeCorrect` | `Typed`, with `StepFits`: the batch of a step is of the rows of its task |
| | `NothingIsLostOrDoubled` (`NothingLostOrDoubled`) | `DataFits`: what a statement relies on is still so when it is reached (the audit logs to delete are in the bucket, the run to mark has no objects left); `SummariesHold`: summaries made and invocations about to make one are together no more than the archivings |
| | `NoDigestIsSkipped` (`NoDigestSkipped`) | `DataFits` at `advance`, which a publication precedes |
| | `ArchiverImplementsHourlyJobs` (`ImplementsHourlyJobs`) | `LockHolds`: an invocation of this hour is as old as the lock of its task, so no second one can have taken it; each action maps to a step of `HourlyJobs` or a stutter |
| `ForecastRuns_proofs` | `WorkIsAlwaysBounded` (`WorkIsBounded`) | `DispatchFits`: as long as the only run of a timestamp is not given up, nothing is dispatched while it runs, and afterwards dispatches and Batchers still at it are together no more than the Batchers; `CallsFit`: every invocation is of what was computed or of what the operator wants; `RecFits`: what the reconciler read of a run's retries is still so |
| | `RunsAreAlwaysCreated` (`RunsAreCreated`) | `ClaimsFit`: rows of a timestamp and pollers that may still create one are together no more than pollers and backfills; `LooksFrom`, `Behind`: all that is listed before what a poller looks for or creates has a row, was lost, or came late |
| (of `Forecasts`) | `ReadsAreAlwaysSound` (`ReadsAreSound`) | a chunk and its halo hold each row and column of the grid where the reader looks for it, so that what is interpolated is the coordinate itself; for every valid place, while the run looks along one line. The times of a blend are counted: before the horizon and from it on they are disjoint, and `Selected` has as many members as there are places |
| | `APIInvariantHolds`, `AnswersAlwaysHold` (`AnswersHold`) | `APIInv`: a request has the `Shape` of its step; `RunFits`, `DataFits`: points are of the one run named; `PointFits`: whether a nowcast is missing is known wherever it is told; `TileAnswersFit`: errors are the identifiers with a location in a broken tile, forecasts are one for each with a location in a tile that was read, whatever identifiers repeat, and each is what such a location was answered with |
| | `WalksAreAlwaysWhole` (`WalksHold`) | `PageFits`: what a page does not show is as old as its cursor or older; so cursors fall from page to page (`CursorsFall`), and the first page before which a row was out of reach is the one that passed it over |
| `Clients_proofs` | `InvariantHolds` | `IInv`: `Fits` says what each request holds at each step of its operation |
| | `UntroubledRequestsSucceed` (`HealthyRequestsSucceed`) | `Fits` and `RowHolds`: a request whose calls all succeed is at a step of its own operation, and once a checkout resolved its customer the row has one |
| | `EffectsAreNotDoubled` (`NothingIsDoubled`) | `OneEnsures`: as long as nothing is excused, one request at most is about sessions, and it goes to create a customer only while there is none |
| | `BreakerCountsItsCalls` (`Consistent`) | `BreakerFits`: the calls counted are under way, none while it is open and at most one while it is half open |
| | `SafeChoices` (`ChoicesAreSafe`) | for every list of up to three addresses and every attempt |
| `Accounts_proofs` | `InvitationsAreSpent` (`Consistent`) | a token in the row is one whose user is still invited; the statement of a resend has a condition of its own |
| | `OwnersAreOutlived` (`OwnersOutliveFreshChecks`), `StepsAreAlwaysAuthorized` (`StepsAreAuthorized`) | `RequestHolds`: a request between its checks and its write has counted two owners if it read one, and an admin has read no owner and makes none, nor is a member admitted; so `OwnersMade`: whoever becomes an owner is the founder, was promoted by an owner, or invited by an owner or an admin |
| `Requests_proofs` | `TypeCorrect` | `Typed` |
| | `ExecutedAtMostOnce` (`IdempotencyHolds`) | `ClaimHolds`: the attempt that claimed a key owns its row as long as it runs; `OwnerMakes`: under an undisturbed key only that attempt has made anything; `RecordHolds`, `ReplayHolds`: what is stored or given again is the answer of an attempt of its own |
| | `AnswersAreKept` (`AnswersHold`) | `AnswerHolds` and `GraceHolds`: a rotation that was answered had given the old key its last day, and no later statement shortens it |

Each `InvariantHolds` is the inductive invariant `IInv` of its module. TLC finds them to
hold on the instance of the module's run, but for the types of the answers in
`Requests_proofs` and those of the runs in `APIInv`, which mix records, numbers and
tuples and which TLC cannot compare. The prover has no induction over data; where a
proof needs it, over the pages of a walk or the periods of a schedule, it takes a least
counterexample instead (`LeastNumber`, from the well-foundedness of the numbers).

Assumptions beyond those on constants, each of which TLC shows to be needed:

* `HysteresisOnlyDelays`: buffers lie on the clearing side. Below zero the buffer of
  `> -20` degrees lies above the threshold (section 13).
* `AlertsDoNotFlap`: `BuffersFit`, no equality among the operators (they have no buffer),
  single thresholds that are not negative, for the same reason.
* `OneAlertPerLevel`, `CoherentHistoryIsWhole`, `CoherentAlertsAlternate`: `NotifyOnClear`. If
  clearances are not announced, the history shows one alert after the other.

None of the theorems about the pipeline limits the number of workers, and none about the
forecast API asks that the identifiers of a batch differ.

The proofs asked one thing of the models: where the conditions of a `CASE` overlapped,
as in the answers of `Clients` and the limits of `Requests`, TLC took the first and a
prover may take any, so they are now disjoint.

**Only model-checked.** Liveness, which is out of the prover's reach:
`DispatchedIsEvaluated`, `WrittenIsDispatched`, `Drains`, `DueDigestsAreSent`. Every other
property of a passing run is proved, under the assumptions above.

## 13. Where code and documents differ

`ForecastRuns_keys` shows one difference: no forecast the poller triggered is ever
dispatched. The others were seen while modelling; for those marked (T) TLC gave a
counterexample to the quoted statement on the module named.

Evaluation:

* (T, `EvalPipeline`) `repo.py:17` says `event_sequence` is "only incremented when a
  notification is actually inserted, ensuring a gap-free timeline". It is computed from
  a state read in an earlier transaction: two workers that evaluate two runs of a tile
  at once both insert number 1.
* (T, `EvalPipeline`) `handler.py:17` says only failed messages are retried. The event
  source mappings in `template.yml` do not set `FunctionResponseTypes`, so Lambda ignores
  `batchItemFailures` and deletes the batch.
* (T, `EvalPipeline`) `repo.py:565` promises a sweep of notifications whose publish
  failed. No job re-publishes pending deliveries, and the retried message skips the
  WatchPoint because its state was committed.
* (T, `Conditions`) `evaluator.py:187` says the buffer prevents flapping. It has the sign
  of the threshold: between -20 and -19 degrees `> -20` is met and yet clears, run
  after run.
* `!=` is accepted by the API (`enums.go:29`) and met by nothing in the worker;
  `uv_index` and `cloud_cover_percent` are evaluated as 0.
* The level of an unmet condition counts under ANY (`evaluator.py:1168`, against
  its comment at 1150), and a value below the threshold may escalate
  (`evaluator.py:283`). An `outside` range narrower than its two buffers never clears.
* (T, `EvalPipeline`) Two workers that evaluate two messages of one run at once both
  alert, as the condition of the upsert admits an equal run. OFFSET paging skips a
  WatchPoint when one with a lower id is paused between the counts and the fetch.
  The message `Resume` sends to trigger an evaluation does not parse in the worker and is acknowledged. (What these take from
  `HistoryIsWhole`, `AlertsAlternate`, `ImplementsAtomicEvaluation` and
  `DispatchedIsEvaluated`, the properties say themselves.)

Forecast runs:

* `ProcessRun` marks a run complete before it sends; a repeated execution finds it
  complete and sends nothing, where `06-batcher.md` 7.1 expects the retry to repeat
  the dispatch. `WrittenIsDispatched` exempts exactly these runs (`interrupted`).
* `poller.go:132` says a backfill shifts `since` further into the past; it sets
  `since` to `now - BackfillHours`, which may lie after the newest run (`lost`).
* `MarkComplete` stores the marker's key (empty for a manual dispatch) as
  `storage_path`, which `forecasts/reader.go:237` uses as a prefix.
* `ReconcilerDB` has no implementation: its statements are SQL in comments of the interface,
  and `ForecastRuns` follows what `reconcileRun` does with them.
* A run whose event arrives after the reconciler failed it is dispatched and stays
  `failed`; one whose completion the reconciler overlooks is rebuilt from nothing.

WatchPoints and billing:

* (T, `WatchPointLifecycle`) `watchpoint_repo.go:826` says user-paused WatchPoints are
  not reactivated. `Update` never writes `paused_reason`: after a billing pause and a
  resume by the user, the user's own pause is lifted by the next payment.
* (T, `WatchPointLifecycle`) `flow-simulations.md` (BILL-003) says new limits take effect
  immediately. Only `plan` is written; `EnforceOverage` reads `plan_limits` and pauses a
  paying organization down to the free plan. `UpdatePlan` has no caller.
* `PauseExcessByOrgID` pauses the oldest WatchPoints; the comments at
  `watchpoint_repo.go:846` and `system_ops.go:462` say the oldest are kept.
* `UpdatePaymentFailure` overwrites the failure time (`flow-simulations.md:1823`:
  `COALESCE`), and a payment does not clear it.
* PATCH may set any status: it reopens archived WatchPoints past the plan's limit, and
  one that is being purged is lost (`maintenance.go:227`). It also lifts billing pauses.
* `rate_limits.watchpoints_count`, which the usage check reads, is never written, and
  `IncrementRateLimit` never starts a new period.

Delivery and digests:

* Both workers compete on one queue. A delivery that was sent is sent again when a
  sibling is retried, since every attempt writes a row that says it is under way;
  `email-worker/main.go:184` calls this deduplication. A failure counts two attempts.
* `delivery_manager.go:134` says a delivery marked `retrying` is enqueued again by the
  caller; nothing does so. The delivery manager is nil in both workers' `main`.
* `RequeueDeferred` sets a row back before it publishes; a failure in between leaves it
  pending for good. A digest that is published before a crash is published again.
* `generator.go:24` takes `precip_prob`, `precip_mm`, `min_temp_c` and `max_temp_c` for
  the keys the worker writes; `monitor.py:472` writes the tile's names
  (`precipitation_probability`, `temperature_c`, ...), so summaries are all zero, every
  value counts as a change and `send_empty = false` suppresses nothing.
  `NotificationRules` has the generator's keys.
* A period of quiet hours past midnight is matched against the name of the day after.
* Without callers outside tests: the policy engine, the digest generator, the bounce
  processor, the signing of webhooks, `GetPendingDeliveries`.

Jobs:

* The task names in `template.yml:474-490` are not those of `scheduler/types.go`.
* The digest rule fires every minute; the lock lets it run at most every 15.
* The archiver's `main` wires an empty registry and no lock; the job-runner has no
  timeout, so two of them may overlap on a task (`NothingLostOrDoubled` holds anyway).
* `NewSubscriptionEnforcer`, `NewStripeSyncer`, `NewUsageAggregator` and
  `NewForecastReconciler` have no caller outside tests.

Accounts and requests:

* (T, `Requests`) `apikey.go:494` says a rotated key inherits the original expiry. A
  rotation that is sent again reads the expiry after the first one has replaced it by
  the end of the grace period, and returns a key that ends with it. An expired key
  may be rotated and the new one is born expired.
* `middleware_traffic.go:209` says "processed exactly once"; the store fails open, and a
  failed key is not reserved again before it runs. A key whose process died stays
  `processing` until it is purged. The primary key is the bare header value.
* (T, `Accounts`) `05d-api-organization.md:330` says an admin cannot promote to owner.
  `UpdateRole` refuses it, but `Invite` takes the role `owner` (`users.go:96`) from an admin
  and checks nothing: who accepts is an owner. `OwnersAreMade` therefore has invitations
  by admins among the ways to become one.
* (T, `Accounts`) `user_repo.go:300` says `CountOwners` counts active owners; it counts the
  invited ones too, so the last active owner can leave.
* The users table of the migrations lacks columns the repository reads (`status`,
  `name`, `auth_provider`, the invitation). An organization whose owner's insert fails
  stays without owner. An invitation may be accepted twice at once. Sessions outlive a
  failed `DeleteByUser`, API keys the user who made them.
* The API's `main` wires stubs: authentication, forecasts, billing, `CancelSubscription`.

Forecast API and clients:

* (T, `Forecasts`) `service.go:345` says "T >= 6h: Use Medium-Range". No code assigns
  `ValidTime`, so all points lie at time zero, before the horizon: where a fresh nowcast
  is read, the answer ends with it.
* `model_runs` names a nowcast whose read failed; `start` and `end` never filter; a batch is
  always called fresh. Neither its locations nor its ids are checked: an id in two tiles may be
  both in `forecasts` and in `errors`, or the later tile's answer replaces the other one's.
* A caller that hangs up fails its remaining attempts, which count as failures of the
  provider. One call to Stripe may wait 3 x 20 s, twice the function's timeout.
* The OAuth callback always ends in an error, for want of `LoginWithOAuth`. The
  subscription of an organization without customer is a 404 in spite of the free-tier
  result at `stripe.go:377`.
* (T, `Listings`) A page continues with rows strictly older than its last one
  (`notification_repo.go:272`), while one evaluation stamps all of its notifications with
  one time (`evaluator.py:621`): those of them that a page leaves out are never shown.
* Neither history handler gives `limit` to the repository, which reads 20: a smaller
  limit hides rows behind the cursor of the twentieth, or says `has_more` without one, and
  a larger one has no effect. `GET /v1/watchpoints` answers with an empty page, and
  `WatchPointRepository.List` has no caller.

## 14. Not modelled, and the plan

Left out for good: numerical inference, calibration and verification, array
decoding, message formatting, configuration loading, address filtering, the bootstrap
tool (see the notes in `PROJECT.json`). Within the modules above: tags, channels
and several organizations; two forecast models on one WatchPoint, of which a
medium-range run is skipped once a newer nowcast was evaluated; the pairing of GOES and
MRMS scans; reads and single writes that meet nothing (settings, the daily usage
snapshot, the purge of old notifications); the search of Stripe is taken to be exact.

Planned: `MonitorMode` and its deduplication; two models on one WatchPoint.
