------------------------------ MODULE Delivery ------------------------------
(***************************************************************************)
(* The delivery of ONE notification to the channels of its WatchPoint: the *)
(* email and the webhook workers, which receive from the same SQS queue,   *)
(* the delivery manager and its rows, the retry messages, the deferred     *)
(* deliveries with the job that requeues them, and the bounce feedback.    *)
(*                                                                         *)
(* A message is identified by its retry count: all the messages of one     *)
(* notification carry the same channels.  SQS delivers at least once.      *)
(***************************************************************************)
EXTENDS NotificationRules

CONSTANTS
  EmailChannels,     \* indexes of the email channels
  WebhookChannels,   \* indexes of the webhook channels
  Snapshots,         \* sets of enabled channels a notification may carry
  EmailWorkers,      \* concurrent invocations of the email worker
  WebhookWorkers,    \* concurrent invocations of the webhook worker
  MaxAttempts,       \* RetryPolicy.MaxAttempts
  MaxBounceFailures, \* maxBounceFailures
  MaxParks,          \* bound: long delays answered by the endpoints
  MaxFaults          \* bound: crashes, failed calls and duplicated messages

Channels == EmailChannels \cup WebhookChannels
Workers  == EmailWorkers \cup WebhookWorkers

ASSUME DeliveryAssumption ==
  /\ EmailChannels \cup WebhookChannels \subseteq Nat
  /\ EmailChannels \cap WebhookChannels = {}
  /\ Snapshots \subseteq SUBSET (EmailChannels \cup WebhookChannels)
  /\ EmailWorkers \cap WebhookWorkers = {}
  /\ MaxAttempts \in Nat \ {0}
  /\ MaxBounceFailures \in Nat \ {0}
  /\ MaxParks \in Nat /\ MaxFaults \in Nat

VARIABLES
  enabled,   \* the enabled channels in the payload of the notification
  delivery,  \* channel -> its row of notification_deliveries
  queue,     \* retry count -> messages waiting in the notification queue
  worker,    \* worker -> the message and channel it is at
  accepted,  \* channels whose endpoint has accepted the notification
  notified,  \* last_notified_state is set: the evaluator will not alert again
  health,    \* email channel -> failure_count and enabled, in watchpoints.channels
  sweep,     \* delivery set back to pending and not yet published, {} or {c}
  parks,     \* number of long delays so far
  faults     \* number of faults so far

vars == <<enabled, delivery, queue, worker, accepted, notified, health, sweep,
          parks, faults>>

Statuses == {"none", "pending", "sent", "retrying", "failed", "deferred",
             "skipped", "bounced"}
Results  == {"sent", "skipped", "retry", "park", "permanent", "invalid"}

Idle == [at |-> "idle", retry |-> 0, todo |-> {}, result |-> "none"]

TypeOK ==
  /\ enabled \in Snapshots
  /\ delivery \in [Channels -> [status : Statuses, attempts : 0..(MaxAttempts + 1), id : BOOLEAN]]
  /\ queue \in [0..MaxAttempts -> Nat]
  /\ worker \in [Workers ->
       [at : {"idle", "attempt", "call", "result", "mark", "markOnly", "check", "reset"},
        retry : 0..MaxAttempts, todo : SUBSET Channels,
        result : Results \cup {"none", "retrying", "failed"}]]
  /\ accepted \subseteq Channels
  /\ notified \in BOOLEAN
  /\ health \in [EmailChannels -> [failures : 0..MaxBounceFailures, enabled : BOOLEAN]]
  /\ sweep \subseteq Channels
  /\ parks \in 0..MaxParks /\ faults \in 0..MaxFaults

\* The evaluator has written the notification, marked the WatchPoint as
\* notified and published the first message.
Init ==
  /\ enabled \in Snapshots
  /\ delivery = [c \in Channels |-> [status |-> "none", attempts |-> 0, id |-> FALSE]]
  /\ queue = [r \in 0..MaxAttempts |-> IF r = 0 THEN 1 ELSE 0]
  /\ worker = [w \in Workers |-> Idle]
  /\ accepted = {}
  /\ notified = TRUE
  /\ health = [c \in EmailChannels |-> [failures |-> MaxBounceFailures - 1, enabled |-> TRUE]]
  /\ sweep = {}
  /\ parks = 0
  /\ faults = 0

-----------------------------------------------------------------------------
(* What an endpoint may answer, and what the channel makes of it.           *)

\* Outcomes of one webhook request, and of the steps before it.  A 2xx body
\* that the platform's formatter rejects is a soft failure.
WebhookOutcomes ==
  {"2xx", "soft", "429", "429long", "410", "4xx", "5xx", "network", "ssrf"}

\* Mutant: a body the formatter rejects passes for a success.
SoftFailureIsSent(o) ==
  CASE o \in {"2xx", "soft"} -> "sent"
    [] o = "429long" -> "park"
    [] o \in {"429", "5xx", "network"} -> "retry"
    [] o \in {"410", "4xx", "ssrf"} -> "permanent"

\* WebhookChannel.Deliver with its handlers of the status codes: Terminal and
\* Retryable = FALSE reach the same handling, see Result.
WebhookDeliver(o) ==
  CASE o = "2xx" -> "sent"
    [] o = "429long" -> "park"
    [] o \in {"soft", "429", "5xx", "network"} -> "retry"
    [] o \in {"410", "4xx", "ssrf"} -> "permanent"

\* The provider's answers to one email, and a template that does not render.
EmailOutcomes == {"ok", "blocked", "unavailable", "unrendered", "test"}

\* EmailChannel.Deliver and ShouldRetry: every error but a blocked address is
\* taken for transient, a failed rendering included.
EmailDeliver(o) ==
  CASE o = "ok" -> "sent"
    [] o = "test" -> "skipped"
    [] o \in {"unavailable", "unrendered"} -> "retry"
    [] o = "blocked" -> "permanent"

-----------------------------------------------------------------------------
(* The workers.                                                             *)

\* The channels of a message that a worker processes: the others are skipped.
Handles(w) ==
  enabled \cap (IF w \in EmailWorkers THEN EmailChannels ELSE WebhookChannels)

\* The channel a worker is at: channels are processed in index order.
Current(w) == Min(worker[w].todo)

NextChannel(step) == [step EXCEPT !.at = "attempt", !.todo = @ \ {Min(@)}, !.result = "none"]

\* The worker goes on with the next channel whatever became of this one; after
\* the last channel it acknowledges the message.
Advance(w) ==
  worker' = [worker EXCEPT ![w] = IF @.todo = {Min(@.todo)} THEN Idle ELSE NextChannel(@)]

Goto(w, at, result) ==
  worker' = [worker EXCEPT ![w].at = at, ![w].result = result]

SetRow(c, row) == delivery' = [delivery EXCEPT ![c] = row]

\* attempt_count + 1; only its comparison with MaxAttempts is ever read, so the
\* model stops counting one above it.
Counted(n) == IF n > MaxAttempts THEN n ELSE n + 1

\* Mutant: a failure that is not the last one is written as the last one.
StatusLost(c, status) ==
  SetRow(c, [delivery[c] EXCEPT !.status = IF status = "retrying" THEN "failed" ELSE status])

\* UpdateDeliveryStatus counts an attempt, though RecordAttempt has counted it.
UpdateDeliveryStatus(c, status) ==
  SetRow(c, [delivery[c] EXCEPT !.status = status, !.attempts = Counted(@)])

\* processMessage up to its loop: any worker receives any message, and one that
\* has no channel of its kind is acknowledged all the same.
Take(w) ==
  /\ worker[w].at = "idle"
  /\ \E r \in 0..MaxAttempts :
       /\ queue[r] > 0
       /\ queue' = [queue EXCEPT ![r] = @ - 1]
       /\ worker' = [worker EXCEPT ![w] =
            IF Handles(w) = {} THEN Idle
            ELSE [at |-> "attempt", retry |-> r, todo |-> Handles(w), result |-> "none"]]
  /\ UNCHANGED <<enabled, delivery, accepted, notified, health, sweep, parks, faults>>

ReceiveEmail(w)   == w \in EmailWorkers /\ Take(w)
ReceiveWebhook(w) == w \in WebhookWorkers /\ Take(w)

\* EnsureDeliveryExists: INSERT ... ON CONFLICT DO NOTHING.
EnsureDeliveryExists(c) ==
  IF delivery[c].status = "none" THEN [delivery[c] EXCEPT !.status = "pending"]
  ELSE delivery[c]

\* The first half of processChannel.  The status of an existing row is not
\* looked at: a delivery that was sent, skipped or has failed is tried again.
Attempt(w) ==
  LET c == Current(w) IN
  /\ worker[w].at = "attempt"
  /\ SetRow(c, [EnsureDeliveryExists(c) EXCEPT !.attempts = Counted(@)])
  /\ Goto(w, "call", "none")
  /\ UNCHANGED <<enabled, queue, accepted, notified, health, sweep, parks, faults>>

\* The request of the email worker.
CallEmail(w) ==
  LET c == Current(w) IN
  /\ worker[w].at = "call" /\ w \in EmailWorkers
  /\ \E o \in EmailOutcomes :
       /\ accepted' = accepted \cup (IF o = "ok" THEN {c} ELSE {})
       /\ Goto(w, "result", EmailDeliver(o))
  /\ UNCHANGED <<enabled, delivery, queue, notified, health, sweep, parks, faults>>

\* The request of the webhook worker.  An endpoint that answers with an error
\* has not accepted the notification, one that is lost on the way back may have.
CallWebhook(w) ==
  LET c == Current(w) IN
  /\ worker[w].at = "call" /\ w \in WebhookWorkers
  /\ \E o \in WebhookOutcomes :
       /\ o = "429long" => parks < MaxParks
       /\ parks' = parks + (IF o = "429long" THEN 1 ELSE 0)
       /\ accepted' \in {accepted \cup (IF o = "2xx" THEN {c} ELSE {}),
                         accepted \cup (IF o \in {"2xx", "network"} THEN {c} ELSE {})}
       /\ Goto(w, "result", WebhookDeliver(o))
  /\ UNCHANGED <<enabled, delivery, queue, notified, health, sweep, faults>>

\* The request cannot be built: a payload that cannot be formatted is a
\* permanent failure, a missing address or URL ("invalid") one after which the
\* other channels are not considered.
CallImpossible(w) ==
  /\ worker[w].at = "call"
  /\ \E result \in {"permanent", "invalid"} : Goto(w, "result", result)
  /\ UNCHANGED <<enabled, delivery, queue, accepted, notified, health, sweep, parks, faults>>

MarkSuccess(c)  == SetRow(c, [delivery[c] EXCEPT !.status = "sent", !.id = TRUE])
MarkDeferred(c) == SetRow(c, [delivery[c] EXCEPT !.status = "deferred"])

\* handleDeliveryResult where it ends with a row: sent, skipped or deferred.
MarkDone(w) ==
  LET c == Current(w) IN
  /\ worker[w].at = "result"
  /\ \/ worker[w].result = "sent" /\ MarkSuccess(c)
     \/ worker[w].result = "skipped" /\ UpdateDeliveryStatus(c, "skipped")
     \/ worker[w].result = "park" /\ MarkDeferred(c)
  /\ Advance(w)
  /\ UNCHANGED <<enabled, queue, accepted, notified, health, sweep, parks, faults>>

\* NotificationPublisher.Publish increments the retry count of the message.
Publish(retry) == queue' = [queue EXCEPT ![retry + 1] = @ + 1]

\* Mutant: a retry message keeps the retry count.
RetryUncounted(w) ==
  /\ worker[w].at = "result" /\ worker[w].result = "retry"
  /\ queue' = [queue EXCEPT ![worker[w].retry] = @ + 1]
  /\ Advance(w)
  /\ UNCHANGED <<enabled, delivery, accepted, notified, health, sweep, parks, faults>>

\* handleRetry: a new message for ALL the channels, not only for this one, and
\* no change of the row; once the message has no retries left, a failure.
HandleRetry(w) ==
  /\ worker[w].at = "result" /\ worker[w].result = "retry"
  /\ \/ /\ worker[w].retry < MaxAttempts
        /\ Publish(worker[w].retry)
        /\ Advance(w)
     \/ /\ worker[w].retry >= MaxAttempts
        /\ Goto(w, "result", "permanent")
        /\ UNCHANGED queue
  /\ UNCHANGED <<enabled, delivery, accepted, notified, health, sweep, parks, faults>>

\* handlePermanentFailure and handleTerminalFailure: MarkFailure reads the
\* number of attempts; both callers discard the shouldRetry it returns.
HandleFailure(w) ==
  /\ worker[w].at = "result" /\ worker[w].result \in {"permanent", "invalid"}
  /\ Goto(w, IF worker[w].result = "permanent" THEN "mark" ELSE "markOnly",
          IF delivery[Current(w)].attempts < MaxAttempts THEN "retrying" ELSE "failed")
  /\ UNCHANGED <<enabled, delivery, queue, accepted, notified, health, sweep, parks, faults>>

\* The UPDATE of MarkFailure.
MarkFailure(w) ==
  /\ worker[w].at \in {"mark", "markOnly"}
  /\ UpdateDeliveryStatus(Current(w), worker[w].result)
  /\ IF worker[w].at = "mark" THEN Goto(w, "check", "none") ELSE Advance(w)
  /\ UNCHANGED <<enabled, queue, accepted, notified, health, sweep, parks, faults>>

\* Mutant: a row that is waiting for a retry is taken for a failed one.
RetryingIsFailed == \A c \in Channels : delivery[c].status \in {"none", "failed", "retrying"}

\* CheckAggregateFailure counts the rows that exist: a channel whose worker has
\* not begun is not among them.
AllFailed == \A c \in Channels : delivery[c].status \in {"none", "failed"}

CheckAggregate(w) ==
  /\ worker[w].at = "check"
  /\ IF AllFailed THEN Goto(w, "reset", "none") ELSE Advance(w)
  /\ UNCHANGED <<enabled, delivery, queue, accepted, notified, health, sweep, parks, faults>>

\* ResetNotificationState: the evaluator will alert again.
ResetNotificationState(w) ==
  /\ worker[w].at = "reset"
  /\ notified' = FALSE
  /\ Advance(w)
  /\ UNCHANGED <<enabled, delivery, queue, accepted, health, sweep, parks, faults>>

-----------------------------------------------------------------------------
(* The requeue job, the resume of the WatchPoint, and bounces.              *)

\* RequeueDeferredNotifications, first the conditional UPDATE ...
ResetDeliveryToPending(c) ==
  /\ sweep = {}
  /\ delivery[c].status = "deferred"
  /\ SetRow(c, [delivery[c] EXCEPT !.status = "pending"])
  /\ sweep' = {c}
  /\ UNCHANGED <<enabled, queue, worker, accepted, notified, health, parks, faults>>

\* ... then the message, with a retry count of its own.
PublishNotification ==
  /\ sweep # {}
  /\ sweep' = {}
  /\ queue' = [queue EXCEPT ![0] = @ + 1]
  /\ UNCHANGED <<enabled, delivery, worker, accepted, notified, health, parks, faults>>

\* CancelDeferredDeliveries, when the user resumes the WatchPoint.
CancelDeferred ==
  /\ \E c \in Channels : delivery[c].status = "deferred"
  /\ delivery' = [c \in Channels |->
       IF delivery[c].status = "deferred" THEN [delivery[c] EXCEPT !.status = "skipped"]
       ELSE delivery[c]]
  /\ UNCHANGED <<enabled, queue, worker, accepted, notified, health, sweep, parks, faults>>

\* What SES reports of an email it has accepted, and what ParseSNSBounceEvent
\* makes of it: a bounce that is not permanent is dropped.
Feedback == {"permanent", "transient", "complaint"}
BounceEvents(f) == IF f = "transient" THEN {} ELSE {f}

\* What a report does to the health of its channel: the model stops the count at the
\* threshold (no one reads it beyond).
Reported(channel, event) ==
  LET failures == IF event = "complaint" \/ channel.failures = MaxBounceFailures
                  THEN channel.failures ELSE channel.failures + 1
  IN  [failures |-> failures,
       enabled |-> channel.enabled /\ event # "complaint" /\ failures < MaxBounceFailures]

\* BounceProcessor.Process: it finds the row by the provider's message id; a report
\* delivered twice counts twice, and the other channels are not considered.
Bounce(c) ==
  /\ delivery[c].id
  /\ \E f \in Feedback : \E event \in BounceEvents(f) :
       health' = [health EXCEPT ![c] = Reported(@, event)]
  /\ SetRow(c, [delivery[c] EXCEPT !.status = "bounced"])
  /\ UNCHANGED <<enabled, queue, worker, accepted, notified, sweep, parks, faults>>

-----------------------------------------------------------------------------
(* Faults.                                                                  *)

Fault == faults < MaxFaults /\ faults' = faults + 1

\* The invocation dies: the message becomes visible again.
Crash(w) ==
  /\ Fault
  /\ worker[w].at # "idle"
  /\ queue' = [queue EXCEPT ![worker[w].retry] = @ + 1]
  /\ worker' = [worker EXCEPT ![w] = Idle]
  /\ UNCHANGED <<enabled, delivery, accepted, notified, health, sweep, parks>>

\* A statement or a publish fails: processMessage logs the error, goes on with
\* the next channel and acknowledges the message.
StepFails(w) ==
  /\ Fault
  /\ worker[w].at \notin {"idle", "call"}
  /\ \/ UNCHANGED delivery
     \/ worker[w].at = "attempt" /\ SetRow(Current(w), EnsureDeliveryExists(Current(w)))
  /\ Advance(w)
  /\ UNCHANGED <<enabled, queue, accepted, notified, health, sweep, parks>>

\* SQS delivers the message once more while it is being processed.
Redeliver(w) ==
  /\ Fault
  /\ worker[w].at # "idle"
  /\ queue' = [queue EXCEPT ![worker[w].retry] = @ + 1]
  /\ UNCHANGED <<enabled, delivery, worker, accepted, notified, health, sweep, parks>>

\* The publish of the requeue job fails, or the job dies before it.
RequeueFails ==
  /\ Fault
  /\ sweep # {}
  /\ sweep' = {}
  /\ UNCHANGED <<enabled, delivery, queue, worker, accepted, notified, health, parks>>

-----------------------------------------------------------------------------
WorkerStep(w) ==
  \/ ReceiveEmail(w) \/ ReceiveWebhook(w) \/ Attempt(w) \/ CallEmail(w) \/ CallWebhook(w)
  \/ CallImpossible(w) \/ MarkDone(w) \/ HandleRetry(w) \/ HandleFailure(w)
  \/ MarkFailure(w) \/ CheckAggregate(w) \/ ResetNotificationState(w)

Requeue == PublishNotification \/ \E c \in Channels : ResetDeliveryToPending(c)

Next ==
  \/ \E w \in Workers : WorkerStep(w) \/ Crash(w) \/ StepFails(w) \/ Redeliver(w)
  \/ Requeue \/ RequeueFails \/ CancelDeferred
  \/ \E c \in EmailChannels : Bounce(c)

\* Lambda keeps polling the queue and every invocation ends; the requeue job is
\* scheduled every few minutes.
Fairness == (\A w \in Workers : WF_vars(WorkerStep(w))) /\ WF_vars(Requeue)

Spec == Init /\ [][Next]_vars /\ Fairness

-----------------------------------------------------------------------------
(* Properties.                                                              *)

\* The evaluator is told to alert again only after the attempts on some channel
\* were used up and that channel was marked as failed; the check and the reset
\* are two statements, and the rows may change between them.
ResetAfterExhaustion ==
  [][notified' # notified => \E c \in Channels : delivery[c].attempts > MaxAttempts]_vars

\* Retry messages cannot multiply without end: eventually the queue is empty
\* and every worker idle, although every failing channel publishes a message
\* that makes all the channels of the notification be tried again.
Drains ==
  <>[](/\ \A w \in Workers : worker[w].at = "idle"
       /\ \A r \in 0..MaxAttempts : queue[r] = 0
       /\ sweep = {})

\* A row says "sent" only if the endpoint has accepted the notification, and
\* says "failed" only after as many attempts as the policy allows.
StatusIsEarned ==
  \A c \in Channels :
    /\ delivery[c].status \in {"sent", "bounced"} => c \in accepted
    /\ delivery[c].status = "failed" => delivery[c].attempts > MaxAttempts

\* The types, the bound on the attempts among them, and what the rows claim.
Consistent == TypeOK /\ StatusIsEarned

\* The rules that decide when a notification goes, and what a digest says, hold for
\* every time and every period: they have no state and are looked at once.
RulesHold == Init => QuietHoursEnd /\ DigestsKeepTime /\ DelaysGrow /\ ComparisonIsFair
=============================================================================
