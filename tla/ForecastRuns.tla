---------------------------- MODULE ForecastRuns ----------------------------
(***************************************************************************)
(* The rows of forecast_runs of one model: the Data Poller creates them,   *)
(* RunPod computes them, the Batcher completes and dispatches them, and    *)
(* the reconciler resubmits or fails those that hang.  All four share the  *)
(* rows without a lock, and each reads a row before it writes it.          *)
(***************************************************************************)
EXTENDS Naturals, Sequences, FiniteSets, FiniteSetsExt

CONSTANTS
  MaxTs,          \* timestamps of upstream data are 1..MaxTs
  Pollers,        \* Data Poller invocations at once
  Batchers,       \* Batcher invocations at once
  KeyPrefix,      \* segments of a marker's key before the model
  MaxRetryCount,  \* resubmissions before a run is failed
  MaxAttempts,    \* executions of an asynchronous Lambda invocation
  MaxRuns,        \* bound on the rows
  MaxJobs,        \* bound on the RunPod jobs
  MaxExtras       \* bound on failed calls, crashes, duplicated events,
                  \* backfills and manual dispatches, taken together

Ts == 1..MaxTs
RunIds == 1..MaxRuns
JobIds == 1..MaxJobs
RunStatuses == {"running", "complete", "failed"}
RunRows == [ts : Ts, status : RunStatuses, retries : Nat, ext : {0} \cup JobIds]
Jobs == [ts : Ts, force : BOOLEAN, state : {"queued", "running", "done"}]
Invocations == [ts : Ts, tries : 1..MaxAttempts, manual : BOOLEAN]
StaleRuns == [id : RunIds, retries : Nat, ext : {0} \cup JobIds]

ASSUME ForecastAssumption ==
  /\ MaxTs \in Nat /\ MaxRuns \in Nat /\ MaxJobs \in Nat
  /\ IsFiniteSet(Pollers) /\ IsFiniteSet(Batchers)
  /\ MaxRetryCount \in Nat /\ MaxAttempts \in Nat \ {0}
  /\ MaxExtras \in Nat

NoPoll == [pc |-> "idle", since |-> 0, todo |-> {}, run |-> 0]
NoBatch == [pc |-> "idle"]
NoReconciliation == [pc |-> "idle", todo |-> {}, job |-> 0]

VARIABLES
  available,    \* timestamps that the upstream bucket lists
  runs,         \* the rows, in the order of their creation
  jobs,         \* RunPod's jobs, in the order of their submission
  marker,       \* timestamps whose _SUCCESS object exists
  pending,      \* Batcher invocations that wait for an execution
  poll,         \* what each poller has read and still has to do
  batch,        \* what each Batcher is at
  rec,          \* the reconciler's stale runs; the current one is the first
  dispatched,   \* how often the messages of a timestamp were all sent
  written,      \* timestamps that were computed
  interrupted,  \* dispatches that failed after the run was marked complete
  lost,         \* timestamps a poller passed over
  overtaken,    \* timestamps that appeared after a later one
  givenUp,      \* timestamps a run of which was failed
  backfills, manuals, faults

calls  == <<backfills, manuals, faults>>
ghosts == <<written, interrupted, lost, overtaken, givenUp>>
vars == <<available, runs, jobs, marker, pending, poll, batch, rec, dispatched,
          ghosts, calls>>

Init ==
  /\ available = {}
  /\ runs = <<>>
  /\ jobs = <<>>
  /\ marker = {}
  /\ pending = {}
  /\ poll = [p \in Pollers |-> NoPoll]
  /\ batch = [b \in Batchers |-> NoBatch]
  /\ rec = NoReconciliation
  /\ dispatched = [ts \in Ts |-> 0]
  /\ written = {} /\ interrupted = {} /\ lost = {} /\ overtaken = {} /\ givenUp = {}
  /\ backfills = 0 /\ manuals = 0 /\ faults = 0

Exceptional == backfills + manuals + faults < MaxExtras

Fault ==
  /\ Exceptional
  /\ faults' = faults + 1
  /\ UNCHANGED <<backfills, manuals>>

-----------------------------------------------------------------------------
(* Upstream. *)

(* The mirrors and the pairs of GOES and MRMS scans: not always in order.  *)
Publish(ts) ==
  /\ ts \notin available
  /\ available' = available \cup {ts}
  /\ overtaken' = IF \E later \in available : later > ts
                  THEN overtaken \cup {ts} ELSE overtaken
  /\ UNCHANGED <<runs, jobs, marker, pending, poll, batch, rec, dispatched,
                 written, interrupted, lost, givenUp, calls>>

-----------------------------------------------------------------------------
(* The Data Poller. *)

RunTimestamps == {runs[i].ts : i \in DOMAIN runs}

(* A bug: only the runs that ended count. *)
LatestComplete ==
  Max({0} \cup {runs[i].ts : i \in {k \in DOMAIN runs : runs[k].status = "complete"}})

(* GetLatest, whatever the status of the run. *)
Latest == Max({0} \cup RunTimestamps)

SetPoll(p, state) == poll' = [poll EXCEPT ![p] = state]

(* A bug: the newest timestamp first. *)
NewestTs(p) == Max(poll[p].todo)

(* The timestamp that is next, and the poll without it. *)
NextTs(p) == Min(poll[p].todo)

AfterNext(p) ==
  LET rest == poll[p].todo \ {NextTs(p)}
  IN  IF rest = {} THEN NoPoll
      ELSE [NoPoll EXCEPT !.pc = "create", !.todo = rest]

BeginPoll(p, since) ==
  /\ poll[p].pc = "idle"
  /\ SetPoll(p, [NoPoll EXCEPT !.pc = "list", !.since = since])

(* getSinceTime without BackfillHours. *)
Poll(p) ==
  /\ BeginPoll(p, Latest)
  /\ UNCHANGED <<available, runs, jobs, marker, pending, batch, rec, dispatched,
                 ghosts, calls>>

(* With BackfillHours the rows are not looked at: timestamps up to since   *)
(* that have no row are passed over.                                       *)
Backfill(p, since) ==
  /\ Exceptional
  /\ backfills' = backfills + 1
  /\ BeginPoll(p, since)
  /\ lost' = lost \cup (1..since \ RunTimestamps)
  /\ UNCHANGED <<available, runs, jobs, marker, pending, batch, rec, dispatched,
                 written, interrupted, overtaken, givenUp, manuals, faults>>

(* CheckAvailability: strictly after since, in ascending order. *)
ListUpstream(p) ==
  /\ poll[p].pc = "list"
  /\ LET new == {ts \in available : ts > poll[p].since}
     IN  SetPoll(p, IF new = {} THEN NoPoll
                    ELSE [NoPoll EXCEPT !.pc = "create", !.todo = new])
  /\ UNCHANGED <<available, runs, jobs, marker, pending, batch, rec, dispatched,
                 ghosts, calls>>

(* triggerInference up to the INSERT. *)
CreateRun(p) ==
  /\ poll[p].pc = "create"
  /\ Len(runs) < MaxRuns
  /\ runs' = Append(runs, [ts |-> NextTs(p), status |-> "running",
                           retries |-> 0, ext |-> 0])
  /\ SetPoll(p, [poll[p] EXCEPT !.pc = "trigger", !.run = Len(runs) + 1])
  /\ UNCHANGED <<available, jobs, marker, pending, batch, rec, dispatched,
                 ghosts, calls>>

(* The loop goes on with the next timestamp. *)
CreateRunFails(p) ==
  /\ poll[p].pc = "create"
  /\ Fault
  /\ SetPoll(p, AfterNext(p))
  /\ lost' = lost \cup {NextTs(p)}
  /\ UNCHANGED <<available, runs, jobs, marker, pending, batch, rec, dispatched,
                 written, interrupted, overtaken, givenUp>>

Submit(ts, force) ==
  /\ Len(jobs) < MaxJobs
  /\ jobs' = Append(jobs, [ts |-> ts, force |-> force, state |-> "queued"])

(* With UpdateExternalID, whose failure is only logged. *)
TriggerInference(p) ==
  /\ poll[p].pc = "trigger"
  /\ Submit(NextTs(p), FALSE)
  /\ \/ runs' = [runs EXCEPT ![poll[p].run].ext = Len(jobs) + 1] /\ UNCHANGED calls
     \/ Fault /\ UNCHANGED runs
  /\ SetPoll(p, AfterNext(p))
  /\ UNCHANGED <<available, marker, pending, batch, rec, dispatched, ghosts>>

(* The row stays; the job may have been submitted nevertheless. *)
TriggerInferenceFails(p) ==
  /\ poll[p].pc = "trigger"
  /\ Fault
  /\ \/ Submit(NextTs(p), FALSE)
     \/ UNCHANGED jobs
  /\ SetPoll(p, AfterNext(p))
  /\ UNCHANGED <<available, runs, marker, pending, batch, rec, dispatched, ghosts>>

(* The limit of the request is reached, a call fails for good, or the      *)
(* instance dies.                                                          *)
StopPoll(p) ==
  /\ poll[p].pc # "idle"
  /\ Fault
  /\ SetPoll(p, NoPoll)
  /\ UNCHANGED <<available, runs, jobs, marker, pending, batch, rec, dispatched,
                 ghosts>>

-----------------------------------------------------------------------------
(* RunPod. *)

SetJob(j, state) == jobs' = [jobs EXCEPT ![j].state = state]

FirstTry(ts, manual) == [ts |-> ts, tries |-> 1, manual |-> manual]

(* The Clean Slate Policy: a marker that exists is the job's result unless *)
(* the job is forced, which purges it with the data.                       *)
StartJob(j) ==
  /\ jobs[j].state = "queued"
  /\ IF jobs[j].force \/ jobs[j].ts \notin marker
     THEN /\ SetJob(j, "running")
          /\ marker' = marker \ {jobs[j].ts}
     ELSE /\ SetJob(j, "done")
          /\ UNCHANGED marker
  /\ UNCHANGED <<available, runs, pending, poll, batch, rec, dispatched, ghosts,
                 calls>>

(* The arrays, then the marker, whose creation S3 notifies the Batcher of. *)
WriteForecast(j) ==
  /\ jobs[j].state = "running"
  /\ SetJob(j, "done")
  /\ marker' = marker \cup {jobs[j].ts}
  /\ written' = written \cup {jobs[j].ts}
  /\ pending' = pending \cup {FirstTry(jobs[j].ts, FALSE)}
  /\ UNCHANGED <<available, runs, poll, batch, rec, dispatched, interrupted, lost,
                 overtaken, givenUp, calls>>

JobFails(j) ==
  /\ jobs[j].state # "done"
  /\ Fault
  /\ SetJob(j, "done")
  /\ UNCHANGED <<available, runs, marker, pending, poll, batch, rec, dispatched,
                 ghosts>>

-----------------------------------------------------------------------------
(* The Batcher. *)

Key(ts) == KeyPrefix \o <<"medium_range", ts, "_SUCCESS">>

(* ParseRunContext. *)
Parses(key) == Len(key) >= 4 /\ key[1] = "forecasts"

(* The operator's RunContext; its key is empty and not parsed. *)
InvokeManually(ts) ==
  /\ Exceptional
  /\ manuals' = manuals + 1
  /\ pending' = pending \cup {FirstTry(ts, TRUE)}
  /\ UNCHANGED <<available, runs, jobs, marker, poll, batch, rec, dispatched, ghosts,
                 backfills, faults>>

(* Lambda executes a failed asynchronous invocation again, so many times.  *)
Again(inv) ==
  IF inv.tries < MaxAttempts THEN {[inv EXCEPT !.tries = @ + 1]} ELSE {}

(* A bug: a complete run is taken for one to proceed with. *)
NeverProcessed(status) == FALSE

(* A bug: a run that was given up is taken for a duplicate. *)
NotRunning(status) == status # "running"

(* A duplicate event. *)
IsProcessed(status) == status = "complete"

(* GetByTimestamp: of several rows any one.  No row: a phantom.            *)
GetByTimestamp(b, inv) ==
  LET rows == {i \in DOMAIN runs : runs[i].ts = inv.ts}
      proceed(i) == [pc |-> IF runs[i].status = "running" THEN "mark" ELSE "send",
                     inv |-> inv, run |-> i]
  IN  \/ rows = {} /\ UNCHANGED batch
      \/ \E i \in rows :
           IF IsProcessed(runs[i].status) THEN UNCHANGED batch
           ELSE batch' = [batch EXCEPT ![b] = proceed(i)]

(* Up to the status of the run.  A notification may come again; one whose  *)
(* key does not parse, or whose query fails, is executed again.            *)
Receive(b, inv) ==
  /\ inv \in pending
  /\ batch[b] = NoBatch
  /\ IF inv.manual \/ Parses(Key(inv.ts))
     THEN \/ GetByTimestamp(b, inv) /\ pending' = pending \ {inv} /\ UNCHANGED calls
          \/ GetByTimestamp(b, inv) /\ Fault /\ UNCHANGED pending
          \/ Fault /\ pending' = (pending \ {inv}) \cup Again(inv) /\ UNCHANGED batch
     ELSE /\ pending' = (pending \ {inv}) \cup Again(inv)
          /\ UNCHANGED <<batch, calls>>
  /\ UNCHANGED <<available, runs, jobs, marker, poll, rec, dispatched, ghosts>>

(* Not conditional on the status that was read. *)
MarkComplete(b) ==
  /\ batch[b].pc = "mark"
  /\ runs' = [runs EXCEPT ![batch[b].run].status = "complete"]
  /\ batch' = [batch EXCEPT ![b].pc = "send"]
  /\ UNCHANGED <<available, jobs, marker, pending, poll, rec, dispatched, ghosts,
                 calls>>

(* GetActiveTileCounts, generateMessages, SendBatch. *)
SendBatch(b) ==
  /\ batch[b].pc = "send"
  /\ dispatched' = [dispatched EXCEPT ![batch[b].inv.ts] = @ + 1]
  /\ batch' = [batch EXCEPT ![b] = NoBatch]
  /\ UNCHANGED <<available, runs, jobs, marker, pending, poll, rec, ghosts, calls>>

(* A call returns an error, part of the messages may be sent, or the       *)
(* instance dies: the invocation is executed again.                        *)
BatcherFails(b) ==
  /\ batch[b].pc # "idle"
  /\ Fault
  /\ pending' = pending \cup Again(batch[b].inv)
  /\ interrupted' = IF batch[b].pc = "send"
                    THEN interrupted \cup {batch[b].inv.ts} ELSE interrupted
  /\ batch' = [batch EXCEPT ![b] = NoBatch]
  /\ UNCHANGED <<available, runs, jobs, marker, poll, rec, dispatched, written, lost,
                 overtaken, givenUp>>

-----------------------------------------------------------------------------
(* The reconciler, as far as the job lock makes it one. *)

(* The stale runs are the oldest ones; created_at is never set again.      *)
(* Whoever created them has ended: a poll takes a minute at most.          *)
ListStaleRuns(k) ==
  /\ rec = NoReconciliation
  /\ \A p \in Pollers : poll[p].pc = "trigger" => poll[p].run > k
  /\ LET stale == {i \in 1..k : runs[i].status = "running"}
     IN  /\ stale # {}
         /\ rec' = [pc |-> "reconcile", job |-> 0,
                    todo |-> {[id |-> i, retries |-> runs[i].retries,
                               ext |-> runs[i].ext] : i \in stale}]
  /\ UNCHANGED <<available, runs, jobs, marker, pending, poll, batch, dispatched,
                 ghosts, calls>>

Stale == CHOOSE run \in rec.todo : \A other \in rec.todo : run.id <= other.id

NextStale ==
  LET rest == rec.todo \ {Stale}
  IN  IF rest = {} THEN NoReconciliation
      ELSE [pc |-> "reconcile", job |-> 0, todo |-> rest]

(* CancelJob of the job that was read.  A failed call is only logged.      *)
CancelledJobs ==
  {jobs} \cup IF Stale.ext = 0 THEN {} ELSE {[jobs EXCEPT ![Stale.ext].state = "done"]}

MarkRunFailed ==
  /\ runs' = [runs EXCEPT ![Stale.id].status = "failed"]
  /\ rec' = NextStale
  /\ givenUp' = givenUp \cup {runs[Stale.id].ts}
  /\ UNCHANGED <<written, interrupted, lost, overtaken>>

RetriesExhausted == Stale.retries >= MaxRetryCount

GiveUp ==
  /\ rec.pc = "reconcile"
  /\ RetriesExhausted
  /\ MarkRunFailed
  /\ jobs' \in CancelledJobs
  /\ UNCHANGED <<available, marker, pending, poll, batch, dispatched, calls>>

(* ForceRebuild, for the destination of the row. *)
ResubmittedJobs ==
  IF Len(jobs) = MaxJobs THEN {}
  ELSE {Append(old, [ts |-> runs[Stale.id].ts, force |-> TRUE, state |-> "queued"]) :
          old \in CancelledJobs}

Resubmit ==
  /\ rec.pc = "reconcile"
  /\ ~RetriesExhausted
  /\ jobs' \in ResubmittedJobs
  /\ rec' = [rec EXCEPT !.pc = "increment", !.job = Len(jobs) + 1]
  /\ UNCHANGED <<available, runs, marker, pending, poll, batch, dispatched, ghosts,
                 calls>>

(* Retries that are left do not help, nor a job submitted nevertheless.    *)
ResubmitFails ==
  /\ rec.pc = "reconcile"
  /\ ~RetriesExhausted
  /\ Fault
  /\ MarkRunFailed
  /\ jobs' \in CancelledJobs \cup ResubmittedJobs
  /\ UNCHANGED <<available, marker, pending, poll, batch, dispatched>>

IncrementRetryAndUpdateExternalID ==
  /\ rec.pc = "increment"
  /\ runs' = [runs EXCEPT ![Stale.id].retries = @ + 1, ![Stale.id].ext = rec.job]
  /\ rec' = NextStale
  /\ UNCHANGED <<available, jobs, marker, pending, poll, batch, dispatched, ghosts,
                 calls>>

(* One run's statement fails and the loop goes on. *)
ReconcileRunFails ==
  /\ rec.pc # "idle"
  /\ Fault
  /\ rec' = NextStale
  /\ jobs' \in IF rec.pc = "reconcile" THEN CancelledJobs ELSE {jobs}
  /\ UNCHANGED <<available, runs, marker, pending, poll, batch, dispatched,
                 ghosts>>

-----------------------------------------------------------------------------
Poller(p) ==
  \/ Poll(p)
  \/ \E since \in 0..MaxTs : Backfill(p, since)
  \/ ListUpstream(p)
  \/ CreateRun(p) \/ CreateRunFails(p)
  \/ TriggerInference(p) \/ TriggerInferenceFails(p)
  \/ StopPoll(p)

RunPod == \E j \in DOMAIN jobs : StartJob(j) \/ WriteForecast(j) \/ JobFails(j)

BatcherStep(b) ==
  \/ \E inv \in pending : Receive(b, inv)
  \/ MarkComplete(b) \/ SendBatch(b)

Reconciler ==
  \/ \E k \in DOMAIN runs : ListStaleRuns(k)
  \/ GiveUp \/ Resubmit \/ ResubmitFails
  \/ IncrementRetryAndUpdateExternalID \/ ReconcileRunFails

Next ==
  \/ \E ts \in Ts : Publish(ts) \/ InvokeManually(ts)
  \/ \E p \in Pollers : Poller(p)
  \/ RunPod
  \/ \E b \in Batchers : BatcherStep(b) \/ BatcherFails(b)
  \/ Reconciler

Spec == Init /\ [][Next]_vars

(* S3 and Lambda execute what is pending; nothing else has to happen.      *)
FairSpec == Spec /\ \A b \in Batchers : WF_vars(BatcherStep(b))

-----------------------------------------------------------------------------
(* Properties. *)

(* Every variable stays in its range, and references name rows and jobs.   *)
TypeOK ==
  /\ available \subseteq Ts
  /\ runs \in Seq(RunRows) /\ Len(runs) <= MaxRuns
  /\ jobs \in Seq(Jobs) /\ Len(jobs) <= MaxJobs
  /\ \A i \in DOMAIN runs : runs[i].ext <= Len(jobs)
  /\ marker \subseteq written /\ written \subseteq Ts
  /\ pending \subseteq Invocations
  /\ poll \in [Pollers -> [pc : {"idle", "list", "create", "trigger"},
                           since : 0..MaxTs, todo : SUBSET Ts, run : 0..Len(runs)]]
  /\ \A b \in Batchers :
       \/ batch[b] = NoBatch
       \/ batch[b] \in [pc : {"mark", "send"}, inv : Invocations, run : DOMAIN runs]
  /\ rec \in [pc : {"idle", "reconcile", "increment"},
              todo : SUBSET StaleRuns, job : 0..Len(jobs)]
  /\ dispatched \in [Ts -> Nat]
  /\ interrupted \subseteq Ts /\ lost \subseteq Ts /\ overtaken \subseteq Ts
  /\ givenUp \subseteq Ts
  /\ backfills \in 0..MaxExtras /\ manuals \in 0..MaxExtras /\ faults \in 0..MaxExtras

RunsOf(ts) == {i \in DOMAIN runs : runs[i].ts = ts}

(* Pollers that overlap may each create a run for a timestamp, and so may  *)
(* each backfill; polls that follow one another never do.                  *)
RunsPerTimestamp ==
  \A ts \in Ts : Cardinality(RunsOf(ts)) <= Cardinality(Pollers) + backfills

(* The poller only looks after its newest run.  What lies before it has a  *)
(* run, unless its creation failed, a backfill started after it, or the    *)
(* upstream itself published it late.                                      *)
NothingSkipped ==
  \A ts \in available : ts < Latest => RunsOf(ts) # {} \/ ts \in lost \cup overtaken

(* One run for each timestamp, and one for every timestamp.                *)
RunsAreCreated == RunsPerTimestamp /\ NothingSkipped

(* Nobody but the operator dispatches a timestamp before a job has written *)
(* its data, and nobody at all without a run.                              *)
DispatchedIsWritten ==
  \A ts \in Ts :
    dispatched[ts] > 0 => RunsOf(ts) # {} /\ (ts \in written \/ manuals > 0)

(* Reading the status before it is changed lets each Batcher that overlaps *)
(* dispatch a run once, and no more: beyond that only a run that somebody  *)
(* failed, which is dispatched as often as its events come, even if it is  *)
(* completed later, and several runs of one timestamp.                     *)
DispatchesBounded ==
  \A ts \in Ts :
    dispatched[ts] > Cardinality(Batchers) =>
      Cardinality(RunsOf(ts)) > 1 \/ ts \in givenUp

(* Resubmissions end: no row counts more of them than MaxRetryCount.       *)
RetriesBounded == \A i \in DOMAIN runs : runs[i].retries <= MaxRetryCount

(* What is dispatched was written, and neither dispatches nor              *)
(* resubmissions multiply.                                                 *)
WorkIsBounded == TypeOK /\ DispatchedIsWritten /\ DispatchesBounded /\ RetriesBounded

(* Every forecast that was written is dispatched, unless its Batcher was   *)
(* interrupted between marking the run complete and the end of the send:   *)
(* the repeated execution then finds the run complete and sends nothing.   *)
(* What was written or dispatched stays so: once nothing is owed, nothing  *)
(* written up to then is.                                                  *)
WrittenIsDispatched ==
  []<>(\A ts \in written : dispatched[ts] > 0 \/ ts \in interrupted)
=============================================================================
