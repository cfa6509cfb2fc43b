------------------------- MODULE ForecastRuns_proofs -------------------------
(***************************************************************************)
(* Safety of the rows of forecast_runs, for every number of pollers,       *)
(* Batchers, timestamps, jobs and faults; and, in the second half, of the  *)
(* answers of the forecast API, for every place, batch and age of the runs. *)
(***************************************************************************)
EXTENDS ForecastRuns, Forecasts, FiniteSetTheorems, SequenceTheorems, WellFoundedInduction, TLAPS

-----------------------------------------------------------------------------
(* The inductive invariant. *)

(* A poller that is to create rows has timestamps that upstream lists, and *)
(* one that is to submit a job has created the row of the next of them.    *)
PollFits(p) ==
  /\ poll[p].pc \in {"create", "trigger"} => poll[p].todo # {} /\ poll[p].todo \subseteq available
  /\ poll[p].pc = "trigger" =>
       poll[p].run \in DOMAIN runs /\ runs[poll[p].run].ts = NextTs(p)

(* The reconciler alone counts resubmissions, so what it read is still so, *)
(* and it counts one only of a run that has some left.                     *)
RecFits ==
  /\ rec.pc # "idle" => rec.todo # {}
  /\ \A s \in rec.todo :
       /\ s.id \in DOMAIN runs
       /\ s.retries = runs[s.id].retries
       /\ s.ext <= Len(jobs)
       /\ \A t \in rec.todo : s.id = t.id => s = t
  /\ rec.pc = "increment" => Stale.retries < MaxRetryCount /\ rec.job # 0

RowsAreAvailable == \A i \in DOMAIN runs : runs[i].ts \in available

BatchesAreRows == batch = [b \in Batchers |-> batch[b]]

Typed ==
  TypeOK /\ RowsAreAvailable /\ (\A p \in Pollers : PollFits(p)) /\ RecFits /\ BatchesAreRows

(* Invocations are of what was written, or of what the operator wants, and *)
(* a Batcher works on the row of its timestamp.                            *)
Called(inv) == inv.ts \in written \/ manuals > 0

BatchFits(b) ==
  batch[b].pc # "idle" =>
    Called(batch[b].inv) /\ runs[batch[b].run].ts = batch[b].inv.ts

CallsFit == (\A inv \in pending : Called(inv)) /\ (\A b \in Batchers : BatchFits(b))

(* As long as the only run of a timestamp is not given up: while it runs   *)
(* nothing was dispatched, and once it is complete no more Batchers can    *)
(* dispatch it than are at it already.                                     *)
AtMostOneRun(ts) == \A i, j \in RunsOf(ts) : i = j

Busy(ts) == {b \in Batchers : batch[b].pc # "idle" /\ batch[b].inv.ts = ts}

DispatchFits(ts) ==
  AtMostOneRun(ts) /\ ts \notin givenUp =>
    /\ dispatched[ts] + Cardinality(Busy(ts)) <= Cardinality(Batchers)
    /\ \A i \in RunsOf(ts) : runs[i].status = "running" =>
         dispatched[ts] = 0 /\ \A b \in Busy(ts) : batch[b].pc = "mark"

FailedIsGivenUp == \A i \in DOMAIN runs : runs[i].status = "failed" => runs[i].ts \in givenUp

(* The rows of a timestamp, with the pollers that may still create one:    *)
(* only a backfill looks for a timestamp that has a row.                   *)
Claims(ts) ==
  {p \in Pollers :
     \/ poll[p].pc = "list" /\ poll[p].since < ts
     \/ poll[p].pc = "create" /\ ts \in poll[p].todo
     \/ poll[p].pc = "trigger" /\ ts \in poll[p].todo \ {NextTs(p)}}

ClaimsFit(ts) ==
  Cardinality(RunsOf(ts)) + Cardinality(Claims(ts)) <= Cardinality(Pollers) + backfills

(* What lies before a row, or before what a poller is about to create or   *)
(* to list, is covered, or will be when upstream publishes it late.        *)
Covered(ts) == RunsOf(ts) # {} \/ ts \in lost \cup overtaken

Passed(ts) ==
  Covered(ts) \/ (ts \notin available /\ \E later \in available : later > ts)

LooksFrom(p) ==
  /\ poll[p].pc = "list" => \A ts \in 1..poll[p].since : Passed(ts)
  /\ poll[p].pc \in {"create", "trigger"} =>
       \A t \in poll[p].todo : \A ts \in available :
         ts < t => ts \in poll[p].todo \/ Covered(ts)

Behind == \A i \in DOMAIN runs : \A ts \in available : ts < runs[i].ts => Covered(ts)

Work == CallsFit /\ DispatchedIsWritten /\ FailedIsGivenUp /\ (\A ts \in Ts : DispatchFits(ts))
Creation == (\A ts \in Ts : ClaimsFit(ts)) /\ (\A p \in Pollers : LooksFrom(p)) /\ Behind

IInv == Typed /\ RetriesBounded /\ Work /\ Creation

-----------------------------------------------------------------------------
(* Least and greatest elements. *)

(* A set of naturals has a least element, since < is well founded.         *)
LEMMA SmallestExists ==
  ASSUME NEW S, S \subseteq Nat, S # {}
  PROVE  \E x \in S : \A y \in S : x <= y
<1>1. PICK x \in S : \A y \in S : ~ (<<y, x>> \in OpToRel(<, Nat))
  BY WFMin, NatLessThanWellFounded
<1>2. \A y \in S : x <= y
  <2> SUFFICES ASSUME NEW y \in S
               PROVE  x <= y
    OBVIOUS
  <2>1. ~ (y < x)
    BY <1>1 DEF OpToRel
  <2> QED
    BY <2>1
<1> QED
  BY <1>2

(* Min and Max of the community modules choose what their names say.       *)
LEMMA MinIsLeast ==
  ASSUME NEW S, S \subseteq Nat, S # {}
  PROVE  Min(S) \in S /\ \A y \in S : Min(S) <= y
  BY SmallestExists DEF Min

LEMMA MaxIsGreatest ==
  ASSUME NEW n \in Nat, NEW S, S \subseteq 0..n, S # {}
  PROVE  Max(S) \in S /\ \A y \in S : y <= Max(S)
<1> DEFINE T == {n - x : x \in S}
<1>0. \A x \in S : x \in 0..n /\ n - x \in Nat
  OBVIOUS
<1>1. T \subseteq Nat /\ T # {}
  BY <1>0
<1>1a. PICK m \in T : \A y \in T : m <= y
  BY <1>1, SmallestExists
<1>2. PICK x \in S : m = n - x
  OBVIOUS
<1>3. \A y \in S : x >= y
  <2> SUFFICES ASSUME NEW y \in S
               PROVE  x >= y
    OBVIOUS
  <2>1. n - y \in T
    OBVIOUS
  <2>2. n - x <= n - y
    BY <1>1a, <1>2, <2>1
  <2> QED
    BY <2>2
<1>4. Max(S) \in S /\ \A y \in S : Max(S) >= y
  BY <1>3 DEF Max
<1> QED
  BY <1>4

(* The timestamp a poller is at, and the stale run the reconciler is at.   *)
LEMMA NextTsIsLeast ==
  ASSUME Typed, NEW p \in Pollers, poll[p].pc \in {"create", "trigger"}
  PROVE  /\ NextTs(p) \in poll[p].todo /\ NextTs(p) \in Ts /\ NextTs(p) \in available
         /\ \A ts \in poll[p].todo : NextTs(p) <= ts
<1>1. poll[p].todo \subseteq Ts /\ poll[p].todo # {} /\ poll[p].todo \subseteq available
  BY DEF Typed, TypeOK, PollFits
<1>2. poll[p].todo \subseteq Nat
  BY <1>1, ForecastAssumption DEF Ts
<1> QED
  BY <1>1, <1>2, MinIsLeast DEF NextTs

(* The reconciler is at one of the runs it listed.                         *)
LEMMA StaleIsStale ==
  ASSUME Typed, rec.pc # "idle"
  PROVE  Stale \in rec.todo /\ Stale \in StaleRuns
<1>1. rec.todo \subseteq StaleRuns /\ rec.todo # {}
  BY DEF Typed, TypeOK, RecFits
<1> DEFINE ids == {s.id : s \in rec.todo}
<1>2. ids \subseteq Nat /\ ids # {}
  BY <1>1, ForecastAssumption DEF StaleRuns, RunIds
<1>3. PICK x \in ids : \A y \in ids : x <= y
  BY <1>2, SmallestExists
<1>4. PICK s \in rec.todo : s.id = x
  OBVIOUS
<1>5. \A other \in rec.todo : s.id <= other.id
  BY <1>3, <1>4
<1> QED
  BY <1>1, <1>5 DEF Stale

-----------------------------------------------------------------------------
(* What each variable is changed by. *)

(* The actions that write the rows, and those that write each other part.  *)
LEMMA WhoChangesRuns ==
  ASSUME [Next]_vars
  PROVE  \/ runs' = runs
         \/ \E p \in Pollers : CreateRun(p) \/ TriggerInference(p)
         \/ \E b \in Batchers : MarkComplete(b)
         \/ GiveUp \/ ResubmitFails \/ IncrementRetryAndUpdateExternalID
  BY DEF Next, vars, ghosts, calls, Publish, InvokeManually, Poller, Poll, Backfill, ListUpstream,
     CreateRunFails, TriggerInferenceFails, StopPoll, RunPod, StartJob, WriteForecast, JobFails,
     BatcherStep, Receive, SendBatch, BatcherFails, Reconciler, ListStaleRuns, Resubmit,
     ReconcileRunFails

LEMMA WhoChangesJobs ==
  ASSUME [Next]_vars
  PROVE  \/ jobs' = jobs
         \/ \E p \in Pollers : TriggerInference(p) \/ TriggerInferenceFails(p)
         \/ \E j \in DOMAIN jobs : StartJob(j) \/ WriteForecast(j) \/ JobFails(j)
         \/ GiveUp \/ Resubmit \/ ResubmitFails \/ ReconcileRunFails
  BY DEF Next, vars, ghosts, calls, Publish, InvokeManually, Poller, Poll, Backfill, ListUpstream,
     CreateRun, CreateRunFails, StopPoll, RunPod, BatcherStep, Receive, MarkComplete, SendBatch,
     BatcherFails, Reconciler, ListStaleRuns, IncrementRetryAndUpdateExternalID

LEMMA WhoChangesPoll ==
  ASSUME [Next]_vars
  PROVE  \/ poll' = poll
         \/ \E p \in Pollers : Poller(p)
  BY DEF Next, vars, ghosts, calls, Publish, InvokeManually, RunPod, StartJob, WriteForecast, JobFails,
     BatcherStep, Receive, MarkComplete, SendBatch, BatcherFails, Reconciler, ListStaleRuns, GiveUp,
     Resubmit, ResubmitFails, IncrementRetryAndUpdateExternalID, ReconcileRunFails

LEMMA WhoChangesBatch ==
  ASSUME [Next]_vars
  PROVE  \/ batch' = batch /\ dispatched' = dispatched
         \/ \E b \in Batchers : BatcherStep(b) \/ BatcherFails(b)
  BY DEF Next, vars, ghosts, calls, Publish, InvokeManually, Poller, Poll, Backfill, ListUpstream,
     CreateRun, CreateRunFails, TriggerInference, TriggerInferenceFails, StopPoll, RunPod, StartJob,
     WriteForecast, JobFails, Reconciler, ListStaleRuns, GiveUp, Resubmit, ResubmitFails,
     IncrementRetryAndUpdateExternalID, ReconcileRunFails

LEMMA WhoChangesPending ==
  ASSUME [Next]_vars
  PROVE  \/ pending' = pending
         \/ \E ts \in Ts : InvokeManually(ts)
         \/ \E j \in DOMAIN jobs : WriteForecast(j)
         \/ \E b \in Batchers : (\E inv \in pending : Receive(b, inv)) \/ BatcherFails(b)
  BY DEF Next, vars, ghosts, calls, Publish, Poller, Poll, Backfill, ListUpstream,
     CreateRun, CreateRunFails, TriggerInference, TriggerInferenceFails, StopPoll, RunPod, StartJob,
     JobFails, BatcherStep, MarkComplete, SendBatch, Reconciler, ListStaleRuns, GiveUp, Resubmit,
     ResubmitFails, IncrementRetryAndUpdateExternalID, ReconcileRunFails

LEMMA WhoChangesRec ==
  ASSUME [Next]_vars
  PROVE  \/ rec' = rec
         \/ Reconciler
  BY DEF Next, vars, ghosts, calls, Publish, InvokeManually, Poller, Poll, Backfill, ListUpstream,
     CreateRun, CreateRunFails, TriggerInference, TriggerInferenceFails, StopPoll, RunPod, StartJob,
     WriteForecast, JobFails, BatcherStep, Receive, MarkComplete, SendBatch, BatcherFails

(* What was published, written, lost or given up stays so.                 *)
LEMMA OnlyGrow ==
  ASSUME Typed, [Next]_vars
  PROVE  /\ available \subseteq available' /\ written \subseteq written'
         /\ lost \subseteq lost' /\ overtaken \subseteq overtaken' /\ givenUp \subseteq givenUp'
         /\ manuals <= manuals' /\ backfills <= backfills'
<1>1. manuals \in Nat /\ backfills \in Nat
  BY ForecastAssumption DEF Typed, TypeOK
<1>2. /\ available \subseteq available' /\ written \subseteq written'
      /\ lost \subseteq lost' /\ overtaken \subseteq overtaken' /\ givenUp \subseteq givenUp'
  BY DEF Next, vars, ghosts, calls, Publish, InvokeManually, Poller, Poll, Backfill, ListUpstream,
     CreateRun, CreateRunFails, TriggerInference, TriggerInferenceFails, StopPoll, RunPod, StartJob,
     WriteForecast, JobFails, BatcherStep, Receive, MarkComplete, SendBatch, BatcherFails,
     Reconciler, ListStaleRuns, GiveUp, MarkRunFailed, Resubmit, ResubmitFails,
     IncrementRetryAndUpdateExternalID, ReconcileRunFails
<1>3. /\ manuals' = manuals \/ manuals' = manuals + 1
      /\ backfills' = backfills \/ backfills' = backfills + 1
  BY DEF Next, vars, ghosts, calls, Fault, Publish, InvokeManually, Poller, Poll, Backfill,
     ListUpstream, CreateRun, CreateRunFails, TriggerInference, TriggerInferenceFails, StopPoll,
     RunPod, StartJob, WriteForecast, JobFails, BatcherStep, Receive, MarkComplete, SendBatch,
     BatcherFails, Reconciler, ListStaleRuns, GiveUp, Resubmit, ResubmitFails,
     IncrementRetryAndUpdateExternalID, ReconcileRunFails
<1> QED
  BY <1>1, <1>2, <1>3

-----------------------------------------------------------------------------
(* Types. *)

SetsTyped ==
  /\ available \subseteq Ts /\ marker \subseteq written /\ written \subseteq Ts
  /\ interrupted \subseteq Ts /\ lost \subseteq Ts /\ overtaken \subseteq Ts /\ givenUp \subseteq Ts
CountsTyped == backfills \in 0..MaxExtras /\ manuals \in 0..MaxExtras /\ faults \in 0..MaxExtras
JobsTyped   == jobs \in Seq(Jobs) /\ Len(jobs) <= MaxJobs
RowsTyped   ==
  /\ runs \in Seq(RunRows) /\ Len(runs) <= MaxRuns
  /\ \A i \in DOMAIN runs : runs[i].ext <= Len(jobs)
PollRows    == [pc : {"idle", "list", "create", "trigger"}, since : 0..MaxTs, todo : SUBSET Ts,
                run : 0..Len(runs)]
BatchTyped(b) ==
  \/ batch[b] = NoBatch
  \/ batch[b] \in [pc : {"mark", "send"}, inv : Invocations, run : DOMAIN runs]
RecRows     == [pc : {"idle", "reconcile", "increment"}, todo : SUBSET StaleRuns, job : 0..Len(jobs)]

(* TypeOK, one variable at a time.                                         *)
LEMMA TypesOfParts ==
  TypeOK <=> /\ SetsTyped /\ CountsTyped /\ JobsTyped /\ RowsTyped
             /\ pending \subseteq Invocations /\ poll \in [Pollers -> PollRows]
             /\ (\A b \in Batchers : BatchTyped(b)) /\ rec \in RecRows
             /\ dispatched \in [Ts -> Nat]
  BY DEF TypeOK, SetsTyped, CountsTyped, JobsTyped, RowsTyped, PollRows, BatchTyped, RecRows

(* A row or a job that is changed, and one that is added.                  *)
LEMMA Replaced ==
  ASSUME NEW S, NEW s \in Seq(S), NEW i \in DOMAIN s, NEW x \in S
  PROVE  /\ [s EXCEPT ![i] = x] \in Seq(S) /\ Len([s EXCEPT ![i] = x]) = Len(s)
         /\ DOMAIN [s EXCEPT ![i] = x] = DOMAIN s
         /\ \A j \in DOMAIN s : [s EXCEPT ![i] = x][j] = IF i = j THEN x ELSE s[j]
  OBVIOUS

LEMMA Appended ==
  ASSUME NEW S, NEW s \in Seq(S), NEW x \in S
  PROVE  /\ Append(s, x) \in Seq(S) /\ Len(Append(s, x)) = Len(s) + 1
         /\ DOMAIN Append(s, x) = DOMAIN s \cup {Len(s) + 1}
         /\ Append(s, x)[Len(s) + 1] = x
         /\ \A j \in DOMAIN s : Append(s, x)[j] = s[j]
  OBVIOUS

(* Rows and jobs have their types.                                         *)
LEMMA Elements ==
  ASSUME Typed
  PROVE  /\ \A i \in DOMAIN runs : runs[i] \in RunRows
         /\ \A j \in DOMAIN jobs : jobs[j] \in Jobs
<1>1. runs \in Seq(RunRows) /\ jobs \in Seq(Jobs)
  BY DEF Typed, TypeOK
<1> QED
  BY <1>1

(* The jobs after CancelJob, and after a forced resubmission.              *)
LEMMA CancelledTyped ==
  ASSUME Typed, rec.pc # "idle", NEW new \in CancelledJobs
  PROVE  new \in Seq(Jobs) /\ Len(new) = Len(jobs)
<1>1. jobs \in Seq(Jobs)
  BY DEF Typed, TypeOK
<1>2. Stale.ext \in 0..Len(jobs)
  BY StaleIsStale, <1>1 DEF Typed, RecFits, StaleRuns, JobIds
<1>3. CASE Stale.ext = 0
  BY <1>1, <1>3 DEF CancelledJobs
<1>4. CASE Stale.ext # 0
  <2>1. Stale.ext \in DOMAIN jobs
    BY <1>1, <1>2, <1>4
  <2>2. [jobs[Stale.ext] EXCEPT !.state = "done"] \in Jobs
    BY <2>1, Elements DEF Jobs
  <2>3. new = jobs \/ new = [jobs EXCEPT ![Stale.ext] = [jobs[Stale.ext] EXCEPT !.state = "done"]]
    BY <1>4 DEF CancelledJobs
  <2> QED
    BY <1>1, <2>1, <2>2, <2>3, Replaced
<1> QED
  BY <1>3, <1>4

LEMMA ResubmittedTyped ==
  ASSUME Typed, rec.pc # "idle", NEW new \in ResubmittedJobs
  PROVE  new \in Seq(Jobs) /\ Len(new) = Len(jobs) + 1 /\ Len(jobs) < MaxJobs
<1>1. Len(jobs) # MaxJobs
  BY DEF ResubmittedJobs
<1>2. Len(jobs) < MaxJobs /\ jobs \in Seq(Jobs) /\ MaxJobs \in Nat
  BY <1>1, ForecastAssumption DEF Typed, TypeOK
<1>3. PICK old \in CancelledJobs :
        new = Append(old, [ts |-> runs[Stale.id].ts, force |-> TRUE, state |-> "queued"])
  BY <1>1 DEF ResubmittedJobs
<1>4. runs[Stale.id].ts \in Ts
  BY StaleIsStale, Elements DEF Typed, RecFits, RunRows
<1>5. [ts |-> runs[Stale.id].ts, force |-> TRUE, state |-> "queued"] \in Jobs
  BY <1>4 DEF Jobs
<1>6. old \in Seq(Jobs) /\ Len(old) = Len(jobs)
  BY CancelledTyped
<1> QED
  BY <1>2, <1>3, <1>5, <1>6, Appended

(* Jobs are never removed.                                                 *)
LEMMA JobsStep ==
  ASSUME Typed, [Next]_vars
  PROVE  JobsTyped' /\ Len(jobs) <= Len(jobs')
<1>1. jobs \in Seq(Jobs) /\ Len(jobs) <= MaxJobs /\ MaxJobs \in Nat
  BY ForecastAssumption DEF Typed, TypeOK
<1>2. CASE jobs' = jobs
  BY <1>1, <1>2 DEF JobsTyped
<1>3. ASSUME NEW p \in Pollers, poll[p].pc = "trigger", Submit(NextTs(p), FALSE)
      PROVE  JobsTyped' /\ Len(jobs) <= Len(jobs')
  <2>1. [ts |-> NextTs(p), force |-> FALSE, state |-> "queued"] \in Jobs
    BY <1>3, NextTsIsLeast DEF Jobs
  <2> QED
    BY <1>1, <1>3, <2>1, Appended DEF Submit, JobsTyped
<1>4. ASSUME NEW p \in Pollers, TriggerInference(p) \/ TriggerInferenceFails(p)
      PROVE  JobsTyped' /\ Len(jobs) <= Len(jobs')
  BY <1>2, <1>3, <1>4 DEF TriggerInference, TriggerInferenceFails
<1>5. ASSUME NEW j \in DOMAIN jobs, StartJob(j) \/ WriteForecast(j) \/ JobFails(j)
      PROVE  JobsTyped' /\ Len(jobs) <= Len(jobs')
  <2>1. PICK st \in {"running", "done"} : jobs' = [jobs EXCEPT ![j] = [jobs[j] EXCEPT !.state = st]]
    BY <1>5 DEF StartJob, WriteForecast, JobFails, SetJob
  <2>2. [jobs[j] EXCEPT !.state = st] \in Jobs
    BY Elements DEF Jobs
  <2> QED
    BY <1>1, <2>1, <2>2, Replaced DEF JobsTyped
<1>6. ASSUME GiveUp \/ Resubmit \/ ResubmitFails \/ ReconcileRunFails
      PROVE  JobsTyped' /\ Len(jobs) <= Len(jobs')
  <2>1. rec.pc # "idle" /\ jobs' \in CancelledJobs \cup ResubmittedJobs \cup {jobs}
    BY <1>6 DEF GiveUp, Resubmit, ResubmitFails, ReconcileRunFails
  <2> QED
    BY <1>1, <2>1, CancelledTyped, ResubmittedTyped DEF JobsTyped
<1> QED
  BY <1>2, <1>4, <1>5, <1>6, WhoChangesJobs

(* What a step does to the rows: the row of a run stays that of its        *)
(* timestamp, and only the reconciler fails a run or counts resubmissions. *)
RowsKept ==
  /\ Len(runs) <= Len(runs')
  /\ DOMAIN runs \subseteq DOMAIN runs'
  /\ \A i \in DOMAIN runs : runs'[i].ts = runs[i].ts

Set(i, row) == i \in DOMAIN runs /\ row \in RunRows /\ runs' = [runs EXCEPT ![i] = row]

(* A row that is written stays at its place.                               *)
LEMMA SetRow ==
  ASSUME Typed, NEW i, NEW row, Set(i, row), row.ts = runs[i].ts,
         row.ext <= Len(jobs'), Len(jobs) <= Len(jobs')
  PROVE  RowsTyped' /\ RowsKept /\ DOMAIN runs' = DOMAIN runs
         /\ \A j \in DOMAIN runs : runs'[j] = IF i = j THEN row ELSE runs[j]
<1>1. runs \in Seq(RunRows) /\ jobs \in Seq(Jobs) /\ i \in DOMAIN runs /\ row \in RunRows
  BY DEF Typed, TypeOK, Set
<1>2. /\ runs' \in Seq(RunRows) /\ Len(runs') = Len(runs) /\ DOMAIN runs' = DOMAIN runs
      /\ \A j \in DOMAIN runs : runs'[j] = IF i = j THEN row ELSE runs[j]
  BY <1>1, Replaced DEF Set
<1>3. \A j \in DOMAIN runs : runs[j].ext \in Nat /\ runs[j].ext <= Len(jobs)
  <2>1. \A j \in DOMAIN runs : runs[j].ext \in {0} \cup JobIds
    BY Elements DEF RunRows
  <2>2. \A j \in DOMAIN runs : runs[j].ext <= Len(jobs)
    BY DEF Typed, TypeOK
  <2> QED
    BY <2>1, <2>2 DEF JobIds
<1>4. row.ext \in Nat
  BY <1>1 DEF RunRows, JobIds
<1>5. \A j \in DOMAIN runs' : runs'[j].ext <= Len(jobs')
  <2> SUFFICES ASSUME NEW j \in DOMAIN runs
               PROVE  runs'[j].ext <= Len(jobs')
    BY <1>2
  <2>1. CASE i = j
    BY <2>1, <1>2
  <2>2. CASE i # j
    <3>1. runs'[j].ext = runs[j].ext /\ Len(jobs) \in Int /\ Len(jobs') \in Int
      BY <2>2, <1>1, <1>2
    <3> QED
      BY <3>1, <1>3
  <2> QED
    BY <2>1, <2>2
<1>6. RowsTyped'
  BY <1>1, <1>2, <1>5 DEF RowsTyped, Typed, TypeOK
<1>7. RowsKept
  <2>1. \A j \in DOMAIN runs : runs'[j].ts = runs[j].ts
    BY <1>2
  <2>2. Len(runs) \in Nat
    BY <1>1
  <2> QED
    BY <1>2, <2>1, <2>2 DEF RowsKept
<1> QED
  BY <1>2, <1>6, <1>7

(* The row each action writes. *)
Submitted(i) == [runs[i] EXCEPT !.ext = Len(jobs) + 1]
Completed(i) == [runs[i] EXCEPT !.status = "complete"]
FailedRow(i) == [runs[i] EXCEPT !.status = "failed"]
Resubmitted(i, job) == [runs[i] EXCEPT !.retries = @ + 1, !.ext = job]

(* Each action that changes the rows, in these terms.                      *)
NewRow(ts) == [ts |-> ts, status |-> "running", retries |-> 0, ext |-> 0]

LEMMA HowRowsChange ==
  ASSUME Typed, [Next]_vars
  PROVE  \/ runs' = runs
         \/ \E p \in Pollers :
              /\ CreateRun(p) /\ NewRow(NextTs(p)) \in RunRows
              /\ runs' = Append(runs, NewRow(NextTs(p))) /\ Len(runs') <= MaxRuns
         \/ \E p \in Pollers :
              TriggerInference(p) /\ Set(poll[p].run, Submitted(poll[p].run)) /\ Len(jobs') = Len(jobs) + 1
         \/ \E b \in Batchers : MarkComplete(b) /\ Set(batch[b].run, Completed(batch[b].run))
         \/ (GiveUp \/ ResubmitFails) /\ Set(Stale.id, FailedRow(Stale.id))
         \/ /\ IncrementRetryAndUpdateExternalID
            /\ Set(Stale.id, Resubmitted(Stale.id, rec.job))
<1>1. CASE runs' = runs
  BY <1>1
<1>2. ASSUME NEW p \in Pollers, CreateRun(p)
      PROVE  /\ NewRow(NextTs(p)) \in RunRows
             /\ runs' = Append(runs, NewRow(NextTs(p))) /\ Len(runs') <= MaxRuns
  <2>1. poll[p].pc = "create" /\ Len(runs) < MaxRuns /\ runs' = Append(runs, NewRow(NextTs(p)))
    BY <1>2 DEF CreateRun, NewRow
  <2>2. NextTs(p) \in Ts
    BY <2>1, NextTsIsLeast
  <2>3. NewRow(NextTs(p)) \in RunRows
    BY <2>2 DEF NewRow, RunRows, RunStatuses
  <2>4. Len(runs') = Len(runs) + 1
    BY <2>1, <2>3, Appended DEF Typed, TypeOK
  <2> QED
    BY <2>1, <2>3, <2>4, ForecastAssumption DEF Typed, TypeOK
<1>3. ASSUME NEW p \in Pollers, TriggerInference(p), runs' # runs
      PROVE  Set(poll[p].run, Submitted(poll[p].run)) /\ Len(jobs') = Len(jobs) + 1
  <2>1. /\ poll[p].pc = "trigger" /\ Len(jobs) < MaxJobs
        /\ jobs' = Append(jobs, [ts |-> NextTs(p), force |-> FALSE, state |-> "queued"])
        /\ runs' = [runs EXCEPT ![poll[p].run] = Submitted(poll[p].run)]
    BY <1>3 DEF TriggerInference, Submit, Submitted
  <2>2. poll[p].run \in DOMAIN runs /\ jobs \in Seq(Jobs)
    BY <2>1 DEF Typed, TypeOK, PollFits
  <2>3. Len(jobs) + 1 \in JobIds
    BY <2>1, <2>2, ForecastAssumption DEF JobIds
  <2>4. Submitted(poll[p].run) \in RunRows
    BY <2>2, <2>3, Elements DEF RunRows, Submitted
  <2>5. [ts |-> NextTs(p), force |-> FALSE, state |-> "queued"] \in Jobs
    BY <2>1, NextTsIsLeast DEF Jobs
  <2> QED
    BY <2>1, <2>2, <2>4, <2>5, Appended DEF Set
<1>4. ASSUME NEW b \in Batchers, MarkComplete(b)
      PROVE  Set(batch[b].run, Completed(batch[b].run))
  <2>1. batch[b].pc = "mark" /\ runs' = [runs EXCEPT ![batch[b].run] = Completed(batch[b].run)]
    BY <1>4 DEF MarkComplete, Completed
  <2>2. batch[b].run \in DOMAIN runs
    BY <2>1 DEF Typed, TypeOK, NoBatch
  <2>3. Completed(batch[b].run) \in RunRows
    BY <2>2, Elements DEF RunRows, RunStatuses, Completed
  <2> QED
    BY <2>1, <2>2, <2>3 DEF Set
<1>5. ASSUME GiveUp \/ ResubmitFails
      PROVE  Set(Stale.id, FailedRow(Stale.id))
  <2>1. rec.pc = "reconcile" /\ runs' = [runs EXCEPT ![Stale.id] = FailedRow(Stale.id)]
    BY <1>5 DEF GiveUp, ResubmitFails, MarkRunFailed, FailedRow
  <2>2. Stale.id \in DOMAIN runs
    BY <2>1, StaleIsStale DEF Typed, RecFits
  <2>3. FailedRow(Stale.id) \in RunRows
    BY <2>2, Elements DEF RunRows, RunStatuses, FailedRow
  <2> QED
    BY <2>1, <2>2, <2>3 DEF Set
<1>6. ASSUME IncrementRetryAndUpdateExternalID
      PROVE  Set(Stale.id, Resubmitted(Stale.id, rec.job))
  <2>1. /\ rec.pc = "increment"
        /\ runs' = [runs EXCEPT ![Stale.id] = Resubmitted(Stale.id, rec.job)]
    BY <1>6 DEF IncrementRetryAndUpdateExternalID, Resubmitted
  <2>2. Stale.id \in DOMAIN runs
    BY <2>1, StaleIsStale DEF Typed, RecFits
  <2>3. rec.job \in JobIds
    <3>1. rec.job \in 0..Len(jobs) /\ rec.job # 0 /\ Len(jobs) <= MaxJobs /\ jobs \in Seq(Jobs)
      BY <2>1 DEF Typed, TypeOK, RecFits
    <3> QED
      BY <3>1, ForecastAssumption DEF JobIds
  <2>4. runs[Stale.id].retries + 1 \in Nat
    BY <2>2, Elements DEF RunRows
  <2>5. Resubmitted(Stale.id, rec.job) \in RunRows
    BY <2>2, <2>3, <2>4, Elements DEF RunRows, Resubmitted
  <2> QED
    BY <2>1, <2>2, <2>5 DEF Set
<1> QED
  BY <1>1, <1>2, <1>3, <1>4, <1>5, <1>6, WhoChangesRuns

(* Rows are never removed, and keep their timestamps.                      *)
LEMMA RowsStep ==
  ASSUME Typed, [Next]_vars
  PROVE  RowsTyped' /\ RowsKept
<1>1. JobsTyped' /\ Len(jobs) <= Len(jobs') /\ Len(jobs) \in Nat /\ Len(jobs') \in Nat
  BY JobsStep DEF JobsTyped, Typed, TypeOK
<1>2. \A i \in DOMAIN runs : runs[i].ext \in Nat /\ runs[i].ext <= Len(jobs)
  <2>1. \A j \in DOMAIN runs : runs[j].ext \in {0} \cup JobIds
    BY Elements DEF RunRows
  <2>2. \A j \in DOMAIN runs : runs[j].ext <= Len(jobs)
    BY DEF Typed, TypeOK
  <2> QED
    BY <2>1, <2>2 DEF JobIds
<1>3. CASE runs' = runs
  BY <1>1, <1>2, <1>3 DEF RowsTyped, RowsKept, Typed, TypeOK
<1>4. ASSUME NEW ts, NewRow(ts) \in RunRows, runs' = Append(runs, NewRow(ts)), Len(runs') <= MaxRuns
      PROVE  RowsTyped' /\ RowsKept
  <2>1. runs \in Seq(RunRows)
    BY DEF Typed, TypeOK
  <2>2. /\ runs' \in Seq(RunRows) /\ Len(runs') = Len(runs) + 1
        /\ DOMAIN runs' = DOMAIN runs \cup {Len(runs) + 1}
        /\ runs'[Len(runs) + 1] = NewRow(ts) /\ \A j \in DOMAIN runs : runs'[j] = runs[j]
    BY <1>4, <2>1, Appended
  <2>3. \A i \in DOMAIN runs' : runs'[i].ext <= Len(jobs')
    BY <1>1, <1>2, <2>2 DEF NewRow
  <2> QED
    BY <1>4, <2>1, <2>2, <2>3 DEF RowsTyped, RowsKept
<1>5. ASSUME NEW i, Set(i, Submitted(i)), Len(jobs') = Len(jobs) + 1
      PROVE  RowsTyped' /\ RowsKept
  <2>1. /\ Submitted(i).ts = runs[i].ts
        /\ Submitted(i).ext = Len(jobs) + 1
    BY <1>5, Elements DEF Submitted, Set, RunRows
  <2> QED
    BY <1>1, <1>5, <2>1, SetRow
<1>6. ASSUME NEW i, Set(i, Completed(i)) \/ Set(i, FailedRow(i))
      PROVE  RowsTyped' /\ RowsKept
  <2>1. PICK row : Set(i, row) /\ row.ts = runs[i].ts /\ row.ext = runs[i].ext
    BY <1>6, Elements DEF Completed, FailedRow, Set, RunRows
  <2>2. row.ext <= Len(jobs')
    BY <1>1, <1>2, <2>1 DEF Set
  <2> QED
    BY <1>1, <2>1, <2>2, SetRow
<1>7. ASSUME NEW i, Set(i, Resubmitted(i, rec.job))
      PROVE  RowsTyped' /\ RowsKept
  <2>1. rec.job \in 0..Len(jobs)
    BY DEF Typed, TypeOK
  <2>2. /\ Resubmitted(i, rec.job).ts = runs[i].ts
        /\ Resubmitted(i, rec.job).ext = rec.job
    BY <1>7, Elements DEF Resubmitted, Set, RunRows
  <2> QED
    BY <1>1, <1>7, <2>1, <2>2, SetRow
<1> QED
  BY <1>3, <1>4, <1>5, <1>6, <1>7, HowRowsChange

(* The pollers. *)

(* A row that a poller may name before a step it may name after it.        *)
LEMMA PollRowsGrow ==
  ASSUME Typed, [Next]_vars
  PROVE  \A row \in PollRows : row \in PollRows'
<1>1. 0..Len(runs) \subseteq 0..Len(runs')
  BY RowsStep DEF RowsKept, RowsTyped, Typed, TypeOK
<1> QED
  BY <1>1 DEF PollRows

(* A poller goes on with the rest of its timestamps.                       *)
LEMMA AfterNextTyped ==
  ASSUME Typed, [Next]_vars, NEW p \in Pollers, poll[p].pc \in {"create", "trigger"}
  PROVE  /\ AfterNext(p) \in PollRows' /\ AfterNext(p).pc \in {"idle", "create"}
         /\ AfterNext(p).todo = poll[p].todo \ {NextTs(p)}
         /\ AfterNext(p).pc = "create" => AfterNext(p).todo # {}
<1>1. NoPoll \in PollRows' /\ NoPoll.todo = {} /\ NoPoll.pc = "idle"
  BY RowsStep, ForecastAssumption DEF NoPoll, PollRows, RowsTyped
<1>2. poll[p].todo \subseteq Ts
  BY DEF Typed, TypeOK
<1> QED
  BY <1>1, <1>2 DEF AfterNext, PollRows

(* A step changes one poller, to something of its type.                    *)
LEMMA HowPollChanges ==
  ASSUME Typed, [Next]_vars
  PROVE  \/ poll' = poll
         \/ \E p \in Pollers : Poller(p) /\ \E row \in PollRows' : poll' = [poll EXCEPT ![p] = row]
<1>1. NoPoll \in PollRows'
  BY RowsStep, ForecastAssumption DEF NoPoll, PollRows, RowsTyped
<1>2. runs \in Seq(RunRows) /\ runs' \in Seq(RunRows)
  BY RowsStep DEF RowsTyped, Typed, TypeOK
<1> SUFFICES ASSUME NEW p \in Pollers, Poller(p)
             PROVE  \E row \in PollRows' : poll' = [poll EXCEPT ![p] = row]
  BY WhoChangesPoll
<1>3. CASE Poll(p)
  <2>1. poll' = [poll EXCEPT ![p] = [NoPoll EXCEPT !.pc = "list", !.since = Latest]]
    BY <1>3 DEF Poll, BeginPoll, SetPoll
  <2>2. Latest \in 0..MaxTs
    <3>1. {0} \cup RunTimestamps \subseteq 0..MaxTs
      BY Elements, ForecastAssumption DEF RunTimestamps, RunRows, Ts
    <3> QED
      BY <3>1, MaxIsGreatest, ForecastAssumption DEF Latest
  <2> QED
    BY <1>1, <2>1, <2>2 DEF NoPoll, PollRows
<1>4. ASSUME NEW since \in 0..MaxTs, Backfill(p, since)
      PROVE  \E row \in PollRows' : poll' = [poll EXCEPT ![p] = row]
  <2>1. poll' = [poll EXCEPT ![p] = [NoPoll EXCEPT !.pc = "list", !.since = since]]
    BY <1>4 DEF Backfill, BeginPoll, SetPoll
  <2> QED
    BY <1>1, <2>1 DEF NoPoll, PollRows
<1>5. CASE ListUpstream(p)
  <2>1. \/ poll' = [poll EXCEPT ![p] = NoPoll]
        \/ \E new \in SUBSET available :
             poll' = [poll EXCEPT ![p] = [NoPoll EXCEPT !.pc = "create", !.todo = new]]
    BY <1>5 DEF ListUpstream, SetPoll
  <2>2. available \subseteq Ts
    BY DEF Typed, TypeOK
  <2> QED
    BY <1>1, <2>1, <2>2 DEF NoPoll, PollRows
<1>6. CASE CreateRun(p)
  <2>1. /\ Len(runs') = Len(runs) + 1
        /\ poll' = [poll EXCEPT ![p] = [poll[p] EXCEPT !.pc = "trigger", !.run = Len(runs) + 1]]
    <3>1. /\ poll[p].pc = "create" /\ runs' = Append(runs, NewRow(NextTs(p)))
          /\ poll' = [poll EXCEPT ![p] = [poll[p] EXCEPT !.pc = "trigger", !.run = Len(runs) + 1]]
      BY <1>6 DEF CreateRun, SetPoll, NewRow
    <3>2. NewRow(NextTs(p)) \in RunRows
      BY <3>1, NextTsIsLeast DEF NewRow, RunRows, RunStatuses
    <3> QED
      BY <1>2, <3>1, <3>2, Appended
  <2>1a. poll \in [Pollers -> PollRows]
    BY DEF Typed, TypeOK, PollRows
  <2>2. poll[p] \in PollRows'
    BY <2>1a, PollRowsGrow
  <2>3. Len(runs) + 1 \in 0..Len(runs')
    BY <1>2, <2>1
  <2>4. [poll[p] EXCEPT !.pc = "trigger", !.run = Len(runs) + 1] \in PollRows'
    BY <2>2, <2>3 DEF PollRows
  <2> QED
    BY <2>1, <2>4
<1>7. CASE CreateRunFails(p) \/ TriggerInference(p) \/ TriggerInferenceFails(p)
  <2>1. poll[p].pc \in {"create", "trigger"} /\ poll' = [poll EXCEPT ![p] = AfterNext(p)]
    BY <1>7 DEF CreateRunFails, TriggerInference, TriggerInferenceFails, SetPoll
  <2> QED
    BY <2>1, AfterNextTyped
<1>8. CASE StopPoll(p)
  BY <1>1, <1>8 DEF StopPoll, SetPoll
<1> QED
  BY <1>3, <1>4, <1>5, <1>6, <1>7, <1>8 DEF Poller

LEMMA PollTyped ==
  ASSUME Typed, [Next]_vars
  PROVE  poll' \in [Pollers -> PollRows']
<1>1. poll \in [Pollers -> PollRows']
  BY PollRowsGrow DEF Typed, TypeOK, PollRows
<1> QED
  BY <1>1, HowPollChanges

(* What the actions of a poller make of it.                                *)
Listing(since) == [NoPoll EXCEPT !.pc = "list", !.since = since]
Creating(todo) == [NoPoll EXCEPT !.pc = "create", !.todo = todo]
NewTs(p)       == {ts \in available : ts > poll[p].since}

LEMMA PollStates ==
  /\ \A since : Listing(since).pc = "list" /\ Listing(since).since = since
  /\ \A todo : Creating(todo).pc = "create" /\ Creating(todo).todo = todo
  /\ NoPoll.pc = "idle" /\ NoPoll.todo = {}
  BY DEF NoPoll, Listing, Creating

(* What each action of a poller makes of it.                               *)
LEMMA PollerMoves ==
  ASSUME Typed, NEW p \in Pollers
  PROVE  /\ Poll(p) => poll' = [poll EXCEPT ![p] = Listing(Latest)]
         /\ \A since : Backfill(p, since) => poll' = [poll EXCEPT ![p] = Listing(since)]
         /\ ListUpstream(p) =>
              /\ poll[p].pc = "list"
              /\ poll' = [poll EXCEPT ![p] = IF NewTs(p) = {} THEN NoPoll ELSE Creating(NewTs(p))]
         /\ StopPoll(p) => poll' = [poll EXCEPT ![p] = NoPoll]
         /\ CreateRunFails(p) \/ TriggerInference(p) \/ TriggerInferenceFails(p) =>
              /\ poll[p].pc \in {"create", "trigger"}
              /\ poll' = [poll EXCEPT ![p] = AfterNext(p)]
<1>1. Poll(p) => poll' = [poll EXCEPT ![p] = Listing(Latest)]
  BY DEF Listing, Creating, Poll, BeginPoll, SetPoll
<1>2. \A since : Backfill(p, since) => poll' = [poll EXCEPT ![p] = Listing(since)]
  BY DEF Listing, Creating, Backfill, BeginPoll, SetPoll
<1>3. ListUpstream(p) =>
        /\ poll[p].pc = "list"
        /\ poll' = [poll EXCEPT ![p] = IF NewTs(p) = {} THEN NoPoll ELSE Creating(NewTs(p))]
  BY DEF Listing, Creating, ListUpstream, SetPoll, NewTs
<1>4. StopPoll(p) => poll' = [poll EXCEPT ![p] = NoPoll]
  BY DEF StopPoll, SetPoll
<1>5. CreateRunFails(p) \/ TriggerInference(p) \/ TriggerInferenceFails(p) =>
        /\ poll[p].pc \in {"create", "trigger"}
        /\ poll' = [poll EXCEPT ![p] = AfterNext(p)]
  BY DEF SetPoll, CreateRunFails, TriggerInference, TriggerInferenceFails
<1> QED
  BY <1>1, <1>2, <1>3, <1>4, <1>5

(* A poller that does not move has still the row it created.               *)
LEMMA PollStaysFit ==
  ASSUME Typed, [Next]_vars, NEW q \in Pollers, poll'[q] = poll[q]
  PROVE  PollFits(q)'
<1>1. poll[q].run \in DOMAIN runs => runs'[poll[q].run].ts = runs[poll[q].run].ts
                                     /\ poll[q].run \in DOMAIN runs'
  BY RowsStep DEF RowsKept
<1>2. NextTs(q)' = NextTs(q)
  BY DEF NextTs
<1> QED
  BY <1>1, <1>2, OnlyGrow DEF Typed, PollFits

(* Each poller fits the rows and the upstream after every step.            *)
LEMMA PollFitsStep ==
  ASSUME Typed, [Next]_vars, NEW q \in Pollers
  PROVE  PollFits(q)'
<1>1. poll \in [Pollers -> PollRows] /\ runs \in Seq(RunRows)
  BY DEF Typed, TypeOK, PollRows
<1> SUFFICES ASSUME NEW p \in Pollers, Poller(p), NEW row, poll' = [poll EXCEPT ![p] = row],
                    poll'[q] # poll[q]
             PROVE  PollFits(q)'
  BY PollStaysFit, HowPollChanges
<1>1a. \A new : [poll EXCEPT ![p] = new][p] = new
  BY <1>1
<1>2. p = q
  BY <1>1
<1>3. CASE poll'[p].pc \in {"idle", "list"}
  BY <1>2, <1>3 DEF PollFits
<1>4. CASE ListUpstream(p)
  <2>1. poll'[p] = NoPoll \/ (NewTs(p) # {} /\ poll'[p] = Creating(NewTs(p)))
    <3>1. poll' = [poll EXCEPT ![p] = IF NewTs(p) = {} THEN NoPoll ELSE Creating(NewTs(p))]
      BY <1>4, PollerMoves
    <3>2. CASE NewTs(p) = {}
      <4>1. poll' = [poll EXCEPT ![p] = NoPoll]
        BY <3>1, <3>2
      <4> QED
        BY <1>1, <4>1
    <3>3. CASE NewTs(p) # {}
      <4>1. poll' = [poll EXCEPT ![p] = Creating(NewTs(p))]
        BY <3>1, <3>3
      <4> QED
        BY <1>1a, <3>3, <4>1
    <3> QED
      BY <3>2, <3>3
  <2>2. NewTs(p) \subseteq available'
    BY OnlyGrow DEF NewTs
  <2> QED
    BY <1>2, <1>3, <2>1, <2>2, PollStates DEF PollFits
<1>5. CASE CreateRun(p)
  <2>1. /\ poll[p].pc = "create" /\ runs' = Append(runs, NewRow(NextTs(p)))
        /\ poll'[p] = [poll[p] EXCEPT !.pc = "trigger", !.run = Len(runs) + 1]
    BY <1>1, <1>5 DEF CreateRun, SetPoll, NewRow
  <2>2. NextTs(p)' = NextTs(p) /\ poll'[p].todo = poll[p].todo
    BY <1>1, <2>1 DEF NextTs, PollRows
  <2>3. /\ NewRow(NextTs(p)) \in RunRows /\ NewRow(NextTs(p)).ts = NextTs(p)
        /\ poll'[p].run = Len(runs) + 1 /\ poll'[p].pc = "trigger"
    BY <1>1, <2>1, NextTsIsLeast DEF NewRow, RunRows, RunStatuses, PollRows
  <2>4. poll'[p].run \in DOMAIN runs' /\ runs'[poll'[p].run] = NewRow(NextTs(p))
    BY <1>1, <2>1, <2>3, Appended
  <2> QED
    BY <1>2, <2>1, <2>2, <2>3, <2>4, OnlyGrow DEF Typed, PollFits
<1>6. CASE CreateRunFails(p) \/ TriggerInference(p) \/ TriggerInferenceFails(p)
  <2>1. poll[p].pc \in {"create", "trigger"} /\ poll'[p] = AfterNext(p)
    BY <1>1, <1>6 DEF CreateRunFails, TriggerInference, TriggerInferenceFails, SetPoll
  <2> QED
    BY <1>2, <2>1, AfterNextTyped, OnlyGrow DEF Typed, PollFits
<1>7. CASE Poll(p) \/ StopPoll(p) \/ \E since \in 0..MaxTs : Backfill(p, since)
  <2>1. poll'[p] = NoPoll \/ \E since : poll'[p] = Listing(since)
    <3>1. PICK new : /\ new = NoPoll \/ \E since : new = Listing(since)
                   /\ poll' = [poll EXCEPT ![p] = new]
      BY <1>7, PollerMoves
    <3> QED
      BY <1>1a, <3>1
  <2> QED
    BY <1>3, <2>1, PollStates
<1> QED
  BY <1>4, <1>5, <1>6, <1>7 DEF Poller

(* The rows are of timestamps that upstream listed.                        *)
LEMMA RowsStayAvailable ==
  ASSUME Typed, [Next]_vars
  PROVE  RowsAreAvailable'
<1>1. runs \in Seq(RunRows)
  BY DEF Typed, TypeOK
<1>2. \A i \in DOMAIN runs : runs'[i].ts \in available'
  BY RowsStep, OnlyGrow DEF Typed, RowsAreAvailable, RowsKept
<1>3. CASE DOMAIN runs' = DOMAIN runs
  BY <1>2, <1>3 DEF RowsAreAvailable
<1>4. ASSUME NEW p \in Pollers, CreateRun(p), NewRow(NextTs(p)) \in RunRows,
             runs' = Append(runs, NewRow(NextTs(p)))
      PROVE  RowsAreAvailable'
  <2>1. NextTs(p) \in available'
    BY <1>4, NextTsIsLeast, OnlyGrow DEF CreateRun
  <2>2. DOMAIN runs' = DOMAIN runs \cup {Len(runs) + 1} /\ runs'[Len(runs) + 1].ts = NextTs(p)
    BY <1>1, <1>4, Appended DEF NewRow
  <2> QED
    BY <1>2, <2>1, <2>2 DEF RowsAreAvailable
<1> QED
  BY <1>3, <1>4, HowRowsChange DEF Set

(* The Batchers. *)
LEMMA AgainTyped ==
  ASSUME NEW inv \in Invocations
  PROVE  /\ Again(inv) \subseteq Invocations /\ \A next \in Again(inv) : next.ts = inv.ts
         /\ IsFiniteSet(Again(inv))
<1>1. inv.tries \in 1..MaxAttempts /\ MaxAttempts \in Nat
  BY ForecastAssumption DEF Invocations
<1>2. inv.tries < MaxAttempts => inv.tries + 1 \in 1..MaxAttempts
  BY <1>1
<1>3. inv.tries < MaxAttempts =>
        /\ [inv EXCEPT !.tries = @ + 1] \in Invocations
        /\ [inv EXCEPT !.tries = @ + 1].ts = inv.ts
  BY <1>2 DEF Invocations
<1> QED
  BY <1>3, FS_EmptySet, FS_Singleton DEF Again

(* Invocations are tried no more often than MaxAttempts.                   *)
LEMMA PendingTyped ==
  ASSUME Typed, [Next]_vars
  PROVE  pending' \subseteq Invocations
<1>1. pending \subseteq Invocations
  BY DEF Typed, TypeOK
<1>2. \A ts \in Ts, manual \in BOOLEAN : FirstTry(ts, manual) \in Invocations
  BY ForecastAssumption DEF FirstTry, Invocations
<1>3. ASSUME NEW ts \in Ts, InvokeManually(ts)
      PROVE  pending' \subseteq Invocations
  BY <1>1, <1>2, <1>3 DEF InvokeManually
<1>4. ASSUME NEW j \in DOMAIN jobs, WriteForecast(j)
      PROVE  pending' \subseteq Invocations
  BY <1>1, <1>2, <1>4, Elements DEF WriteForecast, Jobs
<1>5. ASSUME NEW b \in Batchers, NEW inv \in pending, Receive(b, inv)
      PROVE  pending' \subseteq Invocations
  BY <1>1, <1>5, AgainTyped DEF Receive
<1>6. ASSUME NEW b \in Batchers, BatcherFails(b)
      PROVE  pending' \subseteq Invocations
  <2>1. batch[b].inv \in Invocations
    BY <1>6 DEF BatcherFails, Typed, TypeOK, NoBatch
  <2> QED
    BY <1>1, <1>6, <2>1, AgainTyped DEF BatcherFails
<1> QED
  BY <1>1, <1>3, <1>4, <1>5, <1>6, WhoChangesPending

(* How a Batcher changes, in terms of its row.                             *)
LEMMA HowBatchChanges ==
  ASSUME Typed, [Next]_vars, NEW b \in Batchers
  PROVE  \/ batch'[b] = batch[b] \/ batch'[b] = NoBatch
         \/ \E inv \in pending : \E i \in DOMAIN runs :
              /\ Receive(b, inv) /\ runs[i].ts = inv.ts /\ ~IsProcessed(runs[i].status)
              /\ batch[b] = NoBatch
              /\ batch'[b] = [pc |-> IF runs[i].status = "running" THEN "mark" ELSE "send",
                              inv |-> inv, run |-> i]
         \/ MarkComplete(b) /\ batch'[b] = [batch[b] EXCEPT !.pc = "send"]
<1> SUFFICES ASSUME NEW c \in Batchers, BatcherStep(c) \/ BatcherFails(c), batch'[b] # batch[b],
                    batch'[b] # NoBatch
             PROVE  \/ \E inv \in pending : \E i \in DOMAIN runs :
                         /\ Receive(b, inv) /\ runs[i].ts = inv.ts /\ ~IsProcessed(runs[i].status)
                         /\ batch[b] = NoBatch
                         /\ batch'[b] = [pc |-> IF runs[i].status = "running" THEN "mark" ELSE "send",
                                         inv |-> inv, run |-> i]
                    \/ MarkComplete(b) /\ batch'[b] = [batch[b] EXCEPT !.pc = "send"]
  BY WhoChangesBatch
<1>0. \A row : [batch EXCEPT ![c] = row][b] = IF b = c THEN row ELSE batch[b]
  BY DEF Typed, BatchesAreRows
<1>1. ASSUME NEW inv \in pending, Receive(c, inv)
      PROVE  \E i \in DOMAIN runs :
               /\ Receive(b, inv) /\ runs[i].ts = inv.ts /\ ~IsProcessed(runs[i].status)
               /\ batch[b] = NoBatch
               /\ batch'[b] = [pc |-> IF runs[i].status = "running" THEN "mark" ELSE "send",
                               inv |-> inv, run |-> i]
  <2>1. GetByTimestamp(c, inv) /\ batch[c] = NoBatch
    BY <1>1 DEF Receive
  <2>2. PICK i \in DOMAIN runs :
          /\ runs[i].ts = inv.ts /\ ~IsProcessed(runs[i].status)
          /\ batch' = [batch EXCEPT ![c] = [pc |-> IF runs[i].status = "running" THEN "mark" ELSE "send",
                                            inv |-> inv, run |-> i]]
    BY <2>1 DEF GetByTimestamp
  <2> QED
    BY <1>0, <1>1, <2>1, <2>2
<1>2. CASE MarkComplete(c)
  <2>1. batch' = [batch EXCEPT ![c] = [batch[c] EXCEPT !.pc = "send"]]
    BY <1>2 DEF MarkComplete
  <2> QED
    BY <1>0, <1>2, <2>1
<1>3. CASE SendBatch(c) \/ BatcherFails(c)
  <2>1. batch' = [batch EXCEPT ![c] = NoBatch]
    BY <1>3 DEF SendBatch, BatcherFails
  <2> QED
    BY <1>0, <2>1
<1> QED
  BY <1>1, <1>2, <1>3 DEF BatcherStep

(* A Batcher names a row that exists.                                      *)
LEMMA BatchStays ==
  ASSUME Typed, [Next]_vars, NEW b \in Batchers
  PROVE  BatchTyped(b)'
<1>1. BatchTyped(b) /\ DOMAIN runs \subseteq DOMAIN runs' /\ pending \subseteq Invocations
  BY RowsStep DEF Typed, TypeOK, BatchTyped, RowsKept
<1>2. batch'[b] = batch[b] \/ batch'[b] = NoBatch => BatchTyped(b)'
  BY <1>1 DEF BatchTyped
<1>3. ASSUME NEW inv \in pending, NEW i \in DOMAIN runs,
             batch'[b] = [pc |-> IF runs[i].status = "running" THEN "mark" ELSE "send",
                          inv |-> inv, run |-> i]
      PROVE  BatchTyped(b)'
  BY <1>1, <1>3 DEF BatchTyped
<1>4. ASSUME MarkComplete(b), batch'[b] = [batch[b] EXCEPT !.pc = "send"]
      PROVE  BatchTyped(b)'
  <2>1. batch[b] \in [pc : {"mark", "send"}, inv : Invocations, run : DOMAIN runs]
    BY <1>1, <1>4 DEF BatchTyped, MarkComplete, NoBatch
  <2> QED
    BY <1>1, <1>4, <2>1 DEF BatchTyped
<1> QED
  BY <1>2, <1>3, <1>4, HowBatchChanges

LEMMA BatchesStayRows ==
  ASSUME Typed, [Next]_vars
  PROVE  BatchesAreRows'
<1>1. CASE batch' = batch
  BY <1>1 DEF Typed, BatchesAreRows
<1>2. CASE \E c \in Batchers : \E row : batch' = [batch EXCEPT ![c] = row]
  BY <1>2 DEF Typed, BatchesAreRows
<1>3. \A c \in Batchers : BatcherStep(c) \/ BatcherFails(c) =>
        batch' = batch \/ \E row : batch' = [batch EXCEPT ![c] = row]
  BY DEF BatcherStep, BatcherFails, Receive, GetByTimestamp, MarkComplete, SendBatch
<1> QED
  BY <1>1, <1>2, <1>3, WhoChangesBatch

(* The counts stay numbers.                                                *)
LEMMA DispatchedTyped ==
  ASSUME Typed, [Next]_vars
  PROVE  dispatched' \in [Ts -> Nat]
<1>1. dispatched \in [Ts -> Nat]
  BY DEF Typed, TypeOK
<1>2. ASSUME NEW b \in Batchers, BatcherStep(b) \/ BatcherFails(b)
      PROVE  dispatched' = dispatched \/ \E ts : dispatched' = [dispatched EXCEPT ![ts] = @ + 1]
  BY <1>2 DEF BatcherStep, BatcherFails, Receive, MarkComplete, SendBatch
<1> QED
  BY <1>1, <1>2, WhoChangesBatch

(* The sets of timestamps stay sets of timestamps.                         *)
LEMMA SetsStay ==
  ASSUME Typed, [Next]_vars
  PROVE  SetsTyped'
<1>1. SetsTyped
  BY DEF Typed, TypeOK, SetsTyped
<1>2. ASSUME NEW p \in Pollers, Poller(p)
      PROVE  SetsTyped'
  <2>1. CASE CreateRunFails(p)
    BY <1>1, <2>1, NextTsIsLeast DEF CreateRunFails, SetsTyped
  <2>2. ASSUME NEW since \in 0..MaxTs, Backfill(p, since)
        PROVE  SetsTyped'
    <3>1. 1..since \subseteq Ts
      BY ForecastAssumption DEF Ts
    <3>2. /\ UNCHANGED <<available, marker, written, interrupted, overtaken, givenUp>>
          /\ lost' = lost \cup (1..since \ RunTimestamps)
      BY <2>2 DEF Backfill
    <3> QED
      BY <1>1, <3>1, <3>2 DEF SetsTyped
  <2> QED
    BY <1>1, <1>2, <2>1, <2>2 DEF Poller, Poll, ListUpstream, CreateRun, TriggerInference,
       TriggerInferenceFails, StopPoll, SetsTyped, ghosts
<1>3. ASSUME NEW j \in DOMAIN jobs, StartJob(j) \/ WriteForecast(j) \/ JobFails(j)
      PROVE  SetsTyped'
  <2>1. jobs[j].ts \in Ts
    BY Elements DEF Jobs
  <2> QED
    BY <1>1, <1>3, <2>1 DEF StartJob, WriteForecast, JobFails, SetsTyped, ghosts
<1>4. ASSUME NEW b \in Batchers, BatcherStep(b) \/ BatcherFails(b)
      PROVE  SetsTyped'
  <2>1. BatcherFails(b) => batch[b].inv.ts \in Ts
    BY DEF BatcherFails, Typed, TypeOK, NoBatch, Invocations
  <2> QED
    BY <1>1, <1>4, <2>1 DEF BatcherStep, Receive, MarkComplete, SendBatch, BatcherFails, SetsTyped, ghosts
<1>5. ASSUME Reconciler
      PROVE  SetsTyped'
  <2>1. rec.pc # "idle" => runs[Stale.id].ts \in Ts
    BY StaleIsStale, Elements DEF Typed, RecFits, RunRows
  <2> QED
    BY <1>1, <1>5, <2>1 DEF Reconciler, ListStaleRuns, GiveUp, MarkRunFailed, Resubmit, ResubmitFails,
       IncrementRetryAndUpdateExternalID, ReconcileRunFails, SetsTyped, ghosts
<1> QED
  BY <1>1, <1>2, <1>3, <1>4, <1>5 DEF Next, vars, ghosts, Publish, InvokeManually, RunPod, SetsTyped

(* What is exceptional stays within its bound.                             *)
LEMMA CountsStay ==
  ASSUME Typed, [Next]_vars
  PROVE  CountsTyped'
<1>1. CountsTyped /\ MaxExtras \in Nat
  BY ForecastAssumption DEF Typed, TypeOK, CountsTyped
<1>2. CASE UNCHANGED calls
  BY <1>1, <1>2 DEF calls, CountsTyped
<1>3. CASE Fault
  BY <1>1, <1>3 DEF Fault, Exceptional, CountsTyped
<1>4. CASE Exceptional /\ manuals' = manuals + 1 /\ UNCHANGED <<backfills, faults>>
  BY <1>1, <1>4 DEF Exceptional, CountsTyped
<1>5. CASE Exceptional /\ backfills' = backfills + 1 /\ UNCHANGED <<manuals, faults>>
  BY <1>1, <1>5 DEF Exceptional, CountsTyped
<1>6. ASSUME NEW p \in Pollers, Poller(p)
      PROVE  \/ UNCHANGED calls \/ Fault
             \/ Exceptional /\ backfills' = backfills + 1 /\ UNCHANGED <<manuals, faults>>
  BY <1>6 DEF Poller, Poll, Backfill, ListUpstream, CreateRun, CreateRunFails, TriggerInference,
     TriggerInferenceFails, StopPoll
<1>7. ASSUME RunPod \/ Reconciler \/ \E b \in Batchers : BatcherStep(b) \/ BatcherFails(b)
      PROVE  UNCHANGED calls \/ Fault
  BY <1>7 DEF RunPod, StartJob, WriteForecast, JobFails, BatcherStep, BatcherFails, Receive, MarkComplete,
     SendBatch, Reconciler, ListStaleRuns, GiveUp, Resubmit, ResubmitFails,
     IncrementRetryAndUpdateExternalID, ReconcileRunFails
<1>8. ASSUME NEW ts \in Ts, Publish(ts) \/ InvokeManually(ts)
      PROVE  \/ UNCHANGED calls
             \/ Exceptional /\ manuals' = manuals + 1 /\ UNCHANGED <<backfills, faults>>
  BY <1>8 DEF Publish, InvokeManually
<1> QED
  BY <1>2, <1>3, <1>4, <1>5, <1>6, <1>7, <1>8 DEF Next, vars, calls

(* The reconciler. *)
Reconciling(todo) == [pc |-> "reconcile", job |-> 0, todo |-> todo]

ReadOf(i) == [id |-> i, retries |-> runs[i].retries, ext |-> runs[i].ext]

(* What the reconciler reads of a run, and the states it is left in.       *)
LEMMA RecStates ==
  /\ \A todo : /\ Reconciling(todo).pc = "reconcile" /\ Reconciling(todo).todo = todo
               /\ Reconciling(todo).job = 0
  /\ NoReconciliation.pc = "idle" /\ NoReconciliation.todo = {} /\ NoReconciliation.job = 0
  /\ \A i : ReadOf(i).id = i /\ ReadOf(i).retries = runs[i].retries /\ ReadOf(i).ext = runs[i].ext
  BY DEF Reconciling, NoReconciliation, ReadOf

(* Only the reconciler counts resubmissions, each on the run it is at.     *)
LEMMA RetriesStep ==
  ASSUME Typed, [Next]_vars, NEW i \in DOMAIN runs
  PROVE  runs'[i].retries = runs[i].retries \/ (IncrementRetryAndUpdateExternalID /\ i = Stale.id)
<1>1. runs \in Seq(RunRows) /\ Len(jobs) <= Len(jobs')
  BY JobsStep DEF Typed, TypeOK
<1>2. ASSUME NEW j, NEW row, Set(j, row)
      PROVE  runs'[i] = IF j = i THEN row ELSE runs[i]
  BY <1>1, <1>2, Replaced DEF Set
<1>3. ASSUME NEW j, Set(j, Submitted(j)) \/ Set(j, Completed(j)) \/ Set(j, FailedRow(j))
      PROVE  runs'[i].retries = runs[i].retries
  <2>1. PICK row : Set(j, row) /\ row.retries = runs[j].retries
    BY <1>3, Elements DEF Submitted, Completed, FailedRow, Set, RunRows
  <2> QED
    BY <1>2, <2>1
<1>4. ASSUME NEW p \in Pollers, NewRow(NextTs(p)) \in RunRows, runs' = Append(runs, NewRow(NextTs(p)))
      PROVE  runs'[i].retries = runs[i].retries
  BY <1>1, <1>4, Appended
<1> QED
  BY <1>2, <1>3, <1>4, HowRowsChange

(* What was read of the runs still to be reconciled is still so.           *)
LEMMA TodoKept ==
  ASSUME Typed, [Next]_vars, NEW s \in rec.todo, ~IncrementRetryAndUpdateExternalID \/ s # Stale
  PROVE  s.id \in DOMAIN runs' /\ s.retries = runs'[s.id].retries /\ s.ext <= Len(jobs')
<1>1. s.id \in DOMAIN runs /\ s.retries = runs[s.id].retries /\ s.ext <= Len(jobs)
  BY DEF Typed, RecFits
<1>2. s.ext \in Nat /\ Len(jobs) \in Nat /\ Len(jobs') \in Nat /\ Len(jobs) <= Len(jobs')
  BY JobsStep DEF Typed, TypeOK, StaleRuns, JobIds, JobsTyped
<1>3. IncrementRetryAndUpdateExternalID => s.id # Stale.id
  <2> SUFFICES ASSUME IncrementRetryAndUpdateExternalID
               PROVE  s.id # Stale.id
    OBVIOUS
  <2>1. Stale \in rec.todo /\ s # Stale
    BY StaleIsStale DEF IncrementRetryAndUpdateExternalID
  <2> QED
    BY <2>1 DEF Typed, RecFits
<1>4. runs'[s.id].retries = runs[s.id].retries
  BY <1>1, <1>3, RetriesStep
<1> QED
  BY <1>1, <1>2, <1>4, RowsStep DEF RowsKept

RecStays == rec' \in RecRows' /\ RecFits'

(* The reconciler goes on with the next run, or is done.                   *)
LEMMA RecGoesOn ==
  ASSUME Typed, [Next]_vars, rec.pc # "idle", rec' = NextStale
  PROVE  RecStays
<1>1. rec.todo \subseteq StaleRuns /\ Len(jobs') \in Nat /\ Stale \in rec.todo
  BY JobsStep, StaleIsStale DEF Typed, TypeOK, JobsTyped
<1>2. \/ rec' = NoReconciliation
      \/ (rec.todo \ {Stale} # {} /\ rec' = Reconciling(rec.todo \ {Stale}))
  BY DEF NextStale, Reconciling
<1>3. CASE rec' = NoReconciliation
  BY <1>1, <1>3 DEF NoReconciliation, RecStays, RecRows, RecFits
<1>4. CASE rec.todo \ {Stale} # {} /\ rec' = Reconciling(rec.todo \ {Stale})
  <2>1. rec'.todo = rec.todo \ {Stale} /\ rec'.pc = "reconcile"
    BY <1>4, RecStates
  <2>2. \A s \in rec'.todo :
          /\ s.id \in DOMAIN runs' /\ s.retries = runs'[s.id].retries /\ s.ext <= Len(jobs')
          /\ \A t \in rec'.todo : s.id = t.id => s = t
    BY <2>1, TodoKept DEF Typed, RecFits
  <2>3. RecFits'
    BY <1>4, <2>1, <2>2 DEF RecFits
  <2>4. rec' \in RecRows'
    BY <1>1, <1>4 DEF Reconciling, RecRows
  <2> QED
    BY <2>3, <2>4 DEF RecStays
<1> QED
  BY <1>2, <1>3, <1>4

(* The same runs are to be reconciled. *)
LEMMA TodoStays ==
  ASSUME Typed, [Next]_vars, ~IncrementRetryAndUpdateExternalID, rec'.todo = rec.todo,
         rec'.pc # "idle" => rec.pc # "idle",
         rec'.pc = "increment" => Stale.retries < MaxRetryCount /\ rec'.job # 0
  PROVE  RecFits'
<1>1. \A s \in rec'.todo :
        /\ s.id \in DOMAIN runs' /\ s.retries = runs'[s.id].retries /\ s.ext <= Len(jobs')
        /\ \A t \in rec'.todo : s.id = t.id => s = t
  BY TodoKept DEF Typed, RecFits
<1>2. Stale' = Stale
  BY DEF Stale
<1>3. rec'.pc # "idle" => rec'.todo # {}
  BY DEF Typed, RecFits
<1> QED
  BY <1>1, <1>2, <1>3 DEF RecFits

(* The reconciler fits the rows after every step.                          *)
LEMMA RecStep ==
  ASSUME Typed, [Next]_vars
  PROVE  RecStays
<1>1. /\ rec \in RecRows /\ jobs \in Seq(Jobs) /\ jobs' \in Seq(Jobs) /\ Len(jobs) <= Len(jobs')
      /\ Len(jobs) \in Nat /\ Len(jobs') \in Nat
  BY JobsStep DEF Typed, TypeOK, RecRows, JobsTyped
<1>2. CASE rec' = rec
  <2>1. rec \in RecRows'
    BY <1>1 DEF RecRows
  <2>2. CASE IncrementRetryAndUpdateExternalID
    BY <2>2, RecGoesOn DEF IncrementRetryAndUpdateExternalID
  <2>3. CASE ~IncrementRetryAndUpdateExternalID
    BY <1>2, <2>1, <2>3, TodoStays DEF RecStays, Typed, RecFits
  <2> QED
    BY <2>2, <2>3
<1>3. CASE GiveUp \/ ResubmitFails \/ IncrementRetryAndUpdateExternalID \/ ReconcileRunFails
  BY <1>3, RecGoesOn DEF GiveUp, ResubmitFails, MarkRunFailed, IncrementRetryAndUpdateExternalID,
     ReconcileRunFails
<1>4. CASE Resubmit
  <2>1. /\ rec.pc = "reconcile" /\ ~RetriesExhausted /\ runs' = runs /\ jobs' \in ResubmittedJobs
        /\ rec' = [rec EXCEPT !.pc = "increment", !.job = Len(jobs) + 1]
    BY <1>4 DEF Resubmit
  <2>2. rec'.todo = rec.todo /\ rec'.pc = "increment" /\ rec'.job = Len(jobs) + 1
    BY <1>1, <2>1 DEF RecRows
  <2>3. Len(jobs') = Len(jobs) + 1
    BY <2>1, ResubmittedTyped
  <2>4. Stale.retries < MaxRetryCount
    <3>1. Stale.retries \in Nat /\ ~(Stale.retries >= MaxRetryCount)
      BY <2>1, StaleIsStale DEF RetriesExhausted, StaleRuns
    <3> QED
      BY <3>1, ForecastAssumption
  <2>5. rec' \in RecRows'
    <3>1. Len(jobs) + 1 \in 0..Len(jobs')
      BY <1>1, <2>3
    <3> QED
      BY <1>1, <2>1, <3>1 DEF RecRows
  <2>6. ~IncrementRetryAndUpdateExternalID
    BY <2>1 DEF IncrementRetryAndUpdateExternalID
  <2> QED
    BY <1>1, <2>1, <2>2, <2>4, <2>5, <2>6, TodoStays DEF RecStays
<1>5. ASSUME NEW k \in DOMAIN runs, ListStaleRuns(k)
      PROVE  RecStays
  <2> DEFINE stale == {i \in 1..k : runs[i].status = "running"}
  <2>1. /\ rec' = Reconciling({ReadOf(i) : i \in stale}) /\ stale # {}
        /\ runs' = runs /\ jobs' = jobs
    BY <1>5 DEF ListStaleRuns, Reconciling, ReadOf
  <2>2. rec'.pc = "reconcile" /\ rec'.todo = {ReadOf(i) : i \in stale}
    BY <2>1, RecStates
  <2>3. runs \in Seq(RunRows) /\ Len(runs) <= MaxRuns /\ MaxRuns \in Nat
    BY ForecastAssumption DEF Typed, TypeOK
  <2>4. stale \subseteq DOMAIN runs /\ stale \subseteq RunIds
    BY <2>3 DEF RunIds
  <2>5. \A i \in stale : ReadOf(i) \in StaleRuns /\ ReadOf(i).ext <= Len(jobs)
    <3> SUFFICES ASSUME NEW i \in stale
                 PROVE  ReadOf(i) \in StaleRuns /\ ReadOf(i).ext <= Len(jobs)
      OBVIOUS
    <3>1. runs[i] \in RunRows /\ runs[i].ext <= Len(jobs)
      BY <2>4, Elements DEF Typed, TypeOK
    <3> QED
      BY <2>4, <3>1 DEF ReadOf, StaleRuns, RunRows
  <2>6. rec' \in RecRows'
    BY <1>1, <2>1, <2>5 DEF Reconciling, RecRows
  <2>7. \A s \in rec'.todo :
          /\ s.id \in DOMAIN runs' /\ s.retries = runs'[s.id].retries /\ s.ext <= Len(jobs')
          /\ \A t \in rec'.todo : s.id = t.id => s = t
    BY <2>1, <2>2, <2>4, <2>5, RecStates
  <2>8. RecFits'
    <3>1. rec'.todo # {}
      BY <2>1, <2>2
    <3> QED
      BY <2>2, <2>7, <3>1 DEF RecFits
  <2> QED
    BY <2>6, <2>8 DEF RecStays
<1> QED
  BY <1>2, <1>3, <1>4, <1>5, WhoChangesRec DEF Reconciler

(* Types are kept.                                                         *)
LEMMA TypedStep ==
  ASSUME Typed, [Next]_vars
  PROVE  Typed'
<1>1. TypeOK'
  BY SetsStay, CountsStay, JobsStep, RowsStep, PendingTyped, PollTyped, BatchStays, RecStep, DispatchedTyped
     DEF TypeOK, SetsTyped, CountsTyped, JobsTyped, RowsTyped, PollRows, BatchTyped, RecRows, RecStays
<1> QED
  BY <1>1, RowsStayAvailable, PollFitsStep, RecStep, BatchesStayRows DEF Typed, RecStays

(* A run is resubmitted as often as it may be.                             *)
LEMMA RetriesStayBounded ==
  ASSUME Typed, RetriesBounded, [Next]_vars
  PROVE  RetriesBounded'
<1>1. runs \in Seq(RunRows)
  BY DEF Typed, TypeOK
<1>2. ASSUME NEW i \in DOMAIN runs
      PROVE  runs'[i].retries <= MaxRetryCount
  <2>1. CASE runs'[i].retries = runs[i].retries
    BY <2>1 DEF RetriesBounded
  <2>2. CASE IncrementRetryAndUpdateExternalID /\ i = Stale.id
    <3>1. runs' = [runs EXCEPT ![i] = Resubmitted(i, rec.job)]
      BY <2>2 DEF IncrementRetryAndUpdateExternalID, Resubmitted
    <3>2. runs'[i].retries = runs[i].retries + 1
      BY <1>1, <3>1, Elements DEF Resubmitted, RunRows
    <3>3. runs[i].retries < MaxRetryCount /\ runs[i].retries \in Nat
      BY <2>2, StaleIsStale, Elements DEF IncrementRetryAndUpdateExternalID, Typed, RecFits, RunRows
    <3> QED
      BY <3>2, <3>3, ForecastAssumption
  <2> QED
    BY <2>1, <2>2, RetriesStep
<1>3. CASE DOMAIN runs' = DOMAIN runs
  BY <1>2, <1>3 DEF RetriesBounded
<1>4. ASSUME NEW p \in Pollers, NewRow(NextTs(p)) \in RunRows, runs' = Append(runs, NewRow(NextTs(p)))
      PROVE  RetriesBounded'
  <2>1. DOMAIN runs' = DOMAIN runs \cup {Len(runs) + 1} /\ runs'[Len(runs) + 1].retries = 0
    BY <1>1, <1>4, Appended DEF NewRow
  <2> QED
    BY <1>2, <2>1, ForecastAssumption DEF RetriesBounded
<1> QED
  BY <1>3, <1>4, HowRowsChange DEF Set

-----------------------------------------------------------------------------
(* What is called, and what is dispatched. *)

(* What was computed or wanted once is so for good.                        *)
LEMMA CalledStays ==
  ASSUME Typed, [Next]_vars, NEW inv, Called(inv)
  PROVE  Called(inv)'
<1>1. manuals \in Nat /\ manuals' \in Nat
  BY CountsStay, ForecastAssumption DEF Typed, TypeOK, CountsTyped
<1> QED
  BY <1>1, OnlyGrow DEF Called

(* A Batcher that is at work, and its run.                                 *)
LEMMA AtWork ==
  ASSUME Typed, CallsFit, NEW b \in Batchers, batch[b].pc # "idle"
  PROVE  /\ batch[b] \in [pc : {"mark", "send"}, inv : Invocations, run : DOMAIN runs]
         /\ batch[b].inv.ts \in Ts /\ Called(batch[b].inv)
         /\ batch[b].run \in RunsOf(batch[b].inv.ts)
<1>1. batch[b] \in [pc : {"mark", "send"}, inv : Invocations, run : DOMAIN runs]
  BY DEF Typed, TypeOK, NoBatch
<1> QED
  BY <1>1 DEF CallsFit, BatchFits, RunsOf, Invocations

(* A timestamp keeps its rows.                                             *)
LEMMA RunsOfGrow ==
  ASSUME Typed, [Next]_vars, NEW ts
  PROVE  /\ RunsOf(ts) \subseteq RunsOf(ts)'
         /\ \A i \in RunsOf(ts)' : i \in DOMAIN runs => i \in RunsOf(ts)
         /\ AtMostOneRun(ts)' => AtMostOneRun(ts)
  BY RowsStep DEF RowsKept, RunsOf, AtMostOneRun

(* Nothing is called that was neither computed nor wanted.                 *)
LEMMA CallsStayFit ==
  ASSUME Typed, CallsFit, [Next]_vars
  PROVE  CallsFit'
<1>0. pending \subseteq Invocations /\ \A inv \in pending : Called(inv)'
  BY CalledStays DEF Typed, TypeOK, CallsFit
<1>1. ASSUME NEW ts \in Ts, InvokeManually(ts), NEW inv \in pending'
      PROVE  Called(inv)'
  <2>1. manuals \in Nat /\ manuals' = manuals + 1
    BY <1>1, ForecastAssumption DEF InvokeManually, Typed, TypeOK
  <2> QED
    BY <2>1 DEF Called
<1>2. ASSUME NEW j \in DOMAIN jobs, WriteForecast(j), NEW inv \in pending'
      PROVE  Called(inv)'
  BY <1>0, <1>2 DEF WriteForecast, FirstTry, Called
<1>3. ASSUME NEW b \in Batchers, NEW called \in pending, Receive(b, called), NEW inv \in pending'
      PROVE  Called(inv)'
  <2>1. inv \in pending \/ inv \in Again(called)
    BY <1>3 DEF Receive
  <2> QED
    BY <1>0, <2>1, AgainTyped DEF Called
<1>4. ASSUME NEW b \in Batchers, BatcherFails(b), NEW inv \in pending'
      PROVE  Called(inv)'
  <2>1. inv \in pending \/ inv \in Again(batch[b].inv)
    BY <1>4 DEF BatcherFails
  <2>2. PICK call \in Invocations : call = batch[b].inv /\ Called(call)
    BY <1>4, AtWork DEF BatcherFails
  <2> QED
    BY <1>0, <2>1, <2>2, CalledStays, AgainTyped DEF Called
<1>5. \A inv \in pending' : Called(inv)'
  BY <1>0, <1>1, <1>2, <1>3, <1>4, WhoChangesPending
<1>6. ASSUME NEW b \in Batchers
      PROVE  BatchFits(b)'
  <2>1. ASSUME NEW i \in DOMAIN runs, NEW call, Called(call), runs[i].ts = call.ts,
               batch'[b].inv = call, batch'[b].run = i
        PROVE  BatchFits(b)'
    <3>1. Called(call)' /\ runs'[i].ts = call.ts
      BY <2>1, CalledStays, RowsStep DEF RowsKept
    <3> QED
      BY <2>1, <3>1 DEF BatchFits, Called
  <2>2. CASE batch'[b].pc = "idle"
    BY <2>2 DEF BatchFits
  <2>3. ASSUME batch[b].pc # "idle", batch'[b].inv = batch[b].inv, batch'[b].run = batch[b].run
        PROVE  BatchFits(b)'
    <3>1. PICK call \in Invocations : call = batch[b].inv /\ Called(call)
      BY <2>3, AtWork
    <3>2. PICK i \in DOMAIN runs : i = batch[b].run /\ runs[i].ts = call.ts
      BY <2>3, <3>1, AtWork DEF RunsOf
    <3> QED
      BY <2>1, <2>3, <3>1, <3>2
  <2>4. ASSUME NEW inv \in pending, NEW i \in DOMAIN runs, runs[i].ts = inv.ts,
               batch'[b] = [pc |-> IF runs[i].status = "running" THEN "mark" ELSE "send",
                            inv |-> inv, run |-> i]
        PROVE  BatchFits(b)'
    BY <2>1, <2>4 DEF CallsFit
  <2>5. ASSUME MarkComplete(b), batch'[b] = [batch[b] EXCEPT !.pc = "send"]
        PROVE  BatchFits(b)'
    <3>1. batch[b].pc # "idle"
      BY <2>5 DEF MarkComplete
    <3>2. batch'[b].inv = batch[b].inv /\ batch'[b].run = batch[b].run
      BY <2>5, <3>1, AtWork
    <3> QED
      BY <2>3, <3>1, <3>2
  <2>6. CASE batch'[b] = batch[b]
    BY <2>2, <2>3, <2>6
  <2>7. CASE batch'[b] = NoBatch
    BY <2>2, <2>7 DEF NoBatch
  <2> QED
    BY <2>4, <2>5, <2>6, <2>7, HowBatchChanges
<1> QED
  BY <1>5, <1>6 DEF CallsFit

(* A run that is not running never runs again, and one that is failed is   *)
(* given up.                                                               *)
LEMMA StatusStep ==
  ASSUME Typed, [Next]_vars, NEW i \in DOMAIN runs
  PROVE  \/ runs'[i].status = runs[i].status
         \/ runs'[i].status = "complete"
         \/ runs'[i].status = "failed" /\ runs[i].ts \in givenUp'
<1>1. runs \in Seq(RunRows)
  BY DEF Typed, TypeOK
<1>2. ASSUME NEW j, NEW row, Set(j, row)
      PROVE  runs'[i] = IF j = i THEN row ELSE runs[i]
  BY <1>1, <1>2, Replaced DEF Set
<1>3. ASSUME NEW j, \/ Set(j, Submitted(j)) \/ Set(j, Completed(j))
                    \/ Set(j, Resubmitted(j, rec.job))
      PROVE  runs'[i].status = runs[i].status \/ runs'[i].status = "complete"
  <2>1. PICK row : Set(j, row) /\ (row.status = runs[j].status \/ row.status = "complete")
    BY <1>3, Elements DEF Submitted, Completed, Resubmitted, Set, RunRows
  <2> QED
    BY <1>2, <2>1
<1>4. ASSUME GiveUp \/ ResubmitFails, Set(Stale.id, FailedRow(Stale.id))
      PROVE  \/ runs'[i].status = runs[i].status
             \/ runs'[i].status = "failed" /\ runs[i].ts \in givenUp'
  <2>1. runs[Stale.id].ts \in givenUp'
    BY <1>4 DEF GiveUp, ResubmitFails, MarkRunFailed
  <2>2. FailedRow(Stale.id).status = "failed"
    BY <1>4, Elements DEF FailedRow, Set, RunRows
  <2> QED
    BY <1>2, <1>4, <2>1, <2>2
<1>5. ASSUME NEW p \in Pollers, NewRow(NextTs(p)) \in RunRows, runs' = Append(runs, NewRow(NextTs(p)))
      PROVE  runs'[i].status = runs[i].status
  BY <1>1, <1>5, Appended
<1> QED
  BY <1>3, <1>4, <1>5, HowRowsChange

(* A row that is added runs.                                               *)
LEMMA AddedRow ==
  ASSUME Typed, [Next]_vars, NEW i \in DOMAIN runs', i \notin DOMAIN runs
  PROVE  \E p \in Pollers :
           /\ CreateRun(p) /\ runs'[i] = NewRow(NextTs(p)) /\ i = Len(runs) + 1
           /\ runs' = Append(runs, NewRow(NextTs(p)))
<1>1. runs \in Seq(RunRows)
  BY DEF Typed, TypeOK
<1>2. \A j, row : Set(j, row) => DOMAIN runs' = DOMAIN runs
  BY <1>1, Replaced DEF Set
<1> QED
  BY <1>1, <1>2, HowRowsChange, Appended

(* A run that is failed was given up.                                      *)
LEMMA FailedStaysGivenUp ==
  ASSUME Typed, FailedIsGivenUp, [Next]_vars
  PROVE  FailedIsGivenUp'
<1> SUFFICES ASSUME NEW i \in DOMAIN runs', runs'[i].status = "failed"
             PROVE  runs'[i].ts \in givenUp'
  BY DEF FailedIsGivenUp
<1>1. CASE i \in DOMAIN runs
  BY <1>1, StatusStep, RowsStep, OnlyGrow DEF FailedIsGivenUp, RowsKept
<1>2. CASE i \notin DOMAIN runs
  <2>1. PICK p : runs'[i] = NewRow(NextTs(p))
    BY <1>2, AddedRow
  <2> QED
    BY <2>1 DEF NewRow
<1> QED
  BY <1>1, <1>2

(* Only what was computed, or is wanted, is dispatched.                    *)
LEMMA DispatchedStaysWritten ==
  ASSUME Typed, CallsFit, DispatchedIsWritten, [Next]_vars
  PROVE  DispatchedIsWritten'
<1> SUFFICES ASSUME NEW ts \in Ts, dispatched'[ts] > 0
             PROVE  RunsOf(ts)' # {} /\ (ts \in written' \/ manuals' > 0)
  BY DEF DispatchedIsWritten
<1>1. manuals \in Nat /\ manuals' \in Nat /\ dispatched \in [Ts -> Nat]
  BY CountsStay, ForecastAssumption DEF Typed, TypeOK, CountsTyped
<1>2. CASE dispatched'[ts] = dispatched[ts]
  BY <1>1, <1>2, OnlyGrow, RunsOfGrow DEF DispatchedIsWritten
<1>3. ASSUME NEW b \in Batchers, SendBatch(b)
      PROVE  RunsOf(ts)' # {} /\ (ts \in written' \/ manuals' > 0)
  <2>1. /\ batch[b].pc # "idle" /\ dispatched' = [dispatched EXCEPT ![batch[b].inv.ts] = @ + 1]
    BY <1>3 DEF SendBatch
  <2>2. CASE ts = batch[b].inv.ts
    <3>1. RunsOf(ts) # {} /\ (ts \in written \/ manuals > 0)
      BY <2>1, <2>2, AtWork DEF Called
    <3> QED
      BY <1>1, <3>1, OnlyGrow, RunsOfGrow
  <2>3. CASE ts # batch[b].inv.ts
    BY <1>1, <1>2, <2>1, <2>3
  <2> QED
    BY <2>2, <2>3
<1>4. ASSUME NEW b \in Batchers, BatcherStep(b) \/ BatcherFails(b), ~SendBatch(b)
      PROVE  dispatched' = dispatched
  BY <1>4 DEF BatcherStep, BatcherFails, Receive, MarkComplete
<1> QED
  BY <1>2, <1>3, <1>4, WhoChangesBatch

-----------------------------------------------------------------------------
(* How often a timestamp is dispatched. *)

(* The Batchers at a timestamp can be counted, before and after a step.    *)
LEMMA BusyIsFinite ==
  ASSUME NEW ts
  PROVE  /\ IsFiniteSet(Busy(ts)) /\ Cardinality(Busy(ts)) \in Nat
         /\ Cardinality(Busy(ts)) <= Cardinality(Batchers) /\ Cardinality(Batchers) \in Nat
<1>1. Busy(ts) \subseteq Batchers
  BY DEF Busy
<1> QED
  BY <1>1, FS_Subset, FS_CardinalityType, ForecastAssumption

LEMMA BusyIsFiniteNext ==
  ASSUME NEW ts
  PROVE  /\ IsFiniteSet(Busy(ts)') /\ Cardinality(Busy(ts)') \in Nat
         /\ Cardinality(Busy(ts)') <= Cardinality(Batchers) /\ Cardinality(Batchers) \in Nat
<1>1. Busy(ts)' \subseteq Batchers
  BY DEF Busy
<1> QED
  BY <1>1, FS_Subset, FS_CardinalityType, ForecastAssumption

(* The heart of the bound: a Batcher takes a run while it is running and
   nothing was dispatched, or leaves it; what it dispatches later it then
   no longer has in hand. *)
LEMMA DispatchStaysFit ==
  ASSUME Typed, Work, [Next]_vars, NEW ts \in Ts
  PROVE  DispatchFits(ts)'
<1> SUFFICES ASSUME AtMostOneRun(ts)', ts \notin givenUp'
             PROVE  /\ dispatched'[ts] + Cardinality(Busy(ts)') <= Cardinality(Batchers)
                    /\ \A i \in RunsOf(ts)' : runs'[i].status = "running" =>
                         dispatched'[ts] = 0 /\ \A b \in Busy(ts)' : batch'[b].pc = "mark"
  BY DEF DispatchFits
<1> DEFINE Fit == /\ dispatched'[ts] + Cardinality(Busy(ts)') <= Cardinality(Batchers)
                  /\ \A i \in RunsOf(ts)' : runs'[i].status = "running" =>
                       dispatched'[ts] = 0 /\ \A b \in Busy(ts)' : batch'[b].pc = "mark"
<1>1. AtMostOneRun(ts) /\ ts \notin givenUp
  BY RunsOfGrow, OnlyGrow
<1>2. /\ dispatched[ts] + Cardinality(Busy(ts)) <= Cardinality(Batchers)
      /\ \A i \in RunsOf(ts) : runs[i].status = "running" =>
           dispatched[ts] = 0 /\ \A b \in Busy(ts) : batch[b].pc = "mark"
  BY <1>1 DEF Work, DispatchFits
<1>3. dispatched \in [Ts -> Nat] /\ dispatched' \in [Ts -> Nat] /\ CallsFit
  BY DispatchedTyped DEF Typed, TypeOK, Work
<1>4. \A i \in RunsOf(ts) : runs'[i].status = "running" => runs[i].status = "running"
  BY StatusStep DEF RunsOf
<1>5. RunsOf(ts) = {} => dispatched[ts] = 0 /\ Busy(ts) = {}
  <2>1. RunsOf(ts) = {} => dispatched[ts] = 0
    BY <1>3 DEF Work, DispatchedIsWritten
  <2>2. \A b \in Busy(ts) : batch[b].run \in RunsOf(ts)
    BY <1>3, AtWork DEF Busy
  <2> QED
    BY <2>1, <2>2
(* Nothing about the Batchers of this timestamp gets worse. *)
<1>6. ASSUME dispatched'[ts] = dispatched[ts], Busy(ts)' \subseteq Busy(ts),
             \A b \in Busy(ts)' : batch'[b].pc = batch[b].pc
      PROVE  Fit
  <2>1. Cardinality(Busy(ts)') <= Cardinality(Busy(ts))
    BY <1>6, BusyIsFinite, FS_Subset
  <2>2. dispatched'[ts] + Cardinality(Busy(ts)') <= Cardinality(Batchers)
    BY <1>2, <1>3, <1>6, <2>1, BusyIsFinite, BusyIsFiniteNext
  <2>3. ASSUME NEW i \in RunsOf(ts)', runs'[i].status = "running"
        PROVE  dispatched'[ts] = 0 /\ \A b \in Busy(ts)' : batch'[b].pc = "mark"
    <3>1. CASE i \in DOMAIN runs
      BY <1>2, <1>4, <1>6, <2>3, <3>1, RunsOfGrow
    <3>2. CASE i \notin DOMAIN runs
      <4>1. RunsOf(ts) = {}
        <5> SUFFICES ASSUME NEW j \in RunsOf(ts)
                     PROVE  FALSE
          OBVIOUS
        <5>1. j \in RunsOf(ts)' /\ j \in DOMAIN runs
          BY RunsOfGrow DEF RunsOf
        <5> QED
          BY <2>3, <3>2, <5>1 DEF AtMostOneRun
      <4> QED
        BY <1>5, <1>6, <4>1
    <3> QED
      BY <3>1, <3>2
  <2> QED
    BY <2>2, <2>3
<1>7. CASE batch' = batch /\ dispatched' = dispatched
  <2>1. Busy(ts)' = Busy(ts)
    BY <1>7 DEF Busy
  <2> QED
    BY <1>6, <1>7, <2>1
(* What a row of the Batchers becomes. *)
<1>8. \A b, c \in Batchers : \A row : [batch EXCEPT ![c] = row][b] = IF b = c THEN row ELSE batch[b]
  BY DEF Typed, BatchesAreRows
<1>9. ASSUME NEW c \in Batchers, NEW row, batch' = [batch EXCEPT ![c] = row]
      PROVE  \A b \in Batchers : b # c => /\ batch'[b] = batch[b]
                                         /\ b \in Busy(ts)' <=> b \in Busy(ts)
  BY <1>8, <1>9 DEF Busy
<1>10. ASSUME NEW c \in Batchers, NEW inv \in pending, Receive(c, inv)
       PROVE  Fit
  <2>1. /\ runs' = runs /\ dispatched' = dispatched
        /\ UNCHANGED batch \/ (batch[c] = NoBatch /\ GetByTimestamp(c, inv))
    BY <1>10 DEF Receive
  <2> SUFFICES ASSUME batch' # batch
               PROVE  Fit
    BY <1>7, <2>1
  <2>2. PICK i \in DOMAIN runs, pcOf \in {"mark", "send"} :
          /\ runs[i].ts = inv.ts /\ ~IsProcessed(runs[i].status) /\ batch[c] = NoBatch
          /\ pcOf = IF runs[i].status = "running" THEN "mark" ELSE "send"
          /\ batch' = [batch EXCEPT ![c] = [pc |-> pcOf, inv |-> inv, run |-> i]]
    BY <2>1 DEF GetByTimestamp
  <2>3. batch'[c].pc = pcOf /\ batch'[c].inv = inv /\ c \notin Busy(ts)
    BY <1>8, <2>2 DEF Busy, NoBatch
  <2>4. CASE inv.ts # ts
    <3>1. c \notin Busy(ts)'
      BY <2>3, <2>4 DEF Busy
    <3>2. Busy(ts)' \subseteq Busy(ts) /\ \A b \in Busy(ts)' : batch'[b].pc = batch[b].pc
      BY <1>9, <2>2, <3>1 DEF Busy
    <3> QED
      BY <1>6, <2>1, <3>2
  <2>5. CASE inv.ts = ts
    <3>1. i \in RunsOf(ts) /\ runs[i] \in RunRows
      BY <2>2, <2>5, Elements DEF RunsOf
    <3>2. runs[i].status = "running"
      BY <1>1, <2>2, <2>5, <3>1 DEF Work, FailedIsGivenUp, IsProcessed, RunRows, RunStatuses
    <3>3. dispatched[ts] = 0 /\ \A b \in Busy(ts) : batch[b].pc = "mark"
      BY <1>2, <3>1, <3>2
    <3>4. \A b \in Busy(ts)' : batch'[b].pc = "mark"
      BY <1>9, <2>2, <2>3, <3>2, <3>3 DEF Busy
    <3> QED
      BY <2>1, <3>3, <3>4, BusyIsFiniteNext
  <2> QED
    BY <2>4, <2>5
(* The run at hand, and the Batcher that is at it. *)
<1>11. ASSUME NEW c \in Batchers, MarkComplete(c)
       PROVE  Fit
  <2>1. /\ batch[c].pc = "mark" /\ dispatched' = dispatched
        /\ batch' = [batch EXCEPT ![c] = [batch[c] EXCEPT !.pc = "send"]]
        /\ runs' = [runs EXCEPT ![batch[c].run] = Completed(batch[c].run)]
    BY <1>11 DEF MarkComplete, Completed
  <2>2. /\ batch[c] \in [pc : {"mark", "send"}, inv : Invocations, run : DOMAIN runs]
        /\ batch[c].run \in RunsOf(batch[c].inv.ts)
    BY <1>3, <2>1, AtWork
  <2>3. batch'[c].inv = batch[c].inv /\ batch'[c].pc = "send"
    BY <1>8, <2>1, <2>2
  <2>4. c \in Busy(ts)' <=> c \in Busy(ts)
    BY <2>1, <2>3 DEF Busy
  <2>5. Busy(ts)' = Busy(ts)
    BY <1>9, <2>1, <2>4 DEF Busy
  <2>6. CASE batch[c].inv.ts # ts
    <3>1. \A b \in Busy(ts)' : b # c
      BY <2>3, <2>6 DEF Busy
    <3>2. \A b \in Busy(ts)' : batch'[b].pc = batch[b].pc
      BY <1>9, <2>1, <3>1 DEF Busy
    <3> QED
      BY <1>6, <2>1, <2>5, <3>2
  <2>7. CASE batch[c].inv.ts = ts
    <3>1. runs'[batch[c].run].status = "complete"
      BY <2>1, <2>2, Elements DEF Completed, RunRows, Typed, TypeOK
    <3>2. batch[c].run \in RunsOf(ts)'
      BY <2>2, <2>7, RunsOfGrow
    <3>3. \A i \in RunsOf(ts)' : runs'[i].status # "running"
      BY <3>1, <3>2 DEF AtMostOneRun
    <3> QED
      BY <1>2, <2>1, <2>5, <3>3
  <2> QED
    BY <2>6, <2>7
<1>12. ASSUME NEW c \in Batchers, batch' = [batch EXCEPT ![c] = NoBatch]
       PROVE  Busy(ts)' = Busy(ts) \ {c} /\ \A b \in Busy(ts)' : batch'[b].pc = batch[b].pc
  <2>1. batch'[c] = NoBatch
    BY <1>8, <1>12
  <2>2. c \notin Busy(ts)'
    BY <2>1 DEF Busy, NoBatch
  <2> QED
    BY <1>9, <1>12, <2>2 DEF Busy
<1>13. ASSUME NEW c \in Batchers, SendBatch(c)
       PROVE  Fit
  <2>1. /\ batch[c].pc = "send" /\ runs' = runs /\ batch' = [batch EXCEPT ![c] = NoBatch]
        /\ dispatched' = [dispatched EXCEPT ![batch[c].inv.ts] = @ + 1]
    BY <1>13 DEF SendBatch
  <2>2. CASE batch[c].inv.ts # ts
    BY <1>3, <1>6, <1>12, <2>1, <2>2
  <2>3. CASE batch[c].inv.ts = ts
    <3>1. c \in Busy(ts) /\ dispatched'[ts] = dispatched[ts] + 1
      <4>1. c \in Busy(ts)
        BY <2>1, <2>3 DEF Busy
      <4>2. dispatched'[ts] = dispatched[ts] + 1
        BY <1>3, <2>1, <2>3
      <4> QED
        BY <4>1, <4>2
    <3>2. Cardinality(Busy(ts)') = Cardinality(Busy(ts)) - 1
      <4>1. Busy(ts)' = Busy(ts) \ {c}
        BY <1>12, <2>1
      <4>2. Cardinality(Busy(ts) \ {c}) = Cardinality(Busy(ts)) - 1
        BY <3>1, BusyIsFinite, FS_RemoveElement
      <4> QED
        BY <4>1, <4>2
    <3>3. dispatched'[ts] + Cardinality(Busy(ts)') <= Cardinality(Batchers)
      BY <1>2, <1>3, <3>1, <3>2, BusyIsFinite
    <3>4. \A i \in RunsOf(ts) : runs[i].status # "running"
      BY <1>2, <2>1, <3>1
    <3>5. \A i \in RunsOf(ts)' : runs'[i].status # "running"
      BY <2>1, <3>4 DEF RunsOf
    <3> QED
      BY <3>3, <3>5
  <2> QED
    BY <2>2, <2>3
<1>14. ASSUME NEW c \in Batchers, BatcherFails(c)
       PROVE  Fit
  <2>1. dispatched' = dispatched /\ batch' = [batch EXCEPT ![c] = NoBatch]
    BY <1>14 DEF BatcherFails
  <2> QED
    BY <1>6, <1>12, <2>1
<1> QED
  BY <1>7, <1>10, <1>11, <1>13, <1>14, WhoChangesBatch DEF BatcherStep

-----------------------------------------------------------------------------
(* Runs are created for what upstream publishes. *)

(* A timestamp that appears after a later one is noted.                    *)
LEMMA PublishedLate ==
  ASSUME [Next]_vars, NEW ts \in available', ts \notin available,
         NEW later \in available, later > ts
  PROVE  ts \in overtaken'
<1>1. ~ UNCHANGED available
  OBVIOUS
<1>2. PICK new \in Ts : Publish(new)
  BY <1>1 DEF Next, vars, InvokeManually, Poller, Poll, Backfill, ListUpstream, CreateRun,
     CreateRunFails, TriggerInference, TriggerInferenceFails, StopPoll, RunPod, StartJob,
     WriteForecast, JobFails, BatcherStep, Receive, MarkComplete, SendBatch, BatcherFails,
     Reconciler, ListStaleRuns, GiveUp, Resubmit, ResubmitFails,
     IncrementRetryAndUpdateExternalID, ReconcileRunFails
<1> QED
  BY <1>2 DEF Publish

(* What has a row, was lost or came late stays so.                         *)
LEMMA CoveredStays ==
  ASSUME Typed, [Next]_vars, NEW ts, Covered(ts)
  PROVE  Covered(ts)'
  BY OnlyGrow, RunsOfGrow DEF Covered

(* What was passed over has a row, or is noted when it appears.            *)
LEMMA PassedStays ==
  ASSUME Typed, [Next]_vars, NEW ts, Passed(ts)
  PROVE  Passed(ts)'
<1>1. CASE Covered(ts)
  BY <1>1, CoveredStays DEF Passed
<1>2. CASE ts \notin available /\ \E later \in available : later > ts
  <2>1. \E later \in available' : later > ts
    BY <1>2, OnlyGrow
  <2>2. ts \in available' => ts \in overtaken'
    BY <1>2, PublishedLate
  <2> QED
    BY <2>1, <2>2 DEF Passed, Covered
<1> QED
  BY <1>1, <1>2 DEF Passed

(* Latest is the newest row, or 0.                                         *)
LEMMA LatestIsLatest ==
  ASSUME Typed
  PROVE  /\ Latest \in Nat /\ (Latest = 0 \/ \E i \in DOMAIN runs : Latest = runs[i].ts)
         /\ \A i \in DOMAIN runs : runs[i].ts <= Latest
<1>1. \A i \in DOMAIN runs : runs[i].ts \in Ts
  BY Elements DEF RunRows
<1>2. {0} \cup RunTimestamps \subseteq 0..MaxTs
  BY <1>1, ForecastAssumption DEF RunTimestamps, Ts
<1>3. /\ Latest \in {0} \cup RunTimestamps
      /\ \A y \in {0} \cup RunTimestamps : y <= Latest
  BY <1>2, MaxIsGreatest, ForecastAssumption DEF Latest
<1> QED
  BY <1>2, <1>3 DEF RunTimestamps

(* A row is created when all that is listed before it is covered.          *)
LEMMA BehindStays ==
  ASSUME Typed, Creation, [Next]_vars
  PROVE  Behind'
<1> SUFFICES ASSUME NEW i \in DOMAIN runs', NEW ts \in available', ts < runs'[i].ts
             PROVE  Covered(ts)'
  BY DEF Behind
<1>1. CASE i \in DOMAIN runs
  <2>1. runs'[i].ts = runs[i].ts /\ runs[i].ts \in available
    BY <1>1, RowsStep DEF RowsKept, Typed, RowsAreAvailable
  <2>2. CASE ts \in available
    BY <1>1, <2>1, <2>2, CoveredStays DEF Creation, Behind
  <2>3. CASE ts \notin available
    <3>1. ts \in Ts /\ runs[i].ts \in Ts
      BY <1>1, SetsStay, Elements DEF SetsTyped, RunRows
    <3>2. runs[i].ts > ts
      BY <2>1, <3>1, ForecastAssumption DEF Ts
    <3> QED
      BY <2>1, <2>3, <3>2, PublishedLate DEF Covered
  <2> QED
    BY <2>2, <2>3
<1>2. CASE i \notin DOMAIN runs
  <2>1. PICK p \in Pollers : CreateRun(p) /\ runs'[i] = NewRow(NextTs(p))
    BY <1>2, AddedRow
  <2>2. poll[p].pc = "create" /\ available' = available
    BY <2>1 DEF CreateRun
  <2>3. /\ NextTs(p) \in poll[p].todo /\ NextTs(p) \in Ts
        /\ \A t \in poll[p].todo : NextTs(p) <= t
    BY <2>2, NextTsIsLeast
  <2>4. ts < NextTs(p) /\ ts \in Ts
    BY <2>1, SetsStay DEF NewRow, SetsTyped
  <2>5. ts \notin poll[p].todo
    BY <2>3, <2>4, ForecastAssumption DEF Ts
  <2>6. Covered(ts)
    BY <2>2, <2>3, <2>4, <2>5 DEF Creation, LooksFrom
  <2> QED
    BY <2>6, CoveredStays
<1> QED
  BY <1>1, <1>2

(* A poller that does not move still has the rest before it covered.       *)
LEMMA LooksOn ==
  ASSUME Typed, Creation, [Next]_vars, NEW q \in Pollers, poll'[q] = poll[q]
  PROVE  LooksFrom(q)'
<1>1. poll[q].pc = "list" => \A ts \in 1..poll[q].since : Passed(ts)'
  BY PassedStays DEF Creation, LooksFrom
<1>2. ASSUME poll[q].pc \in {"create", "trigger"}, NEW t \in poll[q].todo, NEW ts \in available', ts < t
      PROVE  ts \in poll[q].todo \/ Covered(ts)'
  <2>1. CASE ts \in available
    BY <1>2, <2>1, CoveredStays DEF Creation, LooksFrom
  <2>2. CASE ts \notin available
    <3>1. t \in available /\ t \in Ts /\ ts \in Ts
      BY <1>2, SetsStay DEF SetsTyped, Typed, TypeOK, PollFits
    <3>2. t > ts
      BY <1>2, <3>1, ForecastAssumption DEF Ts
    <3> QED
      BY <2>2, <3>1, <3>2, PublishedLate DEF Covered
  <2> QED
    BY <2>1, <2>2
<1> QED
  BY <1>1, <1>2 DEF LooksFrom, Passed, Covered, RunsOf

(* A poller starts after its newest row, and creates in ascending order.   *)
LEMMA LooksStep ==
  ASSUME Typed, Creation, [Next]_vars, NEW q \in Pollers
  PROVE  LooksFrom(q)'
<1>1. poll \in [Pollers -> PollRows]
  BY DEF Typed, TypeOK, PollRows
<1> SUFFICES ASSUME NEW p \in Pollers, Poller(p), NEW row, poll' = [poll EXCEPT ![p] = row],
                    poll'[q] # poll[q]
             PROVE  LooksFrom(q)'
  BY LooksOn, HowPollChanges
<1>2. p = q /\ \A new : [poll EXCEPT ![p] = new][p] = new
  BY <1>1
<1>3. CASE poll'[p].pc = "idle"
  BY <1>2, <1>3 DEF LooksFrom
<1>4. ASSUME NEW since \in Nat, poll' = [poll EXCEPT ![p] = Listing(since)],
             \A ts \in 1..since : Passed(ts)'
      PROVE  LooksFrom(q)'
  <2>1. poll'[p].pc = "list" /\ poll'[p].since = since
    BY <1>2, <1>4, PollStates
  <2> QED
    BY <1>2, <1>4, <2>1 DEF LooksFrom
<1>5. CASE Poll(p)
  <2>1. ASSUME NEW ts \in 1..Latest
        PROVE  Passed(ts)
    <3>1. PICK i \in DOMAIN runs : Latest = runs[i].ts
      BY <2>1, LatestIsLatest
    <3>2. CASE ts = Latest
      BY <3>1, <3>2 DEF RunsOf, Passed, Covered
    <3>3. CASE ts # Latest
      <4>1. ts < Latest /\ Latest > ts /\ Latest \in available
        BY <2>1, <3>1, <3>3, LatestIsLatest DEF Typed, RowsAreAvailable
      <4> QED
        BY <3>1, <4>1 DEF Creation, Behind, Passed
    <3> QED
      BY <3>2, <3>3
  <2>2. PICK since \in Nat : since = Latest
    BY LatestIsLatest
  <2>3. poll' = [poll EXCEPT ![p] = Listing(since)]
    BY <1>5, <2>2, PollerMoves
  <2>4. \A ts \in 1..since : Passed(ts)'
    BY <2>1, <2>2, PassedStays
  <2> QED
    BY <1>4, <2>3, <2>4
<1>6. ASSUME NEW since \in 0..MaxTs, Backfill(p, since)
      PROVE  LooksFrom(q)'
  <2>1. poll' = [poll EXCEPT ![p] = Listing(since)]
    BY <1>6, PollerMoves
  <2>2. \A ts \in 1..since : ts \in lost' \/ RunsOf(ts) # {}
    BY <1>6 DEF Backfill, RunTimestamps, RunsOf
  <2>3. \A ts \in 1..since : Passed(ts)'
    BY <2>2, RunsOfGrow DEF Passed, Covered
  <2>4. since \in Nat
    BY ForecastAssumption
  <2> QED
    BY <1>4, <2>1, <2>3, <2>4
(* What a poller has still to create. *)
<1>7. ASSUME available' = available, poll'[p].pc # "list",
             \A t \in poll'[p].todo : \A ts \in available :
               ts < t => ts \in poll'[p].todo \/ Covered(ts)'
      PROVE  LooksFrom(q)'
  BY <1>2, <1>7 DEF LooksFrom
<1>8. CASE ListUpstream(p)
  <2>1. /\ poll' = [poll EXCEPT ![p] = IF NewTs(p) = {} THEN NoPoll ELSE Creating(NewTs(p))]
        /\ poll[p].pc = "list"
    BY <1>8, PollerMoves
  <2>2. poll'[p] = NoPoll \/ poll'[p] = Creating(NewTs(p))
    BY <1>2, <2>1
  <2>3. CASE poll'[p] = NoPoll
    BY <1>3, <2>3, PollStates
  <2>4. CASE poll'[p] = Creating(NewTs(p))
    <3>1. poll'[p].pc = "create" /\ poll'[p].todo = NewTs(p) /\ available' = available
      BY <1>8, <2>4, PollStates DEF ListUpstream
    <3>2. ASSUME NEW ts \in available, ts \notin NewTs(p)
          PROVE  Covered(ts)'
      <4>1. ts \in Ts /\ poll[p].since \in 0..MaxTs
        BY <1>1 DEF Typed, TypeOK, PollRows
      <4>2. ts \in 1..poll[p].since
        BY <3>2, <4>1, ForecastAssumption DEF NewTs, Ts
      <4>3. Passed(ts)
        BY <2>1, <4>2 DEF Creation, LooksFrom
      <4> QED
        BY <4>3, CoveredStays DEF Passed
    <3> QED
      BY <1>7, <3>1, <3>2
  <2> QED
    BY <2>2, <2>3, <2>4
<1>9. CASE CreateRun(p)
  <2>1. /\ poll[p].pc = "create" /\ available' = available
        /\ poll' = [poll EXCEPT ![p] = [poll[p] EXCEPT !.pc = "trigger", !.run = Len(runs) + 1]]
    BY <1>9 DEF CreateRun, SetPoll
  <2>2. poll'[p].pc = "trigger" /\ poll'[p].todo = poll[p].todo
    BY <1>1, <2>1 DEF PollRows
  <2>3. \A t \in poll[p].todo : \A ts \in available : ts < t => ts \in poll[p].todo \/ Covered(ts)'
    BY <2>1, CoveredStays DEF Creation, LooksFrom
  <2> QED
    BY <1>7, <2>1, <2>2, <2>3
<1>10. CASE CreateRunFails(p) \/ TriggerInference(p) \/ TriggerInferenceFails(p)
  <2>1. /\ poll[p].pc \in {"create", "trigger"} /\ available' = available
        /\ poll' = [poll EXCEPT ![p] = AfterNext(p)]
    BY <1>10, PollerMoves DEF CreateRunFails, TriggerInference, TriggerInferenceFails
  <2>2. poll'[p] = AfterNext(p)
    BY <1>2, <2>1
  <2>3. poll'[p].pc \in {"idle", "create"} /\ poll'[p].todo = poll[p].todo \ {NextTs(p)}
    BY <2>1, <2>2, AfterNextTyped
  <2>4. PICK n \in Ts : n = NextTs(p)
    BY <2>1, NextTsIsLeast
  <2>5. Covered(n)'
    <3>1. CASE CreateRunFails(p)
      BY <2>4, <3>1 DEF CreateRunFails, Covered
    <3>2. CASE TriggerInference(p) \/ TriggerInferenceFails(p)
      <4>1. poll[p].pc = "trigger"
        BY <3>2 DEF TriggerInference, TriggerInferenceFails
      <4>2. Covered(n)
        BY <2>4, <4>1 DEF Typed, PollFits, Covered, RunsOf
      <4> QED
        BY <4>2, CoveredStays
    <3> QED
      BY <1>10, <3>1, <3>2
  <2>6. \A t \in poll[p].todo : \A ts \in available : ts < t => ts \in poll[p].todo \/ Covered(ts)'
    BY <2>1, CoveredStays DEF Creation, LooksFrom
  <2>7. \A t \in poll'[p].todo : \A ts \in available : ts < t => ts \in poll'[p].todo \/ Covered(ts)'
    BY <2>3, <2>4, <2>5, <2>6
  <2> QED
    BY <1>7, <2>1, <2>3, <2>7
<1>11. CASE StopPoll(p)
  <2>1. poll' = [poll EXCEPT ![p] = NoPoll]
    BY <1>11, PollerMoves
  <2> QED
    BY <1>2, <1>3, <2>1, PollStates
<1> QED
  BY <1>5, <1>6, <1>8, <1>9, <1>10, <1>11 DEF Poller

(* How many rows a timestamp has. *)
RunsFinite(ts) == IsFiniteSet(RunsOf(ts)) /\ Cardinality(RunsOf(ts)) \in Nat

(* Rows and pollers can be counted.                                        *)
LEMMA RunsAreFinite ==
  ASSUME Typed, NEW ts
  PROVE  RunsFinite(ts)
<1>1. RunsOf(ts) \subseteq 1..Len(runs) /\ Len(runs) \in Nat
  BY DEF Typed, TypeOK, RunsOf
<1>2. IsFiniteSet(1..Len(runs))
  BY <1>1, FS_Interval
<1>3. IsFiniteSet(RunsOf(ts))
  BY <1>1, <1>2, FS_Subset
<1> QED
  BY <1>3, FS_CardinalityType DEF RunsFinite

LEMMA RunsStayFinite ==
  ASSUME Typed, [Next]_vars, NEW ts
  PROVE  RunsFinite(ts)'
<1>1. RunsOf(ts)' \subseteq 1..Len(runs') /\ Len(runs') \in Nat
  BY RowsStep DEF RowsTyped, RunsOf
<1>2. IsFiniteSet(1..Len(runs'))
  BY <1>1, FS_Interval
<1>3. IsFiniteSet(RunsOf(ts)')
  BY <1>1, <1>2, FS_Subset
<1> QED
  BY <1>3, FS_CardinalityType DEF RunsFinite

LEMMA ClaimsAreFinite ==
  ASSUME NEW ts
  PROVE  /\ IsFiniteSet(Claims(ts)) /\ Cardinality(Claims(ts)) \in Nat
         /\ Cardinality(Claims(ts)) <= Cardinality(Pollers) /\ Cardinality(Pollers) \in Nat
         /\ IsFiniteSet(Claims(ts)') /\ Cardinality(Claims(ts)') \in Nat
         /\ Cardinality(Claims(ts)') <= Cardinality(Pollers)
<1>1. Claims(ts) \subseteq Pollers /\ Claims(ts)' \subseteq Pollers
  BY DEF Claims
<1> QED
  BY <1>1, FS_Subset, FS_CardinalityType, ForecastAssumption

(* A poller that looks for a timestamp, among the others.                  *)
LEMMA ClaimsStep ==
  ASSUME Typed, Creation, [Next]_vars, NEW ts \in Ts
  PROVE  ClaimsFit(ts)'
<1>1. /\ poll \in [Pollers -> PollRows] /\ runs \in Seq(RunRows)
      /\ backfills \in Nat /\ backfills' \in Nat /\ backfills <= backfills'
  <2>1. poll \in [Pollers -> PollRows] /\ runs \in Seq(RunRows)
    BY DEF Typed, TypeOK, PollRows
  <2>2. backfills \in Nat /\ backfills' \in Nat
    BY CountsStay, ForecastAssumption DEF Typed, TypeOK, CountsTyped
  <2> QED
    BY <2>1, <2>2, OnlyGrow
<1>2. Cardinality(RunsOf(ts)) + Cardinality(Claims(ts)) <= Cardinality(Pollers) + backfills
  BY DEF Creation, ClaimsFit
<1>3. RunsFinite(ts) /\ RunsFinite(ts)'
  BY RunsAreFinite, RunsStayFinite
<1> DEFINE Fit == Cardinality(RunsOf(ts)') + Cardinality(Claims(ts)') <= Cardinality(Pollers) + backfills'
<1>4. ASSUME RunsOf(ts)' = RunsOf(ts), Claims(ts)' \subseteq Claims(ts)
      PROVE  Fit
  <2>1. Cardinality(Claims(ts)') <= Cardinality(Claims(ts))
    BY <1>4, ClaimsAreFinite, FS_Subset
  <2> QED
    BY <1>1, <1>2, <1>3, <1>4, <2>1, ClaimsAreFinite DEF RunsFinite
<1>5. ASSUME \A p \in Pollers : ~CreateRun(p)
      PROVE  RunsOf(ts)' = RunsOf(ts)
  <2>1. \A i \in DOMAIN runs' : i \in DOMAIN runs
    BY <1>5, AddedRow
  <2> QED
    BY <2>1, RunsOfGrow DEF RunsOf
<1>6. CASE poll' = poll
  <2>1. \A p \in Pollers : NextTs(p)' = NextTs(p)
    BY <1>6 DEF NextTs
  <2>2. Claims(ts)' = Claims(ts)
    BY <1>6, <2>1 DEF Claims
  <2>3. \A p \in Pollers : ~CreateRun(p)
    <3> SUFFICES ASSUME NEW p \in Pollers, CreateRun(p)
                 PROVE  FALSE
      OBVIOUS
    <3>1. /\ poll[p].pc = "create"
          /\ poll' = [poll EXCEPT ![p] = [poll[p] EXCEPT !.pc = "trigger", !.run = Len(runs) + 1]]
      BY DEF CreateRun, SetPoll
    <3> QED
      BY <1>1, <1>6, <3>1 DEF PollRows
  <2> QED
    BY <1>4, <1>5, <2>2, <2>3 DEF ClaimsFit
<1> SUFFICES ASSUME NEW p \in Pollers, Poller(p), NEW row, poll' = [poll EXCEPT ![p] = row]
             PROVE  Fit
  BY <1>6, HowPollChanges DEF ClaimsFit
<1>7. /\ \A new : [poll EXCEPT ![p] = new][p] = new
      /\ \A q \in Pollers : q # p => poll'[q] = poll[q]
  BY <1>1
<1>8. \A q \in Pollers : q # p => (q \in Claims(ts)' <=> q \in Claims(ts))
  <2> SUFFICES ASSUME NEW q \in Pollers, q # p
               PROVE  q \in Claims(ts)' <=> q \in Claims(ts)
    OBVIOUS
  <2>1. NextTs(q)' = NextTs(q) /\ poll'[q] = poll[q]
    BY <1>7 DEF NextTs
  <2> QED
    BY <2>1 DEF Claims
<1>9. Claims(ts)' \subseteq Pollers /\ Claims(ts) \subseteq Pollers
  BY DEF Claims
<1>10. ASSUME RunsOf(ts)' = RunsOf(ts), p \in Claims(ts)' => p \in Claims(ts)
       PROVE  Fit
  BY <1>4, <1>8, <1>9, <1>10
<1>11. CASE Poll(p)
  <2>1. RunsOf(ts)' = RunsOf(ts)
    BY <1>11 DEF Poll, RunsOf
  <2>2. poll' = [poll EXCEPT ![p] = Listing(Latest)]
    BY <1>11, PollerMoves
  <2>3. poll'[p].pc = "list" /\ poll'[p].since = Latest
    BY <1>7, <2>2, PollStates
  <2>4. CASE Latest < ts
    <3>1. RunsOf(ts) = {}
      BY <2>4, LatestIsLatest DEF RunsOf, Ts
    <3>2. Cardinality(RunsOf(ts)') = 0
      BY <2>1, <3>1, FS_EmptySet
    <3> QED
      BY <1>1, <3>2, ClaimsAreFinite
  <2>5. CASE ~(Latest < ts)
    <3>1. p \notin Claims(ts)'
      BY <2>3, <2>5 DEF Claims
    <3> QED
      BY <1>10, <2>1, <3>1
  <2> QED
    BY <2>4, <2>5
<1>12. ASSUME NEW since \in 0..MaxTs, Backfill(p, since)
       PROVE  Fit
  <2>1. RunsOf(ts)' = RunsOf(ts) /\ backfills' = backfills + 1
    BY <1>12 DEF Backfill, RunsOf
  <2>2. Claims(ts)' \subseteq Claims(ts) \cup {p}
    BY <1>8, <1>9
  <2>3. Cardinality(Claims(ts)') <= Cardinality(Claims(ts)) + 1
    <3>1. /\ IsFiniteSet(Claims(ts) \cup {p})
          /\ Cardinality(Claims(ts) \cup {p}) =
               IF p \in Claims(ts) THEN Cardinality(Claims(ts)) ELSE Cardinality(Claims(ts)) + 1
      BY ClaimsAreFinite, FS_AddElement
    <3>2. Cardinality(Claims(ts)') <= Cardinality(Claims(ts) \cup {p})
      BY <2>2, <3>1, FS_Subset
    <3> QED
      BY <3>1, <3>2, ClaimsAreFinite
  <2> QED
    BY <1>1, <1>2, <1>3, <2>1, <2>3, ClaimsAreFinite DEF RunsFinite
<1>13. CASE ListUpstream(p)
  <2>1. /\ poll' = [poll EXCEPT ![p] = IF NewTs(p) = {} THEN NoPoll ELSE Creating(NewTs(p))]
        /\ poll[p].pc = "list" /\ RunsOf(ts)' = RunsOf(ts)
    BY <1>13, PollerMoves DEF ListUpstream, RunsOf
  <2>2. poll'[p] = NoPoll \/ poll'[p] = Creating(NewTs(p))
    BY <1>7, <2>1
  <2>3. p \in Claims(ts)' => ts \in NewTs(p)
    BY <2>2, PollStates DEF Claims
  <2>4. ts \in NewTs(p) => p \in Claims(ts)
    <3>1. poll[p].since \in 0..MaxTs
      BY <1>1 DEF PollRows
    <3> QED
      BY <2>1, <3>1, ForecastAssumption DEF NewTs, Claims, Ts
  <2> QED
    BY <1>10, <2>1, <2>3, <2>4
<1>14. CASE CreateRun(p)
  <2>1. /\ poll[p].pc = "create" /\ runs' = Append(runs, NewRow(NextTs(p)))
        /\ poll' = [poll EXCEPT ![p] = [poll[p] EXCEPT !.pc = "trigger", !.run = Len(runs) + 1]]
    BY <1>14 DEF CreateRun, SetPoll, NewRow
  <2>2. poll'[p].pc = "trigger" /\ poll'[p].todo = poll[p].todo
    BY <1>1, <2>1 DEF PollRows
  <2>3. NextTs(p)' = NextTs(p) /\ NextTs(p) \in poll[p].todo /\ NewRow(NextTs(p)) \in RunRows
    BY <2>1, <2>2, NextTsIsLeast DEF NextTs, NewRow, RunRows, RunStatuses
  <2>4. /\ DOMAIN runs' = DOMAIN runs \cup {Len(runs) + 1} /\ Len(runs) + 1 \notin DOMAIN runs
        /\ runs'[Len(runs) + 1].ts = NextTs(p) /\ \A i \in DOMAIN runs : runs'[i] = runs[i]
    BY <1>1, <2>1, <2>3, Appended DEF NewRow
  <2>5. CASE ts # NextTs(p)
    <3>1. RunsOf(ts)' = RunsOf(ts)
      BY <2>4, <2>5 DEF RunsOf
    <3>2. p \in Claims(ts)' => p \in Claims(ts)
      BY <2>1, <2>2 DEF Claims
    <3> QED
      BY <1>10, <3>1, <3>2
  <2>6. CASE ts = NextTs(p)
    <3>1. RunsOf(ts)' = RunsOf(ts) \cup {Len(runs) + 1} /\ Len(runs) + 1 \notin RunsOf(ts)
      BY <2>4, <2>6 DEF RunsOf
    <3>2. Cardinality(RunsOf(ts)') = Cardinality(RunsOf(ts)) + 1
      BY <1>3, <3>1, FS_AddElement DEF RunsFinite
    <3>3. p \in Claims(ts) /\ p \notin Claims(ts)'
      BY <2>1, <2>2, <2>3, <2>6 DEF Claims
    <3>4. Claims(ts)' = Claims(ts) \ {p}
      BY <1>8, <1>9, <3>3
    <3>5. Cardinality(Claims(ts)') = Cardinality(Claims(ts)) - 1
      BY <3>3, <3>4, ClaimsAreFinite, FS_RemoveElement
    <3>6. /\ Cardinality(RunsOf(ts)) \in Nat /\ Cardinality(Claims(ts)) \in Nat
          /\ Cardinality(Pollers) \in Nat
      BY <1>3, ClaimsAreFinite DEF RunsFinite
    <3> QED
      BY <1>1, <1>2, <3>2, <3>5, <3>6
  <2> QED
    BY <2>5, <2>6
<1>15. CASE CreateRunFails(p) \/ TriggerInference(p) \/ TriggerInferenceFails(p)
  <2>1. /\ poll[p].pc \in {"create", "trigger"}
        /\ poll' = [poll EXCEPT ![p] = AfterNext(p)]
    BY <1>15, PollerMoves
  <2>2. poll'[p] = AfterNext(p)
    BY <1>7, <2>1
  <2>3. poll'[p].pc \in {"idle", "create"} /\ poll'[p].todo = poll[p].todo \ {NextTs(p)}
    BY <2>1, <2>2, AfterNextTyped
  <2>4. p \in Claims(ts)' => p \in Claims(ts)
    BY <2>1, <2>3 DEF Claims
  <2>5. \A q \in Pollers : ~CreateRun(q)
    <3> SUFFICES ASSUME NEW q \in Pollers, CreateRun(q)
                 PROVE  FALSE
      OBVIOUS
    <3>1. /\ poll[q].pc = "create"
          /\ poll' = [poll EXCEPT ![q] = [poll[q] EXCEPT !.pc = "trigger", !.run = Len(runs) + 1]]
      BY DEF CreateRun, SetPoll
    <3>2. poll'[q].pc = "trigger"
      BY <1>1, <3>1 DEF PollRows
    <3> QED
      BY <1>7, <2>3, <3>1, <3>2
  <2> QED
    BY <1>5, <1>10, <2>4, <2>5
<1>16. CASE StopPoll(p)
  <2>1. poll' = [poll EXCEPT ![p] = NoPoll] /\ RunsOf(ts)' = RunsOf(ts)
    BY <1>16, PollerMoves DEF StopPoll, RunsOf
  <2>2. p \notin Claims(ts)'
    BY <1>7, <2>1, PollStates DEF Claims
  <2> QED
    BY <1>10, <2>1, <2>2
<1> QED
  BY <1>11, <1>12, <1>13, <1>14, <1>15, <1>16 DEF Poller

-----------------------------------------------------------------------------
(* The invariant holds. *)

(* The invariant holds at first.                                           *)
LEMMA InitIInv ==
  ASSUME Init
  PROVE  IInv
<1>2. TypeOK
  <2>1. /\ NoPoll \in PollRows /\ NoReconciliation \in RecRows /\ SetsTyped /\ CountsTyped
        /\ JobsTyped /\ RowsTyped /\ pending \subseteq Invocations
    BY ForecastAssumption
       DEF Init, NoPoll, PollRows, NoReconciliation, RecRows, SetsTyped, CountsTyped, JobsTyped, RowsTyped
  <2>2. poll \in [Pollers -> PollRows] /\ \A b \in Batchers : BatchTyped(b)
    BY <2>1 DEF Init, BatchTyped
  <2> QED
    BY <2>1, <2>2, TypesOfParts DEF Init
<1>3. Typed
  BY <1>2, PollStates, RecStates
     DEF Init, Typed, RowsAreAvailable, PollFits, RecFits, BatchesAreRows
<1>4. /\ \A p \in Pollers : poll[p].pc = "idle"
      /\ \A b \in Batchers : batch[b].pc = "idle"
      /\ runs = <<>> /\ dispatched = [ts \in Ts |-> 0] /\ backfills = 0 /\ pending = {}
  BY PollStates DEF Init, NoBatch
<1>5. /\ \A ts : Busy(ts) = {} /\ Claims(ts) = {} /\ RunsOf(ts) = {}
      /\ Cardinality({}) = 0 /\ Cardinality(Pollers) \in Nat /\ Cardinality(Batchers) \in Nat
  BY <1>4, FS_EmptySet, FS_CardinalityType, ForecastAssumption DEF Busy, Claims, RunsOf
<1>6. RetriesBounded /\ FailedIsGivenUp /\ Behind
  BY <1>4 DEF RetriesBounded, FailedIsGivenUp, Behind
<1>11. \A ts \in Ts : dispatched[ts] = 0
  BY <1>4
<1>7. CallsFit /\ DispatchedIsWritten
  BY <1>4, <1>11 DEF CallsFit, BatchFits, DispatchedIsWritten
<1>8. \A ts \in Ts : DispatchFits(ts)
  BY <1>5, <1>11 DEF DispatchFits
<1>9. \A ts \in Ts : ClaimsFit(ts)
  <2> SUFFICES ASSUME NEW ts \in Ts
               PROVE  ClaimsFit(ts)
    OBVIOUS
  <2>1. Cardinality(RunsOf(ts)) = 0 /\ Cardinality(Claims(ts)) = 0
    BY <1>5
  <2> QED
    BY <1>4, <1>5, <2>1 DEF ClaimsFit
<1>10. \A p \in Pollers : LooksFrom(p)
  BY <1>4 DEF LooksFrom
<1> QED
  BY <1>3, <1>6, <1>7, <1>8, <1>9, <1>10 DEF IInv, Work, Creation

(* Every step keeps it.                                                    *)
LEMMA NextIInv ==
  ASSUME IInv, [Next]_vars
  PROVE  IInv'
<1>1. Typed' /\ RetriesBounded'
  BY TypedStep, RetriesStayBounded DEF IInv
<1>2. Work'
  BY CallsStayFit, DispatchedStaysWritten, FailedStaysGivenUp, DispatchStaysFit DEF IInv, Work
<1>3. Creation'
  BY ClaimsStep, LooksStep, BehindStays DEF IInv, Creation
<1> QED
  BY <1>1, <1>2, <1>3 DEF IInv

(* So it always holds.                                                     *)
LEMMA InvariantHolds == Spec => []IInv
<1>1. Init => IInv
  BY InitIInv
<1>2. IInv /\ [Next]_vars => IInv'
  BY NextIInv
<1> QED
  BY <1>1, <1>2, PTL DEF Spec

(* A timestamp that was dispatched more often than there are Batchers has  *)
(* several runs, or one that was given up.                                 *)
LEMMA DispatchesAreBounded ==
  ASSUME IInv
  PROVE  DispatchesBounded
<1> SUFFICES ASSUME NEW ts \in Ts, dispatched[ts] > Cardinality(Batchers), ts \notin givenUp
             PROVE  Cardinality(RunsOf(ts)) > 1
  BY DEF DispatchesBounded
<1>1. dispatched[ts] \in Nat /\ RunsFinite(ts)
  BY RunsAreFinite DEF IInv, Typed, TypeOK
<1>2. ~AtMostOneRun(ts)
  BY <1>1, BusyIsFinite DEF IInv, Work, DispatchFits
<1>3. PICK i \in RunsOf(ts), j \in RunsOf(ts) : i # j
  BY <1>2 DEF AtMostOneRun
<1>4. Cardinality({i, j}) = 2 /\ {i, j} \subseteq RunsOf(ts)
  <2>1. IsFiniteSet({i}) /\ Cardinality({i}) = 1
    BY FS_Singleton
  <2>2. Cardinality({i} \cup {j}) = 2
    <3>1. j \notin {i}
      BY <1>3
    <3>2. Cardinality({i} \cup {j}) = Cardinality({i}) + 1
      BY <2>1, <3>1, FS_AddElement
    <3> QED
      BY <2>1, <3>2
  <2>3. {i} \cup {j} = {i, j}
    OBVIOUS
  <2> QED
    BY <2>2, <2>3
<1>5. Cardinality({i, j}) <= Cardinality(RunsOf(ts))
  BY <1>1, <1>4, FS_Subset DEF RunsFinite
<1> QED
  BY <1>1, <1>4, <1>5 DEF RunsFinite

(* The invariant implies the bound on rows and that nothing is skipped.    *)
LEMMA RowsAreCreated ==
  ASSUME IInv
  PROVE  RunsAreCreated
<1>1. Typed /\ Creation
  BY DEF IInv
<1>2. RunsPerTimestamp
  <2> SUFFICES ASSUME NEW ts \in Ts
               PROVE  Cardinality(RunsOf(ts)) <= Cardinality(Pollers) + backfills
    BY DEF RunsPerTimestamp
  <2>1. backfills \in Nat
    BY <1>1, ForecastAssumption DEF Typed, TypeOK
  <2> QED
    BY <1>1, <2>1, RunsAreFinite, ClaimsAreFinite DEF Creation, ClaimsFit, RunsFinite
<1>3. NothingSkipped
  <2> SUFFICES ASSUME NEW ts \in available, ts < Latest
               PROVE  RunsOf(ts) # {} \/ ts \in lost \cup overtaken
    BY DEF NothingSkipped
  <2>1. ts \in Ts /\ Latest # 0
    BY <1>1, ForecastAssumption DEF Typed, TypeOK, Ts
  <2>2. PICK i \in DOMAIN runs : Latest = runs[i].ts
    BY <1>1, <2>1, LatestIsLatest
  <2> QED
    BY <1>1, <2>2 DEF Creation, Behind, Covered
<1> QED
  BY <1>2, <1>3 DEF RunsAreCreated

(* For any number of pollers, Batchers and timestamps: only what was       *)
(* computed is dispatched, no more often than its Batchers, rows and       *)
(* failures allow, and resubmissions end.                                  *)
THEOREM WorkIsAlwaysBounded == Spec => []WorkIsBounded
<1>1. IInv => WorkIsBounded
  BY DispatchesAreBounded DEF IInv, Typed, Work, WorkIsBounded
<1> QED
  BY <1>1, InvariantHolds, PTL

(* For any number of pollers: a timestamp gets no more rows than pollers   *)
(* and backfills, and none before a row is passed over but for a reason.   *)
THEOREM RunsAreAlwaysCreated == Spec => []RunsAreCreated
<1>1. IInv => RunsAreCreated
  BY RowsAreCreated
<1> QED
  BY <1>1, InvariantHolds, PTL
-----------------------------------------------------------------------------
(* The forecast API.                                                        *)

(* A set of numbers has a least one.                                        *)
LEMMA LeastNumber ==
  ASSUME NEW T \in SUBSET Nat, T # {}
  PROVE  \E x \in T : \A y \in T : x <= y
<1> DEFINE R == OpToRel(<, Nat)
<1>1. IsWellFoundedOn(R, Nat)
  BY NatLessThanWellFounded
<1> HIDE DEF R
<1>2. PICK x \in T : \A y \in T : ~(<<y, x>> \in R)
  BY <1>1, WFMin
<1>3. \A y \in T : ~(y < x)
  BY <1>2 DEF R, OpToRel
<1> QED
  BY <1>3

(* The members of a finite set of numbers that lie below one of them.       *)
Below(S, v) == {u \in S : u < v}

LEMMA RankType ==
  ASSUME NEW S \in SUBSET Nat, IsFiniteSet(S), NEW v \in S
  PROVE  /\ IsFiniteSet(Below(S, v))
         /\ Cardinality(Below(S, v)) \in 0 .. Cardinality(S) - 1
<1>1. Below(S, v) \in SUBSET (S \ {v})
  BY DEF Below
<1>2. IsFiniteSet(S \ {v}) /\ Cardinality(S \ {v}) = Cardinality(S) - 1
  BY FS_RemoveElement
<1>3. IsFiniteSet(Below(S, v)) /\ Cardinality(Below(S, v)) <= Cardinality(S \ {v})
  BY <1>1, <1>2, FS_Subset
<1>4. Cardinality(Below(S, v)) \in Nat /\ Cardinality(S) \in Nat
  BY <1>3, FS_CardinalityType
<1> QED
  BY <1>2, <1>3, <1>4

LEMMA RankGrows ==
  ASSUME NEW S \in SUBSET Nat, IsFiniteSet(S), NEW v \in S, NEW w \in S, v < w
  PROVE  Cardinality(Below(S, v)) < Cardinality(Below(S, w))
<1> v \in Nat /\ w \in Nat
  OBVIOUS
<1>6. \A u \in S : u < v => u < w
  OBVIOUS
<1>1. Below(S, v) \cup {v} \in SUBSET Below(S, w)
  BY <1>6 DEF Below
<1>2. v \notin Below(S, v)
  BY DEF Below
<1>3. Cardinality(Below(S, v) \cup {v}) = Cardinality(Below(S, v)) + 1
  BY <1>2, RankType, FS_AddElement
<1>4. Cardinality(Below(S, v) \cup {v}) <= Cardinality(Below(S, w))
  BY <1>1, RankType, FS_Subset
<1>5. Cardinality(Below(S, v)) \in Nat /\ Cardinality(Below(S, w)) \in Nat
  BY RankType, FS_CardinalityType
<1> QED
  BY <1>3, <1>4, <1>5

(* Nth counts a finite set of numbers through, each member once, upwards.   *)
LEMMA NthCounts ==
  ASSUME NEW S \in SUBSET Nat, IsFiniteSet(S)
  PROVE  /\ Cardinality(S) \in Nat
         /\ \A k \in 1 .. Cardinality(S) : Nth(S, k) \in S
         /\ \A v \in S : \E k \in 1 .. Cardinality(S) : Nth(S, k) = v
         /\ \A k, l \in 1 .. Cardinality(S) : k < l => Nth(S, k) < Nth(S, l)
<1> DEFINE n == Cardinality(S)
           R(v) == Cardinality(Below(S, v))
<1>1. n \in Nat
  BY FS_CardinalityType
<1>2. \A v \in S : R(v) \in 0 .. n - 1
  BY RankType
<1>3. \A v, w \in S : v < w => R(v) < R(w)
  BY RankGrows
<1>4. \A v, w \in S : R(v) = R(w) => v = w
  <2> HIDE DEF R
  <2> SUFFICES ASSUME NEW v \in S, NEW w \in S, R(v) = R(w) PROVE v = w
    OBVIOUS
  <2>1. v \in Nat /\ w \in Nat /\ R(v) \in Int /\ R(w) \in Int
    BY <1>1, <1>2
  <2>2. ~(v < w) /\ ~(w < v)
    BY <1>3, <2>1
  <2> QED
    BY <2>1, <2>2
<1>5. \A k \in 1 .. n : \E v \in S : R(v) = k - 1
  <2> DEFINE f == [v \in S |-> R(v) + 1]
  <2> HIDE DEF R, n
  <2>1. f \in [S -> 1 .. n]
    BY <1>1, <1>2
  <2>2. \A v, w \in S : f[v] = f[w] => v = w
    <3> SUFFICES ASSUME NEW v \in S, NEW w \in S, f[v] = f[w] PROVE v = w
      OBVIOUS
    <3>1. R(v) \in Int /\ R(w) \in Int
      BY <1>1, <1>2
    <3> QED
      BY <1>4, <3>1
  <2>3. f \in Injection(S, 1 .. n)
    BY <2>1, <2>2 DEF Injection, IsInjective
  <2>4. IsFiniteSet(1 .. n) /\ Cardinality(1 .. n) = n
    BY <1>1, FS_Interval
  <2>5. f \in Surjection(S, 1 .. n)
    BY <2>3, <2>4, FS_Injection DEF n
  <2>6. \A k \in 1 .. n : \E v \in S : f[v] = k
    BY <2>5 DEF Surjection
  <2> SUFFICES ASSUME NEW k \in 1 .. n PROVE \E v \in S : R(v) = k - 1
    OBVIOUS
  <2>7. PICK v \in S : f[v] = k
    BY <2>6
  <2>8. R(v) + 1 = k /\ R(v) \in Int
    BY <1>1, <1>2, <2>7
  <2> QED
    BY <2>8
<1>6. \A k : Nth(S, k) = CHOOSE v \in S : R(v) = k - 1
  BY DEF Nth, Below
<1> HIDE DEF R, n
<1>7. \A k \in 1 .. n : Nth(S, k) \in S /\ R(Nth(S, k)) = k - 1
  BY <1>5, <1>6
<1>8. ASSUME NEW v \in S PROVE \E k \in 1 .. n : Nth(S, k) = v
  <2>1. R(v) + 1 \in 1 .. n /\ R(v) \in Int
    BY <1>1, <1>2
  <2>2. R(Nth(S, R(v) + 1)) = R(v) /\ Nth(S, R(v) + 1) \in S
    BY <1>7, <2>1
  <2> QED
    BY <1>4, <2>1, <2>2
<1>9. ASSUME NEW k \in 1 .. n, NEW l \in 1 .. n, k < l PROVE Nth(S, k) < Nth(S, l)
  <2> DEFINE v == Nth(S, k)
             w == Nth(S, l)
  <2>1. v \in S /\ w \in S /\ R(v) = k - 1 /\ R(w) = l - 1
    BY <1>7
  <2> HIDE DEF v, w
  <2>2. v \in Nat /\ w \in Nat /\ ~(w < v) /\ v # w
    BY <1>3, <1>9, <2>1
  <2>3. v < w
    BY <2>2
  <2> QED
    BY <2>3 DEF v, w
<1> QED
  BY <1>1, <1>7, <1>8, <1>9 DEF n

-----------------------------------------------------------------------------
(* Where a forecast is read.                                                *)

(* A padded chunk holds at each place the row or column of that place.      *)
LEMMA StoredIsIndex ==
  ASSUME NEW i \in Nat
  PROVE  Stored(i, ChunkLatSize) = i /\ Stored(i, ChunkLonSize) = i
BY DEF Stored, Written, Chunk, Halo, ChunkLatSize, ChunkLonSize

(* Between two points of an axis the mean is exact; past the last one it is *)
(* that point.                                                              *)
LEMMA AxisIsExact ==
  ASSUME NEW frac \in Nat, NEW count \in Nat, count > 0, NEW size \in {ChunkLatSize, ChunkLonSize}
  PROVE  /\ Around(frac, count).lower \in 0 .. count - 1
         /\ Around(frac, count).upper \in 0 .. count - 1
         /\ Around(frac, count).lower = AtMost(frac \div 4, count - 1)
         /\ Around(frac, count).upper \in {Around(frac, count).lower, Around(frac, count).lower + 1}
         /\ InterpolatedAxis(Around(frac, count), size) = AtMost(frac, 4 * (count - 1))
<1> DEFINE q == frac \div 4
           r == frac % 4
           lower == Clamp(q, count)
           upper == Clamp(lower + 1, count)
           part  == IF lower = upper THEN 0 ELSE r
<1>1. q \in Nat /\ r \in 0 .. 3 /\ frac = 4 * q + r
  OBVIOUS
<1>2. /\ Around(frac, count).lower = lower /\ Around(frac, count).upper = upper
      /\ Around(frac, count).part = part
  BY DEF Around, Cell
<1> HIDE DEF q, r
<1>3. /\ lower = AtMost(q, count - 1) /\ lower \in 0 .. count - 1
      /\ upper \in 0 .. count - 1 /\ upper \in {lower, lower + 1}
  BY <1>1 DEF Clamp, AtMost, AtLeast
<1>4. part \in 0 .. 3
  BY <1>1
<1>5. InterpolatedAxis(Around(frac, count), size) = lower * (4 - part) + upper * part
  <2> HIDE DEF lower, upper, part
  <2>1. Stored(lower, size) = lower /\ Stored(upper, size) = upper
    BY <1>3, StoredIsIndex
  <2> QED
    BY <1>2, <2>1 DEF InterpolatedAxis, Cell
<1>6. lower * (4 - part) + upper * part = 4 * lower + (upper - lower) * part
  <2> HIDE DEF lower, upper, part
  <2>1. lower \in Int /\ upper \in Int
    BY <1>3
  <2>2. CASE part = 0
    BY <2>1, <2>2
  <2>3. CASE part = 1
    BY <2>1, <2>3
  <2>4. CASE part = 2
    BY <2>1, <2>4
  <2>5. CASE part = 3
    BY <2>1, <2>5
  <2> QED
    BY <1>4, <2>2, <2>3, <2>4, <2>5
<1>7. 4 * lower + (upper - lower) * part = AtMost(frac, 4 * (count - 1))
  <2>1. CASE q < count - 1
    <3>1. lower = q /\ upper = q + 1 /\ part = r
      BY <1>1, <2>1 DEF Clamp, AtMost, AtLeast
    <3> HIDE DEF lower, upper, part
    <3>2. 4 * lower + (upper - lower) * part = frac
      BY <1>1, <3>1
    <3> QED
      BY <1>1, <2>1, <3>2 DEF AtMost
  <2>2. CASE q >= count - 1
    <3>1. lower = count - 1 /\ upper = count - 1 /\ part = 0
      BY <1>1, <2>2 DEF Clamp, AtMost, AtLeast
    <3> HIDE DEF lower, upper, part
    <3>2. 4 * lower + (upper - lower) * part = 4 * (count - 1)
      BY <3>1
    <3> QED
      BY <1>1, <2>2, <3>2 DEF AtMost
  <2> QED
    BY <1>1, <2>1, <2>2
<1> HIDE DEF lower, upper, part
<1> QED
  BY <1>2, <1>3, <1>5, <1>6, <1>7 DEF q

(* What is given as a range, as bounds.                                     *)
LEMMA Between ==
  ASSUME NEW a \in Int, NEW b \in Int, NEW x \in a .. b
  PROVE  x \in Int /\ a <= x /\ x <= b
OBVIOUS

LEMMA ValidBounds ==
  ASSUME NEW loc \in [lat : Int, lon : Int], ValidLocation(loc)
  PROVE  /\ loc.lat \in Int /\ -1440 <= loc.lat /\ loc.lat <= 1440
         /\ loc.lon \in Int /\ -2880 <= loc.lon /\ loc.lon <= 2880
<1>1. -90 * Degree = -1440 /\ 90 * Degree = 1440 /\ -180 * Degree = -2880 /\ 180 * Degree = 2880
  BY DEF Degree
<1>2. loc.lat \in -90 * Degree .. 90 * Degree /\ loc.lon \in -180 * Degree .. 180 * Degree
  BY DEF ValidLocation
<1> QED
  BY <1>1, <1>2, Between

LEMMA RowMean ==
  ASSUME NEW lat \in Int, -1440 <= lat, lat <= 1440
  PROVE  InterpolatedAxis(RowsAround(lat), ChunkLatSize) = 1440 - lat
<1>1. PICK frac \in 0 .. 2880 : frac = 1440 - lat /\ FracRow(lat) = frac
  BY DEF FracRow, Degree
<1>2. InterpolatedAxis(Around(frac, 721), ChunkLatSize) = AtMost(frac, 4 * (721 - 1))
  BY <1>1, AxisIsExact
<1>3. AtMost(frac, 4 * (721 - 1)) = frac
  BY <1>1 DEF AtMost
<1> QED
  BY <1>1, <1>2, <1>3 DEF RowsAround, GridLatCount

LEMMA ColumnMean ==
  ASSUME NEW lon \in Int, -2880 <= lon, lon <= 2880
  PROVE  InterpolatedAxis(ColsAround(lon), ChunkLonSize) = AtMost(lon + 2880, 5756)
<1>1. PICK frac \in 0 .. 5760 : frac = lon + 2880 /\ FracCol(lon) = frac
  BY DEF FracCol, Degree
<1>2. InterpolatedAxis(Around(frac, 1440), ChunkLonSize) = AtMost(frac, 4 * (1440 - 1))
  BY <1>1, AxisIsExact
<1>3. AtMost(frac, 4 * (1440 - 1)) = AtMost(frac, 5756)
  BY <1>1 DEF AtMost
<1> QED
  BY <1>1, <1>2, <1>3 DEF ColsAround, GridLonCount

(* Every valid place is answered with its own weather, or with that of the  *)
(* last column of the grid.                                                 *)
LEMMA PlacesAreAnswered ==
  ASSUME NEW loc \in [lat : Int, lon : Int], ValidLocation(loc)
  PROVE  Place(loc) = AnsweredPlace(loc)
<1>1. /\ loc.lat \in Int /\ -1440 <= loc.lat /\ loc.lat <= 1440
      /\ loc.lon \in Int /\ -2880 <= loc.lon /\ loc.lon <= 2880
  BY ValidBounds
<1> DEFINE lat == loc.lat
           lon == loc.lon
<1> HIDE DEF lat, lon
<1>2. /\ loc.lat = lat /\ loc.lon = lon
      /\ lat \in Int /\ -1440 <= lat /\ lat <= 1440 /\ lon \in Int /\ -2880 <= lon /\ lon <= 2880
  BY <1>1 DEF lat, lon
<1>3. /\ InterpolatedAxis(RowsAround(lat), ChunkLatSize) = 1440 - lat
      /\ InterpolatedAxis(ColsAround(lon), ChunkLonSize) = AtMost(lon + 2880, 5756)
  BY <1>2, RowMean, ColumnMean
<1>4. Place(loc) = [lat |-> lat, lon |-> AtMost(lon + 2880, 5756) - 2880]
  BY <1>2, <1>3 DEF Place, Degree
<1>5. AtMost(lon + 2880, 5756) - 2880 = AtMost(lon, 2876)
  BY <1>2 DEF AtMost
<1> QED
  BY <1>2, <1>4, <1>5 DEF AnsweredPlace, Degree, Cell

(* The corners of a place lie in the chunk of its tile, or in the next one  *)
(* to the south or to the east: along each axis on its own.                 *)
LEMMA RowChunks ==
  ASSUME NEW lat \in Int, -1440 <= lat, lat <= 1440
  PROVE  \A r \in {RowsAround(lat).lower, RowsAround(lat).upper} :
           Chunk(r, ChunkLatSize) \in {TileRow(lat), TileRow(lat) + 1}
<1>1. PICK frac \in 0 .. 2880 : frac = 1440 - lat /\ FracRow(lat) = frac
  BY DEF FracRow, Degree
<1> DEFINE q == frac \div 4
<1>2. q \in 0 .. 720 /\ frac \div 360 = q \div 90
  BY <1>1
<1>3. RowsAround(lat).lower = q /\ RowsAround(lat).upper \in {q, q + 1} /\ RowsAround(lat).upper <= 720
  <2>1. RowsAround(lat) = Around(frac, 721)
    BY <1>1 DEF RowsAround, GridLatCount
  <2> HIDE DEF q
  <2>2. Clamp(q, 721) = q /\ Clamp(q + 1, 721) = IF q = 720 THEN q ELSE q + 1
    BY <1>2 DEF Clamp, AtMost, AtLeast
  <2>3. /\ Around(frac, 721).lower = Clamp(q, 721)
        /\ Around(frac, 721).upper = Clamp(Clamp(q, 721) + 1, 721)
    BY DEF Around, Cell, q
  <2> QED
    BY <1>2, <2>1, <2>2, <2>3
<1>4. TileRow(lat) = IF q \div 90 >= 7 THEN 7 ELSE q \div 90
  BY <1>1, <1>2 DEF TileRow, Clamp, AtMost, AtLeast, Degree, ChunkLatSize, Cell, TileCount
<1> HIDE DEF q
<1>5. (q \div 90) \in 0 .. 8 /\ ((q + 1) \div 90) \in {q \div 90, (q \div 90) + 1}
  BY <1>2
<1>6. q + 1 <= 720 => ((q + 1) \div 90) \in {TileRow(lat), TileRow(lat) + 1}
  BY <1>2, <1>4, <1>5
<1>7. (q \div 90) \in {TileRow(lat), TileRow(lat) + 1}
  BY <1>2, <1>4, <1>5
<1> QED
  BY <1>3, <1>6, <1>7 DEF Chunk, ChunkLatSize

LEMMA ColumnChunks ==
  ASSUME NEW lon \in Int, -2880 <= lon, lon <= 2879
  PROVE  \A c \in {ColsAround(lon).lower, ColsAround(lon).upper} :
           Chunk(c, ChunkLonSize) \in {(TileCol(lon) + TileCount \div 2) % TileCount,
                                      ((TileCol(lon) + TileCount \div 2) % TileCount) + 1}
<1>1. PICK frac \in 0 .. 5759 : frac = lon + 2880 /\ FracCol(lon) = frac
  BY DEF FracCol, Degree
<1> DEFINE q == frac \div 4
           own == (TileCol(lon) + TileCount \div 2) % TileCount
<1>2. q \in 0 .. 1439 /\ frac \div 720 = q \div 180
  <2>1. q \in 0 .. 1439 /\ q = frac \div 4
    BY <1>1
  <2>2. frac \div 720 = q \div 180
    BY <1>1, <2>1
  <2> QED
    BY <2>1, <2>2
<1>3. ColsAround(lon).lower = q /\ ColsAround(lon).upper \in {q, q + 1}
      /\ ColsAround(lon).upper <= 1439
  <2>1. ColsAround(lon) = Around(frac, 1440)
    BY <1>1 DEF ColsAround, GridLonCount
  <2> HIDE DEF q
  <2>2. Clamp(q, 1440) = q /\ Clamp(q + 1, 1440) = IF q = 1439 THEN q ELSE q + 1
    BY <1>2 DEF Clamp, AtMost, AtLeast
  <2>3. /\ Around(frac, 1440).lower = Clamp(q, 1440)
        /\ Around(frac, 1440).upper = Clamp(Clamp(q, 1440) + 1, 1440)
    BY DEF Around, Cell, q
  <2> QED
    BY <1>2, <2>1, <2>2, <2>3
<1>4. own = q \div 180
  <2>1. CASE lon < 0
    <3>1. TileCol(lon) = (q \div 180) + 4
      BY <1>1, <1>2, <2>1 DEF TileCol, Clamp, AtMost, AtLeast, Degree, ChunkLonSize, Cell, TileCount
    <3>2. (q \div 180) \in 0 .. 3
      BY <1>1, <1>2, <2>1
    <3> QED
      BY <3>1, <3>2 DEF TileCount
  <2>2. CASE lon >= 0
    <3>1. TileCol(lon) = (q \div 180) - 4
      BY <1>1, <1>2, <2>2 DEF TileCol, Clamp, AtMost, AtLeast, Degree, ChunkLonSize, Cell, TileCount
    <3>2. (q \div 180) \in 4 .. 7
      BY <1>1, <1>2, <2>2
    <3> QED
      BY <3>1, <3>2 DEF TileCount
  <2> QED
    BY <2>1, <2>2
<1> HIDE DEF q
<1>5. ((q + 1) \div 180) \in {q \div 180, (q \div 180) + 1}
  BY <1>2
<1>6. \A c \in {q, q + 1} : Chunk(c, ChunkLonSize) \in {own, own + 1}
  BY <1>4, <1>5 DEF Chunk, ChunkLonSize
<1> QED
  BY <1>3, <1>6

(* For every place, not only for those of the run.                          *)
LEMMA CornersInTile ==
  ASSUME NEW loc \in [lat : Int, lon : Int], ValidLocation(loc), loc.lon < 180 * Degree
  PROVE  CornerChunks(loc) \subseteq TileChunks(loc)
<1>1. /\ loc.lat \in Int /\ -1440 <= loc.lat /\ loc.lat <= 1440
      /\ loc.lon \in Int /\ -2880 <= loc.lon /\ loc.lon <= 2879
  BY ValidBounds DEF Degree
<1> DEFINE lat == loc.lat
           lon == loc.lon
<1> HIDE DEF lat, lon
<1>5. /\ loc.lat = lat /\ loc.lon = lon
      /\ lat \in Int /\ -1440 <= lat /\ lat <= 1440 /\ lon \in Int /\ -2880 <= lon /\ lon <= 2879
  BY <1>1 DEF lat, lon
<1> DEFINE row == TileRow(lat)
           col == (TileCol(lon) + TileCount \div 2) % TileCount
<1>2. TileChunks(loc) = {<<row, col>>, <<row + 1, col>>, <<row, col + 1>>, <<row + 1, col + 1>>}
  BY <1>5 DEF TileChunks, ChunkOfTile, CalculateTileID
<1>3. \A r \in {RowsAround(lat).lower, RowsAround(lat).upper} :
        Chunk(r, ChunkLatSize) \in {row, row + 1}
  BY <1>5, RowChunks
<1>4. \A c \in {ColsAround(lon).lower, ColsAround(lon).upper} :
        Chunk(c, ChunkLonSize) \in {col, col + 1}
  BY <1>5, ColumnChunks
<1> HIDE DEF row, col
<1> QED
  BY <1>2, <1>3, <1>4, <1>5 DEF CornerChunks

LEMMA ReadsAreAlwaysLocal == ReadsAreLocal
<1> SUFFICES ASSUME NEW lon \in -180 * Degree .. 180 * Degree,
                    NEW loc, loc = [lat |-> lon \div 2, lon |-> lon]
             PROVE  /\ Place(loc) = AnsweredPlace(loc)
                    /\ lon < 180 * Degree => CornerChunks(loc) \subseteq TileChunks(loc)
  BY DEF ReadsAreLocal
<1>1. lon \in -2880 .. 2880 /\ (lon \div 2) \in -1440 .. 1440
  BY DEF Degree
<1>2. loc \in [lat : Int, lon : Int] /\ ValidLocation(loc) /\ loc.lon = lon
  BY <1>1 DEF ValidLocation, Degree
<1> QED
  BY <1>2, PlacesAreAnswered, CornersInTile

-----------------------------------------------------------------------------
(* Blending.                                                                *)

(* Two sequences one after the other have the members of both.              *)
LEMMA JoinedHas ==
  ASSUME NEW T, NEW a \in Seq(T), NEW b \in Seq(T)
  PROVE  /\ a \o b \in Seq(T) /\ Len(a \o b) = Len(a) + Len(b)
         /\ ToSet(a \o b) = ToSet(a) \cup ToSet(b)
<1>1. /\ a \o b \in Seq(T) /\ Len(a \o b) = Len(a) + Len(b)
      /\ \A i \in 1 .. Len(a) + Len(b) : (a \o b)[i] = IF i <= Len(a) THEN a[i] ELSE b[i - Len(a)]
  OBVIOUS
<1>2. /\ Len(a) \in Nat /\ Len(b) \in Nat /\ DOMAIN a = 1 .. Len(a) /\ DOMAIN b = 1 .. Len(b)
      /\ DOMAIN (a \o b) = 1 .. Len(a) + Len(b)
  BY <1>1
<1> DEFINE c == a \o b
<1> HIDE DEF c
<1>3. ASSUME NEW x \in ToSet(a) PROVE x \in ToSet(c)
  <2>1. PICK i \in DOMAIN a : x = a[i]
    BY DEF ToSet
  <2>2. i \in 1 .. Len(a) + Len(b) /\ i <= Len(a)
    BY <1>2
  <2>3. c[i] = x /\ i \in DOMAIN c
    BY <1>1, <1>2, <2>1, <2>2 DEF c
  <2> QED
    BY <2>3 DEF ToSet
<1>4. ASSUME NEW x \in ToSet(b) PROVE x \in ToSet(c)
  <2>1. PICK i \in DOMAIN b : x = b[i]
    BY DEF ToSet
  <2>2. i + Len(a) \in 1 .. Len(a) + Len(b) /\ ~(i + Len(a) <= Len(a)) /\ (i + Len(a)) - Len(a) = i
    BY <1>2
  <2>3. c[i + Len(a)] = x /\ i + Len(a) \in DOMAIN c
    BY <1>1, <1>2, <2>1, <2>2 DEF c
  <2> QED
    BY <2>3 DEF ToSet
<1>5. ASSUME NEW x \in ToSet(c) PROVE x \in ToSet(a) \cup ToSet(b)
  <2>1. PICK i \in DOMAIN c : x = c[i]
    BY DEF ToSet
  <2>2. i \in 1 .. Len(a) + Len(b)
    BY <1>2 DEF c
  <2>3. CASE i <= Len(a)
    <3>1. i \in DOMAIN a /\ x = a[i]
      BY <1>1, <1>2, <2>1, <2>2, <2>3 DEF c
    <3> QED
      BY <3>1 DEF ToSet
  <2>4. CASE ~(i <= Len(a))
    <3>1. i - Len(a) \in DOMAIN b
      BY <1>2, <2>2, <2>4
    <3>2. x = b[i - Len(a)]
      BY <1>1, <2>1, <2>2, <2>4 DEF c
    <3> QED
      BY <3>1, <3>2 DEF ToSet
  <2> QED
    BY <2>3, <2>4
<1> QED
  BY <1>1, <1>3, <1>4, <1>5 DEF c

(* What is selected from a sequence is what it has at the places, one for   *)
(* each of them.                                                            *)
LEMMA SelectedHas ==
  ASSUME NEW T, NEW s \in Seq(T), NEW places \in SUBSET DOMAIN s
  PROVE  /\ IsFiniteSet(places)
         /\ Selected(s, places) \in Seq(T)
         /\ Len(Selected(s, places)) = Cardinality(places)
         /\ ToSet(Selected(s, places)) = {s[i] : i \in places}
<1>1. Len(s) \in Nat /\ DOMAIN s = 1 .. Len(s) /\ \A i \in DOMAIN s : s[i] \in T
  OBVIOUS
<1>2. IsFiniteSet(places) /\ places \in SUBSET Nat
  <2>1. IsFiniteSet(DOMAIN s)
    BY <1>1, FS_Interval
  <2> QED
    BY <1>1, <2>1, FS_Subset
<1> DEFINE n == Cardinality(places)
<1>3. /\ n \in Nat
      /\ \A k \in 1 .. n : Nth(places, k) \in places
      /\ \A v \in places : \E k \in 1 .. n : Nth(places, k) = v
  BY <1>2, NthCounts
<1>4. Selected(s, places) = [k \in 1 .. n |-> s[Nth(places, k)]]
  BY DEF Selected
<1> HIDE DEF n
<1>5. \A k \in 1 .. n : s[Nth(places, k)] \in T
  BY <1>1, <1>3
<1>6. Selected(s, places) \in Seq(T)
  <2> DEFINE e(k) == s[Nth(places, k)]
  <2>1. \A k \in 1 .. n : e(k) \in T
    BY <1>5
  <2> HIDE DEF e
  <2>2. [k \in 1 .. n |-> e(k)] \in Seq(T)
    BY <1>3, <2>1
  <2> QED
    BY <1>4, <2>2 DEF e
<1>7. DOMAIN Selected(s, places) = 1 .. n /\ \A k \in 1 .. n : Selected(s, places)[k] = s[Nth(places, k)]
  BY <1>4
<1>8. Len(Selected(s, places)) = n
  BY <1>3, <1>6, <1>7
<1>9. ToSet(Selected(s, places)) = {s[i] : i \in places}
  BY <1>3, <1>7 DEF ToSet
<1> QED
  BY <1>2, <1>6, <1>8, <1>9 DEF n

(* The places of a blend: near points of the nowcast, and points of the     *)
(* medium range that are far or that the nowcast has none of.               *)
Near(t, nc)     == {i \in DOMAIN nc : nc[i].valid < t + NowcastHorizon}
Rest(t, mr, nc) == {i \in DOMAIN mr : \/ mr[i].valid >= t + NowcastHorizon
                                      \/ \A j \in DOMAIN nc : nc[j].valid # mr[i].valid}
BlendPoints(t, mr, nc) == {nc[i] : i \in Near(t, nc)} \cup {mr[i] : i \in Rest(t, mr, nc)}

LEMMA BlendHas ==
  ASSUME NEW t \in Int, NEW T, NEW mr \in Seq(T), NEW nc \in Seq(T), nc # <<>>
  PROVE  /\ IsFiniteSet(Near(t, nc)) /\ IsFiniteSet(Rest(t, mr, nc))
         /\ BlendForecasts(t, mr, nc) \in Seq(T)
         /\ Len(BlendForecasts(t, mr, nc)) = Cardinality(Near(t, nc)) + Cardinality(Rest(t, mr, nc))
         /\ ToSet(BlendForecasts(t, mr, nc)) = BlendPoints(t, mr, nc)
<1> DEFINE a == Selected(nc, Near(t, nc))
           b == Selected(mr, Rest(t, mr, nc))
<1>1. BlendForecasts(t, mr, nc) = a \o b
  BY DEF BlendForecasts, Near, Rest
<1>2. Near(t, nc) \in SUBSET DOMAIN nc /\ Rest(t, mr, nc) \in SUBSET DOMAIN mr
  BY DEF Near, Rest
<1>3. /\ IsFiniteSet(Near(t, nc)) /\ a \in Seq(T) /\ Len(a) = Cardinality(Near(t, nc))
      /\ ToSet(a) = {nc[i] : i \in Near(t, nc)}
  BY <1>2, SelectedHas
<1>4. /\ IsFiniteSet(Rest(t, mr, nc)) /\ b \in Seq(T) /\ Len(b) = Cardinality(Rest(t, mr, nc))
      /\ ToSet(b) = {mr[i] : i \in Rest(t, mr, nc)}
  BY <1>2, SelectedHas
<1> HIDE DEF a, b
<1>5. a \o b \in Seq(T) /\ Len(a \o b) = Len(a) + Len(b) /\ ToSet(a \o b) = ToSet(a) \cup ToSet(b)
  <2>1. a \in Seq(T) /\ b \in Seq(T)
    BY <1>3, <1>4
  <2> QED
    BY <2>1, JoinedHas
<1> QED
  BY <1>1, <1>3, <1>4, <1>5 DEF BlendPoints

LEMMA SeriesHas ==
  ASSUME NEW m \in Models, NEW times \in SUBSET Nat, IsFiniteSet(times)
  PROVE  /\ Cardinality(times) \in Nat
         /\ SeriesOf(m, times) \in Seq([source : Models, valid : Nat])
         /\ DOMAIN SeriesOf(m, times) = 1 .. Cardinality(times)
         /\ \A i \in 1 .. Cardinality(times) :
              SeriesOf(m, times)[i] = [source |-> m, valid |-> Nth(times, i)]
<1> DEFINE n == Cardinality(times)
           e(i) == [source |-> m, valid |-> Nth(times, i)]
           R == [source : Models, valid : Nat]
<1>1. n \in Nat /\ \A k \in 1 .. n : Nth(times, k) \in Nat
  BY NthCounts
<1>2. SeriesOf(m, times) = [i \in 1 .. n |-> e(i)]
  BY DEF SeriesOf
<1>3. \A i \in 1 .. n : e(i) \in R
  BY <1>1
<1> HIDE DEF n, e, R
<1>4. [i \in 1 .. n |-> e(i)] \in Seq(R)
  BY <1>1, <1>3
<1> QED
  BY <1>1, <1>2, <1>4 DEF n, e, R

(* As many places of a series as times that qualify.                        *)
LEMMA PlacesOfTimes ==
  ASSUME NEW times \in SUBSET Nat, IsFiniteSet(times), NEW some \in SUBSET times,
         NEW places, places = {i \in 1 .. Cardinality(times) : Nth(times, i) \in some}
  PROVE  IsFiniteSet(some) /\ Cardinality(places) = Cardinality(some)
<1> DEFINE n == Cardinality(times)
           f == [i \in places |-> Nth(times, i)]
<1>1. /\ n \in Nat
      /\ \A k \in 1 .. n : Nth(times, k) \in times
      /\ \A v \in times : \E k \in 1 .. n : Nth(times, k) = v
      /\ \A k, l \in 1 .. n : k < l => Nth(times, k) < Nth(times, l)
  BY NthCounts
<1> HIDE DEF n
<1>2. \A k, l \in 1 .. n : Nth(times, k) = Nth(times, l) => k = l
  <2> SUFFICES ASSUME NEW k \in 1 .. n, NEW l \in 1 .. n, Nth(times, k) = Nth(times, l) PROVE k = l
    OBVIOUS
  <2>1. Nth(times, k) \in Nat /\ Nth(times, l) \in Nat
    BY <1>1
  <2>2. ~(k < l) /\ ~(l < k)
    BY <1>1, <2>1
  <2> QED
    BY <1>1, <2>2
<1>3. places \in SUBSET (1 .. n) /\ \A i \in places : Nth(times, i) \in some
  BY DEF n
<1>4. f \in [places -> some]
  BY <1>3
<1>5. \A k, l \in places : f[k] = f[l] => k = l
  BY <1>2, <1>3
<1>6. \A v \in some : \E k \in places : f[k] = v
  BY <1>1 DEF n
<1> HIDE DEF f
<1>7. f \in Bijection(places, some)
  BY <1>4, <1>5, <1>6 DEF Bijection, Injection, Surjection, IsInjective
<1>8. IsFiniteSet(places) /\ IsFiniteSet(some)
  <2>1. IsFiniteSet(1 .. n)
    BY <1>1, FS_Interval
  <2> QED
    BY <1>3, <2>1, FS_Subset
<1>9. ExistsBijection(places, some)
  BY <1>7 DEF ExistsBijection
<1> QED
  BY <1>8, <1>9, FS_Bijection

BlendOf(mr, nc)   == BlendForecasts(0, SeriesOf("medium_range", mr), SeriesOf("nowcast", nc))
NearTimes(mr, nc) == {v \in mr \cup nc : v < NowcastHorizon}
FarTimes(mr)      == {v \in mr : v >= NowcastHorizon}
SourceOf(mr, nc)  == [v \in NearTimes(mr, nc) \cup FarTimes(mr) |->
                        IF v \in nc /\ v \in NearTimes(mr, nc) THEN "nowcast" ELSE "medium_range"]

(* Before the horizon each time that either series has is there once, from  *)
(* the nowcast if it has it, and from the horizon on each time of the       *)
(* medium range, for all series of distinct times.                          *)
LEMMA BlendTakesEachOnce ==
  ASSUME NEW mr \in SUBSET Nat, NEW nc \in SUBSET Nat, IsFiniteSet(mr), IsFiniteSet(nc)
  PROVE  /\ Len(BlendOf(mr, nc)) = Cardinality(NearTimes(mr, nc) \cup FarTimes(mr))
         /\ ToSet(BlendOf(mr, nc)) = {[source |-> SourceOf(mr, nc)[v], valid |-> v] :
                                        v \in NearTimes(mr, nc) \cup FarTimes(mr)}
<1> DEFINE blend == BlendOf(mr, nc)
           near == NearTimes(mr, nc)
           far == FarTimes(mr)
           source == SourceOf(mr, nc)
<1>0. /\ near = {v \in mr \cup nc : v < NowcastHorizon}
      /\ far = {v \in mr : v >= NowcastHorizon}
      /\ source = [v \in near \cup far |-> IF v \in nc /\ v \in near THEN "nowcast" ELSE "medium_range"]
  BY DEF NearTimes, FarTimes, SourceOf
<1> HIDE DEF blend, near, far, source
<1> SUFFICES /\ Len(blend) = Cardinality(near \cup far)
             /\ ToSet(blend) = {[source |-> source[v], valid |-> v] : v \in near \cup far}
  BY DEF blend, near, far, source
<1> DEFINE M == SeriesOf("medium_range", mr)
           N == SeriesOf("nowcast", nc)
           R == [source : Models, valid : Nat]
           mrN == Cardinality(mr)
           ncN == Cardinality(nc)
           ofN == {v \in nc : v < NowcastHorizon}
           ofM == {v \in mr : v >= NowcastHorizon \/ v \notin nc}
           e(v) == [source |-> source[v], valid |-> v]
<1>h. NowcastHorizon \in Nat
  BY ForecastsAssumption
<1>1. /\ mrN \in Nat /\ M \in Seq(R) /\ DOMAIN M = 1 .. mrN
      /\ \A i \in 1 .. mrN : M[i] = [source |-> "medium_range", valid |-> Nth(mr, i)]
  BY SeriesHas DEF Models
<1>2. /\ ncN \in Nat /\ N \in Seq(R) /\ DOMAIN N = 1 .. ncN
      /\ \A i \in 1 .. ncN : N[i] = [source |-> "nowcast", valid |-> Nth(nc, i)]
  BY SeriesHas DEF Models
<1>3. /\ \A k \in 1 .. mrN : Nth(mr, k) \in mr
      /\ \A v \in mr : \E k \in 1 .. mrN : Nth(mr, k) = v
      /\ \A k \in 1 .. ncN : Nth(nc, k) \in nc
      /\ \A v \in nc : \E k \in 1 .. ncN : Nth(nc, k) = v
  BY NthCounts
<1>4. blend = BlendForecasts(0, M, N)
  BY DEF blend, BlendOf
<1>5. /\ ofN \in SUBSET nc /\ ofM \in SUBSET mr /\ ofN \cap ofM = {} /\ ofN \cup ofM = near \cup far
      /\ \A v \in ofN : source[v] = "nowcast"
      /\ \A v \in ofM : source[v] = "medium_range"
  <2>1. ofN \in SUBSET nc /\ ofM \in SUBSET mr
    OBVIOUS
  <2>2. \A v \in Nat : /\ ~(v < NowcastHorizon /\ v >= NowcastHorizon)
                       /\ v < NowcastHorizon \/ v >= NowcastHorizon
    BY <1>h
  <2>3. ofN \cap ofM = {}
    BY <2>2
  <2>4. ofN \cup ofM = near \cup far
    BY <1>0, <2>2
  <2>5. \A v \in ofN : v \in near \cup far /\ v \in nc /\ v \in near
    BY <1>0, <2>4
  <2>6. \A v \in ofM : v \in near \cup far /\ ~(v \in nc /\ v \in near)
    BY <1>0, <2>2, <2>4
  <2> QED
    BY <1>0, <2>1, <2>3, <2>4, <2>5, <2>6
<1> HIDE DEF M, N, R, mrN, ncN
<1>6. Near(0, N) = {i \in 1 .. ncN : Nth(nc, i) \in ofN}
  <2>1. \A i \in 1 .. ncN : N[i].valid < 0 + NowcastHorizon <=> Nth(nc, i) \in ofN
    <3> SUFFICES ASSUME NEW i \in 1 .. ncN
                 PROVE  N[i].valid < 0 + NowcastHorizon <=> Nth(nc, i) \in ofN
      OBVIOUS
    <3>1. N[i].valid = Nth(nc, i) /\ Nth(nc, i) \in nc
      BY <1>2, <1>3
    <3>2. 0 + NowcastHorizon = NowcastHorizon
      BY <1>h
    <3> QED
      BY <3>1, <3>2
  <2> HIDE DEF ofN
  <2> QED
    BY <1>2, <2>1 DEF Near
<1>7. ASSUME N # <<>>
      PROVE  Rest(0, M, N) = {i \in 1 .. mrN : Nth(mr, i) \in ofM}
  <2>1. \A v : (\A j \in 1 .. ncN : N[j].valid # v) <=> v \notin nc
    <3>1. \A j \in 1 .. ncN : N[j].valid = Nth(nc, j)
      BY <1>2
    <3> QED
      BY <1>3, <3>1
  <2>2. \A i \in 1 .. mrN : M[i].valid = Nth(mr, i) /\ Nth(mr, i) \in mr
    BY <1>1, <1>3
  <2>3. 0 + NowcastHorizon = NowcastHorizon
    BY <1>h
  <2> QED
    BY <1>1, <1>2, <2>1, <2>2, <2>3 DEF Rest
<1>8. IsFiniteSet(ofN) /\ IsFiniteSet(ofM) /\ Cardinality(ofN) \in Nat /\ Cardinality(ofM) \in Nat
  BY <1>5, FS_Subset, FS_CardinalityType
<1>9. Cardinality(near \cup far) = Cardinality(ofN) + Cardinality(ofM)
  <2> HIDE DEF ofN, ofM
  <2>1. Cardinality(ofN \cup ofM) = Cardinality(ofN) + Cardinality(ofM) - Cardinality(ofN \cap ofM)
    BY <1>8, FS_Union
  <2>2. Cardinality(ofN \cap ofM) = 0
    BY <1>5, FS_EmptySet
  <2>3. Cardinality(ofN \cup ofM) = Cardinality(near \cup far)
    BY <1>5
  <2> QED
    BY <1>8, <2>1, <2>2, <2>3
<1>10. Cardinality(Near(0, N)) = Cardinality(ofN)
  <2> HIDE DEF ofN
  <2> QED
    BY <1>5, <1>6, PlacesOfTimes DEF ncN
<1>11. {N[i] : i \in Near(0, N)} = {e(v) : v \in ofN}
  <2> HIDE DEF ofN
  <2>1. \A i \in Near(0, N) : Nth(nc, i) \in ofN /\ N[i] = e(Nth(nc, i))
    BY <1>2, <1>5, <1>6
  <2>2. \A v \in ofN : \E i \in Near(0, N) : Nth(nc, i) = v
    BY <1>3, <1>5, <1>6
  <2> HIDE DEF e
  <2> QED
    BY <2>1, <2>2
<1>12. CASE N # <<>>
  <2> HIDE DEF ofM, ofN
  <2>1. Cardinality(Rest(0, M, N)) = Cardinality(ofM)
    BY <1>5, <1>7, <1>12, PlacesOfTimes DEF mrN
  <2>2. {M[i] : i \in Rest(0, M, N)} = {e(v) : v \in ofM}
    <3>1. \A i \in Rest(0, M, N) : Nth(mr, i) \in ofM /\ M[i] = e(Nth(mr, i))
      BY <1>1, <1>5, <1>7, <1>12
    <3>2. \A v \in ofM : \E i \in Rest(0, M, N) : Nth(mr, i) = v
      BY <1>3, <1>5, <1>7, <1>12
    <3> HIDE DEF e
    <3> QED
      BY <3>1, <3>2
  <2>3. /\ Len(blend) = Cardinality(Near(0, N)) + Cardinality(Rest(0, M, N))
        /\ ToSet(blend) = {N[i] : i \in Near(0, N)} \cup {M[i] : i \in Rest(0, M, N)}
    <3>1. M \in Seq(R) /\ N \in Seq(R)
      BY <1>1, <1>2
    <3>2. /\ Len(BlendForecasts(0, M, N)) = Cardinality(Near(0, N)) + Cardinality(Rest(0, M, N))
          /\ ToSet(BlendForecasts(0, M, N)) = BlendPoints(0, M, N)
      BY <1>12, <3>1, BlendHas
    <3> QED
      BY <1>4, <3>2 DEF BlendPoints
  <2>4. ToSet(blend) = {e(v) : v \in ofN \cup ofM}
    <3> HIDE DEF e
    <3> QED
      BY <1>11, <2>2, <2>3
  <2> QED
    BY <1>5, <1>9, <1>10, <2>1, <2>3, <2>4
<1>13. CASE N = <<>>
  <2>1. ncN = 0
    <3>1. DOMAIN N = 1 .. Len(N) /\ Len(N) = 0
      BY <1>2, <1>13
    <3> QED
      BY <1>2, <3>1
  <2>2. nc = {}
    BY <2>1, FS_EmptySet DEF ncN
  <2>3. near \cup far = mr /\ \A v \in mr : source[v] = "medium_range"
    BY <1>5, <2>2
  <2>4. blend = M
    BY <1>4, <1>13 DEF BlendForecasts
  <2>5. Len(M) = mrN
    BY <1>1
  <2>6. ToSet(M) = {e(v) : v \in mr}
    <3>1. \A i \in DOMAIN M : Nth(mr, i) \in mr /\ M[i] = e(Nth(mr, i))
      BY <1>1, <1>3, <2>3
    <3>2. \A v \in mr : \E i \in DOMAIN M : Nth(mr, i) = v
      BY <1>1, <1>3
    <3> HIDE DEF e
    <3> QED
      BY <3>1, <3>2 DEF ToSet
  <2> QED
    BY <2>3, <2>4, <2>5, <2>6 DEF mrN
<1> QED
  BY <1>12, <1>13

LEMMA BlendAlwaysPrefersNowcast == BlendPrefersNowcast
<1>1. \A S \in SUBSET (0 .. NowcastHorizon + 1) : S \in SUBSET Nat /\ IsFiniteSet(S)
  <2>1. NowcastHorizon \in Nat
    BY ForecastsAssumption
  <2>2. IsFiniteSet(0 .. NowcastHorizon + 1) /\ 0 .. NowcastHorizon + 1 \subseteq Nat
    BY <2>1, FS_Interval
  <2> QED
    BY <2>2, FS_Subset
<1>2. ASSUME NEW mr \in SUBSET (0 .. NowcastHorizon + 1), NEW nc \in SUBSET (0 .. NowcastHorizon + 1)
      PROVE  /\ Len(BlendOf(mr, nc)) = Cardinality(NearTimes(mr, nc) \cup FarTimes(mr))
             /\ ToSet(BlendOf(mr, nc)) = {[source |-> SourceOf(mr, nc)[v], valid |-> v] :
                                            v \in NearTimes(mr, nc) \cup FarTimes(mr)}
  BY <1>1, BlendTakesEachOnce
<1> QED
  BY <1>2 DEF BlendPrefersNowcast, BlendOf, NearTimes, FarTimes, SourceOf

(* What an answer is made of is sound, for every place on Earth and for all *)
(* series of distinct times: each point is read at its place and from the   *)
(* chunk of its tile or the ones next to it, and a blend takes each time    *)
(* once, from the better source.                                            *)
THEOREM ReadsAreAlwaysSound ==
  /\ \A loc \in [lat : Int, lon : Int] : ValidLocation(loc) =>
       /\ Place(loc) = AnsweredPlace(loc)
       /\ loc.lon < 180 * Degree => CornerChunks(loc) \subseteq TileChunks(loc)
  /\ BlendPrefersNowcast
  /\ API => []ReadsAreSound
<1>1. ASSUME NEW loc \in [lat : Int, lon : Int], ValidLocation(loc)
      PROVE  /\ Place(loc) = AnsweredPlace(loc)
             /\ loc.lon < 180 * Degree => CornerChunks(loc) \subseteq TileChunks(loc)
  BY <1>1, PlacesAreAnswered, CornersInTile
<1>2. ReadsAreSound
  BY ReadsAreAlwaysLocal, BlendAlwaysPrefersNowcast DEF ReadsAreSound
<1>3. API => []ReadsAreSound
  BY <1>2, PTL
<1> QED
  BY <1>1, <1>3, BlendAlwaysPrefersNowcast

-----------------------------------------------------------------------------
(* The inductive invariant of the forecast API: what a request holds at     *)
(* each of its steps, in parts.                                             *)
Fields == {"at", "kind", "now", "start", "locs", "runs", "named", "fallback", "warned",
           "mr", "data", "status", "health", "tiles", "broken", "forecasts", "errors"}

StepsOf == [point    |-> {"mrRun", "ncRun", "mrRead", "ncRead", "answered", "failed"},
            batch    |-> {"mrRun", "tiles", "answered", "failed"},
            snapshot |-> {"mrRun", "mrRead", "answered", "failed"},
            status   |-> {"mrRun", "ncRun", "answered", "failed"}]

Loc(r) == r.locs[1].loc

(* The kind of a request says what was asked and which steps it takes.      *)
Shape(r) ==
  /\ DOMAIN r = Fields
  /\ r.kind \in Kinds /\ r.at \in StepsOf[r.kind] /\ r.now \in 0..MaxTime
  /\ r.status \in {"none", "fresh", "degraded", "stale"}
  /\ r.fallback \in BOOLEAN /\ r.warned \in BOOLEAN
  /\ r.locs \in Seq(Entries)
  /\ r.kind \in {"point", "snapshot"} =>
       Len(r.locs) = 1 /\ Loc(r) \in [lat : Int, lon : Int] /\ ValidLocation(Loc(r))

RunsOfModel(m) == {m} \X (0..MaxTime)
HasRun(r, m)   == r.runs[m] \in RunsOfModel(m) /\ r.runs[m] \in r.named

(* The run of the medium range is chosen first and then held.               *)
RunFits(r) ==
  /\ r.runs \in [Models -> {None} \cup (Models \X (0..MaxTime))]
  /\ r.kind # "status" /\ r.at \in {"ncRun", "mrRead", "ncRead", "tiles", "answered"} =>
       HasRun(r, "medium_range")

(* There is data in an answer only, and every point of it was read at the   *)
(* place asked for, from a run that is held and named.                      *)
IsRead(r, p) == \E m \in Models, k \in Nat : HasRun(r, m) /\ p = Point(r.runs[m], k, Loc(r))

DataFits(r) ==
  /\ r.data # <<>> => r.kind \in {"point", "snapshot"} /\ r.at = "answered"
  /\ \A p \in ToSet(r.data) : IsRead(r, p)

(* A point request held up by the nowcast says so.                          *)
IsAnnounced(r) ==
  /\ NeedsNowcast(r) => (r.warned <=> \A p \in ToSet(r.data) : p.source = "medium_range")
  /\ r.warned => NeedsNowcast(r)
  /\ r.status = "fresh" =>
       ~r.fallback /\ Health("medium_range", r.now - r.runs["medium_range"][2]) = "healthy"

PointFits(r) ==
  r.kind = "point" =>
    /\ r.at \in {"mrRun", "ncRun"} => ~r.fallback /\ ~r.warned
    /\ r.at = "ncRun" => NeedsNowcast(r)
    /\ r.at \in {"mrRead", "ncRead"} =>
         /\ r.warned = r.fallback
         /\ r.fallback => NeedsNowcast(r)
         /\ NeedsNowcast(r) /\ ~r.fallback => HasRun(r, "nowcast")
    /\ r.at = "ncRead" => r.mr = ReadPoint(r.runs["medium_range"], Loc(r))
    /\ r.at = "answered" => IsAnnounced(r)

(* A batch has results of the tiles that were read and errors of those that *)
(* could not be, and none yet of those to come.                             *)
IdsWithin(r, tiles) ==
  {r.locs[i].id : i \in {k \in DOMAIN r.locs : CalculateTileID(r.locs[k].loc) \in tiles}}
IdsOutside(r, tiles) ==
  {r.locs[i].id : i \in {k \in DOMAIN r.locs : CalculateTileID(r.locs[k].loc) \notin tiles}}

(* A forecast names the location of one entry of its identifier and holds   *)
(* the series of one, the same if the first is on Earth.                    *)
IsResult(r, f) ==
  \E i, j \in DOMAIN r.locs :
    /\ f.id = r.locs[i].id /\ f.id = r.locs[j].id
    /\ f.loc = r.locs[i].loc /\ f.data = ReadPoint(r.runs["medium_range"], r.locs[j].loc)
    /\ ValidLocation(f.loc) => f.loc = r.locs[j].loc

Distinct(forecasts) == \A f, g \in forecasts : f.id = g.id => f = g
Ids(forecasts)      == {f.id : f \in forecasts}

TileAnswersFit(r) ==
  /\ r.tiles \cap r.broken = {}
  /\ r.errors = IdsWithin(r, r.broken)
  /\ Ids(r.forecasts) = IdsOutside(r, r.tiles \cup r.broken)
  /\ Distinct(r.forecasts)
  /\ \A f \in r.forecasts : IsResult(r, f)

TilesFit(r) ==
  /\ r.at \in {"mrRun", "failed"} \/ r.kind # "batch" => r.forecasts = {} /\ r.errors = {}
  /\ r.at = "mrRun" => r.broken = {}
  /\ r.kind = "batch" /\ r.at \in {"tiles", "answered"} => TileAnswersFit(r)
  /\ r.kind = "batch" /\ r.at = "answered" => r.tiles = {}

RequestFits(r) == Shape(r) /\ RunFits(r) /\ DataFits(r) /\ PointFits(r) /\ TilesFit(r)

APIInv ==
  /\ complete \in SUBSET (Models \X (0..MaxTime)) /\ stored \in SUBSET (Models \X (0..MaxTime))
  /\ now \in 0..MaxTime
  /\ request # Idle => RequestFits(request) /\ request.now <= now

(* A request after a step: all but some of its fields are as they were.     *)
Keeps(q, r, changed) == DOMAIN q = Fields /\ \A f \in Fields \ changed : q[f] = r[f]

-----------------------------------------------------------------------------
(* Whatever is served is a run of its model.                                *)
LEMMA ServingIsARun ==
  ASSUME complete \in SUBSET (Models \X (0..MaxTime)), NEW m \in Models,
         GetLatestServing(m) # None
  PROVE  GetLatestServing(m) \in RunsOfModel(m)
<1> DEFINE C == {run \in complete : run[1] = m}
           Age == {MaxTime - run[2] : run \in C}
           LatestOne(run) == run[1] = m /\ \A r \in complete : r[1] = m => r[2] <= run[2]
<1>0. MaxTime \in Nat
  BY ForecastsAssumption
<1>1. \E run \in complete : run[1] = m
  BY DEF GetLatestServing
<1>2. \A run \in complete : run \in Models \X (0..MaxTime) /\ run[2] \in 0..MaxTime
  OBVIOUS
<1>3. Age \in SUBSET Nat /\ Age # {}
  BY <1>0, <1>1, <1>2
<1>4. PICK a \in Age : \A b \in Age : a <= b
  BY <1>3, LeastNumber
<1>5. PICK run \in C : a = MaxTime - run[2]
  OBVIOUS
<1>6. \A r \in complete : r[1] = m => r[2] <= run[2]
  <2> SUFFICES ASSUME NEW r \in complete, r[1] = m PROVE r[2] <= run[2]
    OBVIOUS
  <2>1. MaxTime - r[2] \in Age
    OBVIOUS
  <2>2. MaxTime - run[2] <= MaxTime - r[2]
    BY <1>4, <1>5, <2>1
  <2>3. r[2] \in Int /\ run[2] \in Int
    BY <1>2
  <2> QED
    BY <1>0, <2>2, <2>3
<1>7. run \in complete /\ LatestOne(run)
  BY <1>6
<1>8. GetLatestServing(m) = CHOOSE r \in complete : LatestOne(r)
  BY <1>1 DEF GetLatestServing
<1> HIDE DEF LatestOne
<1>9. GetLatestServing(m) \in complete /\ LatestOne(GetLatestServing(m))
  BY <1>7, <1>8
<1>10. GetLatestServing(m) \in Models \X (0..MaxTime) /\ GetLatestServing(m)[1] = m
  BY <1>9 DEF LatestOne
<1> QED
  BY <1>10 DEF RunsOfModel

(* Reading a run gives at least one point, and its points only.             *)
LEMMA ReadPointHas ==
  ASSUME NEW m \in Models, NEW run \in RunsOfModel(m), NEW loc
  PROVE  /\ TimeSteps(run) \in Nat \ {0}
         /\ DOMAIN ReadPoint(run, loc) = 1..TimeSteps(run)
         /\ ReadPoint(run, loc) # <<>>
         /\ \A k \in 1..TimeSteps(run) : ReadPoint(run, loc)[k] = Point(run, k - 1, loc)
<1> DEFINE n == TimeSteps(run)
           e(k) == Point(run, k - 1, loc)
<1>1. run[1] = m
  BY DEF RunsOfModel
<1>2. n \in Nat \ {0}
  BY <1>1, ForecastsAssumption DEF TimeSteps
<1>3. ReadPoint(run, loc) = [k \in 1..n |-> e(k)]
  BY DEF ReadPoint
<1> HIDE DEF n, e
<1>7. DOMAIN ReadPoint(run, loc) = 1..n /\ \A k \in 1..n : ReadPoint(run, loc)[k] = e(k)
  BY <1>3
<1>8. ReadPoint(run, loc) # <<>>
  <2>1. 1 \in 1..n
    BY <1>2
  <2>2. DOMAIN <<>> = {}
    OBVIOUS
  <2> QED
    BY <1>7, <2>1, <2>2
<1> QED
  BY <1>2, <1>7, <1>8 DEF n, e

LEMMA PointHas ==
  ASSUME NEW m, NEW run \in RunsOfModel(m), NEW k, NEW loc
  PROVE  /\ Point(run, k, loc).source = m /\ Point(run, k, loc).run = run
         /\ Point(run, k, loc).valid = ZeroTime
<1>1. run[1] = m
  BY DEF RunsOfModel
<1> QED
  BY <1>1 DEF Point

(* What can be read of a run at a place.                                    *)
PointsOf(run, loc) == {Point(run, k, loc) : k \in Nat}

LEMMA ReadPointIsSeq ==
  ASSUME NEW m \in Models, NEW run \in RunsOfModel(m), NEW loc
  PROVE  /\ ReadPoint(run, loc) \in Seq(PointsOf(run, loc))
         /\ \A i \in DOMAIN ReadPoint(run, loc) : ReadPoint(run, loc)[i] \in PointsOf(run, loc)
<1> DEFINE n == TimeSteps(run)
           e(k) == Point(run, k - 1, loc)
<1>1. n \in Nat /\ DOMAIN ReadPoint(run, loc) = 1..n
  BY ReadPointHas
<1>2. ReadPoint(run, loc) = [k \in 1..n |-> e(k)]
  BY DEF ReadPoint
<1>3. \A k \in 1..n : e(k) \in PointsOf(run, loc)
  <2> SUFFICES ASSUME NEW k \in 1..n PROVE e(k) \in PointsOf(run, loc)
    OBVIOUS
  <2>1. k - 1 \in Nat
    BY <1>1
  <2> QED
    BY <2>1 DEF PointsOf
<1> HIDE DEF n, e
<1>4. [k \in 1..n |-> e(k)] \in Seq(PointsOf(run, loc))
  BY <1>1, <1>3
<1> QED
  BY <1>1, <1>2, <1>3, <1>4

-----------------------------------------------------------------------------
(* Each step keeps what a request holds.                                    *)

LEMMA AskedFits ==
  ASSUME NEW kind \in Kinds, NEW start, NEW locs \in Seq(Entries), now \in 0..MaxTime,
         kind \in {"point", "snapshot"} =>
           Len(locs) = 1 /\ locs[1].loc \in [lat : Int, lon : Int] /\ ValidLocation(locs[1].loc)
  PROVE  RequestFits(Asked(kind, start, locs)) /\ Asked(kind, start, locs).now = now
<1> DEFINE q == Asked(kind, start, locs)
<1>1. /\ DOMAIN q = Fields
      /\ q.at = "mrRun" /\ q.kind = kind /\ q.now = now /\ q.start = start /\ q.locs = locs
      /\ q.runs = [m \in Models |-> None] /\ q.fallback = FALSE /\ q.warned = FALSE
  BY DEF Asked, Fields
<1>2. /\ q.mr = <<>> /\ q.data = <<>> /\ q.status = "none" /\ q.tiles = {} /\ q.broken = {}
      /\ q.forecasts = {} /\ q.errors = {}
  BY DEF Asked
<1> HIDE DEF q
<1>3. Shape(q)
  <2>1. q.at \in StepsOf[q.kind]
    BY <1>1 DEF StepsOf, Kinds
  <2> QED
    BY <1>1, <1>2, <2>1 DEF Shape, Loc
<1>4. RunFits(q)
  BY <1>1 DEF RunFits
<1>5. DataFits(q)
  BY <1>2 DEF DataFits, ToSet
<1>6. PointFits(q)
  BY <1>1 DEF PointFits
<1>7. TilesFit(q)
  BY <1>1, <1>2 DEF TilesFit
<1> QED
  BY <1>1, <1>3, <1>4, <1>5, <1>6, <1>7 DEF RequestFits, q

(* What was asked does not change, nor whether it needs the nowcast.        *)
LEMMA ShapeKept ==
  ASSUME NEW r, NEW q, NEW changed, Shape(r), Keeps(q, r, changed),
         {"kind", "now", "start", "locs"} \cap changed = {},
         q.at \in StepsOf[q.kind], q.status \in {"none", "fresh", "degraded", "stale"},
         q.fallback \in BOOLEAN, q.warned \in BOOLEAN
  PROVE  /\ Shape(q) /\ q.kind = r.kind /\ q.now = r.now /\ q.start = r.start /\ q.locs = r.locs
         /\ Loc(q) = Loc(r) /\ NeedsNowcast(q) = NeedsNowcast(r)
<1>1. {"kind", "now", "start", "locs"} \subseteq Fields \ changed
  BY DEF Fields
<1>2. q.kind = r.kind /\ q.now = r.now /\ q.start = r.start /\ q.locs = r.locs
  BY <1>1 DEF Keeps
<1>3. Loc(q) = Loc(r)
  BY <1>2 DEF Loc
<1>4. NeedsNowcast(q) = NeedsNowcast(r)
  BY <1>2 DEF NeedsNowcast
<1>5. DOMAIN q = Fields
  BY DEF Keeps
<1>6. Shape(q)
  BY <1>2, <1>3, <1>5 DEF Shape
<1> QED
  BY <1>2, <1>3, <1>4, <1>6

LEMMA FailedFits ==
  ASSUME NEW r, RequestFits(r), NEW q, q = [r EXCEPT !.at = "failed"],
         r.at \in {"mrRun", "ncRun", "mrRead"}
  PROVE  RequestFits(q) /\ q.now = r.now
<1>1. Keeps(q, r, {"at"}) /\ q.at = "failed"
  BY DEF Keeps, Fields, RequestFits, Shape
<1>2. /\ q.kind = r.kind /\ q.status = r.status /\ q.fallback = r.fallback /\ q.warned = r.warned
      /\ q.runs = r.runs /\ q.named = r.named /\ q.data = r.data
      /\ q.forecasts = r.forecasts /\ q.errors = r.errors
  BY <1>1 DEF Keeps, Fields
<1>3. q.at \in StepsOf[q.kind]
  BY <1>1, <1>2 DEF RequestFits, Shape, StepsOf, Kinds
<1>s. /\ Shape(r) /\ q.status \in {"none", "fresh", "degraded", "stale"}
      /\ q.fallback \in BOOLEAN /\ q.warned \in BOOLEAN
  BY <1>2 DEF RequestFits, Shape
<1>t. {"kind", "now", "start", "locs"} \cap {"at"} = {}
  OBVIOUS
<1>4. /\ Shape(q) /\ q.now = r.now /\ Loc(q) = Loc(r) /\ NeedsNowcast(q) = NeedsNowcast(r)
  BY <1>1, <1>3, <1>s, <1>t, ShapeKept
<1>5. RunFits(q)
  BY <1>1, <1>2 DEF RequestFits, RunFits
<1>6. r.data = <<>>
  BY DEF RequestFits, DataFits
<1>7. DataFits(q)
  BY <1>2, <1>6 DEF DataFits, ToSet
<1>8. PointFits(q)
  BY <1>1 DEF PointFits
<1>9. r.kind = "batch" => r.at = "mrRun"
  BY DEF RequestFits, Shape, StepsOf
<1>10. TilesFit(q)
  BY <1>1, <1>2, <1>9 DEF RequestFits, TilesFit
<1> QED
  BY <1>4, <1>5, <1>7, <1>8, <1>10 DEF RequestFits

(* The run of the medium range.                                             *)
WithRun(r, run) ==
  [r EXCEPT !.runs["medium_range"] = run, !.named = {run},
            !.tiles = IF r.kind = "batch" THEN Tiles(r.locs) ELSE {},
            !.at = CASE r.kind = "batch" -> "tiles"
                     [] NeedsNowcast(r) -> "ncRun"
                     [] OTHER -> "mrRead"]

LEMMA MediumRangeChosen ==
  ASSUME NEW r, RequestFits(r), r.at = "mrRun", r.kind # "status",
         NEW run \in RunsOfModel("medium_range"), NEW q, q = WithRun(r, run)
  PROVE  RequestFits(q) /\ q.now = r.now
<1> DEFINE to == CASE r.kind = "batch" -> "tiles"
                   [] NeedsNowcast(r) -> "ncRun"
                   [] OTHER -> "mrRead"
           tiles == IF r.kind = "batch" THEN Tiles(r.locs) ELSE {}
<1>0. DOMAIN r = Fields /\ r.runs \in [Models -> {None} \cup (Models \X (0..MaxTime))]
  BY DEF RequestFits, Shape, RunFits
<1>1. Keeps(q, r, {"runs", "named", "tiles", "at"})
  BY <1>0 DEF Keeps, Fields, WithRun
<1>a. q.at = to /\ q.tiles = tiles /\ q.named = {run} /\ q.runs = [r.runs EXCEPT !["medium_range"] = run]
  BY <1>0 DEF Fields, WithRun
<1>b. q.runs \in [Models -> {None} \cup (Models \X (0..MaxTime))] /\ q.runs["medium_range"] = run
  BY <1>0, <1>a DEF RunsOfModel, Models
<1>2. /\ q.kind = r.kind /\ q.status = r.status /\ q.fallback = r.fallback /\ q.warned = r.warned
      /\ q.data = r.data /\ q.locs = r.locs
      /\ q.forecasts = r.forecasts /\ q.errors = r.errors /\ q.broken = r.broken
  BY <1>1 DEF Keeps, Fields
<1>c. NeedsNowcast(r) => r.kind = "point"
  BY DEF NeedsNowcast
<1>d. /\ r.kind \in Kinds /\ r.at \in StepsOf[r.kind]
      /\ to \in {"tiles", "ncRun", "mrRead"}
      /\ to = "tiles" <=> r.kind = "batch"
      /\ to = "ncRun" => NeedsNowcast(r)
      /\ to = "mrRead" => ~NeedsNowcast(r)
  BY <1>c DEF RequestFits, Shape
<1> HIDE DEF to
<1>3. q.at \in StepsOf[q.kind]
  BY <1>2, <1>a, <1>c, <1>d DEF StepsOf, Kinds
<1>s. /\ Shape(r) /\ q.status \in {"none", "fresh", "degraded", "stale"}
      /\ q.fallback \in BOOLEAN /\ q.warned \in BOOLEAN
  BY <1>2 DEF RequestFits, Shape
<1>t. {"kind", "now", "start", "locs"} \cap {"runs", "named", "tiles", "at"} = {}
  OBVIOUS
<1>4. /\ Shape(q) /\ q.now = r.now /\ Loc(q) = Loc(r) /\ NeedsNowcast(q) = NeedsNowcast(r)
  BY <1>1, <1>3, <1>s, <1>t, ShapeKept
<1>5. RunFits(q)
  BY <1>a, <1>b DEF RunFits, HasRun
<1>6. r.data = <<>>
  BY DEF RequestFits, DataFits
<1>7. DataFits(q)
  BY <1>2, <1>6 DEF DataFits, ToSet
<1>e. r.kind = "point" => r.fallback = FALSE /\ r.warned = FALSE
  BY <1>s, <1>2 DEF RequestFits, PointFits
<1>8. PointFits(q)
  BY <1>2, <1>4, <1>a, <1>d, <1>e DEF PointFits
<1>9. r.forecasts = {} /\ r.errors = {} /\ r.broken = {}
  BY DEF RequestFits, TilesFit
<1>10. TilesFit(q)
  <2>1. CASE r.kind # "batch"
    BY <1>2, <1>9, <1>a, <1>d, <2>1 DEF TilesFit
  <2>2. CASE r.kind = "batch"
    <3>1. IdsWithin(q, {}) = {}
      BY DEF IdsWithin
    <3>2. IdsOutside(q, Tiles(q.locs)) = {}
      BY DEF IdsOutside, Tiles
    <3>3. q.tiles = Tiles(q.locs) /\ q.at = "tiles" /\ q.broken = {} /\ q.forecasts = {} /\ q.errors = {}
      BY <1>2, <1>9, <1>a, <1>d, <2>2
    <3>4. q.errors = IdsWithin(q, q.broken)
      BY <3>1, <3>3
    <3>5. Ids(q.forecasts) = IdsOutside(q, q.tiles \cup q.broken)
      <4>1. q.tiles \cup q.broken = Tiles(q.locs)
        BY <3>3
      <4> QED
        BY <3>2, <3>3, <4>1 DEF Ids
    <3>6. TileAnswersFit(q)
      BY <3>3, <3>4, <3>5 DEF TileAnswersFit, Distinct
    <3> QED
      BY <3>3, <3>6 DEF TilesFit
  <2> QED
    BY <2>1, <2>2
<1> QED
  BY <1>4, <1>5, <1>7, <1>8, <1>10 DEF RequestFits

(* Steps of a point request.                                                *)
WithNowcast(r, run) == [r EXCEPT !.at = "mrRead", !.runs["nowcast"] = run, !.named = @ \cup {run}]
WithoutNowcast(r)   == [r EXCEPT !.at = "mrRead", !.fallback = TRUE, !.warned = TRUE]
WithMediumRange(r)  == [r EXCEPT !.mr = ReadPoint(r.runs["medium_range"], Loc(r)), !.at = "ncRead"]

LEMMA NowcastChosen ==
  ASSUME NEW r, RequestFits(r), r.at = "ncRun", r.kind = "point",
         NEW run \in RunsOfModel("nowcast"), NEW q, q = WithNowcast(r, run)
  PROVE  RequestFits(q) /\ q.now = r.now
<1>0. DOMAIN r = Fields /\ r.runs \in [Models -> {None} \cup (Models \X (0..MaxTime))]
  BY DEF RequestFits, Shape, RunFits
<1>1. Keeps(q, r, {"runs", "named", "at"})
  BY <1>0 DEF Keeps, Fields, WithNowcast
<1>a. q.at = "mrRead" /\ q.named = r.named \cup {run} /\ q.runs = [r.runs EXCEPT !["nowcast"] = run]
  BY <1>0 DEF Fields, WithNowcast
<1>b. /\ q.runs \in [Models -> {None} \cup (Models \X (0..MaxTime))]
      /\ q.runs["nowcast"] = run /\ q.runs["medium_range"] = r.runs["medium_range"]
  BY <1>0, <1>a DEF RunsOfModel, Models
<1>2. /\ q.kind = r.kind /\ q.status = r.status /\ q.fallback = r.fallback /\ q.warned = r.warned
      /\ q.data = r.data /\ q.forecasts = r.forecasts /\ q.errors = r.errors
  BY <1>1 DEF Keeps, Fields
<1>3. q.at \in StepsOf[q.kind]
  BY <1>2, <1>a DEF StepsOf
<1>s. /\ Shape(r) /\ q.status \in {"none", "fresh", "degraded", "stale"}
      /\ q.fallback \in BOOLEAN /\ q.warned \in BOOLEAN
  BY <1>2 DEF RequestFits, Shape
<1>t. {"kind", "now", "start", "locs"} \cap {"runs", "named", "at"} = {}
  OBVIOUS
<1>4. /\ Shape(q) /\ q.now = r.now /\ Loc(q) = Loc(r) /\ NeedsNowcast(q) = NeedsNowcast(r)
  BY <1>1, <1>3, <1>s, <1>t, ShapeKept
<1>5. HasRun(q, "medium_range") /\ HasRun(q, "nowcast")
  <2>1. HasRun(r, "medium_range")
    BY DEF RequestFits, RunFits
  <2> QED
    BY <2>1, <1>a, <1>b DEF HasRun
<1>6. RunFits(q)
  BY <1>5, <1>b DEF RunFits
<1>7. r.data = <<>> /\ r.forecasts = {} /\ r.errors = {}
  BY DEF RequestFits, DataFits, TilesFit
<1>8. DataFits(q)
  BY <1>2, <1>7 DEF DataFits, ToSet
<1>9. r.fallback = FALSE /\ r.warned = FALSE /\ NeedsNowcast(r)
  BY <1>2, <1>s DEF RequestFits, PointFits
<1>10. PointFits(q)
  BY <1>2, <1>4, <1>5, <1>9, <1>a DEF PointFits
<1>11. TilesFit(q)
  BY <1>2, <1>7, <1>a DEF TilesFit
<1> QED
  BY <1>4, <1>6, <1>8, <1>10, <1>11 DEF RequestFits

LEMMA NowcastMissing ==
  ASSUME NEW r, RequestFits(r), r.at = "ncRun", r.kind = "point", NEW q, q = WithoutNowcast(r)
  PROVE  RequestFits(q) /\ q.now = r.now
<1>0. DOMAIN r = Fields
  BY DEF RequestFits, Shape
<1>1. Keeps(q, r, {"fallback", "warned", "at"})
  BY <1>0 DEF Keeps, Fields, WithoutNowcast
<1>a. q.at = "mrRead" /\ q.fallback = TRUE /\ q.warned = TRUE
  BY <1>0 DEF Fields, WithoutNowcast
<1>2. /\ q.kind = r.kind /\ q.status = r.status /\ q.runs = r.runs /\ q.named = r.named
      /\ q.data = r.data /\ q.forecasts = r.forecasts /\ q.errors = r.errors
  BY <1>1 DEF Keeps, Fields
<1>3. q.at \in StepsOf[q.kind]
  BY <1>2, <1>a DEF StepsOf
<1>s. /\ Shape(r) /\ q.status \in {"none", "fresh", "degraded", "stale"}
      /\ q.fallback \in BOOLEAN /\ q.warned \in BOOLEAN
  BY <1>2, <1>a DEF RequestFits, Shape
<1>t. {"kind", "now", "start", "locs"} \cap {"fallback", "warned", "at"} = {}
  OBVIOUS
<1>4. /\ Shape(q) /\ q.now = r.now /\ Loc(q) = Loc(r) /\ NeedsNowcast(q) = NeedsNowcast(r)
  BY <1>1, <1>3, <1>s, <1>t, ShapeKept
<1>6. RunFits(q)
  BY <1>2, <1>a DEF RequestFits, RunFits, HasRun
<1>7. r.data = <<>> /\ r.forecasts = {} /\ r.errors = {}
  BY DEF RequestFits, DataFits, TilesFit
<1>8. DataFits(q)
  BY <1>2, <1>7 DEF DataFits, ToSet
<1>9. NeedsNowcast(r)
  BY DEF RequestFits, PointFits
<1>10. PointFits(q)
  BY <1>2, <1>4, <1>9, <1>a DEF PointFits
<1>11. TilesFit(q)
  BY <1>2, <1>7, <1>a DEF TilesFit
<1> QED
  BY <1>4, <1>6, <1>8, <1>10, <1>11 DEF RequestFits

LEMMA MediumRangeIsRead ==
  ASSUME NEW r, RequestFits(r), r.at = "mrRead", r.kind = "point", NEW q, q = WithMediumRange(r)
  PROVE  RequestFits(q) /\ q.now = r.now
<1>0. DOMAIN r = Fields
  BY DEF RequestFits, Shape
<1>1. Keeps(q, r, {"mr", "at"})
  BY <1>0 DEF Keeps, Fields, WithMediumRange
<1>a. q.at = "ncRead" /\ q.mr = ReadPoint(r.runs["medium_range"], Loc(r))
  BY <1>0 DEF Fields, WithMediumRange
<1>2. /\ q.kind = r.kind /\ q.status = r.status /\ q.runs = r.runs /\ q.named = r.named
      /\ q.fallback = r.fallback /\ q.warned = r.warned
      /\ q.data = r.data /\ q.forecasts = r.forecasts /\ q.errors = r.errors
  BY <1>1 DEF Keeps, Fields
<1>3. q.at \in StepsOf[q.kind]
  BY <1>2, <1>a DEF StepsOf
<1>s. /\ Shape(r) /\ q.status \in {"none", "fresh", "degraded", "stale"}
      /\ q.fallback \in BOOLEAN /\ q.warned \in BOOLEAN
  BY <1>2, <1>a DEF RequestFits, Shape
<1>t. {"kind", "now", "start", "locs"} \cap {"mr", "at"} = {}
  OBVIOUS
<1>4. /\ Shape(q) /\ q.now = r.now /\ Loc(q) = Loc(r) /\ NeedsNowcast(q) = NeedsNowcast(r)
  BY <1>1, <1>3, <1>s, <1>t, ShapeKept
<1>6. RunFits(q)
  BY <1>2, <1>a DEF RequestFits, RunFits, HasRun
<1>7. r.data = <<>> /\ r.forecasts = {} /\ r.errors = {}
  BY DEF RequestFits, DataFits, TilesFit
<1>8. DataFits(q)
  BY <1>2, <1>7 DEF DataFits, ToSet
<1>9. \/ r.fallback = TRUE /\ r.warned = TRUE /\ NeedsNowcast(r)
      \/ r.fallback = FALSE /\ r.warned = FALSE /\ (NeedsNowcast(r) => HasRun(r, "nowcast"))
  BY <1>2, <1>s DEF RequestFits, PointFits
<1>10. PointFits(q)
  <2>1. HasRun(q, "nowcast") <=> HasRun(r, "nowcast")
    BY <1>2 DEF HasRun
  <2>2. q.mr = ReadPoint(q.runs["medium_range"], Loc(q))
    BY <1>2, <1>4, <1>a
  <2>3. \/ q.fallback = TRUE /\ q.warned = TRUE /\ NeedsNowcast(q)
        \/ q.fallback = FALSE /\ q.warned = FALSE /\ (NeedsNowcast(q) => HasRun(q, "nowcast"))
    BY <1>2, <1>4, <1>9, <2>1
  <2> QED
    BY <1>a, <2>2, <2>3 DEF PointFits
<1>11. TilesFit(q)
  BY <1>2, <1>7, <1>a DEF TilesFit
<1> QED
  BY <1>4, <1>6, <1>8, <1>10, <1>11 DEF RequestFits

(* What a point request is answered with, by the runs it was read from.     *)
LEMMA MediumRangeAlone ==
  ASSUME NEW r, HasRun(r, "medium_range"), r.mr = ReadPoint(r.runs["medium_range"], Loc(r))
  PROVE  \A p \in ToSet(BlendForecasts(r.now, r.mr, <<>>)) : IsRead(r, p) /\ p.source = "medium_range"
<1>0. PICK run : run = r.runs["medium_range"]
  OBVIOUS
<1>1. run \in RunsOfModel("medium_range") /\ "medium_range" \in Models
  BY <1>0 DEF HasRun, Models
<1>2. BlendForecasts(r.now, r.mr, <<>>) = ReadPoint(run, Loc(r))
  BY <1>0 DEF BlendForecasts
<1> SUFFICES ASSUME NEW p \in ToSet(ReadPoint(run, Loc(r)))
             PROVE  IsRead(r, p) /\ p.source = "medium_range"
  BY <1>2
<1>3. p \in PointsOf(run, Loc(r))
  BY <1>1, ReadPointIsSeq DEF ToSet
<1>4. PICK k \in Nat : p = Point(run, k, Loc(r))
  BY <1>3 DEF PointsOf
<1>5. p.source = "medium_range"
  BY <1>1, <1>4, PointHas
<1> QED
  BY <1>0, <1>1, <1>4, <1>5 DEF IsRead

LEMMA BothModels ==
  ASSUME NEW r, HasRun(r, "medium_range"), HasRun(r, "nowcast"), r.now \in Nat,
         r.mr = ReadPoint(r.runs["medium_range"], Loc(r)),
         NEW nc, nc = ReadPoint(r.runs["nowcast"], Loc(r))
  PROVE  /\ \A p \in ToSet(BlendForecasts(r.now, r.mr, nc)) : IsRead(r, p)
         /\ \E p \in ToSet(BlendForecasts(r.now, r.mr, nc)) : p.source = "nowcast"
<1>0. PICK run, cast, loc, t, mr :
        /\ run = r.runs["medium_range"] /\ cast = r.runs["nowcast"] /\ loc = Loc(r) /\ t = r.now
        /\ mr = r.mr
  OBVIOUS
<1>1. /\ run \in RunsOfModel("medium_range") /\ cast \in RunsOfModel("nowcast")
      /\ "medium_range" \in Models /\ "nowcast" \in Models
      /\ mr = ReadPoint(run, loc) /\ nc = ReadPoint(cast, loc) /\ t \in Nat
  BY <1>0 DEF HasRun, Models
<1> DEFINE P == PointsOf(run, loc)
           Q == PointsOf(cast, loc)
           T == P \cup Q
<1>2. mr \in Seq(P) /\ \A i \in DOMAIN mr : mr[i] \in P
  BY <1>1, ReadPointIsSeq
<1>3. nc \in Seq(Q) /\ \A i \in DOMAIN nc : nc[i] \in Q
  BY <1>1, ReadPointIsSeq
<1>4. /\ nc # <<>> /\ 1 \in DOMAIN nc
      /\ nc[1].source = "nowcast" /\ nc[1].valid = ZeroTime
  <2>1. /\ TimeSteps(cast) \in Nat \ {0} /\ DOMAIN nc = 1..TimeSteps(cast) /\ nc # <<>>
        /\ \A k \in 1..TimeSteps(cast) : nc[k] = Point(cast, k - 1, loc)
    BY <1>1, ReadPointHas
  <2>2. 1 \in 1..TimeSteps(cast)
    BY <2>1
  <2>3. nc[1] = Point(cast, 1 - 1, loc)
    BY <2>1, <2>2
  <2>4. nc[1].source = "nowcast" /\ nc[1].valid = ZeroTime
    BY <1>1, <2>3, PointHas
  <2> QED
    BY <2>1, <2>2, <2>4
<1>5. \A p \in T : IsRead(r, p)
  BY <1>0, <1>1 DEF IsRead, PointsOf
<1> HIDE DEF P, Q
<1>7. mr \in Seq(T) /\ nc \in Seq(T)
  BY <1>2, <1>3
<1> HIDE DEF T
<1>8. ToSet(BlendForecasts(t, mr, nc)) = BlendPoints(t, mr, nc)
  BY <1>1, <1>4, <1>7, BlendHas
<1>9. \A p \in BlendPoints(t, mr, nc) : p \in T
  BY <1>2, <1>3 DEF BlendPoints, Near, Rest, T
<1>10. nc[1] \in BlendPoints(t, mr, nc)
  <2>1. t \in Nat /\ NowcastHorizon \in Nat
    BY <1>1, ForecastsAssumption
  <2>2. nc[1].valid < t + NowcastHorizon
    BY <1>4, <2>1 DEF ZeroTime
  <2> QED
    BY <1>4, <2>2 DEF BlendPoints, Near
<1> QED
  BY <1>0, <1>4, <1>5, <1>8, <1>9, <1>10

(* The status of an answer: "fresh" only of a healthy run, with the nowcast. *)
StatusOf(r) ==
  LET s == MediumRangeStatus(r.now - r.runs["medium_range"][2])
  IN  IF r.fallback /\ s = "fresh" THEN "degraded" ELSE s

LEMMA FreshIsHealthy ==
  ASSUME NEW age \in Int
  PROVE  /\ MediumRangeStatus(age) \in {"fresh", "degraded", "stale"}
         /\ MediumRangeStatus(age) = "fresh" => Health("medium_range", age) = "healthy"
<1>1. /\ MediumRangeHealthyAge \in Nat /\ MediumRangeDegradedAge \in Nat
      /\ MediumRangeHealthyAge < MediumRangeDegradedAge
  BY ForecastsAssumption
<1>2. CASE age <= MediumRangeHealthyAge
  <2>1. Health("medium_range", age) = "healthy"
    BY <1>1, <1>2 DEF Health
  <2>2. MediumRangeStatus(age) = "fresh"
    BY <1>1, <1>2 DEF MediumRangeStatus
  <2> QED
    BY <2>1, <2>2
<1>3. CASE ~(age <= MediumRangeHealthyAge)
  BY <1>1, <1>3 DEF MediumRangeStatus
<1> QED
  BY <1>2, <1>3

LEMMA StatusFits ==
  ASSUME NEW r, r.now \in Nat, HasRun(r, "medium_range")
  PROVE  /\ StatusOf(r) \in {"fresh", "degraded", "stale"}
         /\ StatusOf(r) = "fresh" =>
              ~r.fallback /\ Health("medium_range", r.now - r.runs["medium_range"][2]) = "healthy"
<1>1. r.now - r.runs["medium_range"][2] \in Int
  BY ForecastsAssumption DEF HasRun, RunsOfModel
<1>2. PICK age \in Int : age = r.now - r.runs["medium_range"][2]
  BY <1>1
<1>3. StatusOf(r) = IF r.fallback /\ MediumRangeStatus(age) = "fresh" THEN "degraded"
                    ELSE MediumRangeStatus(age)
  BY <1>2 DEF StatusOf
<1> QED
  BY <1>2, <1>3, FreshIsHealthy

(* An answer to a point request.                                            *)
Responded(r, nc, w) ==
  [r EXCEPT !.at = "answered", !.warned = w, !.data = BlendForecasts(r.now, r.mr, nc),
            !.status = StatusOf(r)]

LEMMA RespondedFits ==
  ASSUME NEW r, RequestFits(r), r.at = "ncRead", r.kind = "point", NEW nc, NEW w \in BOOLEAN,
         w => NeedsNowcast(r),
         \A p \in ToSet(BlendForecasts(r.now, r.mr, nc)) : IsRead(r, p),
         NeedsNowcast(r) => (w <=> \A p \in ToSet(BlendForecasts(r.now, r.mr, nc)) :
                                      p.source = "medium_range"),
         NEW q, q = Responded(r, nc, w)
  PROVE  RequestFits(q) /\ q.now = r.now
<1>0. DOMAIN r = Fields /\ r.fallback \in BOOLEAN /\ r.now \in Nat
  BY ForecastsAssumption DEF RequestFits, Shape
<1>1. Keeps(q, r, {"at", "warned", "data", "status"})
  BY <1>0 DEF Keeps, Fields, Responded
<1>a. /\ q.at = "answered" /\ q.warned = w /\ q.data = BlendForecasts(r.now, r.mr, nc)
      /\ q.status = StatusOf(r)
  BY <1>0 DEF Fields, Responded
<1>2. /\ q.kind = r.kind /\ q.runs = r.runs /\ q.named = r.named /\ q.fallback = r.fallback
      /\ q.forecasts = r.forecasts /\ q.errors = r.errors /\ q.now = r.now
  BY <1>1 DEF Keeps, Fields
<1>b. HasRun(r, "medium_range")
  BY DEF RequestFits, RunFits
<1>c. /\ StatusOf(r) \in {"fresh", "degraded", "stale"}
      /\ StatusOf(r) = "fresh" =>
           ~r.fallback /\ Health("medium_range", r.now - r.runs["medium_range"][2]) = "healthy"
  BY <1>0, <1>b, StatusFits
<1>3. q.at \in StepsOf[q.kind]
  BY <1>2, <1>a DEF StepsOf
<1>s. /\ Shape(r) /\ q.status \in {"none", "fresh", "degraded", "stale"}
      /\ q.fallback \in BOOLEAN /\ q.warned \in BOOLEAN
  BY <1>0, <1>2, <1>a, <1>c DEF RequestFits
<1>t. {"kind", "now", "start", "locs"} \cap {"at", "warned", "data", "status"} = {}
  OBVIOUS
<1>4. /\ Shape(q) /\ q.now = r.now /\ Loc(q) = Loc(r) /\ NeedsNowcast(q) = NeedsNowcast(r)
  BY <1>1, <1>3, <1>s, <1>t, ShapeKept
<1>6. RunFits(q)
  BY <1>2, <1>b DEF RequestFits, RunFits, HasRun
<1>7. r.forecasts = {} /\ r.errors = {}
  BY DEF RequestFits, TilesFit
<1>8. DataFits(q)
  <2>1. \A p : IsRead(r, p) => IsRead(q, p)
    BY <1>2, <1>4 DEF IsRead, HasRun
  <2> QED
    BY <1>2, <1>a, <2>1 DEF DataFits
<1>9. IsAnnounced(q)
  <2>1. NeedsNowcast(q) => (q.warned <=> \A p \in ToSet(q.data) : p.source = "medium_range")
    BY <1>4, <1>a
  <2>2. q.warned => NeedsNowcast(q)
    BY <1>4, <1>a
  <2>3. q.status = "fresh" =>
          ~q.fallback /\ Health("medium_range", q.now - q.runs["medium_range"][2]) = "healthy"
    BY <1>2, <1>a, <1>c
  <2> QED
    BY <2>1, <2>2, <2>3 DEF IsAnnounced
<1>10. PointFits(q)
  BY <1>9, <1>a DEF PointFits
<1>11. TilesFit(q)
  BY <1>2, <1>7, <1>a DEF TilesFit
<1> QED
  BY <1>4, <1>6, <1>8, <1>10, <1>11 DEF RequestFits

(* The three ways to answer: with the nowcast, without it because it could   *)
(* not be read, and without it because it was not needed or not to be had.   *)
Answers(r, nc, w) ==
  \/ NeedsNowcast(r) /\ ~r.fallback /\ nc = ReadPoint(r.runs["nowcast"], Loc(r)) /\ w = r.warned
  \/ NeedsNowcast(r) /\ ~r.fallback /\ nc = <<>> /\ w = TRUE
  \/ ~(NeedsNowcast(r) /\ ~r.fallback) /\ nc = <<>> /\ w = r.warned

LEMMA AnswerFits ==
  ASSUME NEW r, RequestFits(r), r.at = "ncRead", r.kind = "point", NEW nc, NEW w,
         Answers(r, nc, w), NEW q, q = Responded(r, nc, w)
  PROVE  RequestFits(q) /\ q.now = r.now
<1> DEFINE points == ToSet(BlendForecasts(r.now, r.mr, nc))
<1>0. r.fallback \in BOOLEAN /\ r.warned \in BOOLEAN /\ r.now \in Nat
  BY ForecastsAssumption DEF RequestFits, Shape
<1>1. \/ r.fallback = TRUE /\ r.warned = TRUE /\ NeedsNowcast(r)
      \/ r.fallback = FALSE /\ r.warned = FALSE /\ (NeedsNowcast(r) => HasRun(r, "nowcast"))
  BY <1>0 DEF RequestFits, PointFits
<1>2. HasRun(r, "medium_range") /\ r.mr = ReadPoint(r.runs["medium_range"], Loc(r))
  BY DEF RequestFits, RunFits, PointFits
<1>3. nc = <<>> => \A p \in points : IsRead(r, p) /\ p.source = "medium_range"
  <2> SUFFICES ASSUME nc = <<>> PROVE \A p \in points : IsRead(r, p) /\ p.source = "medium_range"
    OBVIOUS
  <2> QED
    BY <1>2, MediumRangeAlone
<1>4. HasRun(r, "nowcast") /\ nc = ReadPoint(r.runs["nowcast"], Loc(r)) =>
        (\A p \in points : IsRead(r, p)) /\ (\E p \in points : p.source = "nowcast")
  BY <1>0, <1>2, BothModels
<1> HIDE DEF points
<1>5. /\ w \in BOOLEAN /\ (w => NeedsNowcast(r))
      /\ \A p \in points : IsRead(r, p)
      /\ NeedsNowcast(r) => (w <=> \A p \in points : p.source = "medium_range")
  <2>1. CASE NeedsNowcast(r) /\ ~r.fallback
             /\ nc = ReadPoint(r.runs["nowcast"], Loc(r)) /\ w = r.warned
    <3>1. w = FALSE /\ HasRun(r, "nowcast")
      BY <1>1, <2>1
    <3>2. (\A p \in points : IsRead(r, p)) /\ (\E p \in points : p.source = "nowcast")
      BY <1>4, <2>1, <3>1
    <3> QED
      BY <3>1, <3>2
  <2>2. CASE NeedsNowcast(r) /\ ~r.fallback /\ nc = <<>> /\ w = TRUE
    BY <1>3, <2>2
  <2>3. CASE ~(NeedsNowcast(r) /\ ~r.fallback) /\ nc = <<>> /\ w = r.warned
    <3>1. \/ w = TRUE /\ NeedsNowcast(r)
          \/ w = FALSE /\ ~NeedsNowcast(r)
      BY <1>1, <2>3
    <3> QED
      BY <1>3, <2>3, <3>1
  <2> QED
    BY <2>1, <2>2, <2>3 DEF Answers
<1> QED
  BY <1>5, RespondedFits DEF points

(* Steps of the other requests.                                             *)
WithSnapshot(r) ==
  [r EXCEPT !.at = "answered", !.data = <<ReadPoint(r.runs["medium_range"], Loc(r))[1]>>]
Places(r, tile)    == {i \in DOMAIN r.locs : CalculateTileID(r.locs[i].loc) = tile}
ResultsOf(r, tile) == TileResults(r.runs["medium_range"], r.locs, Places(r, tile))
TileFailed(r, tile) ==
  [r EXCEPT !.tiles = @ \ {tile}, !.broken = @ \cup {tile},
            !.errors = @ \cup IdsWithin(r, {tile})]
TileRead(r, tile) ==
  [r EXCEPT !.tiles = @ \ {tile}, !.forecasts = Put(@, ResultsOf(r, tile))]
Gathered(r)               == [r EXCEPT !.at = "answered", !.status = "fresh"]
WithHealth(r, to, health) == [r EXCEPT !.at = to, !.health = health]

LEMMA SnapshotFits ==
  ASSUME NEW r, RequestFits(r), r.at = "mrRead", r.kind = "snapshot", NEW q, q = WithSnapshot(r)
  PROVE  RequestFits(q) /\ q.now = r.now
<1>0. DOMAIN r = Fields
  BY DEF RequestFits, Shape
<1>1. Keeps(q, r, {"data", "at"})
  BY <1>0 DEF Keeps, Fields, WithSnapshot
<1>a. q.at = "answered" /\ q.data = <<ReadPoint(r.runs["medium_range"], Loc(r))[1]>>
  BY <1>0 DEF Fields, WithSnapshot
<1>2. /\ q.kind = r.kind /\ q.status = r.status /\ q.runs = r.runs /\ q.named = r.named
      /\ q.fallback = r.fallback /\ q.warned = r.warned
      /\ q.forecasts = r.forecasts /\ q.errors = r.errors
  BY <1>1 DEF Keeps, Fields
<1>3. q.at \in StepsOf[q.kind]
  BY <1>2, <1>a DEF StepsOf
<1>s. /\ Shape(r) /\ q.status \in {"none", "fresh", "degraded", "stale"}
      /\ q.fallback \in BOOLEAN /\ q.warned \in BOOLEAN
  BY <1>2, <1>a DEF RequestFits, Shape
<1>t. {"kind", "now", "start", "locs"} \cap {"data", "at"} = {}
  OBVIOUS
<1>4. /\ Shape(q) /\ q.now = r.now /\ Loc(q) = Loc(r) /\ NeedsNowcast(q) = NeedsNowcast(r)
  BY <1>1, <1>3, <1>s, <1>t, ShapeKept
<1>5. HasRun(r, "medium_range")
  BY DEF RequestFits, RunFits
<1>6. RunFits(q)
  BY <1>2, <1>5, <1>a DEF RequestFits, RunFits, HasRun
<1>7. r.forecasts = {} /\ r.errors = {}
  BY DEF RequestFits, TilesFit
<1>8. DataFits(q)
  <2>0. PICK run, p : run = r.runs["medium_range"] /\ p = ReadPoint(run, Loc(r))[1]
    OBVIOUS
  <2>1. run \in RunsOfModel("medium_range") /\ "medium_range" \in Models
    BY <1>5, <2>0 DEF HasRun, Models
  <2>2. /\ TimeSteps(run) \in Nat \ {0}
        /\ \A k \in 1..TimeSteps(run) : ReadPoint(run, Loc(r))[k] = Point(run, k - 1, Loc(r))
    BY <2>1, ReadPointHas
  <2>3. 1 \in 1..TimeSteps(run) /\ 1 - 1 \in Nat
    BY <2>2
  <2>4. p = Point(run, 1 - 1, Loc(r))
    BY <2>0, <2>2, <2>3
  <2>5. HasRun(q, "medium_range") /\ q.runs["medium_range"] = run /\ Loc(q) = Loc(r)
    BY <1>2, <1>4, <1>5, <2>0 DEF HasRun
  <2>6. IsRead(q, p)
    BY <2>1, <2>3, <2>4, <2>5 DEF IsRead
  <2>7. q.data = <<p>>
    BY <1>a, <2>0
  <2>8. ToSet(<<p>>) = {p}
    BY DEF ToSet
  <2> QED
    BY <1>2, <1>a, <2>6, <2>7, <2>8 DEF DataFits
<1>10. PointFits(q)
  BY <1>2 DEF PointFits
<1>11. TilesFit(q)
  BY <1>2, <1>7, <1>a DEF TilesFit
<1> QED
  BY <1>4, <1>6, <1>8, <1>10, <1>11 DEF RequestFits

(* Among some places of a list there is a last one.                         *)
LEMMA LastPlaceHas ==
  ASSUME NEW n \in Nat, NEW places \in SUBSET (1..n), places # {}
  PROVE  LastPlace(places) \in places /\ \A i \in places : i <= LastPlace(places)
<1> DEFINE Under == {n - i : i \in places}
           IsLast(i) == \A j \in places : j <= i
<1>1. Under \in SUBSET Nat /\ Under # {}
  <2>1. \A i \in places : n - i \in Nat
    OBVIOUS
  <2>2. PICK i \in places : TRUE
    OBVIOUS
  <2>3. n - i \in Under
    OBVIOUS
  <2> QED
    BY <2>1, <2>3, Zenon
<1>2. PICK b \in Under : \A c \in Under : b <= c
  BY <1>1, LeastNumber
<1>3. PICK i \in places : b = n - i
  OBVIOUS
<1>4. IsLast(i)
  <2> SUFFICES ASSUME NEW j \in places PROVE j <= i
    OBVIOUS
  <2>1. n - j \in Under
    OBVIOUS
  <2>2. n - i <= n - j
    BY <1>2, <1>3, <2>1
  <2> QED
    BY <2>2
<1>5. LastPlace(places) = CHOOSE k \in places : IsLast(k)
  BY DEF LastPlace
<1> HIDE DEF IsLast
<1>6. LastPlace(places) \in places /\ IsLast(LastPlace(places))
  BY <1>4, <1>5
<1> QED
  BY <1>6 DEF IsLast

(* What the reader makes of an identifier: the location named is that of    *)
(* the last entry, the series that of the last entry on Earth.              *)
LEMMA ResultHas ==
  ASSUME NEW locs \in Seq(Entries), NEW places \in SUBSET DOMAIN locs, NEW run,
         NEW id \in {locs[i].id : i \in places}
  PROVE  \E i, j \in places :
           /\ locs[i].id = id /\ locs[j].id = id
           /\ ResultOf(run, locs, places, id) =
                [id |-> id, loc |-> locs[i].loc, data |-> ReadPoint(run, locs[j].loc)]
           /\ ValidLocation(locs[i].loc) => i = j
<1> DEFINE named == {i \in places : locs[i].id = id}
           valid == {i \in named : ValidLocation(locs[i].loc)}
           read  == IF valid = {} THEN named ELSE valid
<1>1. Len(locs) \in Nat /\ DOMAIN locs = 1..Len(locs)
  OBVIOUS
<1>2. named \in SUBSET (1..Len(locs)) /\ valid \in SUBSET (1..Len(locs))
  BY <1>1
<1>3. named # {}
  OBVIOUS
<1>4. PICK i \in named : i = LastPlace(named) /\ \A k \in named : k <= i
  BY <1>1, <1>2, <1>3, LastPlaceHas
<1>5. read \in SUBSET (1..Len(locs)) /\ read # {} /\ read \subseteq named
  BY <1>2, <1>3
<1>6. PICK j \in read : j = LastPlace(read) /\ \A k \in read : k <= j
  BY <1>1, <1>5, LastPlaceHas
<1>7. ValidLocation(locs[i].loc) => i = j
  <2> SUFFICES ASSUME ValidLocation(locs[i].loc) PROVE i = j
    OBVIOUS
  <2>1. i \in read
    OBVIOUS
  <2>2. i <= j /\ j <= i
    BY <1>4, <1>5, <1>6, <2>1
  <2> QED
    BY <1>1, <2>2
<1>8. ResultOf(run, locs, places, id) =
        [id |-> id, loc |-> locs[i].loc, data |-> ReadPoint(run, locs[j].loc)]
  BY <1>4, <1>6 DEF ResultOf
<1>9. i \in places /\ j \in places /\ locs[i].id = id /\ locs[j].id = id
  BY <1>5
<1> QED
  BY <1>7, <1>8, <1>9

(* The results of a tile: one for each identifier with a location in it.    *)
LEMMA ResultsHave ==
  ASSUME NEW r, Shape(r), NEW tile
  PROVE  /\ Ids(ResultsOf(r, tile)) = IdsWithin(r, {tile})
         /\ Distinct(ResultsOf(r, tile))
         /\ \A f \in ResultsOf(r, tile) : IsResult(r, f)
<1> DEFINE places == Places(r, tile)
<1>0. PICK locs \in Seq(Entries) : locs = r.locs
  BY DEF Shape
<1>1. PICK run : locs = r.locs /\ run = r.runs["medium_range"]
  BY <1>0
<1>2. places \in SUBSET DOMAIN locs /\ IdsWithin(r, {tile}) = {locs[i].id : i \in places}
  BY <1>1 DEF Places, IdsWithin
<1>3. ResultsOf(r, tile) = {ResultOf(run, locs, places, id) : id \in {locs[i].id : i \in places}}
  BY <1>1 DEF ResultsOf, TileResults
<1> HIDE DEF places
<1>4. \A id \in {locs[i].id : i \in places} :
        /\ ResultOf(run, locs, places, id).id = id
        /\ IsResult(r, ResultOf(run, locs, places, id))
  <2> SUFFICES ASSUME NEW id \in {locs[i].id : i \in places}
               PROVE  /\ ResultOf(run, locs, places, id).id = id
                      /\ IsResult(r, ResultOf(run, locs, places, id))
    OBVIOUS
  <2>0. \E i, j \in places :
          /\ locs[i].id = id /\ locs[j].id = id
          /\ ResultOf(run, locs, places, id) =
               [id |-> id, loc |-> locs[i].loc, data |-> ReadPoint(run, locs[j].loc)]
          /\ ValidLocation(locs[i].loc) => i = j
    BY <1>2, ResultHas
  <2>1. PICK i \in places, j \in places :
          /\ locs[i].id = id /\ locs[j].id = id
          /\ ResultOf(run, locs, places, id) =
               [id |-> id, loc |-> locs[i].loc, data |-> ReadPoint(run, locs[j].loc)]
          /\ ValidLocation(locs[i].loc) => i = j
    BY <2>0
  <2>2. PICK f : f = ResultOf(run, locs, places, id)
    OBVIOUS
  <2>3. f.id = id /\ f.loc = locs[i].loc /\ f.data = ReadPoint(run, locs[j].loc)
    BY <2>1, <2>2
  <2>4. i \in DOMAIN r.locs /\ j \in DOMAIN r.locs
    BY <1>1, <1>2
  <2>5. IsResult(r, f)
    BY <1>1, <2>1, <2>3, <2>4 DEF IsResult
  <2> QED
    BY <2>2, <2>3, <2>5
<1> DEFINE Rsl(id) == ResultOf(run, locs, places, id)
           ids == {locs[i].id : i \in places}
<1>5. ResultsOf(r, tile) = {Rsl(id) : id \in ids} /\ \A id \in ids : Rsl(id).id = id /\ IsResult(r, Rsl(id))
  BY <1>3, <1>4
<1>6. IdsWithin(r, {tile}) = ids
  BY <1>2
<1> HIDE DEF Rsl, ids
<1> QED
  BY <1>5, <1>6 DEF Ids, Distinct

(* Putting results into a map.                                              *)
LEMMA PutHas ==
  ASSUME NEW forecasts, NEW results, Distinct(forecasts), Distinct(results)
  PROVE  /\ Ids(Put(forecasts, results)) = Ids(forecasts) \cup Ids(results)
         /\ Distinct(Put(forecasts, results))
         /\ Put(forecasts, results) \subseteq forecasts \cup results
<1>1. Put(forecasts, results) \subseteq forecasts \cup results
  BY DEF Put
<1>2. Distinct(Put(forecasts, results))
  BY DEF Put, Distinct
<1>3. Ids(Put(forecasts, results)) \subseteq Ids(forecasts) \cup Ids(results)
  BY <1>1 DEF Ids
<1>4. Ids(results) \subseteq Ids(Put(forecasts, results))
  BY DEF Ids, Put
<1>5. \A f \in forecasts : f.id \in Ids(Put(forecasts, results))
  <2> SUFFICES ASSUME NEW f \in forecasts PROVE f.id \in Ids(Put(forecasts, results))
    OBVIOUS
  <2>1. CASE \E g \in results : g.id = f.id
    BY <1>4, <2>1 DEF Ids
  <2>2. CASE \A g \in results : g.id # f.id
    BY <2>2 DEF Put, Ids
  <2> QED
    BY <2>1, <2>2
<1>6. Ids(forecasts) \subseteq Ids(Put(forecasts, results))
  BY <1>5 DEF Ids
<1> QED
  BY <1>1, <1>2, <1>3, <1>4, <1>6

(* What is common to the steps of a batch.                                  *)
LEMMA BatchStepFits ==
  ASSUME NEW r, RequestFits(r), r.at = "tiles", r.kind = "batch", NEW q,
         Keeps(q, r, {"at", "status", "tiles", "broken", "errors", "forecasts"}),
         q.at \in {"tiles", "answered"}, q.status \in {"none", "fresh", "degraded", "stale"},
         q.tiles \cap q.broken = {},
         q.errors = IdsWithin(r, q.broken),
         Ids(q.forecasts) = IdsOutside(r, q.tiles \cup q.broken),
         Distinct(q.forecasts),
         \A f \in q.forecasts : IsResult(r, f),
         q.at = "answered" => q.tiles = {}
  PROVE  RequestFits(q) /\ q.now = r.now
<1>1. Keeps(q, r, {"at", "status", "tiles", "broken", "errors", "forecasts"})
  OBVIOUS
<1>2. /\ q.kind = r.kind /\ q.runs = r.runs /\ q.named = r.named /\ q.locs = r.locs
      /\ q.fallback = r.fallback /\ q.warned = r.warned /\ q.data = r.data
  BY <1>1 DEF Keeps, Fields
<1>3. q.at \in StepsOf[q.kind]
  BY <1>2 DEF StepsOf
<1>s. /\ Shape(r) /\ q.fallback \in BOOLEAN /\ q.warned \in BOOLEAN
  BY <1>2 DEF RequestFits, Shape
<1>t. {"kind", "now", "start", "locs"}
        \cap {"at", "status", "tiles", "broken", "errors", "forecasts"} = {}
  OBVIOUS
<1>4. /\ Shape(q) /\ q.now = r.now
  BY <1>1, <1>3, <1>s, <1>t, ShapeKept
<1>6. RunFits(q)
  BY <1>2 DEF RequestFits, RunFits, HasRun
<1>7. r.data = <<>>
  BY DEF RequestFits, DataFits
<1>8. DataFits(q)
  BY <1>2, <1>7 DEF DataFits, ToSet
<1>10. PointFits(q)
  BY <1>2 DEF PointFits
<1>11. TilesFit(q)
  <2>1. q.errors = IdsWithin(q, q.broken)
    BY <1>2 DEF IdsWithin
  <2>2. Ids(q.forecasts) = IdsOutside(q, q.tiles \cup q.broken)
    BY <1>2 DEF IdsOutside
  <2>3. \A f \in q.forecasts : IsResult(q, f)
    BY <1>2 DEF IsResult
  <2>4. TileAnswersFit(q)
    BY <2>1, <2>2, <2>3 DEF TileAnswersFit
  <2>5. q.at # "mrRun" /\ q.at # "failed"
    OBVIOUS
  <2> QED
    BY <1>2, <2>4, <2>5 DEF TilesFit
<1> QED
  BY <1>4, <1>6, <1>8, <1>10, <1>11 DEF RequestFits

(* A tile of a batch fails or is read.                                      *)
LEMMA TileFailedFits ==
  ASSUME NEW r, RequestFits(r), r.at = "tiles", r.kind = "batch", NEW tile \in r.tiles,
         NEW q, q = TileFailed(r, tile)
  PROVE  RequestFits(q) /\ q.now = r.now
<1>0. DOMAIN r = Fields /\ r.status \in {"none", "fresh", "degraded", "stale"}
  BY DEF RequestFits, Shape
<1>1. Keeps(q, r, {"tiles", "broken", "errors"})
  BY <1>0 DEF Keeps, Fields, TileFailed
<1>2. Keeps(q, r, {"at", "status", "tiles", "broken", "errors", "forecasts"})
  BY <1>1 DEF Keeps
<1>3. /\ q.tiles = r.tiles \ {tile} /\ q.broken = r.broken \cup {tile}
      /\ q.errors = r.errors \cup IdsWithin(r, {tile})
  BY <1>0 DEF Fields, TileFailed
<1>4. q.at = r.at /\ q.status = r.status /\ q.forecasts = r.forecasts
  BY <1>1 DEF Keeps, Fields
<1>5. TileAnswersFit(r)
  BY DEF RequestFits, TilesFit
<1>6. /\ IdsWithin(r, q.broken) = IdsWithin(r, r.broken) \cup IdsWithin(r, {tile})
      /\ q.tiles \cup q.broken = r.tiles \cup r.broken
      /\ q.tiles \cap q.broken = {}
  <2>1. IdsWithin(r, q.broken) = IdsWithin(r, r.broken) \cup IdsWithin(r, {tile})
    BY <1>3 DEF IdsWithin
  <2>2. q.tiles \cup q.broken = r.tiles \cup r.broken
    BY <1>3
  <2>3. q.tiles \cap q.broken = {}
    BY <1>3, <1>5 DEF TileAnswersFit
  <2> QED
    BY <2>1, <2>2, <2>3
<1>7. q.errors = IdsWithin(r, q.broken)
  BY <1>3, <1>5, <1>6 DEF TileAnswersFit
<1>8. /\ Ids(q.forecasts) = IdsOutside(r, q.tiles \cup q.broken)
      /\ Distinct(q.forecasts) /\ \A f \in q.forecasts : IsResult(r, f)
  BY <1>4, <1>5, <1>6 DEF TileAnswersFit
<1> QED
  BY <1>0, <1>2, <1>4, <1>6, <1>7, <1>8, BatchStepFits

LEMMA TileReadFits ==
  ASSUME NEW r, RequestFits(r), r.at = "tiles", r.kind = "batch", NEW tile \in r.tiles,
         NEW q, q = TileRead(r, tile)
  PROVE  RequestFits(q) /\ q.now = r.now
<1>0. DOMAIN r = Fields /\ r.status \in {"none", "fresh", "degraded", "stale"} /\ Shape(r)
  BY DEF RequestFits, Shape
<1>1. Keeps(q, r, {"tiles", "forecasts"})
  BY <1>0 DEF Keeps, Fields, TileRead
<1>2. Keeps(q, r, {"at", "status", "tiles", "broken", "errors", "forecasts"})
  BY <1>1 DEF Keeps
<1>3. /\ q.tiles = r.tiles \ {tile}
      /\ q.forecasts = Put(r.forecasts, ResultsOf(r, tile))
  BY <1>0 DEF Fields, TileRead
<1>4. q.at = r.at /\ q.status = r.status /\ q.errors = r.errors /\ q.broken = r.broken
  BY <1>1 DEF Keeps, Fields
<1>5. TileAnswersFit(r)
  BY DEF RequestFits, TilesFit
<1>6. q.tiles \cap q.broken = {} /\ tile \notin r.broken
  BY <1>3, <1>4, <1>5 DEF TileAnswersFit
<1>7. IdsOutside(r, q.tiles \cup q.broken) = IdsOutside(r, r.tiles \cup r.broken) \cup IdsWithin(r, {tile})
  <2>1. \A t : t \notin q.tiles \cup q.broken <=> t \notin r.tiles \cup r.broken \/ t = tile
    BY <1>3, <1>4, <1>6
  <2> QED
    BY <2>1 DEF IdsOutside, IdsWithin
<1>8. PICK old, new : old = r.forecasts /\ new = ResultsOf(r, tile)
  OBVIOUS
<1>9. /\ Ids(new) = IdsWithin(r, {tile}) /\ Distinct(new) /\ \A f \in new : IsResult(r, f)
  BY <1>0, <1>8, ResultsHave
<1>10. /\ Ids(old) = IdsOutside(r, r.tiles \cup r.broken) /\ Distinct(old)
       /\ \A f \in old : IsResult(r, f)
  BY <1>5, <1>8 DEF TileAnswersFit
<1>11. /\ Ids(q.forecasts) = Ids(old) \cup Ids(new) /\ Distinct(q.forecasts)
       /\ q.forecasts \subseteq old \cup new
  BY <1>3, <1>8, <1>9, <1>10, PutHas
<1>12. /\ Ids(q.forecasts) = IdsOutside(r, q.tiles \cup q.broken) /\ Distinct(q.forecasts)
       /\ \A f \in q.forecasts : IsResult(r, f)
  BY <1>7, <1>9, <1>10, <1>11
<1>13. q.errors = IdsWithin(r, q.broken)
  BY <1>4, <1>5 DEF TileAnswersFit
<1> QED
  BY <1>0, <1>2, <1>4, <1>6, <1>12, <1>13, BatchStepFits

LEMMA GatheredFits ==
  ASSUME NEW r, RequestFits(r), r.at = "tiles", r.kind = "batch", r.tiles = {},
         NEW q, q = Gathered(r)
  PROVE  RequestFits(q) /\ q.now = r.now
<1>0. DOMAIN r = Fields
  BY DEF RequestFits, Shape
<1>1. Keeps(q, r, {"at", "status"}) /\ q.at = "answered" /\ q.status = "fresh"
  BY <1>0 DEF Keeps, Fields, Gathered
<1>2. Keeps(q, r, {"at", "status", "tiles", "broken", "errors", "forecasts"})
  BY <1>1 DEF Keeps
<1>4. q.tiles = r.tiles /\ q.forecasts = r.forecasts /\ q.errors = r.errors /\ q.broken = r.broken
  BY <1>1 DEF Keeps, Fields
<1>5. TileAnswersFit(r)
  BY DEF RequestFits, TilesFit
<1>6. /\ q.tiles \cap q.broken = {}
      /\ q.errors = IdsWithin(r, q.broken)
      /\ Ids(q.forecasts) = IdsOutside(r, q.tiles \cup q.broken)
      /\ Distinct(q.forecasts) /\ (\A f \in q.forecasts : IsResult(r, f))
      /\ q.tiles = {}
  BY <1>4, <1>5 DEF TileAnswersFit
<1> QED
  BY <1>1, <1>2, <1>6, BatchStepFits

LEMMA HealthFits ==
  ASSUME NEW r, RequestFits(r), r.kind = "status", NEW health,
         NEW to \in {"ncRun", "answered"}, NEW q, q = WithHealth(r, to, health)
  PROVE  RequestFits(q) /\ q.now = r.now
<1>0. DOMAIN r = Fields
  BY DEF RequestFits, Shape
<1>1. Keeps(q, r, {"health", "at"}) /\ q.at = to
  BY <1>0 DEF Keeps, Fields, WithHealth
<1>2. /\ q.kind = r.kind /\ q.status = r.status /\ q.runs = r.runs /\ q.named = r.named
      /\ q.fallback = r.fallback /\ q.warned = r.warned /\ q.data = r.data
      /\ q.forecasts = r.forecasts /\ q.errors = r.errors
  BY <1>1 DEF Keeps, Fields
<1>3. q.at \in StepsOf[q.kind]
  BY <1>1, <1>2 DEF StepsOf
<1>s. /\ Shape(r) /\ q.status \in {"none", "fresh", "degraded", "stale"}
      /\ q.fallback \in BOOLEAN /\ q.warned \in BOOLEAN
  BY <1>2 DEF RequestFits, Shape
<1>t. {"kind", "now", "start", "locs"} \cap {"health", "at"} = {}
  OBVIOUS
<1>4. /\ Shape(q) /\ q.now = r.now
  BY <1>1, <1>3, <1>s, <1>t, ShapeKept
<1>6. RunFits(q)
  BY <1>2 DEF RequestFits, RunFits
<1>7. r.data = <<>> /\ r.forecasts = {} /\ r.errors = {}
  BY DEF RequestFits, DataFits, TilesFit
<1>8. DataFits(q)
  BY <1>2, <1>7 DEF DataFits, ToSet
<1>10. PointFits(q)
  BY <1>2 DEF PointFits
<1>11. TilesFit(q)
  BY <1>1, <1>2, <1>7 DEF TilesFit
<1> QED
  BY <1>4, <1>6, <1>8, <1>10, <1>11 DEF RequestFits

-----------------------------------------------------------------------------
(* The invariant holds.                                                     *)
LEMMA APIInitHolds == APIInit => APIInv
BY ForecastsAssumption DEF APIInit, APIInv

(* A step that leaves the runs and the clock alone.                         *)
LEMMA RequestStep ==
  ASSUME APIInv, UNCHANGED Env,
         request' # Idle => RequestFits(request') /\ request'.now <= now
  PROVE  APIInv'
BY DEF APIInv, Env

LEMMA OneEntry ==
  ASSUME NEW loc \in Locations
  PROVE  /\ One(loc) \in Seq(Entries) /\ Len(One(loc)) = 1
         /\ One(loc)[1].loc = loc /\ loc \in [lat : Int, lon : Int]
<1>1. loc \in [lat : Int, lon : Int]
  BY ForecastsAssumption
<1>2. PICK entry \in Entries : entry = [id |-> 0, loc |-> loc]
  BY <1>1 DEF Entries
<1>3. One(loc) = <<entry>>
  BY <1>2 DEF One
<1>4. <<entry>> \in Seq(Entries) /\ Len(<<entry>>) = 1 /\ <<entry>>[1] = entry
  OBVIOUS
<1> QED
  BY <1>1, <1>2, <1>3, <1>4

LEMMA AskStep ==
  ASSUME APIInv, UNCHANGED Env, NEW kind \in Kinds, NEW start, NEW locs \in Seq(Entries),
         request' = Asked(kind, start, locs),
         kind \in {"point", "snapshot"} =>
           Len(locs) = 1 /\ locs[1].loc \in [lat : Int, lon : Int] /\ ValidLocation(locs[1].loc)
  PROVE  APIInv'
<1>1. now \in 0..MaxTime /\ now <= now
  BY ForecastsAssumption DEF APIInv
<1>2. RequestFits(Asked(kind, start, locs)) /\ Asked(kind, start, locs).now = now
  BY <1>1, AskedFits
<1> QED
  BY <1>1, <1>2, RequestStep

LEMMA AskPlaceStep ==
  ASSUME APIInv, NEW loc \in Locations, NEW start, AskPoint(loc, start) \/ AskSnapshot(loc)
  PROVE  APIInv'
<1>1. UNCHANGED Env /\ ValidLocation(loc)
  BY DEF AskPoint, AskSnapshot
<1>2. PICK kind, from : kind \in {"point", "snapshot"} /\ request' = Asked(kind, from, One(loc))
  <2>1. CASE AskPoint(loc, start)
    <3>1. request' = Asked("point", start, One(loc))
      BY <2>1 DEF AskPoint
    <3> QED
      BY <3>1
  <2>2. CASE AskSnapshot(loc)
    <3>1. request' = Asked("snapshot", now, One(loc))
      BY <2>2 DEF AskSnapshot
    <3> QED
      BY <3>1
  <2> QED
    BY <2>1, <2>2
<1>3. kind \in Kinds
  BY <1>2 DEF Kinds
<1>4. /\ One(loc) \in Seq(Entries) /\ Len(One(loc)) = 1
      /\ One(loc)[1].loc = loc /\ loc \in [lat : Int, lon : Int]
  BY OneEntry
<1> QED
  BY <1>1, <1>2, <1>3, <1>4, AskStep

LEMMA AskOtherStep ==
  ASSUME APIInv, AskStatus \/ \E b \in Batches : AskBatch(b)
  PROVE  APIInv'
<1>1. UNCHANGED Env
  BY DEF AskStatus, AskBatch
<1>2. PICK kind \in {"batch", "status"}, locs \in Batches \cup {<<>>} : request' = Asked(kind, now, locs)
  BY DEF AskStatus, AskBatch
<1>3. kind \in Kinds /\ kind \notin {"point", "snapshot"}
  BY DEF Kinds
<1>4. locs \in Seq(Entries)
  <2>1. <<>> \in Seq(Entries)
    OBVIOUS
  <2> QED
    BY <2>1, ForecastsAssumption
<1> QED
  BY <1>1, <1>2, <1>3, <1>4, AskStep

(* A step of a request keeps its time: it is enough that it fits.           *)
LEMMA FittingStep ==
  ASSUME APIInv, request # Idle, UNCHANGED Env, RequestFits(request'), request'.now = request.now
  PROVE  APIInv'
BY RequestStep DEF APIInv

LEMMA FailStep ==
  ASSUME APIInv, request # Idle, Fail, UNCHANGED Env, request.at \in {"mrRun", "ncRun", "mrRead"}
  PROVE  APIInv'
<1>1. RequestFits(request) /\ request' = [request EXCEPT !.at = "failed"]
  BY DEF APIInv, Fail
<1>2. RequestFits(request') /\ request'.now = request.now
  BY <1>1, FailedFits
<1> QED
  BY <1>2, FittingStep

LEMMA RunStep ==
  ASSUME APIInv, GetMediumRangeRun \/ GetNowcastRun
  PROVE  APIInv'
<1>1. /\ request # Idle /\ RequestFits(request) /\ UNCHANGED Env
      /\ complete \in SUBSET (Models \X (0..MaxTime))
  BY DEF APIInv, GetMediumRangeRun, GetNowcastRun, At
<1>2. CASE GetMediumRangeRun
  <2>1. request.at = "mrRun" /\ request.kind # "status"
    BY <1>2 DEF GetMediumRangeRun
  <2>2. CASE Fail
    BY <1>1, <2>1, <2>2, FailStep
  <2>3. CASE ~Fail
    <3>1. PICK run : run = GetLatestServing("medium_range") /\ run # None
                     /\ request' = WithRun(request, run)
      BY <1>2, <2>3 DEF GetMediumRangeRun, WithRun
    <3>2. run \in RunsOfModel("medium_range")
      BY <1>1, <3>1, ServingIsARun DEF Models
    <3>3. RequestFits(request') /\ request'.now = request.now
      BY <1>1, <2>1, <3>1, <3>2, MediumRangeChosen
    <3> QED
      BY <1>1, <3>3, FittingStep
  <2> QED
    BY <2>2, <2>3
<1>3. CASE GetNowcastRun
  <2>1. request.at = "ncRun" /\ request.kind = "point"
    BY <1>3 DEF GetNowcastRun, At
  <2>2. \/ /\ GetLatestServing("nowcast") # None
           /\ request' = WithNowcast(request, GetLatestServing("nowcast"))
        \/ request' = WithoutNowcast(request)
    BY <1>3 DEF GetNowcastRun, WithNowcast, WithoutNowcast
  <2>3. RequestFits(request') /\ request'.now = request.now
    <3>1. CASE request' = WithoutNowcast(request)
      BY <1>1, <2>1, <3>1, NowcastMissing
    <3>2. CASE request' # WithoutNowcast(request)
      <4>1. PICK run : run = GetLatestServing("nowcast") /\ run # None
                       /\ request' = WithNowcast(request, run)
        BY <2>2, <3>2
      <4>2. run \in RunsOfModel("nowcast")
        BY <1>1, <4>1, ServingIsARun DEF Models
      <4> QED
        BY <1>1, <2>1, <4>1, <4>2, NowcastChosen
    <3> QED
      BY <3>1, <3>2
  <2> QED
    BY <1>1, <2>3, FittingStep
<1> QED
  BY <1>2, <1>3

LEMMA ReadStep ==
  ASSUME APIInv, ReadMediumRange \/ ReadNowcast \/ ReadSnapshot
  PROVE  APIInv'
<1>1. request # Idle /\ RequestFits(request) /\ UNCHANGED Env
  BY DEF APIInv, ReadMediumRange, ReadNowcast, ReadSnapshot, At
<1>2. CASE ReadMediumRange
  <2>1. request.at = "mrRead" /\ request.kind = "point"
    BY <1>2 DEF ReadMediumRange, At
  <2>2. CASE Fail
    BY <1>1, <2>1, <2>2, FailStep
  <2>3. CASE ~Fail
    <3>1. request' = WithMediumRange(request)
      BY <1>2, <2>3 DEF ReadMediumRange, WithMediumRange, Where, Loc
    <3>2. RequestFits(request') /\ request'.now = request.now
      BY <1>1, <2>1, <3>1, MediumRangeIsRead
    <3> QED
      BY <1>1, <3>2, FittingStep
  <2> QED
    BY <2>2, <2>3
<1>3. CASE ReadNowcast
  <2>1. request.at = "ncRead" /\ request.kind = "point"
    BY <1>3 DEF ReadNowcast, At
  <2>2. \A nc, w : Respond(nc, w) <=> request' = Responded(request, nc, w)
    BY DEF Respond, Responded, StatusOf
  <2>3. PICK nc, w : request' = Responded(request, nc, w) /\ Answers(request, nc, w)
    BY <1>3, <2>2 DEF ReadNowcast, Where, Loc, Answers
  <2>4. RequestFits(request') /\ request'.now = request.now
    BY <1>1, <2>1, <2>3, AnswerFits
  <2> QED
    BY <1>1, <2>4, FittingStep
<1>4. CASE ReadSnapshot
  <2>1. request.at = "mrRead" /\ request.kind = "snapshot"
    BY <1>4 DEF ReadSnapshot, At
  <2>2. CASE Fail
    BY <1>1, <2>1, <2>2, FailStep
  <2>3. CASE ~Fail
    <3>1. request' = WithSnapshot(request)
      BY <1>4, <2>3 DEF ReadSnapshot, WithSnapshot, Where, Loc
    <3>2. RequestFits(request') /\ request'.now = request.now
      BY <1>1, <2>1, <3>1, SnapshotFits
    <3> QED
      BY <1>1, <3>2, FittingStep
  <2> QED
    BY <2>2, <2>3
<1> QED
  BY <1>2, <1>3, <1>4

LEMMA BatchStep ==
  ASSUME APIInv,
         GatherTiles \/ (request # Idle /\ \E tile \in request.tiles : ReadTile(tile))
  PROVE  APIInv'
<1>1. /\ request # Idle /\ RequestFits(request) /\ UNCHANGED Env
      /\ request.at = "tiles" /\ request.kind = "batch"
  BY DEF APIInv, GatherTiles, ReadTile, At
<1>2. RequestFits(request') /\ request'.now = request.now
  <2>1. CASE GatherTiles
    <3>1. request.tiles = {} /\ request' = Gathered(request)
      BY <2>1 DEF GatherTiles, Gathered
    <3> QED
      BY <1>1, <3>1, GatheredFits
  <2>2. ASSUME NEW tile \in request.tiles, ReadTile(tile)
        PROVE  RequestFits(request') /\ request'.now = request.now
    <3>1. IdsIn(tile) = IdsWithin(request, {tile}) /\ ResultsIn(tile) = ResultsOf(request, tile)
      BY DEF IdsIn, InTile, IdsWithin, ResultsIn, ResultsOf, Places
    <3>2. request' = TileFailed(request, tile) \/ request' = TileRead(request, tile)
      BY <2>2, <3>1 DEF ReadTile, TileFailed, TileRead
    <3>3. CASE request' = TileFailed(request, tile)
      BY <1>1, <3>3, TileFailedFits
    <3>4. CASE request' = TileRead(request, tile)
      BY <1>1, <3>4, TileReadFits
    <3> QED
      BY <3>2, <3>3, <3>4
  <2> QED
    BY <2>1, <2>2
<1> QED
  BY <1>1, <1>2, FittingStep

LEMMA HealthStep ==
  ASSUME APIInv, GetStatus
  PROVE  APIInv'
<1>1. request # Idle /\ RequestFits(request) /\ UNCHANGED Env /\ request.kind = "status"
  BY DEF APIInv, GetStatus, At
<1>2. CASE Fail /\ request.at \in {"mrRun", "ncRun"}
  BY <1>1, <1>2, FailStep
<1>3. CASE ~(Fail /\ request.at \in {"mrRun", "ncRun"})
  <2>1. PICK to, health : to \in {"ncRun", "answered"} /\ request' = WithHealth(request, to, health)
    <3>1. \/ request' = WithHealth(request, "ncRun", HealthOf("medium_range"))
          \/ request' = WithHealth(request, "answered", request.health \o HealthOf("nowcast"))
      BY <1>3 DEF GetStatus, At, WithHealth
    <3> QED
      BY <3>1
  <2>2. RequestFits(request') /\ request'.now = request.now
    BY <1>1, <2>1, HealthFits
  <2> QED
    BY <1>1, <2>2, FittingStep
<1> QED
  BY <1>2, <1>3

LEMMA APINextKeeps ==
  ASSUME APIInv, [APINext]_apiVars
  PROVE  APIInv'
<1>0. /\ complete \in SUBSET (Models \X (0..MaxTime)) /\ stored \in SUBSET (Models \X (0..MaxTime))
      /\ now \in 0..MaxTime /\ now \in Int /\ MaxTime \in Nat
      /\ request # Idle => RequestFits(request) /\ request.now \in Int /\ request.now <= now
  BY ForecastsAssumption DEF APIInv, RequestFits, Shape
<1>1. CASE Tick
  BY <1>0, <1>1 DEF Tick, APIInv
<1>2. ASSUME NEW m \in Models, Complete(m)
      PROVE  APIInv'
  <2>1. PICK t \in 0..now : /\ complete' = complete \cup {<<m, t>>}
                            /\ stored' = stored \cup {<<m, t>>} /\ UNCHANGED <<now, request>>
    BY <1>2 DEF Complete
  <2>2. <<m, t>> \in Models \X (0..MaxTime)
    BY <1>0
  <2> QED
    BY <1>0, <2>1, <2>2 DEF APIInv
<1>3. ASSUME NEW m \in Models, EnforceRetention(m)
      PROVE  APIInv'
  <2>1. complete' \subseteq complete /\ stored' \subseteq stored /\ UNCHANGED <<now, request>>
    BY <1>3 DEF EnforceRetention
  <2> QED
    BY <1>0, <2>1 DEF APIInv
<1>4. ASSUME NEW loc \in Locations, NEW start, AskPoint(loc, start) \/ AskSnapshot(loc)
      PROVE  APIInv'
  BY <1>4, AskPlaceStep
<1>5. CASE AskStatus \/ \E b \in Batches : AskBatch(b)
  BY <1>5, AskOtherStep
<1>6. CASE GetMediumRangeRun \/ GetNowcastRun
  BY <1>6, RunStep
<1>7. CASE ReadMediumRange \/ ReadNowcast \/ ReadSnapshot
  BY <1>7, ReadStep
<1>8. CASE GatherTiles \/ (request # Idle /\ \E tile \in request.tiles : ReadTile(tile))
  BY <1>8, BatchStep
<1>9. CASE GetStatus
  BY <1>9, HealthStep
<1>10. CASE Done
  BY <1>10, RequestStep DEF Done
<1>11. CASE UNCHANGED apiVars
  BY <1>0, <1>11 DEF APIInv, apiVars
<1> QED
  BY <1>1, <1>2, <1>3, <1>4, <1>5, <1>6, <1>7, <1>8, <1>9, <1>10, <1>11 DEF APINext

(* Whatever runs complete and are deleted while a request is served, for    *)
(* every place and batch asked for: what the request holds fits its step.   *)
THEOREM APIInvariantHolds == API => []APIInv
<1>1. APIInv /\ [APINext]_apiVars => APIInv'
  BY APINextKeeps
<1> QED
  BY APIInitHolds, <1>1, PTL DEF API

-----------------------------------------------------------------------------
(* What the answers hold, in each part, from what a request holds.          *)
LEMMA PointsAreOfRuns ==
  ASSUME NEW r, RequestFits(r), NEW p,
         p \in ToSet(r.data) \/ \E f \in r.forecasts : p \in ToSet(f.data)
  PROVE  \E m \in Models : HasRun(r, m) /\ p.source = m /\ p.run = r.runs[m]
<1>1. CASE p \in ToSet(r.data)
  <2>1. PICK m \in Models, k \in Nat : HasRun(r, m) /\ p = Point(r.runs[m], k, Loc(r))
    BY <1>1 DEF RequestFits, DataFits, IsRead
  <2>2. PICK run : run = r.runs[m] /\ run \in RunsOfModel(m)
    BY <2>1 DEF HasRun
  <2>3. p.source = m /\ p.run = run
    BY <2>1, <2>2, PointHas
  <2> QED
    BY <2>1, <2>2, <2>3
<1>2. ASSUME NEW f \in r.forecasts, p \in ToSet(f.data)
      PROVE  \E m \in Models : HasRun(r, m) /\ p.source = m /\ p.run = r.runs[m]
  <2>1. r.kind = "batch" /\ r.at \in {"tiles", "answered"}
    BY DEF RequestFits, TilesFit, Shape, StepsOf
  <2>2. HasRun(r, "medium_range") /\ "medium_range" \in Models
    BY <2>1 DEF RequestFits, RunFits, Models
  <2>3. PICK run : run = r.runs["medium_range"] /\ run \in RunsOfModel("medium_range")
    BY <2>2 DEF HasRun
  <2>4. PICK loc : f.data = ReadPoint(run, loc)
    BY <1>2, <2>1, <2>3 DEF RequestFits, TilesFit, TileAnswersFit, IsResult
  <2>5. p \in PointsOf(run, loc)
    BY <1>2, <2>2, <2>3, <2>4, ReadPointIsSeq DEF ToSet
  <2>6. p.source = "medium_range" /\ p.run = run
    BY <2>3, <2>5, PointHas DEF PointsOf
  <2> QED
    BY <2>2, <2>3, <2>6
<1> QED
  BY <1>1, <1>2

LEMMA OneRunHolds == APIInv => OneRunPerModel
<1> SUFFICES ASSUME APIInv, request # Idle PROVE \A p \in Points :
                      /\ p.run \in request.named
                      /\ \A q \in Points : p.source = q.source => p.run = q.run
  BY DEF OneRunPerModel
<1>1. RequestFits(request)
  BY DEF APIInv
<1>2. \A p \in Points : \E m \in Models : HasRun(request, m) /\ p.source = m /\ p.run = request.runs[m]
  <2> SUFFICES ASSUME NEW p \in Points
               PROVE  \E m \in Models : HasRun(request, m) /\ p.source = m /\ p.run = request.runs[m]
    OBVIOUS
  <2>1. p \in ToSet(request.data) \/ \E f \in request.forecasts : p \in ToSet(f.data)
    BY DEF Points
  <2> QED
    BY <1>1, <2>1, PointsAreOfRuns
<1> QED
  BY <1>2 DEF HasRun

(* Where a point was read.                                                  *)
LEMMA PointPlace ==
  ASSUME NEW run, NEW k, NEW loc \in [lat : Int, lon : Int]
  PROVE  Point(run, k, loc).place = IF ValidLocation(loc) THEN AnsweredPlace(loc) ELSE None
<1>1. Point(run, k, loc).place = IF ValidLocation(loc) THEN Place(loc) ELSE None
  BY DEF Point
<1> QED
  BY <1>1, PlacesAreAnswered

(* The locations of an identifier of the batch, and those on Earth.         *)
Named(id) == {e.loc : e \in {x \in ToSet(request.locs) : x.id = id}}
Valid(id) == {loc \in Named(id) : ValidLocation(loc)}

LEMMA LocalHolds == APIInv => AnswersAreLocal
<1> SUFFICES ASSUME APIInv, request # Idle PROVE
      /\ request.data # <<>> => \A p \in Points : p.place = AnsweredPlace(Where)
      /\ \A f \in request.forecasts :
           /\ f.loc \in Named(f.id)
           /\ \A p \in ToSet(f.data) :
                IF f.loc \in Valid(f.id) THEN p.place = AnsweredPlace(f.loc)
                ELSE p.place \in {None} \cup {AnsweredPlace(loc) : loc \in Valid(f.id)}
  BY DEF AnswersAreLocal, Valid, Named
<1>1. RequestFits(request) /\ Where = Loc(request)
  BY DEF APIInv, Where, Loc
<1>2. ASSUME request.data # <<>>, NEW p \in Points
      PROVE  p.place = AnsweredPlace(Where)
  <2>1. request.kind \in {"point", "snapshot"} /\ request.forecasts = {}
    BY <1>1, <1>2 DEF RequestFits, DataFits, TilesFit
  <2>2. PICK loc \in [lat : Int, lon : Int] : loc = Loc(request) /\ ValidLocation(loc)
    BY <1>1, <2>1 DEF RequestFits, Shape
  <2>3. p \in ToSet(request.data)
    BY <1>2, <2>1 DEF Points
  <2>4. PICK run, k : p = Point(run, k, loc)
    BY <1>1, <2>2, <2>3 DEF RequestFits, DataFits, IsRead
  <2> QED
    BY <1>1, <2>2, <2>4, PointPlace
<1>3. ASSUME NEW f \in request.forecasts
      PROVE  /\ f.loc \in Named(f.id)
             /\ \A p \in ToSet(f.data) :
                  IF f.loc \in Valid(f.id) THEN p.place = AnsweredPlace(f.loc)
                  ELSE p.place \in {None} \cup {AnsweredPlace(loc) : loc \in Valid(f.id)}
  <2>1. request.kind = "batch" /\ request.at \in {"tiles", "answered"}
    BY <1>1 DEF RequestFits, TilesFit, Shape, StepsOf
  <2>2. PICK run : run = request.runs["medium_range"] /\ run \in RunsOfModel("medium_range")
                   /\ "medium_range" \in Models
    BY <1>1, <2>1 DEF RequestFits, RunFits, HasRun, Models
  <2>3. PICK s \in Seq(Entries) : s = request.locs
    BY <1>1 DEF RequestFits, Shape
  <2>4. PICK i \in DOMAIN s, j \in DOMAIN s :
          /\ f.id = s[i].id /\ f.id = s[j].id
          /\ f.loc = s[i].loc /\ f.data = ReadPoint(run, s[j].loc)
          /\ ValidLocation(f.loc) => f.loc = s[j].loc
    BY <1>1, <2>1, <2>2, <2>3 DEF RequestFits, TilesFit, TileAnswersFit, IsResult
  <2>5. /\ s[i] \in ToSet(request.locs) /\ s[j] \in ToSet(request.locs)
        /\ s[j].loc \in [lat : Int, lon : Int]
    <3>1. \A k \in DOMAIN s : s[k] \in Entries
      OBVIOUS
    <3>2. s[j].loc \in [lat : Int, lon : Int]
      BY <3>1 DEF Entries
    <3>3. ToSet(s) = {s[k] : k \in DOMAIN s}
      BY DEF ToSet
    <3> QED
      BY <2>3, <3>2, <3>3
  <2>6. f.loc \in Named(f.id) /\ s[j].loc \in Named(f.id)
    BY <2>4, <2>5 DEF Named
  <2>7. ASSUME NEW p \in ToSet(f.data)
        PROVE  p.place = IF ValidLocation(s[j].loc) THEN AnsweredPlace(s[j].loc) ELSE None
    <3>1. p \in PointsOf(run, s[j].loc)
      BY <2>2, <2>4, <2>7, ReadPointIsSeq DEF ToSet
    <3>2. PICK k \in Nat : p = Point(run, k, s[j].loc)
      BY <3>1 DEF PointsOf
    <3> QED
      BY <2>5, <3>2, PointPlace
  <2>8. CASE ValidLocation(f.loc)
    BY <2>4, <2>6, <2>7, <2>8 DEF Valid
  <2>9. CASE ~ValidLocation(f.loc)
    <3>1. f.loc \notin Valid(f.id)
      BY <2>9 DEF Valid
    <3>2. ValidLocation(s[j].loc) => s[j].loc \in Valid(f.id)
      BY <2>6 DEF Valid
    <3> QED
      BY <2>6, <2>7, <3>1, <3>2
  <2> QED
    BY <2>8, <2>9
<1> QED
  BY <1>2, <1>3

LEMMA BatchHolds == APIInv => BatchIsWhole
<1> DEFINE asked == ToSet(request.locs)
           broken == request.broken
<1> SUFFICES ASSUME APIInv, Answered("batch")
             PROVE  /\ {f.id : f \in request.forecasts} =
                         {e.id : e \in {x \in asked : CalculateTileID(x.loc) \notin broken}}
                    /\ request.errors = {e.id : e \in {x \in asked : CalculateTileID(x.loc) \in broken}}
                    /\ \A f, g \in request.forecasts : f.id = g.id => f = g
  BY DEF BatchIsWhole
<1>1. RequestFits(request) /\ request.kind = "batch" /\ request.at = "answered"
  BY DEF APIInv, Answered, At
<1>2. TileAnswersFit(request) /\ request.tiles = {}
  BY <1>1 DEF RequestFits, TilesFit
<1>3. PICK s \in Seq(Entries) : s = request.locs
  BY <1>1 DEF RequestFits, Shape
<1>4. asked = {s[i] : i \in DOMAIN s}
  BY <1>3 DEF ToSet
<1>5. IdsWithin(request, broken) = {e.id : e \in {x \in asked : CalculateTileID(x.loc) \in broken}}
  BY <1>3, <1>4 DEF IdsWithin
<1>6. IdsOutside(request, broken) = {e.id : e \in {x \in asked : CalculateTileID(x.loc) \notin broken}}
  BY <1>3, <1>4 DEF IdsOutside
<1>7. request.tiles \cup broken = broken
  BY <1>2
<1> QED
  BY <1>2, <1>5, <1>6, <1>7 DEF TileAnswersFit, Ids, Distinct

LEMMA FallbackHolds == APIInv => FallbackIsAnnounced
<1> SUFFICES ASSUME APIInv, Answered("point")
             PROVE  /\ NeedsNowcast(request) =>
                         (request.warned <=> \A p \in Points : p.source = "medium_range")
                    /\ request.warned => NeedsNowcast(request)
                    /\ request.status = "fresh" =>
                         /\ ~request.fallback
                         /\ Health("medium_range", request.now - request.runs["medium_range"][2]) = "healthy"
  BY DEF FallbackIsAnnounced
<1>1. RequestFits(request) /\ request.kind = "point" /\ request.at = "answered"
  BY DEF APIInv, Answered, At
<1>2. IsAnnounced(request) /\ request.forecasts = {}
  BY <1>1 DEF RequestFits, PointFits, TilesFit
<1>3. Points = ToSet(request.data)
  BY <1>2 DEF Points
<1> QED
  BY <1>2, <1>3 DEF IsAnnounced

LEMMA APITypes == APIInv => APITypeOK
<1> SUFFICES ASSUME APIInv PROVE APITypeOK
  OBVIOUS
<1>1. /\ stored \subseteq Models \X (0..MaxTime) /\ complete \subseteq Models \X (0..MaxTime)
      /\ now \in 0..MaxTime /\ MaxTime \in Nat
  BY ForecastsAssumption DEF APIInv
<1>2. ASSUME request # Idle
      PROVE  /\ request.at \in {"mrRun", "ncRun", "mrRead", "ncRead", "tiles", "answered", "failed"}
             /\ request.kind \in Kinds /\ request.now \in 0..now
             /\ request.status \in {"none", "fresh", "degraded", "stale"}
  <2>1. Shape(request) /\ request.now <= now
    BY <1>2 DEF APIInv, RequestFits
  <2>2. request.now \in 0..now
    BY <1>1, <2>1 DEF Shape
  <2>3. request.at \in {"mrRun", "ncRun", "mrRead", "ncRead", "tiles", "answered", "failed"}
    BY <2>1 DEF Shape, Kinds, StepsOf
  <2> QED
    BY <2>1, <2>2, <2>3 DEF Shape
<1> QED
  BY <1>1, <1>2 DEF APITypeOK

(* Whatever completes and is deleted while a request is served, and however *)
(* identifiers repeat in a batch: each is answered, with a forecast where a *)
(* tile was read and with an error where one was not, an answer is of one   *)
(* run of each model and of the place it names, and one that lacks the      *)
(* nowcast says so.                                                         *)
THEOREM AnswersAlwaysHold == API => []AnswersHold
<1>1. APIInv => AnswersHold
  BY APITypes, BatchHolds, OneRunHolds, LocalHolds, FallbackHolds DEF AnswersHold, AnswersAreWhole
<1> QED
  BY APIInvariantHolds, <1>1, PTL

-----------------------------------------------------------------------------
(* Lists.                                                                   *)

AllPages == [items : SUBSET ListRows, more : BOOLEAN, next : Int, cut : SUBSET ListRows]

(* A page of these rows: what it does not show is as old as its cursor or   *)
(* older, and without a cursor it leaves nothing.                           *)
PageFits(page, rows) ==
  /\ page.items \in SUBSET rows /\ page.cut \in SUBSET rows
  /\ page.next # NoCursor =>
       /\ \A x \in page.items : page.next <= x.at
       /\ \E x \in rows : page.next = x.at
       /\ \A x \in rows \ (page.items \cup page.cut) : x.at <= page.next
  /\ page.next = NoCursor => rows = page.items \cup page.cut

(* A page that leads to all that there is.                                  *)
LeadsOn(page) == (page.more <=> page.next # NoCursor) /\ page.cut = {}

LEMMA NewestHas ==
  ASSUME NEW rows \in SUBSET ListRows, NEW n \in Nat, NEW first \in Newest(n, rows)
  PROVE  /\ first \in SUBSET rows /\ first \in SUBSET ListRows
         /\ IsFiniteSet(first) /\ Cardinality(first) \in Nat /\ Cardinality(first) <= n
         /\ n < Cardinality(rows) => Cardinality(first) = n
         /\ ~(n < Cardinality(rows)) => first = rows
         /\ \A x \in first, y \in rows \ first : y.at <= x.at
<1>1. /\ first \in SUBSET rows
      /\ Cardinality(first) = IF n < Cardinality(rows) THEN n ELSE Cardinality(rows)
      /\ \A x \in first, y \in rows \ first : x.at >= y.at
  BY DEF Newest
<1>2. IsFiniteSet(rows) /\ Cardinality(rows) \in Nat
  BY ListingsAssumption, FS_Subset, FS_CardinalityType
<1>3. IsFiniteSet(first) /\ (Cardinality(rows) = Cardinality(first) => first = rows)
  BY <1>1, <1>2, FS_Subset
<1>4. Cardinality(first) \in Nat
  BY <1>3, FS_CardinalityType
<1>5. \A x \in ListRows : x.at \in Nat
  BY ListingsAssumption
<1>6. \A x \in first, y \in rows \ first : y.at <= x.at
  BY <1>1, <1>5
<1> QED
  BY <1>1, <1>2, <1>3, <1>4, <1>6

LEMMA OldestHas ==
  ASSUME NEW rows \in SUBSET ListRows, rows # {}
  PROVE  /\ Oldest(rows) \in Nat /\ \E x \in rows : Oldest(rows) = x.at
         /\ \A x \in rows : Oldest(rows) <= x.at
<1> DEFINE T == {x.at : x \in rows}
           Least(t) == \A x \in rows : t <= x.at
<1>1. T \in SUBSET Nat /\ T # {}
  BY ListingsAssumption
<1>2. PICK t \in T : \A u \in T : t <= u
  BY <1>1, LeastNumber
<1>3. Least(t)
  BY <1>2
<1>4. Oldest(rows) = CHOOSE u \in T : Least(u)
  BY DEF Oldest
<1> HIDE DEF T, Least
<1>5. Oldest(rows) \in T /\ Least(Oldest(rows))
  BY <1>2, <1>3, <1>4
<1> QED
  BY <1>1, <1>5 DEF T, Least

LEMMA TrimmedHas ==
  ASSUME NEW rows \in SUBSET ListRows, NEW limit \in Nat, limit > 0,
         NEW fetched \in Newest(limit + 1, rows), NEW page \in Trimmed(fetched, limit)
  PROVE  /\ page \in AllPages /\ PageFits(page, rows) /\ LeadsOn(page)
         /\ IsFiniteSet(page.items) /\ Cardinality(page.items) <= limit
<1>1. limit + 1 \in Nat
  OBVIOUS
<1>2. /\ fetched \in SUBSET rows /\ fetched \in SUBSET ListRows
      /\ IsFiniteSet(fetched) /\ Cardinality(fetched) \in Nat /\ Cardinality(fetched) <= limit + 1
      /\ limit + 1 < Cardinality(rows) => Cardinality(fetched) = limit + 1
      /\ ~(limit + 1 < Cardinality(rows)) => fetched = rows
      /\ \A x \in fetched, y \in rows \ fetched : y.at <= x.at
  BY <1>1, NewestHas
<1>3. CASE Cardinality(fetched) > limit
  <2>1. PICK first \in Newest(limit, fetched) :
          page = [items |-> first, more |-> TRUE, next |-> Oldest(first), cut |-> {}]
    BY <1>3 DEF Trimmed
  <2>2. /\ first \in SUBSET fetched /\ first \in SUBSET ListRows
        /\ IsFiniteSet(first) /\ Cardinality(first) = limit
        /\ \A x \in first, y \in fetched \ first : y.at <= x.at
    BY <1>2, <1>3, NewestHas
  <2>3. first # {}
    BY <2>2, FS_EmptySet
  <2>4. /\ Oldest(first) \in Nat /\ \E x \in first : Oldest(first) = x.at
        /\ \A x \in first : Oldest(first) <= x.at
    BY <2>2, <2>3, OldestHas
  <2>5. Oldest(first) # NoCursor
    BY <2>4 DEF NoCursor
  <2>6. \A y \in rows \ first : y.at <= Oldest(first)
    BY <1>2, <2>2, <2>4
  <2>7. page.items = first /\ page.more = TRUE /\ page.next = Oldest(first) /\ page.cut = {}
    BY <2>1
  <2>8. page \in AllPages
    BY <2>1, <2>2, <2>4 DEF AllPages
  <2>9. PageFits(page, rows)
    BY <1>2, <2>2, <2>4, <2>5, <2>6, <2>7 DEF PageFits
  <2>10. LeadsOn(page)
    BY <2>5, <2>7 DEF LeadsOn
  <2> QED
    BY <2>2, <2>7, <2>8, <2>9, <2>10
<1>4. CASE ~(Cardinality(fetched) > limit)
  <2>1. page = [items |-> fetched, more |-> FALSE, next |-> NoCursor, cut |-> {}]
    BY <1>4 DEF Trimmed
  <2>2. fetched = rows
    BY <1>2, <1>4
  <2>3. page.items = rows /\ page.more = FALSE /\ page.next = NoCursor /\ page.cut = {}
    BY <2>1, <2>2
  <2>4. page \in AllPages
    BY <2>1, <1>2 DEF AllPages, NoCursor
  <2>5. PageFits(page, rows) /\ LeadsOn(page)
    BY <2>3 DEF PageFits, LeadsOn
  <2> QED
    BY <1>2, <1>4, <2>2, <2>3, <2>4, <2>5
<1> QED
  BY <1>3, <1>4

LEMMA CutHas ==
  ASSUME NEW rows \in SUBSET ListRows, NEW limit \in Nat,
         NEW page \in AllPages, PageFits(page, rows), LeadsOn(page), NEW q \in Cut(page, limit)
  PROVE  /\ q \in AllPages /\ PageFits(q, rows)
         /\ Cardinality(page.items) <= limit => LeadsOn(q)
<1>1. /\ page.items \in SUBSET ListRows /\ page.more \in BOOLEAN /\ page.cut = {}
      /\ page.next \in Int /\ DOMAIN page = {"items", "more", "next", "cut"}
  BY DEF AllPages, LeadsOn
<1>2. PICK held \in SUBSET ListRows, more \in BOOLEAN :
        held = page.items /\ more = (page.more \/ Cardinality(page.items) > limit)
  BY <1>1
<1>3. PICK first \in Newest(limit, held) :
        q = [page EXCEPT !.items = first, !.cut = held \ first, !.more = more]
  BY <1>2 DEF Cut
<1>4. /\ first \in SUBSET held /\ first \in SUBSET ListRows
      /\ ~(limit < Cardinality(held)) => first = held
  BY <1>2, NewestHas
<1>5. /\ q.items = first /\ q.cut = held \ first /\ q.next = page.next /\ q.more = more
      /\ q = [items |-> first, more |-> more, next |-> page.next, cut |-> held \ first]
  BY <1>1, <1>3 DEF AllPages
<1>6. q \in AllPages
  BY <1>1, <1>4, <1>5 DEF AllPages
<1>7. PageFits(q, rows)
  <2>1. q.items \cup q.cut = page.items \cup page.cut
    BY <1>1, <1>2, <1>4, <1>5
  <2>2. q.items \in SUBSET page.items /\ q.cut \in SUBSET page.items /\ q.next = page.next
    BY <1>2, <1>4, <1>5
  <2> QED
    BY <2>1, <2>2 DEF PageFits
<1>8. ASSUME Cardinality(held) <= limit
      PROVE  LeadsOn(q)
  <2>1. IsFiniteSet(held) /\ Cardinality(held) \in Nat
    BY ListingsAssumption, FS_Subset, FS_CardinalityType
  <2>2. first = held /\ q.cut = {}
    BY <1>4, <1>5, <1>8, <2>1
  <2>3. more = page.more
    BY <1>1, <1>2, <1>8, <2>1
  <2> QED
    BY <1>5, <2>2, <2>3 DEF LeadsOn
<1> QED
  BY <1>2, <1>6, <1>7, <1>8

LEMMA OlderHas ==
  ASSUME NEW cursor, NEW table \in SUBSET ListRows
  PROVE  /\ Older(cursor, table) \in SUBSET table /\ Older(cursor, table) \in SUBSET ListRows
         /\ cursor = NoCursor => Older(cursor, table) = table
         /\ cursor # NoCursor => Older(cursor, table) = {x \in table : x.at < cursor}
BY DEF Older

(* What any handler answers with, for any table and cursor.                 *)
LEMMA PagesHave ==
  ASSUME NEW list \in Lists, NEW limit \in Limits, NEW table \in SUBSET ListRows, NEW cursor,
         NEW page \in PagesOf(list, limit, table, cursor)
  PROVE  /\ page \in AllPages /\ PageFits(page, Older(cursor, table))
         /\ list \notin Histories \/ limit >= DefaultLimit => LeadsOn(page)
<1>1. /\ limit \in Nat /\ limit > 0 /\ limit <= MaxLimit /\ MaxLimit \in Nat
      /\ DefaultLimit \in Nat /\ DefaultLimit > 0
  BY ListingsAssumption DEF Limits
<1>2. PICK rows \in SUBSET ListRows : rows = Older(cursor, table)
  BY OlderHas
<1>3. ASSUME NEW n \in Nat, n > 0, NEW p \in Pages(n, table, cursor)
      PROVE  /\ p \in AllPages /\ PageFits(p, rows) /\ LeadsOn(p)
             /\ IsFiniteSet(p.items) /\ Cardinality(p.items) <= n
  <2>1. PICK fetched \in Newest(n + 1, rows) : p \in Trimmed(fetched, n)
    BY <1>2, <1>3 DEF Pages, Fetched
  <2> QED
    BY <1>3, <2>1, TrimmedHas
<1>4. CASE list \notin Histories
  <2>1. PagesOf(list, limit, table, cursor) = Pages(limit, table, cursor)
    <3>1. CASE list = "watchpoints"
      BY <1>1, <3>1 DEF PagesOf, WatchPointsList
    <3>2. CASE list = "auditLogs"
      BY <3>2 DEF PagesOf, ListAuditLogs, AuditList
    <3>3. CASE list = "users"
      BY <3>3 DEF PagesOf, ListUsers, ListByOrg, Pages
    <3>4. CASE list = "apiKeys"
      BY <3>4 DEF PagesOf, ListAPIKeys, APIKeysList, Pages
    <3> QED
      BY <1>4, <3>1, <3>2, <3>3, <3>4 DEF Lists, Histories
  <2>2. page \in Pages(limit, table, cursor)
    BY <2>1
  <2> QED
    BY <1>1, <1>2, <1>3, <2>2
<1>5. CASE list \in Histories
  <2>1. PagesOf(list, limit, table, cursor) =
          UNION {Cut(p, limit) : p \in Pages(DefaultLimit, table, cursor)}
    <3>1. CASE list = "orgHistory"
      BY <3>1 DEF PagesOf, OrgHistory, NotificationsList, HistoryLimit
    <3>2. CASE list = "watchPointHistory"
      BY <3>2 DEF PagesOf, WatchPointHistory, NotificationsList, HistoryLimit
    <3> QED
      BY <1>5, <3>1, <3>2 DEF Histories
  <2>2. PICK p \in Pages(DefaultLimit, table, cursor) : page \in Cut(p, limit)
    BY <2>1
  <2>3. /\ p \in AllPages /\ PageFits(p, rows) /\ LeadsOn(p)
        /\ IsFiniteSet(p.items) /\ Cardinality(p.items) <= DefaultLimit
    BY <1>1, <1>3
  <2>4. Cardinality(p.items) \in Nat
    BY <2>3, FS_CardinalityType
  <2>5. /\ page \in AllPages /\ PageFits(page, rows)
        /\ Cardinality(p.items) <= limit => LeadsOn(page)
    BY <1>1, <2>2, <2>3, CutHas
  <2>6. limit >= DefaultLimit => Cardinality(p.items) <= limit
    BY <1>1, <2>3, <2>4
  <2> QED
    BY <1>2, <1>5, <2>5, <2>6
<1> QED
  BY <1>4, <1>5

-----------------------------------------------------------------------------
(* A walk of up to n pages: each page is read from its table, with the      *)
(* cursor of the page before, and a shorter walk has come to its end.       *)
From(walk, i) == IF i = 1 THEN NoCursor ELSE walk[i - 1].next

IsWalk(list, limit, tables, n, walk) ==
  /\ walk \in Seq(AllPages) /\ Len(walk) <= n
  /\ \A i \in 1 .. Len(walk) : walk[i] \in PagesOf(list, limit, tables[i], From(walk, i))
  /\ \A i \in 1 .. Len(walk) - 1 : walk[i].next # NoCursor
  /\ Len(walk) < n => ~GoesOn(walk)

(* What a walk reads before its page i.                                     *)
Rows(walk, tables, i) == Older(From(walk, i), tables[i])

LEMMA WalkHas ==
  ASSUME NEW list \in Lists, NEW limit \in Limits, NEW length \in Nat,
         NEW tables \in [1..length -> SUBSET ListRows], NEW n \in 0..length,
         NEW walk, IsWalk(list, limit, tables, n, walk), NEW i \in 1 .. Len(walk)
  PROVE  /\ Len(walk) \in Nat /\ i \in 1..length /\ walk[i] \in AllPages
         /\ tables[i] \in SUBSET ListRows
         /\ PageFits(walk[i], Rows(walk, tables, i))
         /\ list \notin Histories \/ limit >= DefaultLimit => LeadsOn(walk[i])
<1>1. walk \in Seq(AllPages) /\ Len(walk) <= n /\ Len(walk) \in Nat
  BY DEF IsWalk
<1>2. i \in 1..length /\ tables[i] \in SUBSET ListRows
  BY <1>1
<1>3. walk[i] \in PagesOf(list, limit, tables[i], From(walk, i))
  BY DEF IsWalk
<1> QED
  BY <1>1, <1>2, <1>3, PagesHave DEF Rows

(* From page to page the cursor goes back in time.                          *)
LEMMA CursorsFall ==
  ASSUME NEW list \in Lists, NEW limit \in Limits, NEW length \in Nat,
         NEW tables \in [1..length -> SUBSET ListRows], NEW n \in 0..length,
         NEW walk, IsWalk(list, limit, tables, n, walk),
         NEW i \in 1 .. Len(walk) - 1
  PROVE  \A j \in i .. Len(walk) - 1 : walk[j].next \in Nat /\ walk[j].next <= walk[i].next
<1>0. Len(walk) \in Nat /\ walk \in Seq(AllPages)
  BY DEF IsWalk
<1>1. ASSUME NEW j \in 1 .. Len(walk) - 1
      PROVE  walk[j].next \in Nat /\ walk[j].next # NoCursor
  <2>1. j \in 1 .. Len(walk)
    BY <1>0
  <2>2. PageFits(walk[j], Rows(walk, tables, j)) /\ tables[j] \in SUBSET ListRows
    BY <2>1, WalkHas
  <2>3. walk[j].next # NoCursor
    BY DEF IsWalk
  <2>4. Rows(walk, tables, j) \in SUBSET ListRows
    BY <2>2, OlderHas DEF Rows
  <2> QED
    BY <2>2, <2>3, <2>4, ListingsAssumption DEF PageFits
<1>2. ASSUME NEW j \in 2 .. Len(walk) - 1
      PROVE  walk[j].next < walk[j - 1].next
  <2>1. j \in 1 .. Len(walk) /\ j \in 1 .. Len(walk) - 1 /\ j - 1 \in 1 .. Len(walk) - 1 /\ j # 1
    BY <1>0
  <2>2. PageFits(walk[j], Rows(walk, tables, j)) /\ tables[j] \in SUBSET ListRows
    BY <2>1, WalkHas
  <2>3. From(walk, j) = walk[j - 1].next /\ walk[j - 1].next # NoCursor /\ walk[j].next # NoCursor
    BY <1>1, <2>1 DEF From
  <2>4. PICK x \in Rows(walk, tables, j) : walk[j].next = x.at
    BY <2>2, <2>3 DEF PageFits
  <2>5. x.at < walk[j - 1].next
    BY <2>2, <2>3, <2>4, OlderHas DEF Rows
  <2> QED
    BY <2>4, <2>5
<1> DEFINE Bad == {j \in i .. Len(walk) - 1 : ~(walk[j].next <= walk[i].next)}
<1>3. Bad = {}
  <2> SUFFICES ASSUME Bad # {} PROVE FALSE
    OBVIOUS
  <2>1. Bad \in SUBSET Nat
    BY <1>0
  <2>2. PICK j \in Bad : \A k \in Bad : j <= k
    BY <2>1, LeastNumber
  <2>3. j \in i .. Len(walk) - 1 /\ ~(walk[j].next <= walk[i].next)
    BY <2>2
  <2>4. j # i
    BY <1>1, <2>3
  <2>5. j - 1 \in i .. Len(walk) - 1 /\ j \in 2 .. Len(walk) - 1
    BY <1>0, <2>3, <2>4
  <2>6. j - 1 \notin Bad
    BY <2>2, <2>3, <1>0
  <2>7. walk[j - 1].next <= walk[i].next
    BY <2>5, <2>6
  <2>8. /\ walk[j].next < walk[j - 1].next /\ walk[j].next \in Nat
        /\ walk[j - 1].next \in Nat /\ walk[i].next \in Nat
    BY <1>0, <1>1, <1>2, <2>5
  <2> QED
    BY <2>3, <2>7, <2>8
<1> HIDE DEF Bad
<1>4. \A j \in i .. Len(walk) - 1 : walk[j].next \in Nat
  BY <1>0, <1>1
<1> QED
  BY <1>3, <1>4 DEF Bad

LEMMA RowsOnce ==
  ASSUME NEW list \in Lists, NEW limit \in Limits, NEW length \in Nat,
         NEW tables \in [1..length -> SUBSET ListRows], NEW n \in 0..length,
         NEW walk, IsWalk(list, limit, tables, n, walk)
  PROVE  NoRowTwice(walk)
<1>0. Len(walk) \in Nat /\ walk \in Seq(AllPages) /\ DOMAIN walk = 1 .. Len(walk)
  BY DEF IsWalk
<1> SUFFICES ASSUME NEW i \in 1 .. Len(walk), NEW j \in 1 .. Len(walk), i < j,
                    NEW x \in walk[i].items, NEW y \in walk[j].items
             PROVE  x.at > y.at
  BY <1>0 DEF NoRowTwice
<1>1. /\ i \in 1 .. Len(walk) - 1 /\ j - 1 \in i .. Len(walk) - 1 /\ i \in i .. Len(walk) - 1
      /\ j - 1 \in 1 .. Len(walk) - 1 /\ j # 1
  BY <1>0
<1>2. /\ walk[j - 1].next \in Nat /\ walk[j - 1].next <= walk[i].next /\ walk[i].next \in Nat
  BY <1>1, CursorsFall
<1>3. /\ PageFits(walk[i], Rows(walk, tables, i)) /\ walk[i].items \in SUBSET ListRows
      /\ PageFits(walk[j], Rows(walk, tables, j)) /\ walk[j].items \in SUBSET ListRows
      /\ tables[j] \in SUBSET ListRows
  BY WalkHas DEF AllPages
<1>4. walk[i].next # NoCursor /\ walk[j - 1].next # NoCursor
  BY <1>1 DEF IsWalk
<1>5. walk[i].next <= x.at
  BY <1>3, <1>4 DEF PageFits
<1>6. From(walk, j) = walk[j - 1].next
  BY <1>1 DEF From
<1>7. y \in Rows(walk, tables, j)
  BY <1>3 DEF PageFits
<1>8. y.at < walk[j - 1].next
  BY <1>3, <1>4, <1>6, <1>7, OlderHas DEF Rows
<1>9. x.at \in Nat /\ y.at \in Nat
  BY <1>3, ListingsAssumption
<1> QED
  BY <1>2, <1>5, <1>8, <1>9

LEMMA RowsAreShown ==
  ASSUME NEW list \in Lists, NEW limit \in Limits, NEW length \in Nat,
         NEW tables \in [1..length -> SUBSET ListRows], NEW n \in 0..length,
         NEW walk, IsWalk(list, limit, tables, n, walk)
  PROVE  NothingMissed(walk, tables)
<1>0. Len(walk) \in Nat /\ walk \in Seq(AllPages) /\ DOMAIN walk = 1 .. Len(walk)
  BY DEF IsWalk
<1> SUFFICES ASSUME ~GoesOn(walk), NEW x \in ListRows,
                    \A i \in 1 .. Len(walk) :
                      x \in tables[i] /\ x \notin walk[i].items /\ x \notin walk[i].cut,
                    \A i \in 1 .. Len(walk) : x.at # walk[i].next
             PROVE  FALSE
  BY <1>0 DEF NothingMissed
<1>1. walk # <<>> /\ walk[Len(walk)].next = NoCursor
  BY DEF GoesOn
<1>2. Len(walk) # 0 /\ Len(walk) \in 1 .. Len(walk)
  BY <1>0, <1>1
<1>3. ASSUME NEW i \in 1 .. Len(walk), x \in Rows(walk, tables, i)
      PROVE  walk[i].next # NoCursor /\ x.at < walk[i].next
  <2>1. PageFits(walk[i], Rows(walk, tables, i)) /\ walk[i].next \in Int
    BY WalkHas DEF AllPages
  <2>2. x \notin walk[i].items /\ x \notin walk[i].cut /\ x.at # walk[i].next /\ x.at \in Nat
    BY ListingsAssumption
  <2>3. walk[i].next # NoCursor
    BY <1>3, <2>1, <2>2 DEF PageFits
  <2>4. x.at <= walk[i].next
    BY <1>3, <2>1, <2>2, <2>3 DEF PageFits
  <2> QED
    BY <2>1, <2>2, <2>3, <2>4
<1> DEFINE Bad == {i \in 1 .. Len(walk) : x \notin Rows(walk, tables, i)}
<1>4. Bad = {}
  <2> SUFFICES ASSUME Bad # {} PROVE FALSE
    OBVIOUS
  <2>1. Bad \in SUBSET Nat
    BY <1>0
  <2>2. PICK i \in Bad : \A k \in Bad : i <= k
    BY <2>1, LeastNumber
  <2>3. i \in 1 .. Len(walk) /\ x \notin Rows(walk, tables, i)
    BY <2>2
  <2>4. x \in tables[i] /\ tables[i] \in SUBSET ListRows
    BY <2>3, WalkHas
  <2>5. i # 1
    <3> SUFFICES ASSUME i = 1 PROVE FALSE
      OBVIOUS
    <3>1. From(walk, i) = NoCursor
      BY DEF From
    <3> QED
      BY <2>3, <2>4, <3>1, OlderHas DEF Rows
  <2>6. i - 1 \in 1 .. Len(walk) /\ i - 1 \notin Bad
    BY <1>0, <2>2, <2>3, <2>5
  <2>7. walk[i - 1].next # NoCursor /\ x.at < walk[i - 1].next
    BY <1>3, <2>6
  <2>8. From(walk, i) = walk[i - 1].next
    BY <2>5 DEF From
  <2> QED
    BY <2>3, <2>4, <2>7, <2>8, OlderHas DEF Rows
<1>5. x \in Rows(walk, tables, Len(walk))
  BY <1>2, <1>4
<1> QED
  BY <1>1, <1>2, <1>3, <1>5

LEMMA WalksLeadOn ==
  ASSUME NEW list \in Lists, NEW limit \in Limits, NEW length \in Nat,
         NEW tables \in [1..length -> SUBSET ListRows], NEW n \in 0..length,
         NEW walk, IsWalk(list, limit, tables, n, walk)
  PROVE  MoreIsReachable(list, limit, walk)
<1>0. Len(walk) \in Nat /\ walk \in Seq(AllPages) /\ DOMAIN walk = 1 .. Len(walk)
  BY DEF IsWalk
<1>1. list \notin Histories \/ limit >= DefaultLimit => \A i \in 1 .. Len(walk) : LeadsOn(walk[i])
  BY WalkHas
<1> QED
  BY <1>0, <1>1 DEF MoreIsReachable, LeadsOn

-----------------------------------------------------------------------------
(* The walks that Walks makes are those of IsWalk.                          *)
AllWalks(list, limit, tables, n) == {walk \in Seq(AllPages) : IsWalk(list, limit, tables, n, walk)}

LEMMA NoPagesYet ==
  ASSUME NEW list, NEW limit, NEW tables
  PROVE  AllWalks(list, limit, tables, 0) = {<<>>}
<1>1. IsWalk(list, limit, tables, 0, <<>>) /\ <<>> \in Seq(AllPages)
  BY DEF IsWalk
<1>2. ASSUME NEW walk \in Seq(AllPages), IsWalk(list, limit, tables, 0, walk)
      PROVE  walk = <<>>
  BY <1>2 DEF IsWalk
<1> QED
  BY <1>1, <1>2 DEF AllWalks

LEMMA PageIsAdded ==
  ASSUME NEW list \in Lists, NEW limit \in Limits, NEW length \in Nat,
         NEW tables \in [1..length -> SUBSET ListRows], NEW n \in 1..length,
         NEW walk, IsWalk(list, limit, tables, n - 1, walk), GoesOn(walk),
         NEW page \in PagesOf(list, limit, tables[n], Cursor(walk))
  PROVE  IsWalk(list, limit, tables, n, Append(walk, page))
<1>1. walk \in Seq(AllPages) /\ Len(walk) \in Nat /\ Len(walk) = n - 1 /\ tables[n] \in SUBSET ListRows
  BY DEF IsWalk
<1>2. page \in AllPages
  BY <1>1, PagesHave
<1> DEFINE longer == Append(walk, page)
<1>3. /\ longer \in Seq(AllPages) /\ Len(longer) = n /\ longer[n] = page
      /\ \A i \in 1 .. n - 1 : longer[i] = walk[i]
  BY <1>1, <1>2
<1> HIDE DEF longer
<1>4. \A i \in 1 .. n - 1 : From(longer, i) = From(walk, i)
  <2> SUFFICES ASSUME NEW i \in 1 .. n - 1
               PROVE  From(longer, i) = From(walk, i)
    OBVIOUS
  <2>1. CASE i = 1
    BY <2>1 DEF From
  <2>2. CASE i # 1
    <3>1. i - 1 \in 1 .. n - 1
      BY <2>2
    <3> QED
      BY <1>3, <2>2, <3>1 DEF From
  <2> QED
    BY <2>1, <2>2
<1>5. From(longer, n) = Cursor(walk)
  <2>1. CASE n = 1
    <3>1. walk = <<>>
      BY <1>1, <2>1
    <3> QED
      BY <2>1, <3>1 DEF From, Cursor
  <2>2. CASE n # 1
    <3>1. walk # <<>> /\ n - 1 \in 1 .. n - 1
      BY <1>1, <2>2
    <3> QED
      BY <1>1, <1>3, <2>2, <3>1 DEF From, Cursor
  <2> QED
    BY <2>1, <2>2
<1>6. \A i \in 1 .. n : longer[i] \in PagesOf(list, limit, tables[i], From(longer, i))
  <2> SUFFICES ASSUME NEW i \in 1 .. n
               PROVE  longer[i] \in PagesOf(list, limit, tables[i], From(longer, i))
    OBVIOUS
  <2>1. CASE i = n
    BY <1>3, <1>5, <2>1
  <2>2. CASE i # n
    <3>1. i \in 1 .. n - 1 /\ i \in 1 .. Len(walk)
      BY <1>1, <2>2
    <3>2. walk[i] \in PagesOf(list, limit, tables[i], From(walk, i))
      BY <3>1 DEF IsWalk
    <3> QED
      BY <1>3, <1>4, <3>1, <3>2
  <2> QED
    BY <2>1, <2>2
<1>7. \A i \in 1 .. n - 1 : longer[i].next # NoCursor
  <2> SUFFICES ASSUME NEW i \in 1 .. n - 1
               PROVE  walk[i].next # NoCursor
    BY <1>3
  <2>1. CASE i = n - 1
    <3>1. walk # <<>>
      BY <1>1
    <3> QED
      BY <1>1, <2>1, <3>1 DEF GoesOn
  <2>2. CASE i # n - 1
    BY <1>1, <2>2 DEF IsWalk
  <2> QED
    BY <2>1, <2>2
<1>8. IsWalk(list, limit, tables, n, longer)
  BY <1>3, <1>6, <1>7 DEF IsWalk
<1> QED
  BY <1>8 DEF longer

LEMMA EndedStays ==
  ASSUME NEW list, NEW limit, NEW tables, NEW n \in Nat, n > 0, NEW walk, ~GoesOn(walk)
  PROVE  /\ IsWalk(list, limit, tables, n - 1, walk) => IsWalk(list, limit, tables, n, walk)
         /\ IsWalk(list, limit, tables, n, walk) /\ Len(walk) < n
              => IsWalk(list, limit, tables, n - 1, walk)
<1>1. walk \in Seq(AllPages) => Len(walk) \in Nat
  OBVIOUS
<1>2. ASSUME IsWalk(list, limit, tables, n - 1, walk) PROVE IsWalk(list, limit, tables, n, walk)
  BY <1>1, <1>2 DEF IsWalk
<1>3. ASSUME IsWalk(list, limit, tables, n, walk), Len(walk) < n
      PROVE  IsWalk(list, limit, tables, n - 1, walk)
  BY <1>1, <1>3 DEF IsWalk
<1> QED
  BY <1>2, <1>3

LEMMA LastPage ==
  ASSUME NEW list \in Lists, NEW limit \in Limits, NEW length \in Nat,
         NEW tables \in [1..length -> SUBSET ListRows], NEW n \in 1..length,
         NEW walk, IsWalk(list, limit, tables, n, walk), Len(walk) = n
  PROVE  \E front : /\ IsWalk(list, limit, tables, n - 1, front) /\ GoesOn(front)
                    /\ \E page \in PagesOf(list, limit, tables[n], Cursor(front)) :
                         walk = Append(front, page)
<1>1. walk \in Seq(AllPages) /\ walk[n] \in AllPages
  BY DEF IsWalk
<1> DEFINE front == [i \in 1 .. n - 1 |-> walk[i]]
<1>2. front \in Seq(AllPages) /\ Len(front) = n - 1 /\ \A i \in 1 .. n - 1 : front[i] = walk[i]
  BY <1>1
<1>3. walk = Append(front, walk[n])
  BY <1>1
<1> HIDE DEF front
<1>4. \A i \in 1 .. n - 1 : From(front, i) = From(walk, i)
  <2> SUFFICES ASSUME NEW i \in 1 .. n - 1
               PROVE  From(front, i) = From(walk, i)
    OBVIOUS
  <2>1. CASE i = 1
    BY <2>1 DEF From
  <2>2. CASE i # 1
    <3>1. i - 1 \in 1 .. n - 1
      BY <2>2
    <3> QED
      BY <1>2, <2>2, <3>1 DEF From
  <2> QED
    BY <2>1, <2>2
<1>5. /\ \A i \in 1 .. n : walk[i] \in PagesOf(list, limit, tables[i], From(walk, i))
      /\ \A i \in 1 .. n - 1 : walk[i].next # NoCursor
  BY DEF IsWalk
<1>6. \A i \in 1 .. n - 1 : front[i] \in PagesOf(list, limit, tables[i], From(front, i))
  <2> SUFFICES ASSUME NEW i \in 1 .. n - 1
               PROVE  front[i] \in PagesOf(list, limit, tables[i], From(front, i))
    OBVIOUS
  <2>1. walk[i] \in PagesOf(list, limit, tables[i], From(walk, i))
    BY <1>5
  <2> QED
    BY <1>2, <1>4, <2>1
<1>7. \A i \in 1 .. n - 2 : front[i].next # NoCursor
  BY <1>2, <1>5
<1>8. IsWalk(list, limit, tables, n - 1, front)
  BY <1>2, <1>6, <1>7 DEF IsWalk
<1>9. GoesOn(front) /\ Cursor(front) = From(walk, n)
  <2>1. CASE n = 1
    <3>1. front = <<>>
      BY <1>2, <2>1
    <3> QED
      BY <2>1, <3>1 DEF GoesOn, Cursor, From
  <2>2. CASE n # 1
    <3>1. front # <<>> /\ n - 1 \in 1 .. n - 1
      BY <1>2, <2>2
    <3> QED
      BY <1>2, <1>5, <2>2, <3>1 DEF GoesOn, Cursor, From
  <2> QED
    BY <2>1, <2>2
<1>10. walk[n] \in PagesOf(list, limit, tables[n], Cursor(front))
  BY <1>5, <1>9
<1> QED
  BY <1>3, <1>8, <1>9, <1>10

LEMMA LongerWalks ==
  ASSUME NEW list \in Lists, NEW limit \in Limits, NEW length \in Nat,
         NEW tables \in [1..length -> SUBSET ListRows], NEW n \in 1..length
  PROVE  Longer(list, limit, tables[n], AllWalks(list, limit, tables, n - 1))
           = AllWalks(list, limit, tables, n)
<1> DEFINE before == AllWalks(list, limit, tables, n - 1)
           Continued(walk) == IF GoesOn(walk)
                          THEN {Append(walk, page) :
                                  page \in PagesOf(list, limit, tables[n], Cursor(walk))}
                          ELSE {walk}
<1>0. \A w : (w \in before <=> IsWalk(list, limit, tables, n - 1, w))
             /\ (w \in AllWalks(list, limit, tables, n) <=> IsWalk(list, limit, tables, n, w))
  BY DEF AllWalks, IsWalk
<1>1. Longer(list, limit, tables[n], before) = UNION {Continued(walk) : walk \in before}
  BY DEF Longer
<1>2. ASSUME NEW walk \in before, NEW w \in Continued(walk)
      PROVE  w \in AllWalks(list, limit, tables, n)
  <2>1. IsWalk(list, limit, tables, n - 1, walk)
    BY <1>0
  <2>2. CASE GoesOn(walk)
    <3>1. PICK page \in PagesOf(list, limit, tables[n], Cursor(walk)) : w = Append(walk, page)
      BY <1>2, <2>2
    <3> QED
      BY <1>0, <2>1, <2>2, <3>1, PageIsAdded
  <2>3. CASE ~GoesOn(walk)
    <3>1. w = walk /\ n \in Nat /\ n > 0
      BY <1>2, <2>3
    <3> QED
      BY <1>0, <2>1, <2>3, <3>1, EndedStays
  <2> QED
    BY <2>2, <2>3
<1>3. ASSUME NEW w \in AllWalks(list, limit, tables, n)
      PROVE  \E walk \in before : w \in Continued(walk)
  <2>1. IsWalk(list, limit, tables, n, w) /\ n \in Nat /\ n > 0 /\ Len(w) \in Nat
    BY <1>0 DEF IsWalk
  <2>2. CASE Len(w) = n
    <3>1. \E front : /\ IsWalk(list, limit, tables, n - 1, front) /\ GoesOn(front)
                     /\ \E page \in PagesOf(list, limit, tables[n], Cursor(front)) :
                          w = Append(front, page)
      <4> HIDE DEF before, Continued
      <4> QED
        BY ONLY <2>1, <2>2, LastPage, list \in Lists, limit \in Limits, length \in Nat,
                tables \in [1..length -> SUBSET ListRows], n \in 1..length
    <3>2. PICK front : /\ IsWalk(list, limit, tables, n - 1, front) /\ GoesOn(front)
                       /\ \E page \in PagesOf(list, limit, tables[n], Cursor(front)) :
                            w = Append(front, page)
      BY <3>1
    <3>3. front \in before /\ w \in Continued(front)
      BY <1>0, <3>2
    <3> QED
      BY <3>3
  <2>3. CASE Len(w) # n
    <3>1. Len(w) < n /\ ~GoesOn(w)
      BY <2>1, <2>3 DEF IsWalk
    <3>2. w \in before
      BY <1>0, <2>1, <3>1, EndedStays
    <3>3. w \in Continued(w)
      BY <3>1
    <3> QED
      BY <3>2, <3>3
  <2> QED
    BY <2>2, <2>3
<1> HIDE DEF before, Continued
<1>4. UNION {Continued(walk) : walk \in before} = AllWalks(list, limit, tables, n)
  BY <1>2, <1>3
<1> QED
  BY <1>1, <1>4 DEF before

(* A function that makes the walks page by page exists, and any such        *)
(* function makes these.                                                    *)
LEMMA WalksAreWalks ==
  ASSUME NEW list \in Lists, NEW limit \in Limits, NEW length \in Nat,
         NEW tables \in [1..length -> SUBSET ListRows]
  PROVE  Walks(list, limit, tables) = AllWalks(list, limit, tables, length)
<1> DEFINE Makes(f) == f = [n \in 0..length |-> IF n = 0 THEN {<<>>}
                                                ELSE Longer(list, limit, tables[n], f[n - 1])]
           all == [n \in 0..length |-> AllWalks(list, limit, tables, n)]
           made == CHOOSE f : Makes(f)
<1>1. Len(tables) = length
  OBVIOUS
<1>2. Walks(list, limit, tables) = made[length]
  BY <1>1 DEF Walks
<1>3. Makes(all)
  <2> DEFINE step == [n \in 0..length |-> IF n = 0 THEN {<<>>}
                                          ELSE Longer(list, limit, tables[n], all[n - 1])]
  <2>1. ASSUME NEW n \in 0..length
        PROVE  all[n] = step[n]
    <3>1. CASE n = 0
      BY <3>1, NoPagesYet
    <3>2. CASE n # 0
      <4>1. n \in 1..length /\ n - 1 \in 0..length
        BY <3>2
      <4>2. all[n - 1] = AllWalks(list, limit, tables, n - 1) /\ all[n] = AllWalks(list, limit, tables, n)
        BY <4>1
      <4>3. step[n] = Longer(list, limit, tables[n], all[n - 1])
        BY <3>2
      <4>4. Longer(list, limit, tables[n], AllWalks(list, limit, tables, n - 1))
              = AllWalks(list, limit, tables, n)
        BY <4>1, LongerWalks
      <4> QED
        BY <4>2, <4>3, <4>4
    <3> QED
      BY <3>1, <3>2
  <2>2. all = step
    <3> HIDE DEF AllWalks
    <3> QED
      BY <2>1
  <2> QED
    BY <2>2
<1> HIDE DEF all
<1>4. Makes(made)
  <2> HIDE DEF Makes
  <2> QED
    BY <1>3
<1> HIDE DEF made
<1>5. \A n \in 0..length : made[n] = IF n = 0 THEN {<<>>} ELSE Longer(list, limit, tables[n], made[n - 1])
  BY <1>4
<1> DEFINE Bad == {n \in 0..length : made[n] # AllWalks(list, limit, tables, n)}
<1>6. Bad = {}
  <2> SUFFICES ASSUME Bad # {} PROVE FALSE
    OBVIOUS
  <2>1. Bad \in SUBSET Nat
    OBVIOUS
  <2>2. PICK n \in Bad : \A m \in Bad : n <= m
    BY <2>1, LeastNumber
  <2>3. n \in 0..length /\ made[n] # AllWalks(list, limit, tables, n)
    BY <2>2
  <2>4. n # 0
    BY <1>5, <2>3, NoPagesYet
  <2>5. n \in 1..length /\ n - 1 \in 0..length /\ n - 1 \notin Bad
    BY <2>2, <2>3, <2>4
  <2>6. made[n - 1] = AllWalks(list, limit, tables, n - 1)
    BY <2>5
  <2>7. made[n] = Longer(list, limit, tables[n], made[n - 1])
    BY <1>5, <2>3, <2>4
  <2>8. Longer(list, limit, tables[n], AllWalks(list, limit, tables, n - 1))
          = AllWalks(list, limit, tables, n)
    BY <2>5, LongerWalks
  <2> QED
    BY <2>3, <2>6, <2>7, <2>8
<1>7. length \in 0..length
  OBVIOUS
<1>8. made[length] = AllWalks(list, limit, tables, length)
  BY <1>6, <1>7
<1> QED
  BY <1>2, <1>8

(* Walks of any length, through any list with any limit, in tables that     *)
(* change between pages: no row is shown twice, a walk that ended missed    *)
(* none but those as old as the end of a page and those cut off, and        *)
(* whoever is told that there is more can go on.                            *)
THEOREM WalksAreAlwaysWhole ==
  /\ \A length \in Nat : WalksAreWhole(length)
  /\ API => []WalksHold
<1>1. ASSUME NEW length \in Nat PROVE WalksAreWhole(length)
  <2> SUFFICES ASSUME NEW list \in Lists, NEW limit \in Limits,
                      NEW tables \in [1..length -> SUBSET ListRows],
                      NEW walk \in Walks(list, limit, tables)
               PROVE  NoRowTwice(walk) /\ NothingMissed(walk, tables) /\ MoreIsReachable(list, limit, walk)
    BY DEF WalksAreWhole
  <2>1. walk \in AllWalks(list, limit, tables, length)
    BY WalksAreWalks
  <2>2. IsWalk(list, limit, tables, length, walk) /\ length \in 0..length
    BY <2>1 DEF AllWalks
  <2> QED
    BY <2>2, RowsOnce, RowsAreShown, WalksLeadOn
<1>2. WalksHold
  BY <1>1, ListingsAssumption DEF WalksHold
<1>3. API => []WalksHold
  BY <1>2, PTL
<1> QED
  BY <1>1, <1>3
=============================================================================
