-------------------------- MODULE Scheduler_proofs --------------------------
(***************************************************************************)
(* The lock of a task and an hour excludes other invocations although it   *)
(* is never given back, and nothing that the tasks work on is lost or done *)
(* twice, for every number of invocations, rows and batches.               *)
(***************************************************************************)
EXTENDS Scheduler, FiniteSetTheorems, SequenceTheorems, TLAPS

RunRows ==
  [at : Steps, task : Tasks, age : {0, 1}, thisHour : BOOLEAN, batch : Seq(Items),
   full : BOOLEAN, progress : BOOLEAN]

Typed ==
  /\ rules \in SUBSET Tasks /\ time \in 0..PerHour-1
  /\ lock \in [Tasks -> {0, 1, Expired, Free}]
  /\ run \in [Workers -> RunRows]
  /\ org \in [Orgs -> [digest : {"due", "later"}, sent : BOOLEAN,
                       state : {"active", "deleted", "purged"}]]
  /\ watchpoint \in [WatchPoints -> [state : {"active", "archived", "purged"},
                       archivings : 0..MaxArchivings, summaries : 0..MaxArchivings]]
  /\ audit \in [AuditLogs -> SUBSET {"table", "bucket"}]
  /\ forecast \in [ForecastRuns -> [state : {"complete", "deleted"}, objects : 0..2]]

Idle(w)  == At(w, "idle")
Batch(w) == run[w].batch

(* The steps of a task, and the rows that the batch of a step is about.     *)
DigestSteps == {"listDue", "publish", "advance"}

StepFits(w) ==
  /\ run[w].at \in DigestSteps => run[w].task = "digests"
  /\ run[w].at \in {"publish", "advance", "deleteOrgs"} => Batch(w) \in Seq(Orgs)
  /\ run[w].at \in {"deleteWatchPoints", "summaries"} => Batch(w) \in Seq(WatchPoints)
  /\ run[w].at \in {"upload", "deleteAudit"} => Batch(w) \in Seq(AuditLogs)
  /\ run[w].at \in {"objects", "mark"} => Batch(w) \in Seq(ForecastRuns)
  /\ run[w].at \in {"advance", "mark"} => Batch(w) # <<>>
  /\ At(w, "summaries") => IsInjective(Batch(w))

(* What a statement relies on that the one before it has done.              *)
DataFits(w) ==
  /\ At(w, "advance") => org[Current(w)].sent
  /\ At(w, "deleteAudit") => \A e \in AuditLogs : InBatch(w, e) => "bucket" \in audit[e]
  /\ At(w, "mark") => forecast[Current(w)].objects = 0

(* An invocation that works on a task of this hour is as old as its lock.   *)
Busy(t) == {w \in Lambdas : ~Idle(w) /\ run[w].task = t /\ run[w].thisHour}

LockHolds ==
  /\ \A t \in Tasks : \A w \in Busy(t) : lock[t] = run[w].age
  /\ \A t \in Tasks : \A v, w \in Busy(t) : v = w
  /\ \A w \in Workers : Idle(w) => run[w] = NoRun

(* A summary that is still to be asked for belongs to an archiving of its own. *)
Asking(p) == {w \in Workers : At(w, "summaries") /\ InBatch(w, p)}

SummariesHold(p) ==
  /\ watchpoint[p].state = "active" => watchpoint[p].archivings < MaxArchivings
  /\ IsFiniteSet(Asking(p))
  /\ watchpoint[p].summaries + Cardinality(Asking(p)) <= watchpoint[p].archivings

IInv ==
  /\ Typed /\ LockHolds /\ AuditLogsKept /\ NoOrphanedObjects
  /\ \A w \in Workers : StepFits(w) /\ DataFits(w)
  /\ \A p \in WatchPoints : SummariesHold(p)

-----------------------------------------------------------------------------
(* Sequences of rows.                                                       *)

LEMMA BatchesFit ==
  ASSUME NEW S, IsFiniteSet(S), NEW due \in SUBSET S, NEW batch \in Batches(due)
  PROVE  batch \in Seq(S) /\ IsInjective(batch) /\ \A i \in DOMAIN batch : batch[i] \in due
<1>1. PICK c \in SUBSET due : batch \in SetToSeqs(c)
  BY DEF Batches
<1>2. IsFiniteSet(c) /\ Cardinality(c) \in Nat
  BY FS_Subset, FS_CardinalityType
<1>3. batch \in [1..Cardinality(c) -> c] /\ IsInjective(batch)
  BY <1>1, <1>2 DEF SetToSeqs, IsInjective
<1>4. batch \in Seq(S)
  BY <1>2, <1>3, SeqDef
<1> QED
  BY <1>3, <1>4

LEMMA OneBatchFits ==
  ASSUME NEW S, IsFiniteSet(S), NEW batch \in SetToSeqs(S)
  PROVE  batch \in Seq(S) /\ IsInjective(batch)
<1>1. Cardinality(S) \in Nat
  BY FS_CardinalityType
<1>2. batch \in [1..Cardinality(S) -> S] /\ IsInjective(batch)
  BY <1>1 DEF SetToSeqs, IsInjective
<1> QED
  BY <1>1, <1>2, SeqDef

LEMMA HeadAndTail ==
  ASSUME NEW S, NEW batch \in Seq(S), batch # <<>>
  PROVE  /\ Head(batch) \in S /\ Tail(batch) \in Seq(S) /\ Head(batch) = batch[1] /\ 1 \in DOMAIN batch
         /\ \A i \in DOMAIN Tail(batch) : i + 1 \in DOMAIN batch /\ Tail(batch)[i] = batch[i + 1]
         /\ IsInjective(batch) =>
              IsInjective(Tail(batch)) /\ \A i \in DOMAIN Tail(batch) : Tail(batch)[i] # Head(batch)
<1>1. /\ Head(batch) \in S /\ Tail(batch) \in Seq(S) /\ Len(Tail(batch)) = Len(batch) - 1
      /\ \A i \in 1..Len(Tail(batch)) : Tail(batch)[i] = batch[i + 1]
  BY HeadTailProperties
<1>2. Len(batch) \in Nat \ {0} /\ DOMAIN batch = 1..Len(batch) /\ DOMAIN Tail(batch) = 1..Len(Tail(batch))
  BY <1>1, EmptySeq, LenProperties
<1>3. Head(batch) = batch[1]
  OBVIOUS
<1>4. \A i \in DOMAIN Tail(batch) :
        i \in Nat \ {0} /\ i + 1 \in DOMAIN batch /\ Tail(batch)[i] = batch[i + 1]
  BY <1>1, <1>2
<1>5. ASSUME IsInjective(batch)
      PROVE  IsInjective(Tail(batch)) /\ \A i \in DOMAIN Tail(batch) : Tail(batch)[i] # Head(batch)
  <2>1. 1 \in DOMAIN batch
    BY <1>2
  <2>2. \A i \in DOMAIN Tail(batch) : Tail(batch)[i] # Head(batch)
    BY <1>3, <1>4, <1>5, <2>1 DEF IsInjective
  <2>3. \A i, j \in DOMAIN Tail(batch) : Tail(batch)[i] = Tail(batch)[j] => i = j
    BY <1>4, <1>5 DEF IsInjective
  <2> QED
    BY <2>2, <2>3 DEF IsInjective
<1> QED
  BY <1>1, <1>2, <1>3, <1>4, <1>5

-----------------------------------------------------------------------------
(* The steps of one invocation.                                             *)

\* The invocation goes on with its task, or ends.
OwnStep(w) ==
  /\ run' \in [Workers -> RunRows] /\ \A v \in Workers \ {w} : run'[v] = run[v]
  /\ ~Idle(w)
  /\ \/ run'[w] = NoRun
     \/ run'[w].at # "idle" /\ run'[w].task = run[w].task /\ run'[w].age = run[w].age
          /\ run'[w].thisHour = run[w].thisHour
  /\ UNCHANGED <<rules, time, lock>>

LEMMA NoRunTyped == NoRun \in RunRows /\ NoRun.at = "idle"
  BY EmptySeq DEF NoRun, RunRows, Steps, Tasks

LEMMA FinishSteps ==
  ASSUME Typed, NEW w \in Workers, ~Idle(w), Finish(w), UNCHANGED <<rules, time, lock>>
  PROVE  OwnStep(w) /\ run'[w] = NoRun
<1>1. run'[w] = NoRun
  BY DEF Typed, Finish
<1>2. run' \in [Workers -> RunRows] /\ \A v \in Workers \ {w} : run'[v] = run[v]
  BY NoRunTyped DEF Typed, Finish
<1> QED
  BY <1>1, <1>2 DEF OwnStep

LEMMA GotoSteps ==
  ASSUME Typed, NEW w \in Workers, ~Idle(w), NEW step \in Steps \ {"idle"}, Goto(w, step),
         UNCHANGED <<rules, time, lock>>
  PROVE  OwnStep(w) /\ run'[w].at = step /\ run'[w].task = run[w].task /\ run'[w].batch = Batch(w)
<1> DEFINE new == [run[w] EXCEPT !.at = step]
<1>1. /\ new \in RunRows /\ new.at = step /\ new.task = run[w].task /\ new.batch = Batch(w)
      /\ new.age = run[w].age /\ new.thisHour = run[w].thisHour
  <2>1. run[w] \in RunRows
    BY DEF Typed
  <2> QED
    BY <2>1 DEF RunRows, Batch
<1>2. run' = [run EXCEPT ![w] = new]
  BY DEF Goto
<1> HIDE DEF new
<1>3. run'[w] = new /\ run' \in [Workers -> RunRows] /\ \A v \in Workers \ {w} : run'[v] = run[v]
  BY <1>1, <1>2 DEF Typed
<1> QED
  BY <1>1, <1>3 DEF OwnStep

LEMMA TakeSteps ==
  ASSUME Typed, NEW w \in Workers, ~Idle(w), NEW step \in Steps \ {"idle"}, NEW batch \in Seq(Items),
         Take(w, step, batch), UNCHANGED <<rules, time, lock>>
  PROVE  OwnStep(w) /\ run'[w].at = step /\ run'[w].task = run[w].task /\ run'[w].batch = batch
<1> DEFINE new == [run[w] EXCEPT !.at = step, !.batch = batch, !.progress = FALSE,
                                 !.full = (Len(batch) = BatchLimit)]
<1>1. /\ new \in RunRows /\ new.at = step /\ new.task = run[w].task /\ new.batch = batch
      /\ new.age = run[w].age /\ new.thisHour = run[w].thisHour
  <2>1. run[w] \in RunRows /\ (Len(batch) = BatchLimit) \in BOOLEAN
    BY DEF Typed
  <2> QED
    BY <2>1 DEF RunRows
<1>2. run' = [run EXCEPT ![w] = new]
  BY DEF Take
<1> HIDE DEF new
<1>3. run'[w] = new /\ run' \in [Workers -> RunRows] /\ \A v \in Workers \ {w} : run'[v] = run[v]
  BY <1>1, <1>2 DEF Typed
<1> QED
  BY <1>1, <1>3 DEF OwnStep

LEMMA DropSteps ==
  ASSUME Typed, NEW w \in Workers, ~Idle(w), NEW step \in Steps \ {"idle"}, NEW ok \in BOOLEAN,
         Batch(w) # <<>>, Drop(w, step, ok), UNCHANGED <<rules, time, lock>>
  PROVE  OwnStep(w) /\ run'[w].at = step /\ run'[w].task = run[w].task /\ run'[w].batch = Tail(Batch(w))
<1> DEFINE new == [run[w] EXCEPT !.at = step, !.batch = Tail(@), !.progress = @ \/ ok]
<1>1. Batch(w) \in Seq(Items) /\ Tail(Batch(w)) \in Seq(Items)
  BY HeadAndTail DEF Typed, RunRows, Batch
<1>2. /\ new \in RunRows /\ new.at = step /\ new.task = run[w].task /\ new.batch = Tail(Batch(w))
      /\ new.age = run[w].age /\ new.thisHour = run[w].thisHour
  <2>1. run[w] \in RunRows /\ (run[w].progress \/ ok) \in BOOLEAN
    BY DEF Typed
  <2> QED
    BY <1>1, <2>1 DEF RunRows, Batch
<1>3. run' = [run EXCEPT ![w] = new]
  BY DEF Drop
<1> HIDE DEF new
<1>4. run'[w] = new /\ run' \in [Workers -> RunRows] /\ \A v \in Workers \ {w} : run'[v] = run[v]
  BY <1>2, <1>3 DEF Typed
<1> QED
  BY <1>2, <1>4 DEF OwnStep

LEMMA LockKept ==
  ASSUME IInv, NEW w \in Workers, OwnStep(w)
  PROVE  LockHolds'
<1>1. LockHolds /\ UNCHANGED lock
  BY DEF IInv, OwnStep
<1>2. \A t \in Tasks : Busy(t)' \subseteq Busy(t)
  BY NoRunTyped DEF OwnStep, Busy, Idle, At, Workers
<1>3. \A t \in Tasks : \A v \in Busy(t)' : run'[v].age = run[v].age
  BY NoRunTyped DEF OwnStep, Busy, Idle, At, Workers
<1>4. \A v \in Workers : Idle(v)' => run'[v] = NoRun
  BY <1>1 DEF LockHolds, OwnStep, Idle, At
<1> QED
  BY <1>1, <1>2, <1>3, <1>4 DEF LockHolds

\* next_digest_at only moves on after the message was sent.
DigestsInOrder == \A o \in Orgs : org[o].digest = "due" /\ org'[o].digest = "later" => org[o].sent

\* What others have done stays done.
Progress ==
  /\ \A o \in Orgs : org[o].sent => org'[o].sent
  /\ \A e \in AuditLogs : "bucket" \in audit[e] => "bucket" \in audit'[e]
  /\ \A f \in ForecastRuns : forecast[f].objects = 0 => forecast'[f].objects = 0

LEMMA OthersFit ==
  ASSUME IInv, NEW v \in Workers, run'[v].at = run[v].at, run'[v].task = run[v].task,
         run'[v].batch = run[v].batch, Progress
  PROVE  StepFits(v)' /\ DataFits(v)'
<1>1. StepFits(v) /\ DataFits(v)
  BY DEF IInv
<1>2. StepFits(v)'
  BY <1>1 DEF StepFits, At, Batch
<1>3. /\ At(v, "advance") => Current(v) \in Orgs
      /\ At(v, "mark") => Current(v) \in ForecastRuns
  BY <1>1, HeadAndTail DEF StepFits, At, Batch, Current
<1>4. DataFits(v)'
  BY <1>1, <1>3 DEF DataFits, Progress, At, Current, InBatch
<1> QED
  BY <1>2, <1>4

\* Fewer summaries are still to be asked for.
LEMMA SummariesKept ==
  ASSUME IInv, NEW p \in WatchPoints, Asking(p)' \subseteq Asking(p),
         watchpoint'[p].summaries = watchpoint[p].summaries,
         watchpoint'[p].archivings = watchpoint[p].archivings,
         watchpoint'[p].state = "active" => watchpoint[p].archivings < MaxArchivings
  PROVE  SummariesHold(p)'
<1>1. SummariesHold(p)
  BY DEF IInv
<1>2. /\ IsFiniteSet(Asking(p)') /\ Cardinality(Asking(p)') <= Cardinality(Asking(p))
      /\ Cardinality(Asking(p)) \in Nat /\ Cardinality(Asking(p)') \in Nat
  BY <1>1, FS_Subset, FS_CardinalityType DEF SummariesHold
<1>3. watchpoint[p].summaries \in Nat /\ watchpoint[p].archivings \in Nat
  BY SchedulerAssumption DEF IInv, Typed
<1> QED
  BY <1>1, <1>2, <1>3 DEF SummariesHold

LEMMA StepPreserves ==
  ASSUME IInv, NEW w \in Workers, OwnStep(w), Typed', Progress, AuditLogsKept', NoOrphanedObjects',
         StepFits(w)', DataFits(w)', \A p \in WatchPoints : SummariesHold(p)'
  PROVE  IInv'
<1>1. LockHolds'
  BY LockKept
<1>2. \A v \in Workers : StepFits(v)' /\ DataFits(v)'
  BY OthersFit DEF OwnStep
<1> QED
  BY <1>1, <1>2 DEF IInv

\* A step of a task that has nothing to do with WatchPoints.
LEMMA OtherTaskPreserves ==
  ASSUME IInv, NEW w \in Workers, OwnStep(w), Typed', Progress, AuditLogsKept', NoOrphanedObjects',
         StepFits(w)', DataFits(w)', run'[w].at # "summaries", UNCHANGED watchpoint
  PROVE  IInv'
<1>1. ASSUME NEW p \in WatchPoints
      PROVE  SummariesHold(p)'
  <2>1. Asking(p)' \subseteq Asking(p)
    BY DEF Asking, OwnStep, At, InBatch
  <2>2. SummariesHold(p)
    BY DEF IInv
  <2> QED
    BY <2>1, <2>2, SummariesKept DEF SummariesHold
<1> QED
  BY <1>1, StepPreserves

\* A step that changes no table.
LEMMA QuietPreserves ==
  ASSUME IInv, NEW w \in Workers, OwnStep(w), UNCHANGED data,
         StepFits(w)', DataFits(w)', run'[w].at # "summaries"
  PROVE  IInv' /\ DigestsInOrder
<1>1. Typed'
  BY DEF IInv, Typed, OwnStep, data
<1>2. Progress /\ AuditLogsKept' /\ NoOrphanedObjects'
  BY DEF IInv, Progress, AuditLogsKept, NoOrphanedObjects, data
<1> QED
  BY <1>1, <1>2, OtherTaskPreserves DEF data, DigestsInOrder

\* The end of an invocation, with its task done or not.
LEMMA FinishPreserves ==
  ASSUME IInv, NEW w \in Workers, ~Idle(w), Finish(w), UNCHANGED <<rules, time, lock, data>>
  PROVE  IInv' /\ OwnStep(w) /\ DigestsInOrder
<1>1. OwnStep(w) /\ run'[w] = NoRun
  BY FinishSteps DEF IInv
<1>2. StepFits(w)' /\ DataFits(w)' /\ run'[w].at # "summaries"
  BY <1>1, NoRunTyped DEF StepFits, DataFits, At, DigestSteps
<1> QED
  BY <1>1, <1>2, QuietPreserves

\* What a query returns is what its step is about.
LEMMA ListPreserves ==
  ASSUME IInv, NEW w \in Workers, ~Idle(w), NEW batch, NEW step, Take(w, step, batch),
         \/ step = "publish" /\ batch \in Seq(Orgs) /\ run[w].task = "digests"
         \/ step = "deleteOrgs" /\ batch \in Seq(Orgs)
         \/ step = "deleteWatchPoints" /\ batch \in Seq(WatchPoints)
         \/ step = "upload" /\ batch \in Seq(AuditLogs)
         \/ step = "objects" /\ batch \in Seq(ForecastRuns),
         UNCHANGED <<rules, time, lock, data>>
  PROVE  IInv' /\ OwnStep(w) /\ DigestsInOrder
<1>1. batch \in Seq(Items) /\ step \in Steps \ {"idle"}
  BY SeqMonotonic DEF Items, Steps
<1>2. OwnStep(w) /\ run'[w].at = step /\ run'[w].task = run[w].task /\ run'[w].batch = batch
  BY <1>1, TakeSteps DEF IInv
<1>3. StepFits(w)' /\ DataFits(w)' /\ run'[w].at # "summaries"
  BY <1>2 DEF StepFits, DataFits, At, DigestSteps, Batch
<1> QED
  BY <1>2, <1>3, QuietPreserves

-----------------------------------------------------------------------------
(* Digests.                                                                 *)

LEMMA FiniteTables ==
  IsFiniteSet(Orgs) /\ IsFiniteSet(WatchPoints) /\ IsFiniteSet(AuditLogs) /\ IsFiniteSet(ForecastRuns)
  BY SchedulerAssumption

LEMMA ListDueDigestOrgsPreserves ==
  ASSUME IInv, NEW w \in Workers, ListDueDigestOrgs(w)
  PROVE  IInv' /\ OwnStep(w) /\ DigestsInOrder
<1>1. ~Idle(w) /\ run[w].task = "digests" /\ UNCHANGED <<rules, time, lock, data>>
  BY DEF ListDueDigestOrgs, IInv, StepFits, DigestSteps, At, Idle
<1> DEFINE due == {o \in Orgs : org[o].digest = "due" /\ org[o].state = "active"}
<1>2. PICK batch \in Batches(due) : IF batch = <<>> THEN Finish(w) ELSE Take(w, "publish", batch)
  BY DEF ListDueDigestOrgs
<1>3. batch \in Seq(Orgs)
  BY FiniteTables, BatchesFit
<1> HIDE DEF due
<1>4. CASE Finish(w)
  BY <1>1, <1>4, FinishPreserves
<1>5. CASE Take(w, "publish", batch)
  BY <1>1, <1>3, <1>5, ListPreserves
<1> QED
  BY <1>2, <1>4, <1>5

LEMMA PublishDigestPreserves ==
  ASSUME IInv, NEW w \in Workers, PublishDigest(w)
  PROVE  IInv' /\ OwnStep(w) /\ DigestsInOrder
<1>1. ~Idle(w) /\ StepFits(w) /\ At(w, "publish") /\ Batch(w) # <<>>
  BY DEF PublishDigest, IInv, At, Idle, Batch
<1>2. Batch(w) \in Seq(Orgs) /\ run[w].task = "digests" /\ Current(w) \in Orgs
  BY <1>1, HeadAndTail DEF StepFits, At, DigestSteps, Current, Batch
<1>3. OwnStep(w) /\ run'[w].at = "advance" /\ run'[w].task = run[w].task /\ run'[w].batch = Batch(w)
  BY <1>1, GotoSteps DEF PublishDigest, Steps, IInv
<1>4. /\ org' \in [Orgs -> [digest : {"due", "later"}, sent : BOOLEAN,
                            state : {"active", "deleted", "purged"}]]
      /\ \A o \in Orgs : org[o].sent => org'[o].sent
      /\ \A o \in Orgs : org'[o].digest = org[o].digest
      /\ org'[Current(w)].sent
  <2> DEFINE new == [org[Current(w)] EXCEPT !.sent = TRUE]
  <2>1. org[Current(w)] \in [digest : {"due", "later"}, sent : BOOLEAN,
                             state : {"active", "deleted", "purged"}]
    BY <1>2 DEF IInv, Typed
  <2>2. /\ new \in [digest : {"due", "later"}, sent : BOOLEAN,
                    state : {"active", "deleted", "purged"}]
        /\ new.digest = org[Current(w)].digest /\ new.sent
    BY <2>1
  <2>3. org' = [org EXCEPT ![Current(w)] = new]
    BY DEF PublishDigest
  <2> HIDE DEF new
  <2> QED
    BY <1>2, <2>2, <2>3 DEF IInv, Typed
<1>5. Typed'
  BY <1>3, <1>4 DEF IInv, Typed, OwnStep, PublishDigest
<1>6. Progress /\ AuditLogsKept' /\ NoOrphanedObjects' /\ DigestsInOrder
  BY <1>4 DEF PublishDigest, IInv, Progress, AuditLogsKept, NoOrphanedObjects, DigestsInOrder
<1>7. StepFits(w)' /\ DataFits(w)'
  BY <1>1, <1>2, <1>3, <1>4 DEF StepFits, DataFits, At, DigestSteps, Batch, Current
<1> QED
  BY <1>3, <1>5, <1>6, <1>7, OtherTaskPreserves DEF PublishDigest

LEMMA PublishFailsPreserves ==
  ASSUME IInv, NEW w \in Workers, PublishFails(w)
  PROVE  IInv' /\ OwnStep(w) /\ DigestsInOrder
<1>1. ~Idle(w) /\ StepFits(w) /\ At(w, "publish") /\ Batch(w) # <<>>
  BY DEF PublishFails, IInv, At, Idle, Batch
<1>2. Tail(Batch(w)) \in Seq(Orgs) /\ run[w].task = "digests"
  BY <1>1, HeadAndTail DEF StepFits, At, DigestSteps, Batch
<1>3. OwnStep(w) /\ run'[w].at = "publish" /\ run'[w].task = run[w].task /\ run'[w].batch = Tail(Batch(w))
  BY <1>1, DropSteps DEF PublishFails, Steps, IInv
<1>4. StepFits(w)' /\ DataFits(w)'
  BY <1>2, <1>3 DEF StepFits, DataFits, At, DigestSteps, Batch
<1> QED
  BY <1>3, <1>4, QuietPreserves DEF PublishFails

LEMMA UpdateNextDigestAtPreserves ==
  ASSUME IInv, NEW w \in Workers, UpdateNextDigestAt(w)
  PROVE  IInv' /\ OwnStep(w) /\ DigestsInOrder
<1>1. ~Idle(w) /\ StepFits(w) /\ DataFits(w) /\ At(w, "advance")
  BY DEF UpdateNextDigestAt, IInv, At, Idle
<1>2. /\ Batch(w) # <<>> /\ Tail(Batch(w)) \in Seq(Orgs) /\ run[w].task = "digests"
      /\ Current(w) \in Orgs
  BY <1>1, HeadAndTail DEF StepFits, At, DigestSteps, Batch, Current
<1>3. OwnStep(w) /\ run'[w].at = "publish" /\ run'[w].task = run[w].task /\ run'[w].batch = Tail(Batch(w))
  BY <1>1, <1>2, DropSteps DEF UpdateNextDigestAt, Steps, IInv
<1>4. /\ org' \in [Orgs -> [digest : {"due", "later"}, sent : BOOLEAN,
                            state : {"active", "deleted", "purged"}]]
      /\ \A o \in Orgs : org'[o].sent = org[o].sent
      /\ \A o \in Orgs \ {Current(w)} : org'[o].digest = org[o].digest
  <2> DEFINE new == [org[Current(w)] EXCEPT !.digest = "later"]
  <2>1. org[Current(w)] \in [digest : {"due", "later"}, sent : BOOLEAN,
                             state : {"active", "deleted", "purged"}]
    BY <1>2 DEF IInv, Typed
  <2>2. /\ new \in [digest : {"due", "later"}, sent : BOOLEAN,
                    state : {"active", "deleted", "purged"}]
        /\ new.sent = org[Current(w)].sent
    BY <2>1
  <2>3. org' = [org EXCEPT ![Current(w)] = new]
    BY DEF UpdateNextDigestAt
  <2> HIDE DEF new
  <2> QED
    BY <1>2, <2>2, <2>3 DEF IInv, Typed
<1>5. Typed'
  BY <1>3, <1>4 DEF IInv, Typed, OwnStep, UpdateNextDigestAt
<1>6. Progress /\ AuditLogsKept' /\ NoOrphanedObjects'
  BY <1>4 DEF UpdateNextDigestAt, IInv, Progress, AuditLogsKept, NoOrphanedObjects
<1>7. DigestsInOrder
  BY <1>1, <1>4 DEF DigestsInOrder, DataFits
<1>8. StepFits(w)' /\ DataFits(w)'
  BY <1>2, <1>3 DEF StepFits, DataFits, At, DigestSteps, Batch
<1> QED
  BY <1>3, <1>5, <1>6, <1>7, <1>8, OtherTaskPreserves DEF UpdateNextDigestAt

LEMMA UpdateFailsPreserves ==
  ASSUME IInv, NEW w \in Workers, UpdateFails(w)
  PROVE  IInv' /\ OwnStep(w) /\ DigestsInOrder
<1>1. ~Idle(w) /\ StepFits(w) /\ At(w, "advance")
  BY DEF UpdateFails, IInv, At, Idle
<1>2. Batch(w) # <<>> /\ Tail(Batch(w)) \in Seq(Orgs) /\ run[w].task = "digests"
  BY <1>1, HeadAndTail DEF StepFits, At, DigestSteps, Batch
<1>3. OwnStep(w) /\ run'[w].at = "publish" /\ run'[w].task = run[w].task /\ run'[w].batch = Tail(Batch(w))
  BY <1>1, <1>2, DropSteps DEF UpdateFails, Steps, IInv
<1>4. StepFits(w)' /\ DataFits(w)'
  BY <1>2, <1>3 DEF StepFits, DataFits, At, DigestSteps, Batch
<1> QED
  BY <1>3, <1>4, QuietPreserves DEF UpdateFails

LEMMA EndDigestBatchPreserves ==
  ASSUME IInv, NEW w \in Workers, EndDigestBatch(w)
  PROVE  IInv' /\ OwnStep(w) /\ DigestsInOrder
<1>1. /\ ~Idle(w) /\ StepFits(w) /\ At(w, "publish") /\ run[w].task = "digests"
      /\ UNCHANGED <<rules, time, lock, data>>
  BY DEF EndDigestBatch, Loop, IInv, At, Idle, StepFits, DigestSteps
<1>2. Finish(w) \/ Goto(w, "listDue")
  BY <1>1 DEF EndDigestBatch, Loop, First
<1>3. CASE Finish(w)
  BY <1>1, <1>3, FinishPreserves
<1>4. CASE Goto(w, "listDue")
  <2>1. OwnStep(w) /\ run'[w].at = "listDue" /\ run'[w].task = run[w].task
    BY <1>1, <1>4, GotoSteps DEF Steps, IInv
  <2>2. StepFits(w)' /\ DataFits(w)'
    BY <1>1, <2>1 DEF StepFits, DataFits, At, DigestSteps
  <2> QED
    BY <1>1, <2>1, <2>2, QuietPreserves
<1> QED
  BY <1>2, <1>3, <1>4

-----------------------------------------------------------------------------
(* Cleanup.                                                                 *)

LEMMA ListSoftDeletedOrgIDsPreserves ==
  ASSUME IInv, NEW w \in Workers, ListSoftDeletedOrgIDs(w)
  PROVE  IInv' /\ OwnStep(w) /\ DigestsInOrder
<1>1. ~Idle(w) /\ UNCHANGED <<rules, time, lock, data>>
  BY DEF ListSoftDeletedOrgIDs, At, Idle
<1> DEFINE due == {o \in Orgs : org[o].state = "deleted"}
<1>2. PICK batch \in Batches(due) : Take(w, "deleteOrgs", batch)
  BY DEF ListSoftDeletedOrgIDs
<1>3. batch \in Seq(Orgs)
  BY FiniteTables, BatchesFit
<1> QED
  BY <1>1, <1>2, <1>3, ListPreserves

LEMMA HardDeleteOrgPreserves ==
  ASSUME IInv, NEW w \in Workers, HardDeleteOrg(w)
  PROVE  IInv' /\ OwnStep(w) /\ DigestsInOrder
<1>1. ~Idle(w) /\ StepFits(w) /\ At(w, "deleteOrgs") /\ Batch(w) # <<>>
  BY DEF HardDeleteOrg, IInv, At, Idle, Batch
<1>2. Tail(Batch(w)) \in Seq(Orgs) /\ Current(w) \in Orgs
  BY <1>1, HeadAndTail DEF StepFits, At, Batch, Current
<1>3. OwnStep(w) /\ run'[w].at = "deleteOrgs" /\ run'[w].batch = Tail(Batch(w))
  BY <1>1, DropSteps DEF HardDeleteOrg, Steps, IInv
<1>4. /\ org' \in [Orgs -> [digest : {"due", "later"}, sent : BOOLEAN,
                            state : {"active", "deleted", "purged"}]]
      /\ \A o \in Orgs : org'[o].sent = org[o].sent /\ org'[o].digest = org[o].digest
  <2>1. PICK state \in {"purged", org[Current(w)].state} : org' = [org EXCEPT ![Current(w)].state = state]
    BY DEF HardDeleteOrg
  <2> DEFINE new == [org[Current(w)] EXCEPT !.state = state]
  <2>2. org[Current(w)] \in [digest : {"due", "later"}, sent : BOOLEAN,
                             state : {"active", "deleted", "purged"}]
    BY <1>2 DEF IInv, Typed
  <2>3. /\ new \in [digest : {"due", "later"}, sent : BOOLEAN,
                    state : {"active", "deleted", "purged"}]
        /\ new.sent = org[Current(w)].sent /\ new.digest = org[Current(w)].digest
    BY <2>2
  <2>4. org' = [org EXCEPT ![Current(w)] = new]
    BY <2>1
  <2> HIDE DEF new
  <2> QED
    BY <1>2, <2>3, <2>4 DEF IInv, Typed
<1>5. Typed'
  BY <1>3, <1>4 DEF IInv, Typed, OwnStep, HardDeleteOrg
<1>6. Progress /\ AuditLogsKept' /\ NoOrphanedObjects' /\ DigestsInOrder
  BY <1>4 DEF HardDeleteOrg, IInv, Progress, AuditLogsKept, NoOrphanedObjects, DigestsInOrder
<1>7. StepFits(w)' /\ DataFits(w)'
  BY <1>2, <1>3 DEF StepFits, DataFits, At, DigestSteps, Batch
<1> QED
  BY <1>3, <1>5, <1>6, <1>7, OtherTaskPreserves DEF HardDeleteOrg

LEMMA ListArchivedWatchPointIDsPreserves ==
  ASSUME IInv, NEW w \in Workers, ListArchivedWatchPointIDs(w)
  PROVE  IInv' /\ OwnStep(w) /\ DigestsInOrder
<1>1. ~Idle(w) /\ UNCHANGED <<rules, time, lock, data>>
  BY DEF ListArchivedWatchPointIDs, At, Idle
<1>2. PICK due \in SUBSET {p \in WatchPoints : watchpoint[p].state = "archived"} :
        \E batch \in Batches(due) : Take(w, "deleteWatchPoints", batch)
  BY DEF ListArchivedWatchPointIDs
<1>3. PICK batch \in Batches(due) : Take(w, "deleteWatchPoints", batch)
  BY <1>2
<1>4. due \in SUBSET WatchPoints
  BY <1>2
<1>5. batch \in Seq(WatchPoints)
  BY <1>4, FiniteTables, BatchesFit
<1> QED
  BY <1>1, <1>3, <1>5, ListPreserves

\* The rows that are deleted were not to be summarized by this invocation.
LEMMA HardDeleteWatchPointsPreserves ==
  ASSUME IInv, NEW w \in Workers, HardDeleteWatchPoints(w)
  PROVE  IInv' /\ OwnStep(w) /\ DigestsInOrder
<1>1. ~Idle(w) /\ At(w, "deleteWatchPoints")
  BY DEF HardDeleteWatchPoints, At, Idle
<1>2. OwnStep(w) /\ run'[w].at \in {"idle", "listAudit"}
  <2>1. CASE Finish(w)
    BY <1>1, <2>1, FinishSteps, NoRunTyped DEF HardDeleteWatchPoints, IInv
  <2>2. CASE Goto(w, "listAudit")
    BY <1>1, <2>2, GotoSteps DEF HardDeleteWatchPoints, IInv, Steps
  <2> QED
    BY <2>1, <2>2 DEF HardDeleteWatchPoints
<1>3. \A p \in WatchPoints :
        watchpoint'[p] \in {watchpoint[p], [watchpoint[p] EXCEPT !.state = "purged"]}
  BY DEF HardDeleteWatchPoints
<1>4. \A p \in WatchPoints :
        /\ watchpoint'[p] \in [state : {"active", "archived", "purged"},
                               archivings : 0..MaxArchivings, summaries : 0..MaxArchivings]
        /\ watchpoint'[p].summaries = watchpoint[p].summaries
        /\ watchpoint'[p].archivings = watchpoint[p].archivings
        /\ watchpoint'[p].state = "active" => watchpoint[p].state = "active"
  <2> SUFFICES ASSUME NEW p \in WatchPoints
               PROVE  /\ watchpoint'[p] \in [state : {"active", "archived", "purged"},
                                archivings : 0..MaxArchivings, summaries : 0..MaxArchivings]
                      /\ watchpoint'[p].summaries = watchpoint[p].summaries
                      /\ watchpoint'[p].archivings = watchpoint[p].archivings
                      /\ watchpoint'[p].state = "active" => watchpoint[p].state = "active"
    OBVIOUS
  <2>1. watchpoint[p] \in [state : {"active", "archived", "purged"},
                           archivings : 0..MaxArchivings, summaries : 0..MaxArchivings]
    BY DEF IInv, Typed
  <2>2. CASE watchpoint'[p] = watchpoint[p]
    BY <2>1, <2>2
  <2>3. CASE watchpoint'[p] = [watchpoint[p] EXCEPT !.state = "purged"]
    BY <2>1, <2>3
  <2> QED
    BY <1>3, <2>2, <2>3
<1>5. Typed'
  <2>1. watchpoint' \in [WatchPoints -> [state : {"active", "archived", "purged"},
                           archivings : 0..MaxArchivings, summaries : 0..MaxArchivings]]
    BY <1>4 DEF HardDeleteWatchPoints
  <2> QED
    BY <1>2, <2>1 DEF IInv, Typed, OwnStep, HardDeleteWatchPoints
<1>6. ASSUME NEW p \in WatchPoints
      PROVE  SummariesHold(p)'
  <2>1. Asking(p)' \subseteq Asking(p)
    BY <1>2 DEF Asking, OwnStep, At, InBatch
  <2>2. SummariesHold(p)
    BY DEF IInv
  <2> QED
    BY <1>4, <2>1, <2>2, SummariesKept DEF SummariesHold
<1>7. Progress /\ AuditLogsKept' /\ NoOrphanedObjects' /\ DigestsInOrder
  BY DEF HardDeleteWatchPoints, IInv, Progress, AuditLogsKept, NoOrphanedObjects, DigestsInOrder
<1>8. StepFits(w)' /\ DataFits(w)'
  BY <1>2 DEF StepFits, DataFits, At, DigestSteps
<1> QED
  BY <1>2, <1>5, <1>6, <1>7, <1>8, StepPreserves

LEMMA ListAuditLogsOlderThanPreserves ==
  ASSUME IInv, NEW w \in Workers, ListAuditLogsOlderThan(w)
  PROVE  IInv' /\ OwnStep(w) /\ DigestsInOrder
<1>1. ~Idle(w) /\ UNCHANGED <<rules, time, lock, data>>
  BY DEF ListAuditLogsOlderThan, At, Idle
<1> DEFINE due == {e \in AuditLogs : "table" \in audit[e]}
<1>2. PICK batch \in Batches(due) : IF batch = <<>> THEN Finish(w) ELSE Take(w, "upload", batch)
  BY DEF ListAuditLogsOlderThan
<1>3. batch \in Seq(AuditLogs)
  BY FiniteTables, BatchesFit
<1> HIDE DEF due
<1>4. CASE Finish(w)
  BY <1>1, <1>4, FinishPreserves
<1>5. CASE Take(w, "upload", batch)
  BY <1>1, <1>3, <1>5, ListPreserves
<1> QED
  BY <1>2, <1>4, <1>5

LEMMA UploadArchivePreserves ==
  ASSUME IInv, NEW w \in Workers, UploadArchive(w)
  PROVE  IInv' /\ OwnStep(w) /\ DigestsInOrder
<1>1. ~Idle(w) /\ StepFits(w) /\ At(w, "upload")
  BY DEF UploadArchive, IInv, At, Idle
<1>2. OwnStep(w) /\ run'[w].at = "deleteAudit" /\ run'[w].batch = Batch(w)
  BY <1>1, GotoSteps DEF UploadArchive, Steps, IInv
<1>3. \A e \in AuditLogs :
        /\ audit'[e] \in SUBSET {"table", "bucket"} /\ audit[e] \subseteq audit'[e]
        /\ InBatch(w, e) => "bucket" \in audit'[e]
  BY DEF UploadArchive, IInv, Typed
<1>4. Typed'
  <2>1. audit' \in [AuditLogs -> SUBSET {"table", "bucket"}]
    BY <1>3 DEF UploadArchive
  <2> QED
    BY <1>2, <2>1 DEF IInv, Typed, OwnStep, UploadArchive
<1>5. Progress /\ AuditLogsKept' /\ NoOrphanedObjects' /\ DigestsInOrder
  BY <1>3 DEF UploadArchive, IInv, Progress, AuditLogsKept, NoOrphanedObjects, DigestsInOrder
<1>6. StepFits(w)' /\ DataFits(w)'
  BY <1>1, <1>2, <1>3 DEF StepFits, DataFits, At, DigestSteps, Batch, InBatch
<1> QED
  BY <1>2, <1>4, <1>5, <1>6, OtherTaskPreserves DEF UploadArchive

\* Only what was written to the bucket is deleted.
LEMMA DeleteAuditLogsByIDsPreserves ==
  ASSUME IInv, NEW w \in Workers, DeleteAuditLogsByIDs(w)
  PROVE  IInv' /\ OwnStep(w) /\ DigestsInOrder
<1>1. ~Idle(w) /\ DataFits(w) /\ At(w, "deleteAudit")
  BY DEF DeleteAuditLogsByIDs, IInv, At, Idle
<1>2. OwnStep(w) /\ run'[w].at \in {"idle", "listAudit"}
  <2>1. CASE Finish(w)
    BY <1>1, <2>1, FinishSteps, NoRunTyped DEF DeleteAuditLogsByIDs, IInv
  <2>2. CASE Goto(w, "listAudit")
    BY <1>1, <2>2, GotoSteps DEF DeleteAuditLogsByIDs, IInv, Steps
  <2> QED
    BY <2>1, <2>2 DEF DeleteAuditLogsByIDs
<1>3. \A e \in AuditLogs :
        /\ audit'[e] \in SUBSET {"table", "bucket"}
        /\ "bucket" \in audit[e] => "bucket" \in audit'[e]
        /\ audit'[e] # {}
  BY <1>1 DEF DeleteAuditLogsByIDs, IInv, Typed, DataFits, AuditLogsKept
<1>4. Typed'
  <2>1. audit' \in [AuditLogs -> SUBSET {"table", "bucket"}]
    BY <1>3 DEF DeleteAuditLogsByIDs
  <2> QED
    BY <1>2, <2>1 DEF IInv, Typed, OwnStep, DeleteAuditLogsByIDs
<1>5. Progress /\ AuditLogsKept' /\ NoOrphanedObjects' /\ DigestsInOrder
  BY <1>3 DEF DeleteAuditLogsByIDs, IInv, Progress, AuditLogsKept, NoOrphanedObjects, DigestsInOrder
<1>6. StepFits(w)' /\ DataFits(w)'
  BY <1>2 DEF StepFits, DataFits, At, DigestSteps
<1> QED
  BY <1>2, <1>4, <1>5, <1>6, OtherTaskPreserves DEF DeleteAuditLogsByIDs

-----------------------------------------------------------------------------
(* Archiving and summaries.                                                 *)

WatchPointRows ==
  [state : {"active", "archived", "purged"}, archivings : 0..MaxArchivings,
   summaries : 0..MaxArchivings]

LEMMA ArchiveExpiredWatchPointsPreserves ==
  ASSUME IInv, NEW w \in Workers, ArchiveExpiredWatchPoints(w)
  PROVE  IInv' /\ OwnStep(w) /\ DigestsInOrder
<1>1. ~Idle(w) /\ At(w, "archive")
  BY DEF ArchiveExpiredWatchPoints, At, Idle
<1>2. PICK batch \in SetToSeqs(Active) : Take(w, "summaries", batch)
  BY DEF ArchiveExpiredWatchPoints
<1>3. batch \in Seq(Active) /\ IsInjective(batch)
  BY FiniteTables, FS_Subset, OneBatchFits DEF Active
<1>4. batch \in Seq(WatchPoints) /\ batch \in Seq(Items) /\ \A i \in DOMAIN batch : batch[i] \in Active
  BY <1>3, SeqMonotonic, ElementOfSeq, LenProperties DEF Active, Items
<1>5. OwnStep(w) /\ run'[w].at = "summaries" /\ run'[w].batch = batch
  BY <1>1, <1>2, <1>4, TakeSteps DEF ArchiveExpiredWatchPoints, Steps, IInv
<1>6. ASSUME NEW p \in Active
      PROVE  /\ watchpoint'[p] \in WatchPointRows
             /\ watchpoint'[p].state = "archived"
             /\ watchpoint'[p].summaries = watchpoint[p].summaries
             /\ watchpoint'[p].archivings = watchpoint[p].archivings + 1
  <2>1. p \in WatchPoints /\ watchpoint[p] \in WatchPointRows /\ watchpoint[p].state = "active"
    BY DEF Active, IInv, Typed, WatchPointRows
  <2>2. watchpoint[p].archivings < MaxArchivings
    BY <2>1 DEF IInv, SummariesHold
  <2>3. watchpoint[p].archivings + 1 \in 0..MaxArchivings
    BY <2>1, <2>2, SchedulerAssumption DEF WatchPointRows
  <2>4. watchpoint'[p] = [watchpoint[p] EXCEPT !.state = "archived",
                                               !.archivings = watchpoint[p].archivings + 1]
    BY <2>1 DEF ArchiveExpiredWatchPoints
  <2> QED
    BY <2>1, <2>3, <2>4 DEF WatchPointRows
<1>7. \A p \in WatchPoints \ Active : watchpoint'[p] = watchpoint[p]
  BY DEF ArchiveExpiredWatchPoints
<1>8. Typed'
  <2>1. watchpoint' \in [WatchPoints -> WatchPointRows]
    BY <1>6, <1>7 DEF ArchiveExpiredWatchPoints, IInv, Typed, WatchPointRows
  <2> QED
    BY <1>5, <2>1 DEF IInv, Typed, OwnStep, ArchiveExpiredWatchPoints, WatchPointRows
<1>9. ASSUME NEW p \in WatchPoints
      PROVE  SummariesHold(p)'
  <2>1. Asking(p)' \subseteq Asking(p) \cup {w}
    BY <1>5 DEF Asking, OwnStep, At, InBatch
  <2>2. SummariesHold(p)
    BY DEF IInv
  <2>3. CASE p \in Active
    <3>1. /\ IsFiniteSet(Asking(p) \cup {w}) /\ Cardinality(Asking(p)) \in Nat
          /\ Cardinality(Asking(p) \cup {w}) <= Cardinality(Asking(p)) + 1
      <4>1. IsFiniteSet(Asking(p)) /\ Cardinality(Asking(p)) \in Nat
        BY <2>2, FS_CardinalityType DEF SummariesHold
      <4>2. /\ IsFiniteSet(Asking(p) \cup {w})
            /\ \/ Cardinality(Asking(p) \cup {w}) = Cardinality(Asking(p))
               \/ Cardinality(Asking(p) \cup {w}) = Cardinality(Asking(p)) + 1
        BY <4>1, FS_AddElement
      <4> QED
        BY <4>1, <4>2
    <3>2. /\ IsFiniteSet(Asking(p)') /\ Cardinality(Asking(p)') <= Cardinality(Asking(p) \cup {w})
          /\ Cardinality(Asking(p)') \in Nat /\ Cardinality(Asking(p) \cup {w}) \in Nat
      BY <2>1, <3>1, FS_Subset, FS_CardinalityType
    <3>3. watchpoint[p].summaries \in Nat /\ watchpoint[p].archivings \in Nat
      BY SchedulerAssumption DEF IInv, Typed
    <3> QED
      BY <1>6, <2>2, <2>3, <3>1, <3>2, <3>3 DEF SummariesHold
  <2>4. CASE p \notin Active
    <3>1. w \notin Asking(p)'
      BY <1>4, <1>5, <2>4 DEF Asking, InBatch
    <3>2. Asking(p)' \subseteq Asking(p)
      BY <2>1, <3>1
    <3> QED
      BY <1>7, <2>2, <2>4, <3>2, SummariesKept DEF SummariesHold
  <2> QED
    BY <2>3, <2>4
<1>10. Progress /\ AuditLogsKept' /\ NoOrphanedObjects' /\ DigestsInOrder
  BY DEF ArchiveExpiredWatchPoints, IInv, Progress, AuditLogsKept, NoOrphanedObjects, DigestsInOrder
<1>11. StepFits(w)' /\ DataFits(w)'
  BY <1>3, <1>4, <1>5 DEF StepFits, DataFits, At, DigestSteps, Batch
<1> QED
  BY <1>5, <1>8, <1>9, <1>10, <1>11, StepPreserves

\* A summary is asked for once: no other place of the batch is the same row.
LEMMA PublishEvalMessagePreserves ==
  ASSUME IInv, NEW w \in Workers, PublishEvalMessage(w)
  PROVE  IInv' /\ OwnStep(w) /\ DigestsInOrder
<1>1. ~Idle(w) /\ StepFits(w) /\ At(w, "summaries") /\ Batch(w) # <<>>
  BY DEF PublishEvalMessage, IInv, At, Idle, Batch
<1>2. Batch(w) \in Seq(WatchPoints) /\ IsInjective(Batch(w))
  BY <1>1 DEF StepFits, At
<1> PICK c : c = Current(w)
  OBVIOUS
<1>3. /\ Tail(Batch(w)) \in Seq(WatchPoints) /\ IsInjective(Tail(Batch(w)))
      /\ c \in WatchPoints /\ InBatch(w, c)
      /\ \A i \in DOMAIN Tail(Batch(w)) :
           Tail(Batch(w))[i] # c /\ InBatch(w, Tail(Batch(w))[i])
  <2>1. /\ Head(Batch(w)) \in WatchPoints /\ Tail(Batch(w)) \in Seq(WatchPoints)
        /\ Head(Batch(w)) = Batch(w)[1] /\ 1 \in DOMAIN Batch(w)
        /\ \A i \in DOMAIN Tail(Batch(w)) :
             i + 1 \in DOMAIN Batch(w) /\ Tail(Batch(w))[i] = Batch(w)[i + 1]
        /\ IsInjective(Tail(Batch(w)))
        /\ \A i \in DOMAIN Tail(Batch(w)) : Tail(Batch(w))[i] # Head(Batch(w))
    BY <1>1, <1>2, HeadAndTail
  <2> QED
    BY <2>1 DEF Current, InBatch, Batch
<1>4. OwnStep(w) /\ run'[w].at = "summaries" /\ run'[w].batch = Tail(Batch(w))
  BY <1>1, DropSteps DEF PublishEvalMessage, Steps, IInv
<1>5. /\ \A p \in WatchPoints : Asking(p)' \subseteq Asking(p)
      /\ w \in Asking(c) /\ w \notin Asking(c)'
  <2>1. ASSUME NEW p \in WatchPoints, NEW v \in Asking(p)'
        PROVE  v \in Asking(p)
    <3>1. CASE v = w
      BY <1>1, <1>3, <1>4, <2>1, <3>1 DEF Asking, InBatch
    <3>2. CASE v # w
      BY <1>4, <2>1, <3>2 DEF Asking, OwnStep, At, InBatch
    <3> QED
      BY <3>1, <3>2
  <2>2. w \in Asking(c)
    BY <1>1, <1>3 DEF Asking
  <2>3. w \notin Asking(c)'
    BY <1>3, <1>4 DEF Asking, InBatch
  <2> QED
    BY <2>1, <2>2, <2>3
<1>6. PICK n \in {0, 1} : watchpoint' = [watchpoint EXCEPT ![c].summaries = @ + n]
  BY DEF PublishEvalMessage
<1>7. \A p \in WatchPoints : watchpoint[p] \in WatchPointRows /\ SummariesHold(p)
  BY DEF IInv, Typed, WatchPointRows
<1>8. \A p \in WatchPoints \ {c} : watchpoint'[p] = watchpoint[p]
  BY <1>6
<1> DEFINE new == [watchpoint[c] EXCEPT !.summaries = watchpoint[c].summaries + n]
<1>9. /\ new.summaries = watchpoint[c].summaries + n /\ new.archivings = watchpoint[c].archivings
      /\ new.state = watchpoint[c].state
  BY <1>3, <1>7 DEF WatchPointRows
<1>10. watchpoint' = [watchpoint EXCEPT ![c] = new]
  BY <1>6
<1>11. /\ IsFiniteSet(Asking(c)') /\ Cardinality(Asking(c)') + 1 <= Cardinality(Asking(c))
       /\ Cardinality(Asking(c)') \in Nat /\ Cardinality(Asking(c)) \in Nat
  <2>1. IsFiniteSet(Asking(c))
    BY <1>3, <1>7 DEF SummariesHold
  <2>2. Asking(c)' \subseteq Asking(c) \ {w}
    BY <1>3, <1>5
  <2>3. IsFiniteSet(Asking(c) \ {w}) /\ Cardinality(Asking(c) \ {w}) = Cardinality(Asking(c)) - 1
    BY <1>5, <2>1, FS_RemoveElement
  <2>4. IsFiniteSet(Asking(c)') /\ Cardinality(Asking(c)') <= Cardinality(Asking(c) \ {w})
    BY <2>2, <2>3, FS_Subset
  <2> QED
    BY <2>1, <2>3, <2>4, FS_CardinalityType
<1>12. new.summaries + Cardinality(Asking(c)') <= watchpoint[c].archivings /\ new \in WatchPointRows
  <2>1. watchpoint[c].summaries \in Nat /\ watchpoint[c].archivings \in 0..MaxArchivings
    BY <1>3, <1>7, SchedulerAssumption DEF WatchPointRows
  <2>2. watchpoint[c].summaries + Cardinality(Asking(c)) <= watchpoint[c].archivings
    BY <1>3, <1>7 DEF SummariesHold
  <2>3. watchpoint[c].summaries + n + Cardinality(Asking(c)') <= watchpoint[c].archivings
    BY <1>11, <2>1, <2>2
  <2>4. watchpoint[c].summaries + n \in 0..MaxArchivings
    BY <1>11, <2>1, <2>3, SchedulerAssumption
  <2>5. new \in WatchPointRows
    BY <1>3, <1>7, <2>4 DEF WatchPointRows
  <2> QED
    BY <1>9, <2>3, <2>5
<1> HIDE DEF new
<1>13. watchpoint'[c] = new /\ watchpoint' \in [WatchPoints -> WatchPointRows]
  BY <1>3, <1>10, <1>12 DEF IInv, Typed, WatchPointRows
<1>14. Typed'
  BY <1>4, <1>13 DEF IInv, Typed, OwnStep, PublishEvalMessage, WatchPointRows
<1>15. ASSUME NEW p \in WatchPoints
       PROVE  SummariesHold(p)'
  <2>1. CASE p = c
    BY <1>3, <1>7, <1>9, <1>11, <1>12, <1>13, <2>1 DEF SummariesHold
  <2>2. CASE p # c
    BY <1>5, <1>7, <1>8, <2>2, SummariesKept DEF SummariesHold
  <2> QED
    BY <2>1, <2>2
<1>16. Progress /\ AuditLogsKept' /\ NoOrphanedObjects' /\ DigestsInOrder
  BY DEF PublishEvalMessage, IInv, Progress, AuditLogsKept, NoOrphanedObjects, DigestsInOrder
<1>17. StepFits(w)' /\ DataFits(w)'
  BY <1>3, <1>4 DEF StepFits, DataFits, At, DigestSteps, Batch
<1> QED
  BY <1>4, <1>14, <1>15, <1>16, <1>17, StepPreserves

-----------------------------------------------------------------------------
(* Retention of forecasts.                                                  *)

LEMMA ListExpiredForecastRunsPreserves ==
  ASSUME IInv, NEW w \in Workers, ListExpiredForecastRuns(w)
  PROVE  IInv' /\ OwnStep(w) /\ DigestsInOrder
<1>1. ~Idle(w) /\ UNCHANGED <<rules, time, lock, data>>
  BY DEF ListExpiredForecastRuns, At, Idle
<1> DEFINE due == {f \in ForecastRuns : forecast[f].state = "complete"}
<1>2. PICK batch \in Batches(due) : Take(w, "objects", batch)
  BY DEF ListExpiredForecastRuns
<1>3. batch \in Seq(ForecastRuns)
  BY FiniteTables, BatchesFit
<1> QED
  BY <1>1, <1>2, <1>3, ListPreserves

ForecastRows == [state : {"complete", "deleted"}, objects : 0..2]

LEMMA DeleteObjectsPreserves ==
  ASSUME IInv, NEW w \in Workers, DeleteObjects(w)
  PROVE  IInv' /\ OwnStep(w) /\ DigestsInOrder
<1>1. ~Idle(w) /\ StepFits(w) /\ At(w, "objects") /\ Batch(w) # <<>>
  BY DEF DeleteObjects, IInv, At, Idle, Batch
<1>2. /\ Batch(w) \in Seq(ForecastRuns) /\ Tail(Batch(w)) \in Seq(ForecastRuns)
      /\ Current(w) \in ForecastRuns
  BY <1>1, HeadAndTail DEF StepFits, At, Current, Batch
<1>3. PICK n \in 0..forecast[Current(w)].objects :
        /\ forecast' = [forecast EXCEPT ![Current(w)].objects = n]
        /\ (n = 0 /\ Goto(w, "mark")) \/ Drop(w, "objects", FALSE)
  BY DEF DeleteObjects
<1>4. /\ forecast' \in [ForecastRuns -> ForecastRows]
      /\ \A f \in ForecastRuns : forecast[f].objects = 0 => forecast'[f].objects = 0
      /\ \A f \in ForecastRuns : forecast'[f].state = forecast[f].state
      /\ forecast'[Current(w)].objects = n
  <2> DEFINE new == [forecast[Current(w)] EXCEPT !.objects = n]
  <2>1. forecast[Current(w)] \in ForecastRows
    BY <1>2 DEF IInv, Typed, ForecastRows
  <2>2. n \in 0..2
    BY <2>1 DEF ForecastRows
  <2>3. /\ new \in ForecastRows /\ new.objects = n /\ new.state = forecast[Current(w)].state
        /\ forecast[Current(w)].objects = 0 => n = 0
    BY <2>1, <2>2 DEF ForecastRows
  <2>4. forecast' = [forecast EXCEPT ![Current(w)] = new]
    BY <1>3
  <2> HIDE DEF new
  <2> QED
    BY <1>2, <2>3, <2>4 DEF IInv, Typed, ForecastRows
<1>5. /\ OwnStep(w)
      /\ \/ n = 0 /\ run'[w].at = "mark" /\ run'[w].batch = Batch(w)
         \/ run'[w].at = "objects" /\ run'[w].batch = Tail(Batch(w))
  <2>1. CASE n = 0 /\ Goto(w, "mark")
    BY <1>1, <2>1, GotoSteps DEF DeleteObjects, Steps, IInv
  <2>2. CASE Drop(w, "objects", FALSE)
    BY <1>1, <2>2, DropSteps DEF DeleteObjects, Steps, IInv
  <2> QED
    BY <1>3, <2>1, <2>2
<1>6. Typed'
  BY <1>4, <1>5 DEF IInv, Typed, OwnStep, DeleteObjects, ForecastRows
<1>7. Progress /\ AuditLogsKept' /\ NoOrphanedObjects' /\ DigestsInOrder
  BY <1>4 DEF DeleteObjects, IInv, Progress, AuditLogsKept, NoOrphanedObjects, DigestsInOrder
<1>8. StepFits(w)' /\ DataFits(w)'
  BY <1>1, <1>2, <1>4, <1>5 DEF StepFits, DataFits, At, DigestSteps, Batch, Current
<1> QED
  BY <1>5, <1>6, <1>7, <1>8, OtherTaskPreserves DEF DeleteObjects

\* The row forgets the path of objects that are gone.
LEMMA MarkForecastRunDeletedPreserves ==
  ASSUME IInv, NEW w \in Workers, MarkForecastRunDeleted(w)
  PROVE  IInv' /\ OwnStep(w) /\ DigestsInOrder
<1>1. ~Idle(w) /\ StepFits(w) /\ DataFits(w) /\ At(w, "mark")
  BY DEF MarkForecastRunDeleted, IInv, At, Idle
<1>2. /\ Batch(w) # <<>> /\ Tail(Batch(w)) \in Seq(ForecastRuns) /\ Current(w) \in ForecastRuns
      /\ forecast[Current(w)].objects = 0
  BY <1>1, HeadAndTail DEF StepFits, DataFits, At, Current, Batch
<1>3. OwnStep(w) /\ run'[w].at = "objects" /\ run'[w].batch = Tail(Batch(w))
  BY <1>1, <1>2, DropSteps DEF MarkForecastRunDeleted, Steps, IInv
<1>4. PICK state \in {"deleted", forecast[Current(w)].state} :
        forecast' = [forecast EXCEPT ![Current(w)].state = state]
  BY DEF MarkForecastRunDeleted
<1>5. /\ forecast' \in [ForecastRuns -> ForecastRows]
      /\ \A f \in ForecastRuns : forecast'[f].objects = forecast[f].objects
      /\ \A f \in ForecastRuns \ {Current(w)} : forecast'[f].state = forecast[f].state
  <2> DEFINE new == [forecast[Current(w)] EXCEPT !.state = state]
  <2>1. forecast[Current(w)] \in ForecastRows
    BY <1>2 DEF IInv, Typed, ForecastRows
  <2>2. new \in ForecastRows /\ new.objects = forecast[Current(w)].objects
    BY <2>1 DEF ForecastRows
  <2>3. forecast' = [forecast EXCEPT ![Current(w)] = new]
    BY <1>4
  <2> HIDE DEF new
  <2> QED
    BY <1>2, <2>2, <2>3 DEF IInv, Typed, ForecastRows
<1>6. Typed'
  BY <1>3, <1>5 DEF IInv, Typed, OwnStep, MarkForecastRunDeleted, ForecastRows
<1>7. Progress /\ AuditLogsKept' /\ NoOrphanedObjects' /\ DigestsInOrder
  BY <1>2, <1>5
  DEF MarkForecastRunDeleted, IInv, Progress, AuditLogsKept, NoOrphanedObjects, DigestsInOrder
<1>8. StepFits(w)' /\ DataFits(w)'
  BY <1>2, <1>3 DEF StepFits, DataFits, At, DigestSteps, Batch
<1> QED
  BY <1>3, <1>6, <1>7, <1>8, OtherTaskPreserves DEF MarkForecastRunDeleted

\* Ends of a task, and of an invocation that fails.
LEMMA EndsPreserve ==
  ASSUME IInv, NEW w \in Workers, EndArchive(w) \/ EndTier(w) \/ Stop(w)
  PROVE  IInv' /\ OwnStep(w) /\ DigestsInOrder
<1>1. ~Idle(w) /\ Finish(w) /\ UNCHANGED <<rules, time, lock, data>>
  BY DEF EndArchive, EndTier, Stop, At, Idle
<1> QED
  BY <1>1, FinishPreserves

-----------------------------------------------------------------------------
(* The lock, the hour, and what others do to the tables.                    *)

\* The lock is free or has expired: nobody works under the one of this hour.
LEMMA AcquirePreserves ==
  ASSUME IInv, NEW w \in Workers, NEW t \in Tasks, Acquire(w, t)
  PROVE  IInv' /\ Busy(t) = {} /\ Busy(t)' = {w} \cap Lambdas
           /\ \A u \in Tasks \ {t} : Busy(u)' = Busy(u)
<1> DEFINE new == [NoRun EXCEPT !.at = First[t], !.task = t]
<1>1. First[t] \in {"listDue", "listOrgs", "archive", "listRuns"}
      /\ (First[t] = "listDue" => t = "digests")
  BY DEF First, Tasks
<1>2. /\ new \in RunRows /\ new.at = First[t] /\ new.task = t /\ new.age = 0 /\ new.thisHour = TRUE
  BY <1>1, EmptySeq DEF NoRun, RunRows, Steps
<1>3. run' = [run EXCEPT ![w] = new]
  BY DEF Acquire
<1> HIDE DEF new
<1>4. run'[w] = new /\ run' \in [Workers -> RunRows] /\ \A v \in Workers \ {w} : run'[v] = run[v]
  BY <1>2, <1>3 DEF IInv, Typed
<1>5. lock' \in [Tasks -> {0, 1, Expired, Free}] /\ lock'[t] = 0 /\ \A u \in Tasks \ {t} : lock'[u] = lock[u]
  BY DEF Acquire, IInv, Typed
<1>6. Typed'
  BY <1>4, <1>5 DEF IInv, Typed, Acquire, data
<1>7. Idle(w)
  BY DEF Acquire, Idle, At
<1>8. Busy(t) = {}
  <2> SUFFICES ASSUME NEW v \in Busy(t)
               PROVE  FALSE
    OBVIOUS
  <2>1. lock[t] = run[v].age /\ run[v].age \in {0, 1}
    BY DEF IInv, LockHolds, Typed, RunRows, Busy, Workers
  <2>2. lock[t] \in {2, 3}
    BY DEF Acquire, Acquirable, Expired, Free
  <2> QED
    BY <2>1, <2>2
<1>9. Busy(t)' = {w} \cap Lambdas
  <2>1. \A v \in Lambdas \ {w} : v \in Busy(t)' <=> v \in Busy(t)
    BY <1>4 DEF Busy, Idle, At, Workers
  <2>2. w \in Lambdas => w \in Busy(t)'
    BY <1>1, <1>2, <1>4 DEF Busy, Idle, At
  <2>3. Busy(t)' \subseteq Lambdas
    BY DEF Busy
  <2> QED
    BY <1>8, <2>1, <2>2, <2>3
<1>10. \A u \in Tasks \ {t} : Busy(u)' = Busy(u)
  BY <1>2, <1>4, <1>7 DEF Busy, Idle, At, Workers
<1>11. LockHolds'
  <2>1. \A u \in Tasks : \A v \in Busy(u)' : lock'[u] = run'[v].age
    <3>1. ASSUME NEW v \in Busy(t)'
          PROVE  lock'[t] = run'[v].age
      BY <1>2, <1>4, <1>5, <1>9
    <3>2. ASSUME NEW u \in Tasks \ {t}, NEW v \in Busy(u)'
          PROVE  lock'[u] = run'[v].age
      <4>1. v \in Busy(u) /\ v # w
        BY <1>7, <1>10 DEF Busy
      <4> QED
        BY <1>4, <1>5, <4>1 DEF IInv, LockHolds, Busy, Workers
    <3> QED
      BY <3>1, <3>2
  <2>2. \A u \in Tasks : \A v, x \in Busy(u)' : v = x
    BY <1>9, <1>10 DEF IInv, LockHolds
  <2>3. \A v \in Workers : Idle(v)' => run'[v] = NoRun
    BY <1>1, <1>2, <1>4 DEF IInv, LockHolds, Idle, At
  <2> QED
    BY <2>1, <2>2, <2>3 DEF LockHolds
<1>12. Progress /\ AuditLogsKept' /\ NoOrphanedObjects'
  BY DEF Acquire, data, IInv, Progress, AuditLogsKept, NoOrphanedObjects
<1>13. \A v \in Workers \ {w} : StepFits(v)' /\ DataFits(v)'
  BY <1>4, <1>12, OthersFit
<1>14. StepFits(w)' /\ DataFits(w)'
  BY <1>1, <1>2, <1>4 DEF StepFits, DataFits, At, DigestSteps
<1>15. ASSUME NEW p \in WatchPoints
       PROVE  SummariesHold(p)'
  <2>1. Asking(p)' \subseteq Asking(p)
    BY <1>1, <1>2, <1>4 DEF Asking, At, InBatch
  <2>2. SummariesHold(p) /\ UNCHANGED watchpoint
    BY DEF IInv, Acquire, data
  <2> QED
    BY <2>1, <2>2, SummariesKept DEF SummariesHold
<1>16. IInv'
  BY <1>6, <1>11, <1>12, <1>13, <1>14, <1>15 DEF IInv
<1> QED
  BY <1>8, <1>9, <1>10, <1>16

\* No invocation of the function outlives the time, so the locks of those that
\* work grow as old as they do.
LEMMA TickPreserves ==
  ASSUME IInv, Tick
  PROVE  IInv' /\ \A t \in Tasks : Busy(t)' = IF time' = 0 THEN {} ELSE Busy(t)
<1>1. time' \in 0..PerHour-1
  <2>1. time + 1 \in Nat /\ PerHour \in Nat \ {0}
    BY SchedulerAssumption DEF IInv, Typed
  <2>2. (time + 1) % PerHour \in 0..PerHour-1
    BY <2>1
  <2> QED
    BY <2>2 DEF Tick
<1>2. lock' \in [Tasks -> {0, 1, Expired, Free}]
  BY DEF Tick, Expired, Free
<1>3. ASSUME NEW w \in Workers
      PROVE  /\ run'[w] \in RunRows /\ run'[w].at = run[w].at /\ run'[w].task = run[w].task
             /\ run'[w].batch = run[w].batch
             /\ Idle(w) => run'[w] = run[w]
             /\ ~Idle(w) => run'[w].age = 1 /\ (run'[w].thisHour <=> run[w].thisHour /\ time' # 0)
  <2>1. run[w] \in RunRows
    BY DEF IInv, Typed
  <2>2. CASE Idle(w)
    BY <2>1, <2>2 DEF Tick, Idle, At
  <2>3. CASE ~Idle(w)
    <3>1. run'[w] = [run[w] EXCEPT !.age = 1, !.thisHour = run[w].thisHour /\ time' # 0]
      BY <2>3 DEF Tick, Idle, At
    <3>2. (run[w].thisHour /\ time' # 0) \in BOOLEAN
      OBVIOUS
    <3> QED
      BY <2>1, <2>3, <3>1, <3>2 DEF RunRows
  <2> QED
    BY <2>2, <2>3
<1>4. run' \in [Workers -> RunRows]
  BY <1>3 DEF Tick
<1>5. Typed'
  BY <1>1, <1>2, <1>4 DEF IInv, Typed, Tick, data
<1>6. \A t \in Tasks : Busy(t)' = IF time' = 0 THEN {} ELSE Busy(t)
  <2> SUFFICES ASSUME NEW t \in Tasks, NEW w \in Lambdas
               PROVE  w \in Busy(t)' <=> (time' # 0 /\ w \in Busy(t))
    BY DEF Busy
  <2> QED
    BY <1>3 DEF Busy, Idle, At, Workers
<1>7. LockHolds'
  <2>1. ASSUME NEW t \in Tasks, NEW w \in Busy(t)'
        PROVE  lock'[t] = run'[w].age
    <3>1. w \in Busy(t) /\ time' # 0 /\ w \in Lambdas /\ ~Idle(w)
      BY <1>6, <2>1 DEF Busy
    <3>2. run[w].age = 0 /\ run'[w].age = 1
      BY <1>3, <3>1 DEF Tick, Workers
    <3>3. lock[t] = 0
      BY <3>1, <3>2 DEF IInv, LockHolds
    <3>4. lock'[t] = IF time' = 0 \/ lock[t] = Free THEN Free ELSE IF lock[t] = 0 THEN 1 ELSE Expired
      BY DEF Tick
    <3> QED
      BY <3>1, <3>2, <3>3, <3>4 DEF Free
  <2>2. \A t \in Tasks : \A v, w \in Busy(t)' : v = w
    BY <1>6 DEF IInv, LockHolds
  <2>3. \A w \in Workers : Idle(w)' => run'[w] = NoRun
    BY <1>3 DEF IInv, LockHolds, Idle, At
  <2> QED
    BY <2>1, <2>2, <2>3 DEF LockHolds
<1>8. Progress /\ AuditLogsKept' /\ NoOrphanedObjects'
  BY DEF Tick, data, IInv, Progress, AuditLogsKept, NoOrphanedObjects
<1>9. \A w \in Workers : StepFits(w)' /\ DataFits(w)'
  BY <1>3, <1>8, OthersFit
<1>10. ASSUME NEW p \in WatchPoints
       PROVE  SummariesHold(p)'
  <2>1. Asking(p)' \subseteq Asking(p)
    BY <1>3 DEF Asking, At, InBatch
  <2>2. SummariesHold(p) /\ UNCHANGED watchpoint
    BY DEF IInv, Tick, data
  <2> QED
    BY <2>1, <2>2, SummariesKept DEF SummariesHold
<1> QED
  BY <1>5, <1>6, <1>7, <1>8, <1>9, <1>10 DEF IInv

\* A step that leaves the invocations and their locks alone.
LEMMA TablesPreserve ==
  ASSUME IInv, Typed', UNCHANGED <<run, lock>>, \A w \in Workers : DataFits(w)',
         AuditLogsKept', NoOrphanedObjects', \A p \in WatchPoints : SummariesHold(p)'
  PROVE  IInv'
<1>1. LockHolds'
  BY DEF IInv, LockHolds, Busy, Idle, At
<1>2. \A w \in Workers : StepFits(w)'
  BY DEF IInv, StepFits, At, Batch
<1> QED
  BY <1>1, <1>2 DEF IInv

\* A digest falls due while none is sent: no invocation relies on its flag.
LEMMA OrganizationsPreserve ==
  ASSUME IInv, NEW o \in Orgs, DigestFallsDue(o) \/ DeleteOrganization(o)
  PROVE  IInv' /\ UNCHANGED run /\ DigestsInOrder
<1>1. UNCHANGED <<rules, time, lock, run, watchpoint, audit, forecast>>
  BY DEF DigestFallsDue, DeleteOrganization
<1>2. /\ org' \in [Orgs -> [digest : {"due", "later"}, sent : BOOLEAN,
                            state : {"active", "deleted", "purged"}]]
      /\ \A q \in Orgs : org'[q].digest \in {org[q].digest, "due"}
      /\ DeleteOrganization(o) => \A q \in Orgs : org'[q].sent = org[q].sent
  <2>1. org[o] \in [digest : {"due", "later"}, sent : BOOLEAN, state : {"active", "deleted", "purged"}]
    BY DEF IInv, Typed
  <2>2. CASE DigestFallsDue(o)
    <3> DEFINE new == [org[o] EXCEPT !.digest = "due", !.sent = FALSE]
    <3>1. /\ new \in [digest : {"due", "later"}, sent : BOOLEAN, state : {"active", "deleted", "purged"}]
          /\ new.digest = "due"
      BY <2>1
    <3>2. org' = [org EXCEPT ![o] = new] /\ org[o].digest = "later" /\ org[o].state = "active"
      BY <2>2 DEF DigestFallsDue
    <3>3. ~DeleteOrganization(o)
      <4>1. new.state = "active"
        BY <2>1, <3>2
      <4>2. org'[o].state = "active"
        BY <3>2, <4>1 DEF IInv, Typed
      <4>3. DeleteOrganization(o) => org'[o].state = "deleted"
        BY DEF DeleteOrganization, IInv, Typed
      <4> QED
        BY <4>2, <4>3
    <3> HIDE DEF new
    <3> QED
      BY <3>1, <3>2, <3>3 DEF IInv, Typed
  <2>3. CASE DeleteOrganization(o)
    <3> DEFINE new == [org[o] EXCEPT !.state = "deleted"]
    <3>1. /\ new \in [digest : {"due", "later"}, sent : BOOLEAN, state : {"active", "deleted", "purged"}]
          /\ new.digest = org[o].digest /\ new.sent = org[o].sent
      BY <2>1
    <3>2. org' = [org EXCEPT ![o] = new]
      BY <2>3 DEF DeleteOrganization
    <3> HIDE DEF new
    <3> QED
      BY <3>1, <3>2 DEF IInv, Typed
  <2> QED
    BY <2>2, <2>3
<1>3. Typed' /\ AuditLogsKept' /\ NoOrphanedObjects' /\ DigestsInOrder
  BY <1>1, <1>2 DEF IInv, Typed, AuditLogsKept, NoOrphanedObjects, DigestsInOrder
<1>4. \A p \in WatchPoints : SummariesHold(p)'
  BY <1>1 DEF IInv, SummariesHold, Asking, At, InBatch
<1>5. ASSUME NEW w \in Workers
      PROVE  DataFits(w)'
  <2>1. StepFits(w) /\ DataFits(w)
    BY DEF IInv
  <2>2. At(w, "advance") => org'[Current(w)].sent
    <3>1. CASE DigestFallsDue(o)
      BY <2>1, <3>1 DEF DigestFallsDue, StepFits, DigestSteps, At
    <3>2. CASE DeleteOrganization(o)
      <4>1. At(w, "advance") => Current(w) \in Orgs
        BY <2>1, HeadAndTail DEF StepFits, At, Batch, Current
      <4> QED
        BY <1>2, <2>1, <3>2, <4>1 DEF DataFits
    <3> QED
      BY <3>1, <3>2
  <2> QED
    BY <1>1, <2>1, <2>2 DEF DataFits, At, Current, InBatch
<1> QED
  BY <1>1, <1>3, <1>4, <1>5, TablesPreserve

LEMMA UnarchivePreserves ==
  ASSUME IInv, NEW p \in WatchPoints, Unarchive(p)
  PROVE  IInv' /\ UNCHANGED run /\ DigestsInOrder
<1>1. UNCHANGED <<rules, time, lock, run, org, audit, forecast>>
  BY DEF Unarchive
<1> DEFINE new == [watchpoint[p] EXCEPT !.state = "active"]
<1>2. watchpoint[p] \in WatchPointRows /\ watchpoint[p].archivings < MaxArchivings
  BY DEF IInv, Typed, WatchPointRows, Unarchive
<1>3. /\ new \in WatchPointRows /\ new.archivings = watchpoint[p].archivings
      /\ new.summaries = watchpoint[p].summaries
  BY <1>2 DEF WatchPointRows
<1>4. watchpoint' = [watchpoint EXCEPT ![p] = new]
  BY DEF Unarchive
<1> HIDE DEF new
<1>5. /\ watchpoint' \in [WatchPoints -> WatchPointRows] /\ watchpoint'[p] = new
      /\ \A q \in WatchPoints \ {p} : watchpoint'[q] = watchpoint[q]
  BY <1>3, <1>4 DEF IInv, Typed, WatchPointRows
<1>6. Typed' /\ AuditLogsKept' /\ NoOrphanedObjects' /\ DigestsInOrder
  BY <1>1, <1>5 DEF IInv, Typed, WatchPointRows, AuditLogsKept, NoOrphanedObjects, DigestsInOrder
<1>7. ASSUME NEW q \in WatchPoints
      PROVE  SummariesHold(q)'
  <2>1. Asking(q)' \subseteq Asking(q)
    BY <1>1 DEF Asking, At, InBatch
  <2>2. SummariesHold(q)
    BY DEF IInv
  <2>3. CASE q = p
    BY <1>2, <1>3, <1>5, <2>1, <2>3, SummariesKept
  <2>4. CASE q # p
    BY <1>5, <2>1, <2>2, <2>4, SummariesKept DEF SummariesHold
  <2> QED
    BY <2>3, <2>4
<1>8. \A w \in Workers : DataFits(w)'
  BY <1>1 DEF IInv, DataFits, At, Current, InBatch
<1> QED
  BY <1>1, <1>6, <1>7, <1>8, TablesPreserve

-----------------------------------------------------------------------------
(* The invariant.                                                           *)

LEMMA InitHolds == Init => IInv
<1> SUFFICES ASSUME Init
             PROVE  IInv
  OBVIOUS
<1>1. \A w \in Workers : run[w] = NoRun /\ Idle(w)
  BY NoRunTyped DEF Init, Idle, At
<1>2. Typed
  <2>1. watchpoint \in [WatchPoints -> WatchPointRows]
    BY SchedulerAssumption DEF Init, WatchPointRows
  <2>2. run \in [Workers -> RunRows]
    BY NoRunTyped DEF Init
  <2>3. rules \in SUBSET Tasks
    BY SchedulerAssumption DEF Init
  <2> QED
    BY <2>1, <2>2, <2>3, SchedulerAssumption DEF Init, Typed, WatchPointRows, Free
<1>3. LockHolds
  BY <1>1 DEF LockHolds, Busy, Workers
<1>4. AuditLogsKept /\ NoOrphanedObjects
  BY DEF Init, AuditLogsKept, NoOrphanedObjects
<1>5. \A w \in Workers : StepFits(w) /\ DataFits(w)
  BY <1>1 DEF StepFits, DataFits, Idle, At, DigestSteps
<1>6. ASSUME NEW p \in WatchPoints
      PROVE  SummariesHold(p)
  <2>1. Asking(p) = {}
    BY <1>1 DEF Asking, Idle, At
  <2>2. IsFiniteSet(Asking(p)) /\ Cardinality(Asking(p)) = 0
    BY <2>1, FS_EmptySet
  <2>3. watchpoint[p] \in {[state |-> "active", archivings |-> 0, summaries |-> 0],
                           [state |-> "archived", archivings |-> 1, summaries |-> 1]}
    BY DEF Init
  <2> QED
    BY <2>2, <2>3, SchedulerAssumption DEF SummariesHold
<1> QED
  BY <1>2, <1>3, <1>4, <1>5, <1>6 DEF IInv

LEMMA TaskPreserves ==
  ASSUME IInv, NEW w \in Workers,
         \/ Digests(w) \/ PublishFails(w) \/ UpdateFails(w) \/ Cleanup(w) \/ Archive(w) \/ Tier(w) \/ Stop(w)
  PROVE  IInv' /\ OwnStep(w) /\ DigestsInOrder
<1>1. CASE Digests(w) \/ PublishFails(w) \/ UpdateFails(w)
  BY <1>1, ListDueDigestOrgsPreserves, PublishDigestPreserves, UpdateNextDigestAtPreserves,
     EndDigestBatchPreserves, PublishFailsPreserves, UpdateFailsPreserves DEF Digests
<1>2. CASE Cleanup(w)
  BY <1>2, ListSoftDeletedOrgIDsPreserves, HardDeleteOrgPreserves, ListArchivedWatchPointIDsPreserves,
     HardDeleteWatchPointsPreserves, ListAuditLogsOlderThanPreserves, UploadArchivePreserves,
     DeleteAuditLogsByIDsPreserves DEF Cleanup
<1>3. CASE Archive(w) \/ Tier(w) \/ Stop(w)
  BY <1>3, ArchiveExpiredWatchPointsPreserves, PublishEvalMessagePreserves,
     ListExpiredForecastRunsPreserves, DeleteObjectsPreserves, MarkForecastRunDeletedPreserves,
     EndsPreserve DEF Archive, Tier
<1> QED
  BY <1>1, <1>2, <1>3

LEMMA StutterPreserves ==
  ASSUME IInv, UNCHANGED vars
  PROVE  IInv' /\ UNCHANGED run /\ DigestsInOrder
<1> USE DEF vars
<1>1. Typed' /\ AuditLogsKept' /\ NoOrphanedObjects' /\ DigestsInOrder
  BY DEF IInv, Typed, AuditLogsKept, NoOrphanedObjects, DigestsInOrder
<1>2. \A p \in WatchPoints : SummariesHold(p)'
  BY DEF IInv, SummariesHold, Asking, At, InBatch
<1>3. \A w \in Workers : DataFits(w)'
  BY DEF IInv, DataFits, At, Current, InBatch
<1> QED
  BY <1>1, <1>2, <1>3, TablesPreserve

\* Every step keeps the invariant, and belongs to one invocation, to the lock, to
\* time, or to the tables alone.
LEMMA NextPreserves ==
  ASSUME IInv, [Next]_vars
  PROVE  /\ IInv' /\ DigestsInOrder
         /\ \/ \E w \in Workers : OwnStep(w)
            \/ \E w \in Workers, t \in Tasks : Acquire(w, t)
            \/ Tick
            \/ UNCHANGED run
<1>1. CASE UNCHANGED vars
  BY <1>1, StutterPreserves
<1>2. CASE Tick
  BY <1>2, TickPreserves DEF Tick, data, DigestsInOrder
<1>3. ASSUME NEW w \in Workers,
             \/ Digests(w) \/ PublishFails(w) \/ UpdateFails(w) \/ Cleanup(w) \/ Archive(w)
             \/ Tier(w) \/ Stop(w)
      PROVE  IInv' /\ OwnStep(w) /\ DigestsInOrder
  BY <1>3, TaskPreserves
<1>4. ASSUME NEW w \in Workers, NEW t \in Tasks, Acquire(w, t)
      PROVE  IInv' /\ DigestsInOrder
  BY <1>4, AcquirePreserves DEF Acquire, data, DigestsInOrder
<1>5. ASSUME NEW o \in Orgs, DigestFallsDue(o) \/ DeleteOrganization(o)
      PROVE  IInv' /\ UNCHANGED run /\ DigestsInOrder
  BY <1>5, OrganizationsPreserve
<1>6. ASSUME NEW p \in WatchPoints, Unarchive(p)
      PROVE  IInv' /\ UNCHANGED run /\ DigestsInOrder
  BY <1>6, UnarchivePreserves
<1> QED
  BY <1>1, <1>2, <1>3, <1>4, <1>5, <1>6 DEF Next

\* The inductive invariant of the maintenance tasks, for every number of invocations,
\* rows and hours: what an invocation has selected, and what it still has to do.
THEOREM InvariantHolds == Spec => []IInv
<1>1. IInv /\ [Next]_vars => IInv'
  BY NextPreserves
<1> QED
  BY <1>1, InitHolds, PTL DEF Spec

\* Rows, locks and invocations are of the types that the code gives them, whatever
\* is invoked when.
THEOREM TypeCorrect == Spec => []TypeOK
<1>1. IInv => TypeOK
  BY DEF IInv, Typed, TypeOK, RunRows
<1> QED
  BY <1>1, InvariantHolds, PTL

\* The maintenance tasks (internal/scheduler): an audit log is in the table or in the
\* bucket, no object of a forecast outlives the row that names it, and a WatchPoint
\* is summarized at most once each time it is archived.
THEOREM NothingIsLostOrDoubled == Spec => []NothingLostOrDoubled
<1>1. IInv => NothingLostOrDoubled
  <2> SUFFICES ASSUME IInv
               PROVE  NothingLostOrDoubled
    OBVIOUS
  <2>1. TypeOK
    BY DEF IInv, Typed, TypeOK, RunRows
  <2>2. ASSUME NEW p \in WatchPoints
        PROVE  watchpoint[p].summaries <= watchpoint[p].archivings
    <3>1. /\ Cardinality(Asking(p)) \in Nat
          /\ watchpoint[p].summaries + Cardinality(Asking(p)) <= watchpoint[p].archivings
      BY FS_CardinalityType DEF IInv, SummariesHold
    <3>2. watchpoint[p].summaries \in Nat /\ watchpoint[p].archivings \in Nat
      BY SchedulerAssumption DEF IInv, Typed
    <3> QED
      BY <3>1, <3>2
  <2> QED
    BY <2>1, <2>2 DEF IInv, NothingLostOrDoubled, SummaryOncePerArchiving
<1> QED
  BY <1>1, InvariantHolds, PTL

\* The digest scheduler (digest_ops.go): next_digest_at only moves on after the digest
\* of that time was sent, whatever fails and whoever else is invoked.
THEOREM NoDigestIsSkipped == Spec => NoDigestSkipped
<1>1. IInv /\ [Next]_vars =>
        [\A o \in Orgs : org[o].digest = "due" /\ org'[o].digest = "later" => org[o].sent]_vars
  BY NextPreserves DEF DigestsInOrder
<1> QED
  BY <1>1, InvariantHolds, PTL DEF Spec, NoDigestSkipped

-----------------------------------------------------------------------------
(* The archiver implements HourlyJobs.                                      *)

working == [t \in Tasks |-> Cardinality(Busy(t))]

LEMMA OneAtMost ==
  ASSUME IInv, NEW t \in Tasks
  PROVE  /\ Busy(t) = {} => Cardinality(Busy(t)) = 0
         /\ Busy(t) # {} => Cardinality(Busy(t)) = 1
<1>1. ASSUME NEW w \in Busy(t)
      PROVE  Cardinality(Busy(t)) = 1
  <2>1. Busy(t) = {w}
    BY <1>1 DEF IInv, LockHolds
  <2> QED
    BY <2>1, FS_Singleton
<1> QED
  BY <1>1, FS_EmptySet

LEMMA OwnStepRefines ==
  ASSUME IInv, IInv', NEW w \in Workers, OwnStep(w)
  PROVE  UNCHANGED working \/ \E t \in Tasks : Jobs!End(t)
<1> DEFINE t == run[w].task
<1>1. t \in Tasks
  BY DEF IInv, Typed, RunRows
<1> PICK u \in Tasks : u = t
  BY <1>1
<1>2. ASSUME NEW v \in Tasks \ {u}
      PROVE  Busy(v)' = Busy(v)
  BY NoRunTyped DEF OwnStep, Busy, Idle, At, Workers
<1>3. CASE Busy(u)' = Busy(u)
  BY <1>2, <1>3 DEF working
<1>4. CASE Busy(u)' # Busy(u)
  <2>1. w \in Busy(u) /\ w \notin Busy(u)'
    BY <1>4, NoRunTyped DEF OwnStep, Busy, Idle, At, Workers
  <2>2. Busy(u) = {w} /\ Busy(u)' \subseteq Busy(u)
    BY <2>1, NoRunTyped DEF IInv, LockHolds, OwnStep, Busy, Idle, At, Workers
  <2>3. Busy(u)' = {}
    BY <2>1, <2>2
  <2>4. Cardinality(Busy(u)) = 1 /\ Cardinality(Busy(u)') = 0
    BY <2>2, <2>3, FS_Singleton, FS_EmptySet
  <2>5. working[u] = 1 /\ working' = [working EXCEPT ![u] = 0]
    BY <1>2, <2>4 DEF working
  <2> QED
    BY <2>5 DEF Jobs!End, working, Busy, Idle
<1> QED
  BY <1>3, <1>4

LEMMA AcquireRefines ==
  ASSUME IInv, IInv', NEW w \in Workers, NEW t \in Tasks, Acquire(w, t)
  PROVE  UNCHANGED working \/ Jobs!Start(t)
<1>1. Busy(t) = {} /\ Busy(t)' = {w} \cap Lambdas /\ \A u \in Tasks \ {t} : Busy(u)' = Busy(u)
  BY AcquirePreserves
<1>2. CASE w \notin Lambdas
  BY <1>1, <1>2 DEF working
<1>3. CASE w \in Lambdas
  <2>1. Cardinality(Busy(t)) = 0 /\ Cardinality(Busy(t)') = 1
    <3>1. Busy(t)' = {w}
      BY <1>1, <1>3
    <3> QED
      BY <1>1, <3>1, FS_EmptySet, FS_Singleton
  <2>2. working[t] = 0 /\ working' = [working EXCEPT ![t] = 1]
    BY <1>1, <2>1 DEF working
  <2> QED
    BY <2>2 DEF Jobs!Start, working, Busy, Idle
<1> QED
  BY <1>2, <1>3

LEMMA TickRefines ==
  ASSUME IInv, Tick
  PROVE  UNCHANGED working \/ Jobs!NewHour
<1>1. \A t \in Tasks : Busy(t)' = IF time' = 0 THEN {} ELSE Busy(t)
  BY TickPreserves
<1>2. CASE time' = 0
  <2>1. working' = [t \in Tasks |-> 0]
    BY <1>1, <1>2, FS_EmptySet DEF working
  <2> QED
    BY <2>1 DEF Jobs!NewHour, working, Busy, Idle
<1>3. CASE time' # 0
  BY <1>1, <1>3 DEF working
<1> QED
  BY <1>2, <1>3

\* The job lock (job_lock_repo.go): within one hour at most one invocation of the
\* archiver works on a task at a time, although the lock is never given back.
THEOREM ArchiverImplementsHourlyJobs == Spec => ImplementsHourlyJobs
<1>1. Init => Jobs!Init
  <2> SUFFICES ASSUME Init
               PROVE  Jobs!Init
    OBVIOUS
  <2>1. \A t \in Tasks : Busy(t) = {}
    BY NoRunTyped DEF Init, Busy, Idle, At, Workers
  <2>2. working = [t \in Tasks |-> 0]
    BY <2>1, FS_EmptySet DEF working
  <2> QED
    BY <2>2 DEF Jobs!Init, working, Busy, Idle
<1>2. IInv /\ IInv' /\ [Next]_vars => [Jobs!Next]_working
  <2> SUFFICES ASSUME IInv, IInv', [Next]_vars
               PROVE  UNCHANGED working \/ Jobs!Next
    OBVIOUS
  <2>1. CASE \E w \in Workers : OwnStep(w)
    BY <2>1, OwnStepRefines DEF Jobs!Next
  <2>2. CASE \E w \in Workers, t \in Tasks : Acquire(w, t)
    BY <2>2, AcquireRefines DEF Jobs!Next
  <2>3. CASE Tick
    BY <2>3, TickRefines DEF Jobs!Next
  <2>4. CASE UNCHANGED run
    BY <2>4 DEF working, Busy, Idle, At
  <2> QED
    BY <2>1, <2>2, <2>3, <2>4, NextPreserves
<1>3. [Jobs!Next]_working => [Jobs!Next]_([t \in Tasks |-> Cardinality({w \in Lambdas :
                ~At(w, "idle") /\ run[w].task = t /\ run[w].thisHour})])
  BY DEF working, Busy, Idle
<1> QED
  BY <1>1, <1>2, <1>3, InvariantHolds, PTL DEF Spec, ImplementsHourlyJobs, Jobs!Spec
=============================================================================
