------------------------------ MODULE Scheduler ------------------------------
(***************************************************************************)
(* The archiver: one Lambda function for all maintenance tasks.  A rule    *)
(* invokes it with a task, possibly twice at once; it takes the lock of    *)
(* the task and the hour, works on the task statement by statement, and    *)
(* never gives the lock back.  Time is counted in lifetimes of a lock.     *)
(***************************************************************************)
EXTENDS Naturals, FiniteSets, Sequences, SequencesExt

CONSTANTS
  Lambdas,       \* invocations of the archiver at once
  Manual,        \* runs of cmd/tools/job-runner at once: they have no timeout
  RuleSets,      \* the sets of rules a deployment may have enabled
  Orgs, WatchPoints, AuditLogs, ForecastRuns,
  BatchLimit,    \* digestBatchLimit, auditLogBatchSize and the like
  PerHour,       \* lifetimes of a lock in an hour
  MaxArchivings  \* bound: how often one WatchPoint is archived

Tasks == {"digests", "cleanup", "archive", "tier"}

ASSUME SchedulerAssumption ==
  /\ {BatchLimit, PerHour, MaxArchivings} \subseteq Nat \ {0}
  /\ Lambdas \cap Manual = {} /\ RuleSets \subseteq SUBSET Tasks
  /\ \A rows \in {Orgs, WatchPoints, AuditLogs, ForecastRuns} : IsFiniteSet(rows)

VARIABLES
  rules,      \* the enabled rules
  time,       \* lifetimes of a lock that passed in this hour
  lock,       \* task -> age of this hour's lock, Free if there is none
  run,        \* invocation -> where it is and what it has read
  org,        \* organization -> its next digest, and whether it is deleted
  watchpoint, \* Event Mode WatchPoint whose window is over -> row, summaries asked for
  audit,      \* audit log -> where it is kept
  forecast    \* forecast run -> row and objects

vars == <<rules, time, lock, run, org, watchpoint, audit, forecast>>
data == <<org, watchpoint, audit, forecast>>

Workers == Lambdas \cup Manual
Expired == 2
Free    == 3

First == [digests |-> "listDue", cleanup |-> "listOrgs", archive |-> "archive", tier |-> "listRuns"]

Steps == {"idle", "listDue", "publish", "advance", "listOrgs", "deleteOrgs", "listWatchPoints",
          "deleteWatchPoints", "listAudit", "upload", "deleteAudit", "archive", "summaries",
          "listRuns", "objects", "mark"}

Items == Orgs \cup WatchPoints \cup AuditLogs \cup ForecastRuns

\* batch: what a query returned and is still to do, the current one first; full:
\* it was as long as the limit; progress: one of it succeeded.
NoRun == [at |-> "idle", task |-> "tier", age |-> 0, thisHour |-> TRUE,
          batch |-> <<>>, full |-> FALSE, progress |-> FALSE]

TypeOK ==
  /\ rules \in SUBSET Tasks /\ time \in 0..PerHour-1
  /\ lock \in [Tasks -> {0, 1, Expired, Free}]
  /\ \A w \in Workers :
       /\ run[w].at \in Steps /\ run[w].task \in Tasks /\ run[w].age \in {0, 1}
       /\ run[w].batch \in Seq(Items)
       /\ {run[w].thisHour, run[w].full, run[w].progress} \subseteq BOOLEAN
  /\ org \in [Orgs -> [digest : {"due", "later"}, sent : BOOLEAN,
                       state : {"active", "deleted", "purged"}]]
  /\ watchpoint \in [WatchPoints -> [state : {"active", "archived", "purged"},
                       archivings : 0..MaxArchivings, summaries : 0..MaxArchivings]]
  /\ audit \in [AuditLogs -> SUBSET {"table", "bucket"}]
  /\ forecast \in [ForecastRuns -> [state : {"complete", "deleted"}, objects : 0..2]]

Init ==
  /\ rules \in RuleSets
  /\ time = 0 /\ lock = [t \in Tasks |-> Free]
  /\ run = [w \in Workers |-> NoRun]
  /\ org = [o \in Orgs |-> [digest |-> "due", sent |-> FALSE, state |-> "active"]]
  /\ watchpoint \in [WatchPoints ->
       {[state |-> "active", archivings |-> 0, summaries |-> 0],
        [state |-> "archived", archivings |-> 1, summaries |-> 1]}]
  /\ audit = [e \in AuditLogs |-> {"table"}]
  /\ forecast = [f \in ForecastRuns |-> [state |-> "complete", objects |-> 2]]

-----------------------------------------------------------------------------
(* The lock and the run.                                                    *)

\* Mutant: the row may be taken although it has not expired.
AcquirableAny(t) == lock[t] # 0

\* The row does not exist, or its expires_at is in the past.
Acquirable(t) == lock[t] \in {Expired, Free}

\* Handler.Handle up to dispatch.  An invocation that does not get the lock
\* reports a success and changes nothing.
Acquire(w, t) ==
  /\ run[w].at = "idle" /\ t \in rules
  /\ w \in Manual => t = "cleanup"
  /\ Acquirable(t)
  /\ lock' = [lock EXCEPT ![t] = 0]
  /\ run' = [run EXCEPT ![w] = [NoRun EXCEPT !.at = First[t], !.task = t]]
  /\ UNCHANGED <<rules, time, data>>

At(w, step)   == run[w].at = step
Current(w)    == Head(run[w].batch)
Finish(w)     == run' = [run EXCEPT ![w] = NoRun]
Goto(w, step) == run' = [run EXCEPT ![w].at = step]
Take(w, step, batch) ==
  run' = [run EXCEPT ![w].at = step, ![w].batch = batch, ![w].progress = FALSE,
                     ![w].full = Len(batch) = BatchLimit]
Drop(w, step, ok) ==
  run' = [run EXCEPT ![w].at = step, ![w].batch = Tail(@), ![w].progress = @ \/ ok]
Loop(w, step, again) ==
  /\ At(w, step) /\ run[w].batch = <<>>
  /\ IF run[w].full /\ again THEN Goto(w, First[run[w].task]) ELSE Finish(w)
  /\ UNCHANGED <<rules, time, lock, data>>

\* A query with a LIMIT and no order.
Batches(due) ==
  UNION {SetToSeqs(b) : b \in {c \in SUBSET due :
           \/ Cardinality(c) = BatchLimit
           \/ c = due /\ Cardinality(due) < BatchLimit}}

\* An error that the task returns, a crash, or the timeout: the lock stays.
Stop(w) ==
  /\ ~At(w, "idle")
  /\ Finish(w)
  /\ UNCHANGED <<rules, time, lock, data>>

\* A lifetime of a lock passes.  The timeout of the function is shorter: no
\* invocation of it lives that long.  The first one of an hour takes another lock.
Tick ==
  /\ \A w \in Lambdas : run[w].age = 0
  /\ time' = (time + 1) % PerHour
  /\ run' = [w \in Workers |->
       IF run[w].at = "idle" THEN run[w]
       ELSE [run[w] EXCEPT !.age = 1, !.thisHour = @ /\ time' # 0]]
  /\ lock' = [t \in Tasks |-> IF time' = 0 \/ lock[t] = Free THEN Free
                              ELSE IF lock[t] = 0 THEN 1 ELSE Expired]
  /\ UNCHANGED <<rules, data>>

-----------------------------------------------------------------------------
(* Digests.                                                                 *)

\* next_digest_at passes.  It does not while digests are being sent: the times
\* are a day apart, and an invocation lasts a minute.
DigestFallsDue(o) ==
  /\ org[o].digest = "later" /\ org[o].state = "active"
  /\ \A w \in Workers : At(w, "idle") \/ run[w].task # "digests"
  /\ org' = [org EXCEPT ![o].digest = "due", ![o].sent = FALSE]
  /\ UNCHANGED <<rules, time, lock, run, watchpoint, audit, forecast>>

\* DELETE /v1/organization.
DeleteOrganization(o) ==
  /\ org[o].state = "active"
  /\ org' = [org EXCEPT ![o].state = "deleted"]
  /\ UNCHANGED <<rules, time, lock, run, watchpoint, audit, forecast>>

ListDueDigestOrgs(w) ==
  /\ At(w, "listDue")
  /\ \E batch \in Batches({o \in Orgs : org[o].digest = "due" /\ org[o].state = "active"}) :
       IF batch = <<>> THEN Finish(w) ELSE Take(w, "publish", batch)
  /\ UNCHANGED <<rules, time, lock, data>>

\* processOrg: the message first; ...
PublishDigest(w) ==
  /\ At(w, "publish") /\ run[w].batch # <<>>
  /\ org' = [org EXCEPT ![Current(w)].sent = TRUE]
  /\ Goto(w, "advance")
  /\ UNCHANGED <<rules, time, lock, watchpoint, audit, forecast>>

\* Mutant: the failure is logged and next_digest_at moves on.
PublishFailsSilently(w) ==
  /\ At(w, "publish") /\ run[w].batch # <<>>
  /\ Goto(w, "advance")
  /\ UNCHANGED <<rules, time, lock, data>>

\* ... if it fails the organization stays due; ...
PublishFails(w) ==
  /\ At(w, "publish") /\ run[w].batch # <<>>
  /\ Drop(w, "publish", FALSE)
  /\ UNCHANGED <<rules, time, lock, data>>

\* Mutant: the next time is the one that is due, if it is not over yet.
AdvanceToNow(w) ==
  /\ At(w, "advance")
  /\ Drop(w, "publish", TRUE)
  /\ UNCHANGED <<rules, time, lock, data>>

\* ... then next_digest_at, even if the organization was deleted meanwhile.
UpdateNextDigestAt(w) ==
  /\ At(w, "advance")
  /\ org' = [org EXCEPT ![Current(w)].digest = "later"]
  /\ Drop(w, "publish", TRUE)
  /\ UNCHANGED <<rules, time, lock, watchpoint, audit, forecast>>

\* If that fails the message is sent once more.
UpdateFails(w) ==
  /\ At(w, "advance")
  /\ Drop(w, "publish", FALSE)
  /\ UNCHANGED <<rules, time, lock, data>>

\* TriggerDigests goes on after a full batch in which something succeeded.
EndDigestBatch(w) == Loop(w, "publish", run[w].progress)

-----------------------------------------------------------------------------
(* Cleanup.                                                                 *)

ListSoftDeletedOrgIDs(w) ==
  /\ At(w, "listOrgs")
  /\ \E batch \in Batches({o \in Orgs : org[o].state = "deleted"}) : Take(w, "deleteOrgs", batch)
  /\ UNCHANGED <<rules, time, lock, data>>

\* PurgeSoftDeletedOrgs goes on with the next one if it fails.
HardDeleteOrg(w) ==
  /\ At(w, "deleteOrgs") /\ run[w].batch # <<>>
  /\ \E state \in {"purged", org[Current(w)].state} : org' = [org EXCEPT ![Current(w)].state = state]
  /\ Drop(w, "deleteOrgs", TRUE)
  /\ UNCHANGED <<rules, time, lock, watchpoint, audit, forecast>>

\* Those that are archived for long enough.
ListArchivedWatchPointIDs(w) ==
  /\ At(w, "deleteOrgs") /\ run[w].batch = <<>>
  /\ \E due \in SUBSET {p \in WatchPoints : watchpoint[p].state = "archived"} :
       \E batch \in Batches(due) : Take(w, "deleteWatchPoints", batch)
  /\ UNCHANGED <<rules, time, lock, data>>

\* One DELETE by id, which does not look at the status again.  The job-runner
\* leaves the audit logs alone.
HardDeleteWatchPoints(w) ==
  /\ At(w, "deleteWatchPoints")
  /\ watchpoint' = [p \in WatchPoints |->
       IF \E i \in DOMAIN run[w].batch : run[w].batch[i] = p
       THEN [watchpoint[p] EXCEPT !.state = "purged"] ELSE watchpoint[p]]
  /\ IF w \in Manual THEN Finish(w) ELSE Goto(w, "listAudit")
  /\ UNCHANGED <<rules, time, lock, org, audit, forecast>>

\* ArchiveAuditLogs: a batch is listed, ...
ListAuditLogsOlderThan(w) ==
  /\ At(w, "listAudit")
  /\ \E batch \in Batches({e \in AuditLogs : "table" \in audit[e]}) :
       IF batch = <<>> THEN Finish(w) ELSE Take(w, "upload", batch)
  /\ UNCHANGED <<rules, time, lock, data>>

InBatch(w, e) == \E i \in DOMAIN run[w].batch : run[w].batch[i] = e

\* ... written to the bucket, ...
UploadArchive(w) ==
  /\ At(w, "upload")
  /\ audit' = [e \in AuditLogs |-> audit[e] \cup IF InBatch(w, e) THEN {"bucket"} ELSE {}]
  /\ Goto(w, "deleteAudit")
  /\ UNCHANGED <<rules, time, lock, org, watchpoint, forecast>>

\* ... and deleted, until a batch is not full.
DeleteAuditLogsByIDs(w) ==
  /\ At(w, "deleteAudit")
  /\ audit' = [e \in AuditLogs |-> audit[e] \ IF InBatch(w, e) THEN {"table"} ELSE {}]
  /\ IF run[w].full THEN Goto(w, "listAudit") ELSE Finish(w)
  /\ UNCHANGED <<rules, time, lock, org, watchpoint, forecast>>

-----------------------------------------------------------------------------
(* Archiving.                                                               *)

\* PATCH makes an archived WatchPoint active, whatever its window.
Unarchive(p) ==
  /\ watchpoint[p].state = "archived" /\ watchpoint[p].archivings < MaxArchivings
  /\ watchpoint' = [watchpoint EXCEPT ![p].state = "active"]
  /\ UNCHANGED <<rules, time, lock, run, org, audit, forecast>>

Active == {p \in WatchPoints : watchpoint[p].state = "active"}

\* Mutant: the rows are selected first, and archived as their summaries are asked for.
ArchiveListed(w) ==
  /\ At(w, "archive")
  /\ \/ /\ \E batch \in SetToSeqs(Active) : Take(w, "archive", batch)
        /\ run[w].batch = <<>> /\ UNCHANGED watchpoint
     \/ /\ run[w].batch # <<>> /\ Goto(w, "summaries")
        /\ watchpoint' = [p \in WatchPoints |->
             IF p \in Active THEN [watchpoint[p] EXCEPT !.state = "archived", !.archivings = @ + 1]
             ELSE watchpoint[p]]
  /\ UNCHANGED <<rules, time, lock, org, audit, forecast>>

\* One UPDATE, which returns the rows it changed.
ArchiveExpiredWatchPoints(w) ==
  /\ At(w, "archive")
  /\ watchpoint' = [p \in WatchPoints |->
       IF p \in Active THEN [watchpoint[p] EXCEPT !.state = "archived", !.archivings = @ + 1]
       ELSE watchpoint[p]]
  /\ \E batch \in SetToSeqs(Active) : Take(w, "summaries", batch)
  /\ UNCHANGED <<rules, time, lock, org, audit, forecast>>

\* A summary is asked for, or that fails and is not tried again.
PublishEvalMessage(w) ==
  /\ At(w, "summaries") /\ run[w].batch # <<>>
  /\ \E n \in {0, 1} : watchpoint' = [watchpoint EXCEPT ![Current(w)].summaries = @ + n]
  /\ Drop(w, "summaries", TRUE)
  /\ UNCHANGED <<rules, time, lock, org, audit, forecast>>

EndArchive(w) ==
  /\ At(w, "summaries") /\ run[w].batch = <<>> /\ Finish(w)
  /\ UNCHANGED <<rules, time, lock, data>>

-----------------------------------------------------------------------------
(* Retention of forecasts.                                                  *)

ListExpiredForecastRuns(w) ==
  /\ At(w, "listRuns")
  /\ \E batch \in Batches({f \in ForecastRuns : forecast[f].state = "complete"}) :
       Take(w, "objects", batch)
  /\ UNCHANGED <<rules, time, lock, data>>

\* All objects under the path are deleted, or some of them and the next run is taken.
DeleteObjects(w) ==
  /\ At(w, "objects") /\ run[w].batch # <<>>
  /\ \E n \in 0..forecast[Current(w)].objects :
       /\ forecast' = [forecast EXCEPT ![Current(w)].objects = n]
       /\ \/ n = 0 /\ Goto(w, "mark")
          \/ Drop(w, "objects", FALSE)
  /\ UNCHANGED <<rules, time, lock, org, watchpoint, audit>>

\* The row forgets the path of the objects; it may fail.
MarkForecastRunDeleted(w) ==
  /\ At(w, "mark")
  /\ \E state \in {"deleted", forecast[Current(w)].state} :
       forecast' = [forecast EXCEPT ![Current(w)].state = state]
  /\ Drop(w, "objects", TRUE)
  /\ UNCHANGED <<rules, time, lock, org, watchpoint, audit>>

EndTier(w) ==
  /\ At(w, "objects") /\ run[w].batch = <<>> /\ Finish(w)
  /\ UNCHANGED <<rules, time, lock, data>>

-----------------------------------------------------------------------------
Digests(w) == ListDueDigestOrgs(w) \/ PublishDigest(w) \/ UpdateNextDigestAt(w) \/ EndDigestBatch(w)

Cleanup(w) ==
  \/ ListSoftDeletedOrgIDs(w) \/ HardDeleteOrg(w)
  \/ ListArchivedWatchPointIDs(w) \/ HardDeleteWatchPoints(w)
  \/ ListAuditLogsOlderThan(w) \/ UploadArchive(w) \/ DeleteAuditLogsByIDs(w)

Archive(w) == ArchiveExpiredWatchPoints(w) \/ PublishEvalMessage(w) \/ EndArchive(w)

Tier(w) == ListExpiredForecastRuns(w) \/ DeleteObjects(w) \/ MarkForecastRunDeleted(w) \/ EndTier(w)

Next ==
  \/ Tick
  \/ \E w \in Workers :
       \/ Digests(w) \/ PublishFails(w) \/ UpdateFails(w) \/ Cleanup(w) \/ Archive(w) \/ Tier(w) \/ Stop(w)
       \/ \E t \in Tasks : Acquire(w, t)
  \/ \E o \in Orgs : DigestFallsDue(o) \/ DeleteOrganization(o)
  \/ \E p \in WatchPoints : Unarchive(p)

\* Time passes, EventBridge goes on invoking the function, and an invocation
\* goes on until it ends.
Fairness ==
  /\ WF_vars(Tick)
  /\ \A t \in Tasks : WF_vars(\E w \in Lambdas : Acquire(w, t))
  /\ \A w \in Lambdas : WF_vars(Digests(w)) /\ WF_vars(Cleanup(w) \/ Archive(w) \/ Tier(w))

Spec == Init /\ [][Next]_vars /\ Fairness

-----------------------------------------------------------------------------
(* Properties.                                                              *)

\* What the lock is for.  It holds although no lock is released, because the
\* timeout of the function is shorter than the lifetime of the lock.
Jobs == INSTANCE HourlyJobs WITH
  working <- [t \in Tasks |-> Cardinality({w \in Lambdas :
                ~At(w, "idle") /\ run[w].task = t /\ run[w].thisHour})]
ImplementsHourlyJobs == Jobs!Spec

\* next_digest_at only moves on after the digest of that time was sent.
NoDigestSkipped ==
  [][\A o \in Orgs : org[o].digest = "due" /\ org'[o].digest = "later" => org[o].sent]_vars

\* Once nothing fails any more every digest that is due is sent, although the
\* lock of an invocation that failed makes the next ones report a success: again
\* and again there is none to send.
FailuresCease ==
  <>[][\A w \in Workers : run[w].task = "digests" /\ run'[w] # run[w] => Digests(w) \/ Tick]_vars

DueDigestsAreSent ==
  FailuresCease /\ "digests" \in rules =>
    \A o \in Orgs : []<>(org[o].digest = "later" \/ org[o].state # "active")

\* An audit log is in the table or in the bucket at every moment, a forecast
\* whose row forgot its path has no objects left, and a WatchPoint is summarized
\* at most once each time it is archived, whoever else works on the same tables.
AuditLogsKept     == \A e \in AuditLogs : audit[e] # {}
NoOrphanedObjects == \A f \in ForecastRuns : forecast[f].state = "deleted" => forecast[f].objects = 0
SummaryOncePerArchiving == \A p \in WatchPoints : watchpoint[p].summaries <= watchpoint[p].archivings
NothingLostOrDoubled == TypeOK /\ AuditLogsKept /\ NoOrphanedObjects /\ SummaryOncePerArchiving
=============================================================================
