---------------------------- MODULE EvalPipeline ----------------------------
(***************************************************************************)
(* The evaluation pipeline: the Batcher turns a finished forecast run into *)
(* one EvalMessage per page of active WatchPoints, SQS delivers the        *)
(* messages at least once, and Eval Workers fetch the page, read the       *)
(* evaluation state, evaluate the conditions, commit the new state with    *)
(* its notifications in one transaction and only then publish the          *)
(* notifications.                                                          *)
(*                                                                         *)
(* One tile is modelled: a WatchPoint belongs to one tile at a time and    *)
(* tiles share neither rows nor messages.  WatchPoints are numbers because *)
(* the page query orders them by id.  A forecast is abstracted to a        *)
(* reading per run and configuration of a WatchPoint: whether the          *)
(* conditions are met without hysteresis (above) and with it (held), and   *)
(* the escalation level.                                                   *)
(***************************************************************************)
EXTENDS EvalLogic, FiniteSets

CONSTANTS
  Workers,           \* concurrent Lambda instances of the Eval Worker
  WatchPoints,       \* ids of the tile's WatchPoints
  MaxRun,            \* forecast runs are 1..MaxRun, in timestamp order
  MaxVersion,        \* bound on config_version
  Readings,          \* what a forecast may say about a WatchPoint
  PageSize,          \* Config.MaxPageSize
  MaxPages,          \* bound on the page numbers
  MaxReceive,        \* maxReceiveCount of the evaluation queues
  MaxDispatch,       \* how often the Batcher may dispatch one run
  DuplicateDelivery, \* may SQS deliver a message that a worker holds?
  Unreadable,        \* runs whose tile data is corrupt or expired
  MaxClock,          \* bound on the clock
  MaxFaults,         \* bound on crashes and failing calls
  MaxChurn           \* bound on pauses and resumes

Runs == 1..MaxRun
Versions == 1..MaxVersion
Pages == 0..MaxPages - 1
Times == 0..MaxClock

Messages == [run : Runs, page : Pages, batch : 1..MaxDispatch]
NoMessage == [run |-> NoRun, page |-> 0, batch |-> 0]

ASSUME ConstantsAssumption ==
  /\ WatchPoints \subseteq Nat
  /\ MaxRun \in Nat \ {0}
  /\ MaxVersion \in Nat \ {0}
  /\ Readings \subseteq [above : BOOLEAN, held : BOOLEAN, level : Nat]
  /\ Readings # {}
  /\ PageSize \in Nat \ {0}
  /\ MaxPages \in Nat \ {0}
  /\ MaxReceive \in Nat \ {0}
  /\ MaxDispatch \in Nat \ {0}
  /\ DuplicateDelivery \in BOOLEAN
  /\ Unreadable \subseteq Runs
  /\ MaxClock \in Nat
  /\ MaxFaults \in Nat
  /\ MaxChurn \in Nat

VARIABLES
  forecast,    \* what each run says of each configuration: fixed tile data
  active,      \* WatchPoints with status active
  version,     \* config_version of each WatchPoint
  evalState,   \* the rows of watchpoint_evaluation_state
  history,     \* the rows of notifications, per WatchPoint, as inserted
  overwritten, \* history: WatchPoints whose row was once written from
               \*   another state than the stored one (see outdated)
  dispatched,  \* how often the Batcher dispatched each run
  queue,       \* messages of the evaluation queue, not yet deleted
  receives,    \* ApproximateReceiveCount of each message
  dlq,         \* messages moved to the dead letter queue
  dropped,     \* history: messages reported as failed and yet deleted
  pc,          \* where each worker is in process_tile
  held,        \* the message each worker processes
  fetched,     \* worker's page: config_version read, 0 if not on the page
  result,      \* worker's BatchResult
  outdated,    \* history: WatchPoints of the result that another worker has
               \*   evaluated since the states were read, or for which it
               \*   had used a newer configuration before
  outbox,      \* notifications the worker still has to publish
  published,   \* notifications sent to the notification queue
  clock,       \* wall clock, in the units of Cooldown
  faults,      \* crashes and failed calls so far
  churn        \* pauses and resumes so far

dbVars     == <<active, version, evalState, history, overwritten>>
queueVars  == <<dispatched, queue, receives, dlq, dropped>>
workerVars == <<pc, held, fetched, result, outdated, outbox>>
vars == <<forecast, dbVars, queueVars, workerVars, published, clock, faults, churn>>

Init ==
  /\ forecast \in [Runs -> [WatchPoints -> [Versions -> Readings]]]
  /\ \A r \in Unreadable :  \* whatever it says, nobody reads it
       forecast[r] = [wp \in WatchPoints |-> [v \in Versions |-> CHOOSE x \in Readings : TRUE]]
  /\ active = WatchPoints
  /\ version = [wp \in WatchPoints |-> 1]
  /\ evalState = [wp \in WatchPoints |-> NoState]
  /\ history = [wp \in WatchPoints |-> << >>]
  /\ overwritten = {}
  /\ dispatched = [r \in Runs |-> 0]
  /\ queue = {}
  /\ receives = [m \in Messages |-> 0]
  /\ dlq = {}
  /\ dropped = {}
  /\ pc = [w \in Workers |-> "idle"]
  /\ held = [w \in Workers |-> NoMessage]
  /\ fetched = [w \in Workers |-> [wp \in WatchPoints |-> 0]]
  /\ result = [w \in Workers |-> [wp \in WatchPoints |-> Skipped]]
  /\ outdated = [w \in Workers |-> {}]
  /\ outbox = [w \in Workers |-> {}]
  /\ published = {}
  /\ clock = 0
  /\ faults = 0
  /\ churn = 0

-----------------------------------------------------------------------------
(* The Batcher. *)

(* GetActiveTileCounts and generateMessages: one message per page of the   *)
(* tile, ceil(count / PageSize) of them, sent by SendBatch.                *)
DispatchRun(r) ==
  /\ dispatched[r] < MaxDispatch
  /\ dispatched' = [dispatched EXCEPT ![r] = @ + 1]
  /\ queue' = queue \cup
       {[run |-> r, page |-> p, batch |-> dispatched[r] + 1] :
          p \in {q \in Pages : q * PageSize < Cardinality(active)}}
  /\ UNCHANGED <<forecast, dbVars, receives, dlq, dropped, workerVars, published,
                 clock, faults, churn>>

-----------------------------------------------------------------------------
(* The Eval Worker. *)

Release(w) ==
  /\ pc' = [pc EXCEPT ![w] = "idle"]
  /\ held' = [held EXCEPT ![w] = NoMessage]
  /\ fetched' = [fetched EXCEPT ![w] = [wp \in WatchPoints |-> 0]]
  /\ result' = [result EXCEPT ![w] = [wp \in WatchPoints |-> Skipped]]
  /\ outdated' = [outdated EXCEPT ![w] = {}]
  /\ outbox' = [outbox EXCEPT ![w] = {}]

Ack(m) == queue' = queue \ {m}

(* A message the handler lists in batchItemFailures.  The event sources   *)
(* do not ask for partial batch responses (no FunctionResponseTypes), so   *)
(* Lambda takes the invocation for a success and deletes the batch.        *)
Nack(m) ==
  /\ Ack(m)
  /\ dropped' = dropped \cup {m}

(* SQS hands a visible message to an idle worker. *)
Receive(w, m) ==
  /\ pc[w] = "idle"
  /\ m \in queue
  /\ receives[m] < MaxReceive
  /\ DuplicateDelivery \/ \A v \in Workers : held[v] # m
  /\ receives' = [receives EXCEPT ![m] = @ + 1]
  /\ held' = [held EXCEPT ![w] = m]
  /\ pc' = [pc EXCEPT ![w] = "fetch"]
  /\ UNCHANGED <<forecast, dbVars, dispatched, queue, dlq, dropped, fetched, result,
                 outdated, outbox, published, clock, faults, churn>>

(* A message received MaxReceive times and not deleted goes to the DLQ. *)
MoveToDLQ(m) ==
  /\ m \in queue
  /\ receives[m] = MaxReceive
  /\ \A v \in Workers : held[v] # m
  /\ queue' = queue \ {m}
  /\ dlq' = dlq \cup {m}
  /\ UNCHANGED <<forecast, dbVars, dispatched, receives, dropped, workerVars, published,
                 clock, faults, churn>>

(* load_tile raises ForecastCorruptError or ForecastExpiredError. *)
DiscardForecast(w) ==
  /\ pc[w] = "fetch"
  /\ held[w].run \in Unreadable
  /\ Ack(held[w])
  /\ Release(w)
  /\ UNCHANGED <<forecast, dbVars, dispatched, receives, dlq, dropped, published,
                 clock, faults, churn>>

(* A bug: the newest WatchPoints come first, and move the others back.     *)
NewestFirst(page) ==
  {wp \in active :
     Cardinality({v \in active : v > wp}) \div PageSize = page}

(* The WatchPoints of a page: LIMIT PageSize OFFSET page * PageSize of the *)
(* active ones ordered by id.                                              *)
OnPage(page) ==
  {wp \in active :
     Cardinality({v \in active : v < wp}) \div PageSize = page}

(* load_tile and fetch_watchpoints. *)
FetchWatchPoints(w) ==
  /\ pc[w] = "fetch"
  /\ held[w].run \notin Unreadable
  /\ LET page == OnPage(held[w].page)
     IN  IF page = {}
         THEN /\ Ack(held[w])
              /\ Release(w)
         ELSE /\ fetched' = [fetched EXCEPT ![w] =
                   [wp \in WatchPoints |-> IF wp \in page THEN version[wp] ELSE 0]]
              /\ pc' = [pc EXCEPT ![w] = "evaluate"]
              /\ UNCHANGED <<queue, held, result, outdated, outbox>>
  /\ UNCHANGED <<forecast, dbVars, dispatched, receives, dlq, dropped, published,
                 clock, faults, churn>>

(* A bug: what is stored is read again with the states, but not the        *)
(* configuration that the WatchPoints were fetched with.                   *)
EvaluationOfNewest(w) ==
  [wp \in WatchPoints |->
     IF fetched[w][wp] = 0 THEN Skipped
     ELSE EvaluateOne(evalState[wp], fetched[w][wp],
                      forecast[held[w].run][wp][version[wp]],
                      held[w].run, clock)]

(* fetch_states, in a transaction of its own, then evaluate_batch.  With   *)
(* nothing to commit the message is done.                                  *)
Evaluation(w) ==
  [wp \in WatchPoints |->
     IF fetched[w][wp] = 0 THEN Skipped
     ELSE EvaluateOne(evalState[wp], fetched[w][wp],
                      forecast[held[w].run][wp][fetched[w][wp]],
                      held[w].run, clock)]

(* The results for which an older configuration was fetched than the one   *)
(* that the stored state is for.                                           *)
OlderConfig(w) ==
  {wp \in WatchPoints : /\ Evaluation(w)[wp].update
                        /\ fetched[w][wp] < evalState[wp].version}

EvaluateBatch(w) ==
  /\ pc[w] = "evaluate"
  /\ IF \A wp \in WatchPoints : ~Evaluation(w)[wp].update
     THEN /\ Ack(held[w])
          /\ Release(w)
     ELSE /\ result' = [result EXCEPT ![w] = Evaluation(w)]
          /\ fetched' = [fetched EXCEPT ![w] = [wp \in WatchPoints |-> 0]]
          /\ outdated' = [outdated EXCEPT ![w] = OlderConfig(w)]
          /\ pc' = [pc EXCEPT ![w] = "commit"]
          /\ UNCHANGED <<queue, held, outbox>>
  /\ UNCHANGED <<forecast, dbVars, dispatched, receives, dlq, dropped, published,
                 clock, faults, churn>>

(* A bug: the upsert without its WHERE clause. *)
UpdatedUnguarded(res) == {wp \in WatchPoints : res[wp].update}

(* The rows the conditional upsert really writes: RETURNING watchpoint_id. *)
UpdatedBy(res) ==
  {wp \in WatchPoints :
     /\ res[wp].update
     /\ \/ evalState[wp].lastRun = NoRun
        \/ evalState[wp].lastRun <= res[wp].state.lastRun}

(* A bug: the notifications of stale rows are published as well. *)
InsertedForAll(res) ==
  UNION {{<<wp, i>> : i \in Len(history[wp]) + 1 ..
                            Len(history[wp]) + Len(res[wp].notes)} :
         wp \in {v \in WatchPoints : res[v].update}}

(* The notifications inserted for the updated rows: <<wp, row number>>. *)
InsertedBy(res) ==
  UNION {{<<wp, i>> : i \in Len(history[wp]) + 1 ..
                            Len(history[wp]) + Len(res[wp].notes)} :
         wp \in UpdatedBy(res)}

(* commit_batch up to the commit: states and notifications in one          *)
(* transaction.                                                            *)
Commit(w) ==
  /\ pc[w] = "commit"
  /\ LET res == result[w]
         updated == UpdatedBy(res)
     IN  /\ evalState' = [wp \in WatchPoints |->
               IF wp \in updated THEN res[wp].state ELSE evalState[wp]]
         /\ history' = [wp \in WatchPoints |->
               IF wp \in updated THEN history[wp] \o res[wp].notes
               ELSE history[wp]]
         /\ outbox' = [outbox EXCEPT ![w] = InsertedBy(res)]
         /\ overwritten' = overwritten \cup (updated \cap outdated[w])
         /\ outdated' = [v \in Workers |->
               IF v = w THEN {}
               ELSE outdated[v] \cup {wp \in updated : result[v][wp].update}]
  /\ result' = [result EXCEPT ![w] = [wp \in WatchPoints |-> Skipped]]
  /\ pc' = [pc EXCEPT ![w] = "publish"]
  /\ UNCHANGED <<forecast, active, version, queueVars, held, fetched,
                 published, clock, faults, churn>>

(* commit_batch after the commit: send_message, one notification a time. *)
Publish(w) ==
  /\ pc[w] = "publish"
  /\ \E n \in outbox[w] :
       /\ published' = published \cup {n}
       /\ outbox' = [outbox EXCEPT ![w] = @ \ {n}]
  /\ UNCHANGED <<forecast, dbVars, queueVars, pc, held, fetched, result,
                 outdated, clock, faults, churn>>

(* The handler returns with the message not among the failures. *)
Finish(w) ==
  /\ pc[w] = "publish"
  /\ outbox[w] = {}
  /\ Ack(held[w])
  /\ Release(w)
  /\ UNCHANGED <<forecast, dbVars, dispatched, receives, dlq, dropped, published,
                 clock, faults, churn>>

(* An S3, database or SQS call raises, or the time budget is exceeded      *)
(* before the commit: the handler reports the message as failed.  After    *)
(* the commit only send_message can fail.                                  *)
Fail(w) ==
  /\ pc[w] # "idle"
  /\ pc[w] = "publish" => outbox[w] # {}
  /\ faults < MaxFaults
  /\ faults' = faults + 1
  /\ Nack(held[w])
  /\ Release(w)
  /\ UNCHANGED <<forecast, dbVars, dispatched, receives, dlq, published,
                 clock, churn>>

(* The Lambda instance dies: the message becomes visible again. *)
Crash(w) ==
  /\ pc[w] # "idle"
  /\ faults < MaxFaults
  /\ faults' = faults + 1
  /\ Release(w)
  /\ UNCHANGED <<forecast, dbVars, queueVars, published, clock, churn>>

-----------------------------------------------------------------------------
(* The API and the clock. *)

(* PATCH of the conditions: the database trigger bumps config_version. *)
UpdateConfig(wp) ==
  /\ version[wp] < MaxVersion
  /\ version' = [version EXCEPT ![wp] = @ + 1]
  /\ UNCHANGED <<forecast, active, evalState, history, overwritten, queueVars, workerVars,
                 published, clock, faults, churn>>

Pause(wp) ==
  /\ wp \in active
  /\ churn < MaxChurn
  /\ churn' = churn + 1
  /\ active' = active \ {wp}
  /\ UNCHANGED <<forecast, version, evalState, history, overwritten, queueVars, workerVars,
                 published, clock, faults>>

Resume(wp) ==
  /\ wp \in WatchPoints \ active
  /\ churn < MaxChurn
  /\ churn' = churn + 1
  /\ active' = active \cup {wp}
  /\ UNCHANGED <<forecast, version, evalState, history, overwritten, queueVars, workerVars,
                 published, clock, faults>>

Tick ==
  /\ clock < MaxClock
  /\ clock' = clock + 1
  /\ UNCHANGED <<forecast, dbVars, queueVars, workerVars, published, faults,
                 churn>>

-----------------------------------------------------------------------------
Step(w) ==
  \/ DiscardForecast(w)
  \/ FetchWatchPoints(w)
  \/ EvaluateBatch(w)
  \/ Commit(w)
  \/ Publish(w)
  \/ Finish(w)

Next ==
  \/ \E r \in Runs : DispatchRun(r)
  \/ \E w \in Workers, m \in Messages : Receive(w, m)
  \/ \E m \in Messages : MoveToDLQ(m)
  \/ \E w \in Workers : Step(w) \/ Fail(w) \/ Crash(w)
  \/ \E wp \in WatchPoints : UpdateConfig(wp) \/ Pause(wp) \/ Resume(wp)
  \/ Tick

Spec == Init /\ [][Next]_vars

(* SQS keeps delivering visible messages and Lambda keeps running a worker *)
(* that has not crashed; nothing forces a fault, an edit or a tick.        *)
Fairness ==
  /\ \A w \in Workers : WF_vars(Step(w))
  /\ \A m \in Messages : WF_vars(\E w \in Workers : Receive(w, m))
  /\ \A m \in Messages : WF_vars(MoveToDLQ(m))

FairSpec == Spec /\ Fairness

-----------------------------------------------------------------------------
(* Properties. *)

(* Every variable stays in its range. *)
TypeOK ==
  /\ forecast \in [Runs -> [WatchPoints -> [Versions -> Readings]]]
  /\ active \subseteq WatchPoints
  /\ version \in [WatchPoints -> Versions]
  /\ evalState \in [WatchPoints -> EvalStates]
  /\ history \in [WatchPoints -> Seq(Notifications)]
  /\ overwritten \subseteq WatchPoints
  /\ dispatched \in [Runs -> 0..MaxDispatch]
  /\ queue \subseteq Messages
  /\ receives \in [Messages -> 0..MaxReceive]
  /\ dlq \subseteq Messages
  /\ dropped \subseteq Messages
  /\ pc \in [Workers -> {"idle", "fetch", "evaluate", "commit", "publish"}]
  /\ held \in [Workers -> Messages \cup {NoMessage}]
  /\ fetched \in [Workers -> [WatchPoints -> Versions \cup {0}]]
  /\ result \in [Workers -> [WatchPoints -> Results]]
  /\ outdated \in [Workers -> SUBSET WatchPoints]
  /\ outbox \in [Workers -> SUBSET (WatchPoints \X Nat)]
  /\ published \subseteq WatchPoints \X Nat
  /\ clock \in Times
  /\ faults \in 0..MaxFaults
  /\ churn \in 0..MaxChurn

(* Stale write protection: whatever order the messages of two runs are     *)
(* delivered in, a state computed from an older run never replaces one     *)
(* computed from a newer run.                                              *)
LastRunNeverDecreases ==
  [][\A wp \in WatchPoints :
       evalState'[wp].lastRun >= evalState[wp].lastRun]_vars

(* A notification is inserted only together with the state that announces  *)
(* it: its run, configuration and sequence number are those of the row     *)
(* written in the same transaction, however stale the evaluation was.      *)
NotifiedWithState ==
  [][\A wp \in WatchPoints :
       history'[wp] # history[wp] =>
         LET n == history'[wp][Len(history'[wp])]
         IN  /\ n.run = evalState'[wp].lastRun
             /\ n.version = evalState'[wp].version
             /\ n.seq = evalState'[wp].seq]_vars

(* A user is never told of an older forecast after a newer one.            *)
RunsInOrder ==
  \A wp \in WatchPoints :
    \A i, j \in 1..Len(history[wp]) :
      i < j => history[wp][i].run <= history[wp][j].run

(* Nothing is sent to the notification queue that the database does not    *)
(* record, whatever was rolled back or skipped as stale.                   *)
PublishedIsRecorded ==
  \A n \in published : n[2] \in 1..Len(history[n[1]])

(* Two workers that evaluate a WatchPoint at once both commit, unless the  *)
(* run of the second is the older one, and the second writes its row from  *)
(* a state that is not the stored one.  What follows is promised to every  *)
(* WatchPoint whose row was never overwritten so: with one worker, to all. *)
Coherent == WatchPoints \ overwritten

(* One run alerts a WatchPoint at most once, through crashes, failed       *)
(* sends and redeliveries.                                                 *)
OncePerRun ==
  \A wp \in Coherent :
    \A i, j \in 1..Len(history[wp]) :
      i # j => history[wp][i].run # history[wp][j].run

(* event_sequence numbers the notifications of a WatchPoint 1, 2, 3, ...   *)
SeqGapFree ==
  \A wp \in Coherent :
    \A i \in 1..Len(history[wp]) : history[wp][i].seq = i

(* Within one configuration, a clearance answers a crossing, and a second  *)
(* crossing before a clearance is an escalation after the cooldown,        *)
(* whatever workers evaluate the WatchPoint one after the other and        *)
(* whatever else they do at once.                                          *)
AlertsAlternate ==
  \A wp \in Coherent :
    LET h == history[wp]
    IN  \A i \in 1..Len(h) :
          /\ h[i].kind = "threshold_cleared" =>
               /\ i > 1
               /\ h[i-1].kind = "threshold_crossed"
               /\ h[i-1].version = h[i].version
          /\ /\ i > 1
             /\ h[i].kind = "threshold_crossed"
             /\ h[i-1].kind = "threshold_crossed"
             /\ h[i-1].version = h[i].version
             => /\ h[i].level > h[i-1].level
                /\ h[i].at - h[i-1].at >= Cooldown

(* The stored state and the notifications tell the same story: the state   *)
(* is triggered exactly when the last notification announced a crossing    *)
(* under the configuration the state is for.                               *)
StateMatchesHistory ==
  \A wp \in Coherent :
    LET h == history[wp]
    IN  /\ evalState[wp].seq = Len(h)
        /\ evalState[wp].triggered <=>
              /\ h # << >>
              /\ h[Len(h)].kind = "threshold_crossed"
              /\ h[Len(h)].version = evalState[wp].version

(* The history of a WatchPoint is whole: numbered without gaps, one        *)
(* notification per run at most, and in agreement with the stored state.   *)
HistoryIsWhole == SeqGapFree /\ OncePerRun /\ StateMatchesHistory

(* The page that a WatchPoint is on while all before it are active. *)
PageOf(wp) == Cardinality({v \in WatchPoints : v < wp}) \div PageSize

(* The dispatch of a run whose tile data can be read reaches a WatchPoint: *)
(* it is evaluated against that run or a newer one, or the message of its  *)
(* page was reported as failed, which deletes it, or was given up.  Pages  *)
(* are counted by OFFSET, so this takes that the WatchPoint and all before *)
(* it stay active; those after it may come and go.                         *)
DispatchedIsEvaluated ==
  \A r \in Runs \ Unreadable : \A wp \in WatchPoints :
    [](\A v \in WatchPoints : v <= wp => v \in active) =>
      (dispatched[r] > 0 ~>
         \/ evalState[wp].lastRun >= r
         \/ \E m \in dropped \cup dlq : m.run = r /\ m.page = PageOf(wp))

(* And the queues, pages, transactions, redeliveries, crashes and edits    *)
(* are not to be seen in the rows of the database that no worker has       *)
(* overwritten: each page might as well have been evaluated in one step.   *)
Atomic == INSTANCE AtomicEvaluation
ImplementsAtomicEvaluation == Atomic!Spec
=============================================================================
