------------------------- MODULE WatchPointLifecycle -------------------------
(***************************************************************************)
(* The rows of watchpoints of one organization, written by API requests    *)
(* that read a row, change it and write it back, and by the statements of  *)
(* the billing enforcement, the Stripe webhook and the archiver.           *)
(*                                                                         *)
(* A request is two steps, because nothing holds the row between its read  *)
(* and its write.  WatchPoints are numbered in the order of their          *)
(* creation.  settings stands for what the config_version trigger watches. *)
(***************************************************************************)
EXTENDS Naturals, FiniteSets

CONSTANTS
  MaxCreated,     \* bound on the WatchPoints created
  Requests,       \* API requests in progress at once
  Settings,       \* conditions and preferences a user may choose
  Ends,           \* ends of the time windows, archive buffer included
  Plans,          \* plan tiers
  PlanLimit,      \* the plans' MaxWatchPoints, 0 for unlimited
  FreePlan,       \* the plan of a new organization
  PaymentGrace,   \* PaymentGracePeriod
  OverageGrace,   \* OverageGracePeriod
  MaxVersion,     \* bound on config_version
  MaxRequests,    \* bound on the requests
  MaxEvents,      \* bound on the Stripe events
  MaxTime         \* bound on the clock

Ids == 1..MaxCreated
Times == 1..MaxTime
Versions == 1..MaxVersion
Statuses == {"active", "paused", "archived"}
EventTypes == {"subscription", "invoice_paid", "payment_failed"}
Events == [type : EventTypes, at : Times, plan : Plans]

ASSUME LifecycleAssumption ==
  /\ MaxCreated \in Nat
  /\ IsFiniteSet(Requests)
  /\ Ends \subseteq Nat
  /\ PlanLimit \in [Plans -> Nat]
  /\ FreePlan \in Plans
  /\ PaymentGrace \in Nat /\ OverageGrace \in Nat
  /\ MaxVersion \in Nat \ {0} /\ MaxRequests \in Nat /\ MaxEvents \in Nat
  /\ MaxTime \in Nat \ {0}

Rows == [status : Statuses, billing : BOOLEAN, deleted : BOOLEAN,
         settings : Settings, version : Versions, end : Ends]

Idle == [op |-> "none"]
Creates == [op : {"create"}, settings : Settings, end : Ends]
Writes == [op : {"write"}, id : Ids, status : Statuses, settings : Settings]

(* organizations.plan_limits is set when the organization is created; no   *)
(* event updates it with the plan.                                         *)
StoredLimit == PlanLimit[FreePlan]

VARIABLES
  rows,         \* the rows of watchpoints, by id; billing: paused_reason is
                \* 'billing_delinquency'
  req,          \* what each request still has to write
  plan,         \* organizations.plan
  lastEvent,    \* organizations.last_subscription_event_at, 0 for NULL
  failedAt,     \* organizations.payment_failed_at, 0 for NULL
  overageAt,    \* organizations.overage_started_at, 0 for NULL
  job,          \* the enforcement in progress
  clock,
  emitted,      \* the events Stripe has sent, delivered or not
  delivered,    \* those that were processed at least once
  committed,    \* the settings every version of a WatchPoint has stood for
  billed,       \* WatchPoints that an enforcement has paused
  reopened,     \* how often an archived WatchPoint was given another status
  started       \* requests so far

orgVars  == <<plan, lastEvent, failedAt, overageAt>>
seenVars == <<delivered, committed, billed, reopened>>
vars == <<rows, req, orgVars, job, clock, emitted, seenVars, started>>

Created == DOMAIN rows
Live == {id \in Created : ~rows[id].deleted}
Active == {id \in Live : rows[id].status = "active"}

(* CountActiveWatchPoints: what consumes the plan's capacity.              *)
Counted == {id \in Live : rows[id].status # "archived"}

Init ==
  /\ rows = [id \in {} |-> {}]
  /\ req = [r \in Requests |-> Idle]
  /\ plan = FreePlan
  /\ lastEvent = 0
  /\ failedAt = 0
  /\ overageAt = 0
  /\ job = "none"
  /\ clock = 1
  /\ emitted = {}
  /\ delivered = {}
  /\ committed = {}
  /\ billed = {}
  /\ reopened = 0
  /\ started = 0

-----------------------------------------------------------------------------
(* API requests. *)

Begin(r, op) ==
  /\ req[r] = Idle
  /\ started < MaxRequests
  /\ started' = started + 1
  /\ req' = [req EXCEPT ![r] = op]
  /\ UNCHANGED <<rows, orgVars, job, clock, emitted, seenVars>>

(* A bug: the limit is compared with the WatchPoints there already are. *)
WithinLimitOffByOne ==
  PlanLimit[plan] = 0 \/ Cardinality(Counted) <= PlanLimit[plan]

(* CheckLimit for one more WatchPoint. *)
WithinLimit == PlanLimit[plan] = 0 \/ Cardinality(Counted) + 1 <= PlanLimit[plan]

(* Create up to the check of the plan's limit. *)
BeginCreate(r, settings, end) ==
  /\ WithinLimit
  /\ Begin(r, [op |-> "create", settings |-> settings, end |-> end])

(* GetByID, and the fields of the request over those read. *)
BeginUpdate(r, id, status, settings) ==
  Begin(r, [op |-> "write", id |-> id, status |-> status, settings |-> settings])

(* PATCH: any field may be left as it is. *)
Patch(r, id) ==
  /\ id \in Live
  /\ \E status \in Statuses, settings \in Settings :
       BeginUpdate(r, id, status, settings)

(* 409 if it is paused or archived already. *)
BeginPause(r, id) ==
  /\ id \in Active
  /\ BeginUpdate(r, id, "paused", rows[id].settings)

(* 409 if it is active or archived. *)
BeginResume(r, id) ==
  /\ id \in Live
  /\ rows[id].status = "paused"
  /\ BeginUpdate(r, id, "active", rows[id].settings)

(* INSERT with the defaults of Create. *)
Insert(r) ==
  /\ req[r].op = "create"
  /\ Cardinality(Created) < MaxCreated
  /\ LET id == Cardinality(Created) + 1
     IN  /\ rows' = [i \in Created \cup {id} |->
               IF i \in Created THEN rows[i]
               ELSE [status |-> "active", billing |-> FALSE, deleted |-> FALSE,
                     settings |-> req[r].settings, version |-> 1,
                     end |-> req[r].end]]
         /\ committed' = committed \cup {<<id, 1, req[r].settings>>}
  /\ req' = [req EXCEPT ![r] = Idle]
  /\ UNCHANGED <<orgVars, job, clock, emitted, delivered, billed, reopened,
                 started>>

(* A bug: the trigger does not watch what was changed. *)
VersionKept(row, settings) == row.version

(* The trigger increment_config_version. *)
NextVersion(row, settings) ==
  IF settings # row.settings THEN row.version + 1 ELSE row.version

(* A bug: no condition on deleted_at. *)
AlwaysUpdatable(id) == TRUE

(* The UPDATE's WHERE clause. *)
Updatable(id) == ~rows[id].deleted

(* UPDATE of the whole row except paused_reason; 404 if it was deleted.    *)
Write(r) ==
  /\ req[r].op = "write"
  /\ LET id == req[r].id
         version == NextVersion(rows[id], req[r].settings)
     IN  IF Updatable(id)
         THEN /\ version <= MaxVersion
              /\ rows' = [rows EXCEPT ![id].status = req[r].status,
                                      ![id].settings = req[r].settings,
                                      ![id].version = version]
              /\ committed' = committed \cup {<<id, version, req[r].settings>>}
              /\ reopened' = reopened +
                   IF rows[id].status = "archived" /\ req[r].status # "archived"
                   THEN 1 ELSE 0
         ELSE UNCHANGED <<rows, committed, reopened>>
  /\ req' = [req EXCEPT ![r] = Idle]
  /\ UNCHANGED <<orgVars, job, clock, emitted, delivered, billed, started>>

(* The request fails or its instance dies before the write. *)
Abandon(r) ==
  /\ req[r] # Idle
  /\ req' = [req EXCEPT ![r] = Idle]
  /\ UNCHANGED <<rows, orgVars, job, clock, emitted, seenVars, started>>

Delete(id) ==
  /\ id \in Live
  /\ started < MaxRequests
  /\ started' = started + 1
  /\ rows' = [rows EXCEPT ![id].deleted = TRUE, ![id].status = "archived"]
  /\ UNCHANGED <<req, orgVars, job, clock, emitted, seenVars>>

-----------------------------------------------------------------------------
(* The archiver. *)

(* Statuses and windows in one UPDATE; the summaries are not modelled. *)
ArchiveExpired ==
  LET expired == {id \in Counted : rows[id].end < clock}
  IN  /\ expired # {}
      /\ rows' = [id \in Created |->
           IF id \in expired THEN [rows[id] EXCEPT !.status = "archived"]
           ELSE rows[id]]
      /\ UNCHANGED <<req, orgVars, job, clock, emitted, seenVars, started>>

-----------------------------------------------------------------------------
(* Billing enforcement: the organizations are listed in one statement and  *)
(* their WatchPoints paused in another.                                    *)

PauseForBilling(ids) ==
  /\ rows' = [id \in Created |->
       IF id \in ids THEN [rows[id] EXCEPT !.status = "paused", !.billing = TRUE]
       ELSE rows[id]]
  /\ billed' = billed \cup ids

(* ListDelinquentOrgs. *)
ListDelinquent ==
  /\ job = "none"
  /\ failedAt # 0
  /\ failedAt + PaymentGrace < clock
  /\ job' = "payment"
  /\ UNCHANGED <<rows, req, orgVars, clock, emitted, seenVars, started>>

(* PauseAllByOrgID with the reason billing_delinquency. *)
EnforcePaymentFailure ==
  /\ job = "payment"
  /\ PauseForBilling(Active)
  /\ job' = "none"
  /\ UNCHANGED <<req, orgVars, clock, emitted, delivered, committed, reopened,
                 started>>

(* ListOverageOrgs. *)
ListOverage ==
  /\ job = "none"
  /\ overageAt # 0
  /\ overageAt + OverageGrace < clock
  /\ job' = "overage"
  /\ UNCHANGED <<rows, req, orgVars, clock, emitted, seenVars, started>>

(* ORDER BY created_at DESC OFFSET limit: the newest ones, as many as the  *)
(* limit, are skipped and the rest is paused.                              *)
Excess(limit) ==
  {id \in Active : Cardinality({i \in Active : i > id}) >= limit}

(* An unlimited plan is skipped; so is one without an excess.              *)
EnforceOverage ==
  /\ job = "overage"
  /\ IF StoredLimit # 0
     THEN PauseForBilling(Excess(StoredLimit))
     ELSE UNCHANGED <<rows, billed>>
  /\ job' = "none"
  /\ UNCHANGED <<req, orgVars, clock, emitted, delivered, committed, reopened,
                 started>>

(* The daily usage check: overage_started_at is set when the organization  *)
(* enters an overage and cleared when it leaves it.  What it measures are  *)
(* the API calls: nothing writes rate_limits.watchpoints_count.            *)
CheckCompliance(isOverage) ==
  /\ overageAt' = IF ~isOverage THEN 0
                  ELSE IF overageAt = 0 THEN clock ELSE overageAt
  /\ overageAt' # overageAt
  /\ UNCHANGED <<rows, req, plan, lastEvent, failedAt, job, clock, emitted,
                 seenVars, started>>

-----------------------------------------------------------------------------
(* Stripe delivers its events in any order and as often as it likes. *)

Emit(type, p) ==
  /\ Cardinality(emitted) < MaxEvents
  /\ type # "subscription" => p = FreePlan
  /\ emitted' = emitted \cup {[type |-> type, at |-> clock, plan |-> p]}
  /\ emitted' # emitted
  /\ UNCHANGED <<rows, req, orgVars, job, clock, seenVars, started>>

(* A bug: events are taken in the order of their delivery. *)
IsDelivered(e) == TRUE

(* The WHERE clause of UpdateSubscriptionStatus. *)
IsNewer(e) == lastEvent = 0 \/ lastEvent < e.at

(* Checkout completed, subscription updated, subscription deleted.         *)
ApplySubscription(e) ==
  /\ e.type = "subscription"
  /\ IF IsNewer(e)
     THEN plan' = e.plan /\ lastEvent' = e.at
     ELSE UNCHANGED <<plan, lastEvent>>
  /\ UNCHANGED <<rows, failedAt>>

(* UpdatePaymentFailure. *)
ApplyPaymentFailed(e) ==
  /\ e.type = "payment_failed"
  /\ failedAt' = e.at
  /\ UNCHANGED <<rows, plan, lastEvent>>

(* A bug: the reason is not compared. *)
PausedForAnyReason == {id \in Live : rows[id].status = "paused"}

(* The rows of ResumeAllByOrgID for the reason billing_delinquency. *)
PausedForBilling == {id \in Live : rows[id].status = "paused" /\ rows[id].billing}

ApplyInvoicePaid(e) ==
  /\ e.type = "invoice_paid"
  /\ rows' = [id \in Created |->
       IF id \in PausedForBilling
       THEN [rows[id] EXCEPT !.status = "active", !.billing = FALSE]
       ELSE rows[id]]
  /\ UNCHANGED <<plan, lastEvent, failedAt>>

HandleEvent(e) ==
  /\ e \in emitted
  /\ \/ ApplySubscription(e)
     \/ ApplyPaymentFailed(e)
     \/ ApplyInvoicePaid(e)
  /\ delivered' = delivered \cup {e}
  /\ UNCHANGED <<req, overageAt, job, clock, emitted, committed, billed,
                 reopened, started>>

Tick ==
  /\ clock < MaxTime
  /\ clock' = clock + 1
  /\ UNCHANGED <<rows, req, orgVars, job, emitted, seenVars, started>>

-----------------------------------------------------------------------------
Request(r) ==
  \/ \E settings \in Settings, end \in Ends : BeginCreate(r, settings, end)
  \/ \E id \in Ids : Patch(r, id) \/ BeginPause(r, id) \/ BeginResume(r, id)
  \/ Insert(r)
  \/ Write(r)
  \/ Abandon(r)

Next ==
  \/ \E r \in Requests : Request(r)
  \/ \E id \in Ids : Delete(id)
  \/ ArchiveExpired
  \/ ListDelinquent \/ EnforcePaymentFailure
  \/ ListOverage \/ EnforceOverage
  \/ \E isOverage \in BOOLEAN : CheckCompliance(isOverage)
  \/ \E type \in EventTypes, p \in Plans : Emit(type, p)
  \/ \E e \in emitted : HandleEvent(e)
  \/ Tick

Spec == Init /\ [][Next]_vars

-----------------------------------------------------------------------------
(* Properties. *)

(* Every variable stays in its range. *)
TypeOK ==
  /\ \E n \in 0..MaxCreated : Created = 1..n
  /\ \A id \in Created : rows[id] \in Rows
  /\ req \in [Requests -> {Idle} \cup Creates \cup Writes]
  /\ plan \in Plans
  /\ lastEvent \in 0..clock /\ failedAt \in 0..clock /\ overageAt \in 0..clock
  /\ job \in {"none", "payment", "overage"}
  /\ clock \in Times
  /\ emitted \subseteq {e \in Events : e.at <= clock} /\ delivered \subseteq emitted
  /\ committed \subseteq Ids \X Versions \X Settings
  /\ billed \subseteq Created
  /\ reopened \in Nat
  /\ started \in 0..MaxRequests

(* Nothing touches a deleted WatchPoint, however stale the row is that a   *)
(* request writes back: it does not come back to life.                     *)
DeletedStaysDeleted ==
  [][\A id \in Created : rows[id].deleted => rows'[id] = rows[id]]_vars

(* The Eval Worker takes config_version for the identity of what it        *)
(* evaluates: a version of a WatchPoint never stands for two settings,     *)
(* although requests write back settings they read long ago.               *)
VersionIdentifiesSettings ==
  /\ \A c, d \in committed : c[1] = d[1] /\ c[2] = d[2] => c[3] = d[3]
  /\ \A id \in Created : <<id, rows[id].version, rows[id].settings>> \in committed

(* Without a request of the user nothing becomes active except what the    *)
(* billing enforcement once paused.                                        *)
OnlyBillingPausesAreLifted ==
  [][req' = req =>
       \A id \in Created :
         rows[id].status # "active" /\ rows'[id].status = "active" => id \in billed]_vars

(* The organization is on the plan of a newest event processed, in         *)
(* whatever order and however often Stripe delivered them.                 *)
SubscriptionIsNewest ==
  LET subs == {e \in delivered : e.type = "subscription"}
  IN  /\ \A e \in subs : e.at <= lastEvent
      /\ subs # {} => \E e \in subs : e.at = lastEvent /\ e.plan = plan

(* Checking the limit before the insert lets each concurrent request go    *)
(* over it once, and no more: beyond that only archived WatchPoints that a *)
(* PATCH reopened exceed the largest limit the organization has had.       *)
OvershootBounded ==
  LET held == {FreePlan} \cup {e.plan : e \in {d \in delivered : d.type = "subscription"}}
  IN  \E p \in held :
        \/ PlanLimit[p] = 0
        \/ Cardinality(Counted) <= PlanLimit[p] + Cardinality(Requests) - 1 + reopened
=============================================================================
