--------------------- MODULE WatchPointLifecycle_proofs ---------------------
(***************************************************************************)
(* Safety of the rows of watchpoints, for every number of WatchPoints,     *)
(* requests, plans and events.                                             *)
(***************************************************************************)
EXTENDS WatchPointLifecycle, FiniteSetTheorems, TLAPS

(* A request only writes rows that exist: rows are never removed. *)
WritesExist == \A r \in Requests : req[r].op = "write" => req[r].id \in Created

Typed == TypeOK /\ WritesExist

(* What a pending request may be. *)
LEMMA PendingTypes ==
  ASSUME Typed, NEW r \in Requests
  PROVE  /\ req[r].op = "write" => req[r] \in Writes /\ req[r].id \in Created
         /\ req[r].op = "create" => req[r] \in Creates
  BY DEF Typed, TypeOK, WritesExist, Idle, Creates, Writes

LEMMA InitTyped == Init => Typed
<1> SUFFICES ASSUME Init PROVE Typed
  OBVIOUS
<1>1. Created = 1..0
  BY DEF Init, Created
<1>2. 0 \in 0..MaxCreated
  BY LifecycleAssumption
<1>3. \E n \in 0..MaxCreated : Created = 1..n
  BY <1>1, <1>2
<1>4. \A id \in Created : rows[id] \in Rows
  BY <1>1
<1>5. TypeOK
  BY <1>1, <1>3, <1>4, LifecycleAssumption DEF Init, TypeOK, Times
<1>6. WritesExist
  BY DEF Init, WritesExist, Idle
<1> QED
  BY <1>5, <1>6 DEF Typed

(* Beginning a request. *)
LEMMA BeginTyped ==
  ASSUME Typed, NEW r \in Requests, NEW op \in Creates \cup Writes, Begin(r, op),
         op.op = "write" => op.id \in Created
  PROVE  Typed'
<1>1. req' \in [Requests -> {Idle} \cup Creates \cup Writes]
  BY DEF Begin, Typed, TypeOK
<1>2. started' \in 0..MaxRequests
  BY LifecycleAssumption DEF Begin, Typed, TypeOK
<1>3. TypeOK'
  BY <1>1, <1>2 DEF Begin, Typed, TypeOK, orgVars, seenVars, Created
<1>4. WritesExist'
  BY DEF Begin, Typed, TypeOK, WritesExist, Created
<1> QED
  BY <1>3, <1>4 DEF Typed

LEMMA BeginUpdateTyped ==
  ASSUME Typed, NEW r \in Requests, NEW id \in Live, NEW status \in Statuses,
         NEW settings \in Settings, BeginUpdate(r, id, status, settings)
  PROVE  Typed'
<1> DEFINE op == [op |-> "write", id |-> id, status |-> status, settings |-> settings]
<1>1. id \in Created /\ id \in Ids
  BY LifecycleAssumption DEF Live, Typed, TypeOK, Ids
<1>2. op \in Writes
  BY <1>1 DEF Writes
<1>3. Begin(r, op)
  BY DEF BeginUpdate
<1> HIDE DEF op
<1> QED
  BY <1>1, <1>2, <1>3, BeginTyped DEF op

(* A step that keeps the ids and the type of every row. *)
LEMMA RowsTyped ==
  ASSUME Typed, Created' = Created, \A id \in Created : rows'[id] \in Rows
  PROVE  /\ (\E n \in 0..MaxCreated : Created = 1..n)'
         /\ (\A id \in Created : rows[id] \in Rows)'
  BY DEF Typed, TypeOK

LEMMA PauseTyped ==
  ASSUME Typed, NEW ids \in SUBSET Created, PauseForBilling(ids)
  PROVE  /\ Created' = Created
         /\ \A id \in Created : rows'[id] \in Rows
         /\ billed' \subseteq Created
<1>1. Created' = Created
  BY DEF PauseForBilling, Created
<1>2. ASSUME NEW id \in Created PROVE rows'[id] \in Rows
  BY DEF PauseForBilling, Typed, TypeOK, Rows, Statuses
<1> QED
  BY <1>1, <1>2 DEF PauseForBilling, Typed, TypeOK

LEMMA NextTyped == Typed /\ [Next]_vars => Typed'
<1> SUFFICES ASSUME Typed, [Next]_vars PROVE Typed'
  OBVIOUS
<1> USE DEF orgVars, seenVars
<1>1. CASE UNCHANGED vars
  BY <1>1 DEF vars, Typed, TypeOK, WritesExist, Created
<1>2. ASSUME NEW r \in Requests, NEW settings \in Settings, NEW end \in Ends,
             BeginCreate(r, settings, end)
      PROVE Typed'
  <2> DEFINE op == [op |-> "create", settings |-> settings, end |-> end]
  <2>1. op \in Creates /\ op.op # "write"
    BY DEF Creates
  <2>2. Begin(r, op)
    BY <1>2 DEF BeginCreate
  <2> HIDE DEF op
  <2> QED
    BY <2>1, <2>2, BeginTyped
<1>3. ASSUME NEW r \in Requests, NEW id \in Ids, Patch(r, id) PROVE Typed'
  BY <1>3, BeginUpdateTyped DEF Patch
<1>4. ASSUME NEW r \in Requests, NEW id \in Ids, BeginPause(r, id) PROVE Typed'
  <2>1. id \in Live /\ rows[id].settings \in Settings /\ "paused" \in Statuses
    BY <1>4 DEF BeginPause, Active, Live, Typed, TypeOK, Rows, Statuses
  <2> QED
    BY <1>4, <2>1, BeginUpdateTyped DEF BeginPause
<1>5. ASSUME NEW r \in Requests, NEW id \in Ids, BeginResume(r, id) PROVE Typed'
  <2>1. id \in Live /\ rows[id].settings \in Settings /\ "active" \in Statuses
    BY <1>5 DEF BeginResume, Live, Typed, TypeOK, Rows, Statuses
  <2> QED
    BY <1>5, <2>1, BeginUpdateTyped DEF BeginResume
<1>6. ASSUME NEW r \in Requests, Insert(r) PROVE Typed'
  <2>1. PICK n \in 0..MaxCreated : Created = 1..n
    BY DEF Typed, TypeOK
  <2>2. Cardinality(Created) = n
    BY <2>1, FS_Interval, LifecycleAssumption
  <2>3. Created' = 1..n+1
    BY <1>6, <2>1, <2>2 DEF Insert, Created
  <2>4. n + 1 \in 0..MaxCreated
    BY <1>6, <2>2, LifecycleAssumption DEF Insert
  <2>5. req[r] \in Creates
    BY <1>6, PendingTypes DEF Insert
  <2>6. ASSUME NEW id \in Created' PROVE rows'[id] \in Rows
    <3>1. CASE id \in Created
      BY <1>6, <2>1, <2>2, <2>3, <3>1 DEF Insert, Typed, TypeOK
    <3>2. CASE id \notin Created
      <4>1. rows'[id] = [status |-> "active", billing |-> FALSE, deleted |-> FALSE,
                         settings |-> req[r].settings, version |-> 1,
                         end |-> req[r].end]
        BY <1>6, <2>1, <2>2, <2>3, <3>2 DEF Insert
      <4>2. req[r].settings \in Settings /\ req[r].end \in Ends /\ 1 \in Versions
        BY <2>5, LifecycleAssumption DEF Creates, Versions
      <4> QED
        BY <4>1, <4>2 DEF Rows, Statuses
    <3> QED
      BY <3>1, <3>2
  <2>7. committed' \subseteq Ids \X Versions \X Settings
    <3>1. n + 1 \in Ids /\ 1 \in Versions /\ req[r].settings \in Settings
      BY <2>4, <2>5, LifecycleAssumption DEF Creates, Ids, Versions
    <3> QED
      BY <1>6, <2>2, <3>1 DEF Insert, Typed, TypeOK
  <2>8. req' \in [Requests -> {Idle} \cup Creates \cup Writes]
    BY <1>6 DEF Insert, Typed, TypeOK
  <2>9. Created \subseteq Created'
    BY <2>1, <2>3
  <2>10. TypeOK'
    BY <1>6, <2>3, <2>4, <2>6, <2>7, <2>8, <2>9 DEF Insert, Typed, TypeOK
  <2>11. WritesExist'
    BY <1>6, <2>9 DEF Insert, Typed, TypeOK, WritesExist, Idle
  <2> QED
    BY <2>10, <2>11 DEF Typed
<1>7. ASSUME NEW r \in Requests, Write(r) PROVE Typed'
  <2>1. req[r] \in Writes /\ req[r].id \in Created /\ rows[req[r].id] \in Rows
    BY <1>7, PendingTypes DEF Write, Typed, TypeOK
  <2>2. req' \in [Requests -> {Idle} \cup Creates \cup Writes]
    BY <1>7 DEF Write, Typed, TypeOK
  <2>3. CASE ~Updatable(req[r].id)
    <3>1. TypeOK'
      BY <1>7, <2>2, <2>3 DEF Write, Typed, TypeOK, Created
    <3>2. WritesExist'
      <4>1. rows' = rows /\ \A q \in Requests \ {r} : req'[q] = req[q]
        BY <1>7, <2>3 DEF Write, Typed, TypeOK
      <4>2. req'[r].op # "write"
        BY <1>7 DEF Write, Typed, TypeOK, Idle
      <4> QED
        BY <4>1, <4>2 DEF Typed, WritesExist, Created
    <3> QED
      BY <3>1, <3>2 DEF Typed
  <2>4. CASE Updatable(req[r].id)
    <3> DEFINE version == NextVersion(rows[req[r].id], req[r].settings)
    <3>1. version \in Versions
      <4>1. rows[req[r].id].version \in Versions
        BY <2>1 DEF Rows
      <4>2. version <= MaxVersion
        BY <1>7, <2>4 DEF Write
      <4> QED
        BY <4>1, <4>2, LifecycleAssumption DEF NextVersion, Versions
    <3>2. Created' = Created
      BY <1>7, <2>4 DEF Write, Created
    <3>3. rows' = [rows EXCEPT ![req[r].id].status = req[r].status,
                               ![req[r].id].settings = req[r].settings,
                               ![req[r].id].version = version]
      BY <1>7, <2>4 DEF Write
    <3> HIDE DEF version
    <3>4. ASSUME NEW id \in Created PROVE rows'[id] \in Rows
      BY <2>1, <3>1, <3>3 DEF Typed, TypeOK, Rows, Writes, Created
    <3>5. committed' \subseteq Ids \X Versions \X Settings
      BY <1>7, <2>1, <2>4, <3>1 DEF Write, Typed, TypeOK, Writes, version
    <3>6. reopened' \in Nat
      BY <1>7, <2>1, <2>4 DEF Write, Typed, TypeOK
    <3>7. TypeOK'
      BY <1>7, <2>2, <2>4, <3>2, <3>4, <3>5, <3>6, RowsTyped DEF Write, Typed, TypeOK
    <3>8. WritesExist'
      BY <1>7, <3>2 DEF Write, Typed, TypeOK, WritesExist, Idle
    <3> QED
      BY <3>7, <3>8 DEF Typed
  <2> QED
    BY <2>3, <2>4
<1>8. ASSUME NEW r \in Requests, Abandon(r) PROVE Typed'
  BY <1>8 DEF Abandon, Typed, TypeOK, WritesExist, Idle, Created
<1>9. ASSUME NEW id \in Ids, Delete(id) PROVE Typed'
  <2>0. rows' = [rows EXCEPT ![id].deleted = TRUE, ![id].status = "archived"]
    BY <1>9 DEF Delete
  <2>1. Created' = Created
    BY ONLY <2>0 DEF Created
  <2>2. ASSUME NEW i \in Created PROVE rows'[i] \in Rows
    <3>1. rows[i] \in Rows
      BY DEF Typed, TypeOK
    <3> QED
      BY ONLY i \in Created, <2>0, <3>1 DEF Rows, Statuses, Created
  <2>3. started' \in 0..MaxRequests
    <3>1. started < MaxRequests /\ started' = started + 1
      BY <1>9 DEF Delete
    <3>2. started \in 0..MaxRequests /\ MaxRequests \in Nat
      BY LifecycleAssumption DEF Typed, TypeOK
    <3> QED
      BY ONLY <3>1, <3>2
  <2>4. TypeOK'
    BY <1>9, <2>1, <2>2, <2>3, RowsTyped DEF Delete, Typed, TypeOK
  <2>5. WritesExist'
    BY <1>9, <2>1 DEF Delete, Typed, WritesExist
  <2> QED
    BY <2>4, <2>5 DEF Typed
<1>10. CASE ArchiveExpired
  <2>1. Created' = Created
    BY <1>10 DEF ArchiveExpired, Created
  <2>2. ASSUME NEW i \in Created PROVE rows'[i] \in Rows
    BY <1>10 DEF ArchiveExpired, Typed, TypeOK, Rows, Statuses
  <2>3. TypeOK'
    BY <1>10, <2>1, <2>2, RowsTyped DEF ArchiveExpired, Typed, TypeOK
  <2>4. WritesExist'
    BY <1>10, <2>1 DEF ArchiveExpired, Typed, WritesExist
  <2> QED
    BY <2>3, <2>4 DEF Typed
<1>11. CASE ListDelinquent \/ ListOverage
  BY <1>11 DEF ListDelinquent, ListOverage, Typed, TypeOK, WritesExist, Created
<1>12. CASE EnforcePaymentFailure
  <2>1. Active \in SUBSET Created
    BY DEF Active, Live
  <2>2. TypeOK'
    BY <1>12, <2>1, PauseTyped, RowsTyped DEF EnforcePaymentFailure, Typed, TypeOK
  <2>3. WritesExist'
    BY <1>12, <2>1, PauseTyped DEF EnforcePaymentFailure, Typed, WritesExist
  <2> QED
    BY <2>2, <2>3 DEF Typed
<1>13. CASE EnforceOverage
  <2>1. Excess(StoredLimit) \in SUBSET Created
    BY DEF Excess, Active, Live
  <2>2. CASE StoredLimit # 0
    <3>1. PauseForBilling(Excess(StoredLimit))
      BY <1>13, <2>2 DEF EnforceOverage
    <3>2. TypeOK'
      BY <1>13, <2>1, <3>1, PauseTyped, RowsTyped DEF EnforceOverage, Typed, TypeOK
    <3>3. WritesExist'
      BY <1>13, <2>1, <3>1, PauseTyped DEF EnforceOverage, Typed, WritesExist
    <3> QED
      BY <3>2, <3>3 DEF Typed
  <2>3. CASE StoredLimit = 0
    BY <1>13, <2>3 DEF EnforceOverage, Typed, TypeOK, WritesExist, Created
  <2> QED
    BY <2>2, <2>3
<1>14. ASSUME NEW isOverage \in BOOLEAN, CheckCompliance(isOverage) PROVE Typed'
  <2>1. overageAt' \in 0..clock
    BY <1>14 DEF CheckCompliance, Typed, TypeOK, Times
  <2> QED
    BY <1>14, <2>1 DEF CheckCompliance, Typed, TypeOK, WritesExist, Created
<1>15. ASSUME NEW type \in EventTypes, NEW p \in Plans, Emit(type, p) PROVE Typed'
  <2>1. emitted' \subseteq {e \in Events : e.at <= clock} /\ delivered \subseteq emitted'
    BY <1>15 DEF Emit, Typed, TypeOK, Events, Times
  <2> QED
    BY <1>15, <2>1 DEF Emit, Typed, TypeOK, WritesExist, Created
<1>16. ASSUME NEW e \in emitted, HandleEvent(e) PROVE Typed'
  <2>1. e \in Events /\ e.at \in 0..clock /\ e.plan \in Plans
    BY DEF Typed, TypeOK, Events, Times
  <2>2. delivered' \subseteq emitted
    BY <1>16 DEF HandleEvent, Typed, TypeOK
  <2>3. CASE ApplySubscription(e)
    <3>1. plan' \in Plans /\ lastEvent' \in 0..clock
      BY <2>1, <2>3 DEF ApplySubscription, Typed, TypeOK
    <3> QED
      BY <1>16, <2>2, <2>3, <3>1 DEF HandleEvent, ApplySubscription, Typed, TypeOK, WritesExist, Created
  <2>4. CASE ApplyPaymentFailed(e)
    BY <1>16, <2>1, <2>2, <2>4 DEF HandleEvent, ApplyPaymentFailed, Typed, TypeOK, WritesExist, Created
  <2>5. CASE ApplyInvoicePaid(e)
    <3>1. Created' = Created
      BY <2>5 DEF ApplyInvoicePaid, Created
    <3>2. ASSUME NEW id \in Created PROVE rows'[id] \in Rows
      BY <2>5 DEF ApplyInvoicePaid, Typed, TypeOK, Rows, Statuses
    <3>3. TypeOK'
      BY <1>16, <2>2, <2>5, <3>1, <3>2, RowsTyped DEF HandleEvent, ApplyInvoicePaid, Typed, TypeOK
    <3>4. WritesExist'
      BY <1>16, <3>1 DEF HandleEvent, Typed, WritesExist
    <3> QED
      BY <3>3, <3>4 DEF Typed
  <2> QED
    BY <1>16, <2>3, <2>4, <2>5 DEF HandleEvent
<1>17. CASE Tick
  <2>1. clock' \in Times /\ clock \in Nat /\ clock' = clock + 1
    BY <1>17, LifecycleAssumption DEF Tick, Typed, TypeOK, Times
  <2>2. emitted' \subseteq {e \in Events : e.at <= clock'}
    BY <1>17, <2>1 DEF Tick, Typed, TypeOK, Events, Times
  <2>3. lastEvent' \in 0..clock' /\ failedAt' \in 0..clock' /\ overageAt' \in 0..clock'
    BY <1>17, <2>1 DEF Tick, Typed, TypeOK
  <2> QED
    BY <1>17, <2>1, <2>2, <2>3 DEF Tick, Typed, TypeOK, WritesExist, Created
<1> QED
  BY <1>1, <1>2, <1>3, <1>4, <1>5, <1>6, <1>7, <1>8, <1>9, <1>10, <1>11, <1>12,
     <1>13, <1>14, <1>15, <1>16, <1>17 DEF Next, Request

(* Every variable of the rows and of the organization stays in its range.  *)
THEOREM TypeCorrect == Spec => []TypeOK
<1>1. Typed => TypeOK
  BY DEF Typed
<1> QED
  BY <1>1, InitTyped, NextTyped, PTL DEF Spec

(* WritesExist is what lets the proofs below apply a pending write.        *)
LEMMA AlwaysTyped == Spec => []Typed
  BY InitTyped, NextTyped, PTL DEF Spec

-----------------------------------------------------------------------------
(* Deleted rows. *)

LEMMA DeletedKept ==
  ASSUME Typed, [Next]_vars, NEW id \in Created, rows[id].deleted
  PROVE  rows'[id] = rows[id]
<1> USE DEF Live, Active, Counted
<1>1. CASE rows' = rows
  BY <1>1
<1>2. ASSUME NEW r \in Requests, Insert(r) PROVE rows'[id] = rows[id]
  BY <1>2 DEF Insert
<1>3. ASSUME NEW r \in Requests, Write(r) PROVE rows'[id] = rows[id]
  <2>1. CASE Updatable(req[r].id)
    <3>1. req[r].id # id
      BY <2>1 DEF Updatable
    <3> QED
      BY <1>3, <2>1, <3>1 DEF Write, Created
  <2>2. CASE ~Updatable(req[r].id)
    BY <1>3, <2>2 DEF Write
  <2> QED
    BY <2>1, <2>2
<1>4. ASSUME NEW i \in Ids, Delete(i) PROVE rows'[id] = rows[id]
  BY <1>4 DEF Delete, Created
<1>5. CASE ArchiveExpired
  BY <1>5 DEF ArchiveExpired
<1>6. CASE EnforcePaymentFailure
  BY <1>6 DEF EnforcePaymentFailure, PauseForBilling
<1>7. CASE EnforceOverage
  BY <1>7 DEF EnforceOverage, PauseForBilling, Excess
<1>8. ASSUME NEW e \in emitted, HandleEvent(e) PROVE rows'[id] = rows[id]
  BY <1>8 DEF HandleEvent, ApplySubscription, ApplyPaymentFailed,
              ApplyInvoicePaid, PausedForBilling
<1> QED
  BY <1>1, <1>2, <1>3, <1>4, <1>5, <1>6, <1>7, <1>8
  DEF Next, Request, vars, BeginCreate, Patch, BeginPause, BeginResume, BeginUpdate,
      Begin, Abandon, ListDelinquent, ListOverage, CheckCompliance, Emit, Tick

(* A deleted WatchPoint is never changed again, whatever row a request in  *)
(* progress writes back and whatever the billing statements select.        *)
THEOREM DeletedSafe == Spec => DeletedStaysDeleted
<1>1. Typed /\ [Next]_vars
        => [\A id \in Created : rows[id].deleted => rows'[id] = rows[id]]_vars
  BY DeletedKept
<1> QED
  BY <1>1, AlwaysTyped, PTL DEF Spec, DeletedStaysDeleted

-----------------------------------------------------------------------------
(* Versions.  A version grows with every change of the settings, so that a *)
(* row's version is the largest its WatchPoint ever had.                   *)

Versioned ==
  /\ VersionIdentifiesSettings
  /\ \A c \in committed : c[1] \in Created /\ c[2] <= rows[c[1]].version

LEMMA InitVersioned == Init => Versioned
  BY DEF Init, Versioned, VersionIdentifiesSettings, Created

(* Only Insert and Write change settings, versions or committed.           *)
LEMMA VersionsKept ==
  ASSUME Typed, [Next]_vars
  PROVE  \/ \E r \in Requests : Insert(r) \/ Write(r)
         \/ /\ committed' = committed /\ Created' = Created
            /\ \A id \in Created : /\ rows'[id].version = rows[id].version
                                  /\ rows'[id].settings = rows[id].settings
<1> DEFINE Kept == /\ committed' = committed /\ Created' = Created
                   /\ \A id \in Created : /\ rows'[id].version = rows[id].version
                                         /\ rows'[id].settings = rows[id].settings
<1> USE DEF seenVars, orgVars
<1>1. CASE rows' = rows /\ committed' = committed
  BY <1>1 DEF Created
<1>2. ASSUME NEW i \in Ids, Delete(i) PROVE Kept
  BY <1>2 DEF Delete, Typed, TypeOK, Rows, Created
<1>3. CASE ArchiveExpired
  BY <1>3 DEF ArchiveExpired, Typed, TypeOK, Rows, Created
<1>4. CASE EnforcePaymentFailure
  BY <1>4 DEF EnforcePaymentFailure, PauseForBilling, Typed, TypeOK, Rows, Created
<1>5. CASE EnforceOverage
  <2>1. CASE StoredLimit # 0
    <3> DEFINE ids == Excess(StoredLimit)
    <3>1. /\ rows' = [id \in Created |->
                IF id \in ids THEN [rows[id] EXCEPT !.status = "paused", !.billing = TRUE]
                ELSE rows[id]]
          /\ committed' = committed
      BY <1>5, <2>1 DEF EnforceOverage, PauseForBilling
    <3> HIDE DEF ids
    <3> QED
      BY <3>1 DEF Typed, TypeOK, Rows, Created
  <2>2. CASE StoredLimit = 0
    BY <1>1, <1>5, <2>2 DEF EnforceOverage
  <2> QED
    BY <2>1, <2>2
<1>6. ASSUME NEW e \in emitted, HandleEvent(e) PROVE Kept
  <2>1. committed' = committed
    BY <1>6 DEF HandleEvent
  <2>2. CASE ApplyInvoicePaid(e)
    <3> DEFINE ids == PausedForBilling
    <3>1. rows' = [id \in Created |->
            IF id \in ids THEN [rows[id] EXCEPT !.status = "active", !.billing = FALSE]
            ELSE rows[id]]
      BY <2>2 DEF ApplyInvoicePaid
    <3> HIDE DEF ids
    <3> QED
      BY <2>1, <3>1 DEF Typed, TypeOK, Rows, Created
  <2>3. CASE rows' = rows
    BY <2>1, <2>3 DEF Created
  <2> QED
    BY <1>6, <2>2, <2>3 DEF HandleEvent, ApplySubscription, ApplyPaymentFailed
<1> QED
  BY <1>1, <1>2, <1>3, <1>4, <1>5, <1>6
  DEF Next, Request, vars, BeginCreate, Patch, BeginPause, BeginResume, BeginUpdate,
      Begin, Abandon, ListDelinquent, ListOverage, CheckCompliance, Emit, Tick

LEMMA InsertVersioned ==
  ASSUME Typed, Versioned, NEW r \in Requests, Insert(r)
  PROVE  Versioned'
<1>1. PICK n \in 0..MaxCreated : Created = 1..n
  BY DEF Typed, TypeOK
<1>2. Cardinality(Created) = n
  BY <1>1, FS_Interval, LifecycleAssumption
<1> DEFINE new == <<n + 1, 1, req[r].settings>>
<1>3. Created' = Created \cup {n + 1} /\ n + 1 \notin Created
  BY <1>1, <1>2, LifecycleAssumption DEF Insert, Created
<1>4. committed' = committed \cup {new}
  BY <1>2 DEF Insert
<1>5. rows'[n + 1].settings = req[r].settings /\ rows'[n + 1].version = 1
  BY <1>1, <1>2, <1>3 DEF Insert
<1>6. \A id \in Created : rows'[id] = rows[id]
  BY DEF Insert
<1>7. \A c \in committed : c[1] # n + 1
  BY <1>3 DEF Versioned
<1>8. \A c, d \in committed' : c[1] = d[1] /\ c[2] = d[2] => c[3] = d[3]
  BY <1>4, <1>7 DEF Versioned, VersionIdentifiesSettings
<1>9. ASSUME NEW id \in Created'
      PROVE  <<id, rows'[id].version, rows'[id].settings>> \in committed'
  <2>1. CASE id \in Created
    BY <1>4, <1>6, <2>1 DEF Versioned, VersionIdentifiesSettings
  <2>2. CASE id = n + 1
    BY <1>4, <1>5, <2>2
  <2> QED
    BY <1>3, <2>1, <2>2
<1>10. ASSUME NEW c \in committed'
       PROVE  c[1] \in Created' /\ c[2] <= rows'[c[1]].version
  <2>1. CASE c \in committed
    BY <1>3, <1>6, <2>1 DEF Versioned
  <2>2. CASE c = new
    <3>1. c[1] = n + 1 /\ c[2] = 1
      BY <2>2
    <3> QED
      BY <1>3, <1>5, <3>1
  <2> QED
    BY <1>4, <2>1, <2>2
<1> QED
  BY <1>8, <1>9, <1>10 DEF Versioned, VersionIdentifiesSettings

LEMMA WriteVersioned ==
  ASSUME Typed, Versioned, NEW r \in Requests, Write(r)
  PROVE  Versioned'
<1>1. req[r] \in Writes /\ req[r].id \in Created /\ rows[req[r].id] \in Rows
  BY PendingTypes DEF Write, Typed, TypeOK
<1>2. CASE ~Updatable(req[r].id)
  BY <1>2 DEF Write, Versioned, VersionIdentifiesSettings, Created
<1>3. CASE Updatable(req[r].id)
  <2> DEFINE id == req[r].id
             settings == req[r].settings
             version == NextVersion(rows[id], settings)
             new == <<id, version, settings>>
  <2>1. Created' = Created /\ committed' = committed \cup {new}
    BY <1>3 DEF Write, Created
  <2>2. rows' = [rows EXCEPT ![id].status = req[r].status, ![id].settings = settings,
                             ![id].version = version]
    BY <1>3 DEF Write
  <2>4. rows[id].version \in Nat /\ \A c \in committed : c[2] \in Nat
    BY <1>1, LifecycleAssumption DEF Rows, Versions, Typed, TypeOK
  <2>5. \/ version = rows[id].version /\ new \in committed
        \/ version = rows[id].version + 1
    BY <1>1 DEF NextVersion, Versioned, VersionIdentifiesSettings
  <2>6. \A c \in committed : c[1] = id => c[2] <= rows[id].version
    BY DEF Versioned
  <2>7. id \in Created
    BY <1>1
  <2> HIDE DEF version, settings, id
  <2>3. /\ rows'[id].version = version /\ rows'[id].settings = settings
        /\ \A i \in Created \ {id} : rows'[i] = rows[i]
    <3>1. rows[id] \in Rows
      BY <1>1 DEF id
    <3> QED
      BY <2>2, <2>7, <3>1 DEF Created, Rows
  <2>8. \A c, d \in committed' : c[1] = d[1] /\ c[2] = d[2] => c[3] = d[3]
    <3>1. CASE new \in committed
      BY <2>1, <3>1 DEF Versioned, VersionIdentifiesSettings
    <3>2. CASE version = rows[id].version + 1
      <4>1. \A c \in committed : c[1] = id => c[2] # version
        BY <2>4, <2>6, <3>2
      <4> QED
        BY <2>1, <4>1 DEF Versioned, VersionIdentifiesSettings
    <3> QED
      BY <2>5, <3>1, <3>2
  <2>9. \A i \in Created' : <<i, rows'[i].version, rows'[i].settings>> \in committed'
    BY <2>1, <2>3 DEF Versioned, VersionIdentifiesSettings
  <2>10. \A c \in committed' : c[1] \in Created' /\ c[2] <= rows'[c[1]].version
    <3>1. version \in Nat /\ rows[id].version <= version
      BY <2>4, <2>5
    <3>2. ASSUME NEW c \in committed PROVE c[1] \in Created' /\ c[2] <= rows'[c[1]].version
      <4>1. CASE c[1] = id
        BY <2>1, <2>3, <2>4, <2>6, <2>7, <3>1, <4>1
      <4>2. CASE c[1] # id
        BY <2>1, <2>3, <4>2 DEF Versioned
      <4> QED
        BY <4>1, <4>2
    <3>3. new[1] \in Created' /\ new[2] <= rows'[new[1]].version
      BY <2>1, <2>3, <2>7, <3>1
    <3> QED
      BY <2>1, <3>2, <3>3
  <2> QED
    BY <2>8, <2>9, <2>10 DEF Versioned, VersionIdentifiesSettings
<1> QED
  BY <1>2, <1>3

LEMMA NextVersioned == Typed /\ Versioned /\ [Next]_vars => Versioned'
<1> SUFFICES ASSUME Typed, Versioned, [Next]_vars PROVE Versioned'
  OBVIOUS
<1>1. ASSUME committed' = committed, Created' = Created,
             \A id \in Created : /\ rows'[id].version = rows[id].version
                                /\ rows'[id].settings = rows[id].settings
      PROVE  Versioned'
  BY <1>1 DEF Versioned, VersionIdentifiesSettings
<1> QED
  BY <1>1, VersionsKept, InsertVersioned, WriteVersioned

(* What the Eval Worker takes for granted: one version of a WatchPoint     *)
(* stands for one choice of settings, although requests write back rows    *)
(* that they read before other requests wrote theirs.                      *)
THEOREM VersionsSafe == Spec => []VersionIdentifiesSettings
<1>1. Versioned => VersionIdentifiesSettings
  BY DEF Versioned
<1> QED
  BY <1>1, AlwaysTyped, InitVersioned, NextVersioned, PTL DEF Spec

-----------------------------------------------------------------------------
(* Billing pauses. *)

(* The mark that paused_reason leaves on a row is an enforcement's.        *)
Marked == \A id \in Created : rows[id].billing => id \in billed

LEMMA InitMarked == Init => Marked
  BY DEF Init, Marked, Created

LEMMA NextMarked == Typed /\ Marked /\ [Next]_vars => Marked'
<1> SUFFICES ASSUME Typed, Marked, [Next]_vars PROVE Marked'
  OBVIOUS
<1> USE DEF seenVars, orgVars
<1>1. CASE rows' = rows /\ billed' = billed
  BY <1>1 DEF Marked, Created
<1>2. ASSUME NEW r \in Requests, Insert(r) PROVE Marked'
  BY <1>2 DEF Insert, Marked, Created
<1>3. ASSUME NEW r \in Requests, Write(r) PROVE Marked'
  <2>1. billed' = billed
    BY <1>3 DEF Write
  <2>2. CASE ~Updatable(req[r].id)
    BY <1>3, <2>1, <2>2 DEF Write, Marked, Created
  <2>3. CASE Updatable(req[r].id)
    <3> DEFINE version == NextVersion(rows[req[r].id], req[r].settings)
    <3>1. rows' = [rows EXCEPT ![req[r].id].status = req[r].status,
                               ![req[r].id].settings = req[r].settings,
                               ![req[r].id].version = version]
      BY <1>3, <2>3 DEF Write
    <3> HIDE DEF version
    <3>2. \A id \in Created : rows[id] \in Rows
      BY DEF Typed, TypeOK
    <3>3. Created' = Created
      BY <3>1 DEF Created
    <3>4. ASSUME NEW id \in Created PROVE rows'[id].billing = rows[id].billing
      BY <3>1, <3>2 DEF Rows, Created
    <3> QED
      BY <2>1, <3>3, <3>4 DEF Marked
  <2> QED
    BY <2>2, <2>3
<1>4. ASSUME NEW i \in Ids, Delete(i) PROVE Marked'
  BY <1>4 DEF Delete, Marked, Created, Typed, TypeOK, Rows
<1>5. CASE ArchiveExpired
  BY <1>5 DEF ArchiveExpired, Marked, Created, Typed, TypeOK, Rows
<1>6. CASE EnforcePaymentFailure
  BY <1>6 DEF EnforcePaymentFailure, PauseForBilling, Marked, Created, Typed, TypeOK, Rows
<1>7. CASE EnforceOverage
  BY <1>7 DEF EnforceOverage, PauseForBilling, Marked, Created, Typed, TypeOK, Rows
<1>8. ASSUME NEW e \in emitted, HandleEvent(e) PROVE Marked'
  BY <1>8 DEF HandleEvent, ApplySubscription, ApplyPaymentFailed, ApplyInvoicePaid,
              Marked, Created, Typed, TypeOK, Rows
<1> QED
  BY <1>1, <1>2, <1>3, <1>4, <1>5, <1>6, <1>7, <1>8
  DEF Next, Request, vars, BeginCreate, Patch, BeginPause, BeginResume, BeginUpdate,
      Begin, Abandon, ListDelinquent, ListOverage, CheckCompliance, Emit, Tick

(* A step of no request that activates a WatchPoint is the payment that    *)
(* lifts what an enforcement had paused.                                   *)
LEMMA ActivatedWasBilled ==
  ASSUME Typed, Marked, Next, req' = req, NEW id \in Created,
         rows[id].status # "active", rows'[id].status = "active"
  PROVE  id \in billed
<1>1. rows' # rows
  OBVIOUS
<1>2. ASSUME NEW r \in Requests PROVE ~Write(r) /\ ~Insert(r)
  BY DEF Write, Insert, Typed, TypeOK, Idle
<1>3. ASSUME NEW i \in Ids, Delete(i) PROVE FALSE
  BY <1>3 DEF Delete, Created, Typed, TypeOK, Rows
<1>4. CASE ArchiveExpired
  BY <1>4 DEF ArchiveExpired, Typed, TypeOK, Rows
<1>5. CASE EnforcePaymentFailure
  BY <1>5 DEF EnforcePaymentFailure, PauseForBilling, Typed, TypeOK, Rows
<1>6. CASE EnforceOverage
  <2>1. CASE StoredLimit # 0
    <3> DEFINE ids == Excess(StoredLimit)
    <3>1. rows'[id] = IF id \in ids
                      THEN [rows[id] EXCEPT !.status = "paused", !.billing = TRUE]
                      ELSE rows[id]
      BY <1>6, <2>1 DEF EnforceOverage, PauseForBilling
    <3> HIDE DEF ids
    <3> QED
      BY <3>1 DEF Typed, TypeOK, Rows
  <2>2. CASE StoredLimit = 0
    BY <1>1, <1>6, <2>2 DEF EnforceOverage
  <2> QED
    BY <2>1, <2>2
<1>7. ASSUME NEW e \in emitted, HandleEvent(e) PROVE id \in billed
  BY <1>7 DEF HandleEvent, ApplySubscription, ApplyPaymentFailed, ApplyInvoicePaid,
              PausedForBilling, Marked
<1> QED
  BY <1>1, <1>2, <1>3, <1>4, <1>5, <1>6, <1>7
  DEF Next, Request, BeginCreate, Patch, BeginPause, BeginResume, BeginUpdate,
      Begin, Abandon, ListDelinquent, ListOverage, CheckCompliance, Emit, Tick

(* A payment, an archiver's or an enforcement's statement activates no     *)
(* WatchPoint that the enforcement did not pause at some time.             *)
THEOREM BillingLiftsItsOwn == Spec => OnlyBillingPausesAreLifted
<1>1. Typed /\ Marked /\ [Next]_vars
        => [req' = req =>
              \A id \in Created :
                rows[id].status # "active" /\ rows'[id].status = "active"
                  => id \in billed]_vars
  BY ActivatedWasBilled
<1> QED
  BY <1>1, AlwaysTyped, InitMarked, NextMarked, PTL DEF Spec, OnlyBillingPausesAreLifted

-----------------------------------------------------------------------------
(* Stripe's events. *)

Subscriptions == {e \in delivered : e.type = "subscription"}

(* The stored time is that of an event that was applied.                   *)
Newest == SubscriptionIsNewest /\ (lastEvent # 0 => Subscriptions # {})

LEMMA InitNewest == Init => Newest
  BY DEF Init, Newest, SubscriptionIsNewest, Subscriptions

LEMMA NextNewest == Typed /\ Newest /\ [Next]_vars => Newest'
<1> SUFFICES ASSUME Typed, Newest, [Next]_vars PROVE Newest'
  OBVIOUS
<1> USE DEF seenVars, orgVars
<1>1. CASE delivered' = delivered /\ plan' = plan /\ lastEvent' = lastEvent
  BY <1>1 DEF Newest, SubscriptionIsNewest, Subscriptions
<1>2. ASSUME NEW e \in emitted, HandleEvent(e) PROVE Newest'
  <2>1. delivered' = delivered \cup {e}
    BY <1>2 DEF HandleEvent
  <2>2. CASE ApplySubscription(e)
    <3>1. Subscriptions' = Subscriptions \cup {e}
      BY <2>1, <2>2 DEF Subscriptions, ApplySubscription
    <3>2. \A d \in Subscriptions \cup {e} : d.at \in Nat /\ d.at # 0
      BY <2>1 DEF Subscriptions, Typed, TypeOK, Events, Times
    <3>3. lastEvent \in Nat
      BY LifecycleAssumption DEF Typed, TypeOK, Times
    <3>4. \A d \in Subscriptions : d.at <= lastEvent
      BY DEF Newest, SubscriptionIsNewest, Subscriptions
    <3>5. CASE IsNewer(e)
      <4>1. plan' = e.plan /\ lastEvent' = e.at
        BY <2>2, <3>5 DEF ApplySubscription
      <4>2. \A d \in Subscriptions' : d.at <= lastEvent'
        BY <3>1, <3>2, <3>3, <3>4, <3>5, <4>1 DEF IsNewer
      <4> QED
        BY <3>1, <4>1, <4>2 DEF Newest, SubscriptionIsNewest, Subscriptions
    <3>6. CASE ~IsNewer(e)
      <4>1. plan' = plan /\ lastEvent' = lastEvent /\ e.at <= lastEvent /\ lastEvent # 0
        BY <2>2, <3>2, <3>3, <3>6 DEF ApplySubscription, IsNewer
      <4>2. PICK d \in Subscriptions : d.at = lastEvent /\ d.plan = plan
        BY <4>1 DEF Newest, SubscriptionIsNewest, Subscriptions
      <4>3. \A d2 \in Subscriptions' : d2.at <= lastEvent'
        BY <3>1, <3>4, <4>1
      <4> QED
        BY <3>1, <4>1, <4>2, <4>3 DEF Newest, SubscriptionIsNewest, Subscriptions
    <3> QED
      BY <3>5, <3>6
  <2>3. CASE ApplyPaymentFailed(e) \/ ApplyInvoicePaid(e)
    <3>1. Subscriptions' = Subscriptions /\ plan' = plan /\ lastEvent' = lastEvent
      BY <2>1, <2>3 DEF Subscriptions, ApplyPaymentFailed, ApplyInvoicePaid
    <3> QED
      BY <3>1 DEF Newest, SubscriptionIsNewest, Subscriptions
  <2> QED
    BY <1>2, <2>2, <2>3 DEF HandleEvent
<1> QED
  BY <1>1, <1>2
  DEF Next, Request, vars, BeginCreate, Patch, BeginPause, BeginResume, BeginUpdate,
      Begin, Insert, Write, Abandon, Delete, ArchiveExpired, ListDelinquent,
      ListOverage, EnforcePaymentFailure, EnforceOverage, CheckCompliance, Emit, Tick

(* However Stripe orders, repeats or withholds its events, the plan is     *)
(* that of a newest subscription event that reached the handler.           *)
THEOREM PlanIsNewest == Spec => []SubscriptionIsNewest
<1>1. Newest => SubscriptionIsNewest
  BY DEF Newest
<1> QED
  BY <1>1, AlwaysTyped, InitNewest, NextNewest, PTL DEF Spec

-----------------------------------------------------------------------------
(* The plan's limit.  A request that passed the check and has not inserted *)
(* its row yet is counted as if it had: at its check the others that did   *)
(* are at most as many as the requests besides it.                         *)

Pending == {r \in Requests : req[r].op = "create"}

Held == {FreePlan} \cup {e.plan : e \in {d \in delivered : d.type = "subscription"}}

Within(p) ==
  \/ PlanLimit[p] = 0
  \/ Cardinality(Counted) + Cardinality(Pending)
       <= PlanLimit[p] + Cardinality(Requests) - 1 + reopened

(* The plan is one of those the organization has had. *)
PlanHeld == lastEvent = 0 => plan = FreePlan

Bounded == PlanHeld /\ \E p \in Held : Within(p)

LEMMA Sizes ==
  ASSUME Typed
  PROVE  /\ IsFiniteSet(Counted) /\ Cardinality(Counted) \in Nat
         /\ IsFiniteSet(Pending) /\ Cardinality(Pending) \in Nat
         /\ Cardinality(Requests) \in Nat
         /\ reopened \in Nat
         /\ \A p \in Plans : PlanLimit[p] \in Nat
         /\ Held \subseteq Plans
<1>1. IsFiniteSet(Created)
  BY FS_Interval DEF Typed, TypeOK
<1>2. Counted \subseteq Created /\ Pending \subseteq Requests
  BY DEF Counted, Live, Pending
<1>3. IsFiniteSet(Counted) /\ IsFiniteSet(Pending) /\ IsFiniteSet(Requests)
  BY <1>1, <1>2, FS_Subset, LifecycleAssumption
<1>4. Held \subseteq Plans
  BY LifecycleAssumption DEF Held, Typed, TypeOK, Events
<1> QED
  BY <1>3, <1>4, FS_CardinalityType, LifecycleAssumption DEF Typed, TypeOK

LEMMA AddOne ==
  ASSUME NEW S, IsFiniteSet(S), NEW x
  PROVE  IsFiniteSet(S \cup {x}) /\ Cardinality(S \cup {x}) <= Cardinality(S) + 1
<1>1. Cardinality(S) \in Nat
  BY FS_CardinalityType
<1>2. /\ IsFiniteSet(S \cup {x})
      /\ \/ Cardinality(S \cup {x}) = Cardinality(S)
         \/ Cardinality(S \cup {x}) = Cardinality(S) + 1
  BY FS_AddElement, Zenon
<1> QED
  BY <1>1, <1>2

LEMMA InitBounded == Init => Bounded
<1> SUFFICES ASSUME Init PROVE Bounded
  OBVIOUS
<1>1. Counted = {} /\ Pending = {}
  BY DEF Init, Counted, Live, Created, Pending, Idle
<1>2. Cardinality(Counted) = 0 /\ Cardinality(Pending) = 0
  BY <1>1, FS_EmptySet
<1>3. PlanLimit[FreePlan] \in Nat /\ Cardinality(Requests) \in Nat
  BY FS_CardinalityType, LifecycleAssumption
<1>4. Within(FreePlan)
  BY <1>2, <1>3 DEF Within, Init
<1> QED
  BY <1>4 DEF Bounded, PlanHeld, Held, Init

(* What keeps the requests that count, and adds none to Counted.           *)
LEMMA ShrinkBounded ==
  ASSUME Typed, Typed', Newest, Bounded, PlanHeld',
         Counted' \subseteq Counted, Pending' \subseteq Pending,
         reopened' = reopened, Held \subseteq Held'
  PROVE  Bounded'
<1>1. PICK p \in Held : Within(p)
  BY DEF Bounded
<1>2. Cardinality(Counted') <= Cardinality(Counted)
      /\ Cardinality(Pending') <= Cardinality(Pending)
  BY Sizes, FS_Subset
<1>3. /\ Cardinality(Counted') \in Nat /\ Cardinality(Pending') \in Nat
      /\ Cardinality(Counted) \in Nat /\ Cardinality(Pending) \in Nat
  BY Sizes, FS_CardinalityType, FS_Subset
<1>4. Within(p)'
  BY <1>1, <1>2, <1>3, Sizes DEF Within
<1> QED
  BY <1>1, <1>4 DEF Bounded

(* Every step but the insert and the write of a request.                   *)
LEMMA CountedShrinks ==
  ASSUME Typed, [Next]_vars
  PROVE  \/ \E r \in Requests : Insert(r) \/ Write(r)
         \/ Counted' \subseteq Counted /\ reopened' = reopened
<1> USE DEF seenVars, orgVars
<1>1. CASE rows' = rows /\ reopened' = reopened
  BY <1>1 DEF Counted, Live, Created
<1>2. ASSUME NEW i \in Ids, Delete(i)
      PROVE  Counted' \subseteq Counted /\ reopened' = reopened
  BY <1>2 DEF Delete, Typed, TypeOK, Rows, Created, Counted, Live
<1>3. CASE ArchiveExpired
  BY <1>3 DEF ArchiveExpired, Typed, TypeOK, Rows, Created, Counted, Live
<1>4. CASE EnforcePaymentFailure
  <2>1. /\ rows' = [id \in Created |->
              IF id \in Active THEN [rows[id] EXCEPT !.status = "paused", !.billing = TRUE]
              ELSE rows[id]]
        /\ reopened' = reopened
    BY <1>4 DEF EnforcePaymentFailure, PauseForBilling
  <2> QED
    BY <2>1 DEF Typed, TypeOK, Rows, Created, Counted, Live, Active
<1>5. CASE EnforceOverage
  <2>1. CASE StoredLimit # 0
    <3> DEFINE ids == Excess(StoredLimit)
    <3>1. /\ rows' = [id \in Created |->
                IF id \in ids THEN [rows[id] EXCEPT !.status = "paused", !.billing = TRUE]
                ELSE rows[id]]
          /\ reopened' = reopened
      BY <1>5, <2>1 DEF EnforceOverage, PauseForBilling
    <3>2. ids \subseteq Active
      BY DEF Excess
    <3> HIDE DEF ids
    <3> QED
      BY <3>1, <3>2 DEF Typed, TypeOK, Rows, Created, Counted, Live, Active
  <2>2. CASE StoredLimit = 0
    BY <1>1, <1>5, <2>2 DEF EnforceOverage
  <2> QED
    BY <2>1, <2>2
<1>6. ASSUME NEW e \in emitted, HandleEvent(e)
      PROVE  Counted' \subseteq Counted /\ reopened' = reopened
  <2>1. reopened' = reopened
    BY <1>6 DEF HandleEvent
  <2>2. CASE ApplyInvoicePaid(e)
    <3> DEFINE ids == PausedForBilling
    <3>1. rows' = [id \in Created |->
            IF id \in ids THEN [rows[id] EXCEPT !.status = "active", !.billing = FALSE]
            ELSE rows[id]]
      BY <2>2 DEF ApplyInvoicePaid
    <3>2. \A id \in ids : id \in Counted
      BY DEF PausedForBilling, Counted
    <3> HIDE DEF ids
    <3> QED
      BY <2>1, <3>1, <3>2 DEF Typed, TypeOK, Rows, Created, Counted, Live
  <2>3. CASE rows' = rows
    BY <2>1, <2>3 DEF Counted, Live, Created
  <2> QED
    BY <1>6, <2>2, <2>3 DEF HandleEvent, ApplySubscription, ApplyPaymentFailed
<1> QED
  BY <1>1, <1>2, <1>3, <1>4, <1>5, <1>6
  DEF Next, Request, vars, BeginCreate, Patch, BeginPause, BeginResume, BeginUpdate,
      Begin, Abandon, ListDelinquent, ListOverage, CheckCompliance, Emit, Tick

(* The plans held are never forgotten, and the plan is one of them. *)
LEMMA PlansKept ==
  ASSUME Typed, Newest, PlanHeld, [Next]_vars
  PROVE  PlanHeld' /\ Held \subseteq Held' /\ plan \in Held
<1> USE DEF seenVars, orgVars
<1>1. delivered \subseteq delivered'
  BY DEF Next, Request, vars, BeginCreate, Patch, BeginPause, BeginResume, BeginUpdate,
      Begin, Insert, Write, Abandon, Delete, ArchiveExpired, ListDelinquent,
      ListOverage, EnforcePaymentFailure, EnforceOverage, CheckCompliance, Emit, Tick,
      HandleEvent
<1>2. Held \subseteq Held'
  BY <1>1 DEF Held
<1>3. plan \in Held
  <2>1. CASE lastEvent = 0
    BY <2>1 DEF PlanHeld, Held
  <2>2. CASE lastEvent # 0
    BY <2>2 DEF Newest, SubscriptionIsNewest, Subscriptions, Held
  <2> QED
    BY <2>1, <2>2
<1>4. ASSUME NEW e \in emitted, HandleEvent(e) PROVE PlanHeld'
  <2>1. e.at # 0
    BY DEF Typed, TypeOK, Events, Times
  <2> QED
    BY <1>4, <2>1 DEF HandleEvent, ApplySubscription, ApplyPaymentFailed,
                      ApplyInvoicePaid, PlanHeld
<1>5. ASSUME plan' = plan, lastEvent' = lastEvent PROVE PlanHeld'
  BY <1>5 DEF PlanHeld
<1>6. PlanHeld'
  BY <1>4, <1>5
  DEF Next, Request, vars, BeginCreate, Patch, BeginPause, BeginResume, BeginUpdate,
      Begin, Insert, Write, Abandon, Delete, ArchiveExpired, ListDelinquent,
      ListOverage, EnforcePaymentFailure, EnforceOverage, CheckCompliance, Emit, Tick
<1> QED
  BY <1>2, <1>3, <1>6

(* Only the check of a create adds to the pending ones. *)
LEMMA PendingShrinks ==
  ASSUME Typed, [Next]_vars
  PROVE  \/ \E r \in Requests, settings \in Settings, end \in Ends :
              BeginCreate(r, settings, end)
         \/ Pending' \subseteq Pending
<1> USE DEF seenVars, orgVars
<1>1. CASE req' = req
  BY <1>1 DEF Pending
<1>2. ASSUME NEW r \in Requests, req' = [req EXCEPT ![r] = Idle]
      PROVE  Pending' \subseteq Pending
  BY <1>2 DEF Typed, TypeOK, Pending, Idle
<1>3. ASSUME NEW r \in Requests, NEW id, NEW status, NEW settings,
             BeginUpdate(r, id, status, settings)
      PROVE  Pending' \subseteq Pending
  BY <1>3 DEF BeginUpdate, Begin, Typed, TypeOK, Pending
<1> QED
  BY <1>1, <1>2, <1>3
  DEF Next, Request, vars, Patch, BeginPause, BeginResume, Insert, Write, Abandon,
      Delete, ArchiveExpired, ListDelinquent, ListOverage, EnforcePaymentFailure,
      EnforceOverage, CheckCompliance, Emit, Tick, HandleEvent

LEMMA BeginCreateBounded ==
  ASSUME Typed, Typed', Newest, Bounded, [Next]_vars, NEW r \in Requests,
         NEW settings \in Settings, NEW end \in Ends, BeginCreate(r, settings, end)
  PROVE  Bounded'
<1>1. PlanHeld' /\ Held \subseteq Held' /\ plan \in Held
  BY PlansKept DEF Bounded
<1>2. Counted' = Counted /\ reopened' = reopened /\ plan' = plan
  BY DEF BeginCreate, Begin, Counted, Live, Created, orgVars, seenVars
<1>3. WithinLimit
  BY DEF BeginCreate
<1>4. Cardinality(Pending') <= Cardinality(Requests) /\ Cardinality(Pending') \in Nat
  BY FS_Subset, FS_CardinalityType, LifecycleAssumption DEF Pending
<1>5. Within(plan)'
  BY <1>1, <1>2, <1>3, <1>4, Sizes DEF WithinLimit, Within
<1> QED
  BY <1>1, <1>2, <1>5 DEF Bounded

LEMMA InsertBounded ==
  ASSUME Typed, Typed', Newest, Bounded, [Next]_vars, NEW r \in Requests, Insert(r)
  PROVE  Bounded'
<1>1. PlanHeld' /\ Held \subseteq Held'
  BY PlansKept DEF Bounded
<1>2. PICK p \in Held : Within(p)
  BY DEF Bounded
<1>3. r \in Pending /\ Pending' = Pending \ {r}
  BY DEF Insert, Pending, Typed, TypeOK, Idle
<1>4. Cardinality(Pending') = Cardinality(Pending) - 1
  BY <1>3, Sizes, FS_RemoveElement
<1> DEFINE id == Cardinality(Created) + 1
<1>5. Counted' \subseteq Counted \cup {id}
  BY DEF Insert, Counted, Live, Created
<1> HIDE DEF id
<1>6. Cardinality(Counted') <= Cardinality(Counted) + 1 /\ Cardinality(Counted') \in Nat
  <2>1. IsFiniteSet(Counted \cup {id})
        /\ Cardinality(Counted \cup {id}) <= Cardinality(Counted) + 1
    BY Sizes, AddOne
  <2> QED
    BY <1>5, <2>1, Sizes, FS_Subset, FS_CardinalityType
<1>7. reopened' = reopened
  BY DEF Insert
<1>8. Within(p)'
  BY <1>2, <1>4, <1>6, <1>7, Sizes DEF Within
<1> QED
  BY <1>1, <1>2, <1>8 DEF Bounded

LEMMA WriteBounded ==
  ASSUME Typed, Typed', Newest, Bounded, [Next]_vars, NEW r \in Requests, Write(r)
  PROVE  Bounded'
<1>1. PlanHeld' /\ Held \subseteq Held'
  BY PlansKept DEF Bounded
<1>2. Pending' \subseteq Pending
  BY DEF Write, Pending, Typed, TypeOK, Idle
<1> DEFINE id == req[r].id
           reopens == rows[id].status = "archived" /\ req[r].status # "archived"
<1>3. CASE ~Updatable(id)
  <2>1. Counted' = Counted /\ reopened' = reopened
    BY <1>3 DEF Write, Counted, Live, Created
  <2> QED
    BY <1>1, <1>2, <2>1, ShrinkBounded
<1>4. CASE Updatable(id)
  <2> DEFINE version == NextVersion(rows[id], req[r].settings)
  <2>1. rows' = [rows EXCEPT ![id].status = req[r].status, ![id].settings = req[r].settings,
                             ![id].version = version]
    BY <1>4 DEF Write
  <2>2. reopened' = reopened + IF reopens THEN 1 ELSE 0
    BY <1>4 DEF Write
  <2>3. id \in Created /\ ~rows[id].deleted
    BY <1>4, PendingTypes DEF Write, Updatable
  <2> HIDE DEF version, id
  <2>4. Counted' \subseteq Counted \cup {id}
    BY <2>1, <2>3 DEF Typed, TypeOK, Rows, Counted, Live, Created
  <2>5. CASE ~reopens
    <3>1. Counted' \subseteq Counted
      BY <2>1, <2>3, <2>5 DEF Typed, TypeOK, Rows, Counted, Live, Created
    <3>2. reopened' = reopened
      BY <2>2, <2>5, Sizes
    <3> QED
      BY <1>1, <1>2, <3>1, <3>2, ShrinkBounded
  <2>6. CASE reopens
    <3>1. PICK p \in Held : Within(p)
      BY DEF Bounded
    <3>2. Cardinality(Pending') <= Cardinality(Pending) /\ Cardinality(Pending') \in Nat
      BY <1>2, Sizes, FS_Subset, FS_CardinalityType
    <3>3. IsFiniteSet(Counted \cup {id})
          /\ Cardinality(Counted \cup {id}) <= Cardinality(Counted) + 1
      BY Sizes, AddOne
    <3>4. Cardinality(Counted') <= Cardinality(Counted) + 1 /\ Cardinality(Counted') \in Nat
      BY <2>4, <3>3, Sizes, FS_Subset, FS_CardinalityType
    <3>5. reopened' = reopened + 1
      BY <2>2, <2>6
    <3>6. Within(p)'
      BY <3>1, <3>2, <3>4, <3>5, Sizes DEF Within
    <3> QED
      BY <1>1, <3>1, <3>6 DEF Bounded
  <2> QED
    BY <2>5, <2>6
<1> QED
  BY <1>3, <1>4

LEMMA NextBounded == Typed /\ Typed' /\ Newest /\ Bounded /\ [Next]_vars => Bounded'
<1> SUFFICES ASSUME Typed, Typed', Newest, Bounded, [Next]_vars PROVE Bounded'
  OBVIOUS
<1>1. PlanHeld' /\ Held \subseteq Held'
  BY PlansKept DEF Bounded
<1> QED
  BY <1>1, CountedShrinks, PendingShrinks, ShrinkBounded, BeginCreateBounded,
     InsertBounded, WriteBounded

LEMMA BoundedBounds == Typed /\ Bounded => OvershootBounded
<1> SUFFICES ASSUME Typed, Bounded PROVE OvershootBounded
  OBVIOUS
<1>1. PICK p \in Held : Within(p)
  BY DEF Bounded
<1>2. PlanLimit[p] = 0
      \/ Cardinality(Counted) <= PlanLimit[p] + Cardinality(Requests) - 1 + reopened
  BY <1>1, Sizes DEF Within
<1> QED
  BY <1>1, <1>2 DEF OvershootBounded, Held

(* Requests that check the limit before they insert exceed it by at most   *)
(* one each, for every number of concurrent requests and every limit.      *)
THEOREM LimitOvershoot == Spec => []OvershootBounded
<1> QED
  BY AlwaysTyped, InitNewest, NextNewest, InitBounded, NextBounded, BoundedBounds,
     PTL DEF Spec
=============================================================================
