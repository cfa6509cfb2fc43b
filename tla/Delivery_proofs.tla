--------------------------- MODULE Delivery_proofs ---------------------------
(***************************************************************************)
(* What the rows of a notification's deliveries claim, and when the        *)
(* evaluator is told to alert again, for every number of channels, workers *)
(* and attempts; and the rules about time, for every time.                 *)
(***************************************************************************)
EXTENDS Delivery, Sequences, FiniteSetTheorems, FunctionTheorems,
        WellFoundedInduction, TLAPS

Rows == [status : Statuses, attempts : 0..(MaxAttempts + 1), id : BOOLEAN]

WorkerRows ==
  [at : {"idle", "attempt", "call", "result", "mark", "markOnly", "check", "reset"},
   retry : 0..MaxAttempts, todo : SUBSET Channels,
   result : Results \cup {"none", "retrying", "failed"}]

(* What a worker carries from the statements it has done to those it will. *)
WorkerHolds(w) ==
  /\ worker[w].at # "idle" => worker[w].todo # {}
  /\ worker[w].at \in {"call", "result", "mark", "markOnly", "check", "reset"} =>
       delivery[Current(w)].status # "none"
  /\ worker[w].at = "result" => worker[w].result \in Results
  /\ worker[w].at = "result" /\ worker[w].result = "sent" => Current(w) \in accepted
  /\ worker[w].at \in {"mark", "markOnly"} =>
       \/ worker[w].result = "retrying"
       \/ worker[w].result = "failed" /\ delivery[Current(w)].attempts >= MaxAttempts
  /\ worker[w].at = "reset" => delivery[Current(w)].attempts > MaxAttempts

(* What a row claims; the provider's id is there from when it was sent.    *)
RowHolds(c) ==
  /\ delivery[c].status \in {"sent", "bounced"} \/ delivery[c].id => c \in accepted
  /\ delivery[c].status = "failed" => delivery[c].attempts > MaxAttempts

IInv ==
  /\ TypeOK
  /\ \A w \in Workers : WorkerHolds(w)
  /\ \A c \in Channels : RowHolds(c)

(* What each step does, as the action property states it.                  *)
ResetIsEarned == notified' # notified => \E c \in Channels : delivery[c].attempts > MaxAttempts

Good == IInv' /\ ResetIsEarned

-----------------------------------------------------------------------------
(* The channel a worker is at, and what a step may do to the tables.       *)

LEMMA LeastExists ==
  ASSUME NEW S, S \subseteq Nat, S # {}
  PROVE  Min(S) \in S
<1>1. PICK x \in S : \A y \in S : ~ (<<y, x>> \in OpToRel(<, Nat))
  BY WFMin, NatLessThanWellFounded
<1>2. \A y \in S : x <= y
  <2> SUFFICES ASSUME NEW y \in S
               PROVE  x <= y
    OBVIOUS
  <2>1. ~ (y < x)
    BY <1>1 DEF OpToRel
  <2> QED
    BY <2>1
<1> QED
  BY <1>2 DEF Min

LEMMA Types ==
  ASSUME IInv
  PROVE  worker \in [Workers -> WorkerRows] /\ delivery \in [Channels -> Rows]
  BY DEF IInv, TypeOK, WorkerRows, Rows

LEMMA CurrentTyped ==
  ASSUME IInv, NEW w \in Workers, worker[w].at # "idle"
  PROVE  Current(w) \in worker[w].todo /\ Current(w) \in Channels /\ worker[w].todo \subseteq Channels
<1>1. worker[w].todo \subseteq Channels /\ worker[w].todo # {}
  BY Types DEF IInv, WorkerHolds, WorkerRows
<1>2. Channels \subseteq Nat
  BY DeliveryAssumption DEF Channels
<1> QED
  BY <1>1, <1>2, LeastExists DEF Current

LEMMA CountedTyped ==
  ASSUME NEW n \in 0..(MaxAttempts + 1)
  PROVE  /\ Counted(n) \in 0..(MaxAttempts + 1) /\ Counted(n) >= n
         /\ n >= MaxAttempts => Counted(n) > MaxAttempts
  BY DeliveryAssumption DEF Counted

WorkerMoves(w) ==
  worker' \in [Workers -> WorkerRows] /\ \A v \in Workers \ {w} : worker'[v] = worker[v]

RowMoves(c) ==
  delivery' \in [Channels -> Rows] /\ \A d \in Channels \ {c} : delivery'[d] = delivery[d]

LEMMA WorkerWritten ==
  ASSUME IInv, NEW w \in Workers, NEW new \in WorkerRows, worker' = [worker EXCEPT ![w] = new]
  PROVE  WorkerMoves(w) /\ worker'[w] = new
  BY Types DEF WorkerMoves

LEMMA RowWritten ==
  ASSUME IInv, NEW c \in Channels, NEW new \in Rows, SetRow(c, new)
  PROVE  RowMoves(c) /\ delivery'[c] = new
  BY Types DEF RowMoves, SetRow

LEMMA IdleTyped == Idle \in WorkerRows /\ Idle.at = "idle"
<1>1. 0 \in 0..MaxAttempts /\ {} \in SUBSET Channels
  BY DeliveryAssumption
<1> QED
  BY <1>1 DEF Idle, WorkerRows

LEMMA GotoSteps ==
  ASSUME IInv, NEW w \in Workers, NEW at, NEW result,
         at \in {"idle", "attempt", "call", "result", "mark", "markOnly", "check", "reset"},
         result \in Results \cup {"none", "retrying", "failed"}, Goto(w, at, result)
  PROVE  /\ WorkerMoves(w) /\ worker'[w].at = at /\ worker'[w].result = result
         /\ worker'[w].todo = worker[w].todo /\ worker'[w].retry = worker[w].retry
         /\ Current(w)' = Current(w)
<1> DEFINE new == [worker[w] EXCEPT !.at = at, !.result = result]
<1>1. worker[w] \in WorkerRows
  BY Types
<1>2. /\ new \in WorkerRows /\ new.at = at /\ new.result = result
      /\ new.todo = worker[w].todo /\ new.retry = worker[w].retry
  BY <1>1 DEF WorkerRows
<1>3. worker' = [worker EXCEPT ![w] = new]
  BY DEF Goto
<1> HIDE DEF new
<1>4. WorkerMoves(w) /\ worker'[w] = new
  BY <1>2, <1>3, WorkerWritten
<1>5. worker'[w].todo = worker[w].todo
  BY <1>2, <1>4
<1> QED
  BY <1>2, <1>4, <1>5 DEF Current

LEMMA NextChannelTyped ==
  ASSUME NEW old \in WorkerRows, old.todo \ {Min(old.todo)} \in SUBSET Channels
  PROVE  /\ NextChannel(old) \in WorkerRows /\ NextChannel(old).at = "attempt"
         /\ NextChannel(old).todo = old.todo \ {Min(old.todo)}
  BY DEF WorkerRows, NextChannel

LEMMA AdvanceSteps ==
  ASSUME IInv, NEW w \in Workers, worker[w].at # "idle", Advance(w)
  PROVE  WorkerMoves(w) /\ WorkerHolds(w)'
<1>1. CASE worker[w].todo = {Min(worker[w].todo)}
  <2>1. worker' = [worker EXCEPT ![w] = Idle]
    BY <1>1 DEF Advance
  <2>2. WorkerMoves(w) /\ worker'[w] = Idle
    BY <2>1, IdleTyped, WorkerWritten
  <2> QED
    BY <2>2, IdleTyped DEF WorkerHolds
<1>2. CASE worker[w].todo # {Min(worker[w].todo)}
  <2> PICK old \in WorkerRows : old = worker[w]
    BY Types
  <2>1. old.todo \ {Min(old.todo)} \in SUBSET Channels /\ old.todo \ {Min(old.todo)} # {}
    BY <1>2, CurrentTyped DEF Current
  <2>2. PICK new \in WorkerRows : /\ new = NextChannel(old) /\ new.at = "attempt"
                                 /\ new.todo = old.todo \ {Min(old.todo)}
    BY <2>1, NextChannelTyped
  <2>3. worker' = [worker EXCEPT ![w] = new]
    BY <1>2, <2>2 DEF Advance
  <2>4. WorkerMoves(w) /\ worker'[w] = new
    BY <2>3, WorkerWritten
  <2> QED
    BY <2>1, <2>2, <2>4 DEF WorkerHolds
<1> QED
  BY <1>1, <1>2

\* Rows stay, attempts are never uncounted, and an endpoint does not take back its answer.
Lasting ==
  /\ accepted \subseteq accepted'
  /\ \A c \in Channels :
       /\ delivery[c].status # "none" => delivery'[c].status # "none"
       /\ delivery'[c].attempts >= delivery[c].attempts

Tables ==
  /\ enabled \in Snapshots /\ delivery \in [Channels -> Rows] /\ queue \in [0..MaxAttempts -> Nat]
  /\ accepted \subseteq Channels /\ notified \in BOOLEAN
  /\ health \in [EmailChannels -> [failures : 0..MaxBounceFailures, enabled : BOOLEAN]]
  /\ sweep \subseteq Channels /\ parks \in 0..MaxParks /\ faults \in 0..MaxFaults

LEMMA TablesTyped == IInv => Tables
  BY DEF IInv, TypeOK, Tables, Rows

LEMMA StepPreserves ==
  ASSUME IInv, Tables', worker' \in [Workers -> WorkerRows], Lasting,
         \A w \in Workers : worker'[w] = worker[w] \/ WorkerHolds(w)',
         \A c \in Channels : delivery'[c] = delivery[c] \/ RowHolds(c)'
  PROVE  IInv'
<1>1. TypeOK'
  BY DEF Tables, TypeOK, Rows, WorkerRows
<1>2. ASSUME NEW w \in Workers, worker'[w] = worker[w]
      PROVE  WorkerHolds(w)'
  <2>1. CASE worker[w].at = "idle"
    BY <1>2, <2>1 DEF WorkerHolds
  <2>2. CASE worker[w].at # "idle"
    <3>1. PICK c \in Channels : c = Current(w)
      BY <2>2, CurrentTyped
    <3>2. c = Current(w)'
      BY <1>2, <3>1 DEF Current
    <3>3. /\ delivery[c].status # "none" => delivery'[c].status # "none"
          /\ delivery'[c].attempts >= delivery[c].attempts
          /\ c \in accepted => c \in accepted'
      BY DEF Lasting
    <3>4. delivery[c].attempts \in Nat /\ delivery'[c].attempts \in Nat /\ MaxAttempts \in Nat
      BY Types, DeliveryAssumption DEF Tables, Rows
    <3>5. WorkerHolds(w)
      BY DEF IInv
    <3> QED
      BY <1>2, <3>1, <3>2, <3>3, <3>4, <3>5 DEF WorkerHolds
  <2> QED
    BY <2>1, <2>2
<1>3. ASSUME NEW c \in Channels, delivery'[c] = delivery[c]
      PROVE  RowHolds(c)'
  BY <1>3 DEF IInv, RowHolds, Lasting
<1> QED
  BY <1>1, <1>2, <1>3 DEF IInv

\* A step that leaves the rows alone.
LEMMA RowsAlone ==
  ASSUME IInv, delivery' = delivery, accepted \subseteq accepted'
  PROVE  Lasting /\ \A c \in Channels : delivery'[c] = delivery[c] \/ RowHolds(c)'
<1>1. \A c \in Channels : delivery[c].attempts \in Nat
  BY Types DEF Rows
<1> QED
  BY <1>1 DEF Lasting

LEMMA QuietPreserves ==
  ASSUME IInv, Tables', worker' \in [Workers -> WorkerRows], UNCHANGED <<delivery, notified>>,
         accepted \subseteq accepted',
         \A w \in Workers : worker'[w] = worker[w] \/ WorkerHolds(w)'
  PROVE  Good
<1>1. Lasting /\ \A c \in Channels : delivery'[c] = delivery[c] \/ RowHolds(c)'
  BY RowsAlone
<1>2. IInv'
  BY <1>1, StepPreserves
<1> QED
  BY <1>2 DEF Good, ResetIsEarned

\* A step that writes one row.
LEMMA RowPreserves ==
  ASSUME IInv, Tables', worker' \in [Workers -> WorkerRows], UNCHANGED <<accepted, notified>>,
         \A w \in Workers : worker'[w] = worker[w] \/ WorkerHolds(w)',
         NEW c \in Channels, RowMoves(c), RowHolds(c)', delivery'[c].status # "none",
         delivery'[c].attempts >= delivery[c].attempts
  PROVE  Good
<1>1. \A d \in Channels : delivery[d].attempts \in Nat
  BY Types DEF Rows
<1>2. Lasting /\ \A d \in Channels : delivery'[d] = delivery[d] \/ RowHolds(d)'
  BY <1>1 DEF Lasting, RowMoves
<1>3. IInv'
  BY <1>2, StepPreserves
<1> QED
  BY <1>3 DEF Good, ResetIsEarned
-----------------------------------------------------------------------------
(* The workers' steps.                                                      *)

LEMMA TakePreserves ==
  ASSUME IInv, NEW w \in Workers, Take(w)
  PROVE  Good
<1>1. PICK r \in 0..MaxAttempts :
        /\ queue[r] > 0
        /\ queue' = [queue EXCEPT ![r] = @ - 1]
        /\ worker' = [worker EXCEPT ![w] =
             IF Handles(w) = {} THEN Idle
             ELSE [at |-> "attempt", retry |-> r, todo |-> Handles(w), result |-> "none"]]
  BY DEF Take
<1>2. queue' \in [0..MaxAttempts -> Nat]
  <2>1. queue \in [0..MaxAttempts -> Nat]
    BY DEF IInv, TypeOK
  <2>2. queue[r] - 1 \in Nat
    BY <1>1, <2>1
  <2> QED
    BY <1>1, <2>1, <2>2
<1>3. WorkerMoves(w) /\ WorkerHolds(w)'
  <2>1. CASE Handles(w) = {}
    <3>1. WorkerMoves(w) /\ worker'[w] = Idle
      BY <1>1, <2>1, IdleTyped, WorkerWritten
    <3> QED
      BY <3>1, IdleTyped DEF WorkerHolds
  <2>2. CASE Handles(w) # {}
    <3> PICK new : new = [at |-> "attempt", retry |-> r, todo |-> Handles(w), result |-> "none"]
      OBVIOUS
    <3>1. Handles(w) \in SUBSET Channels
      BY DEF Handles, Channels
    <3>2. new \in WorkerRows /\ new.at = "attempt" /\ new.todo # {}
      BY <2>2, <3>1 DEF WorkerRows
    <3>3. WorkerMoves(w) /\ worker'[w] = new
      BY <1>1, <2>2, <3>2, WorkerWritten
    <3> QED
      BY <3>2, <3>3 DEF WorkerHolds
  <2> QED
    BY <2>1, <2>2
<1>4. Tables' /\ UNCHANGED <<delivery, notified, accepted>>
  BY <1>2, TablesTyped DEF Take, Tables
<1> QED
  BY <1>3, <1>4, QuietPreserves DEF WorkerMoves

LEMMA AttemptPreserves ==
  ASSUME IInv, NEW w \in Workers, Attempt(w)
  PROVE  Good
<1>1. PICK c \in Channels : c = Current(w)
  BY CurrentTyped DEF Attempt
<1>2. PICK old \in Rows : old = delivery[c]
  BY Types
<1> PICK row : row = [EnsureDeliveryExists(c) EXCEPT !.attempts = Counted(@)]
  OBVIOUS
<1>3. /\ row \in Rows /\ row.status # "none" /\ row.id = old.id
      /\ row.status # "pending" => row.status = old.status
      /\ row.attempts = Counted(old.attempts)
  <2>1. Counted(old.attempts) \in 0..(MaxAttempts + 1) /\ "pending" \in Statuses
    BY CountedTyped DEF Rows, Statuses
  <2>2. CASE old.status = "none"
    <3> PICK fresh : fresh = [old EXCEPT !.status = "pending"]
      OBVIOUS
    <3>1. /\ fresh \in Rows /\ fresh.status = "pending" /\ fresh.id = old.id
          /\ fresh.attempts = old.attempts
      BY <2>1 DEF Rows
    <3>2. row = [fresh EXCEPT !.attempts = Counted(fresh.attempts)]
      BY <1>2, <2>2 DEF EnsureDeliveryExists
    <3> QED
      BY <2>1, <3>1, <3>2 DEF Rows
  <2>3. CASE old.status # "none"
    <3>1. row = [old EXCEPT !.attempts = Counted(old.attempts)]
      BY <1>2, <2>3 DEF EnsureDeliveryExists
    <3> QED
      BY <2>1, <2>3, <3>1 DEF Rows
  <2> QED
    BY <2>2, <2>3
<1>4. RowMoves(c) /\ delivery'[c] = row
  BY <1>1, <1>3, RowWritten DEF Attempt
<1>5. RowHolds(c)' /\ delivery'[c].status # "none" /\ delivery'[c].attempts >= delivery[c].attempts
  <2>1. old.attempts \in 0..(MaxAttempts + 1) /\ RowHolds(c)
    BY DEF Rows, IInv
  <2>2. Counted(old.attempts) >= old.attempts /\ (old.attempts > MaxAttempts => Counted(old.attempts) > MaxAttempts)
    BY <2>1, DeliveryAssumption DEF Counted
  <2>3. accepted' = accepted
    BY DEF Attempt
  <2> QED
    BY <1>2, <1>3, <1>4, <2>1, <2>2, <2>3 DEF RowHolds
<1>6. WorkerMoves(w) /\ worker'[w].at = "call" /\ Current(w)' = c
  BY <1>1, GotoSteps DEF Attempt
<1>7. WorkerHolds(w)'
  <2>1. worker'[w].todo # {}
    BY <1>1, CurrentTyped, GotoSteps DEF Attempt
  <2> QED
    BY <1>5, <1>6, <2>1 DEF WorkerHolds
<1>8. Tables'
  BY <1>4, TablesTyped DEF Tables, RowMoves, Attempt
<1>9. UNCHANGED <<accepted, notified>>
  BY DEF Attempt
<1> QED
  BY <1>4, <1>5, <1>6, <1>7, <1>8, <1>9, RowPreserves DEF WorkerMoves
LEMMA CallSteps ==
  ASSUME IInv, NEW w \in Workers, worker[w].at = "call", accepted \subseteq accepted',
         UNCHANGED delivery, NEW result \in Results, Goto(w, "result", result),
         result = "sent" => Current(w) \in accepted'
  PROVE  WorkerMoves(w) /\ WorkerHolds(w)'
<1>1. PICK c \in Channels : c = Current(w) /\ worker[w].todo # {}
  BY CurrentTyped
<1>2. /\ WorkerMoves(w) /\ worker'[w].at = "result" /\ worker'[w].result = result
      /\ worker'[w].todo = worker[w].todo /\ Current(w)' = c
  BY <1>1, GotoSteps
<1>3. delivery[c].status # "none"
  BY <1>1 DEF IInv, WorkerHolds
<1> QED
  BY <1>1, <1>2, <1>3 DEF WorkerHolds

LEMMA OutcomesTyped ==
  /\ \A o \in EmailOutcomes : EmailDeliver(o) \in Results /\ (EmailDeliver(o) = "sent" => o = "ok")
  /\ \A o \in WebhookOutcomes : WebhookDeliver(o) \in Results /\ (WebhookDeliver(o) = "sent" => o = "2xx")
  BY DEF EmailOutcomes, EmailDeliver, WebhookOutcomes, WebhookDeliver, Results

LEMMA CallPreserves ==
  ASSUME IInv, NEW w \in Workers, CallEmail(w) \/ CallWebhook(w) \/ CallImpossible(w)
  PROVE  Good
<1>1. PICK c \in Channels : c = Current(w)
  BY CurrentTyped DEF CallEmail, CallWebhook, CallImpossible
<1>2. PICK result \in Results :
        /\ worker[w].at = "call" /\ Goto(w, "result", result)
        /\ accepted \subseteq accepted' /\ accepted' \subseteq Channels
        /\ result = "sent" => c \in accepted'
  <2>1. accepted \subseteq Channels
    BY DEF IInv, TypeOK
  <2>2. CASE CallEmail(w)
    BY <1>1, <2>1, <2>2, OutcomesTyped DEF CallEmail
  <2>3. CASE CallWebhook(w)
    BY <1>1, <2>1, <2>3, OutcomesTyped DEF CallWebhook
  <2>4. CASE CallImpossible(w)
    BY <2>1, <2>4 DEF CallImpossible, Results
  <2> QED
    BY <2>2, <2>3, <2>4
<1>3. UNCHANGED <<enabled, delivery, queue, notified, health, sweep, faults>>
  BY DEF CallEmail, CallWebhook, CallImpossible
<1>4. WorkerMoves(w) /\ WorkerHolds(w)'
  BY <1>1, <1>2, <1>3, CallSteps
<1>5. parks' \in 0..MaxParks
  <2>1. parks \in 0..MaxParks /\ MaxParks \in Nat
    BY DeliveryAssumption DEF IInv, TypeOK
  <2> QED
    BY <2>1 DEF CallEmail, CallWebhook, CallImpossible
<1>6. Tables'
  BY <1>2, <1>3, <1>5, TablesTyped DEF Tables
<1> QED
  BY <1>2, <1>3, <1>4, <1>6, QuietPreserves DEF WorkerMoves

\* A row that is written with the attempts it has, or one more.
LEMMA StatusWritten ==
  ASSUME IInv, NEW c \in Channels, NEW status \in Statuses,
         UpdateDeliveryStatus(c, status)
  PROVE  /\ RowMoves(c) /\ delivery'[c].status = status /\ delivery'[c].id = delivery[c].id
         /\ delivery'[c].attempts = Counted(delivery[c].attempts)
<1> PICK old \in Rows : old = delivery[c]
  BY Types
<1>1. Counted(old.attempts) \in 0..(MaxAttempts + 1)
  BY CountedTyped DEF Rows
<1> PICK new : new = [old EXCEPT !.status = status, !.attempts = Counted(old.attempts)]
  OBVIOUS
<1>2. new \in Rows /\ new.status = status /\ new.id = old.id /\ new.attempts = Counted(old.attempts)
  BY <1>1 DEF Rows
<1>3. SetRow(c, new)
  BY DEF UpdateDeliveryStatus
<1> QED
  BY <1>2, <1>3, RowWritten
LEMMA RowFacts ==
  ASSUME IInv, NEW c \in Channels
  PROVE  /\ delivery[c] \in Rows /\ delivery[c].attempts \in 0..(MaxAttempts + 1) /\ RowHolds(c)
         /\ Counted(delivery[c].attempts) >= delivery[c].attempts
         /\ Counted(delivery[c].attempts) \in 0..(MaxAttempts + 1)
         /\ delivery[c].attempts >= MaxAttempts => Counted(delivery[c].attempts) > MaxAttempts
<1>1. delivery[c] \in Rows /\ delivery[c].attempts \in 0..(MaxAttempts + 1) /\ RowHolds(c)
  BY Types DEF IInv, Rows
<1> QED
  BY <1>1, CountedTyped

LEMMA MarkDonePreserves ==
  ASSUME IInv, NEW w \in Workers, MarkDone(w)
  PROVE  Good
<1>1. PICK c \in Channels : c = Current(w)
  BY CurrentTyped DEF MarkDone
<1>2. delivery[c] \in Rows /\ delivery[c].attempts \in 0..(MaxAttempts + 1) /\ RowHolds(c)
  BY RowFacts
<1>3. UNCHANGED <<enabled, queue, accepted, notified, health, sweep, parks, faults>>
  BY DEF MarkDone
<1>4. /\ RowMoves(c) /\ RowHolds(c)' /\ delivery'[c].status # "none"
      /\ delivery'[c].attempts >= delivery[c].attempts
  <2>1. CASE worker[w].result = "sent" /\ MarkSuccess(c)
    <3> DEFINE new == [delivery[c] EXCEPT !.status = "sent", !.id = TRUE]
    <3>1. new \in Rows /\ new.status = "sent" /\ new.attempts = delivery[c].attempts
      <4>1. TRUE \in BOOLEAN /\ "sent" \in Statuses
        BY DEF Statuses
      <4> QED
        BY <1>2, <4>1 DEF Rows
    <3>2. SetRow(c, new)
      BY <2>1 DEF MarkSuccess
    <3> HIDE DEF new
    <3>3. RowMoves(c) /\ delivery'[c] = new
      BY <3>1, <3>2, RowWritten
    <3>4. c \in accepted'
      BY <1>1, <1>3, <2>1 DEF IInv, WorkerHolds, MarkDone
    <3> QED
      BY <1>2, <3>1, <3>3, <3>4 DEF RowHolds
  <2>2. CASE UpdateDeliveryStatus(c, "skipped")
    <3>1. /\ RowMoves(c) /\ delivery'[c].status = "skipped" /\ delivery'[c].id = delivery[c].id
          /\ delivery'[c].attempts = Counted(delivery[c].attempts)
      BY <2>2, StatusWritten DEF Statuses
    <3> QED
      BY <1>2, <1>3, <3>1, RowFacts DEF RowHolds
  <2>3. CASE MarkDeferred(c)
    <3> DEFINE new == [delivery[c] EXCEPT !.status = "deferred"]
    <3>1. /\ new \in Rows /\ new.status = "deferred" /\ new.attempts = delivery[c].attempts
          /\ new.id = delivery[c].id
      BY <1>2 DEF Rows, Statuses
    <3>2. SetRow(c, new)
      BY <2>3 DEF MarkDeferred
    <3> HIDE DEF new
    <3>3. RowMoves(c) /\ delivery'[c] = new
      BY <3>1, <3>2, RowWritten
    <3> QED
      BY <1>2, <1>3, <3>1, <3>3 DEF RowHolds
  <2> QED
    BY <1>1, <2>1, <2>2, <2>3 DEF MarkDone
<1>5. WorkerMoves(w) /\ WorkerHolds(w)'
  BY AdvanceSteps DEF MarkDone
<1>6. Tables'
  BY <1>3, <1>4, TablesTyped DEF Tables, RowMoves
<1> QED
  BY <1>3, <1>4, <1>5, <1>6, RowPreserves DEF WorkerMoves

LEMMA QueueGrows ==
  ASSUME IInv, NEW r \in 0..MaxAttempts, queue' = [queue EXCEPT ![r] = @ + 1]
  PROVE  queue' \in [0..MaxAttempts -> Nat]
<1>1. queue \in [0..MaxAttempts -> Nat]
  BY DEF IInv, TypeOK
<1> QED
  BY <1>1

LEMMA HandleRetryPreserves ==
  ASSUME IInv, NEW w \in Workers, HandleRetry(w)
  PROVE  Good
<1>1. UNCHANGED <<enabled, delivery, accepted, notified, health, sweep, parks, faults>>
  BY DEF HandleRetry
<1>2. worker[w].at = "result" /\ worker[w].retry \in 0..MaxAttempts
  BY Types DEF HandleRetry, WorkerRows
<1>3. CASE worker[w].retry < MaxAttempts /\ Publish(worker[w].retry) /\ Advance(w)
  <2>1. queue' \in [0..MaxAttempts -> Nat]
    <3>1. worker[w].retry + 1 \in 0..MaxAttempts
      BY <1>2, <1>3, DeliveryAssumption
    <3> QED
      BY <1>3, <3>1, QueueGrows DEF Publish
  <2>2. WorkerMoves(w) /\ WorkerHolds(w)'
    BY <1>2, <1>3, AdvanceSteps
  <2>3. Tables'
    BY <1>1, <2>1, TablesTyped DEF Tables
  <2> QED
    BY <1>1, <2>2, <2>3, QuietPreserves DEF WorkerMoves
<1>4. CASE Goto(w, "result", "permanent") /\ UNCHANGED queue
  <2>1. PICK c \in Channels : c = Current(w) /\ worker[w].todo # {}
    BY <1>2, CurrentTyped
  <2>2. /\ WorkerMoves(w) /\ worker'[w].at = "result" /\ worker'[w].result = "permanent"
        /\ worker'[w].todo = worker[w].todo /\ Current(w)' = c
    BY <1>4, <2>1, GotoSteps DEF Results
  <2>3. delivery'[c].status # "none"
    BY <1>1, <1>2, <2>1 DEF IInv, WorkerHolds
  <2>4. WorkerHolds(w)'
    BY <2>1, <2>2, <2>3 DEF WorkerHolds, Results
  <2>5. Tables'
    BY <1>1, <1>4, TablesTyped DEF Tables
  <2> QED
    BY <1>1, <2>2, <2>4, <2>5, QuietPreserves DEF WorkerMoves
<1> QED
  BY <1>3, <1>4 DEF HandleRetry

LEMMA HandleFailurePreserves ==
  ASSUME IInv, NEW w \in Workers, HandleFailure(w)
  PROVE  Good
<1>1. UNCHANGED <<enabled, delivery, queue, accepted, notified, health, sweep, parks, faults>>
  BY DEF HandleFailure
<1>2. PICK c \in Channels : c = Current(w) /\ worker[w].todo # {}
  BY CurrentTyped DEF HandleFailure
<1>3. PICK at \in {"mark", "markOnly"}, result \in {"retrying", "failed"} :
        /\ Goto(w, at, result)
        /\ result = "failed" => ~ (delivery[c].attempts < MaxAttempts)
  BY <1>2 DEF HandleFailure
<1>4. /\ WorkerMoves(w) /\ worker'[w].at = at /\ worker'[w].result = result
      /\ worker'[w].todo = worker[w].todo /\ Current(w)' = c
  BY <1>2, <1>3, GotoSteps
<1>5. delivery'[c].status # "none"
  BY <1>1, <1>2 DEF IInv, WorkerHolds, HandleFailure
<1>6. result = "failed" => delivery'[c].attempts >= MaxAttempts
  BY <1>1, <1>3, RowFacts, DeliveryAssumption
<1>7. WorkerHolds(w)'
  BY <1>2, <1>3, <1>4, <1>5, <1>6 DEF WorkerHolds
<1>8. Tables'
  BY <1>1, TablesTyped DEF Tables
<1> QED
  BY <1>1, <1>4, <1>7, <1>8, QuietPreserves DEF WorkerMoves
LEMMA MarkFailurePreserves ==
  ASSUME IInv, NEW w \in Workers, MarkFailure(w)
  PROVE  Good
<1>1. PICK c \in Channels : c = Current(w) /\ worker[w].todo # {}
  BY CurrentTyped DEF MarkFailure
<1>2. UNCHANGED <<enabled, queue, accepted, notified, health, sweep, parks, faults>>
  BY DEF MarkFailure
<1>3. PICK status \in {"retrying", "failed"} :
        /\ UpdateDeliveryStatus(c, status)
        /\ status = "failed" => delivery[c].attempts >= MaxAttempts
  BY <1>1 DEF MarkFailure, IInv, WorkerHolds
<1>4. /\ RowMoves(c) /\ delivery'[c].status = status /\ delivery'[c].id = delivery[c].id
      /\ delivery'[c].attempts = Counted(delivery[c].attempts)
  BY <1>3, StatusWritten DEF Statuses
<1>5. /\ RowHolds(c)' /\ delivery'[c].status # "none" /\ delivery'[c].attempts >= delivery[c].attempts
  BY <1>2, <1>3, <1>4, RowFacts DEF RowHolds
<1>6. WorkerMoves(w) /\ WorkerHolds(w)'
  <2>1. CASE Goto(w, "check", "none")
    <3>1. /\ WorkerMoves(w) /\ worker'[w].at = "check" /\ worker'[w].todo = worker[w].todo
          /\ Current(w)' = c
      BY <1>1, <2>1, GotoSteps
    <3> QED
      BY <1>1, <1>5, <3>1 DEF WorkerHolds
  <2>2. CASE Advance(w)
    BY <2>2, AdvanceSteps DEF MarkFailure
  <2> QED
    BY <2>1, <2>2 DEF MarkFailure
<1>7. Tables'
  BY <1>2, <1>4, TablesTyped DEF Tables, RowMoves
<1> QED
  BY <1>2, <1>4, <1>5, <1>6, <1>7, RowPreserves DEF WorkerMoves

\* The row of the channel that is looked at exists, so if all have failed it has.
LEMMA CheckAggregatePreserves ==
  ASSUME IInv, NEW w \in Workers, CheckAggregate(w)
  PROVE  Good
<1>1. UNCHANGED <<enabled, delivery, queue, accepted, notified, health, sweep, parks, faults>>
  BY DEF CheckAggregate
<1>2. CASE AllFailed /\ Goto(w, "reset", "none")
  <2>1. PICK c \in Channels : c = Current(w) /\ worker[w].todo # {}
    BY CurrentTyped DEF CheckAggregate
  <2>2. /\ WorkerMoves(w) /\ worker'[w].at = "reset" /\ worker'[w].todo = worker[w].todo
        /\ Current(w)' = c
    BY <1>2, <2>1, GotoSteps
  <2>3. delivery[c].status # "none"
    BY <2>1 DEF IInv, WorkerHolds, CheckAggregate
  <2>4. delivery'[c].attempts > MaxAttempts /\ delivery'[c].status # "none"
    BY <1>1, <1>2, <2>3, RowFacts DEF AllFailed, RowHolds
  <2>5. WorkerHolds(w)'
    BY <2>1, <2>2, <2>4 DEF WorkerHolds
  <2>6. Tables'
    BY <1>1, TablesTyped DEF Tables
  <2> QED
    BY <1>1, <2>2, <2>5, <2>6, QuietPreserves DEF WorkerMoves
<1>3. CASE Advance(w)
  <2>1. WorkerMoves(w) /\ WorkerHolds(w)'
    BY <1>3, AdvanceSteps DEF CheckAggregate
  <2>2. Tables'
    BY <1>1, TablesTyped DEF Tables
  <2> QED
    BY <1>1, <2>1, <2>2, QuietPreserves DEF WorkerMoves
<1> QED
  BY <1>2, <1>3 DEF CheckAggregate

LEMMA ResetNotificationStatePreserves ==
  ASSUME IInv, NEW w \in Workers, ResetNotificationState(w)
  PROVE  Good
<1>1. UNCHANGED <<enabled, delivery, queue, accepted, health, sweep, parks, faults>> /\ notified' = FALSE
  BY DEF ResetNotificationState
<1>2. PICK c \in Channels : c = Current(w)
  BY CurrentTyped DEF ResetNotificationState
<1>3. delivery[c].attempts > MaxAttempts
  BY <1>2 DEF IInv, WorkerHolds, ResetNotificationState
<1>4. WorkerMoves(w) /\ WorkerHolds(w)'
  BY AdvanceSteps DEF ResetNotificationState
<1>5. Tables'
  BY <1>1, TablesTyped DEF Tables
<1>6. Lasting /\ \A d \in Channels : delivery'[d] = delivery[d] \/ RowHolds(d)'
  BY <1>1, RowsAlone
<1>7. IInv'
  BY <1>4, <1>5, <1>6, StepPreserves DEF WorkerMoves
<1> QED
  BY <1>3, <1>7 DEF Good, ResetIsEarned

LEMMA WorkerStepPreserves ==
  ASSUME IInv, NEW w \in Workers, WorkerStep(w)
  PROVE  Good
<1>1. CASE ReceiveEmail(w) \/ ReceiveWebhook(w)
  BY <1>1, TakePreserves DEF ReceiveEmail, ReceiveWebhook
<1>2. CASE Attempt(w) \/ CallEmail(w) \/ CallWebhook(w) \/ CallImpossible(w)
  BY <1>2, AttemptPreserves, CallPreserves
<1>3. CASE MarkDone(w) \/ HandleRetry(w) \/ HandleFailure(w)
  BY <1>3, MarkDonePreserves, HandleRetryPreserves, HandleFailurePreserves
<1>4. CASE MarkFailure(w) \/ CheckAggregate(w) \/ ResetNotificationState(w)
  BY <1>4, MarkFailurePreserves, CheckAggregatePreserves, ResetNotificationStatePreserves
<1> QED
  BY <1>1, <1>2, <1>3, <1>4 DEF WorkerStep

-----------------------------------------------------------------------------
(* The requeue job, the resume of the WatchPoint, bounces, and faults.      *)

LEMMA ResetDeliveryToPendingPreserves ==
  ASSUME IInv, NEW c \in Channels, ResetDeliveryToPending(c)
  PROVE  Good
<1>1. delivery[c] \in Rows /\ delivery[c].attempts \in 0..(MaxAttempts + 1) /\ RowHolds(c)
  BY RowFacts
<1>2. UNCHANGED <<enabled, queue, worker, accepted, notified, health, parks, faults>> /\ sweep' = {c}
  BY DEF ResetDeliveryToPending
<1> DEFINE new == [delivery[c] EXCEPT !.status = "pending"]
<1>3. /\ new \in Rows /\ new.status = "pending" /\ new.attempts = delivery[c].attempts
      /\ new.id = delivery[c].id
  BY <1>1 DEF Rows, Statuses
<1>4. SetRow(c, new)
  BY DEF ResetDeliveryToPending
<1> HIDE DEF new
<1>5. RowMoves(c) /\ delivery'[c] = new
  BY <1>3, <1>4, RowWritten
<1>6. /\ RowHolds(c)' /\ delivery'[c].status # "none" /\ delivery'[c].attempts >= delivery[c].attempts
  BY <1>1, <1>2, <1>3, <1>5 DEF RowHolds
<1>7. Tables' /\ worker' \in [Workers -> WorkerRows]
  BY <1>2, <1>5, TablesTyped, Types DEF Tables, RowMoves
<1> QED
  BY <1>2, <1>5, <1>6, <1>7, RowPreserves

\* The workers and the rows are left alone, and the messages become at most more.
LEMMA SweepPreserves ==
  ASSUME IInv, PublishNotification \/ RequeueFails
  PROVE  Good
<1>1. UNCHANGED <<enabled, delivery, worker, accepted, notified, health, parks>> /\ sweep' = {}
  BY DEF PublishNotification, RequeueFails
<1>2. queue' \in [0..MaxAttempts -> Nat]
  <2>1. 0 \in 0..MaxAttempts /\ queue \in [0..MaxAttempts -> Nat]
    BY DeliveryAssumption DEF IInv, TypeOK
  <2> QED
    BY <2>1, QueueGrows DEF PublishNotification, RequeueFails
<1>3. faults' \in 0..MaxFaults
  BY DeliveryAssumption DEF IInv, TypeOK, PublishNotification, RequeueFails, Fault
<1>4. Tables' /\ worker' \in [Workers -> WorkerRows]
  BY <1>1, <1>2, <1>3, TablesTyped, Types DEF Tables
<1> QED
  BY <1>1, <1>4, QuietPreserves
LEMMA CancelDeferredPreserves ==
  ASSUME IInv, CancelDeferred
  PROVE  Good
<1>1. UNCHANGED <<enabled, queue, worker, accepted, notified, health, sweep, parks, faults>>
  BY DEF CancelDeferred
<1>2. ASSUME NEW c \in Channels
      PROVE  /\ delivery'[c] \in Rows /\ RowHolds(c)'
             /\ delivery[c].status # "none" => delivery'[c].status # "none"
             /\ delivery'[c].attempts >= delivery[c].attempts
  <2>1. delivery[c] \in Rows /\ delivery[c].attempts \in 0..(MaxAttempts + 1) /\ RowHolds(c)
    BY RowFacts
  <2>2. CASE delivery[c].status = "deferred"
    <3> DEFINE new == [delivery[c] EXCEPT !.status = "skipped"]
    <3>1. /\ new \in Rows /\ new.status = "skipped" /\ new.attempts = delivery[c].attempts
          /\ new.id = delivery[c].id
      BY <2>1 DEF Rows, Statuses
    <3>2. delivery'[c] = new
      BY <2>2 DEF CancelDeferred
    <3> HIDE DEF new
    <3> QED
      BY <1>1, <2>1, <3>1, <3>2 DEF RowHolds
  <2>3. CASE delivery[c].status # "deferred"
    <3>1. delivery'[c] = delivery[c]
      BY <2>3 DEF CancelDeferred
    <3> QED
      BY <1>1, <2>1, <3>1 DEF RowHolds
  <2> QED
    BY <2>2, <2>3
<1>3. delivery' \in [Channels -> Rows]
  <2>1. delivery' = [c \in Channels |-> delivery'[c]]
    BY DEF CancelDeferred
  <2> QED
    BY <1>2, <2>1
<1>4. Tables' /\ worker' \in [Workers -> WorkerRows]
  BY <1>1, <1>3, TablesTyped, Types DEF Tables
<1>5. Lasting
  BY <1>1, <1>2 DEF Lasting
<1>6. IInv'
  BY <1>1, <1>2, <1>4, <1>5, StepPreserves
<1> QED
  BY <1>1, <1>6 DEF Good, ResetIsEarned

HealthRows == [failures : 0..MaxBounceFailures, enabled : BOOLEAN]

LEMMA ReportedTyped ==
  ASSUME NEW channel \in HealthRows, NEW event
  PROVE  Reported(channel, event) \in HealthRows
<1> PICK failures : failures = (IF event = "complaint" \/ channel.failures = MaxBounceFailures
                               THEN channel.failures ELSE channel.failures + 1)
  OBVIOUS
<1> PICK still \in BOOLEAN :
      still = (channel.enabled /\ event # "complaint" /\ failures < MaxBounceFailures)
  OBVIOUS
<1>1. failures \in 0..MaxBounceFailures
  BY DeliveryAssumption DEF HealthRows
<1>2. Reported(channel, event) = [failures |-> failures, enabled |-> still]
  BY DEF Reported
<1> QED
  BY <1>1, <1>2 DEF HealthRows

\* A report is about a row with the provider's id, which endpoints have accepted.
LEMMA BouncePreserves ==
  ASSUME IInv, NEW c \in EmailChannels, Bounce(c)
  PROVE  Good
<1>1. UNCHANGED <<enabled, queue, worker, accepted, notified, sweep, parks, faults>> /\ delivery[c].id
  BY DEF Bounce
<1>2. c \in Channels
  BY DEF Channels
<1>3. delivery[c] \in Rows /\ delivery[c].attempts \in 0..(MaxAttempts + 1) /\ RowHolds(c)
  BY <1>2, RowFacts
<1>4. health' \in [EmailChannels -> HealthRows]
  <2>1. health \in [EmailChannels -> HealthRows]
    BY DEF IInv, TypeOK, HealthRows
  <2>2. PICK event : health' = [health EXCEPT ![c] = Reported(health[c], event)]
    BY DEF Bounce
  <2>3. Reported(health[c], event) \in HealthRows
    BY <2>1, ReportedTyped
  <2> QED
    BY <2>1, <2>2, <2>3
<1> DEFINE new == [delivery[c] EXCEPT !.status = "bounced"]
<1>5. /\ new \in Rows /\ new.status = "bounced" /\ new.attempts = delivery[c].attempts
  BY <1>3 DEF Rows, Statuses
<1>6. SetRow(c, new)
  BY DEF Bounce
<1> HIDE DEF new
<1>7. RowMoves(c) /\ delivery'[c] = new
  BY <1>2, <1>5, <1>6, RowWritten
<1>8. /\ RowHolds(c)' /\ delivery'[c].status # "none" /\ delivery'[c].attempts >= delivery[c].attempts
  BY <1>1, <1>3, <1>5, <1>7 DEF RowHolds
<1>9. Tables' /\ worker' \in [Workers -> WorkerRows]
  BY <1>1, <1>4, <1>7, TablesTyped, Types DEF Tables, RowMoves, HealthRows
<1> QED
  BY <1>1, <1>2, <1>7, <1>8, <1>9, RowPreserves

LEMMA FaultTyped ==
  ASSUME IInv, Fault
  PROVE  faults' \in 0..MaxFaults
  BY DeliveryAssumption DEF IInv, TypeOK, Fault

LEMMA CrashPreserves ==
  ASSUME IInv, NEW w \in Workers, Crash(w) \/ Redeliver(w)
  PROVE  Good
<1>1. UNCHANGED <<enabled, delivery, accepted, notified, health, sweep, parks>>
  BY DEF Crash, Redeliver
<1>2. queue' \in [0..MaxAttempts -> Nat]
  <2>1. worker[w].retry \in 0..MaxAttempts
    BY Types DEF WorkerRows
  <2> QED
    BY <2>1, QueueGrows DEF Crash, Redeliver
<1>3. faults' \in 0..MaxFaults
  BY FaultTyped DEF Crash, Redeliver
<1>4. Tables'
  BY <1>1, <1>2, <1>3, TablesTyped DEF Tables
<1>5. CASE UNCHANGED worker
  BY <1>1, <1>4, <1>5, Types, QuietPreserves
<1>6. CASE worker' = [worker EXCEPT ![w] = Idle]
  <2>1. WorkerMoves(w) /\ worker'[w] = Idle
    BY <1>6, IdleTyped, WorkerWritten
  <2>2. WorkerHolds(w)'
    BY <2>1, IdleTyped DEF WorkerHolds
  <2> QED
    BY <1>1, <1>4, <2>1, <2>2, QuietPreserves DEF WorkerMoves
<1> QED
  BY <1>5, <1>6 DEF Crash, Redeliver

LEMMA StepFailsPreserves ==
  ASSUME IInv, NEW w \in Workers, StepFails(w)
  PROVE  Good
<1>1. UNCHANGED <<enabled, queue, accepted, notified, health, sweep, parks>> /\ faults' \in 0..MaxFaults
  BY FaultTyped DEF StepFails
<1>2. WorkerMoves(w) /\ WorkerHolds(w)'
  BY AdvanceSteps DEF StepFails
<1>3. CASE UNCHANGED delivery
  <2>1. Tables'
    BY <1>1, <1>3, TablesTyped DEF Tables
  <2> QED
    BY <1>1, <1>2, <1>3, <2>1, QuietPreserves DEF WorkerMoves
<1>4. CASE worker[w].at = "attempt" /\ SetRow(Current(w), EnsureDeliveryExists(Current(w)))
  <2>1. PICK c \in Channels : c = Current(w)
    BY <1>4, CurrentTyped
  <2>2. delivery[c] \in Rows /\ delivery[c].attempts \in 0..(MaxAttempts + 1) /\ RowHolds(c)
    BY RowFacts
  <2> PICK row : row = EnsureDeliveryExists(c)
    OBVIOUS
  <2>3. /\ row \in Rows /\ row.status # "none" /\ row.attempts = delivery[c].attempts
        /\ row.id = delivery[c].id /\ (row.status # "pending" => row.status = delivery[c].status)
    BY <2>2 DEF EnsureDeliveryExists, Rows, Statuses
  <2>4. RowMoves(c) /\ delivery'[c] = row
    BY <1>4, <2>1, <2>3, RowWritten
  <2>5. /\ RowHolds(c)' /\ delivery'[c].status # "none"
        /\ delivery'[c].attempts >= delivery[c].attempts
    BY <1>1, <2>2, <2>3, <2>4 DEF RowHolds
  <2>6. Tables'
    BY <1>1, <2>4, TablesTyped DEF Tables, RowMoves
  <2> QED
    BY <1>1, <1>2, <2>4, <2>5, <2>6, RowPreserves DEF WorkerMoves
<1> QED
  BY <1>3, <1>4 DEF StepFails

-----------------------------------------------------------------------------
(* The theorems.                                                            *)

LEMMA InitHolds == Init => IInv
<1> SUFFICES ASSUME Init PROVE IInv
  OBVIOUS
<1>1. delivery = [c \in Channels |-> [status |-> "none", attempts |-> 0, id |-> FALSE]]
  BY DEF Init
<1>2. delivery \in [Channels -> Rows]
  <2>1. 0 \in 0..(MaxAttempts + 1) /\ FALSE \in BOOLEAN
    BY DeliveryAssumption
  <2> QED
    BY <1>1, <2>1 DEF Rows, Statuses
<1>3. worker = [w \in Workers |-> Idle] /\ worker \in [Workers -> WorkerRows]
  BY IdleTyped DEF Init
<1>4. queue \in [0..MaxAttempts -> Nat]
  BY DEF Init
<1>5. health \in [EmailChannels -> [failures : 0..MaxBounceFailures, enabled : BOOLEAN]]
  <2>1. MaxBounceFailures - 1 \in 0..MaxBounceFailures /\ TRUE \in BOOLEAN
    BY DeliveryAssumption
  <2> QED
    BY <2>1 DEF Init
<1>6. TypeOK
  BY <1>2, <1>3, <1>4, <1>5, DeliveryAssumption DEF Init, TypeOK, Rows, WorkerRows
<1>7. \A w \in Workers : WorkerHolds(w)
  BY <1>3, IdleTyped DEF WorkerHolds
<1>8. \A c \in Channels : RowHolds(c)
  BY <1>1 DEF RowHolds
<1> QED
  BY <1>6, <1>7, <1>8 DEF IInv

LEMMA NextPreserves ==
  ASSUME IInv, Next
  PROVE  Good
<1>1. ASSUME NEW w \in Workers, WorkerStep(w) \/ Crash(w) \/ StepFails(w) \/ Redeliver(w)
      PROVE  Good
  BY <1>1, WorkerStepPreserves, CrashPreserves, StepFailsPreserves
<1>2. CASE Requeue \/ RequeueFails
  BY <1>2, SweepPreserves, ResetDeliveryToPendingPreserves DEF Requeue
<1>3. CASE CancelDeferred
  BY <1>3, CancelDeferredPreserves
<1>4. ASSUME NEW c \in EmailChannels, Bounce(c)
      PROVE  Good
  BY <1>4, BouncePreserves
<1> QED
  BY <1>1, <1>2, <1>3, <1>4 DEF Next

LEMMA StutterPreserves ==
  ASSUME IInv, UNCHANGED vars
  PROVE  Good
<1>1. Tables' /\ worker' \in [Workers -> WorkerRows]
  BY TablesTyped, Types DEF vars, Tables
<1> QED
  BY <1>1, QuietPreserves DEF vars

\* The inductive invariant of the delivery rows and the workers, for every number of
\* either: what each status presupposes, and what a worker knows of the row it holds.
THEOREM InvariantHolds == Spec => []IInv
<1>1. IInv /\ [Next]_vars => IInv'
  BY NextPreserves, StutterPreserves DEF Good
<1> QED
  BY <1>1, InitHolds, PTL DEF Spec

\* The rows of notification_deliveries: types, and the bound on the attempts; a row says
\* "sent" only if the endpoint accepted, and "failed" only after all its attempts.
THEOREM RowsTellTheTruth == Spec => []Consistent
<1>1. IInv => Consistent
  BY DEF IInv, Consistent, StatusIsEarned, RowHolds
<1> QED
  BY <1>1, InvariantHolds, PTL

\* ResetNotificationState: the evaluator is told to alert again only after some channel
\* has used up its attempts, although the check and the reset are two statements.
THEOREM ResetsAreEarned == Spec => ResetAfterExhaustion
<1>1. IInv /\ [Next]_vars =>
        [notified' # notified => \E c \in Channels : delivery[c].attempts > MaxAttempts]_vars
  BY NextPreserves, StutterPreserves DEF Good, ResetIsEarned
<1> QED
  BY <1>1, InvariantHolds, PTL DEF Spec, ResetAfterExhaustion

-----------------------------------------------------------------------------
(* Times, for every hour of every week.                                     *)

LEMMA HoursOfDays ==
  ASSUME NEW t \in Nat
  PROVE  \E d \in Nat, h \in 0 .. Day - 1 : t = Day * d + h
<1>1. /\ t \div 24 \in Nat /\ t % 24 \in 0 .. 23 /\ t = 24 * (t \div 24) + (t % 24)
  OBVIOUS
<1> QED
  BY <1>1 DEF Day

LEMMA DayAndHour ==
  ASSUME NEW d \in Nat, NEW h \in 0 .. Day - 1
  PROVE  TimeOfDay(Day * d + h) = h /\ Midnight(Day * d + h) = Day * d
<1>1. (24 * d + h) % 24 = h /\ (24 * d + h) \div 24 = d
  BY DEF Day
<1> QED
  BY <1>1 DEF TimeOfDay, Midnight, Day

\* Quiet periods (policy engine): what falls into one is let go within a day, at the very
\* end of the period, also if the period runs over midnight.
THEOREM QuietPeriodsEnd ==
  ASSUME NEW p \in Periods, NEW t \in Nat, InQuietPeriod(p, t)
  PROVE  /\ ResumeAt(p, t) > t /\ ResumeAt(p, t) <= t + Day
         /\ \A s \in t .. ResumeAt(p, t) - 1 : InQuietPeriod(p, s)
         /\ ~InQuietPeriod(p, ResumeAt(p, t))
<1>1. p.start \in 0 .. Day - 1 /\ p.end \in 0 .. Day - 1
  BY DEF Periods
<1>2. PICK d \in Nat, h \in 0 .. Day - 1 : t = Day * d + h
  BY HoursOfDays
<1>3. TimeOfDay(t) = h /\ Midnight(t) = Day * d
  BY <1>2, DayAndHour
<1>4. PICK e \in {d, d + 1} :
        /\ ResumeAt(p, t) = Day * e + p.end
        /\ e = d + 1 <=> p.start > p.end /\ h >= p.start
  BY <1>1, <1>3 DEF ResumeAt, Day
<1>5. e \in Nat /\ TimeOfDay(ResumeAt(p, t)) = p.end
  BY <1>1, <1>4, DayAndHour
<1>6. IF p.start <= p.end THEN h \in p.start .. p.end - 1 ELSE h \notin p.end .. p.start - 1
  BY <1>3 DEF InQuietPeriod
<1>7. ResumeAt(p, t) > t /\ ResumeAt(p, t) <= t + Day /\ ResumeAt(p, t) \in Nat
  BY <1>1, <1>2, <1>4, <1>5, <1>6 DEF Day
<1>8. ASSUME NEW s \in t .. ResumeAt(p, t) - 1
      PROVE  InQuietPeriod(p, s)
  <2>1. s \in Nat
    BY <1>7
  <2>2. PICK f \in Nat, g \in 0 .. Day - 1 : s = Day * f + g
    BY <2>1, HoursOfDays
  <2>3. TimeOfDay(s) = g
    BY <2>2, DayAndHour
  <2>4. IF p.start <= p.end THEN g \in p.start .. p.end - 1 ELSE g \notin p.end .. p.start - 1
    BY <1>1, <1>2, <1>4, <1>5, <1>6, <2>2 DEF Day
  <2> QED
    BY <2>3, <2>4 DEF InQuietPeriod
<1>9. ~InQuietPeriod(p, ResumeAt(p, t))
  BY <1>1, <1>4, <1>5, <1>6 DEF InQuietPeriod, Day
<1> QED
  BY <1>7, <1>8, <1>9

(* A set of numbers has a least one.                                       *)
LEMMA LeastNumber ==
  ASSUME NEW T \in SUBSET Nat, T # {}
  PROVE  Min(T) \in T /\ \A y \in T : Min(T) <= y
<1> DEFINE R == OpToRel(<, Nat)
<1>1. IsWellFoundedOn(R, Nat)
  BY NatLessThanWellFounded
<1> HIDE DEF R
<1>2. PICK x \in T : \A y \in T : ~(<<y, x>> \in R)
  BY <1>1, WFMin
<1>3. \A y \in T : ~(y < x)
  BY <1>2 DEF R, OpToRel
<1>4. \A y \in T : x <= y
  BY <1>3
<1> QED
  BY <1>4 DEF Min

(* Quiet hours (policy engine): of a schedule of any length the first       *)
(* period that a notification falls into decides, and without one it goes   *)
(* at once.                                                                 *)
THEOREM FirstPeriodDecides ==
  ASSUME NEW schedule \in Seq(Periods), NEW t \in Nat
  PROVE  LET quiet(i) == DayMatches(schedule[i], t) /\ InQuietPeriod(schedule[i], t)
         IN  \/ /\ \A i \in DOMAIN schedule : ~quiet(i)
                /\ QuietHours(schedule, t) = Immediately
             \/ \E i \in DOMAIN schedule :
                  /\ quiet(i) /\ \A j \in 1 .. i - 1 : ~quiet(j)
                  /\ QuietHours(schedule, t) = ResumeAt(schedule[i], t)
                  /\ QuietHours(schedule, t) > t /\ QuietHours(schedule, t) <= t + Day
<1> DEFINE Quiet(i) == DayMatches(schedule[i], t) /\ InQuietPeriod(schedule[i], t)
           Q == {i \in DOMAIN schedule : Quiet(i)}
<1>1. DOMAIN schedule = 1 .. Len(schedule) /\ Len(schedule) \in Nat
      /\ \A i \in DOMAIN schedule : schedule[i] \in Periods
  OBVIOUS
<1>2. QuietHours(schedule, t) = IF Q = {} THEN Immediately ELSE ResumeAt(schedule[Min(Q)], t)
  BY DEF QuietHours
<1>3. CASE Q = {}
  BY <1>2, <1>3
<1>4. CASE Q # {}
  <2>1. Q \in SUBSET Nat
    BY <1>1
  <2>2. Min(Q) \in Q /\ \A j \in Q : Min(Q) <= j
    BY <2>1, <1>4, LeastNumber
  <2> DEFINE i == Min(Q)
  <2>3. i \in DOMAIN schedule /\ Quiet(i) /\ i \in Nat
    BY <1>1, <2>2
  <2>7. \A j \in Q : i <= j
    BY <2>2
  <2> HIDE DEF i
  <2>4. \A j \in 1 .. i - 1 : ~Quiet(j)
    <3> SUFFICES ASSUME NEW j \in 1 .. i - 1, Quiet(j) PROVE FALSE
      OBVIOUS
    <3>1. j \in Q
      BY <1>1, <2>3
    <3> QED
      BY <2>3, <2>7, <3>1
  <2>5. QuietHours(schedule, t) = ResumeAt(schedule[i], t)
    BY <1>2, <1>4 DEF i
  <2>6. ResumeAt(schedule[i], t) > t /\ ResumeAt(schedule[i], t) <= t + Day
    BY <1>1, <2>3, QuietPeriodsEnd
  <2> QED
    BY <2>3, <2>4, <2>5, <2>6
<1> QED
  BY <1>3, <1>4

\* Digests (nextDigestTime): the next one is at the wanted hour, and the one after it a
\* day or a week later, even if the job runs late by less than a day.
THEOREM DigestsKeepTheirHour ==
  ASSUME NEW time \in 0 .. Day - 1, NEW now \in Nat, NEW late \in 0 .. Day - 1,
         NEW f \in {"daily", "weekly"}
  PROVE  /\ NextDigestRun(now, time, f) > now /\ TimeOfDay(NextDigestRun(now, time, f)) = time
         /\ NextDigestRun(NextDigestRun(now, time, f) + late, time, f)
              = NextDigestRun(now, time, f) + (IF f = "weekly" THEN 7 * Day ELSE Day)
<1>1. ASSUME NEW t \in Nat
      PROVE  \E e \in Nat : NextDayAtTime(t, time) = Day * e + time /\ Day * e + time > t
  <2>1. PICK d \in Nat, h \in 0 .. Day - 1 : t = Day * d + h
    BY HoursOfDays
  <2>2. Midnight(t) = Day * d
    BY <2>1, DayAndHour
  <2>3. CASE Day * d + time > t
    BY <2>2, <2>3 DEF NextDayAtTime, Day
  <2>4. CASE ~ (Day * d + time > t)
    <3>1. NextDayAtTime(t, time) = Day * (d + 1) + time /\ Day * (d + 1) + time > t
      BY <2>1, <2>2, <2>4 DEF NextDayAtTime, Day
    <3> QED
      BY <3>1
  <2> QED
    BY <2>3, <2>4
<1>2. PICK e \in Nat : NextDayAtTime(now, time) = Day * e + time /\ Day * e + time > now
  BY <1>1
<1>3. PICK d \in Nat : NextDigestRun(now, time, f) = Day * d + time /\ d >= e
  <2>1. CASE f = "weekly"
    <3>1. NextDigestRun(now, time, f) = Day * (e + 6) + time
      BY <1>2, <2>1 DEF NextDigestRun, Day
    <3> QED
      BY <3>1
  <2>2. CASE f = "daily"
    BY <1>2, <2>2 DEF NextDigestRun, Day
  <2> QED
    BY <2>1, <2>2
<1>4. NextDigestRun(now, time, f) > now /\ TimeOfDay(NextDigestRun(now, time, f)) = time
  BY <1>2, <1>3, DayAndHour DEF Day
<1>5. NextDayAtTime(Day * d + time + late, time) = Day * d + time + Day
  <2>1. CASE time + late <= Day - 1
    <3>1. Midnight(Day * d + (time + late)) = Day * d
      BY <2>1, DayAndHour DEF Day
    <3> QED
      BY <3>1 DEF NextDayAtTime, Day
  <2>2. CASE time + late > Day - 1
    <3>1. PICK h \in 0 .. Day - 1 : h = time + late - Day
      BY <2>2 DEF Day
    <3>2. d + 1 \in Nat /\ Midnight(Day * (d + 1) + h) = Day * (d + 1)
      BY DayAndHour
    <3>3. Day * (d + 1) + h = Day * d + time + late
      BY <3>1 DEF Day
    <3> QED
      BY <2>2, <3>1, <3>2, <3>3 DEF NextDayAtTime, Day
  <2> QED
    BY <2>1, <2>2 DEF Day
<1>6. NextDigestRun(Day * d + time + late, time, f)
        = Day * d + time + (IF f = "weekly" THEN 7 * Day ELSE Day)
  BY <1>5 DEF NextDigestRun, Day
<1> QED
  BY <1>3, <1>4, <1>6
-----------------------------------------------------------------------------
(***************************************************************************)
(* The comparison of a digest with the one before: the changes between two *)
(* summaries are those of the way back, turned round, so as many get worse *)
(* one way as get better the other.                                        *)
(***************************************************************************)
\* Summaries of any values; the run takes them from Extremes.
Summaries == [value : [Variables -> Int], threat : BOOLEAN]

\* A change of the other comparison.
Turned(c) == <<c[1], IF c[2] = TRUE THEN FALSE ELSE TRUE>>
Changes == (Variables \cup {"threat_status"}) \X BOOLEAN

\* A change is as significant the other way.
LEMMA SignificantIsSymmetric ==
  ASSUME NEW x \in Int, NEW y \in Int, IsSignificant(x, y)
  PROVE  IsSignificant(y, x) /\ (x < y \/ y < x)
  BY DEF IsSignificant, Abs, Larger

\* Every change is a change of the way back, turned round ...
LEMMA TurnedChange ==
  ASSUME NEW a \in Summaries, NEW b \in Summaries, NEW c \in Compare(a, b)
  PROVE  c \in Changes /\ Turned(c) \in Compare(b, a)
<1>1. CASE c \in MaxValueChanges(a, b)
  <2>1. PICK v \in Variables :
          /\ IsSignificant(b.value[v], a.value[v])
          /\ c = <<v, a.value[v] > b.value[v]>>
    BY <1>1 DEF MaxValueChanges
  <2>2. PICK x \in Int, y \in Int : x = a.value[v] /\ y = b.value[v]
    BY DEF Summaries
  <2>3. IsSignificant(x, y) /\ (x < y \/ y < x)
    BY <2>1, <2>2, SignificantIsSymmetric
  <2>4. <<v, y > x>> \in MaxValueChanges(b, a)
    BY <2>2, <2>3 DEF MaxValueChanges
  <2>5. (x > y) \in BOOLEAN
    OBVIOUS
  <2>6. CASE x > y
    <3>1. (x > y) = TRUE /\ (y > x) = FALSE
      BY <2>6
    <3>2. c = <<v, TRUE>> /\ Turned(c) = <<v, FALSE>>
      BY <2>1, <2>2, <3>1 DEF Turned
    <3> QED
      BY <2>4, <3>1, <3>2 DEF Compare, Changes
  <2>7. CASE ~(x > y)
    <3>1. (x > y) = FALSE /\ (y > x) = TRUE
      BY <2>3, <2>7
    <3>2. c = <<v, FALSE>> /\ Turned(c) = <<v, TRUE>>
      BY <2>1, <2>2, <3>1 DEF Turned
    <3> QED
      BY <2>4, <3>1, <3>2 DEF Compare, Changes
  <2> QED
    BY <2>6, <2>7
<1>2. CASE c \in ThreatChanges(a, b)
  <2>1. a.threat # b.threat /\ c = <<"threat_status", a.threat>>
    BY <1>2 DEF ThreatChanges
  <2>2. a.threat \in BOOLEAN /\ b.threat \in BOOLEAN
    BY DEF Summaries
  <2>3. Turned(c) = <<"threat_status", b.threat>>
    BY <2>1, <2>2 DEF Turned
  <2>4. <<"threat_status", b.threat>> \in ThreatChanges(b, a)
    BY <2>1 DEF ThreatChanges
  <2> QED
    BY <2>1, <2>2, <2>3, <2>4 DEF Compare, Changes
<1> QED
  BY <1>1, <1>2 DEF Compare

\* ... and what gets worse gets better.
LEMMA TurnedIsWorse ==
  ASSUME NEW c \in Changes
  PROVE  /\ Worse(Turned(c)) <=> ~Worse(c)
         /\ Turned(Turned(c)) = c
<1>1. PICK n \in Variables \cup {"threat_status"}, d \in BOOLEAN : c = <<n, d>>
  BY DEF Changes
<1>2. CASE d = TRUE
  BY <1>1, <1>2 DEF Turned, Worse
<1>3. CASE d = FALSE
  BY <1>1, <1>3 DEF Turned, Worse
<1> QED
  BY <1>2, <1>3

\* There are finitely many variables.
LEMMA ChangesFinite ==
  ASSUME NEW a \in Summaries, NEW b \in Summaries
  PROVE  IsFiniteSet(Compare(a, b))
<1>1. IsFiniteSet({}) /\ IsFiniteSet(BOOLEAN)
  <2>1. IsFiniteSet({} \cup {TRUE})
    BY FS_EmptySet, FS_AddElement
  <2>2. IsFiniteSet(({} \cup {TRUE}) \cup {FALSE})
    BY <2>1, FS_AddElement
  <2>3. ({} \cup {TRUE}) \cup {FALSE} = BOOLEAN
    OBVIOUS
  <2> QED
    BY <2>2, <2>3, FS_EmptySet
<1>2. IsFiniteSet(Variables \cup {"threat_status"})
  <2>1. IsFiniteSet({} \cup {"precip_prob"})
    BY FS_EmptySet, FS_AddElement
  <2>2. IsFiniteSet(({} \cup {"precip_prob"}) \cup {"precip_mm"})
    BY <2>1, FS_AddElement
  <2>3. IsFiniteSet((({} \cup {"precip_prob"}) \cup {"precip_mm"}) \cup {"min_temp_c"})
    BY <2>2, FS_AddElement
  <2>4. IsFiniteSet(((({} \cup {"precip_prob"}) \cup {"precip_mm"}) \cup {"min_temp_c"})
                       \cup {"max_temp_c"})
    BY <2>3, FS_AddElement
  <2>5. ((({} \cup {"precip_prob"}) \cup {"precip_mm"}) \cup {"min_temp_c"}) \cup {"max_temp_c"}
          = Variables
    BY DEF Variables
  <2> QED
    BY <2>4, <2>5, FS_AddElement
<1>3. IsFiniteSet(Changes)
  BY <1>1, <1>2, FS_Product DEF Changes
<1>4. Compare(a, b) \subseteq Changes
  BY TurnedChange
<1> QED
  BY <1>3, <1>4, FS_Subset

\* Turned is a bijection.
LEMMA WorseBecomesBetter ==
  ASSUME NEW a \in Summaries, NEW b \in Summaries
  PROVE  Cardinality({c \in Compare(a, b) : Worse(c)})
           = Cardinality({c \in Compare(b, a) : ~Worse(c)})
<1> DEFINE W == {c \in Compare(a, b) : Worse(c)}
           B == {c \in Compare(b, a) : ~Worse(c)}
           f == [c \in W |-> Turned(c)]
<1>1. IsFiniteSet(W)
  BY ChangesFinite, FS_Subset
<1>2. \A c \in W : c \in Changes /\ Turned(c) \in B
  BY TurnedChange, TurnedIsWorse
<1>3. \A c \in B : c \in Changes /\ Turned(c) \in W
  BY TurnedChange, TurnedIsWorse
<1>4. f \in [W -> B]
  BY <1>2
<1>5. f \in Injection(W, B)
  <2>1. \A c, d \in W : f[c] = f[d] => c = d
    BY <1>2, TurnedIsWorse
  <2> QED
    BY <1>4, <2>1, Fun_IsInj
<1>6. f \in Surjection(W, B)
  <2>1. \A c \in B : \E d \in W : f[d] = c
    BY <1>3, TurnedIsWorse
  <2> QED
    BY <1>4, <2>1, Fun_IsSurj
<1>7. f \in Bijection(W, B)
  BY <1>5, <1>6 DEF Bijection
<1> HIDE DEF W, B, f
<1>8. ExistsBijection(W, B)
  BY <1>7 DEF ExistsBijection
<1> QED
  BY <1>1, <1>8, FS_Bijection DEF W, B

\* The direction follows from how much gets worse and how much better.
LEMMA DirectionIs ==
  ASSUME NEW changes, IsFiniteSet(changes)
  PROVE  LET w == Cardinality({c \in changes : Worse(c)})
             b == Cardinality({c \in changes : ~Worse(c)})
         IN  /\ w \in Nat /\ b \in Nat
             /\ w > b => Direction(changes) = "worsening"
             /\ b > w => Direction(changes) = "improving"
             /\ w = b => Direction(changes) = "stable"
<1> DEFINE W == {c \in changes : Worse(c)}
           B == {c \in changes : ~Worse(c)}
<1>1. W \subseteq changes /\ B = changes \ W
  OBVIOUS
<1>2. IsFiniteSet(W) /\ IsFiniteSet(B)
  BY <1>1, FS_Subset
<1>3. Cardinality(W) \in Nat /\ Cardinality(B) \in Nat /\ Cardinality(changes) \in Nat
  BY <1>2, FS_CardinalityType
<1>4. Cardinality(B) = Cardinality(changes) - Cardinality(W)
  <2>1. changes \cap W = W
    BY <1>1
  <2>2. Cardinality(changes \ W) = Cardinality(changes) - Cardinality(changes \cap W)
    BY ONLY IsFiniteSet(changes), FS_Difference
  <2> QED
    BY ONLY <1>1, <2>1, <2>2
<1> HIDE DEF W, B
<1>5. Direction(changes) =
        CASE Cardinality(W) > Cardinality(changes) - Cardinality(W) -> "worsening"
          [] Cardinality(changes) - Cardinality(W) > Cardinality(W) -> "improving"
          [] OTHER -> "stable"
  BY DEF Direction, W
<1>6. CASE Cardinality(W) > Cardinality(B)
  BY <1>3, <1>4, <1>5, <1>6 DEF W, B
<1>7. CASE Cardinality(B) > Cardinality(W)
  BY <1>3, <1>4, <1>5, <1>7 DEF W, B
<1>8. CASE Cardinality(W) = Cardinality(B)
  BY <1>3, <1>4, <1>5, <1>8 DEF W, B
<1> QED
  BY <1>3, <1>6, <1>7, <1>8 DEF W, B

\* The comparison of digests (compareDigests), for all integer values of the variables:
\* it worsens from one digest to another exactly if it improves on the way back, and a
\* digest is not suppressed as empty if there is a threat or was one in the digest before.
THEOREM ComparisonsAreFair ==
  ASSUME NEW a \in Summaries, NEW b \in Summaries
  PROVE  /\ Direction(Compare(a, b)) = "worsening" <=> Direction(Compare(b, a)) = "improving"
         /\ Direction(Compare(a, b)) = "stable" <=> Direction(Compare(b, a)) = "stable"
         /\ Suppressed(a, b, FALSE) => ~a.threat /\ ~b.threat
<1> DEFINE W(x, y) == Cardinality({c \in Compare(x, y) : Worse(c)})
           B(x, y) == Cardinality({c \in Compare(x, y) : ~Worse(c)})
<1>1. W(a, b) = B(b, a) /\ W(b, a) = B(a, b)
  BY WorseBecomesBetter
<1>2. /\ W(a, b) \in Nat /\ B(a, b) \in Nat
      /\ W(a, b) > B(a, b) => Direction(Compare(a, b)) = "worsening"
      /\ B(a, b) > W(a, b) => Direction(Compare(a, b)) = "improving"
      /\ W(a, b) = B(a, b) => Direction(Compare(a, b)) = "stable"
  BY ChangesFinite, DirectionIs
<1>3. /\ W(b, a) > B(b, a) => Direction(Compare(b, a)) = "worsening"
      /\ B(b, a) > W(b, a) => Direction(Compare(b, a)) = "improving"
      /\ W(b, a) = B(b, a) => Direction(Compare(b, a)) = "stable"
  BY ChangesFinite, DirectionIs
<1>4. Suppressed(a, b, FALSE) => ~a.threat /\ ~b.threat
  <2>1. a.threat # b.threat => Compare(a, b) # {}
    BY DEF Compare, ThreatChanges
  <2>2. a.threat \in BOOLEAN /\ b.threat \in BOOLEAN
    BY DEF Summaries
  <2> QED
    BY <2>1, <2>2 DEF Suppressed
<1> HIDE DEF W, B
<1>5. W(a, b) > B(a, b) \/ B(a, b) > W(a, b) \/ W(a, b) = B(a, b)
  BY <1>2
<1> QED
  BY <1>1, <1>2, <1>3, <1>4, <1>5
-----------------------------------------------------------------------------
(* The delays of retries, which are powers: one case for each attempt.     *)
LEMMA DelaysGrowToTheirLimit == DelaysGrow
<1> SUFFICES ASSUME NEW c \in {"webhook", "email"}, NEW a \in 0 .. RetryPolicies[c].max
             PROVE  LET p == RetryPolicies[c] IN
                      /\ CalculateNextRetry(p, a) \in p.base .. p.most
                      /\ CalculateNextRetry(p, a) <= CalculateNextRetry(p, a + 1)
  BY DEF DelaysGrow, RetryPolicies
<1>1. a \in {0, 1, 2, 3}
  BY DEF RetryPolicies
<1>2. /\ 5 ^ 0 = 1 /\ 5 ^ 1 = 5 /\ 5 ^ 2 = 25 /\ 5 ^ 3 = 125 /\ 5 ^ 4 = 625
      /\ 2 ^ 0 = 1 /\ 2 ^ 1 = 2 /\ 2 ^ 2 = 4 /\ 2 ^ 3 = 8 /\ 2 ^ 4 = 16
  OBVIOUS
<1> DEFINE p == RetryPolicies[c]
           D(n) == CalculateNextRetry(p, n)
<1>3. CASE c = "webhook"
  <2>1. p.base = 1 /\ p.most = 30 /\ p.factor = 5
    BY <1>3 DEF RetryPolicies
  <2>2. D(0) = 1 /\ D(1) = 5 /\ D(2) = 25 /\ D(3) = 30 /\ D(4) = 30
    <3> HIDE DEF p
    <3> QED
      BY <1>2, <2>1 DEF CalculateNextRetry
  <2> QED
    BY <1>1, <2>1, <2>2
<1>4. CASE c = "email"
  <2>1. p.base = 1 /\ p.most = 10 /\ p.factor = 2
    BY <1>4 DEF RetryPolicies
  <2>2. D(0) = 1 /\ D(1) = 2 /\ D(2) = 4 /\ D(3) = 8 /\ D(4) = 10
    <3> HIDE DEF p
    <3> QED
      BY <1>2, <2>1 DEF CalculateNextRetry
  <2> QED
    BY <1>1, <2>1, <2>2
<1> QED
  BY <1>3, <1>4

LEMMA QuietHoursAlwaysEnd == QuietHoursEnd
<1> SUFFICES ASSUME NEW p \in Periods, NEW t \in 0 .. 8 * Day,
                    QuietHours(<<p>>, t) # Immediately
             PROVE  /\ QuietHours(<<p>>, t) > t /\ QuietHours(<<p>>, t) <= t + Day
                    /\ \A s \in t .. QuietHours(<<p>>, t) - 1 : InQuietPeriod(p, s)
                    /\ ~InQuietPeriod(p, QuietHours(<<p>>, t))
  BY DEF QuietHoursEnd
<1>1. t \in Nat
  BY DEF Day
<1>2. <<p>> \in Seq(Periods) /\ DOMAIN <<p>> = {1} /\ <<p>>[1] = p
  OBVIOUS
<1>3. InQuietPeriod(p, t) /\ QuietHours(<<p>>, t) = ResumeAt(p, t)
  <2> DEFINE one == <<p>>
  <2> HIDE DEF one
  <2>1. one \in Seq(Periods) /\ DOMAIN one = {1} /\ one[1] = p
    BY <1>2 DEF one
  <2>2. QuietHours(one, t) # Immediately
    BY DEF one
  <2>3. PICK i \in DOMAIN one : InQuietPeriod(one[i], t) /\ QuietHours(one, t) = ResumeAt(one[i], t)
    BY <1>1, <2>1, <2>2, FirstPeriodDecides
  <2>4. i = 1
    BY <2>1
  <2> QED
    BY <2>1, <2>3, <2>4 DEF one
<1> QED
  BY <1>1, <1>3, QuietPeriodsEnd

LEMMA DigestsAlwaysKeepTime == DigestsKeepTime
<1> SUFFICES ASSUME NEW time \in 0 .. Day - 1, NEW now \in 0 .. 2 * Day,
                    NEW late \in 0 .. Day - 1, NEW f \in {"daily", "weekly"}
             PROVE  LET next == NextDigestRun(now, time, f)
                    IN  /\ next > now
                        /\ NextDigestRun(next + late, time, f)
                             = next + (IF f = "weekly" THEN 7 * Day ELSE Day)
  BY DEF DigestsKeepTime
<1>1. now \in Nat
  BY DEF Day
<1> QED
  BY <1>1, DigestsKeepTheirHour

LEMMA DirectionsOnly ==
  ASSUME NEW changes
  PROVE  Direction(changes) \in {"worsening", "improving", "stable"}
BY DEF Direction

LEMMA ComparisonIsAlwaysFair == ComparisonIsFair
<1> DEFINE S(v1, v2, v3, threat) ==
             [value |-> [precip_prob |-> 0, precip_mm |-> v1, min_temp_c |-> v2, max_temp_c |-> v3],
              threat |-> threat]
           opposite == [worsening |-> "improving", improving |-> "worsening", stable |-> "stable"]
           Fair(a, b) == /\ Direction(Compare(a, b)) = opposite[Direction(Compare(b, a))]
                         /\ Suppressed(a, b, FALSE) => ~b.threat
<1>1. \A v1, v2, v3 \in Extremes, threat \in BOOLEAN : S(v1, v2, v3, threat) \in Summaries
  BY DEF Summaries, Variables, Extremes
<1>2. ASSUME NEW a \in Summaries, NEW b \in Summaries
      PROVE  Fair(a, b)
  <2>1. /\ Direction(Compare(a, b)) = "worsening" <=> Direction(Compare(b, a)) = "improving"
        /\ Direction(Compare(a, b)) = "stable" <=> Direction(Compare(b, a)) = "stable"
        /\ Suppressed(a, b, FALSE) => ~b.threat
    BY ComparisonsAreFair
  <2>2. Direction(Compare(b, a)) = "worsening" <=> Direction(Compare(a, b)) = "improving"
    BY ComparisonsAreFair
  <2>3. /\ Direction(Compare(a, b)) \in {"worsening", "improving", "stable"}
        /\ Direction(Compare(b, a)) \in {"worsening", "improving", "stable"}
    BY DirectionsOnly
  <2>4. /\ opposite["worsening"] = "improving" /\ opposite["improving"] = "worsening"
        /\ opposite["stable"] = "stable"
    OBVIOUS
  <2> HIDE DEF opposite
  <2> QED
    BY <2>1, <2>2, <2>3, <2>4
<1>3. \A v1, v2, v3 \in Extremes, w1, w2, w3 \in Extremes, threat1, threat2 \in BOOLEAN :
        Fair(S(v1, v2, v3, threat1), S(w1, w2, w3, threat2))
  <2> HIDE DEF S, Fair
  <2> QED
    BY <1>1, <1>2
<1> QED
  BY <1>3 DEF ComparisonIsFair

(* What the run looks at once: notifications held back go at the end of the *)
(* quiet hours, digests keep their time, retries wait longer and longer up  *)
(* to a limit, and the comparison of two digests is that of the way back.   *)
THEOREM RulesAlwaysHold ==
  /\ QuietHoursEnd /\ DigestsKeepTime /\ DelaysGrow /\ ComparisonIsFair
  /\ Spec => []RulesHold
<1>1. QuietHoursEnd /\ DigestsKeepTime /\ DelaysGrow /\ ComparisonIsFair
  BY QuietHoursAlwaysEnd, DigestsAlwaysKeepTime, DelaysGrowToTheirLimit, ComparisonIsAlwaysFair
<1>2. RulesHold
  BY <1>1 DEF RulesHold
<1> QED
  BY <1>1, <1>2, PTL
=============================================================================
