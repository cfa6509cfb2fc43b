-------------------------- MODULE Requests_proofs --------------------------
(***************************************************************************)
(* What clients of the API are told is so, and the body of a request is    *)
(* executed once under an idempotency key, for every number of requests,   *)
(* keys, bodies and days.                                                  *)
(***************************************************************************)
EXTENDS Requests, FiniteSetTheorems, SequenceTheorems, TLAPS

(* What the rows hold.                                                      *)

MadeThings == Nat \cup (Requests \X Nat)
Answers    == [code : Codes, made : SUBSET MadeThings, until : Nat]

Attempts ==
  [at : Steps \ {"idle"}, key : IdempotencyKeys \cup {NoKey}, body : Bodies,
   claimed : BOOLEAN, answer : Answers, replayOf : Requests \cup {NoKey}, old : 0..Never]

KeyRows ==
  [status : {"processing", "completed", "failed"}, owner : Requests, created : 0..MaxDays,
   answer : Answers]

Rotated == {b.id : b \in {b \in Bodies : Rotation(b)}}
APIKeys ==
  [by : Requests \cup {NoKey}, created : 0..MaxDays, expires : 0..Never, revoked : BOOLEAN,
   from : {0} \cup Rotated]

Typed ==
  /\ request \in [Requests -> {Idle} \cup Attempts]
  /\ record \in [IdempotencyKeys -> {Absent} \cup KeyRows]
  /\ watchpoints \in SUBSET (Requests \X Nat)
  /\ apiKeys \in Seq(APIKeys)
  /\ day \in 0..MaxDays
  /\ undisturbed \subseteq IdempotencyKeys
  /\ \A k \in IdempotencyKeys : record[k] # Absent => record[k].created <= day

(* The steps of the handlers that may make something, and those before the answer. *)
Making    == {"checkLimit", "insertBatch", "countRecent", "getKey", "expireOld", "insertKey"}
Unclaimed == {"admit", "lookup", "claim"}
Pending   == Unclaimed \cup Making \cup {"revoke"}

Claimed(r) == request[r].claimed
Source(r)  == request[r].replayOf

(* Each step belongs to one operation.                                      *)
StepFits(r) ==
  /\ At(r, "checkLimit") \/ At(r, "insertBatch") => Body(r).op = "bulk"
  /\ At(r, "countRecent") => Body(r).op = "create"
  /\ At(r, "revoke") => Body(r).op = "revoke"
  /\ At(r, "getKey") \/ At(r, "expireOld") => Rotation(Body(r))
  /\ At(r, "insertKey") => Rotation(Body(r)) \/ Body(r).op = "create"

(* Until it answers a request has made nothing and was told nothing.        *)
NothingYet(r) ==
  /\ request[r].at \in Pending => Told(r) = "none" /\ Made(r) = {} /\ Source(r) = NoKey
  /\ request[r].at \in Unclaimed => ~Claimed(r)

(* The attempt that claimed a key owns its row as long as it runs.          *)
ClaimHolds(r) ==
  /\ At(r, "lookup") \/ At(r, "claim") \/ At(r, "save") \/ Claimed(r) => Key(r) \in IdempotencyKeys
  /\ At(r, "save") => Claimed(r)
  /\ Claimed(r) => Source(r) = NoKey
  /\ Claimed(r) /\ InFlight(r) =>
       /\ record[Key(r)] # Absent /\ record[Key(r)].owner = r
       /\ record[Key(r)].status = "processing" /\ record[Key(r)].created = day

(* What is given again is the answer of an attempt of its own, never an error. *)
ReplayHolds(r) ==
  Source(r) # NoKey =>
    /\ At(r, "answered") /\ Told(r) # "error"
    /\ At(Source(r), "answered") /\ Source(Source(r)) = NoKey
    /\ request[r].answer = request[Source(r)].answer

AnswerHolds(r) ==
  Source(r) = NoKey /\ Told(r) \in {"ok", "refused", "inProgress", "limited"} =>
    Made(r) = request[r].answer.made

(* Under a key that was not disturbed only the owner of its row makes anything. *)
OwnerMakes(r) ==
  Key(r) \in undisturbed /\ (Made(r) # {} \/ request[r].at \in Making) =>
    record[Key(r)] # Absent /\ record[Key(r)].owner = r

(* A rotation that goes on or was answered gave the old key its last day.   *)
GraceHolds(r) ==
  Rotation(Body(r)) =>
    /\ At(r, "insertKey") => Body(r).id \in DOMAIN apiKeys /\ apiKeys[Body(r).id].expires = GraceEnd
    /\ Told(r) = "ok" =>
         /\ Body(r).id \in DOMAIN apiKeys /\ request[r].answer.until <= GraceEnd
         /\ day < request[r].answer.until =>
              apiKeys[Body(r).id].expires = request[r].answer.until

AttemptHolds(r) ==
  IF Started(r)
  THEN StepFits(r) /\ NothingYet(r) /\ ClaimHolds(r) /\ ReplayHolds(r) /\ AnswerHolds(r)
         /\ OwnerMakes(r) /\ GraceHolds(r)
  ELSE Made(r) = {}

(* The response that is stored for a key is the one its owner gave.         *)
RecordHolds(k) ==
  record[k] # Absent =>
    LET owner == record[k].owner
    IN  /\ Started(owner) /\ Key(owner) = k
        /\ record[k].status = "completed" =>
             /\ At(owner, "answered") /\ Source(owner) = NoKey /\ Told(owner) # "error"
             /\ record[k].answer = request[owner].answer

OneBodyPerKey ==
  \A q, r \in Requests : Started(q) /\ Started(r) /\ Key(q) = Key(r) /\ Key(r) # NoKey => Body(q) = Body(r)

IInv ==
  /\ Typed /\ OneBodyPerKey
  /\ \A r \in Requests : AttemptHolds(r)
  /\ \A k \in IdempotencyKeys : RecordHolds(k)

-----------------------------------------------------------------------------
(* What a step of one request does to its own row of the model, ...         *)

Kept(r) ==
  /\ request' \in [Requests -> {Idle} \cup Attempts]
  /\ \A q \in Requests \ {r} : request'[q] = request[q]
  /\ request'[r] \in Attempts /\ Key(r)' = Key(r) /\ Body(r)' = Body(r)

LEMMA StartedTypes ==
  ASSUME Typed, NEW r \in Requests
  PROVE  /\ Started(r) <=> request[r] \in Attempts
         /\ Started(r) <=> request[r].at # "idle"
         /\ Started(r) => request[r].at \in Steps \ {"idle"}
  BY DEF Typed, Started, Idle, Attempts

LEMMA KeyTypes ==
  ASSUME Typed
  PROVE  \A i \in DOMAIN apiKeys : i \in Nat \ {0} /\ apiKeys[i] \in APIKeys
<1>1. apiKeys \in Seq(APIKeys)
  BY DEF Typed
<1> QED
  BY <1>1, ElementOfSeq, LenProperties

LEMMA GotoKeeps ==
  ASSUME Typed, NEW r \in Requests, Started(r), NEW step \in Steps \ {"idle"}, Goto(r, step)
  PROVE  /\ Kept(r) /\ At(r, step)' /\ request'[r].claimed = request[r].claimed
         /\ request'[r].answer = request[r].answer /\ request'[r].replayOf = request[r].replayOf
  BY StartedTypes DEF Typed, Goto, Kept, Attempts, Key, Body, At

LEMMA RespondKeeps ==
  ASSUME Typed, NEW r \in Requests, Started(r), NEW answer \in Answers, Respond(r, answer)
  PROVE  /\ Kept(r) /\ request'[r].claimed = request[r].claimed
         /\ request'[r].at = IF request[r].claimed THEN "save" ELSE "answered"
         /\ request'[r].answer = answer /\ request'[r].replayOf = request[r].replayOf
<1> DEFINE step == IF request[r].claimed THEN "save" ELSE "answered"
           new  == [request[r] EXCEPT !.at = step, !.answer = answer]
<1>1. request[r] \in Attempts /\ step \in Steps \ {"idle"}
  BY StartedTypes DEF Steps
<1>2. /\ new \in Attempts /\ new.at = step /\ new.answer = answer
      /\ new.key = Key(r) /\ new.body = Body(r) /\ new.claimed = request[r].claimed
      /\ new.replayOf = request[r].replayOf
  BY <1>1 DEF Attempts, Key, Body
<1>3. request' = [request EXCEPT ![r] = new]
  BY DEF Respond, Answered
<1> HIDE DEF new
<1>4. request'[r] = new /\ request' \in [Requests -> {Idle} \cup Attempts]
        /\ \A q \in Requests \ {r} : request'[q] = request[q]
  BY <1>2, <1>3 DEF Typed
<1> QED
  BY <1>2, <1>4 DEF Kept, Key, Body

LEMMA AnswerKeeps ==
  ASSUME Typed, NEW r \in Requests, Started(r), NEW code \in Codes, Answer(r, code)
  PROVE  /\ Kept(r) /\ request'[r].claimed = request[r].claimed
         /\ request'[r].at = IF request[r].claimed THEN "save" ELSE "answered"
         /\ request'[r].answer = [code |-> code, made |-> {}, until |-> 0]
         /\ request'[r].replayOf = request[r].replayOf
<1> DEFINE answer == [code |-> code, made |-> {}, until |-> 0]
<1>1. answer \in Answers
  BY DEF Answers
<1>2. [NoAnswer EXCEPT !.code = code] = answer
  BY DEF NoAnswer
<1>3. Respond(r, answer)
  BY <1>2 DEF Answer, Respond
<1> QED
  BY <1>1, <1>3, RespondKeeps

(* ... and what it leaves of what the others rely on.                       *)
Frame(r) ==
  /\ Started(r) /\ ~At(r, "answered") /\ Kept(r)
  /\ \A q \in Requests \ {r} : Made(q)' = Made(q)
  /\ \A k \in IdempotencyKeys : record'[k] # record[k] =>
       /\ record[k] # Absent => record[k].owner = r
       /\ record'[k] # Absent /\ record'[k].owner = r
  /\ DOMAIN apiKeys \subseteq DOMAIN apiKeys'
  /\ \A i \in DOMAIN apiKeys : apiKeys'[i].expires \in {apiKeys[i].expires, GraceEnd}
  /\ day' = day /\ undisturbed' \subseteq undisturbed

LEMMA OthersHold ==
  ASSUME IInv, Typed', NEW r \in Requests, Frame(r), NEW q \in Requests \ {r}
  PROVE  AttemptHolds(q)'
<1> USE DEF Frame, Kept
<1>1. request'[q] = request[q] /\ Made(q)' = Made(q) /\ AttemptHolds(q)
  BY DEF IInv
<1>2. CASE ~Started(q)
  BY <1>1, <1>2 DEF AttemptHolds, Started, Idle
<1>3. CASE Started(q)
  <2>1. Started(q)'
    BY <1>1, <1>3 DEF Started, Idle
  <2>2. StepFits(q)' /\ NothingYet(q)' /\ AnswerHolds(q)'
    BY <1>1, <1>3 DEF AttemptHolds, StepFits, NothingYet, AnswerHolds, At, Body, Told, Source, Claimed
  <2>3. ClaimHolds(q)'
    <3>1. ClaimHolds(q)
      BY <1>1, <1>3 DEF AttemptHolds
    <3>2. CASE Claimed(q) /\ InFlight(q)
      BY <1>1, <3>1, <3>2 DEF ClaimHolds, At, Key, Claimed, Source, InFlight
    <3>3. CASE ~(Claimed(q) /\ InFlight(q))
      BY <1>1, <3>1, <3>3 DEF ClaimHolds, At, Key, Claimed, Source, InFlight
    <3> QED
      BY <3>2, <3>3
  <2>4. ReplayHolds(q)'
    <3>1. ReplayHolds(q)
      BY <1>1, <1>3 DEF AttemptHolds
    <3>2. CASE Source(q) = NoKey
      BY <1>1, <3>2 DEF ReplayHolds, Source
    <3>3. CASE Source(q) # NoKey
      <4>1. Source(q) \in Requests \ {r}
        BY <1>3, <3>1, <3>3, StartedTypes DEF ReplayHolds, Source, IInv, Attempts
      <4> QED
        BY <1>1, <3>1, <3>3, <4>1 DEF ReplayHolds, Source, At, Told
    <3> QED
      BY <3>2, <3>3
  <2>5. OwnerMakes(q)'
    BY <1>1, <1>3 DEF AttemptHolds, OwnerMakes, Key, IInv, Typed
  <2>6. GraceHolds(q)'
    <3>1. GraceHolds(q)
      BY <1>1, <1>3 DEF AttemptHolds
    <3>2. GraceEnd' = GraceEnd
      BY DEF GraceEnd
    <3>3. day \in Nat /\ (Started(q) => request[q].answer.until \in Nat)
      BY StartedTypes, RequestsAssumption DEF IInv, Typed, Attempts, Answers
    <3> QED
      BY <1>1, <1>3, <3>1, <3>2, <3>3 DEF GraceHolds, At, Body, Told, GraceEnd
  <2> QED
    BY <2>1, <2>2, <2>3, <2>4, <2>5, <2>6 DEF AttemptHolds
<1> QED
  BY <1>2, <1>3

LEMMA StepPreserves ==
  ASSUME IInv, Typed', NEW r \in Requests, Frame(r), AttemptHolds(r)',
         \A k \in IdempotencyKeys : record'[k] # record[k] => RecordHolds(k)'
  PROVE  IInv'
<1> USE DEF Frame, Kept
<1>1. \A q \in Requests : AttemptHolds(q)'
  BY OthersHold
<1>2. \A q \in Requests : Started(q)' <=> Started(q)
  BY StartedTypes DEF IInv, Started, Attempts, Idle
<1>3. \A q \in Requests : Started(q) => Key(q)' = Key(q) /\ Body(q)' = Body(q)
  BY DEF Key, Body
<1>4. OneBodyPerKey'
  BY <1>2, <1>3 DEF OneBodyPerKey, IInv
<1>5. ASSUME NEW k \in IdempotencyKeys, record'[k] = record[k]
      PROVE  RecordHolds(k)'
  <2>1. CASE record[k] = Absent
    BY <1>5, <2>1 DEF RecordHolds
  <2>2. CASE record[k] # Absent
    <3>1. record[k].owner \in Requests
      BY <2>2 DEF IInv, Typed, KeyRows
    <3>2. RecordHolds(k)
      BY DEF IInv
    <3>3. CASE record[k].owner = r
      BY <1>2, <1>3, <1>5, <2>2, <3>1, <3>2, <3>3 DEF RecordHolds
    <3>4. CASE record[k].owner # r
      BY <1>2, <1>3, <1>5, <2>2, <3>1, <3>2, <3>4 DEF RecordHolds, At, Source, Told
    <3> QED
      BY <3>3, <3>4
  <2> QED
    BY <2>1, <2>2
<1> QED
  BY <1>1, <1>4, <1>5 DEF IInv

-----------------------------------------------------------------------------
(* Steps of one request: to a later step before its answer, to its answer,  *)
(* and to an end without one.                                               *)

\* The tables stay, or a failure of the store disturbs a key.
LEMMA QuietFrame ==
  ASSUME IInv, NEW r \in Requests, Started(r), ~At(r, "answered"), Kept(r),
         UNCHANGED <<record, watchpoints, apiKeys, day>>, undisturbed' \subseteq undisturbed
  PROVE  Typed' /\ Frame(r) /\ Made(r)' = Made(r)
<1>1. Typed'
  BY DEF IInv, Typed, Kept
<1>2. \A q \in Requests : Made(q)' = Made(q)
  BY DEF Made
<1>3. \A i \in DOMAIN apiKeys : apiKeys'[i].expires \in {apiKeys[i].expires, GraceEnd}
  OBVIOUS
<1> QED
  BY <1>1, <1>2, <1>3 DEF Frame

LEMMA PendingPreserves ==
  ASSUME IInv, Typed', NEW r \in Requests, Frame(r),
         request[r].at \in Pending, request'[r].at \in Pending,
         request'[r].answer = request[r].answer, Source(r)' = Source(r), Made(r)' = Made(r),
         StepFits(r)', request'[r].at \in Unclaimed => ~Claimed(r)',
         ClaimHolds(r)', OwnerMakes(r)',
         At(r, "insertKey")' /\ Rotation(Body(r)) =>
           Body(r).id \in DOMAIN apiKeys' /\ apiKeys'[Body(r).id].expires = GraceEnd,
         \A k \in IdempotencyKeys : record'[k] # record[k] => RecordHolds(k)'
  PROVE  IInv'
<1>1. Started(r) /\ AttemptHolds(r)
  BY DEF Frame, IInv
<1>2. Told(r) = "none" /\ Made(r) = {} /\ Source(r) = NoKey
  BY <1>1 DEF AttemptHolds, NothingYet
<1>3. Started(r)'
  BY DEF Frame, Kept, Started, Idle, Attempts
<1>4. NothingYet(r)' /\ AnswerHolds(r)' /\ ReplayHolds(r)'
  BY <1>2 DEF NothingYet, AnswerHolds, ReplayHolds, Told
<1>5. Body(r)' = Body(r) /\ GraceEnd' = GraceEnd
  BY DEF Frame, Kept, GraceEnd
<1>6. GraceHolds(r)'
  BY <1>2, <1>5 DEF GraceHolds, Told
<1>7. AttemptHolds(r)'
  BY <1>3, <1>4, <1>6 DEF AttemptHolds
<1> QED
  BY <1>7, StepPreserves

LEMMA AnswerPreserves ==
  ASSUME IInv, Typed', NEW r \in Requests, Frame(r), UNCHANGED record,
         request[r].at \in Pending, Claimed(r)' = Claimed(r), Source(r)' = Source(r),
         request'[r].at = IF Claimed(r) THEN "save" ELSE "answered",
         Told(r)' \in {"ok", "refused", "inProgress", "limited"} => Made(r)' = request'[r].answer.made,
         Made(r)' = {} \/ request[r].at \in Making,
         Rotation(Body(r)) /\ Told(r)' = "ok" =>
           /\ Body(r).id \in DOMAIN apiKeys' /\ request'[r].answer.until = GraceEnd
           /\ apiKeys'[Body(r).id].expires = GraceEnd
  PROVE  IInv'
<1>1. Started(r) /\ AttemptHolds(r)
  BY DEF Frame, IInv
<1>2. Source(r) = NoKey /\ Source(r)' = NoKey
  BY <1>1 DEF AttemptHolds, NothingYet
<1>3. Started(r)'
  BY DEF Frame, Kept, Started, Idle, Attempts
<1>4. StepFits(r)' /\ NothingYet(r)' /\ AnswerHolds(r)' /\ ReplayHolds(r)'
  BY <1>2 DEF StepFits, At, NothingYet, Pending, Unclaimed, Making, AnswerHolds, ReplayHolds
<1>5. Key(r)' = Key(r) /\ Body(r)' = Body(r) /\ day' = day
  BY DEF Frame, Kept
<1>6. ClaimHolds(r)'
  <2>1. ClaimHolds(r)
    BY <1>1 DEF AttemptHolds
  <2>2. CASE Claimed(r)
    <3>1. InFlight(r)
      BY DEF InFlight, Pending, Unclaimed, Making
    <3> QED
      BY <1>2, <1>5, <2>1, <2>2, <3>1 DEF ClaimHolds, At
  <2>3. CASE ~Claimed(r)
    BY <2>3 DEF ClaimHolds, At
  <2> QED
    BY <2>2, <2>3
<1>7. OwnerMakes(r)'
  <2>1. OwnerMakes(r) /\ undisturbed' \subseteq undisturbed
    BY <1>1 DEF AttemptHolds, Frame
  <2>2. request'[r].at \notin Making
    BY DEF Making
  <2> QED
    BY <1>5, <2>1, <2>2 DEF OwnerMakes
<1>8. GraceHolds(r)'
  <2>1. GraceEnd \in Nat /\ GraceEnd' = GraceEnd
    BY <1>5, RequestsAssumption DEF GraceEnd, IInv, Typed
  <2>2. ~At(r, "insertKey")'
    BY DEF At
  <2> QED
    BY <1>5, <2>1, <2>2 DEF GraceHolds
<1>9. AttemptHolds(r)'
  BY <1>3, <1>4, <1>6, <1>7, <1>8 DEF AttemptHolds
<1> QED
  BY <1>9, StepPreserves

\* An answer that is given while the tables stay.
LEMMA QuietAnswerPreserves ==
  ASSUME IInv, NEW r \in Requests, Started(r), request[r].at \in Pending,
         UNCHANGED <<record, watchpoints, apiKeys, day, undisturbed>>,
         NEW code \in Codes, Answer(r, code), code = "ok" => ~Rotation(Body(r))
  PROVE  IInv'
<1>1. AttemptHolds(r)
  BY DEF IInv
<1>2. Made(r) = {}
  BY <1>1 DEF AttemptHolds, NothingYet
<1>3. ~At(r, "answered")
  BY DEF At, Pending, Unclaimed, Making
<1>4. /\ Kept(r) /\ Claimed(r)' = Claimed(r) /\ Source(r)' = Source(r)
      /\ request'[r].at = IF Claimed(r) THEN "save" ELSE "answered"
      /\ request'[r].answer = [code |-> code, made |-> {}, until |-> 0]
  BY AnswerKeeps DEF IInv, Claimed, Source
<1>5. Typed' /\ Frame(r) /\ Made(r)' = Made(r)
  BY <1>3, <1>4, QuietFrame
<1>6. Told(r)' = code /\ request'[r].answer.made = {}
  BY <1>4 DEF Told
<1> QED
  BY <1>2, <1>4, <1>5, <1>6, AnswerPreserves

LEMMA Handlers ==
  ASSUME NEW b \in Bodies
  PROVE  /\ HandlerOf(b) \in {"checkLimit", "countRecent", "getKey", "revoke"}
         /\ HandlerOf(b) = "checkLimit" => b.op = "bulk"
         /\ HandlerOf(b) = "countRecent" => b.op = "create"
         /\ HandlerOf(b) = "getKey" => Rotation(b)
         /\ HandlerOf(b) = "revoke" <=> b.op = "revoke"
  BY RequestsAssumption DEF HandlerOf, Rotation

-----------------------------------------------------------------------------
(* The middleware.                                                          *)

\* A step towards the handler, or within it, that leaves the tables alone.
LEMMA GotoPreserves ==
  ASSUME IInv, NEW r \in Requests, Started(r), request[r].at \in Pending,
         NEW step \in Pending, Goto(r, step),
         UNCHANGED <<record, watchpoints, apiKeys, day>>, undisturbed' \subseteq undisturbed,
         step \in {"checkLimit", "insertBatch"} => Body(r).op = "bulk",
         step = "countRecent" => Body(r).op = "create",
         step = "revoke" => Body(r).op = "revoke",
         step \in Unclaimed => ~Claimed(r) /\ step # "admit" /\ Key(r) \in IdempotencyKeys,
         step \in Making => request[r].at \in Making \/ Key(r) \notin undisturbed',
         step = "getKey" => Rotation(Body(r)), step # "expireOld",
         step = "insertKey" => Body(r).op = "create"
  PROVE  IInv'
<1>1. AttemptHolds(r) /\ ~At(r, "answered")
  BY DEF IInv, At, Pending, Unclaimed, Making
<1>2. step \in Steps \ {"idle"}
  BY DEF Steps, Pending, Unclaimed, Making
<1>3. /\ Kept(r) /\ At(r, step)' /\ Claimed(r)' = Claimed(r) /\ Source(r)' = Source(r)
      /\ request'[r].answer = request[r].answer
  BY <1>2, GotoKeeps DEF IInv, Claimed, Source
<1>4. Typed' /\ Frame(r) /\ Made(r)' = Made(r)
  BY <1>1, <1>3, QuietFrame
<1>5. Key(r)' = Key(r) /\ Body(r)' = Body(r)
  BY <1>3 DEF Kept
<1>6. StepFits(r)'
  BY <1>3, <1>5 DEF StepFits, At
<1>7. ClaimHolds(r)'
  <2>1. ClaimHolds(r)
    BY <1>1 DEF AttemptHolds
  <2>2. InFlight(r)
    BY DEF InFlight, Pending, Unclaimed, Making
  <2>3. step # "save"
    BY DEF Pending, Unclaimed, Making
  <2> QED
    BY <1>3, <1>5, <2>1, <2>2, <2>3 DEF ClaimHolds, At, Unclaimed
<1>8. OwnerMakes(r)'
  <2>1. OwnerMakes(r) /\ Made(r) = {}
    BY <1>1 DEF AttemptHolds, NothingYet
  <2> QED
    BY <1>3, <1>4, <1>5, <2>1 DEF OwnerMakes, At
<1> QED
  BY <1>1, <1>3, <1>4, <1>5, <1>6, <1>7, <1>8, PendingPreserves DEF At, Rotation

LEMMA RateLimitPreserves ==
  ASSUME IInv, NEW r \in Requests, RateLimit(r)
  PROVE  IInv'
<1>1. Started(r) /\ At(r, "admit") /\ request[r].at \in Pending /\ AttemptHolds(r)
  BY StartedTypes DEF IInv, RateLimit, At, Pending, Unclaimed
<1>2. ~Claimed(r) /\ Body(r) \in Bodies /\ Key(r) \in IdempotencyKeys \cup {NoKey}
  BY <1>1, StartedTypes DEF AttemptHolds, NothingYet, At, Unclaimed, Body, Key, Attempts, IInv
<1>3. CASE Answer(r, "limited")
  BY <1>1, <1>3, QuietAnswerPreserves DEF RateLimit, Codes
<1>4. CASE Goto(r, IF Key(r) # NoKey /\ Body(r).op # "revoke" THEN "lookup" ELSE HandlerOf(Body(r)))
  <2>1. undisturbed \subseteq IdempotencyKeys
    BY DEF IInv, Typed
  <2>2. CASE Key(r) # NoKey /\ Body(r).op # "revoke"
    BY <1>1, <1>2, <1>4, <2>1, <2>2, GotoPreserves DEF RateLimit, Pending, Unclaimed, Making
  <2>3. CASE ~(Key(r) # NoKey /\ Body(r).op # "revoke")
    <3>1. Goto(r, HandlerOf(Body(r))) /\ HandlerOf(Body(r)) \in Pending \ Unclaimed
      BY <1>2, <1>4, <2>3, Handlers DEF Pending, Unclaimed, Making
    <3>2. HandlerOf(Body(r)) \in Making => Key(r) \notin undisturbed
      BY <1>2, <2>1, <2>3, Handlers, RequestsAssumption DEF Making
    <3> QED
      BY <1>1, <1>2, <3>1, <3>2, Handlers, GotoPreserves DEF RateLimit
  <2> QED
    BY <2>2, <2>3
<1> QED
  BY <1>3, <1>4 DEF RateLimit

LEMMA LookupPreserves ==
  ASSUME IInv, NEW r \in Requests, Lookup(r)
  PROVE  IInv'
<1>1. Started(r) /\ At(r, "lookup") /\ request[r].at \in Pending /\ AttemptHolds(r)
  BY StartedTypes DEF IInv, Lookup, At, Pending, Unclaimed
<1>2. ~Claimed(r) /\ Key(r) \in IdempotencyKeys
  BY <1>1 DEF AttemptHolds, NothingYet, ClaimHolds, At, Unclaimed
<1>3. CASE Answer(r, "inProgress")
  BY <1>1, <1>3, QuietAnswerPreserves DEF Lookup, Codes
<1>4. CASE Goto(r, "claim")
  BY <1>1, <1>2, <1>4, GotoPreserves DEF Lookup, Pending, Unclaimed, Making
<1>5. ASSUME record[Key(r)].status = "completed",
             request' = [request EXCEPT ![r] =
               [@ EXCEPT !.at = "answered", !.answer = record[Key(r)].answer,
                         !.replayOf = record[Key(r)].owner]]
      PROVE  IInv'
  <2> DEFINE owner == record[Key(r)].owner
  <2>1. record[Key(r)] # Absent /\ record[Key(r)] \in KeyRows
    BY <1>2, <1>5 DEF Absent, IInv, Typed
  <2>2. /\ owner \in Requests /\ Started(owner) /\ Key(owner) = Key(r) /\ AttemptHolds(owner)
        /\ At(owner, "answered") /\ Source(owner) = NoKey /\ Told(owner) # "error"
        /\ record[Key(r)].answer = request[owner].answer
    BY <1>2, <1>5, <2>1 DEF KeyRows, IInv, RecordHolds
  <2>3. owner # r /\ owner # NoKey
    BY <1>1, <2>2, RequestsAssumption DEF At
  <2>4. Body(owner) = Body(r)
    BY <1>1, <1>2, <2>2, RequestsAssumption DEF IInv, OneBodyPerKey
  <2>5. record[Key(r)].answer \in Answers
    BY <2>1 DEF KeyRows
  <2>6. /\ Kept(r) /\ At(r, "answered")' /\ Claimed(r)' = Claimed(r) /\ Source(r)' = owner
        /\ request'[r].answer = request[owner].answer
    <3>1. request[r] \in Attempts /\ request \in [Requests -> {Idle} \cup Attempts]
      BY <1>1, StartedTypes DEF IInv, Typed
    <3> DEFINE new == [request[r] EXCEPT !.at = "answered", !.answer = record[Key(r)].answer,
                                         !.replayOf = record[Key(r)].owner]
    <3>2. /\ new \in Attempts /\ new.at = "answered" /\ new.answer = record[Key(r)].answer
          /\ new.replayOf = owner /\ new.key = request[r].key /\ new.body = request[r].body
          /\ new.claimed = request[r].claimed
      BY <2>2, <2>5, <3>1 DEF Attempts, Steps
    <3>3. request' = [request EXCEPT ![r] = new]
      BY <1>5
    <3> HIDE DEF new
    <3>4. request'[r] = new
      BY <3>1, <3>3
    <3>5. Kept(r)
      BY <3>1, <3>2, <3>3, <3>4 DEF Kept, Key, Body
    <3> QED
      BY <2>2, <3>2, <3>4, <3>5 DEF At, Claimed, Source
  <2>7. Typed' /\ Frame(r) /\ Made(r)' = Made(r)
    BY <1>1, <2>6, QuietFrame DEF Lookup, At
  <2>8. Key(r)' = Key(r) /\ Body(r)' = Body(r) /\ request'[owner] = request[owner]
    BY <2>2, <2>3, <2>6 DEF Kept
  <2>9. Made(r) = {} /\ Made(r)' = {}
    BY <1>1, <2>7 DEF AttemptHolds, NothingYet
  <2>10. Started(r)'
    BY <2>6 DEF Started, At, Idle
  <2>11. StepFits(r)' /\ NothingYet(r)' /\ ClaimHolds(r)' /\ AnswerHolds(r)' /\ OwnerMakes(r)'
    BY <1>2, <2>3, <2>6, <2>8, <2>9
    DEF StepFits, NothingYet, ClaimHolds, AnswerHolds, OwnerMakes, At, Pending, Unclaimed, Making
  <2>12. ReplayHolds(r)'
    BY <2>2, <2>6, <2>8 DEF ReplayHolds, At, Source, Told
  <2>13. GraceHolds(r)'
    <3>1. GraceHolds(owner)
      BY <2>2 DEF AttemptHolds
    <3>2. apiKeys' = apiKeys /\ day' = day /\ GraceEnd' = GraceEnd
      BY DEF Lookup, GraceEnd
    <3> QED
      BY <2>4, <2>6, <2>8, <3>1, <3>2 DEF GraceHolds, At, Told
  <2>14. AttemptHolds(r)'
    BY <2>10, <2>11, <2>12, <2>13 DEF AttemptHolds
  <2> QED
    BY <2>7, <2>14, StepPreserves DEF Lookup
<1> QED
  BY <1>3, <1>4, <1>5 DEF Lookup

LEMMA LookupFailsPreserves ==
  ASSUME IInv, NEW r \in Requests, LookupFails(r)
  PROVE  IInv'
<1>1. Started(r) /\ request[r].at \in Pending /\ AttemptHolds(r) /\ Body(r) \in Bodies
  BY StartedTypes DEF IInv, LookupFails, At, Pending, Unclaimed, Body, Attempts
<1>2. HandlerOf(Body(r)) \in Pending \ Unclaimed /\ Goto(r, HandlerOf(Body(r)))
  BY <1>1, Handlers DEF Pending, Unclaimed, Making, LookupFails
<1>3. undisturbed' \subseteq undisturbed /\ Key(r) \notin undisturbed'
  BY DEF LookupFails, Disturb
<1> QED
  BY <1>1, <1>2, <1>3, Handlers, GotoPreserves DEF LookupFails

LEMMA ClaimPreserves ==
  ASSUME IInv, NEW r \in Requests, Claim(r)
  PROVE  IInv'
<1>1. Started(r) /\ At(r, "claim") /\ request[r].at \in Pending /\ AttemptHolds(r) /\ Body(r) \in Bodies
  BY StartedTypes DEF IInv, Claim, At, Pending, Unclaimed, Body, Attempts
<1>2. /\ ~Claimed(r) /\ Key(r) \in IdempotencyKeys /\ Told(r) = "none" /\ Made(r) = {}
      /\ Source(r) = NoKey
  BY <1>1 DEF AttemptHolds, NothingYet, ClaimHolds, At, Unclaimed
<1>3. HandlerOf(Body(r)) \in Pending \ Unclaimed /\ HandlerOf(Body(r)) # "insertKey"
  BY <1>1, Handlers DEF Pending, Unclaimed, Making
<1>4. ASSUME Goto(r, HandlerOf(Body(r))), Disturb(r), UNCHANGED record
      PROVE  IInv'
  <2>1. undisturbed' \subseteq undisturbed /\ Key(r) \notin undisturbed'
    BY <1>4 DEF Disturb
  <2> QED
    BY <1>1, <1>3, <1>4, <2>1, Handlers, GotoPreserves DEF Claim
<1>5. ASSUME record[Key(r)] = Absent,
             record' = [record EXCEPT ![Key(r)] =
               [status |-> "processing", owner |-> r, created |-> day, answer |-> NoAnswer]],
             request' = [request EXCEPT ![r].at = HandlerOf(Body(r)), ![r].claimed = TRUE],
             UNCHANGED undisturbed
      PROVE  IInv'
  <2> DEFINE row == [status |-> "processing", owner |-> r, created |-> day, answer |-> NoAnswer]
  <2>1. request[r] \in Attempts /\ HandlerOf(Body(r)) \in Steps \ {"idle"}
    BY <1>1, <1>3, StartedTypes DEF IInv, Pending, Unclaimed, Making, Steps
  <2>2. /\ Kept(r) /\ request'[r].at = HandlerOf(Body(r)) /\ Claimed(r)' /\ Source(r)' = Source(r)
        /\ request'[r].answer = request[r].answer
    BY <1>5, <2>1 DEF IInv, Typed, Kept, Attempts, Key, Body, At, Claimed, Source
  <2>3. row \in KeyRows /\ row # Absent /\ row.created <= day
    BY RequestsAssumption DEF KeyRows, NoAnswer, Answers, Codes, IInv, Typed, Absent
  <2>4. record'[Key(r)] = row /\ \A k \in IdempotencyKeys \ {Key(r)} : record'[k] = record[k]
    BY <1>2, <1>5 DEF IInv, Typed
  <2>5. record' \in [IdempotencyKeys -> {Absent} \cup KeyRows]
    BY <1>2, <1>5, <2>3 DEF IInv, Typed
  <2>6. Typed'
    BY <1>5, <2>2, <2>3, <2>4, <2>5 DEF IInv, Typed, Kept, Claim
  <2>7. \A q \in Requests : Made(q)' = Made(q)
    BY DEF Made, Claim
  <2>8. Frame(r)
    BY <1>1, <1>5, <2>2, <2>3, <2>4, <2>7 DEF Frame, Claim, At
  <2>9. Key(r)' = Key(r) /\ Body(r)' = Body(r)
    BY <2>2 DEF Kept
  <2>10. Started(r)'
    BY <2>2 DEF Kept, Started, Idle, Attempts
  <2>11. \A k \in IdempotencyKeys : record'[k] # record[k] => RecordHolds(k)'
    <3> SUFFICES ASSUME NEW k \in IdempotencyKeys, record'[k] # record[k]
                 PROVE  RecordHolds(k)'
      OBVIOUS
    <3>1. k = Key(r)' /\ record'[k] = row
      BY <2>4, <2>9
    <3> QED
      BY <2>10, <3>1 DEF RecordHolds, Started, Key
  <2>12. StepFits(r)'
    BY <1>1, <2>2, <2>9, Handlers DEF StepFits, At
  <2>13. ClaimHolds(r)' /\ OwnerMakes(r)'
    <3>1. day' = day
      BY DEF Claim
    <3> QED
      BY <1>2, <1>3, <2>2, <2>3, <2>4, <2>9, <3>1
      DEF ClaimHolds, OwnerMakes, At, InFlight, Pending, Unclaimed, Making
  <2>14. ~At(r, "insertKey")' /\ request'[r].at \in Pending \ Unclaimed
    BY <1>3, <2>2 DEF At
  <2> QED
    BY <1>1, <1>2, <2>2, <2>6, <2>7, <2>8, <2>11, <2>12, <2>13, <2>14, PendingPreserves
<1> QED
  BY <1>4, <1>5 DEF Claim

\* Where an attempt ends: it keeps what it made and was told.
LEMMA EndHolds ==
  ASSUME IInv, NEW r \in Requests, Started(r), ~At(r, "answered"), Frame(r),
         Made(r)' = Made(r), request'[r].answer = request[r].answer,
         Claimed(r)' = Claimed(r), Source(r)' = Source(r),
         request'[r].at \in {"answered", "crashed"},
         Key(r) \in undisturbed' /\ Made(r) # {} =>
           (record[Key(r)].owner = r => record'[Key(r)] # Absent /\ record'[Key(r)].owner = r)
  PROVE  AttemptHolds(r)'
<1>1. AttemptHolds(r) /\ Key(r)' = Key(r) /\ Body(r)' = Body(r)
  BY DEF IInv, Frame, Kept
<1>2. Source(r) = NoKey
  BY <1>1 DEF AttemptHolds, ReplayHolds
<1>3. Started(r)'
  BY DEF Frame, Kept, Started, Idle, Attempts
<1>4. StepFits(r)' /\ NothingYet(r)' /\ ReplayHolds(r)' /\ AnswerHolds(r)'
  BY <1>1, <1>2
  DEF AttemptHolds, StepFits, At, NothingYet, Pending, Unclaimed, Making, ReplayHolds, AnswerHolds, Told
<1>5. ClaimHolds(r)'
  BY <1>1, <1>2 DEF AttemptHolds, ClaimHolds, At, InFlight
<1>6. OwnerMakes(r)'
  BY <1>1 DEF AttemptHolds, OwnerMakes, Frame, Making
<1>7. GraceHolds(r)'
  <2>1. GraceHolds(r) /\ day' = day /\ GraceEnd' = GraceEnd
    BY <1>1 DEF AttemptHolds, Frame, GraceEnd
  <2>2. day \in Nat /\ request[r].answer.until \in Nat
    BY StartedTypes, RequestsAssumption DEF IInv, Typed, Attempts, Answers
  <2> QED
    BY <1>1, <2>1, <2>2 DEF GraceHolds, At, Told, Frame, GraceEnd
<1> QED
  BY <1>3, <1>4, <1>5, <1>6, <1>7 DEF AttemptHolds

LEMMA CrashPreserves ==
  ASSUME IInv, NEW r \in Requests, Crash(r)
  PROVE  IInv'
<1>1. Started(r) /\ ~At(r, "answered")
  BY StartedTypes DEF Crash, InFlight, At, IInv
<1>2. /\ Kept(r) /\ At(r, "crashed")' /\ Claimed(r)' = Claimed(r) /\ Source(r)' = Source(r)
      /\ request'[r].answer = request[r].answer
  BY <1>1, GotoKeeps DEF Crash, Steps, IInv, Claimed, Source
<1>3. Typed' /\ Frame(r) /\ Made(r)' = Made(r)
  BY <1>1, <1>2, QuietFrame DEF Crash
<1>4. AttemptHolds(r)'
  <2>1. Key(r) \in undisturbed' /\ Made(r) # {} =>
          (record[Key(r)].owner = r => record'[Key(r)] # Absent /\ record'[Key(r)].owner = r)
    BY <1>1 DEF IInv, AttemptHolds, OwnerMakes, Crash
  <2> QED
    BY <1>1, <1>2, <1>3, <2>1, EndHolds DEF At
<1> QED
  BY <1>3, <1>4, StepPreserves DEF Crash

LEMMA SavePreserves ==
  ASSUME IInv, NEW r \in Requests, Save(r)
  PROVE  IInv'
<1>1. Started(r) /\ ~At(r, "answered") /\ AttemptHolds(r)
  BY StartedTypes DEF IInv, Save, At
<1>2. /\ Claimed(r) /\ Key(r) \in IdempotencyKeys /\ Source(r) = NoKey
      /\ record[Key(r)] # Absent /\ record[Key(r)].owner = r
      /\ record[Key(r)].status = "processing"
  BY <1>1 DEF AttemptHolds, ClaimHolds, Save, At, InFlight
<1>3. /\ Kept(r) /\ At(r, "answered")' /\ Claimed(r)' = Claimed(r) /\ Source(r)' = Source(r)
      /\ request'[r].answer = request[r].answer
  BY <1>1, GotoKeeps DEF Save, Steps, IInv, Claimed, Source
<1>4. record[Key(r)] \in KeyRows /\ request[r].answer \in Answers
  BY <1>1, <1>2, StartedTypes DEF IInv, Typed, Attempts
<1>5. /\ record' \in [IdempotencyKeys -> {Absent} \cup KeyRows]
      /\ \A k \in IdempotencyKeys \ {Key(r)} : record'[k] = record[k]
      /\ record'[Key(r)] \in KeyRows /\ record'[Key(r)].owner = r
      /\ record'[Key(r)].created = record[Key(r)].created
      /\ record'[Key(r)].status = "completed" =>
           request[r].answer.code # "error" /\ record'[Key(r)].answer = request[r].answer
  <2>1. CASE UNCHANGED record
    BY <1>2, <1>4, <2>1 DEF IInv, Typed
  <2>2. CASE record' = [record EXCEPT
               ![Key(r)].status = IF request[r].answer.code = "error" THEN "failed" ELSE "completed",
               ![Key(r)].answer = IF request[r].answer.code = "error" THEN @ ELSE request[r].answer]
    BY <1>2, <1>4, <2>2 DEF IInv, Typed, KeyRows
  <2> QED
    BY <2>1, <2>2 DEF Save
<1>6. record'[Key(r)] # Absent
  BY <1>5 DEF KeyRows, Absent
<1>7. Typed'
  BY <1>2, <1>3, <1>5, <1>6 DEF IInv, Typed, Kept, Save
<1>8. \A q \in Requests : Made(q)' = Made(q)
  BY DEF Made, Save
<1>9. Frame(r)
  BY <1>1, <1>2, <1>3, <1>5, <1>6, <1>8 DEF Frame, Save
<1>10. AttemptHolds(r)'
  BY <1>1, <1>3, <1>5, <1>6, <1>8, <1>9, EndHolds DEF At
<1>11. \A k \in IdempotencyKeys : record'[k] # record[k] => RecordHolds(k)'
  <2> SUFFICES ASSUME NEW k \in IdempotencyKeys, record'[k] # record[k]
               PROVE  RecordHolds(k)'
    OBVIOUS
  <2>1. k = Key(r) /\ Key(r)' = Key(r)
    BY <1>3, <1>5 DEF Kept
  <2>2. record'[k].owner = r /\ Started(r)'
    BY <1>3, <1>5, <2>1 DEF Kept, Started, Idle, Attempts
  <2>3. record'[k].status = "completed" =>
          request'[r].answer.code # "error" /\ record'[k].answer = request'[r].answer
    BY <1>3, <1>5, <2>1
  <2> QED
    BY <1>2, <1>3, <2>1, <2>2, <2>3 DEF RecordHolds, Started, Key, At, Source, Told
<1> QED
  BY <1>7, <1>9, <1>10, <1>11, StepPreserves

-----------------------------------------------------------------------------
(* The handlers.                                                            *)

LEMMA CheckLimitPreserves ==
  ASSUME IInv, NEW r \in Requests, CheckLimit(r)
  PROVE  IInv'
<1>1. Started(r) /\ request[r].at \in Pending \cap Making /\ AttemptHolds(r) /\ Body(r).op = "bulk"
  BY StartedTypes DEF IInv, CheckLimit, At, Pending, Unclaimed, Making, AttemptHolds, StepFits
<1>2. \/ Answer(r, "ok") \/ Answer(r, "refused") \/ Goto(r, "insertBatch")
  BY DEF CheckLimit
<1>3. CASE Answer(r, "ok") \/ Answer(r, "refused")
  BY <1>1, <1>3, QuietAnswerPreserves DEF CheckLimit, Codes, Rotation
<1>4. CASE Goto(r, "insertBatch")
  BY <1>1, <1>4, GotoPreserves DEF CheckLimit, Pending, Unclaimed, Making
<1> QED
  BY <1>2, <1>3, <1>4

LEMMA CountRecentPreserves ==
  ASSUME IInv, NEW r \in Requests, CountRecent(r)
  PROVE  IInv'
<1>1. Started(r) /\ request[r].at \in Pending \cap Making /\ AttemptHolds(r) /\ Body(r).op = "create"
  BY StartedTypes DEF IInv, CountRecent, At, Pending, Unclaimed, Making, AttemptHolds, StepFits
<1>2. CASE Answer(r, "refused")
  BY <1>1, <1>2, QuietAnswerPreserves DEF CountRecent, Codes
<1>3. CASE Goto(r, "insertKey")
  BY <1>1, <1>3, GotoPreserves DEF CountRecent, Pending, Unclaimed, Making, Rotation
<1> QED
  BY <1>2, <1>3 DEF CountRecent

\* What is read of the key is its last day.
LEMMA GetByIDPreserves ==
  ASSUME IInv, NEW r \in Requests, GetByID(r)
  PROVE  IInv'
<1>1. Started(r) /\ At(r, "getKey") /\ request[r].at \in Pending /\ AttemptHolds(r)
  BY StartedTypes DEF IInv, GetByID, At, Pending, Unclaimed, Making
<1>2. CASE Answer(r, "refused")
  BY <1>1, <1>2, QuietAnswerPreserves DEF GetByID, Codes
<1>3. ASSUME Unrevoked(Body(r).id),
             request' = [request EXCEPT ![r].at = "expireOld", ![r].old = apiKeys[Body(r).id].expires]
      PROVE  IInv'
  <2>1. apiKeys[Body(r).id].expires \in 0..Never
    <3>1. Body(r).id \in DOMAIN apiKeys
      BY <1>3 DEF Unrevoked
    <3>2. apiKeys[Body(r).id] \in APIKeys
      BY <3>1, KeyTypes DEF IInv
    <3> QED
      BY <3>2 DEF APIKeys
  <2>2. /\ Kept(r) /\ At(r, "expireOld")' /\ Claimed(r)' = Claimed(r) /\ Source(r)' = Source(r)
        /\ request'[r].answer = request[r].answer
    <3> DEFINE new == [request[r] EXCEPT !.at = "expireOld", !.old = apiKeys[Body(r).id].expires]
    <3>1. request[r] \in Attempts
      BY <1>1, StartedTypes DEF IInv
    <3>2. /\ new \in Attempts /\ new.at = "expireOld" /\ new.answer = request[r].answer
          /\ new.key = Key(r) /\ new.body = Body(r) /\ new.claimed = Claimed(r)
          /\ new.replayOf = Source(r)
      BY <2>1, <3>1 DEF Attempts, Steps, Key, Body, Claimed, Source
    <3>3. request' = [request EXCEPT ![r] = new]
      BY <1>3
    <3> HIDE DEF new
    <3>4. request'[r] = new /\ request' \in [Requests -> {Idle} \cup Attempts]
            /\ \A q \in Requests \ {r} : request'[q] = request[q]
      BY <3>2, <3>3 DEF IInv, Typed
    <3> QED
      BY <3>2, <3>4 DEF Kept, Key, Body, At, Claimed, Source
  <2>3. Typed' /\ Frame(r) /\ Made(r)' = Made(r)
    BY <1>1, <2>2, QuietFrame DEF GetByID, At
  <2>4. StepFits(r)' /\ Key(r)' = Key(r)
    BY <1>1, <2>2 DEF AttemptHolds, StepFits, At, Kept
  <2>5. ClaimHolds(r)' /\ OwnerMakes(r)'
    <3>1. ClaimHolds(r) /\ OwnerMakes(r) /\ InFlight(r) /\ request[r].at \in Making
      BY <1>1 DEF AttemptHolds, InFlight, At, Making
    <3> QED
      BY <2>2, <2>4, <3>1 DEF ClaimHolds, OwnerMakes, At, GetByID
  <2> QED
    BY <1>1, <2>2, <2>3, <2>4, <2>5, PendingPreserves DEF GetByID, At, Pending, Unclaimed, Making
<1> QED
  BY <1>2, <1>3 DEF GetByID

\* The rows that one INSERT adds.
LEMMA CreateBatchMade ==
  ASSUME IInv, NEW r \in Requests, At(r, "insertBatch"),
         watchpoints' = watchpoints \cup Rows(r), UNCHANGED apiKeys
  PROVE  /\ watchpoints' \in SUBSET (Requests \X Nat) /\ Rows(r) \in SUBSET MadeThings
         /\ Made(r)' = Rows(r) /\ \A q \in Requests \ {r} : Made(q)' = Made(q)
<1>1. Started(r) /\ AttemptHolds(r) /\ Body(r) \in Bodies
  BY StartedTypes DEF IInv, At, Body, Attempts
<1>2. Body(r).valid \subseteq Nat /\ Made(r) = {}
  BY <1>1, RequestsAssumption
  DEF AttemptHolds, StepFits, NothingYet, At, Pending, Making
<1>3. Rows(r) \subseteq Requests \X Nat /\ \A w \in Rows(r) : w[1] = r
  BY <1>2 DEF Rows
<1>4. ASSUME NEW q \in Requests
      PROVE  Made(q)' = Made(q) \cup {w \in Rows(r) : w[1] = q}
  BY DEF Made
<1>5. Made(r)' = Rows(r)
  BY <1>2, <1>3, <1>4
<1>6. \A q \in Requests \ {r} : Made(q)' = Made(q)
  BY <1>3, <1>4
<1>7. watchpoints' \in SUBSET (Requests \X Nat)
  BY <1>3 DEF IInv, Typed
<1>8. Rows(r) \in SUBSET MadeThings
  BY <1>3 DEF MadeThings
<1> QED
  BY <1>5, <1>6, <1>7, <1>8

LEMMA CreateBatchPreserves ==
  ASSUME IInv, NEW r \in Requests, CreateBatch(r)
  PROVE  IInv'
<1>1. Started(r) /\ At(r, "insertBatch") /\ request[r].at \in Pending \cap Making /\ AttemptHolds(r)
  BY StartedTypes DEF IInv, CreateBatch, At, Pending, Unclaimed, Making
<1>2. Body(r).op = "bulk"
  BY <1>1 DEF AttemptHolds, StepFits
<1> DEFINE answer == [code |-> "ok", made |-> Rows(r), until |-> 0]
<1>3. /\ watchpoints' \in SUBSET (Requests \X Nat) /\ Rows(r) \in SUBSET MadeThings
      /\ Made(r)' = Rows(r) /\ \A q \in Requests \ {r} : Made(q)' = Made(q)
  BY <1>1, CreateBatchMade DEF CreateBatch
<1>4. answer \in Answers
  BY <1>3 DEF Answers, Codes
<1>5. /\ Kept(r) /\ Claimed(r)' = Claimed(r) /\ Source(r)' = Source(r)
      /\ request'[r].at = IF Claimed(r) THEN "save" ELSE "answered"
      /\ request'[r].answer = answer
  BY <1>1, <1>4, RespondKeeps DEF CreateBatch, IInv, Claimed, Source
<1>6. Typed'
  BY <1>3, <1>5 DEF IInv, Typed, Kept, CreateBatch
<1>7. Frame(r)
  BY <1>1, <1>3, <1>5 DEF Frame, At, CreateBatch
<1>8. Made(r)' = request'[r].answer.made
  BY <1>3, <1>5
<1> QED
  BY <1>1, <1>2, <1>5, <1>6, <1>7, <1>8, AnswerPreserves DEF CreateBatch, Rotation

LEMMA CreateBatchFailsPreserves ==
  ASSUME IInv, NEW r \in Requests, CreateBatchFails(r)
  PROVE  IInv'
<1>1. Started(r) /\ At(r, "insertBatch") /\ request[r].at \in Pending \cap Making
  BY StartedTypes DEF IInv, CreateBatchFails, At, Pending, Unclaimed, Making
<1>2. /\ Kept(r) /\ Claimed(r)' = Claimed(r) /\ Source(r)' = Source(r)
      /\ request'[r].at = IF Claimed(r) THEN "save" ELSE "answered"
      /\ Told(r)' = "error"
  BY <1>1, AnswerKeeps DEF CreateBatchFails, Codes, IInv, Claimed, Source, Told
<1>3. undisturbed' \subseteq undisturbed
  BY DEF CreateBatchFails, Disturb
<1>4. CASE UNCHANGED watchpoints
  <2>1. Typed' /\ Frame(r)
    BY <1>1, <1>2, <1>3, <1>4, QuietFrame DEF CreateBatchFails, At
  <2> QED
    BY <1>1, <1>2, <2>1, AnswerPreserves DEF CreateBatchFails
<1>5. CASE watchpoints' = watchpoints \cup Rows(r)
  <2>1. /\ watchpoints' \in SUBSET (Requests \X Nat)
        /\ \A q \in Requests \ {r} : Made(q)' = Made(q)
    BY <1>1, <1>5, CreateBatchMade DEF CreateBatchFails
  <2>2. Typed'
    BY <1>2, <1>3, <2>1 DEF IInv, Typed, Kept, CreateBatchFails
  <2>3. Frame(r)
    BY <1>1, <1>2, <1>3, <2>1 DEF Frame, At, CreateBatchFails
  <2> QED
    BY <1>1, <1>2, <2>2, <2>3, AnswerPreserves DEF CreateBatchFails
<1> QED
  BY <1>4, <1>5 DEF CreateBatchFails

\* A write to a row of api_keys.
LEMMA KeyWritten ==
  ASSUME IInv, NEW i \in DOMAIN apiKeys, UNCHANGED watchpoints,
         \/ apiKeys' = [apiKeys EXCEPT ![i].expires = GraceEnd]
         \/ apiKeys' = [apiKeys EXCEPT ![i].revoked = TRUE]
  PROVE  /\ apiKeys' \in Seq(APIKeys) /\ DOMAIN apiKeys' = DOMAIN apiKeys
         /\ \A j \in DOMAIN apiKeys : apiKeys'[j].expires \in {apiKeys[j].expires, GraceEnd}
         /\ \A q \in Requests : Made(q)' = Made(q)
<1>1. apiKeys \in Seq(APIKeys) /\ apiKeys[i] \in APIKeys
  BY KeyTypes DEF IInv, Typed
<1>2. GraceEnd \in 0..Never
  BY RequestsAssumption DEF IInv, Typed, GraceEnd
<1>3. PICK new \in APIKeys : /\ apiKeys' = [apiKeys EXCEPT ![i] = new]
                             /\ new.by = apiKeys[i].by /\ new.expires \in {apiKeys[i].expires, GraceEnd}
  <2>1. CASE apiKeys' = [apiKeys EXCEPT ![i].expires = GraceEnd]
    <3> DEFINE new == [apiKeys[i] EXCEPT !.expires = GraceEnd]
    <3>1. new \in APIKeys /\ new.by = apiKeys[i].by /\ new.expires = GraceEnd
      BY <1>1, <1>2 DEF APIKeys
    <3>2. apiKeys' = [apiKeys EXCEPT ![i] = new]
      BY <2>1
    <3> QED
      BY <3>1, <3>2
  <2>2. CASE apiKeys' = [apiKeys EXCEPT ![i].revoked = TRUE]
    <3> DEFINE new == [apiKeys[i] EXCEPT !.revoked = TRUE]
    <3>1. new \in APIKeys /\ new.by = apiKeys[i].by /\ new.expires = apiKeys[i].expires
      BY <1>1 DEF APIKeys
    <3>2. apiKeys' = [apiKeys EXCEPT ![i] = new]
      BY <2>2
    <3> QED
      BY <3>1, <3>2
  <2> QED
    BY <2>1, <2>2
<1>4. apiKeys' \in Seq(APIKeys)
  BY <1>1, <1>3, ExceptSeq
<1>5. DOMAIN apiKeys' = DOMAIN apiKeys
  BY <1>3
<1>6. \A j \in DOMAIN apiKeys : /\ apiKeys'[j].by = apiKeys[j].by
                                /\ apiKeys'[j].expires \in {apiKeys[j].expires, GraceEnd}
  BY <1>3
<1>7. ASSUME NEW q \in Requests
      PROVE  Made(q)' = Made(q)
  BY <1>5, <1>6 DEF Made
<1> QED
  BY <1>4, <1>5, <1>6, <1>7

LEMMA ExpireOldPreserves ==
  ASSUME IInv, NEW r \in Requests, ExpireOld(r)
  PROVE  IInv'
<1>1. Started(r) /\ At(r, "expireOld") /\ request[r].at \in Pending \cap Making /\ AttemptHolds(r)
  BY StartedTypes DEF IInv, ExpireOld, At, Pending, Unclaimed, Making
<1>2. CASE Answer(r, "refused") /\ UNCHANGED apiKeys
  BY <1>1, <1>2, QuietAnswerPreserves DEF ExpireOld, Codes
<1>3. ASSUME Unrevoked(Body(r).id), apiKeys' = [apiKeys EXCEPT ![Body(r).id].expires = GraceEnd],
             Goto(r, "insertKey")
      PROVE  IInv'
  <2>1. Body(r).id \in DOMAIN apiKeys
    BY <1>3 DEF Unrevoked
  <2>2. /\ apiKeys' \in Seq(APIKeys) /\ DOMAIN apiKeys' = DOMAIN apiKeys
        /\ \A j \in DOMAIN apiKeys : apiKeys'[j].expires \in {apiKeys[j].expires, GraceEnd}
        /\ \A q \in Requests : Made(q)' = Made(q)
    BY <1>3, <2>1, KeyWritten DEF ExpireOld
  <2>3. apiKeys'[Body(r).id].expires = GraceEnd
    <3>1. apiKeys[Body(r).id] \in APIKeys
      BY <2>1, KeyTypes DEF IInv
    <3>2. apiKeys'[Body(r).id] = [apiKeys[Body(r).id] EXCEPT !.expires = GraceEnd]
      BY <1>3, <2>1
    <3> QED
      BY <3>1, <3>2 DEF APIKeys
  <2>4. /\ Kept(r) /\ At(r, "insertKey")' /\ Claimed(r)' = Claimed(r) /\ Source(r)' = Source(r)
        /\ request'[r].answer = request[r].answer
    BY <1>1, <1>3, GotoKeeps DEF Steps, IInv, Claimed, Source
  <2>5. Typed'
    BY <2>2, <2>4 DEF IInv, Typed, Kept, ExpireOld
  <2>6. Frame(r)
    BY <1>1, <2>2, <2>4 DEF Frame, At, ExpireOld
  <2>7. StepFits(r)' /\ Key(r)' = Key(r)
    BY <1>1, <2>4 DEF AttemptHolds, StepFits, At, Kept
  <2>8. ClaimHolds(r)' /\ OwnerMakes(r)'
    <3>1. ClaimHolds(r) /\ OwnerMakes(r) /\ InFlight(r)
      BY <1>1 DEF AttemptHolds, InFlight, At
    <3> QED
      BY <1>1, <2>4, <2>7, <3>1 DEF ClaimHolds, OwnerMakes, At, ExpireOld
  <2> QED
    BY <1>1, <2>1, <2>2, <2>3, <2>4, <2>5, <2>6, <2>7, <2>8, PendingPreserves
    DEF ExpireOld, At, Pending, Unclaimed, Making
<1> QED
  BY <1>2, <1>3 DEF ExpireOld

LEMMA RevokePreserves ==
  ASSUME IInv, NEW r \in Requests, Revoke(r)
  PROVE  IInv'
<1>1. Started(r) /\ At(r, "revoke") /\ request[r].at \in Pending /\ AttemptHolds(r)
  BY StartedTypes DEF IInv, Revoke, At, Pending, Unclaimed, Making
<1>2. ~Rotation(Body(r)) /\ Made(r) = {}
  BY <1>1 DEF AttemptHolds, StepFits, NothingYet, Rotation
<1>3. CASE Answer(r, "refused") /\ UNCHANGED apiKeys
  BY <1>1, <1>3, QuietAnswerPreserves DEF Revoke, Codes
<1>4. ASSUME Unrevoked(Body(r).id), Answer(r, "ok"),
             apiKeys' = [apiKeys EXCEPT ![Body(r).id].revoked = TRUE]
      PROVE  IInv'
  <2>1. /\ apiKeys' \in Seq(APIKeys) /\ DOMAIN apiKeys' = DOMAIN apiKeys
        /\ \A j \in DOMAIN apiKeys : apiKeys'[j].expires \in {apiKeys[j].expires, GraceEnd}
        /\ \A q \in Requests : Made(q)' = Made(q)
    BY <1>4, KeyWritten DEF Revoke, Unrevoked
  <2>2. /\ Kept(r) /\ Claimed(r)' = Claimed(r) /\ Source(r)' = Source(r)
        /\ request'[r].at = IF Claimed(r) THEN "save" ELSE "answered"
        /\ request'[r].answer = [code |-> "ok", made |-> {}, until |-> 0]
    BY <1>1, <1>4, AnswerKeeps DEF Codes, IInv, Claimed, Source
  <2>3. Typed'
    BY <2>1, <2>2 DEF IInv, Typed, Kept, Revoke
  <2>4. Frame(r)
    BY <1>1, <2>1, <2>2 DEF Frame, At, Revoke
  <2>5. UNCHANGED record /\ Made(r)' = {}
    BY <1>2, <2>1 DEF Revoke
  <2>6. Told(r)' \in {"ok", "refused", "inProgress", "limited"} => Made(r)' = request'[r].answer.made
    BY <2>2, <2>5
  <2> QED
    BY <1>1, <1>2, <2>2, <2>3, <2>4, <2>5, <2>6, AnswerPreserves
<1> QED
  BY <1>3, <1>4 DEF Revoke

\* The row that a new key adds.
LEMMA InsertKeyMade ==
  ASSUME IInv, NEW r \in Requests, At(r, "insertKey"),
         apiKeys' = Append(apiKeys, NewKey(r)), UNCHANGED watchpoints
  PROVE  /\ apiKeys' \in Seq(APIKeys) /\ DOMAIN apiKeys' = DOMAIN apiKeys \cup {Len(apiKeys) + 1}
         /\ \A i \in DOMAIN apiKeys : apiKeys'[i] = apiKeys[i]
         /\ Made(r)' = {Len(apiKeys) + 1} /\ \A q \in Requests \ {r} : Made(q)' = Made(q)
<1>1. Started(r) /\ AttemptHolds(r) /\ request[r] \in Attempts /\ apiKeys \in Seq(APIKeys)
  BY StartedTypes DEF IInv, At, Typed
<1>2. /\ Made(r) = {} /\ Body(r) \in Bodies /\ request[r].old \in 0..Never
      /\ Rotation(Body(r)) \/ Body(r).op = "create"
  BY <1>1 DEF AttemptHolds, StepFits, NothingYet, At, Pending, Making, Body, Attempts
<1>3. NewKey(r) \in APIKeys
  <2>1. day \in 0..MaxDays
    BY DEF IInv, Typed
  <2>2. CASE Rotation(Body(r))
    <3>1. Body(r).id \in Rotated
      BY <1>2, <2>2 DEF Rotated
    <3> QED
      BY <1>2, <2>1, <2>2, <3>1 DEF NewKey, APIKeys
  <2>3. CASE ~Rotation(Body(r))
    <3>1. Body(r).expires \in 0..Never
      BY <1>2, <2>3, RequestsAssumption
    <3> QED
      BY <2>1, <2>3, <3>1 DEF NewKey, APIKeys
  <2> QED
    BY <2>2, <2>3
<1> DEFINE new == NewKey(r)
           n == Len(apiKeys) + 1
<1>4. new.by = r
  BY DEF NewKey
<1>5. /\ apiKeys' \in Seq(APIKeys) /\ DOMAIN apiKeys' = DOMAIN apiKeys \cup {n}
      /\ \A i \in DOMAIN apiKeys : apiKeys'[i] = apiKeys[i]
      /\ apiKeys'[n] = new /\ n \notin DOMAIN apiKeys
  <2> HIDE DEF new
  <2>1. new \in APIKeys /\ apiKeys' = Append(apiKeys, new)
    BY <1>3 DEF new
  <2>2. /\ apiKeys' \in Seq(APIKeys) /\ Len(apiKeys') = n /\ apiKeys'[n] = new
        /\ \A i \in 1..Len(apiKeys) : apiKeys'[i] = apiKeys[i]
    BY <1>1, <2>1, AppendProperties
  <2>3. Len(apiKeys) \in Nat /\ DOMAIN apiKeys = 1..Len(apiKeys) /\ DOMAIN apiKeys' = 1..n
    BY <1>1, <2>2, LenProperties
  <2> QED
    BY <2>2, <2>3
<1> HIDE DEF new, n
<1>6. ASSUME NEW q \in Requests
      PROVE  Made(q)' = Made(q) \cup {i \in {n} : q = r}
  BY <1>4, <1>5 DEF Made
<1>7. Made(r)' = {n} /\ \A q \in Requests \ {r} : Made(q)' = Made(q)
  BY <1>2, <1>6
<1> QED
  BY <1>5, <1>7 DEF n

LEMMA InsertKeyPreserves ==
  ASSUME IInv, NEW r \in Requests, InsertKey(r)
  PROVE  IInv'
<1>1. Started(r) /\ At(r, "insertKey") /\ request[r].at \in Pending \cap Making /\ AttemptHolds(r)
  BY StartedTypes DEF IInv, InsertKey, At, Pending, Unclaimed, Making
<1> DEFINE answer == [code |-> "ok", made |-> {Len(apiKeys) + 1},
                      until |-> IF Rotation(Body(r)) THEN GraceEnd ELSE 0]
<1>2. /\ apiKeys' \in Seq(APIKeys) /\ DOMAIN apiKeys' = DOMAIN apiKeys \cup {Len(apiKeys) + 1}
      /\ \A i \in DOMAIN apiKeys : apiKeys'[i] = apiKeys[i]
      /\ Made(r)' = {Len(apiKeys) + 1} /\ \A q \in Requests \ {r} : Made(q)' = Made(q)
  BY <1>1, InsertKeyMade DEF InsertKey
<1>3. answer \in Answers
  <2>1. GraceEnd \in Nat /\ Len(apiKeys) + 1 \in Nat
    BY LenProperties, RequestsAssumption DEF IInv, Typed, GraceEnd
  <2>2. {Len(apiKeys) + 1} \in SUBSET MadeThings
    BY <2>1 DEF MadeThings
  <2> QED
    BY <2>1, <2>2 DEF Answers, Codes
<1>4. /\ Kept(r) /\ Claimed(r)' = Claimed(r) /\ Source(r)' = Source(r)
      /\ request'[r].at = IF Claimed(r) THEN "save" ELSE "answered"
      /\ request'[r].answer = answer
  BY <1>1, <1>3, RespondKeeps DEF InsertKey, IInv, Claimed, Source
<1>5. Typed'
  BY <1>2, <1>4 DEF IInv, Typed, Kept, InsertKey
<1>6. Frame(r) /\ UNCHANGED record
  BY <1>1, <1>2, <1>4 DEF Frame, At, InsertKey
<1>7. Made(r)' = request'[r].answer.made
  BY <1>2, <1>4
<1>8. Rotation(Body(r)) =>
        /\ Body(r).id \in DOMAIN apiKeys' /\ request'[r].answer.until = GraceEnd
        /\ apiKeys'[Body(r).id].expires = GraceEnd
  BY <1>1, <1>2, <1>4 DEF AttemptHolds, GraceHolds
<1> QED
  BY <1>1, <1>4, <1>5, <1>6, <1>7, <1>8, AnswerPreserves

LEMMA InsertKeyFailsPreserves ==
  ASSUME IInv, NEW r \in Requests, InsertKeyFails(r)
  PROVE  IInv'
<1>1. Started(r) /\ At(r, "insertKey") /\ request[r].at \in Pending \cap Making
  BY StartedTypes DEF IInv, InsertKeyFails, At, Pending, Unclaimed, Making
<1>2. /\ Kept(r) /\ Claimed(r)' = Claimed(r) /\ Source(r)' = Source(r)
      /\ request'[r].at = IF Claimed(r) THEN "save" ELSE "answered"
      /\ Told(r)' = "error"
  BY <1>1, AnswerKeeps DEF InsertKeyFails, Codes, IInv, Claimed, Source, Told
<1>3. undisturbed' \subseteq undisturbed /\ UNCHANGED record
  BY DEF InsertKeyFails, Disturb
<1>4. CASE UNCHANGED apiKeys
  <2>1. Typed' /\ Frame(r)
    BY <1>1, <1>2, <1>3, <1>4, QuietFrame DEF InsertKeyFails, At
  <2> QED
    BY <1>1, <1>2, <1>3, <2>1, AnswerPreserves
<1>5. CASE apiKeys' = Append(apiKeys, NewKey(r))
  <2>1. /\ apiKeys' \in Seq(APIKeys) /\ DOMAIN apiKeys \subseteq DOMAIN apiKeys'
        /\ \A i \in DOMAIN apiKeys : apiKeys'[i] = apiKeys[i]
        /\ \A q \in Requests \ {r} : Made(q)' = Made(q)
    BY <1>1, <1>5, InsertKeyMade DEF InsertKeyFails
  <2>2. Typed'
    BY <1>2, <1>3, <2>1 DEF IInv, Typed, Kept, InsertKeyFails
  <2>3. Frame(r)
    BY <1>1, <1>2, <1>3, <2>1 DEF Frame, At, InsertKeyFails
  <2> QED
    BY <1>1, <1>2, <1>3, <2>2, <2>3, AnswerPreserves
<1> QED
  BY <1>4, <1>5 DEF InsertKeyFails

-----------------------------------------------------------------------------
(* Requests that arrive, days that pass, and rows that are deleted.         *)

\* The state of a request that did not start.
LEMMA IdleMadeNothing ==
  ASSUME IInv, NEW r \in Requests, ~Started(r)
  PROVE  Made(r) = {}
  BY DEF IInv, AttemptHolds

LEMMA SendPreserves ==
  ASSUME IInv, NEW r \in Requests, NEW k \in IdempotencyKeys \cup {NoKey}, NEW b \in Bodies,
         Send(r, k, b)
  PROVE  IInv'
<1>1. ~Started(r)
  BY StartedTypes DEF IInv, Send, At
<1> DEFINE new == [at |-> "admit", key |-> k, body |-> b, claimed |-> FALSE, answer |-> NoAnswer,
                   replayOf |-> NoKey, old |-> 0]
<1>2. new \in Attempts
  <2>1. NoAnswer \in Answers
    BY DEF NoAnswer, Answers, Codes
  <2>2. 0 \in 0..Never
    BY RequestsAssumption
  <2> QED
    BY <2>1, <2>2 DEF Attempts, Steps
<1>3. /\ request' \in [Requests -> {Idle} \cup Attempts] /\ request'[r] = new
      /\ \A q \in Requests \ {r} : request'[q] = request[q]
  BY <1>2 DEF IInv, Typed, Send
<1>4. UNCHANGED <<record, watchpoints, apiKeys, day>> /\ undisturbed' \subseteq undisturbed
  BY DEF Send
<1>5. Typed'
  BY <1>3, <1>4 DEF IInv, Typed
<1>6. \A q \in Requests : Made(q)' = Made(q)
  BY <1>4 DEF Made
<1>7. /\ request'[r].at = "admit" /\ request'[r].key = k /\ request'[r].body = b
      /\ request'[r].claimed = FALSE /\ request'[r].answer.code = "none"
      /\ request'[r].replayOf = NoKey
  BY <1>3 DEF NoAnswer
<1>8. AttemptHolds(r)'
  <2>1. Started(r)'
    BY <1>7 DEF Started, Idle
  <2>2. Made(r)' = {}
    BY <1>1, <1>6, IdleMadeNothing
  <2>3. StepFits(r)' /\ NothingYet(r)' /\ ReplayHolds(r)' /\ AnswerHolds(r)'
    BY <1>7, <2>2 DEF StepFits, At, NothingYet, ReplayHolds, AnswerHolds, Told, Source, Claimed
  <2>4. ClaimHolds(r)' /\ OwnerMakes(r)' /\ GraceHolds(r)'
    BY <1>7, <2>2 DEF ClaimHolds, OwnerMakes, GraceHolds, At, Told, Claimed, Making
  <2> QED
    BY <2>1, <2>3, <2>4 DEF AttemptHolds
<1>9. ASSUME NEW q \in Requests \ {r}
      PROVE  AttemptHolds(q)'
  <2>1. request'[q] = request[q] /\ Made(q)' = Made(q) /\ AttemptHolds(q)
    BY <1>3, <1>6 DEF IInv
  <2>2. CASE ~Started(q)
    BY <2>1, <2>2 DEF AttemptHolds, Started, Idle
  <2>3. CASE Started(q)
    <3>1. Started(q)' /\ StepFits(q)' /\ NothingYet(q)' /\ AnswerHolds(q)'
      BY <2>1, <2>3 DEF AttemptHolds, Started, Idle, StepFits, NothingYet, AnswerHolds, At, Body,
                        Told, Source, Claimed
    <3>2. ClaimHolds(q)' /\ OwnerMakes(q)' /\ GraceHolds(q)'
      BY <1>4, <2>1, <2>3 DEF AttemptHolds, ClaimHolds, OwnerMakes, GraceHolds, GraceEnd, At, Key,
                              Claimed, Source, InFlight, Body, Told
    <3>3. ReplayHolds(q)'
      <4>1. ReplayHolds(q)
        BY <2>1, <2>3 DEF AttemptHolds
      <4>2. CASE Source(q) = NoKey
        BY <2>1, <4>2 DEF ReplayHolds, Source
      <4>3. CASE Source(q) # NoKey
        <5>1. Source(q) \in Requests \ {r}
          <6>1. Source(q) \in Requests /\ At(Source(q), "answered")
            BY <2>3, <4>1, <4>3, StartedTypes DEF ReplayHolds, Source, IInv, Attempts
          <6> QED
            BY <6>1 DEF Send, At
        <5> QED
          BY <1>3, <2>1, <4>1, <4>3, <5>1 DEF ReplayHolds, Source, At, Told
      <4> QED
        BY <4>2, <4>3
    <3> QED
      BY <3>1, <3>2, <3>3 DEF AttemptHolds
  <2> QED
    BY <2>2, <2>3
<1>10. OneBodyPerKey'
  <2> SUFFICES ASSUME NEW p \in Requests, NEW q \in Requests,
                      Started(p)', Started(q)', Key(p)' = Key(q)', Key(q)' # NoKey
               PROVE  Body(p)' = Body(q)'
    BY DEF OneBodyPerKey
  <2>1. \A q1 \in Requests \ {r} : Started(q1)' => Started(q1)
    BY <1>3 DEF Started, Idle
  <2>2. \A q1 \in Requests \ {r} : Started(q1) /\ Key(q1) = k /\ k # NoKey => Body(q1) = b
    BY DEF Send, Started
  <2> QED
    BY <1>3, <1>7, <2>1, <2>2 DEF Key, Body, IInv, OneBodyPerKey
<1>11. \A j \in IdempotencyKeys : RecordHolds(j)'
  <2> SUFFICES ASSUME NEW j \in IdempotencyKeys, record[j] # Absent
               PROVE  RecordHolds(j)'
    BY <1>4 DEF RecordHolds
  <2>1. record[j].owner \in Requests /\ RecordHolds(j)
    BY DEF IInv, Typed, KeyRows
  <2>2. record[j].owner # r
    BY <1>1, <2>1 DEF RecordHolds
  <2> QED
    BY <1>3, <1>4, <2>1, <2>2 DEF RecordHolds, Started, Idle, Key, At, Source, Told
<1> QED
  BY <1>5, <1>8, <1>9, <1>10, <1>11 DEF IInv

\* No request is in flight when the day ends: what is owned by one that runs
\* and what a rotation relies on does not come to matter.
LEMMA NextDayPreserves ==
  ASSUME IInv, NextDay
  PROVE  IInv'
<1>1. UNCHANGED <<request, record, watchpoints, apiKeys, undisturbed>> /\ day' = day + 1
  BY DEF NextDay
<1>2. day \in Nat /\ day' \in 0..MaxDays /\ \A r \in Requests : Started(r) => request[r].answer.until \in Nat
  BY StartedTypes, RequestsAssumption DEF IInv, Typed, NextDay, Attempts, Answers
<1>3. Typed'
  <2>1. \A k \in IdempotencyKeys : record'[k] # Absent => record'[k].created <= day'
    <3>1. ASSUME NEW k \in IdempotencyKeys, record[k] # Absent
          PROVE  record[k].created <= day + 1
      <4>1. record[k].created \in Nat /\ record[k].created <= day
        BY <3>1, RequestsAssumption DEF IInv, Typed, KeyRows
      <4> QED
        BY <1>2, <4>1
    <3> QED
      BY <1>1, <3>1
  <2> QED
    BY <1>1, <1>2, <2>1 DEF IInv, Typed
<1>4. ASSUME NEW r \in Requests
      PROVE  AttemptHolds(r)'
  <2>1. AttemptHolds(r) /\ Made(r)' = Made(r)
    BY <1>1 DEF IInv, Made
  <2>2. CASE ~Started(r)
    BY <1>1, <2>1, <2>2 DEF AttemptHolds, Started
  <2>3. CASE Started(r)
    <3>1. request[r].at \in {"answered", "crashed"}
      BY <2>3, StartedTypes DEF NextDay, InFlight, IInv
    <3>2. Started(r)' /\ StepFits(r)' /\ NothingYet(r)' /\ ReplayHolds(r)' /\ AnswerHolds(r)'
            /\ OwnerMakes(r)'
      BY <1>1, <2>1, <2>3 DEF AttemptHolds, Started, StepFits, NothingYet, ReplayHolds, AnswerHolds,
                              OwnerMakes, At, Body, Told, Source, Claimed, Key
    <3>3. ClaimHolds(r)'
      BY <1>1, <2>1, <2>3, <3>1 DEF AttemptHolds, ClaimHolds, At, Key, Claimed, Source, InFlight
    <3>4. GraceHolds(r)'
      BY <1>1, <1>2, <2>1, <2>3, <3>1 DEF AttemptHolds, GraceHolds, At, Body, Told, GraceEnd
    <3> QED
      BY <3>2, <3>3, <3>4 DEF AttemptHolds
  <2> QED
    BY <2>2, <2>3
<1>5. OneBodyPerKey' /\ \A k \in IdempotencyKeys : RecordHolds(k)'
  BY <1>1 DEF IInv, OneBodyPerKey, RecordHolds, Started, Key, Body, At, Source, Told
<1> QED
  BY <1>3, <1>4, <1>5 DEF IInv

\* Only rows of days that are over are deleted, so none of an attempt that runs.
LEMMA PurgePreserves ==
  ASSUME IInv, PurgeExpiredIdempotencyKeys
  PROVE  IInv'
<1>1. UNCHANGED <<request, watchpoints, apiKeys, day>>
  BY DEF PurgeExpiredIdempotencyKeys
<1>2. /\ record' \in [IdempotencyKeys -> {Absent} \cup KeyRows]
      /\ \A k \in IdempotencyKeys : record'[k] # Absent => record'[k] = record[k]
      /\ \A k \in IdempotencyKeys : record[k] # Absent /\ ~(record[k].created < day) =>
           record'[k] = record[k]
      /\ undisturbed' \subseteq undisturbed
      /\ \A k \in undisturbed' : record'[k] = record[k]
  BY DEF PurgeExpiredIdempotencyKeys, IInv, Typed
<1>3. Typed'
  BY <1>1, <1>2 DEF IInv, Typed
<1>4. ASSUME NEW r \in Requests
      PROVE  AttemptHolds(r)'
  <2>1. AttemptHolds(r) /\ Made(r)' = Made(r)
    BY <1>1 DEF IInv, Made
  <2>2. CASE ~Started(r)
    BY <1>1, <2>1, <2>2 DEF AttemptHolds, Started
  <2>3. CASE Started(r)
    <3>1. Started(r)' /\ StepFits(r)' /\ NothingYet(r)' /\ ReplayHolds(r)' /\ AnswerHolds(r)'
      BY <1>1, <2>1, <2>3 DEF AttemptHolds, Started, StepFits, NothingYet, ReplayHolds, AnswerHolds,
                              At, Body, Told, Source, Claimed
    <3>2. GraceHolds(r)'
      BY <1>1, <2>1, <2>3 DEF AttemptHolds, GraceHolds, At, Body, Told, GraceEnd
    <3>3. OwnerMakes(r)'
      BY <1>1, <1>2, <2>1, <2>3 DEF AttemptHolds, OwnerMakes, Key
    <3>4. ClaimHolds(r)'
      <4>1. ClaimHolds(r) /\ day \in Nat
        BY <2>1, <2>3, RequestsAssumption DEF AttemptHolds, IInv, Typed
      <4>2. CASE Claimed(r) /\ InFlight(r)
        <5>1. record'[Key(r)] = record[Key(r)]
          BY <1>2, <4>1, <4>2 DEF ClaimHolds
        <5> QED
          BY <1>1, <4>1, <4>2, <5>1 DEF ClaimHolds, At, Key, Claimed, Source, InFlight
      <4>3. CASE ~(Claimed(r) /\ InFlight(r))
        BY <1>1, <4>1, <4>3 DEF ClaimHolds, At, Key, Claimed, Source, InFlight
      <4> QED
        BY <4>2, <4>3
    <3> QED
      BY <3>1, <3>2, <3>3, <3>4 DEF AttemptHolds
  <2> QED
    BY <2>2, <2>3
<1>5. OneBodyPerKey'
  BY <1>1 DEF IInv, OneBodyPerKey, Started, Key, Body
<1>6. ASSUME NEW k \in IdempotencyKeys
      PROVE  RecordHolds(k)'
  BY <1>1, <1>2 DEF IInv, RecordHolds, Started, Key, At, Source, Told
<1> QED
  BY <1>3, <1>4, <1>5, <1>6 DEF IInv

-----------------------------------------------------------------------------
(* The invariant.                                                           *)

LEMMA InitHolds == Init => IInv
<1> SUFFICES ASSUME Init
             PROVE  IInv
  OBVIOUS
<1>1. \A r \in Requests : request[r] = Idle
  BY DEF Init
<1>2. PICK first \in FirstKeys : apiKeys = [i \in DOMAIN first |->
        [by |-> NoKey, created |-> 0, expires |-> first[i], revoked |-> FALSE, from |-> 0]]
  BY DEF Init
<1>3. first \in Seq(0..Never)
  BY RequestsAssumption
<1>4. /\ Len(first) \in Nat /\ DOMAIN first = 1..Len(first)
      /\ \A i \in 1..Len(first) : first[i] \in 0..Never
  BY <1>3, LenProperties, ElementOfSeq
<1>5. \A i \in DOMAIN first :
        [by |-> NoKey, created |-> 0, expires |-> first[i], revoked |-> FALSE, from |-> 0] \in APIKeys
  BY <1>4, RequestsAssumption DEF APIKeys
<1>6. apiKeys \in Seq(APIKeys)
  <2>1. apiKeys \in [1..Len(first) -> APIKeys]
    BY <1>2, <1>4, <1>5
  <2> QED
    BY <1>4, <2>1, SeqDef
<1>7. Typed
  BY <1>6, RequestsAssumption DEF Init, Typed
<1>8. \A r \in Requests : Made(r) = {}
  BY <1>2, RequestsAssumption DEF Init, Made
<1>9. \A r \in Requests : AttemptHolds(r)
  BY <1>1, <1>8 DEF AttemptHolds, Started
<1>10. OneBodyPerKey /\ \A k \in IdempotencyKeys : RecordHolds(k)
  BY <1>1 DEF Init, OneBodyPerKey, RecordHolds, Started
<1> QED
  BY <1>7, <1>9, <1>10 DEF IInv

\* Nothing in the invariant speaks of anything but the variables.
LEMMA StutterPreserves ==
  ASSUME IInv, UNCHANGED vars
  PROVE  IInv'
<1> USE DEF vars
<1>1. Typed' /\ OneBodyPerKey' /\ \A k \in IdempotencyKeys : RecordHolds(k)'
  BY DEF IInv, Typed, OneBodyPerKey, RecordHolds, Started, Key, Body, At, Source, Told
<1>2. ASSUME NEW r \in Requests
      PROVE  AttemptHolds(r)'
  <2>1. AttemptHolds(r) /\ Made(r)' = Made(r)
    BY DEF IInv, Made
  <2> QED
    BY <2>1 DEF AttemptHolds, Started, StepFits, NothingYet, ReplayHolds, AnswerHolds, ClaimHolds,
                OwnerMakes, GraceHolds, GraceEnd, InFlight, At, Body, Told, Source, Claimed, Key
<1> QED
  BY <1>1, <1>2 DEF IInv

\* The inductive invariant of the middleware, for every number of requests, keys and
\* days: what each attempt has claimed, made and answered at every step of its handler.
THEOREM InvariantHolds == Spec => []IInv
<1>1. Init => IInv
  BY InitHolds
<1>2. IInv /\ [Next]_vars => IInv'
  <2> SUFFICES ASSUME IInv, [Next]_vars
               PROVE  IInv'
    OBVIOUS
  <2>1. CASE UNCHANGED vars
    BY <2>1, StutterPreserves
  <2>2. CASE NextDay
    BY <2>2, NextDayPreserves
  <2>3. CASE PurgeExpiredIdempotencyKeys
    BY <2>3, PurgePreserves
  <2>4. ASSUME NEW r \in Requests, \E k \in IdempotencyKeys \cup {NoKey}, b \in Bodies : Send(r, k, b)
        PROVE  IInv'
    BY <2>4, SendPreserves
  <2>5. ASSUME NEW r \in Requests, Middleware(r)
        PROVE  IInv'
    BY <2>5, RateLimitPreserves, LookupPreserves, LookupFailsPreserves, ClaimPreserves, SavePreserves
    DEF Middleware
  <2>6. ASSUME NEW r \in Requests, BulkCreate(r)
        PROVE  IInv'
    BY <2>6, CheckLimitPreserves, CreateBatchPreserves, CreateBatchFailsPreserves DEF BulkCreate
  <2>7. ASSUME NEW r \in Requests, APIKeyHandler(r)
        PROVE  IInv'
    BY <2>7, CountRecentPreserves, GetByIDPreserves, ExpireOldPreserves, InsertKeyPreserves,
       InsertKeyFailsPreserves, RevokePreserves DEF APIKeyHandler
  <2>8. ASSUME NEW r \in Requests, Crash(r)
        PROVE  IInv'
    BY <2>8, CrashPreserves
  <2> QED
    BY <2>1, <2>2, <2>3, <2>4, <2>5, <2>6, <2>7, <2>8 DEF Next
<1> QED
  BY <1>1, <1>2, PTL DEF Spec

-----------------------------------------------------------------------------
(* What it is for.                                                          *)

LEMMA TypesFollow == IInv => TypeOK
<1> SUFFICES ASSUME IInv
             PROVE  TypeOK
  OBVIOUS
<1>1. \A r \in Requests : request[r] # Idle =>
        /\ request[r].at \in Steps /\ request[r].body \in Bodies
        /\ request[r].key \in IdempotencyKeys \cup {NoKey}
        /\ request[r].claimed \in BOOLEAN
        /\ request[r].answer.code \in Codes
  BY DEF IInv, Typed, Attempts, Answers
<1>2. \A k \in IdempotencyKeys : record[k] # Absent =>
        /\ record[k].status \in {"processing", "completed", "failed"}
        /\ record[k].owner \in Requests /\ record[k].created \in 0..day
  BY RequestsAssumption DEF IInv, Typed, KeyRows
<1>3. \A i \in DOMAIN apiKeys :
        /\ apiKeys[i].expires \in 0..Never /\ apiKeys[i].revoked \in BOOLEAN
        /\ apiKeys[i].created \in 0..MaxDays
  BY KeyTypes DEF IInv, APIKeys
<1> QED
  BY <1>1, <1>2, <1>3 DEF IInv, Typed, TypeOK

LEMMA ClaimsFollow == IInv => ClaimIsExclusive
<1> SUFFICES ASSUME IInv, NEW r \in Requests, Started(r)
             PROVE  /\ request[r].claimed /\ InFlight(r) =>
                         /\ record[Key(r)] # Absent /\ record[Key(r)].owner = r
                         /\ record[Key(r)].status = "processing"
                    /\ request[r].replayOf # NoKey =>
                         request[r].answer = request[request[r].replayOf].answer
  BY DEF ClaimIsExclusive
<1>1. ClaimHolds(r) /\ ReplayHolds(r)
  BY DEF IInv, AttemptHolds
<1> QED
  BY <1>1 DEF ClaimHolds, ReplayHolds, Claimed, Source

\* Whoever made something under a key that was not disturbed owns its row.
LEMMA ExecutionsFollow == IInv => ExecutedOnce
<1> SUFFICES ASSUME IInv, NEW k \in undisturbed
             PROVE  Cardinality({r \in Requests : Started(r) /\ Key(r) = k /\ Made(r) # {}}) <= 1
  BY DEF ExecutedOnce
<1> DEFINE Makers == {r \in Requests : Started(r) /\ Key(r) = k /\ Made(r) # {}}
<1>1. \A r \in Makers : r = record[k].owner
  BY DEF IInv, AttemptHolds, OwnerMakes
<1>2. Makers \subseteq {record[k].owner}
  BY <1>1
<1>3. IsFiniteSet({record[k].owner}) /\ Cardinality({record[k].owner}) = 1
  BY FS_Singleton
<1>4. Cardinality(Makers) <= Cardinality({record[k].owner})
  BY <1>2, <1>3, FS_Subset
<1> QED
  BY <1>3, <1>4

LEMMA TruthFollows == IInv => AnswersAreTrue
<1> SUFFICES ASSUME IInv, NEW r \in Requests, Started(r)
             PROVE  LET attempt == IF Source(r) = NoKey THEN r ELSE Source(r)
                    IN  /\ Told(r) \in {"ok", "refused", "inProgress", "limited"} =>
                              Made(attempt) = request[r].answer.made
                        /\ Told(r) = "error" => attempt = r
  BY DEF AnswersAreTrue, Source
<1>1. ReplayHolds(r) /\ AnswerHolds(r)
  BY DEF IInv, AttemptHolds
<1>2. CASE Source(r) = NoKey
  BY <1>1, <1>2 DEF AnswerHolds
<1>3. CASE Source(r) # NoKey
  <2>1. Source(r) \in Requests
    BY <1>3, StartedTypes DEF IInv, Attempts, Source
  <2>2. Started(Source(r)) /\ Source(Source(r)) = NoKey /\ request[r].answer = request[Source(r)].answer
    BY <1>1, <1>3, <2>1, StartedTypes DEF ReplayHolds, IInv, At
  <2>3. AnswerHolds(Source(r))
    BY <2>1, <2>2 DEF IInv, AttemptHolds
  <2> QED
    BY <1>1, <1>3, <2>2, <2>3 DEF AnswerHolds, ReplayHolds, Told
<1> QED
  BY <1>2, <1>3

LEMMA GraceFollows == IInv => GraceIsKept
  BY DEF IInv, AttemptHolds, GraceHolds, GraceIsKept, Working, Unrevoked

\* In every state the rows of the model are of the types that the code gives them,
\* for every number of requests, keys and days.
THEOREM TypeCorrect == Spec => []TypeOK
  BY InvariantHolds, TypesFollow, PTL

\* The idempotency middleware (idempotency.go): the row of a key in progress belongs
\* to the attempt that runs under it, a stored response is the one of the attempt
\* that made it, and under a key whose attempts follow one another and whose
\* statements do not fail at most one attempt leaves anything behind.
THEOREM ExecutedAtMostOnce == Spec => []IdempotencyHolds
<1>1. IInv => IdempotencyHolds
  BY TypesFollow, ClaimsFollow, ExecutionsFollow DEF IdempotencyHolds
<1> QED
  BY <1>1, InvariantHolds, PTL

\* What a client was told of what was made is so, also if the answer was a stored
\* one, and a key that was rotated works as long as its holder was promised.
THEOREM AnswersAreKept == Spec => []AnswersHold
<1>1. IInv => AnswersHold
  BY TruthFollows, GraceFollows DEF AnswersHold
<1> QED
  BY <1>1, InvariantHolds, PTL
=============================================================================
