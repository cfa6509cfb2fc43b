------------------------------ MODULE Requests ------------------------------
(***************************************************************************)
(* HTTP requests of one organization: the rate limit and the idempotency   *)
(* keys of the middleware around the handlers that make WatchPoints in a   *)
(* batch and that create, rotate and revoke API keys.  A client may lose   *)
(* an answer, retry, and retry before the first attempt has ended; a       *)
(* process may die between any two statements.  Time is counted in days,   *)
(* the lifetime of an idempotency key and of a key that was rotated.       *)
(***************************************************************************)
EXTENDS Naturals, FiniteSets, Sequences

CONSTANTS
  Requests,         \* HTTP requests, those sent again included
  IdempotencyKeys,  \* values of the header
  NoKey,            \* a request without the header
  Bodies,           \* what is asked for
  MaxWatchPoints,   \* the limit of the plan
  KeysPerHour,      \* apiKeyRateLimitMax
  Never,            \* expires_at IS NULL: later than any day
  FirstKeys,        \* the API keys an organization may start with, by their last day
  MaxDays           \* bound: days that pass

Rotation(b) == b.op = "rotate"

ASSUME RequestsAssumption ==
  /\ NoKey \notin IdempotencyKeys
  /\ {MaxWatchPoints, KeysPerHour, MaxDays} \subseteq Nat
  /\ Never \in Nat /\ Never > MaxDays + 1
  /\ FirstKeys \subseteq Seq(0..Never)
  /\ NoKey \notin Requests
  /\ \A b \in Bodies :
       /\ b.op \in {"bulk", "create", "rotate", "revoke"}
       /\ b.op = "bulk" => b.valid \subseteq Nat
       /\ b.op = "create" => b.expires \in 0..Never

VARIABLES
  request,     \* request -> what it asks for, where it is, what it was told
  record,      \* idempotency key -> its row in idempotency_keys
  watchpoints, \* rows: <<request that made it, index in the batch>>
  apiKeys,     \* rows of api_keys, in the order they were inserted
  day,
  undisturbed  \* idempotency keys whose requests never overlapped or met a failure

vars == <<request, record, watchpoints, apiKeys, day, undisturbed>>

Idle     == [at |-> "idle"]
Absent   == [status |-> "absent"]
NoAnswer == [code |-> "none", made |-> {}, until |-> 0]

\* 2xx, 4xx, 5xx, and the 409 and 429 of the middleware itself.
Codes == {"none", "ok", "refused", "error", "inProgress", "limited"}

Steps == {"idle", "admit", "lookup", "claim", "checkLimit", "insertBatch", "countRecent",
          "getKey", "expireOld", "insertKey", "revoke", "save", "answered", "crashed"}

InFlight(r) == request[r].at \notin {"idle", "answered", "crashed"}

TypeOK ==
  /\ \A r \in Requests : request[r] # Idle =>
       /\ request[r].at \in Steps /\ request[r].body \in Bodies
       /\ request[r].key \in IdempotencyKeys \cup {NoKey}
       /\ request[r].claimed \in BOOLEAN
       /\ request[r].answer.code \in Codes
  /\ \A k \in IdempotencyKeys : record[k] # Absent =>
       /\ record[k].status \in {"processing", "completed", "failed"}
       /\ record[k].owner \in Requests /\ record[k].created \in 0..day
  /\ watchpoints \in SUBSET (Requests \X Nat)
  /\ \A i \in DOMAIN apiKeys :
       /\ apiKeys[i].expires \in 0..Never /\ apiKeys[i].revoked \in BOOLEAN
       /\ apiKeys[i].created \in 0..MaxDays
  /\ day \in 0..MaxDays
  /\ undisturbed \subseteq IdempotencyKeys

Init ==
  /\ request = [r \in Requests |-> Idle]
  /\ record = [k \in IdempotencyKeys |-> Absent]
  /\ watchpoints = {}
  /\ \E first \in FirstKeys : apiKeys = [i \in DOMAIN first |->
       [by |-> NoKey, created |-> 0, expires |-> first[i], revoked |-> FALSE, from |-> 0]]
  /\ day = 0
  /\ undisturbed = IdempotencyKeys

-----------------------------------------------------------------------------
(* The chain of middleware.                                                 *)

At(r, step)   == request[r].at = step
Key(r)        == request[r].key
Body(r)       == request[r].body
Goto(r, step) == request' = [request EXCEPT ![r].at = step]
Disturb(r)    == undisturbed' = undisturbed \ {Key(r)}

HandlerOf(b) == [bulk |-> "checkLimit", create |-> "countRecent",
                 rotate |-> "getKey", revoke |-> "revoke"][b.op]

\* A response of the handler goes to the capturer if there is one.
Answered(r, answer) ==
  [request EXCEPT ![r].at = IF request[r].claimed THEN "save" ELSE "answered", ![r].answer = answer]
Answer(r, code)  == request' = Answered(r, [NoAnswer EXCEPT !.code = code])
Respond(r, answer) == request' = Answered(r, answer)

\* A client does not use a key for two different bodies.  Attempts of the same
\* key that overlap disturb it.
Send(r, k, b) ==
  /\ At(r, "idle")
  /\ \A q \in Requests : k # NoKey /\ request[q] # Idle /\ Key(q) = k => Body(q) = b
  /\ request' = [request EXCEPT ![r] =
       [at |-> "admit", key |-> k, body |-> b, claimed |-> FALSE, answer |-> NoAnswer,
        replayOf |-> NoKey, old |-> 0]]
  /\ undisturbed' = undisturbed \
       {j \in {k} : \E q \in Requests : InFlight(q) /\ Key(q) = j}
  /\ UNCHANGED <<record, watchpoints, apiKeys, day>>

\* RateLimit: the store refuses, allows, or fails, which allows.  Only a POST with
\* a key goes through the next stage.
RateLimit(r) ==
  /\ At(r, "admit")
  /\ \/ Goto(r, IF Key(r) # NoKey /\ Body(r).op # "revoke" THEN "lookup" ELSE HandlerOf(Body(r)))
     \/ Answer(r, "limited")
  /\ UNCHANGED <<record, watchpoints, apiKeys, day, undisturbed>>

\* The response that is stored is given again, or the attempt is refused because
\* another one is in progress; a key that is new or failed is to be claimed.
Lookup(r) ==
  /\ At(r, "lookup")
  /\ CASE record[Key(r)].status = "completed" ->
            request' = [request EXCEPT ![r] =
              [@ EXCEPT !.at = "answered", !.answer = record[Key(r)].answer,
                        !.replayOf = record[Key(r)].owner]]
       [] record[Key(r)].status = "processing" -> Answer(r, "inProgress")
       [] OTHER -> Goto(r, "claim")
  /\ UNCHANGED <<record, watchpoints, apiKeys, day, undisturbed>>

\* The store fails: the handler is run all the same.
LookupFails(r) ==
  /\ At(r, "lookup")
  /\ Goto(r, HandlerOf(Body(r)))
  /\ Disturb(r)
  /\ UNCHANGED <<record, watchpoints, apiKeys, day>>

\* Mutant: the row of a failed attempt is taken over.
ClaimFailed(r) ==
  /\ At(r, "claim")
  /\ IF record[Key(r)].status \in {"absent", "failed"}
     THEN /\ record' = [record EXCEPT ![Key(r)] =
               [status |-> "processing", owner |-> r, created |-> day, answer |-> NoAnswer]]
          /\ request' = [request EXCEPT ![r].at = HandlerOf(Body(r)), ![r].claimed = TRUE]
     ELSE /\ request' = [request EXCEPT ![r].at = HandlerOf(Body(r)), ![r].claimed = TRUE]
          /\ UNCHANGED record
  /\ UNCHANGED <<watchpoints, apiKeys, day, undisturbed>>

\* Create refuses a key that has a row, also the row of a failed attempt.  If it
\* refuses or fails the handler is run without a claim, and its response not kept.
Claim(r) ==
  /\ At(r, "claim")
  /\ \/ /\ record[Key(r)] = Absent
        /\ record' = [record EXCEPT ![Key(r)] =
             [status |-> "processing", owner |-> r, created |-> day, answer |-> NoAnswer]]
        /\ request' = [request EXCEPT ![r].at = HandlerOf(Body(r)), ![r].claimed = TRUE]
        /\ UNCHANGED undisturbed
     \/ /\ Goto(r, HandlerOf(Body(r)))
        /\ Disturb(r)
        /\ UNCHANGED record
  /\ UNCHANGED <<watchpoints, apiKeys, day>>

\* Complete or Fail.  If the store fails the row stays in progress.
Save(r) ==
  /\ At(r, "save")
  /\ \/ record' = [record EXCEPT
            ![Key(r)].status = IF request[r].answer.code = "error" THEN "failed" ELSE "completed",
            ![Key(r)].answer = IF request[r].answer.code = "error" THEN @ ELSE request[r].answer]
     \/ UNCHANGED record
  /\ Goto(r, "answered")
  /\ UNCHANGED <<watchpoints, apiKeys, day, undisturbed>>

\* The process dies, or the request runs into the deadline of its context.
Crash(r) ==
  /\ InFlight(r)
  /\ Goto(r, "crashed")
  /\ UNCHANGED <<record, watchpoints, apiKeys, day, undisturbed>>

-----------------------------------------------------------------------------
(* POST /v1/watchpoints/bulk.                                               *)

\* Items that are not valid are reported one by one, the others are counted
\* against the plan.
CheckLimit(r) ==
  /\ At(r, "checkLimit")
  /\ CASE Body(r).valid = {} -> Answer(r, "ok")
       [] Body(r).valid # {} /\ Cardinality(watchpoints) + Cardinality(Body(r).valid) > MaxWatchPoints ->
            Answer(r, "refused")
       [] OTHER -> Goto(r, "insertBatch")
  /\ UNCHANGED <<record, watchpoints, apiKeys, day, undisturbed>>

Rows(r) == {<<r, i>> : i \in Body(r).valid}

\* Mutant: one INSERT for each item; the rest is left out when one fails.
InsertEach(r) ==
  /\ At(r, "insertBatch")
  /\ \E made \in SUBSET Rows(r) :
       /\ watchpoints' = watchpoints \cup made
       /\ Respond(r, [code |-> "ok", made |-> Rows(r), until |-> 0])
  /\ UNCHANGED <<record, apiKeys, day, undisturbed>>

\* One INSERT for all of them.
CreateBatch(r) ==
  /\ At(r, "insertBatch")
  /\ watchpoints' = watchpoints \cup Rows(r)
  /\ Respond(r, [code |-> "ok", made |-> Rows(r), until |-> 0])
  /\ UNCHANGED <<record, apiKeys, day, undisturbed>>

\* The statement fails, or the connection is lost after it took effect.
CreateBatchFails(r) ==
  /\ At(r, "insertBatch")
  /\ watchpoints' \in {watchpoints, watchpoints \cup Rows(r)}
  /\ Answer(r, "error")
  /\ Disturb(r)
  /\ UNCHANGED <<record, apiKeys, day>>

-----------------------------------------------------------------------------
(* /v1/api-keys.                                                            *)

CountRecentByUser == Cardinality({i \in DOMAIN apiKeys : apiKeys[i].by # NoKey /\ apiKeys[i].created = day})

\* POST /v1/api-keys, up to the insert.
CountRecent(r) ==
  /\ At(r, "countRecent")
  /\ IF CountRecentByUser >= KeysPerHour THEN Answer(r, "refused") ELSE Goto(r, "insertKey")
  /\ UNCHANGED <<record, watchpoints, apiKeys, day, undisturbed>>

Unrevoked(i) == i \in DOMAIN apiKeys /\ ~apiKeys[i].revoked
Working(i)   == Unrevoked(i) /\ day < apiKeys[i].expires

\* POST /v1/api-keys/{id}/rotate: a key that was revoked is refused, one that
\* expired is not.  The new key is made from what is read here.
GetByID(r) ==
  /\ At(r, "getKey")
  /\ IF ~Unrevoked(Body(r).id)
     THEN Answer(r, "refused")
     ELSE request' = [request EXCEPT ![r].at = "expireOld", ![r].old = apiKeys[Body(r).id].expires]
  /\ UNCHANGED <<record, watchpoints, apiKeys, day, undisturbed>>

GraceEnd == day + 1

\* The first statement of Rotate, ...
ExpireOld(r) ==
  /\ At(r, "expireOld")
  /\ IF ~Unrevoked(Body(r).id)
     THEN Answer(r, "refused") /\ UNCHANGED apiKeys
     ELSE /\ apiKeys' = [apiKeys EXCEPT ![Body(r).id].expires = GraceEnd]
          /\ Goto(r, "insertKey")
  /\ UNCHANGED <<record, watchpoints, day, undisturbed>>

NewKey(r) ==
  [by |-> r, created |-> day, revoked |-> FALSE,
   expires |-> IF Rotation(Body(r)) THEN request[r].old ELSE Body(r).expires,
   from |-> IF Rotation(Body(r)) THEN Body(r).id ELSE 0]

\* ... and the second one, which is also what POST /v1/api-keys does.
InsertKey(r) ==
  /\ At(r, "insertKey")
  /\ apiKeys' = Append(apiKeys, NewKey(r))
  /\ Respond(r, [code |-> "ok", made |-> {Len(apiKeys) + 1},
                 until |-> IF Rotation(Body(r)) THEN GraceEnd ELSE 0])
  /\ UNCHANGED <<record, watchpoints, day, undisturbed>>

\* It fails, or the connection is lost after it took effect.  The old key goes on
\* to expire.
InsertKeyFails(r) ==
  /\ At(r, "insertKey")
  /\ apiKeys' \in {apiKeys, Append(apiKeys, NewKey(r))}
  /\ Answer(r, "error")
  /\ Disturb(r)
  /\ UNCHANGED <<record, watchpoints, day>>

\* DELETE /v1/api-keys/{id}.
Revoke(r) ==
  /\ At(r, "revoke")
  /\ IF ~Unrevoked(Body(r).id)
     THEN Answer(r, "refused") /\ UNCHANGED apiKeys
     ELSE Answer(r, "ok") /\ apiKeys' = [apiKeys EXCEPT ![Body(r).id].revoked = TRUE]
  /\ UNCHANGED <<record, watchpoints, day, undisturbed>>

-----------------------------------------------------------------------------
\* A request lasts seconds: none outlives the day.
NextDay ==
  /\ day < MaxDays /\ \A r \in Requests : ~InFlight(r)
  /\ day' = day + 1
  /\ UNCHANGED <<request, record, watchpoints, apiKeys, undisturbed>>

\* The row of an idempotency key is deleted when its day is over.
PurgeExpiredIdempotencyKeys ==
  /\ \E k \in IdempotencyKeys : record[k] # Absent /\ record[k].created < day
  /\ record' = [k \in IdempotencyKeys |->
       IF record[k] # Absent /\ record[k].created < day THEN Absent ELSE record[k]]
  /\ undisturbed' = {k \in undisturbed : record'[k] = record[k]}
  /\ UNCHANGED <<request, watchpoints, apiKeys, day>>

Middleware(r) == RateLimit(r) \/ Lookup(r) \/ LookupFails(r) \/ Claim(r) \/ Save(r)

BulkCreate(r) == CheckLimit(r) \/ CreateBatch(r) \/ CreateBatchFails(r)

APIKeyHandler(r) ==
  \/ CountRecent(r) \/ GetByID(r) \/ ExpireOld(r) \/ InsertKey(r) \/ InsertKeyFails(r) \/ Revoke(r)

Next ==
  \/ NextDay \/ PurgeExpiredIdempotencyKeys
  \/ \E r \in Requests :
       \/ \E k \in IdempotencyKeys \cup {NoKey}, b \in Bodies : Send(r, k, b)
       \/ Middleware(r) \/ BulkCreate(r) \/ APIKeyHandler(r) \/ Crash(r)

Spec == Init /\ [][Next]_vars

-----------------------------------------------------------------------------
(* Properties.                                                              *)

Started(r) == request[r] # Idle
Told(r)    == request[r].answer.code

\* What the execution of a request left in the tables.
Made(r) == {w \in watchpoints : w[1] = r} \cup {i \in DOMAIN apiKeys : apiKeys[i].by = r}

\* The row of a key in progress belongs to the attempt that runs under it, and
\* whoever is given a stored response is given the one of the attempt that made it.
ClaimIsExclusive ==
  \A r \in Requests : Started(r) =>
    /\ request[r].claimed /\ InFlight(r) =>
         record[Key(r)] # Absent /\ record[Key(r)].owner = r /\ record[Key(r)].status = "processing"
    /\ request[r].replayOf # NoKey => request[r].answer = request[request[r].replayOf].answer

\* What idempotency keys are for: as long as its attempts follow one another and
\* the database does not fail, a body is executed once however many answers are
\* lost and whatever process dies.
ExecutedOnce ==
  \A k \in undisturbed : Cardinality({r \in Requests : Started(r) /\ Key(r) = k /\ Made(r) # {}}) <= 1

IdempotencyHolds == TypeOK /\ ClaimIsExclusive /\ ExecutedOnce

\* A success names what was made, a stored one what was made by the attempt that
\* answered first; a refusal, also one that is given again, left nothing behind.  No
\* client is given an error of an attempt that was not its own.
AnswersAreTrue ==
  \A r \in Requests : Started(r) =>
    LET attempt == IF request[r].replayOf = NoKey THEN r ELSE request[r].replayOf
    IN  /\ Told(r) \in {"ok", "refused", "inProgress", "limited"} => Made(attempt) = request[r].answer.made
        /\ Told(r) = "error" => attempt = r

\* previous_key_valid_until: whoever was told that a rotated key works until then
\* may use it until then, whatever is rotated meanwhile, unless it is revoked.
GraceIsKept ==
  \A r \in Requests :
    Started(r) /\ Rotation(Body(r)) /\ Told(r) = "ok" /\ day < request[r].answer.until
      /\ Unrevoked(Body(r).id) => Working(Body(r).id)

\* Whatever a client was told holds: of what was made, and for as long as promised.
AnswersHold == AnswersAreTrue /\ GraceIsKept
=============================================================================
