------------------------------ MODULE Forecasts ------------------------------
(***************************************************************************)
(* The forecast API: one request at a time for the forecast of a point, of *)
(* a batch of locations, for a snapshot, or for the state of the models,   *)
(* while runs complete and old runs are deleted under it.  Requests share  *)
(* nothing but the runs, so one is enough.  Its names differ from those of *)
(* the rows of the runs, whose proofs stand beside those of this module.   *)
(* The lists of the API come with it: they have no state of their own.     *)
(***************************************************************************)
EXTENDS ForecastGrid, Listings, FiniteSets, Sequences, SequencesExt

CONSTANTS
  Locations,         \* [lat, lon] that are asked for
  Batches,           \* lists of [id, loc]; identifiers may repeat
  NowcastHorizon, NowcastHealthyAge, NowcastDegradedAge,
  MediumRangeHealthyAge, MediumRangeDegradedAge,
  Steps,             \* model -> number of time steps of a run
  Retention,         \* model -> age at which a run is deleted
  MaxTime            \* bound: hours that pass

Models  == {"medium_range", "nowcast"}
Entries == [id : Nat, loc : [lat : Int, lon : Int]]

ASSUME ForecastsAssumption ==
  /\ Locations \subseteq [lat : Int, lon : Int]
  /\ Batches \subseteq Seq(Entries)
  /\ NowcastHorizon \in Nat /\ MaxTime \in Nat
  /\ {NowcastHealthyAge, NowcastDegradedAge, MediumRangeHealthyAge, MediumRangeDegradedAge} \subseteq Nat
  /\ NowcastHealthyAge < NowcastDegradedAge
  /\ MediumRangeHealthyAge < MediumRangeDegradedAge
  /\ Steps \in [Models -> Nat \ {0}] /\ Retention \in [Models -> Nat]

VARIABLES
  complete,  \* rows with status 'complete': <<model, run_timestamp>>
  stored,    \* runs whose objects are in the bucket
  now,
  request

apiVars == <<complete, stored, now, request>>

None == [none |-> TRUE]
Idle == [at |-> "idle"]

\* A point's valid_time is never assigned by the reader: Go's zero time.
ZeroTime == -1000

Kinds == {"point", "batch", "snapshot", "status"}

APITypeOK ==
  /\ stored \subseteq Models \X (0..MaxTime) /\ complete \subseteq Models \X (0..MaxTime)
  /\ now \in 0..MaxTime
  /\ request # Idle =>
       /\ request.at \in {"mrRun", "ncRun", "mrRead", "ncRead", "tiles", "answered", "failed"}
       /\ request.kind \in Kinds /\ request.now \in 0..now
       /\ request.status \in {"none", "fresh", "degraded", "stale"}

APIInit ==
  /\ complete = {} /\ stored = {} /\ now = 0 /\ request = Idle

-----------------------------------------------------------------------------
(* The runs: what the other components do to them.                          *)

Tick ==
  /\ now < MaxTime
  /\ now' = now + 1
  /\ UNCHANGED <<complete, stored, request>>

Complete(m) ==
  \E t \in 0..now :
    /\ <<m, t>> \notin complete /\ t >= now - 1
    /\ complete' = complete \cup {<<m, t>>} /\ stored' = stored \cup {<<m, t>>}
    /\ UNCHANGED <<now, request>>

\* processModel: the objects are deleted and then the row is marked, which may fail.
EnforceRetention(m) ==
  \E run \in complete :
    /\ run[1] = m /\ run[2] < now - Retention[m]
    /\ stored' = stored \ {run}
    /\ complete' \in {complete, complete \ {run}}
    /\ UNCHANGED <<now, request>>

GetLatestServing(m) ==
  IF \E run \in complete : run[1] = m
  THEN CHOOSE run \in complete : run[1] = m /\ \A r \in complete : r[1] = m => r[2] <= run[2]
  ELSE None

-----------------------------------------------------------------------------
(* Reading and blending.                                                    *)

\* Steps counts from the run: the true time of a point is known to the model only.
Point(run, k, loc) ==
  [source |-> run[1], run |-> run, time |-> run[2] + k, valid |-> ZeroTime,
   place |-> IF ValidLocation(loc) THEN Place(loc) ELSE None]

\* The first dimension of the array's metadata.
TimeSteps(run) == Steps[run[1]]

\* Both the metadata and the chunks can be fetched.
Readable(run) == run \in stored

ReadPoint(run, loc) == [k \in 1..TimeSteps(run) |-> Point(run, k - 1, loc)]

LastPlace(places) == CHOOSE i \in places : \A j \in places : j <= i

\* The reader's ReadTile keeps the series by identifier: a location that is invalid
\* leaves it as it is, and empty if it is alone.  The answer names the last location.
ResultOf(run, locs, places, id) ==
  LET named == {i \in places : locs[i].id = id}
      valid == {i \in named : ValidLocation(locs[i].loc)}
      read  == IF valid = {} THEN named ELSE valid
  IN  [id |-> id, loc |-> locs[LastPlace(named)].loc,
       data |-> ReadPoint(run, locs[LastPlace(read)].loc)]

TileResults(run, locs, places) ==
  {ResultOf(run, locs, places, id) : id \in {locs[i].id : i \in places}}

\* The map of forecasts: a result takes the place of an earlier one of its identifier.
Put(forecasts, results) ==
  {f \in forecasts : \A g \in results : g.id # f.id} \cup results

\* The k-th number of a set, counted from the least.
Nth(S, k) == CHOOSE v \in S : Cardinality({u \in S : u < v}) = k - 1

\* What a sequence has at some places, in its order.
Selected(s, places) == [k \in 1..Cardinality(places) |-> s[Nth(places, k)]]

BlendForecasts(t, mr, nc) ==
  IF nc = <<>> THEN mr
  ELSE Selected(nc, {i \in DOMAIN nc : nc[i].valid < t + NowcastHorizon})
       \o Selected(mr, {i \in DOMAIN mr : \/ mr[i].valid >= t + NowcastHorizon
                                          \/ \A j \in DOMAIN nc : nc[j].valid # mr[i].valid})

MediumRangeStatus(age) ==
  CASE age > MediumRangeDegradedAge -> "stale"
    [] age > MediumRangeHealthyAge /\ age <= MediumRangeDegradedAge -> "degraded"
    [] OTHER -> "fresh"

\* The switch of GetStatus.
Health(m, age) ==
  LET healthy  == [medium_range |-> MediumRangeHealthyAge, nowcast |-> NowcastHealthyAge]
      degraded == [medium_range |-> MediumRangeDegradedAge, nowcast |-> NowcastDegradedAge]
  IN  CASE age <= healthy[m] -> "healthy"
        [] age > healthy[m] /\ age <= degraded[m] -> "degraded"
        [] OTHER -> "stale"

-----------------------------------------------------------------------------
(* Requests.                                                                *)

At(kind, step)  == request # Idle /\ request.kind = kind /\ request.at = step
Env             == <<complete, stored, now>>
Goto(step)      == request' = [request EXCEPT !.at = step]
Fail            == request' = [request EXCEPT !.at = "failed"]

Asked(kind, start, locs) ==
  [at |-> "mrRun", kind |-> kind, now |-> now, start |-> start, locs |-> locs,
   runs |-> [m \in Models |-> None], named |-> {}, fallback |-> FALSE, warned |-> FALSE,
   mr |-> <<>>, data |-> <<>>, status |-> "none", health |-> <<>>,
   tiles |-> {}, broken |-> {}, forecasts |-> {}, errors |-> {}]

One(loc) == <<[id |-> 0, loc |-> loc]>>
Where    == request.locs[1].loc

\* HandleGetPoint and validateLocation.
AskPoint(loc, start) ==
  /\ request = Idle /\ ValidLocation(loc)
  /\ request' = Asked("point", start, One(loc))
  /\ UNCHANGED Env

\* HandleGetBatch checks the number of locations, not the locations.
AskBatch(b) ==
  /\ request = Idle
  /\ request' = Asked("batch", now, b)
  /\ UNCHANGED Env

AskSnapshot(loc) ==
  /\ request = Idle /\ ValidLocation(loc)
  /\ request' = Asked("snapshot", now, One(loc))
  /\ UNCHANGED Env

AskStatus ==
  /\ request = Idle
  /\ request' = Asked("status", now, <<>>)
  /\ UNCHANGED Env

NeedsNowcast(r) == r.kind = "point" /\ IsCONUS(r.locs[1].loc) /\ r.start < r.now + NowcastHorizon

Tiles(b) == {CalculateTileID(b[i].loc) : i \in DOMAIN b}

\* The medium-range run is required; without one, or without an answer of the
\* database, there is none, save that GetStatus leaves the model out.
GetMediumRangeRun ==
  /\ request # Idle /\ request.at = "mrRun" /\ request.kind # "status"
  /\ LET run == GetLatestServing("medium_range")
     IN \/ Fail
        \/ /\ run # None
           /\ request' = [request EXCEPT
                !.runs["medium_range"] = run, !.named = {run},
                !.tiles = IF request.kind = "batch" THEN Tiles(request.locs) ELSE {},
                !.at = CASE request.kind = "batch" -> "tiles"
                         [] NeedsNowcast(request) -> "ncRun"
                         [] OTHER -> "mrRead"]
  /\ UNCHANGED Env

\* NowcastStalenessThreshold is NowcastDegradedAge.
GetNowcastRun ==
  /\ At("point", "ncRun")
  /\ LET run == GetLatestServing("nowcast")
     IN \/ /\ run # None /\ request.now - run[2] <= NowcastDegradedAge
           /\ request' = [request EXCEPT !.at = "mrRead", !.runs["nowcast"] = run,
                                         !.named = @ \cup {run}]
        \/ request' = [request EXCEPT !.at = "mrRead", !.fallback = TRUE, !.warned = TRUE]
  /\ UNCHANGED Env

\* A read may fail, and must if the objects are gone.
ReadMediumRange ==
  /\ At("point", "mrRead")
  /\ \/ Fail
     \/ /\ Readable(request.runs["medium_range"])
        /\ request' = [request EXCEPT !.mr = ReadPoint(request.runs["medium_range"], Where),
                                      !.at = "ncRead"]
  /\ UNCHANGED Env

Respond(nc, warned) ==
  request' = [request EXCEPT
    !.at = "answered", !.warned = warned,
    !.data = BlendForecasts(request.now, request.mr, nc),
    !.status = LET s == MediumRangeStatus(request.now - request.runs["medium_range"][2])
               IN  IF request.fallback /\ s = "fresh" THEN "degraded" ELSE s]

\* The run stays named in model_runs if its data cannot be read.
ReadNowcast ==
  /\ At("point", "ncRead")
  /\ IF NeedsNowcast(request) /\ ~request.fallback
     THEN \/ /\ Readable(request.runs["nowcast"])
             /\ Respond(ReadPoint(request.runs["nowcast"], Where), request.warned)
          \/ Respond(<<>>, TRUE)
     ELSE Respond(<<>>, request.warned)
  /\ UNCHANGED Env

ReadSnapshot ==
  /\ At("snapshot", "mrRead")
  /\ \/ Fail
     \/ /\ Readable(request.runs["medium_range"])
        /\ request' = [request EXCEPT
             !.at = "answered", !.data = <<ReadPoint(request.runs["medium_range"], Where)[1]>>]
  /\ UNCHANGED Env

InTile(tile)    == {i \in DOMAIN request.locs : CalculateTileID(request.locs[i].loc) = tile}
IdsIn(tile)     == {request.locs[i].id : i \in InTile(tile)}
ResultsIn(tile) == TileResults(request.runs["medium_range"], request.locs, InTile(tile))

\* Mutant: the first tile that fails cancels the others.
CancelOnError(tile) ==
  /\ At("batch", "tiles") /\ tile \in request.tiles
  /\ \/ request' = [request EXCEPT
          !.tiles = {}, !.broken = @ \cup {tile}, !.errors = @ \cup IdsIn(tile)]
     \/ /\ Readable(request.runs["medium_range"])
        /\ request' = [request EXCEPT
             !.tiles = @ \ {tile}, !.forecasts = Put(@, ResultsIn(tile))]
  /\ UNCHANGED Env

\* One goroutine per tile, in any order; a tile that fails does not cancel the rest.
ReadTile(tile) ==
  /\ At("batch", "tiles") /\ tile \in request.tiles
  /\ \/ request' = [request EXCEPT
          !.tiles = @ \ {tile}, !.broken = @ \cup {tile}, !.errors = @ \cup IdsIn(tile)]
     \/ /\ Readable(request.runs["medium_range"])
        /\ request' = [request EXCEPT
             !.tiles = @ \ {tile}, !.forecasts = Put(@, ResultsIn(tile))]
  /\ UNCHANGED Env

\* The status of a batch is "fresh", however old the run.
GatherTiles ==
  /\ At("batch", "tiles") /\ request.tiles = {}
  /\ request' = [request EXCEPT !.at = "answered", !.status = "fresh"]
  /\ UNCHANGED Env

HealthOf(m) ==
  LET run == GetLatestServing(m)
  IN  IF run = None THEN <<>> ELSE <<[model |-> m, run |-> run, status |-> Health(m, request.now - run[2])]>>

\* Two queries, and an error of either fails the request.
GetStatus ==
  /\ \/ At("status", "mrRun") /\ request' =
          [request EXCEPT !.at = "ncRun", !.health = HealthOf("medium_range")]
     \/ At("status", "ncRun") /\ request' =
          [request EXCEPT !.at = "answered", !.health = @ \o HealthOf("nowcast")]
     \/ (At("status", "mrRun") \/ At("status", "ncRun")) /\ Fail
  /\ UNCHANGED Env

Done ==
  /\ request # Idle /\ request.at \in {"answered", "failed"}
  /\ request' = Idle
  /\ UNCHANGED Env

APINext ==
  \/ Tick
  \/ \E m \in Models : Complete(m) \/ EnforceRetention(m)
  \/ \E loc \in Locations : (\E start \in {now, now + NowcastHorizon} : AskPoint(loc, start)) \/ AskSnapshot(loc)
  \/ \E b \in Batches : AskBatch(b)
  \/ AskStatus
  \/ GetMediumRangeRun \/ GetNowcastRun \/ ReadMediumRange \/ ReadNowcast \/ ReadSnapshot
  \/ request # Idle /\ \E tile \in request.tiles : ReadTile(tile)
  \/ GatherTiles \/ GetStatus \/ Done

API == APIInit /\ [][APINext]_apiVars
-----------------------------------------------------------------------------
Answered(kind) == At(kind, "answered")
Points == ToSet(request.data) \cup UNION {ToSet(f.data) : f \in request.forecasts}

(* A batch answers each identifier, by at most one forecast: those with a       *)
(* location in a tile that was read have it, and those with one in a tile that *)
(* was not have an error.  So an identifier that stands for one location has   *)
(* one of the two, and one in several tiles may have both.  The goroutines of  *)
(* GetBatchForecast share two maps and the context.                            *)
BatchIsWhole ==
  Answered("batch") =>
    LET asked  == ToSet(request.locs)
        served == {f.id : f \in request.forecasts}
    IN  /\ served = {e.id : e \in {x \in asked : CalculateTileID(x.loc) \notin request.broken}}
        /\ request.errors = {e.id : e \in {x \in asked : CalculateTileID(x.loc) \in request.broken}}
        /\ \A f, g \in request.forecasts : f.id = g.id => f = g

(* Whatever completes or is deleted during the request, an answer holds one   *)
(* run of a model, and one that model_runs names.                             *)
OneRunPerModel ==
  request # Idle => \A p \in Points :
    /\ p.run \in request.named
    /\ \A q \in Points : p.source = q.source => p.run = q.run

(* What an answer says of a location is the weather of that place, or of the   *)
(* last column of the grid if it is beyond it.  The location that a forecast   *)
(* of a batch names is one that was asked for by its identifier; if it is not  *)
(* on Earth, the forecast is empty, or of another location of the identifier.  *)
AnswersAreLocal ==
  /\ request # Idle /\ request.data # <<>> => \A p \in Points : p.place = AnsweredPlace(Where)
  /\ request # Idle => \A f \in request.forecasts :
       LET named == {e.loc : e \in {x \in ToSet(request.locs) : x.id = f.id}}
           valid == {loc \in named : ValidLocation(loc)}
       IN  /\ f.loc \in named
           /\ \A p \in ToSet(f.data) :
                IF f.loc \in valid THEN p.place = AnsweredPlace(f.loc)
                ELSE p.place \in {None} \cup {AnsweredPlace(loc) : loc \in valid}

AnswersAreWhole == APITypeOK /\ BatchIsWhole /\ OneRunPerModel /\ AnswersAreLocal

(* A forecast that lacks the nowcast although the request is about its hours   *)
(* and its area says so, and one that says so holds the other model only; and  *)
(* one called "fresh" was made from a run the status page calls healthy.      *)
FallbackIsAnnounced ==
  Answered("point") =>
    /\ NeedsNowcast(request) =>
         (request.warned <=> \A p \in Points : p.source = "medium_range")
    /\ request.warned => NeedsNowcast(request)
    /\ request.status = "fresh" =>
         /\ ~request.fallback
         /\ Health("medium_range", request.now - request.runs["medium_range"][2]) = "healthy"

(* What the client is told, of every location and of the sources, is so.       *)
AnswersHold == AnswersAreWhole /\ FallbackIsAnnounced

(* Blending, of series whose points have their valid times: each time either   *)
(* series has before the horizon is there once, from the nowcast if it has it, *)
(* and each time from the horizon on is there once, if the medium range has it. *)
SeriesOf(m, times) ==
  [i \in 1..Cardinality(times) |-> [source |-> m, valid |-> Nth(times, i)]]

BlendPrefersNowcast ==
  \A mr, nc \in SUBSET (0 .. NowcastHorizon + 1) :
    LET blend  == BlendForecasts(0, SeriesOf("medium_range", mr), SeriesOf("nowcast", nc))
        near   == {v \in mr \cup nc : v < NowcastHorizon}
        far    == {v \in mr : v >= NowcastHorizon}
        source == [v \in near \cup far |-> IF v \in nc /\ v \in near THEN "nowcast" ELSE "medium_range"]
    IN  /\ Len(blend) = Cardinality(near \cup far)
        /\ ToSet(blend) = {[source |-> source[v], valid |-> v] : v \in near \cup far}

(* The coordinates of tiles, grid and chunks agree along both axes: each place *)
(* is read from the points around it, and a tile from its chunk and the        *)
(* neighbours to the south and east, so that a batch reads few chunks; but 180 *)
(* degrees east lies in the tile that starts at 180 degrees west.             *)
ReadsAreLocal ==
  \A lon \in -180 * Degree .. 180 * Degree :
    LET loc == [lat |-> lon \div 2, lon |-> lon]
    IN  /\ Place(loc) = AnsweredPlace(loc)
        /\ lon < 180 * Degree => CornerChunks(loc) \subseteq TileChunks(loc)

(* What an answer is made of is sound: each point is read at its place, and a  *)
(* blend takes each time once, from the better source.  It has no state and is *)
(* looked at once.                                                             *)
ReadsAreSound == APIInit => ReadsAreLocal /\ BlendPrefersNowcast

(* Whatever a list holds at each page, a walk through it repeats nothing and   *)
(* misses no row but those as old as the end of a page, and those that a       *)
(* handler cuts off.  It has no state either.                                  *)
WalksHold == APIInit => WalksAreWhole(MaxPages)

=============================================================================
