----------------------------- MODULE MCForecasts -----------------------------
(***************************************************************************)
(* Small instances of the reading half of the API for TLC: the forecasts   *)
(* and the lists.                                                          *)
(***************************************************************************)
EXTENDS Forecasts

At16(lat, lon) == [lat |-> lat, lon |-> lon]

NewYork  == At16(651, -1184)   \* 40.7 N, 74 W
SouthEnd == At16(-1440, 1)     \* the pole: the row after the last chunk
DateLine == At16(0, 2879)      \* east of the last column
OffEarth == At16(1500, 0)      \* 93.75 N, in the tile of the next
Arctic   == At16(1280, 16)     \* 80 N, 1 E

MCLocations == {NewYork, DateLine}
Entry(i, l) == [id |-> i, loc |-> l]
MCBatches == {<<Entry(1, NewYork), Entry(2, SouthEnd), Entry(3, NewYork)>>,
              <<Entry(1, OffEarth), Entry(2, DateLine)>>,
              \* One identifier in two tiles, and twice in one of them.
              <<Entry(1, Arctic), Entry(1, OffEarth), Entry(1, NewYork), Entry(2, NewYork)>>}
MCSteps     == [medium_range |-> 4, nowcast |-> 2]
MCRetention == [medium_range |-> 2, nowcast |-> 1]

\* Two of four rows are created at the same time.
Row(i, t)  == [id |-> i, at |-> t]
MCListRows == {Row(1, 0), Row(2, 1), Row(3, 1), Row(4, 2)}
=============================================================================
