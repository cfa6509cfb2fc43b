---------------------------- MODULE ForecastGrid ----------------------------
(***************************************************************************)
(* Where a location lies: in the tile that groups the locations of a       *)
(* batch, in the global grid, and in the chunks the grid is stored in.     *)
(* Coordinates are whole numbers of 1/16 degree, a quarter of the grid's   *)
(* spacing.  The value stored at a grid point is the coordinate of the     *)
(* point itself, so that what an interpolation yields tells which place on *)
(* Earth the answer is about.                                              *)
(***************************************************************************)
EXTENDS Integers

Degree       == 16
Cell         == 4     \* GridResolution: 0.25 degrees
GridLatCount == 721
GridLonCount == 1440
ChunkLatSize == 90
ChunkLonSize == 180
TileCount    == 8     \* rows of tiles, and columns
Halo         == 1     \* haloPixels

AtLeast(a, b) == IF a >= b THEN a ELSE b
AtMost(a, b)  == IF a <= b THEN a ELSE b

\* Both clampGridIndex and the end of CalculateTileID.
Clamp(i, count) == AtMost(AtLeast(i, 0), count - 1)

ValidLocation(loc) ==
  loc.lat \in -90 * Degree .. 90 * Degree /\ loc.lon \in -180 * Degree .. 180 * Degree

IsCONUS(loc) ==
  loc.lat \in 24 * Degree .. 50 * Degree /\ loc.lon \in -125 * Degree .. -66 * Degree

\* Columns of tiles start at Greenwich, columns of chunks at 180 degrees west.
TileRow(lat) == Clamp((90 * Degree - lat) \div (ChunkLatSize * Cell), TileCount)
TileCol(lon) ==
  Clamp((IF lon < 0 THEN 360 * Degree + lon ELSE lon) \div (ChunkLonSize * Cell), TileCount)
CalculateTileID(loc) == <<TileRow(loc.lat), TileCol(loc.lon)>>

-----------------------------------------------------------------------------
(* One axis of the grid: the two points around a coordinate, and how far    *)
(* from the first of them the coordinate lies, in quarters of a cell.       *)

FracRow(lat) == 90 * Degree - lat
FracCol(lon) == lon + 180 * Degree

Around(frac, count) ==
  LET lower == Clamp(frac \div Cell, count)
      upper == Clamp(lower + 1, count)
  IN  [lower |-> lower, upper |-> upper, part |-> IF lower = upper THEN 0 ELSE frac % Cell]

RowsAround(lat) == Around(FracRow(lat), GridLatCount)
ColsAround(lon) == Around(FracCol(lon), GridLonCount)

Chunk(i, size) == i \div size

CornerChunks(loc) ==
  LET rows == RowsAround(loc.lat)
      cols == ColsAround(loc.lon)
  IN  {Chunk(r, ChunkLatSize) : r \in {rows.lower, rows.upper}} \X
      {Chunk(c, ChunkLonSize) : c \in {cols.lower, cols.upper}}

\* The writer pads each chunk with the neighbours' first row and column.
Written(chunk, size, index) == chunk * size + index - Halo

\* Mutant: the padding is forgotten.
StoredUnpadded(i, size) == Written(Chunk(i, size), size, i % size)

Stored(i, size) == Written(Chunk(i, size), size, (i % size) + Halo)

\* The weighted mean of the two points of an axis, in quarters of a cell.
InterpolatedAxis(around, size) ==
    Stored(around.lower, size) * (Cell - around.part) + Stored(around.upper, size) * around.part

\* The weights of bilinearInterpolateFromChunks are the products of those of the axes.
Place(loc) ==
  [lat |-> 90 * Degree - InterpolatedAxis(RowsAround(loc.lat), ChunkLatSize),
   lon |-> InterpolatedAxis(ColsAround(loc.lon), ChunkLonSize) - 180 * Degree]

-----------------------------------------------------------------------------
(* The formulas above, written in four places of the code, belong together. *)

\* The chunk that covers a tile.
ChunkOfTile(tile) == <<tile[1], (tile[2] + TileCount \div 2) % TileCount>>

\* An answer is about the place asked for, to the last digit, but in the last
\* column of the grid, where it is about the column: there is no wrapping around
\* 180 degrees.
AnsweredPlace(loc) ==
  [lat |-> loc.lat,
   lon |-> AtMost(loc.lon, 180 * Degree - Cell)]

\* The chunk of the tile of a location, and those to the south and east of it.
TileChunks(loc) ==
  LET own == ChunkOfTile(CalculateTileID(loc))
  IN  {own, <<own[1] + 1, own[2]>>, <<own[1], own[2] + 1>>, <<own[1] + 1, own[2] + 1>>}

=============================================================================
