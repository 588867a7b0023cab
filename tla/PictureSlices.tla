---------------------------- MODULE PictureSlices ----------------------------
(***************************************************************************)
(* How a picture is divided into tiles and slices: the encoder turns what  *)
(* the user asks for into a list of slices, the picture parameter set      *)
(* tells as little of it as it can, and the decoder infers the rest.       *)
(*                                                                         *)
(* A grid has the widths of the tile columns and the heights of the tile   *)
(* rows, in coding tree units (CTUs); CTUs and tiles are numbered from 0   *)
(* in raster order.  Rectangular slices come in groups: one slice of       *)
(* width x height tiles, or the slices of one tile, whose heights in CTUs  *)
(* are rows.  A configuration has the picture's size (w, h), the lists of  *)
(* TileColumnWidthArray and TileRowHeightArray (columns, rows), whether    *)
(* RasterScanSlices is set (raster) with RasterSliceSizes (sizes), the     *)
(* sizes of RectSliceFixedWidth and Height (fixed, zeros if not set) and   *)
(* the pairs of RectSlicePositions (positions).  The symbols of a header   *)
(* are integers; how they become bits is left to BitStream.                *)
(***************************************************************************)
EXTENDS Integers, Sequences, SequencesExt, FiniteSetsExt

Total(list) == FoldLeft(LAMBDA a, b : a + b, 0, list)

\* The total of the first n.
Start(sizes, n) == Total(SubSeq(sizes, 1, n))

-----------------------------------------------------------------------------
(* Tiles. *)

\* Without the entries at the end that only repeat the one before.
Shortened(list) ==
  SubSeq(list, 1, Min({n \in DOMAIN list : \A m \in n .. Len(list) : list[m] = Last(list)}))

\* Without what lies beyond the picture.
Clipped(list, total) ==
  LET inside == {n \in DOMAIN list : Start(list, n - 1) < total}
  IN  [n \in inside |-> Min({list[n], total - Start(list, n - 1)})]

\* Mutant of FilledUp: what is left is added to the last entry.
FilledUpLargeRest(explicit, total) ==
  LET left == total - Total(explicit)
      size == Last(explicit)
      all  == explicit \o [n \in 1 .. left \div size |-> size]
  IN  [all EXCEPT ![Len(all)] = @ + (left % size)]

\* The explicit sizes, then the last of them again as often as it fits, then
\* what is left.
FilledUp(explicit, total) ==
  LET left == total - Total(explicit)
      size == Last(explicit)
  IN  explicit \o [n \in 1 .. left \div size |-> size]
               \o IF left % size > 0 THEN <<left % size>> ELSE <<>>

\* The tables of initTiles: where each column and row starts, and in which each
\* CTU lies, from 0.
Bounds(list) == [n \in 0 .. Len(list) |-> Start(list, n)]
Parts(list) ==
  [x \in 0 .. Total(list) - 1 |->
     CHOOSE n \in 0 .. Len(list) - 1 : Start(list, n) <= x /\ x < Start(list, n + 1)]
GridOf(columns, rows) ==
  [columns |-> columns, columnBd |-> Bounds(columns), columnOf |-> Parts(columns),
   rows |-> rows, rowBd |-> Bounds(rows), rowOf |-> Parts(rows)]

Width(g) == g.columnBd[Len(g.columns)]
Height(g) == g.rowBd[Len(g.rows)]
NumCtus(g) == Width(g) * Height(g)
NumTiles(g) == Len(g.columns) * Len(g.rows)
TileX(g, t) == t % Len(g.columns)
TileY(g, t) == t \div Len(g.columns)
TileHeight(g, t) == g.rows[TileY(g, t) + 1]

CtuX(g, a) == a % Width(g)
CtuY(g, a) == a \div Width(g)
TileOf(g, a) == g.rowOf[CtuY(g, a)] * Len(g.columns) + g.columnOf[CtuX(g, a)]
AtTileLeft(g, a) == CtuX(g, a) = g.columnBd[g.columnOf[CtuX(g, a)]]
AtTileTop(g, a) == CtuY(g, a) = g.rowBd[g.rowOf[CtuY(g, a)]]

\* The CTUs of the rows from top to bottom - 1 of a tile.
CtusOfRows(g, t, top, bottom) ==
  LET width == g.columns[TileX(g, t) + 1]
      first == (g.rowBd[TileY(g, t)] + top) * Width(g) + g.columnBd[TileX(g, t)]
  IN  [n \in 1 .. width * (bottom - top) |->
         first + ((n - 1) \div width) * Width(g) + ((n - 1) % width)]

CtusOfTile(g, t) == CtusOfRows(g, t, 0, TileHeight(g, t))

-----------------------------------------------------------------------------
(* Rectangular slices: what the user asks for. *)

\* Mutant of NextTile: slices are one tile high.
NextTileBeside(g, group) == group.tile + group.width

\* The tile behind a group, if the slices lie side by side.
NextTile(g, group) ==
  LET t == group.tile + group.width
  IN  IF t % Len(g.columns) = 0 THEN t + (group.height - 1) * Len(g.columns) ELSE t

\* Slices of a fixed size in tiles, from tile t on, as pairs of CTUs.
RECURSIVE FixedFrom(_, _, _)
FixedFrom(g, size, t) ==
  IF t >= NumTiles(g) THEN <<>>
  ELSE LET width  == Min({size[1], Len(g.columns) - TileX(g, t)})
           height == Min({size[2], Len(g.rows) - TileY(g, t)})
           first  == CtusOfTile(g, t)[1]
           last   == Last(CtusOfTile(g, t + (height - 1) * Len(g.columns) + width - 1))
       IN  <<<<first, last>>>>
             \o FixedFrom(g, size, NextTile(g, [tile |-> t, width |-> width, height |-> height]))

Positions(c, g) ==
  CASE c.fixed[1] > 0 /\ c.fixed[2] > 0 -> FixedFrom(g, c.fixed, 0)
    [] OTHER -> IF c.positions = <<>> THEN <<<<0, NumCtus(g) - 1>>>> ELSE c.positions

\* The tiles that the rectangle from the CTU p[1] to the CTU p[2] touches.
TilesOf(g, p) ==
  LET t == TileOf(g, p[1])
      u == TileOf(g, p[2])
  IN  [tile |-> t, width  |-> TileX(g, u) - TileX(g, t) + 1,
                   height |-> TileY(g, u) - TileY(g, t) + 1]

InOneTile(area) == area.width = 1 /\ area.height = 1

IsAligned(g, p) ==
  LET area == TilesOf(g, p)
  IN  /\ AtTileLeft(g, p[1])
      /\ CtuX(g, p[2]) = CtuX(g, Last(CtusOfTile(g, TileOf(g, p[2]))))
      /\ InOneTile(area)
           \/ /\ AtTileTop(g, p[1])
              /\ CtuY(g, p[2]) = CtuY(g, Last(CtusOfTile(g, TileOf(g, p[2]))))

\* The slices of one tile in a row form one group; only the first is checked.
Heads(g, positions) ==
  LET area(n) == TilesOf(g, positions[n])
  IN  SelectSeq([n \in DOMAIN positions |-> n],
                LAMBDA n : ~(n > 1 /\ InOneTile(area(n)) /\ area(n - 1) = area(n)))

Groups(g, positions) ==
  LET heads == Heads(g, positions)
      end(k) == IF k = Len(heads) THEN Len(positions) ELSE heads[k + 1] - 1
      heights(from, to) ==
        [n \in 1 .. to - from + 1 |->
           LET p == positions[from + n - 1] IN CtuY(g, p[2]) - CtuY(g, p[1]) + 1]
      group(area, rows) ==
        [tile |-> area.tile, width |-> area.width, height |-> area.height, rows |-> rows]
  IN  [k \in DOMAIN heads |->
         group(TilesOf(g, positions[heads[k]]), heights(heads[k], end(k)))]

\* Whether the decoder could not find a slice by NextTile.
NeedsTileIdxDelta(g, groups) ==
  \E k \in 2 .. Len(groups) : groups[k].tile # NextTile(g, groups[k - 1])

NumSlices(group) == IF InOneTile(group) THEN Len(group.rows) ELSE 1
NumSlicesOf(groups) == Total([k \in DOMAIN groups |-> NumSlices(groups[k])])

-----------------------------------------------------------------------------
(* The map from slices to CTUs. *)

\* The last slice, if it is a group of its own, takes the rest of the picture.
WithLastInferred(g, groups) ==
  IF NumSlices(Last(groups)) > 1 THEN groups
  ELSE [groups EXCEPT ![Len(groups)] =
          [tile |-> @.tile, width |-> Len(g.columns) - TileX(g, @.tile),
           height |-> Len(g.rows) - TileY(g, @.tile), rows |-> <<0>>]]

\* The CTUs of a group's slices; the last slice in a tile takes its rest.
SliceCtus(g, group) ==
  IF InOneTile(group)
  THEN [n \in DOMAIN group.rows |->
          CtusOfRows(g, group.tile, Start(group.rows, n - 1),
                     IF n = Len(group.rows) THEN TileHeight(g, group.tile)
                     ELSE Start(group.rows, n))]
  ELSE LET tile(n) == group.tile + ((n - 1) \div group.width) * Len(g.columns)
                                 + ((n - 1) % group.width)
       IN  <<FlattenSeq([n \in 1 .. group.width * group.height |-> CtusOfTile(g, tile(n))])>>

\* The CHECKs on the way: no slice is empty or leaves the picture.
IsValid(g, group) ==
  /\ group.tile \in 0 .. NumTiles(g) - 1
  /\ TileX(g, group.tile) + group.width <= Len(g.columns)
  /\ TileY(g, group.tile) + group.height <= Len(g.rows)
  /\ InOneTile(group) =>
       Start(group.rows, Len(group.rows) - 1) < TileHeight(g, group.tile)

RectSliceMap(g, groups) ==
  LET all == WithLastInferred(g, groups)
  IN  FlattenSeq([k \in DOMAIN all |-> SliceCtus(g, all[k])])

\* The CTUs of n tiles from tile t on.
TilesFrom(g, t, n) == FlattenSeq([k \in 1 .. n |-> CtusOfTile(g, t + k - 1)])

RasterSliceMap(g, sizes) ==
  [n \in DOMAIN sizes |-> TilesFrom(g, Start(sizes, n - 1), sizes[n])]

\* checkSliceMap: the slices cover the picture, each CTU once.
IsCover(g, map) ==
  LET all == FlattenSeq(map)
  IN  Len(all) = NumCtus(g) /\ ToSet(all) = 0 .. NumCtus(g) - 1

IsRectSliceMap(g, groups) ==
  /\ groups # <<>>
  /\ \A k \in DOMAIN groups : IsValid(g, WithLastInferred(g, groups)[k])
  /\ IsCover(g, RectSliceMap(g, groups))

-----------------------------------------------------------------------------
(* The encoder's side: from the configuration to the layout it codes with. *)

ExplicitSizes(list, total) ==
  Clipped(Shortened(IF list = <<>> THEN <<total>> ELSE list), total)

\* The numbers of tiles of raster-scan slices.
RasterSizes(sizes, tiles) == FilledUp(Clipped(IF sizes = <<>> THEN <<tiles>> ELSE sizes, tiles), tiles)

Refused == [groups |-> <<>>, delta |-> FALSE, ok |-> FALSE, map |-> <<>>]

WithMap(g, groups) ==
  IF IsRectSliceMap(g, groups)
  THEN [groups |-> groups, delta |-> NeedsTileIdxDelta(g, groups), ok |-> TRUE,
        map |-> RectSliceMap(g, groups)]
  ELSE Refused

EncSlices(c, g) ==
  LET asked == Positions(c, g)
  IN  CASE c.raster ->
             [groups |-> <<>>, delta |-> FALSE, ok |-> TRUE,
              map |-> RasterSliceMap(g, RasterSizes(c.sizes, NumTiles(g)))]
        [] ~c.raster /\ (\A n \in ToSet(Heads(g, asked)) : IsAligned(g, asked[n])) ->
             WithMap(g, Groups(g, asked))
        [] OTHER -> Refused

EncGrid(c, columns, rows) ==
  LET g == GridOf(FilledUp(columns, c.w), FilledUp(rows, c.h))
  IN  [columns |-> columns, rows |-> rows, grid |-> g, rect |-> ~c.raster] @@ EncSlices(c, g)

\* Whether the encoder takes the configuration (ok), and what it makes of it.
EncLayout(c) == EncGrid(c, ExplicitSizes(c.columns, c.w), ExplicitSizes(c.rows, c.h))

-----------------------------------------------------------------------------
(* The symbols of the picture parameter set. *)

\* Mutant of ExplicitRows: a last slice of any height is inferred.
ExplicitRowsButLast(rows) ==
  IF Len(rows) = 1 THEN <<>> ELSE Shortened(Front(rows))

\* The heights of the slices of a tile that are written, the others following
\* by FilledUp.
ExplicitRows(rows) ==
  CASE Len(rows) = 1 -> <<>>
    [] Len(rows) > 1 /\ rows[Len(rows) - 1] >= Last(rows) -> Shortened(Front(rows))
    [] OTHER -> rows

MinusOne(list) == [n \in DOMAIN list |-> list[n] - 1]
PlusOne(list) == [n \in DOMAIN list |-> list[n] + 1]
Flag(b) == <<IF b THEN 1 ELSE 0>>
If(condition, symbols) == IF condition THEN symbols ELSE <<>>

\* Which of a group's symbols are there.
HasWidth(g, tile) == TileX(g, tile) # Len(g.columns) - 1
HasHeight(g, tile, delta) ==
  TileY(g, tile) # Len(g.rows) - 1 /\ (delta \/ TileX(g, tile) = 0)
HasRows(g, group) == InOneTile(group) /\ TileHeight(g, group.tile) > 1

WriteGroup(g, group, delta) ==
  LET explicit == ExplicitRows(group.rows)
  IN  If(HasWidth(g, group.tile), <<group.width - 1>>)
        \o If(HasHeight(g, group.tile, delta), <<group.height - 1>>)
        \o If(HasRows(g, group), <<Len(explicit)>> \o MinusOne(explicit))

\* All groups but a last slice of its own.
WriteGroups(g, groups, delta) ==
  LET last == Len(groups)
  IN  FlattenSeq([k \in DOMAIN groups |->
        If(k < last \/ NumSlices(groups[k]) > 1, WriteGroup(g, groups[k], delta))
          \o If(delta /\ k < last, <<groups[k + 1].tile - groups[k].tile>>)])

\* layout has the explicit sizes (columns, rows), the grid, rect, groups, delta.
WritePPS(layout) ==
  LET num == NumSlicesOf(layout.groups)
  IN  <<Len(layout.columns) - 1, Len(layout.rows) - 1>>
        \o MinusOne(layout.columns) \o MinusOne(layout.rows)
        \o If(NumTiles(layout.grid) > 1, Flag(layout.rect))
        \o If(layout.rect, <<num - 1>> \o If(num - 1 > 1, Flag(layout.delta))
                              \o WriteGroups(layout.grid, layout.groups, layout.delta))

\* What is read behind the end is something else; here it is 0.
At(symbols, n) == IF n <= Len(symbols) THEN symbols[n] ELSE 0
Behind(symbols, n) == SubSeq(symbols, n + 1, Len(symbols))

\* Mutant of InferredHeight: the slice before counts in the last row too.
InferredHeightBefore(g, tile, before) == before

\* The height of a slice in tiles, if it is not told: that of the slice before,
\* or 1 in the last row.
InferredHeight(g, tile, before) == IF TileY(g, tile) = Len(g.rows) - 1 THEN 1 ELSE before

\* A group in one tile, and the symbols behind it.
ReadRows(g, group, symbols) ==
  LET explicit == PlusOne(SubSeq(symbols, 2, At(symbols, 1) + 1))
  IN  CASE ~HasRows(g, group) -> [group |-> group, behind |-> symbols]
        [] HasRows(g, group) /\ At(symbols, 1) = 0 -> [group |-> group, behind |-> Behind(symbols, 1)]
        [] OTHER -> [group |-> [group EXCEPT !.rows = FilledUp(explicit, TileHeight(g, group.tile))],
                     behind |-> Behind(symbols, At(symbols, 1) + 1)]

\* A group at a tile, of a height that is told or not.
ReadHeight(g, group, symbols, delta, before) ==
  IF HasHeight(g, group.tile, delta)
  THEN ReadRows(g, [group EXCEPT !.height = At(symbols, 1) + 1], Behind(symbols, 1))
  ELSE ReadRows(g, [group EXCEPT !.height = InferredHeight(g, group.tile, before)], symbols)

ReadGroup(g, symbols, tile, delta, before) ==
  LET group(width) ==
        [tile |-> tile, width |-> width, height |-> 1, rows |-> <<TileHeight(g, tile)>>]
  IN  IF HasWidth(g, tile)
      THEN ReadHeight(g, group(At(symbols, 1) + 1), Behind(symbols, 1), delta, before)
      ELSE ReadHeight(g, group(1), symbols, delta, before)

\* The groups of so many slices from tile on, and the symbols behind them.
RECURSIVE ReadGroups(_, _, _, _, _, _), ReadOn(_, _, _, _)
ReadGroups(g, symbols, tile, delta, before, slices) ==
  IF slices = 1 \/ tile >= NumTiles(g)
  THEN [groups |-> <<[tile |-> tile, width |-> 1, height |-> 1, rows |-> <<0>>]>>,
        behind |-> symbols]
  ELSE ReadOn(g, ReadGroup(g, symbols, tile, delta, before), delta, slices)

ReadOn(g, read, delta, slices) ==
  LET group == read.group
      next  == IF delta
               THEN ReadGroups(g, Behind(read.behind, 1), group.tile + At(read.behind, 1), delta,
                               group.height, slices - NumSlices(group))
               ELSE ReadGroups(g, read.behind, NextTile(g, group), delta,
                               group.height, slices - NumSlices(group))
  IN  IF NumSlices(group) >= slices THEN [groups |-> <<group>>, behind |-> read.behind]
      ELSE [next EXCEPT !.groups = <<group>> \o @]

\* What the decoder makes of the symbols: the slices of a grid ...
RectSlices(g, read) ==
  [grid |-> g, rect |-> TRUE, groups |-> read.groups, ok |-> read.behind = <<>>]

ReadRect(g, symbols) ==
  IF At(symbols, 1) > 1
  THEN RectSlices(g, ReadGroups(g, Behind(symbols, 2), 0, At(symbols, 2) = 1, 1, At(symbols, 1) + 1))
  ELSE RectSlices(g, ReadGroups(g, Behind(symbols, 1), 0, FALSE, 1, At(symbols, 1) + 1))

ReadSlices(g, symbols) ==
  CASE NumTiles(g) = 1 -> ReadRect(g, symbols)
    [] NumTiles(g) > 1 /\ At(symbols, 1) = 1 -> ReadRect(g, Behind(symbols, 1))
    [] OTHER -> [grid |-> g, rect |-> FALSE, groups |-> <<>>, ok |-> Len(symbols) = 1]

ReadGrid(w, h, columns, rows, symbols) ==
  ReadSlices(GridOf(FilledUp(PlusOne(SubSeq(symbols, 1, columns)), w),
                    FilledUp(PlusOne(SubSeq(symbols, columns + 1, columns + rows)), h)),
             Behind(symbols, columns + rows))

\* ... of a picture of w x h CTUs.
ReadPPS(w, h, symbols) ==
  ReadGrid(w, h, symbols[1] + 1, symbols[2] + 1, Behind(symbols, 2))
=============================================================================
