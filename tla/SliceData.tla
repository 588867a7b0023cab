------------------------------ MODULE SliceData ------------------------------
(***************************************************************************)
(* A picture of several tiles and slices on its way from the encoder's     *)
(* configuration to the decoder.  The encoder first searches all slices    *)
(* for the best coding decisions, then writes them, one NAL unit each; the *)
(* decoder infers the slices from the parameter set and reads them.  All   *)
(* three walk through the coding tree units (CTUs) of a slice and reset or *)
(* synchronise what adapts on the way:                                     *)
(*                                                                         *)
(*   ctx  the context models, as the list of the CTUs they have adapted to *)
(*   plt  the palette predictor, likewise                                  *)
(*   lut  the table of motion candidates, likewise                         *)
(*   qp   the quantisation parameter (QP) from which the next is           *)
(*        predicted: that of CTU n >= 0, or of the header of slice -n      *)
(*   sync ctx and plt behind the first CTU of a row of a tile              *)
(*                                                                         *)
(* The data of a slice are substreams of items: the CTUs, the start of the *)
(* arithmetic coder (StartBits) and its end (EndBit).                      *)
(***************************************************************************)
EXTENDS PictureSlices

CONSTANT Configurations   \* those of PictureSlices with wpp (WaveFrontSynchro)
                          \* and entryPoints (EntryPointsPresent)

VARIABLES
  pc,       \* the stage, also that of the walk: "search", "write" or "read"
  cfg,
  layout,   \* the encoder's slices
  dec,      \* the decoder's: grid, rect and map
  slice,    \* the slice under way, from 1
  next,     \* the CTU of it that comes next; 0 before its start
  coder,
  streams,  \* the substreams written (the last one grows) or yet to read
  sizes,    \* the sizes of the substreams for the entry points
  nals,
  used,     \* what each walk coded each CTU with
  decoded   \* the CTUs of each slice, as the decoder knows them

vars == <<pc, cfg, layout, dec, slice, next, coder, streams, sizes, nals, used, decoded>>

StartBits == -1
EndBit == -2

Walks == {"search", "write", "read"}

-----------------------------------------------------------------------------
(* What the walks share.  g is the grid, ctus the CTUs of the slice. *)

\* getCURestricted, and isSameSliceAndTile: the CTU above belongs to the slice
\* and the tile.
AboveAvailable(g, ctus, a) ==
  LET above == a - Width(g)
  IN  above \in ToSet(ctus) /\ TileOf(g, above) = TileOf(g, a)

\* The first CTU of a tile, or with wavefronts of a row of it.
Restarts(g, a) == AtTileLeft(g, a) /\ (AtTileTop(g, a) \/ cfg.wpp)

Cleared(c) == [c EXCEPT !.ctx = <<>>, !.plt = <<>>]
Synced(c) == [c EXCEPT !.ctx = c.sync.ctx, !.plt = c.sync.plt]
HasSync(g, ctus, a) == ~AtTileTop(g, a) /\ AboveAvailable(g, ctus, a)

\* Before a CTU, encodeCtus: the coder starts again, from the CTU above if it can.
ToSearch(g, ctus, a) ==
  IF Restarts(g, a)
  THEN [(IF HasSync(g, ctus, a) THEN Synced(coder) ELSE Cleared(coder)) EXCEPT !.qp = -slice]
  ELSE coder

\* Mutant of ToWrite: nothing is reset for a row without a CTU above.
ToWriteTilesOnly(g, ctus, a) ==
  CASE Restarts(g, a) /\ HasSync(g, ctus, a) -> Synced(coder)
    [] OTHER -> coder

\* encodeSlice: the coder is already reset at the start of the slice, and the QP
\* from which the next is predicted stays.
ToWrite(g, ctus, a) ==
  CASE Restarts(g, a) /\ HasSync(g, ctus, a) -> Synced(coder)
    [] Restarts(g, a) /\ ~HasSync(g, ctus, a) /\ next # 1 -> Cleared(coder)
    [] OTHER -> coder

\* decompressSlice
ToRead(g, ctus, a) ==
  IF Restarts(g, a) THEN [ToWrite(g, ctus, a) EXCEPT !.qp = -slice] ELSE coder

\* Before a CTU; writing needs no motion candidates.
Prepared(g, ctus, a) ==
  LET motion(c) == IF AtTileLeft(g, a) THEN [c EXCEPT !.lut = <<>>] ELSE c
  IN  CASE pc = "search" -> motion(ToSearch(g, ctus, a))
        [] pc = "write"  -> ToWrite(g, ctus, a)
        [] pc = "read"   -> motion(ToRead(g, ctus, a))

\* predictQP: at the left of a tile the CTU above counts.
PredictedQp(c, g, ctus, a) ==
  IF AtTileLeft(g, a) /\ AboveAvailable(g, ctus, a) THEN a - Width(g) ELSE c.qp

\* After a CTU: everything has adapted to it.
Coded(c, g, a) ==
  LET ctx == Append(c.ctx, a)
      plt == Append(c.plt, a)
  IN  [ctx |-> ctx, plt |-> plt, lut |-> Append(c.lut, a), qp |-> a,
       sync |-> IF AtTileLeft(g, a) /\ cfg.wpp THEN [ctx |-> ctx, plt |-> plt] ELSE c.sync]

\* One CTU, apart from its bits.
Code(g, ctus, a) ==
  LET c == Prepared(g, ctus, a)
  IN  /\ coder' = Coded(c, g, a)
      /\ used' = [used EXCEPT ![pc] = @ @@ (a :> [ctx |-> c.ctx, plt |-> c.plt, lut |-> c.lut,
                                                  qp |-> PredictedQp(c, g, ctus, a)])]

\* Mutant of Started: nothing resets the palette predictor.
StartedWithPalette == [coder EXCEPT !.ctx = <<>>, !.qp = -slice]

\* The start of a slice; only the decoder resets the palette predictor there.
Started ==
  [coder EXCEPT !.ctx = <<>>, !.plt = IF pc = "read" THEN <<>> ELSE @, !.qp = -slice]

\* To the next CTU, slice or stage.
GoOn(ctus, following) ==
  IF next < Len(ctus) THEN next' = next + 1 /\ UNCHANGED <<slice, pc>>
  ELSE /\ next' = 0
       /\ IF slice < Len(layout.map) THEN slice' = slice + 1 /\ UNCHANGED pc
          ELSE slice' = 1 /\ pc' = following

Abort == pc' = "aborted" /\ UNCHANGED <<slice, next, coder, streams, used, decoded>>

\* Mutant of NumEntryPoints: tiles side by side are told from each other only.
NumEntryPointsOfColumns(g, ctus) ==
  IF ~cfg.entryPoints THEN 0
  ELSE Cardinality({n \in 2 .. Len(ctus) :
         LET a == ctus[n] b == ctus[n - 1]
         IN  \/ g.columnOf[CtuX(g, a)] # g.columnOf[CtuX(g, b)]
             \/ CtuY(g, a) # CtuY(g, b) /\ cfg.wpp})

\* setNumEntryPoints: how many the header has, told by the CTUs alone.
NumEntryPoints(g, ctus) ==
  IF ~cfg.entryPoints THEN 0
  ELSE Cardinality({n \in 2 .. Len(ctus) :
         LET a == ctus[n] b == ctus[n - 1]
         IN  \/ g.rowOf[CtuY(g, a)] # g.rowOf[CtuY(g, b)]
             \/ g.columnOf[CtuX(g, a)] # g.columnOf[CtuX(g, b)]
             \/ CtuY(g, a) # CtuY(g, b) /\ cfg.wpp})

-----------------------------------------------------------------------------
(* The encoder. *)

Fresh == [ctx |-> <<>>, plt |-> <<>>, lut |-> <<>>, qp |-> 0,
          sync |-> [ctx |-> <<>>, plt |-> <<>>]]

Init ==
  /\ pc = "configure" /\ cfg \in Configurations
  /\ layout = <<>> /\ dec = <<>> /\ slice = 1 /\ next = 0 /\ coder = Fresh
  /\ streams = <<>> /\ sizes = <<>> /\ nals = <<>> /\ decoded = <<>>
  /\ used = [walk \in Walks |-> <<>>]

\* The application checks what the user asks for and exits if it is no good.
Configure ==
  /\ pc = "configure"
  /\ layout' = EncLayout(cfg)
  /\ pc' = IF layout'.ok THEN "search" ELSE "refused"
  /\ UNCHANGED <<cfg, dec, slice, next, coder, streams, sizes, nals, used, decoded>>

\* compressSlice
SearchSlice ==
  /\ pc = "search" /\ next = 0
  /\ coder' = Started
  /\ next' = 1
  /\ UNCHANGED <<pc, cfg, layout, dec, slice, streams, sizes, nals, used, decoded>>

\* encodeCtus
SearchCtu ==
  /\ pc = "search" /\ next > 0
  /\ LET ctus == layout.map[slice]
     IN  Code(layout.grid, ctus, ctus[next]) /\ GoOn(ctus, "write")
  /\ UNCHANGED <<cfg, layout, dec, streams, sizes, nals, decoded>>

\* The buffers for substreams: for each tile, or row of a tile, or slice.
NumSubstreams(g, map) ==
  Max({Len(g.columns) * (IF cfg.wpp THEN Height(g) ELSE Len(g.rows)), Len(map)})

\* Before encodeSlice: the buffers are empty.
WriteSlice ==
  /\ pc = "write" /\ next = 0
  /\ coder' = Started
  /\ streams' = <<<<>>>> /\ sizes' = <<>> /\ next' = 1
  /\ UNCHANGED <<pc, cfg, layout, dec, slice, nals, used, decoded>>

\* At the end of a slice or tile, or with wavefronts of a row of it.
EndsSubstream(g, ctus, n) ==
  \/ n = Len(ctus)
  \/ TileOf(g, ctus[n + 1]) # TileOf(g, ctus[n])
  \/ cfg.wpp /\ AtTileLeft(g, ctus[n + 1])

\* encodeSlice; EncGOP adds the header and the entry points behind it.
WriteCtu ==
  /\ pc = "write" /\ next \in DOMAIN layout.map[slice]
  /\ LET g       == layout.grid
         ctus    == layout.map[slice]
         a       == ctus[next]
         ends    == EndsSubstream(g, ctus, next)
         written == Last(streams) \o If(next = 1 \/ Restarts(g, a), <<StartBits>>)
                                  \o <<a>> \o If(ends, <<EndBit>>)
     IN  IF Len(streams) > NumSubstreams(g, layout.map) THEN Abort /\ UNCHANGED sizes
         ELSE /\ Code(g, ctus, a)
              /\ streams' = Front(streams) \o <<written>> \o If(ends, <<<<>>>>)
              /\ sizes' = sizes \o If(ends /\ next < Len(ctus) /\ cfg.entryPoints, <<Len(written)>>)
              /\ next' = next + 1
              /\ UNCHANGED <<pc, slice, decoded>>
  /\ UNCHANGED <<cfg, layout, dec, nals>>

\* The address of a slice: the number of it, or that of its first tile.
Header(g, ctus) ==
  LET tiles == {TileOf(g, a) : a \in ToSet(ctus)}
  IN  IF layout.rect
      THEN [address |-> If(Len(layout.map) > 1, <<slice - 1>>), tiles |-> <<>>]
      ELSE [address |-> If(NumTiles(g) > 1, <<Min(tiles)>>),
            tiles   |-> If(NumTiles(g) - Min(tiles) > 1, <<Cardinality(tiles) - 1>>)]

FinishSlice ==
  /\ pc = "write" /\ next > Len(layout.map[slice])
  /\ LET ctus == layout.map[slice]
         g    == layout.grid
     IN  /\ nals' = Append(nals,
                      Header(g, ctus) @@ [entries |-> If(NumEntryPoints(g, ctus) > 0, sizes),
                                          data |-> FlattenSeq(streams)])
         /\ GoOn(ctus, "parse")
  /\ streams' = <<>> /\ sizes' = <<>>
  /\ UNCHANGED <<cfg, layout, dec, coder, used, decoded>>

-----------------------------------------------------------------------------
(* The decoder. *)

\* The picture parameter set, and its map of slices if they are rectangular.
Parse ==
  /\ pc = "parse"
  /\ LET pps == ReadPPS(cfg.w, cfg.h, WritePPS(layout))
         ok  == pps.ok /\ (pps.rect => IsRectSliceMap(pps.grid, pps.groups))
     IN  /\ pc' = IF ok THEN "read" ELSE "aborted"
         /\ dec' = [grid |-> pps.grid, rect |-> pps.rect,
                    map |-> IF ok /\ pps.rect THEN RectSliceMap(pps.grid, pps.groups) ELSE <<>>]
  /\ coder' = Fresh
  /\ UNCHANGED <<cfg, layout, slice, next, streams, sizes, nals, used, decoded>>

Told(list, otherwise) == IF list = <<>> THEN otherwise ELSE list[1]

\* The CTUs of a slice, from its header; <<>> if a CHECK fails.
SliceOf(nal) ==
  LET address == Told(nal.address, 0)
      tiles   == Told(nal.tiles, 0) + 1
  IN  IF dec.rect THEN (IF address < Len(dec.map) THEN dec.map[address + 1] ELSE <<>>)
      ELSE IF address + tiles <= NumTiles(dec.grid) THEN TilesFrom(dec.grid, address, tiles) ELSE <<>>

\* The slice header, the substreams, and the start of the first.
ReadSlice ==
  /\ pc = "read" /\ next = 0
  /\ LET nal  == nals[slice]
         ctus == SliceOf(nal)
         last == SubSeq(nal.data, Total(nal.entries) + 1, Len(nal.data))
         all  == [n \in DOMAIN nal.entries |->
                    SubSeq(nal.data, Start(nal.entries, n - 1) + 1, Start(nal.entries, n))]
                 \o <<last>>
     IN  IF ctus = <<>> \/ Len(nal.entries) # NumEntryPoints(dec.grid, ctus)
         THEN Abort
         ELSE /\ streams' = all
              /\ decoded' = Append(decoded, ctus)
              /\ coder' = Started
              /\ next' = 1
              /\ UNCHANGED <<pc, slice, used>>
  /\ UNCHANGED <<cfg, layout, dec, sizes, nals>>

\* Mutant of IsSubstreamEnd: a tile ends only at the bottom of the picture.
IsSubstreamEndOfPicture(g, a) ==
  LET t == TileOf(g, a)
  IN  /\ CtuX(g, a) + 1 = g.columnBd[TileX(g, t) + 1]
      /\ CtuY(g, a) + 1 = Height(g) \/ cfg.wpp

\* Where the decoder expects a substream to end within a slice.
IsSubstreamEnd(g, a) ==
  LET t == TileOf(g, a)
  IN  /\ CtuX(g, a) + 1 = g.columnBd[TileX(g, t) + 1]
      /\ CtuY(g, a) + 1 = g.rowBd[TileY(g, t) + 1] \/ cfg.wpp

\* decompressSlice for one CTU.
ReadCtu ==
  /\ pc = "read" /\ next > 0
  /\ LET g        == dec.grid
         ctus     == Last(decoded)
         a        == ctus[next]
         ends     == next = Len(ctus) \/ IsSubstreamEnd(g, a)
         expected == If(next = 1 \/ Restarts(g, a), <<StartBits>>) \o <<a>> \o If(ends, <<EndBit>>)
         moves    == next = Len(ctus) \/ (ends /\ cfg.entryPoints)
     IN  IF \/ streams = <<>> \/ ~IsPrefix(expected, Head(streams))
            \/ moves /\ Head(streams) # expected
         THEN Abort
         ELSE /\ Code(g, ctus, a)
              /\ streams' = IF moves THEN Tail(streams)
                            ELSE <<Behind(Head(streams), Len(expected))>> \o Tail(streams)
              /\ GoOn(ctus, "done")
              /\ UNCHANGED decoded
  /\ UNCHANGED <<cfg, layout, dec, sizes, nals>>

-----------------------------------------------------------------------------
Next == Configure \/ SearchSlice \/ SearchCtu \/ WriteSlice \/ WriteCtu \/ FinishSlice
           \/ Parse \/ ReadSlice \/ ReadCtu

Spec == Init /\ [][Next]_vars

-----------------------------------------------------------------------------
(* Properties. *)

\* The slices asked for, as sets of CTUs.
AskedSets ==
  LET g     == layout.grid
      all   == 0 .. NumCtus(g) - 1
      wide(n) == (n + cfg.fixed[1] - 1) \div cfg.fixed[1]
      high(n) == (n + cfg.fixed[2] - 1) \div cfg.fixed[2]
      block(t) == (TileY(g, t) \div cfg.fixed[2]) * wide(Len(g.columns))
                    + TileX(g, t) \div cfg.fixed[1]
      rest == IF cfg.sizes = <<>> THEN NumTiles(g) ELSE Last(cfg.sizes)
      size(n) == IF n <= Len(cfg.sizes) THEN cfg.sizes[n] ELSE rest
      from(n) == MapThenSumSet(size, 1 .. n - 1)
  IN  CASE cfg.raster ->
             [n \in {m \in 1 .. NumTiles(g) : from(m) < NumTiles(g)} |->
                {a \in all : TileOf(g, a) \in from(n) .. from(n) + size(n) - 1}]
        [] cfg.fixed[1] > 0 /\ cfg.fixed[2] > 0 ->
             [n \in 1 .. wide(Len(g.columns)) * high(Len(g.rows)) |->
                {a \in all : block(TileOf(g, a)) = n - 1}]
        [] cfg.positions = <<>> -> <<all>>
        [] OTHER ->
             [n \in DOMAIN cfg.positions |->
                LET p == cfg.positions[n]
                IN  {a \in all : /\ CtuX(g, a) \in CtuX(g, p[1]) .. CtuX(g, p[2])
                                 /\ CtuY(g, a) \in CtuY(g, p[1]) .. CtuY(g, p[2])}]

\* In the order of coding: tile by tile.
Asked ==
  LET sets  == AskedSets
      tiles == TilesFrom(layout.grid, 0, NumTiles(layout.grid))
  IN  [n \in DOMAIN sets |-> SelectSeq(tiles, LAMBDA a : a \in sets[n])]

\* The slices asked for cover the picture, each CTU once, and none cuts a tile
\* from top to bottom or is more than a tile and has a part of another.  The
\* last is the one at the bottom right, as its size is never told.
IsPossible ==
  LET g == layout.grid
      sets == AskedSets
      tiles(n) == {TileOf(g, a) : a \in sets[n]}
  IN  /\ NumCtus(g) - 1 \in sets[Len(sets)]
      /\ UNION {sets[n] : n \in DOMAIN sets} = 0 .. NumCtus(g) - 1
      /\ \A m, n \in DOMAIN sets : m # n => sets[m] \cap sets[n] = {}
      /\ \A n \in DOMAIN sets :
           LET whole == {a \in 0 .. NumCtus(g) - 1 : TileOf(g, a) \in tiles(n)}
           IN  \/ sets[n] = whole
              \/ /\ Cardinality(tiles(n)) = 1
                 /\ \A a \in sets[n], b \in whole : CtuY(g, a) = CtuY(g, b) => b \in sets[n]

\* What the parameter set leaves out is inferred as it was meant: the decoder
\* decodes just the slices the user asked for, in their order, whatever of their
\* sizes is told and whatever follows from the sizes before; a division that is
\* possible is not refused.  (Impossible ones the encoder may refuse or amend.)
SlicesComeBack ==
  /\ pc = "done" => (decoded = Asked \/ ~IsPossible)
  /\ pc = "refused" => ~IsPossible

\* Only here do the encoder's search and the decoder agree on the palette
\* predictor: no slice starts within a tile, or wavefronts reset it there.
PaletteIsUsable ==
  cfg.wpp \/ \A n \in DOMAIN layout.map : AtTileTop(layout.grid, layout.map[n][1])

\* Only here do the encoder's writer and the decoder agree on QPs of their own for
\* blocks: no slice has several tiles.
DeltaQpsAreUsable ==
  \A n \in DOMAIN layout.map :
    Cardinality({TileOf(layout.grid, a) : a \in ToSet(layout.map[n])}) = 1

\* The decoder starts each CTU from the same state of adaptation as the encoder
\* wrote and searched it with, although three functions reset and synchronise
\* that state, each in its own way.
StartsAlike ==
  LET searched == used["search"]
      written  == used["write"]
      read     == used["read"]
  IN  next = 0 => \A a \in DOMAIN read :
        /\ read[a].ctx = written[a].ctx
        /\ read[a].lut = searched[a].lut
        /\ PaletteIsUsable => read[a].plt = searched[a].plt
        /\ DeltaQpsAreUsable => read[a].qp = written[a].qp /\ read[a].qp = searched[a].qp

\* The contexts of a CTU have adapted to the earlier CTUs of its slice and tile,
\* with wavefronts to those of its row and to the first of each row above: tiles,
\* slices and rows can be coded in parallel, and a lost slice damages no other.
ContextsStayInside ==
  pc = "read" /\ next > 1 =>
    LET g    == layout.grid
        ctus == Last(decoded)
        a    == ctus[next - 1]
        counts(b) == /\ b < a /\ TileOf(g, b) = TileOf(g, a)
                     /\ cfg.wpp => AtTileLeft(g, b) \/ CtuY(g, b) = CtuY(g, a)
    IN  used["read"][a].ctx = SelectSeq(ctus, counts)

\* Header, entry points, substreams and the ends of the arithmetic coder agree:
\* the writer never runs out of buffers, and no CHECK of the decoder fails.
NeverAborts == pc = "aborted" => ~IsPossible
=============================================================================
