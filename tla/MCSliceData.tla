------------------------------ MODULE MCSliceData ------------------------------
EXTENDS SliceData

\* All lists of numbers that make up a total.
RECURSIVE Compositions(_)
Compositions(total) ==
  IF total = 0 THEN {<<>>}
  ELSE UNION {{<<n>> \o list : list \in Compositions(total - n)} : n \in 1 .. total}

\* The rectangles of tiles (x, y, w, h) with the corner t that lie in the free tiles.
Rectangles(cols, free, t) ==
  LET x == t % cols
      y == t \div cols
      tiles(w, h) == {(y + j) * cols + x + i : i \in 0 .. w - 1, j \in 0 .. h - 1}
  IN  {[x |-> x, y |-> y, w |-> w, h |-> h, tiles |-> tiles(w, h)] :
         <<w, h>> \in {<<w, h>> \in (1 .. cols - x) \X (1 .. 3) : tiles(w, h) \subseteq free}}

\* All ways to tile the free tiles by rectangles, in the order of their first tiles.
RECURSIVE Tilings(_, _)
Tilings(cols, free) ==
  IF free = {} THEN {<<>>}
  ELSE UNION {{<<r>> \o rest : rest \in Tilings(cols, free \ r.tiles)} :
                r \in Rectangles(cols, free, Min(free))}

\* All ways to divide the tiles, single tiles also into slices of their own.
Divisions(g, tiling) ==
  LET pos(x, y) == y * Width(g) + x
      left(r)   == Start(g.columns, r.x)
      right(r)  == Start(g.columns, r.x + r.w) - 1
      top(r)    == Start(g.rows, r.y)
      bottom(r) == Start(g.rows, r.y + r.h) - 1
      cuts(r)   == IF r.w * r.h > 1 THEN {<<bottom(r) - top(r) + 1>>}
                   ELSE Compositions(bottom(r) - top(r) + 1)
      slices(r, heights) ==
        [n \in DOMAIN heights |-> <<pos(left(r), top(r) + Start(heights, n - 1)),
                                    pos(right(r), top(r) + Start(heights, n) - 1)>>]
      all[n \in 0 .. Len(tiling)] ==
        IF n = 0 THEN {<<>>}
        ELSE {before \o slices(tiling[n], heights) :
                before \in all[n - 1], heights \in cuts(tiling[n])}
  IN  all[Len(tiling)]

\* Also in another order, which needs tile index deltas.
Orders(tiling) ==
  {tiling} \cup IF Len(tiling) < 4 THEN {}
                ELSE {<<tiling[1]>> \o Reverse(Tail(Front(tiling))) \o <<Last(tiling)>>}

Grid(w, h, columns, rows) ==
  GridOf(FilledUp(ExplicitSizes(columns, w), w), FilledUp(ExplicitSizes(rows, h), h))

\* Pictures, with the lists of tile sizes given.
Pictures == {
  [w |-> 3, h |-> 4, columns |-> <<>>, rows |-> <<>>],
  [w |-> 3, h |-> 5, columns |-> <<3, 3>>, rows |-> <<4>>],
  [w |-> 3, h |-> 4, columns |-> <<1>>, rows |-> <<2, 2, 2>>],
  [w |-> 4, h |-> 3, columns |-> <<1, 2>>, rows |-> <<2>>],
  [w |-> 3, h |-> 4, columns |-> <<2, 7>>, rows |-> <<1, 2>>]}

Rectangular(p) ==
  LET g == Grid(p.w, p.h, p.columns, p.rows)
  IN  UNION {Divisions(g, t) :
        t \in UNION {Orders(s) : s \in Tilings(Len(g.columns), 0 .. NumTiles(g) - 1)}}

\* Some that are impossible: across a tile, overlapping, incomplete.
Impossible(p) == {<<<<0, p.w * p.h - 2>>>>, <<<<0, p.w * p.h - 1>>, <<0, p.w * p.h - 1>>>>,
                  <<<<0, p.w - 1>>, <<2 * p.w, p.w * p.h - 1>>>>}

NoFixed == <<0, 0>>

Slices(p) ==
  LET g == Grid(p.w, p.h, p.columns, p.rows)
      division(raster, tiles, fixed, positions) ==
        p @@ [raster |-> raster, sizes |-> tiles, fixed |-> fixed, positions |-> positions]
  IN       {division(FALSE, <<>>, NoFixed, x) : x \in Rectangular(p) \cup Impossible(p) \cup {<<>>}}
      \cup {division(FALSE, <<>>, fixed, <<>>) : fixed \in (1 .. 2) \X (1 .. 2)}
      \cup IF NumTiles(g) = 1 THEN {}
           ELSE {division(TRUE, tiles, NoFixed, <<>>) : tiles \in {<<>>, <<1>>, <<2>>, <<1, 2>>, <<2, 1>>, <<2, 9>>}}

MCConfigurations ==
  {d @@ [wpp |-> wpp, entryPoints |-> entryPoints] :
     d \in UNION {Slices(p) : p \in Pictures}, wpp \in BOOLEAN, entryPoints \in BOOLEAN}
=============================================================================
