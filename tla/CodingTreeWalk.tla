--------------------------- MODULE CodingTreeWalk ----------------------------
(***************************************************************************)
(* The walk of CodingTree through a coding tree unit: it comes to every    *)
(* sample of the unit once, in luma and in chroma, it has coded the blocks *)
(* to the left and above before it reads them, and it fails no CHECK.      *)
(***************************************************************************)
EXTENDS CodingTreeProof

-----------------------------------------------------------------------------
(* What the walk has covered.  The samples of a unit inside the picture are *)
(* coded but for those of the parts that come later, on any level of the    *)
(* stack.  The levels are nested, the parts of a level do not overlap, and  *)
(* all are aligned to the smallest blocks.                                  *)

Within(q, a) == a.x <= q[1] /\ q[1] < a.x + a.w /\ a.y <= q[2] /\ q[2] < a.y + a.h

\* The samples to cover.
ToCover(c) == {q \in Cells(c, CtuArea(c)) : InPicture(c, q[1], q[2])}

Later(level, q) == \E k \in level.idx + 2 .. Len(level.parts) : Within(q, level.parts[k])

\* To come on the first n levels; here, the current part of level n as well.
Due(stack, n, here, q) ==
  \/ \E i \in 1 .. n : Later(stack[i], q)
  \/ here /\ Within(q, CurrentPart(stack[n]))

Walked(c, stack, n, here) == {q \in ToCover(c) : ~Due(stack, n, here, q)}

AlignedArea(c, a) == a.x % c.minCb = 0 /\ a.y % c.minCb = 0 /\ a.w >= c.minCb /\ a.h >= c.minCb
InOrder(a, b) == b.y >= a.y + a.h \/ b.x >= a.x + a.w
Inside(b, a) == a.x <= b.x /\ a.y <= b.y /\ b.x + b.w <= a.x + a.w /\ b.y + b.h <= a.y + a.h

\* A forced binary split is small enough for one.
SmallForBt(lim, a) == lim.mttDepth > 0 /\ a.w <= lim.maxBt /\ a.h <= lim.maxBt /\ a.w <= 64 /\ a.h <= 64
LimitsOf(c, ch) == c.limits[IF c.dual THEN ch ELSE "LUMA"]

LevelPlaced(c, ch, level) ==
  /\ level.idx + 1 \in 1 .. Len(level.parts)
  /\ \A k \in 1 .. Len(level.parts) :
       /\ AlignedArea(c, level.parts[k])
       /\ c.dual /\ level.split # "CTU_LEVEL" => level.parts[k].w <= 64 /\ level.parts[k].h <= 64
       /\ level.split \in MtSplits /\ Crosses(c, level.parts[k]) => SmallForBt(LimitsOf(c, ch), level.parts[k])
  /\ \A k, l \in 1 .. Len(level.parts) : k < l => InOrder(level.parts[k], level.parts[l])
  /\ level.implicit \in BtSplits => SmallForBt(LimitsOf(c, ch), CurrentPart(level))
  /\ level.implicit = "QUAD" => level.split \notin MtSplits
  /\ c.dual /\ level.implicit \notin {"UNCHECKED", "QUAD"} => CurrentPart(level).w <= 64 /\ CurrentPart(level).h <= 64

\* Parts of levels further up lie in the current parts below, and no quadtree split
\* comes after another one.
Above(level, below) ==
  /\ \A k \in 1 .. Len(level.parts) : Inside(level.parts[k], CurrentPart(below))
  /\ level.split = "QUAD" => below.split \notin MtSplits

Placed(c, ch, stack) ==
  /\ \A i \in DOMAIN stack : LevelPlaced(c, ch, stack[i])
  /\ \A i, j \in DOMAIN stack : i < j => Above(stack[j], stack[i])

PlacesInv == \A ch \in Channels : Placed(cfg, ch, parts[ch].stack)

\* Luma and chroma in turn: which of the quarters they are in.
TurnsInv ==
  /\ IsJoint(cfg) /\ calls # <<>> => Alternates(calls)
  /\ IsJoint(cfg) /\ calls = <<>> /\ pc = "return" => cur = "CHROMA"
  /\ cfg.dual /\ pc = "done" => cur = "CHROMA"
  /\ Alternates(calls) =>
       /\ \A ch \in Channels : parts[ch].stack[2].parts = SubAreas(CtuArea(cfg), "QUAD")
       /\ parts["LUMA"].stack[2].idx \in
            (LET at == parts["CHROMA"].stack[2].idx IN
             IF cur = "LUMA" THEN {at} ELSE IF at < 3 THEN {at + 1} ELSE {at})

\* The calls whose blocks are split in luma only: there is one when all units are intra.
LumaOnly(waiting) == {i \in DOMAIN waiting : waiting[i].kind # "joint" /\ waiting[i].chromaNotSplit}

LumaOnlyInv ==
  ~cfg.dual =>
    /\ LumaOnly(calls) = {} <=> parts[cur].modeType # "INTRA"
    /\ \A i, j \in LumaOnly(calls) : i = j
    /\ \A i \in LumaOnly(calls) : ~Crosses(cfg, CurrentPart(parts[cur].stack[i]))

\* Whether the current part of a partitioner that is not walked now is still to come.
WaitsHere(ch) ==
  IF ch = "CHROMA" THEN TRUE ELSE Alternates(calls) /\ parts["LUMA"].stack[2].idx # parts["CHROMA"].stack[2].idx

CoverInv ==
  LET stack == parts[cur].stack
      now == pc = "tree"
  IN IF cfg.dual
     THEN \A ch \in Channels :
            coded[ch] = Walked(cfg, parts[ch].stack, Len(parts[ch].stack), IF ch = cur THEN now ELSE WaitsHere(ch))
     ELSE /\ coded["LUMA"] = Walked(cfg, stack, Len(stack), now /\ ~InItsChroma(calls))
          /\ LumaOnly(calls) = {} => coded["CHROMA"] = Walked(cfg, stack, Len(stack), now)
          /\ \A i \in LumaOnly(calls) :
               coded["CHROMA"] = Walked(cfg, stack, i, ~InItsChroma(calls) \/ now)

WalkInv == PlacesInv /\ TurnsInv /\ LumaOnlyInv /\ (pc # "aborted" => CoverInv)

\* Where a part lies.
IsAt(b, x, y, w, h) == b.x = x /\ b.y = y /\ b.w = w /\ b.h = h

Form(P, a, split) ==
  /\ split = "QUAD" =>
       /\ Len(P) = 4
       /\ IsAt(P[1], a.x, a.y, a.w \div 2, a.h \div 2)
       /\ IsAt(P[2], a.x + a.w \div 2, a.y, a.w \div 2, a.h \div 2)
       /\ IsAt(P[3], a.x, a.y + a.h \div 2, a.w \div 2, a.h \div 2)
       /\ IsAt(P[4], a.x + a.w \div 2, a.y + a.h \div 2, a.w \div 2, a.h \div 2)
  /\ split = "HORZ" =>
       /\ Len(P) = 2
       /\ IsAt(P[1], a.x, a.y, a.w, a.h \div 2)
       /\ IsAt(P[2], a.x, a.y + a.h \div 2, a.w, a.h \div 2)
  /\ split = "VERT" =>
       /\ Len(P) = 2
       /\ IsAt(P[1], a.x, a.y, a.w \div 2, a.h)
       /\ IsAt(P[2], a.x + a.w \div 2, a.y, a.w \div 2, a.h)
  /\ split = "TRIH" =>
       /\ Len(P) = 3
       /\ IsAt(P[1], a.x, a.y, a.w, a.h \div 4)
       /\ IsAt(P[2], a.x, a.y + a.h \div 4, a.w, a.h \div 2)
       /\ IsAt(P[3], a.x, a.y + 3 * (a.h \div 4), a.w, a.h \div 4)
  /\ split = "TRIV" =>
       /\ Len(P) = 3
       /\ IsAt(P[1], a.x, a.y, a.w \div 4, a.h)
       /\ IsAt(P[2], a.x + a.w \div 4, a.y, a.w \div 2, a.h)
       /\ IsAt(P[3], a.x + 3 * (a.w \div 4), a.y, a.w \div 4, a.h)

\* getCUSubPartitions, part by part.
LEMMA SubAreasForm ==
  ASSUME NEW a, NEW split \in Splits
  PROVE  Form(SubAreas(a, split), a, split)
<1> DEFINE xs == CASE split \in {"QUAD", "VERT"} -> Halves(a.x, a.w)
                   [] split = "TRIV" -> Thirds(a.x, a.w)
                   [] OTHER -> Whole(a.x, a.w)
           ys == CASE split \in {"QUAD", "HORZ"} -> Halves(a.y, a.h)
                   [] split = "TRIH" -> Thirds(a.y, a.h)
                   [] OTHER -> Whole(a.y, a.h)
           areas == SubAreas(a, split)
           n == Len(xs) * Len(ys)
<1>1. areas = [i \in 1 .. n |-> [x |-> xs[((i - 1) % Len(xs)) + 1].at,
                                 y |-> ys[((i - 1) \div Len(xs)) + 1].at,
                                 w |-> xs[((i - 1) % Len(xs)) + 1].size,
                                 h |-> ys[((i - 1) \div Len(xs)) + 1].size]]
  BY DEF SubAreas
<1> HIDE DEF xs, ys, areas
<1>2. n \in Nat => Len(areas) = n
  <2> DEFINE S == {areas[i] : i \in 1 .. n}
  <2>2. DOMAIN areas = 1 .. n /\ areas = [i \in 1 .. n |-> areas[i]] BY <1>1
  <2> HIDE DEF n
  <2>3. areas \in [1 .. n -> S] BY <2>2
  <2> HIDE DEF S
  <2> SUFFICES ASSUME n \in Nat PROVE Len(areas) = n OBVIOUS
  <2>1. areas \in Seq(S) BY <2>3
  <2> QED BY <2>1, <2>2
<1>3. \A i \in 1 .. n : IsAt(areas[i], xs[((i - 1) % Len(xs)) + 1].at, ys[((i - 1) \div Len(xs)) + 1].at,
                                       xs[((i - 1) % Len(xs)) + 1].size, ys[((i - 1) \div Len(xs)) + 1].size)
  BY <1>1 DEF IsAt
<1> HIDE DEF n
<1>4. CASE split = "QUAD"
  <2>1. xs = Halves(a.x, a.w) /\ ys = Halves(a.y, a.h) BY <1>4 DEF xs, ys
  <2>2. /\ Len(xs) = 2 /\ xs[1].at = a.x /\ xs[1].size = a.w \div 2
        /\ xs[2].at = a.x + a.w \div 2 /\ xs[2].size = a.w \div 2
        /\ Len(ys) = 2 /\ ys[1].at = a.y /\ ys[1].size = a.h \div 2
        /\ ys[2].at = a.y + a.h \div 2 /\ ys[2].size = a.h \div 2
    BY <2>1 DEF Halves
  <2>3. n = 4 BY <2>2 DEF n
  <2>4. /\ 1 \in 1 .. 4 /\ 2 \in 1 .. 4 /\ 3 \in 1 .. 4 /\ 4 \in 1 .. 4 /\ 4 \in Nat
        /\ ((1 - 1) % 2) + 1 = 1 /\ ((1 - 1) \div 2) + 1 = 1 /\ ((2 - 1) % 2) + 1 = 2 /\ ((2 - 1) \div 2) + 1 = 1
        /\ ((3 - 1) % 2) + 1 = 1 /\ ((3 - 1) \div 2) + 1 = 2 /\ ((4 - 1) % 2) + 1 = 2 /\ ((4 - 1) \div 2) + 1 = 2
    OBVIOUS
  <2>5. \A i \in 1 .. 4 : IsAt(areas[i], xs[((i - 1) % 2) + 1].at, ys[((i - 1) \div 2) + 1].at,
                                         xs[((i - 1) % 2) + 1].size, ys[((i - 1) \div 2) + 1].size)
    BY <1>3, <2>2, <2>3
  <2>6. /\ IsAt(areas[1], xs[1].at, ys[1].at, xs[1].size, ys[1].size)
        /\ IsAt(areas[2], xs[2].at, ys[1].at, xs[2].size, ys[1].size)
        /\ IsAt(areas[3], xs[1].at, ys[2].at, xs[1].size, ys[2].size)
        /\ IsAt(areas[4], xs[2].at, ys[2].at, xs[2].size, ys[2].size)
    <3>1. IsAt(areas[1], xs[((1 - 1) % 2) + 1].at, ys[((1 - 1) \div 2) + 1].at,
                         xs[((1 - 1) % 2) + 1].size, ys[((1 - 1) \div 2) + 1].size) BY <2>4, <2>5
    <3>2. IsAt(areas[2], xs[((2 - 1) % 2) + 1].at, ys[((2 - 1) \div 2) + 1].at,
                         xs[((2 - 1) % 2) + 1].size, ys[((2 - 1) \div 2) + 1].size) BY <2>4, <2>5
    <3>3. IsAt(areas[3], xs[((3 - 1) % 2) + 1].at, ys[((3 - 1) \div 2) + 1].at,
                         xs[((3 - 1) % 2) + 1].size, ys[((3 - 1) \div 2) + 1].size) BY <2>4, <2>5
    <3>4. IsAt(areas[4], xs[((4 - 1) % 2) + 1].at, ys[((4 - 1) \div 2) + 1].at,
                         xs[((4 - 1) % 2) + 1].size, ys[((4 - 1) \div 2) + 1].size) BY <2>4, <2>5
    <3> QED BY <2>4, <3>1, <3>2, <3>3, <3>4
  <2>7. Len(areas) = 4 BY <1>2, <2>3, <2>4
  <2>8. Form(areas, a, split) BY <1>4, <2>2, <2>6, <2>7 DEF Form
  <2> QED BY <2>8 DEF areas
<1>5. CASE split = "HORZ"
  <2>1. xs = Whole(a.x, a.w) /\ ys = Halves(a.y, a.h) BY <1>5 DEF xs, ys
  <2>2. /\ Len(xs) = 1 /\ Len(ys) = 2
        /\ xs[1].at = a.x /\ xs[1].size = a.w
        /\ ys[1].at = a.y /\ ys[1].size = a.h \div 2
        /\ ys[2].at = a.y + a.h \div 2 /\ ys[2].size = a.h \div 2
    BY <2>1 DEF Halves, Whole
  <2>3. n = 2 BY <2>2 DEF n
  <2>4. /\ 1 \in 1 .. 2 /\ 2 \in 1 .. 2 /\ 2 \in Nat
        /\ ((1 - 1) % 1) + 1 = 1 /\ ((1 - 1) \div 1) + 1 = 1
        /\ ((2 - 1) % 1) + 1 = 1 /\ ((2 - 1) \div 1) + 1 = 2
    OBVIOUS
  <2>5. \A i \in 1 .. 2 : IsAt(areas[i], xs[((i - 1) % 1) + 1].at, ys[((i - 1) \div 1) + 1].at,
                                         xs[((i - 1) % 1) + 1].size, ys[((i - 1) \div 1) + 1].size)
    BY <1>3, <2>2, <2>3
  <2>6. /\ IsAt(areas[1], xs[1].at, ys[1].at, xs[1].size, ys[1].size)
        /\ IsAt(areas[2], xs[1].at, ys[2].at, xs[1].size, ys[2].size)
    <3>1. IsAt(areas[1], xs[((1 - 1) % 1) + 1].at, ys[((1 - 1) \div 1) + 1].at,
                         xs[((1 - 1) % 1) + 1].size, ys[((1 - 1) \div 1) + 1].size) BY <2>4, <2>5
    <3>2. IsAt(areas[2], xs[((2 - 1) % 1) + 1].at, ys[((2 - 1) \div 1) + 1].at,
                         xs[((2 - 1) % 1) + 1].size, ys[((2 - 1) \div 1) + 1].size) BY <2>4, <2>5
    <3> QED BY <2>4, <3>1, <3>2
  <2>7. Len(areas) = 2 BY <1>2, <2>3, <2>4
  <2>8. Form(areas, a, split) BY <1>5, <2>2, <2>6, <2>7 DEF Form
  <2> QED BY <2>8 DEF areas
<1>6. CASE split = "VERT"
  <2>1. xs = Halves(a.x, a.w) /\ ys = Whole(a.y, a.h) BY <1>6 DEF xs, ys
  <2>2. /\ Len(xs) = 2 /\ Len(ys) = 1
        /\ xs[1].at = a.x /\ xs[1].size = a.w \div 2
        /\ xs[2].at = a.x + a.w \div 2 /\ xs[2].size = a.w \div 2
        /\ ys[1].at = a.y /\ ys[1].size = a.h
    BY <2>1 DEF Halves, Whole
  <2>3. n = 2 BY <2>2 DEF n
  <2>4. /\ 1 \in 1 .. 2 /\ 2 \in 1 .. 2 /\ 2 \in Nat
        /\ ((1 - 1) % 2) + 1 = 1 /\ ((1 - 1) \div 2) + 1 = 1
        /\ ((2 - 1) % 2) + 1 = 2 /\ ((2 - 1) \div 2) + 1 = 1
    OBVIOUS
  <2>5. \A i \in 1 .. 2 : IsAt(areas[i], xs[((i - 1) % 2) + 1].at, ys[((i - 1) \div 2) + 1].at,
                                         xs[((i - 1) % 2) + 1].size, ys[((i - 1) \div 2) + 1].size)
    BY <1>3, <2>2, <2>3
  <2>6. /\ IsAt(areas[1], xs[1].at, ys[1].at, xs[1].size, ys[1].size)
        /\ IsAt(areas[2], xs[2].at, ys[1].at, xs[2].size, ys[1].size)
    <3>1. IsAt(areas[1], xs[((1 - 1) % 2) + 1].at, ys[((1 - 1) \div 2) + 1].at,
                         xs[((1 - 1) % 2) + 1].size, ys[((1 - 1) \div 2) + 1].size) BY <2>4, <2>5
    <3>2. IsAt(areas[2], xs[((2 - 1) % 2) + 1].at, ys[((2 - 1) \div 2) + 1].at,
                         xs[((2 - 1) % 2) + 1].size, ys[((2 - 1) \div 2) + 1].size) BY <2>4, <2>5
    <3> QED BY <2>4, <3>1, <3>2
  <2>7. Len(areas) = 2 BY <1>2, <2>3, <2>4
  <2>8. Form(areas, a, split) BY <1>6, <2>2, <2>6, <2>7 DEF Form
  <2> QED BY <2>8 DEF areas
<1>7. CASE split = "TRIH"
  <2>1. xs = Whole(a.x, a.w) /\ ys = Thirds(a.y, a.h) BY <1>7 DEF xs, ys
  <2>2. /\ Len(xs) = 1 /\ Len(ys) = 3
        /\ xs[1].at = a.x /\ xs[1].size = a.w
        /\ ys[1].at = a.y /\ ys[1].size = a.h \div 4
        /\ ys[2].at = a.y + a.h \div 4 /\ ys[2].size = a.h \div 2
        /\ ys[3].at = a.y + 3 * (a.h \div 4) /\ ys[3].size = a.h \div 4
    BY <2>1 DEF Thirds, Whole
  <2>3. n = 3 BY <2>2 DEF n
  <2>4. /\ 1 \in 1 .. 3 /\ 2 \in 1 .. 3 /\ 3 \in 1 .. 3 /\ 3 \in Nat
        /\ ((1 - 1) % 1) + 1 = 1 /\ ((1 - 1) \div 1) + 1 = 1
        /\ ((2 - 1) % 1) + 1 = 1 /\ ((2 - 1) \div 1) + 1 = 2
        /\ ((3 - 1) % 1) + 1 = 1 /\ ((3 - 1) \div 1) + 1 = 3
    OBVIOUS
  <2>5. \A i \in 1 .. 3 : IsAt(areas[i], xs[((i - 1) % 1) + 1].at, ys[((i - 1) \div 1) + 1].at,
                                         xs[((i - 1) % 1) + 1].size, ys[((i - 1) \div 1) + 1].size)
    BY <1>3, <2>2, <2>3
  <2>6. /\ IsAt(areas[1], xs[1].at, ys[1].at, xs[1].size, ys[1].size)
        /\ IsAt(areas[2], xs[1].at, ys[2].at, xs[1].size, ys[2].size)
        /\ IsAt(areas[3], xs[1].at, ys[3].at, xs[1].size, ys[3].size)
    <3>1. IsAt(areas[1], xs[((1 - 1) % 1) + 1].at, ys[((1 - 1) \div 1) + 1].at,
                         xs[((1 - 1) % 1) + 1].size, ys[((1 - 1) \div 1) + 1].size) BY <2>4, <2>5
    <3>2. IsAt(areas[2], xs[((2 - 1) % 1) + 1].at, ys[((2 - 1) \div 1) + 1].at,
                         xs[((2 - 1) % 1) + 1].size, ys[((2 - 1) \div 1) + 1].size) BY <2>4, <2>5
    <3>3. IsAt(areas[3], xs[((3 - 1) % 1) + 1].at, ys[((3 - 1) \div 1) + 1].at,
                         xs[((3 - 1) % 1) + 1].size, ys[((3 - 1) \div 1) + 1].size) BY <2>4, <2>5
    <3> QED BY <2>4, <3>1, <3>2, <3>3
  <2>7. Len(areas) = 3 BY <1>2, <2>3, <2>4
  <2>8. Form(areas, a, split) BY <1>7, <2>2, <2>6, <2>7 DEF Form
  <2> QED BY <2>8 DEF areas
<1>8. CASE split = "TRIV"
  <2>1. xs = Thirds(a.x, a.w) /\ ys = Whole(a.y, a.h) BY <1>8 DEF xs, ys
  <2>2. /\ Len(xs) = 3 /\ Len(ys) = 1
        /\ xs[1].at = a.x /\ xs[1].size = a.w \div 4
        /\ xs[2].at = a.x + a.w \div 4 /\ xs[2].size = a.w \div 2
        /\ xs[3].at = a.x + 3 * (a.w \div 4) /\ xs[3].size = a.w \div 4
        /\ ys[1].at = a.y /\ ys[1].size = a.h
    BY <2>1 DEF Thirds, Whole
  <2>3. n = 3 BY <2>2 DEF n
  <2>4. /\ 1 \in 1 .. 3 /\ 2 \in 1 .. 3 /\ 3 \in 1 .. 3 /\ 3 \in Nat
        /\ ((1 - 1) % 3) + 1 = 1 /\ ((1 - 1) \div 3) + 1 = 1
        /\ ((2 - 1) % 3) + 1 = 2 /\ ((2 - 1) \div 3) + 1 = 1
        /\ ((3 - 1) % 3) + 1 = 3 /\ ((3 - 1) \div 3) + 1 = 1
    OBVIOUS
  <2>5. \A i \in 1 .. 3 : IsAt(areas[i], xs[((i - 1) % 3) + 1].at, ys[((i - 1) \div 3) + 1].at,
                                         xs[((i - 1) % 3) + 1].size, ys[((i - 1) \div 3) + 1].size)
    BY <1>3, <2>2, <2>3
  <2>6. /\ IsAt(areas[1], xs[1].at, ys[1].at, xs[1].size, ys[1].size)
        /\ IsAt(areas[2], xs[2].at, ys[1].at, xs[2].size, ys[1].size)
        /\ IsAt(areas[3], xs[3].at, ys[1].at, xs[3].size, ys[1].size)
    <3>1. IsAt(areas[1], xs[((1 - 1) % 3) + 1].at, ys[((1 - 1) \div 3) + 1].at,
                         xs[((1 - 1) % 3) + 1].size, ys[((1 - 1) \div 3) + 1].size) BY <2>4, <2>5
    <3>2. IsAt(areas[2], xs[((2 - 1) % 3) + 1].at, ys[((2 - 1) \div 3) + 1].at,
                         xs[((2 - 1) % 3) + 1].size, ys[((2 - 1) \div 3) + 1].size) BY <2>4, <2>5
    <3>3. IsAt(areas[3], xs[((3 - 1) % 3) + 1].at, ys[((3 - 1) \div 3) + 1].at,
                         xs[((3 - 1) % 3) + 1].size, ys[((3 - 1) \div 3) + 1].size) BY <2>4, <2>5
    <3> QED BY <2>4, <3>1, <3>2, <3>3
  <2>7. Len(areas) = 3 BY <1>2, <2>3, <2>4
  <2>8. Form(areas, a, split) BY <1>8, <2>2, <2>6, <2>7 DEF Form
  <2> QED BY <2>8 DEF areas
<1> QED BY <1>4, <1>5, <1>6, <1>7, <1>8 DEF Splits, MtSplits, BtSplits, TtSplits

\* The parts of a split are in order, lie in the block, and make it up.
TilesAt(P, a, q) == (\E k \in 1 .. Len(P) : Within(q, P[k])) <=> Within(q, a)
Tiles(P, a) ==
  /\ \A q : q[1] \in Nat /\ q[2] \in Nat => TilesAt(P, a, q)
  /\ \A k, l \in 1 .. Len(P) : k < l => InOrder(P[k], P[l])
  /\ \A k \in 1 .. Len(P) : Inside(P[k], a)

\* Sizes halve and quarter without a rest.
LEMMA SubAreasTile ==
  ASSUME NEW a, a.x \in Nat, a.y \in Nat, a.w \in Sizes, a.h \in Sizes, NEW split \in Splits
  PROVE  Tiles(SubAreas(a, split), a)
<1> DEFINE P == SubAreas(a, split)
<1>1. Form(P, a, split) BY SubAreasForm
<1>2. /\ a.w \in Nat /\ a.w \div 2 \in Nat /\ a.w \div 4 \in Nat /\ 2 * (a.w \div 2) = a.w /\ 4 * (a.w \div 4) = a.w
      /\ a.h \in Nat /\ a.h \div 2 \in Nat /\ a.h \div 4 \in Nat /\ 2 * (a.h \div 2) = a.h /\ 4 * (a.h \div 4) = a.h
  BY HalfSize
<1> DEFINE w2 == a.w \div 2
           w4 == a.w \div 4
           h2 == a.h \div 2
           h4 == a.h \div 4
<1>9. /\ w2 \in Nat /\ w4 \in Nat /\ h2 \in Nat /\ h4 \in Nat /\ 2 * w2 = a.w /\ 2 * h2 = a.h
      /\ 4 * w4 = a.w /\ 4 * h4 = a.h /\ a.w \in Nat /\ a.h \in Nat
  BY <1>2
<1> HIDE DEF w2, w4, h2, h4
<1>3. /\ w2 \in Nat /\ w4 \in Nat /\ h2 \in Nat /\ h4 \in Nat /\ a.w = w2 + w2 /\ a.h = h2 + h2
      /\ w2 = w4 + w4 /\ h2 = h4 + h4 /\ 3 * w4 = w4 + w2 /\ 3 * h4 = h4 + h2
      /\ a.w \in Nat /\ a.h \in Nat
  BY <1>9
<1> HIDE DEF P
<1>4. CASE split = "QUAD"
  <2>1. /\ Len(P) = 4
        /\ IsAt(P[1], a.x, a.y, w2, h2)
        /\ IsAt(P[2], a.x + w2, a.y, w2, h2)
        /\ IsAt(P[3], a.x, a.y + h2, w2, h2)
        /\ IsAt(P[4], a.x + w2, a.y + h2, w2, h2)
    BY <1>1, <1>4 DEF Form, w2, w4, h2, h4
  <2>2. 1 .. 4 = {1, 2, 3, 4} OBVIOUS
  <2>3. \A k \in 1 .. Len(P) : Inside(P[k], a)
    <3>1. Inside(P[1], a) /\ Inside(P[2], a) /\ Inside(P[3], a) /\ Inside(P[4], a)
      BY <1>3, <2>1 DEF Inside, IsAt
    <3> QED BY <2>1, <2>2, <3>1
  <2>4. \A k, l \in 1 .. Len(P) : k < l => InOrder(P[k], P[l])
    <3>1. InOrder(P[1], P[2]) /\ InOrder(P[1], P[3]) /\ InOrder(P[1], P[4]) /\ InOrder(P[2], P[3]) /\ InOrder(P[2], P[4]) /\ InOrder(P[3], P[4])
      BY <1>3, <2>1 DEF InOrder, IsAt
    <3> QED BY <2>1, <2>2, <3>1
  <2>5. ASSUME NEW q, q[1] \in Nat, q[2] \in Nat PROVE TilesAt(P, a, q)
    <3>1. (Within(q, P[1]) \/ Within(q, P[2]) \/ Within(q, P[3]) \/ Within(q, P[4])) <=> Within(q, a)
      BY <1>3, <2>1, <2>5 DEF Within, IsAt
    <3> QED BY <2>1, <2>2, <3>1 DEF TilesAt
  <2>6. Tiles(P, a) BY <2>3, <2>4, <2>5 DEF Tiles
  <2> QED BY <2>6 DEF P
<1>5. CASE split = "HORZ"
  <2>1. /\ Len(P) = 2
        /\ IsAt(P[1], a.x, a.y, a.w, h2)
        /\ IsAt(P[2], a.x, a.y + h2, a.w, h2)
    BY <1>1, <1>5 DEF Form, w2, w4, h2, h4
  <2>2. 1 .. 2 = {1, 2} OBVIOUS
  <2>3. \A k \in 1 .. Len(P) : Inside(P[k], a)
    <3>1. Inside(P[1], a) /\ Inside(P[2], a)
      BY <1>3, <2>1 DEF Inside, IsAt
    <3> QED BY <2>1, <2>2, <3>1
  <2>4. \A k, l \in 1 .. Len(P) : k < l => InOrder(P[k], P[l])
    <3>1. InOrder(P[1], P[2])
      BY <1>3, <2>1 DEF InOrder, IsAt
    <3> QED BY <2>1, <2>2, <3>1
  <2>5. ASSUME NEW q, q[1] \in Nat, q[2] \in Nat PROVE TilesAt(P, a, q)
    <3>1. (Within(q, P[1]) \/ Within(q, P[2])) <=> Within(q, a)
      BY <1>3, <2>1, <2>5 DEF Within, IsAt
    <3> QED BY <2>1, <2>2, <3>1 DEF TilesAt
  <2>6. Tiles(P, a) BY <2>3, <2>4, <2>5 DEF Tiles
  <2> QED BY <2>6 DEF P
<1>6. CASE split = "VERT"
  <2>1. /\ Len(P) = 2
        /\ IsAt(P[1], a.x, a.y, w2, a.h)
        /\ IsAt(P[2], a.x + w2, a.y, w2, a.h)
    BY <1>1, <1>6 DEF Form, w2, w4, h2, h4
  <2>2. 1 .. 2 = {1, 2} OBVIOUS
  <2>3. \A k \in 1 .. Len(P) : Inside(P[k], a)
    <3>1. Inside(P[1], a) /\ Inside(P[2], a)
      BY <1>3, <2>1 DEF Inside, IsAt
    <3> QED BY <2>1, <2>2, <3>1
  <2>4. \A k, l \in 1 .. Len(P) : k < l => InOrder(P[k], P[l])
    <3>1. InOrder(P[1], P[2])
      BY <1>3, <2>1 DEF InOrder, IsAt
    <3> QED BY <2>1, <2>2, <3>1
  <2>5. ASSUME NEW q, q[1] \in Nat, q[2] \in Nat PROVE TilesAt(P, a, q)
    <3>1. (Within(q, P[1]) \/ Within(q, P[2])) <=> Within(q, a)
      BY <1>3, <2>1, <2>5 DEF Within, IsAt
    <3> QED BY <2>1, <2>2, <3>1 DEF TilesAt
  <2>6. Tiles(P, a) BY <2>3, <2>4, <2>5 DEF Tiles
  <2> QED BY <2>6 DEF P
<1>7. CASE split = "TRIH"
  <2>1. /\ Len(P) = 3
        /\ IsAt(P[1], a.x, a.y, a.w, h4)
        /\ IsAt(P[2], a.x, a.y + h4, a.w, h2)
        /\ IsAt(P[3], a.x, a.y + 3 * h4, a.w, h4)
    BY <1>1, <1>7 DEF Form, w2, w4, h2, h4
  <2>2. 1 .. 3 = {1, 2, 3} OBVIOUS
  <2>3. \A k \in 1 .. Len(P) : Inside(P[k], a)
    <3>1. Inside(P[1], a) /\ Inside(P[2], a) /\ Inside(P[3], a)
      BY <1>3, <2>1 DEF Inside, IsAt
    <3> QED BY <2>1, <2>2, <3>1
  <2>4. \A k, l \in 1 .. Len(P) : k < l => InOrder(P[k], P[l])
    <3>1. InOrder(P[1], P[2]) /\ InOrder(P[1], P[3]) /\ InOrder(P[2], P[3])
      BY <1>3, <2>1 DEF InOrder, IsAt
    <3> QED BY <2>1, <2>2, <3>1
  <2>5. ASSUME NEW q, q[1] \in Nat, q[2] \in Nat PROVE TilesAt(P, a, q)
    <3>1. (Within(q, P[1]) \/ Within(q, P[2]) \/ Within(q, P[3])) <=> Within(q, a)
      BY <1>3, <2>1, <2>5 DEF Within, IsAt
    <3> QED BY <2>1, <2>2, <3>1 DEF TilesAt
  <2>6. Tiles(P, a) BY <2>3, <2>4, <2>5 DEF Tiles
  <2> QED BY <2>6 DEF P
<1>8. CASE split = "TRIV"
  <2>1. /\ Len(P) = 3
        /\ IsAt(P[1], a.x, a.y, w4, a.h)
        /\ IsAt(P[2], a.x + w4, a.y, w2, a.h)
        /\ IsAt(P[3], a.x + 3 * w4, a.y, w4, a.h)
    BY <1>1, <1>8 DEF Form, w2, w4, h2, h4
  <2>2. 1 .. 3 = {1, 2, 3} OBVIOUS
  <2>3. \A k \in 1 .. Len(P) : Inside(P[k], a)
    <3>1. Inside(P[1], a) /\ Inside(P[2], a) /\ Inside(P[3], a)
      BY <1>3, <2>1 DEF Inside, IsAt
    <3> QED BY <2>1, <2>2, <3>1
  <2>4. \A k, l \in 1 .. Len(P) : k < l => InOrder(P[k], P[l])
    <3>1. InOrder(P[1], P[2]) /\ InOrder(P[1], P[3]) /\ InOrder(P[2], P[3])
      BY <1>3, <2>1 DEF InOrder, IsAt
    <3> QED BY <2>1, <2>2, <3>1
  <2>5. ASSUME NEW q, q[1] \in Nat, q[2] \in Nat PROVE TilesAt(P, a, q)
    <3>1. (Within(q, P[1]) \/ Within(q, P[2]) \/ Within(q, P[3])) <=> Within(q, a)
      BY <1>3, <2>1, <2>5 DEF Within, IsAt
    <3> QED BY <2>1, <2>2, <3>1 DEF TilesAt
  <2>6. Tiles(P, a) BY <2>3, <2>4, <2>5 DEF Tiles
  <2> QED BY <2>6 DEF P
<1> QED BY <1>4, <1>5, <1>6, <1>7, <1>8 DEF Splits, MtSplits, BtSplits, TtSplits

MinSizes == {4, 8, 16, 32, 64}

\* A size and the smallest one are powers of two.
LEMMA SizesAlign ==
  ASSUME NEW m \in MinSizes, NEW s \in Sizes, s >= m
  PROVE  /\ m \in Nat \ {0} /\ s \in Nat /\ s % m = 0 /\ m * (s \div m) = s /\ s \div m \in Nat
         /\ s >= 2 * m => s \div 2 >= m /\ (s \div 2) % m = 0 /\ s \div 2 \in Sizes
         /\ s >= 4 * m => s \div 4 >= m /\ (s \div 4) % m = 0 /\ (3 * (s \div 4)) % m = 0 /\ s \div 4 \in Sizes
         /\ s > m => s >= 2 * m
         /\ s > 2 * m => s >= 4 * m
  BY DEF MinSizes, Sizes

\* Sums of multiples.
LEMMA SumAligns ==
  ASSUME NEW m \in MinSizes, NEW x \in Nat, x % m = 0, NEW y \in Nat, y % m = 0
  PROVE  (x + y) % m = 0 /\ x + y \in Nat
<1>1. CASE m = 4 BY <1>1
<1>2. CASE m = 8 BY <1>2
<1>3. CASE m = 16 BY <1>3
<1>4. CASE m = 32 BY <1>4
<1>5. CASE m = 64 BY <1>5
<1> QED BY <1>1, <1>2, <1>3, <1>4, <1>5 DEF MinSizes

\* Multiples.
LEMMA MultipleOf ==
  ASSUME NEW m \in Nat \ {0}, NEW i \in Nat
  PROVE  m * i \in Nat /\ (m * i) % m = 0
<1>1. m * i \in Nat /\ 0 \in 0 .. m - 1 /\ m * i = m * i + 0 OBVIOUS
<1> QED BY <1>1, DivUnique

\* Their differences.
LEMMA DifferenceAligns ==
  ASSUME NEW m \in MinSizes, NEW x \in Nat, x % m = 0, NEW t \in Nat, t % m = 0, x <= t
  PROVE  (t - x) % m = 0
<1>1. CASE m = 4 BY <1>1
<1>2. CASE m = 8 BY <1>2
<1>3. CASE m = 16 BY <1>3
<1>4. CASE m = 32 BY <1>4
<1>5. CASE m = 64 BY <1>5
<1> QED BY <1>1, <1>2, <1>3, <1>4, <1>5 DEF MinSizes

\* The multiples from x on, below x + s.
OnLine(t, m, x, s) ==
  (\E i \in 0 .. (s \div m - 1) : t = x + m * i) <=> (t \in Nat /\ t % m = 0 /\ x <= t /\ t < x + s)

\* What the indices of the blocks run over.
LEMMA LineOfBlocks ==
  ASSUME NEW m \in MinSizes, NEW x \in Nat, x % m = 0, NEW s \in Sizes, s >= m, NEW t
  PROVE  OnLine(t, m, x, s)
<1>1. m \in Nat \ {0} /\ s \in Nat /\ m * (s \div m) = s /\ s \div m \in Nat BY SizesAlign
<1> DEFINE n == s \div m
<1>2. n \in Nat /\ m * n = s BY <1>1
<1> HIDE DEF n
<1>3. ASSUME NEW i \in 0 .. n - 1, t = x + m * i PROVE t \in Nat /\ t % m = 0 /\ x <= t /\ t < x + s
  <2>1. i \in Nat /\ i <= n - 1 BY <1>2, <1>3
  <2>2. m * i \in Nat /\ (m * i) % m = 0 BY <1>1, <2>1, MultipleOf
  <2>3. t % m = 0 /\ t \in Nat BY <1>3, <2>2, SumAligns
  <2>4. m * i < m * n
    <3>1. \A j, l \in Nat : j < l => m * j < m * l BY <1>1
    <3>2. i < n BY <1>2, <2>1
    <3> QED BY <1>2, <2>1, <3>1, <3>2
  <2> QED BY <1>1, <1>2, <1>3, <2>2, <2>3, <2>4
<1>4. ASSUME t \in Nat, t % m = 0, x <= t, t < x + s PROVE \E i \in 0 .. n - 1 : t = x + m * i
  <2> DEFINE d == t - x
             i == d \div m
  <2>1. d \in Nat /\ d < s /\ t = x + d BY <1>1, <1>4
  <2>2. d % m = 0 BY <1>4, DifferenceAligns
  <2> HIDE DEF d
  <2>3. i \in Nat /\ d = m * i + (d % m) BY <1>1, <2>1, DivFacts
  <2> HIDE DEF i
  <2>4. d = m * i BY <1>1, <2>2, <2>3
  <2>5. i < n
    <3>1. \A j, l \in Nat : m * j < m * l => j < l BY <1>1
    <3>2. m * i < m * n BY <1>2, <2>1, <2>4
    <3> QED BY <1>2, <2>3, <3>1, <3>2
  <2>6. i \in 0 .. n - 1 /\ t = x + m * i BY <1>2, <2>1, <2>3, <2>4, <2>5
  <2> QED BY <2>6
<1>5. (\E i \in 0 .. n - 1 : t = x + m * i) <=> (t \in Nat /\ t % m = 0 /\ x <= t /\ t < x + s)
  BY <1>3, <1>4
<1> QED BY <1>5 DEF OnLine, n

\* A place of a smallest block.
OnGrid(c, q) ==
  /\ q = <<q[1], q[2]>> /\ q[1] \in Nat /\ q[2] \in Nat
  /\ q[1] % c.minCb = 0 /\ q[2] % c.minCb = 0

\* Sizes and places in a unit.
Measured(a) == a.x \in Nat /\ a.y \in Nat /\ a.w \in Sizes /\ a.h \in Sizes

\* Positions and sizes are numbers.
LEMMA MeasuredInNat ==
  ASSUME NEW a, Measured(a)
  PROVE  a.x \in Nat /\ a.y \in Nat /\ a.w \in Nat /\ a.h \in Nat
<1>1. \A n \in Sizes : n \in Nat BY DEF Sizes
<1> QED BY <1>1 DEF Measured

InCells(c, a, q) == q \in Cells(c, a) <=> (OnGrid(c, q) /\ Within(q, a))

\* The blocks that a unit is recorded with are those it holds.
LEMMA CellsAreWithin ==
  ASSUME NEW c, c.minCb \in MinSizes, NEW a, Measured(a), AlignedArea(c, a), NEW q
  PROVE  InCells(c, a, q)
<1> DEFINE m == c.minCb
<1>1. /\ m \in MinSizes /\ a.x \in Nat /\ a.y \in Nat /\ a.w \in Sizes /\ a.h \in Sizes
      /\ a.x % m = 0 /\ a.y % m = 0 /\ a.w >= m /\ a.h >= m
  BY DEF Measured, AlignedArea
<1> HIDE DEF m
<1>2. OnLine(q[1], m, a.x, a.w) BY <1>1, LineOfBlocks
<1>3. OnLine(q[2], m, a.y, a.h) BY <1>1, LineOfBlocks
<1> DEFINE I == 0 .. (a.w \div m - 1)
           J == 0 .. (a.h \div m - 1)
<1>4. Cells(c, a) = {<<a.x + m * i, a.y + m * j>> : i \in I, j \in J} BY DEF Cells, m
<1> HIDE DEF I, J
<1>5. /\ (\E i \in I : q[1] = a.x + m * i) <=> (q[1] \in Nat /\ q[1] % m = 0 /\ a.x <= q[1] /\ q[1] < a.x + a.w)
      /\ (\E j \in J : q[2] = a.y + m * j) <=> (q[2] \in Nat /\ q[2] % m = 0 /\ a.y <= q[2] /\ q[2] < a.y + a.h)
  BY <1>2, <1>3 DEF OnLine, I, J
<1>6. ASSUME q \in Cells(c, a) PROVE OnGrid(c, q) /\ Within(q, a)
  <2>1. PICK i \in I, j \in J : q = <<a.x + m * i, a.y + m * j>> BY <1>4, <1>6
  <2>2. q[1] = a.x + m * i /\ q[2] = a.y + m * j /\ q = <<q[1], q[2]>> BY <2>1
  <2>3. /\ q[1] \in Nat /\ q[1] % m = 0 /\ a.x <= q[1] /\ q[1] < a.x + a.w
        /\ q[2] \in Nat /\ q[2] % m = 0 /\ a.y <= q[2] /\ q[2] < a.y + a.h
    BY <1>5, <2>2
  <2> QED BY <2>2, <2>3 DEF OnGrid, Within, m
<1>7. ASSUME OnGrid(c, q), Within(q, a) PROVE q \in Cells(c, a)
  <2>1. /\ q[1] \in Nat /\ q[1] % m = 0 /\ a.x <= q[1] /\ q[1] < a.x + a.w
        /\ q[2] \in Nat /\ q[2] % m = 0 /\ a.y <= q[2] /\ q[2] < a.y + a.h
        /\ q = <<q[1], q[2]>>
    BY <1>7 DEF OnGrid, Within, m
  <2>2. PICK i \in I : q[1] = a.x + m * i BY <1>5, <2>1
  <2>3. PICK j \in J : q[2] = a.y + m * j BY <1>5, <2>1
  <2>4. q = <<a.x + m * i, a.y + m * j>> BY <2>1, <2>2, <2>3
  <2> QED BY <1>4, <2>4
<1> QED BY <1>6, <1>7 DEF InCells

\* What splits there is room for, in blocks of the smallest size.
RoomFor(m, a, split) ==
  /\ split = "QUAD" => a.w >= 2 * m /\ a.h >= 2 * m
  /\ split = "HORZ" => a.h >= 2 * m
  /\ split = "VERT" => a.w >= 2 * m
  /\ split = "TRIH" => a.h >= 4 * m
  /\ split = "TRIV" => a.w >= 4 * m

\* A half or a quarter of an aligned dimension.
LineAligned(m, x, b, s) == b \in Nat /\ b % m = 0 /\ s >= m /\ s \in Sizes /\ b >= x

\* Along one dimension.
LEMMA PartsOfLine ==
  ASSUME NEW m \in MinSizes, NEW x \in Nat, x % m = 0, NEW s \in Sizes, s >= m
  PROVE  /\ LineAligned(m, x, x, s)
         /\ s >= 2 * m => LineAligned(m, x, x, s \div 2) /\ LineAligned(m, x, x + s \div 2, s \div 2)
         /\ s >= 4 * m => /\ LineAligned(m, x, x, s \div 4) /\ LineAligned(m, x, x + s \div 4, s \div 2)
                          /\ LineAligned(m, x, x + 3 * (s \div 4), s \div 4)
<1>1. /\ m \in Nat \ {0} /\ s \in Nat
      /\ s >= 2 * m => s \div 2 >= m /\ (s \div 2) % m = 0 /\ s \div 2 \in Sizes
      /\ s >= 4 * m => s \div 4 >= m /\ (s \div 4) % m = 0 /\ (3 * (s \div 4)) % m = 0 /\ s \div 4 \in Sizes
  BY SizesAlign
<1> DEFINE s2 == s \div 2
           s4 == s \div 4
           t4 == 3 * (s \div 4)
<1>2. s2 \in Nat /\ s4 \in Nat /\ t4 \in Nat BY <1>1
<1>3. s >= 4 * m => s >= 2 * m BY <1>1
<1> HIDE DEF s2, s4, t4
<1>4. /\ s >= 2 * m => s2 >= m /\ s2 % m = 0 /\ s2 \in Sizes
      /\ s >= 4 * m => s4 >= m /\ s4 % m = 0 /\ t4 % m = 0 /\ s4 \in Sizes
  BY <1>1 DEF s2, s4, t4
<1>5. s >= 2 * m => (x + s2) % m = 0 BY <1>2, <1>4, SumAligns
<1>6. s >= 4 * m => (x + s4) % m = 0 BY <1>2, <1>4, SumAligns
<1>7. s >= 4 * m => (x + t4) % m = 0 BY <1>2, <1>4, SumAligns
<1>8. LineAligned(m, x, x, s) BY DEF LineAligned
<1>9. s >= 2 * m => LineAligned(m, x, x, s2) /\ LineAligned(m, x, x + s2, s2)
  BY <1>2, <1>4, <1>5 DEF LineAligned
<1>10. s >= 4 * m => LineAligned(m, x, x, s4) /\ LineAligned(m, x, x + s4, s2) /\ LineAligned(m, x, x + t4, s4)
  BY <1>2, <1>3, <1>4, <1>6, <1>7 DEF LineAligned
<1> QED BY <1>8, <1>9, <1>10 DEF s2, s4, t4

\* The parts of a block are aligned as it is.
LEMMA PartsAlign ==
  ASSUME NEW c, c.minCb \in MinSizes, NEW a, Measured(a), AlignedArea(c, a),
         NEW split \in Splits, RoomFor(c.minCb, a, split), NEW b, IsPart(a, split, b)
  PROVE  Measured(b) /\ AlignedArea(c, b)
<1> DEFINE m == c.minCb
<1>1. /\ m \in MinSizes /\ a.x \in Nat /\ a.y \in Nat /\ a.w \in Sizes /\ a.h \in Sizes
      /\ a.x % m = 0 /\ a.y % m = 0 /\ a.w >= m /\ a.h >= m
  BY DEF Measured, AlignedArea
<1> HIDE DEF m
<1> DEFINE w2 == a.w \div 2
           w4 == a.w \div 4
           h2 == a.h \div 2
           h4 == a.h \div 4
<1>2. /\ LineAligned(m, a.x, a.x, a.w)
      /\ a.w >= 2 * m => LineAligned(m, a.x, a.x, w2) /\ LineAligned(m, a.x, a.x + w2, w2)
      /\ a.w >= 4 * m => /\ LineAligned(m, a.x, a.x, w4) /\ LineAligned(m, a.x, a.x + w4, w2)
                         /\ LineAligned(m, a.x, a.x + 3 * w4, w4)
  BY <1>1, PartsOfLine
<1>3. /\ LineAligned(m, a.y, a.y, a.h)
      /\ a.h >= 2 * m => LineAligned(m, a.y, a.y, h2) /\ LineAligned(m, a.y, a.y + h2, h2)
      /\ a.h >= 4 * m => /\ LineAligned(m, a.y, a.y, h4) /\ LineAligned(m, a.y, a.y + h4, h2)
                         /\ LineAligned(m, a.y, a.y + 3 * h4, h4)
  BY <1>1, PartsOfLine
<1>4. LineAligned(m, a.x, b.x, b.w)
  <2>1. CASE split \in {"QUAD", "VERT"}
    <3>1. b.w = w2 /\ b.x \in {a.x, a.x + w2} BY <2>1 DEF IsPart, IsHalf
    <3>2. a.w >= 2 * m BY <2>1 DEF RoomFor, m
    <3> HIDE DEF w2, w4
    <3> QED BY <1>2, <3>1, <3>2
  <2>2. CASE split = "TRIV"
    <3>1. (b.w = w4 /\ b.x \in {a.x, a.x + 3 * w4}) \/ (b.w = w2 /\ b.x = a.x + w4)
      BY <2>2 DEF IsPart, IsThird
    <3>2. a.w >= 4 * m BY <2>2 DEF RoomFor, m
    <3> HIDE DEF w2, w4
    <3> QED BY <1>2, <3>1, <3>2
  <2>3. CASE split \notin {"QUAD", "VERT", "TRIV"}
    <3>1. b.w = a.w /\ b.x = a.x BY <2>3 DEF IsPart
    <3> QED BY <1>2, <3>1
  <2> QED BY <2>1, <2>2, <2>3
<1>5. LineAligned(m, a.y, b.y, b.h)
  <2>1. CASE split \in {"QUAD", "HORZ"}
    <3>1. b.h = h2 /\ b.y \in {a.y, a.y + h2} BY <2>1 DEF IsPart, IsHalf
    <3>2. a.h >= 2 * m BY <2>1 DEF RoomFor, m
    <3> HIDE DEF h2, h4
    <3> QED BY <1>3, <3>1, <3>2
  <2>2. CASE split = "TRIH"
    <3>1. (b.h = h4 /\ b.y \in {a.y, a.y + 3 * h4}) \/ (b.h = h2 /\ b.y = a.y + h4)
      BY <2>2 DEF IsPart, IsThird
    <3>2. a.h >= 4 * m BY <2>2 DEF RoomFor, m
    <3> HIDE DEF h2, h4
    <3> QED BY <1>3, <3>1, <3>2
  <2>3. CASE split \notin {"QUAD", "HORZ", "TRIH"}
    <3>1. b.h = a.h /\ b.y = a.y BY <2>3 DEF IsPart
    <3> QED BY <1>3, <3>1
  <2> QED BY <2>1, <2>2, <2>3
<1> QED BY <1>4, <1>5 DEF LineAligned, Measured, AlignedArea, m

\* Multiples of a larger power of two.
LEMMA MultiplesAlign ==
  ASSUME NEW m \in MinSizes, NEW u \in {32, 64, 128}, m <= u, NEW x \in Nat, x % u = 0
  PROVE  x % m = 0
<1>1. CASE m = 4 BY <1>1
<1>2. CASE m = 8 BY <1>2
<1>3. CASE m = 16 BY <1>3
<1>4. CASE m = 32 BY <1>4
<1>5. CASE m = 64 BY <1>5
<1> QED BY <1>1, <1>2, <1>3, <1>4, <1>5 DEF MinSizes

\* What xCheckParameter grants of the limits.
LimitsOK(c, lim) ==
  /\ lim.minQt \in Nat /\ lim.minQt >= c.minCb /\ lim.maxBt \in Nat /\ lim.mttDepth \in Nat

ConfigOK(c) ==
  /\ c.minCb \in MinSizes /\ c.width \in Nat /\ c.height \in Nat /\ c.ctuX \in Nat /\ c.ctuY \in Nat
  /\ c.width % c.minCb = 0 /\ c.height % c.minCb = 0
  /\ Measured(CtuArea(c)) /\ AlignedArea(c, CtuArea(c))
  /\ \A ch \in Channels : LimitsOK(c, LimitsOf(c, ch))

\* The smallest blocks are no larger than the unit.
LEMMA ConfigFacts ==
  ASSUME NEW c, ValidConfig(c)
  PROVE  ConfigOK(c)
<1> DEFINE m == c.minCb
           l == c.limits["LUMA"]
<1>1. /\ c.width \in Nat /\ c.height \in Nat /\ c.ctuX \in Nat /\ c.ctuY \in Nat
      /\ c.width % m = 0 /\ c.height % m = 0 /\ c.ctu \in {32, 64, 128}
      /\ c.ctuX % c.ctu = 0 /\ c.ctuY % c.ctu = 0
      /\ IsPowerOfTwo(m) /\ m >= 4
      /\ ValidLimits(c, l, m, 64)
  BY DEF ValidConfig, MIN_TB_SIZEY
<1>2. m \in {1, 2, 4, 8, 16, 32, 64, 128}
  <2>1. PICK i \in 0 .. 7 : m = 2 ^ i BY <1>1 DEF IsPowerOfTwo
  <2>2. i \in {0, 1, 2, 3, 4, 5, 6, 7} BY <2>1
  <2>3. /\ 2 ^ 0 = 1 /\ 2 ^ 1 = 2 /\ 2 ^ 2 = 4 /\ 2 ^ 3 = 8
        /\ 2 ^ 4 = 16 /\ 2 ^ 5 = 32 /\ 2 ^ 6 = 64 /\ 2 ^ 7 = 128
    BY SmallPowers
  <2> HIDE DEF m
  <2>4. m \in {2 ^ 0, 2 ^ 1, 2 ^ 2, 2 ^ 3, 2 ^ 4, 2 ^ 5, 2 ^ 6, 2 ^ 7} BY <2>1, <2>2, Zenon
  <2> QED BY <2>3, <2>4
<1>3. /\ l.minQt \in m .. 64 /\ l.maxBt \in l.minQt .. c.ctu /\ l.mttDepth \in Nat
  BY <1>1 DEF ValidLimits
<1> HIDE DEF m, l
<1>4. /\ l.minQt \in Int /\ l.minQt >= m /\ l.minQt <= 64 /\ l.maxBt \in Int /\ l.maxBt >= l.minQt /\ l.maxBt <= c.ctu
  BY <1>1, <1>2, <1>3
<1>5. m \in MinSizes BY <1>1, <1>2, <1>4 DEF MinSizes
<1>6. c.ctu >= m /\ l.minQt >= m /\ l.minQt \in Nat /\ l.maxBt \in Nat BY <1>1, <1>4, <1>5 DEF MinSizes
<1>7. Measured(CtuArea(c)) BY <1>1 DEF Measured, CtuArea, Sizes
<1>8. AlignedArea(c, CtuArea(c))
  <2>1. ASSUME NEW x \in Nat, x % c.ctu = 0 PROVE x % m = 0
    BY <1>1, <1>5, <1>6, <2>1, MultiplesAlign
  <2> QED BY <1>1, <1>6, <2>1 DEF AlignedArea, CtuArea, m
<1>9. ASSUME NEW ch \in Channels PROVE LimitsOK(c, LimitsOf(c, ch))
  <2>1. CASE ~c.dual \/ ch = "LUMA"
    <3>1. LimitsOf(c, ch) = l BY <2>1 DEF LimitsOf, l
    <3> QED BY <1>3, <1>6, <3>1 DEF LimitsOK, m
  <2>2. CASE c.dual /\ ch = "CHROMA"
    <3> DEFINE k == c.limits["CHROMA"]
               low == IF m < 8 THEN 8 ELSE m
               high == IF c.ctu < 64 THEN c.ctu ELSE 64
    <3>1. ValidLimits(c, k, low, high) BY <2>2 DEF ValidConfig, m
    <3>2. k.minQt \in low .. high /\ k.maxBt \in k.minQt .. c.ctu /\ k.mttDepth \in Nat
      BY <3>1 DEF ValidLimits
    <3>3. LimitsOf(c, ch) = k BY <2>2 DEF LimitsOf
    <3> HIDE DEF k
    <3>4. low \in Nat /\ low >= m BY <1>5 DEF MinSizes
    <3> HIDE DEF low, high
    <3>5. k.minQt \in Nat /\ k.minQt >= m /\ k.maxBt \in Nat BY <1>5, <3>2, <3>4 DEF MinSizes
    <3> QED BY <3>2, <3>3, <3>5 DEF LimitsOK, m
  <2> QED BY <2>1, <2>2 DEF Channels
<1> QED BY <1>1, <1>5, <1>7, <1>8, <1>9 DEF ConfigOK, m

\* A border at a multiple of the smallest size leaves room for a split of what crosses it.
LEMMA CrossingHasRoom ==
  ASSUME NEW m \in MinSizes, NEW x \in Nat, x % m = 0, NEW s \in Sizes, s >= m,
         NEW border \in Nat, border % m = 0, x < border, x + s > border
  PROVE  s >= 2 * m
<1>1. s # m
  <2> SUFFICES ASSUME s = m PROVE FALSE OBVIOUS
  <2>1. CASE m = 4 BY <2>1
  <2>2. CASE m = 8 BY <2>2
  <2>3. CASE m = 16 BY <2>3
  <2>4. CASE m = 32 BY <2>4
  <2>5. CASE m = 64 BY <2>5
  <2> QED BY <2>1, <2>2, <2>3, <2>4, <2>5 DEF MinSizes
<1>2. m \in Nat /\ s \in Nat BY SizesAlign
<1>3. s > m BY <1>1, <1>2
<1> QED BY <1>3, SizesAlign

\* A block that a split is permitted for.
Permitted(c, ch, p, split) ==
  /\ ConfigOK(c) /\ BorderOK(c) /\ (c.dual => p.chType = ch)
  /\ LevelOK(Top(p)) /\ (\E m : LevelShape(c, ch, Top(p), m)) /\ LevelPlaced(c, ch, Top(p))
  /\ Top(p).implicit \in {"NO", "QUAD", "HORZ", "VERT"} /\ p.treeType # "TREE_C"
  /\ InPicture(c, Area(p).x, Area(p).y)
  /\ split \in Splits /\ split \in CanSplit(c, p)

\* What it needs so that its parts are where they have to be.
SplitPlaces(c, ch, a, below, split) ==
  /\ RoomFor(c.minCb, a, split)
  /\ split = "QUAD" => below \notin MtSplits
  /\ c.dual /\ split # "QUAD" => a.w <= 64 /\ a.h <= 64
  /\ split \in MtSplits /\ Crosses(c, a) => SmallForBt(LimitsOf(c, ch), a)

\* canSplit permits no quadtree split below a binary or a ternary one.
LEMMA QuadrantsOfSquares ==
  ASSUME NEW c, NEW ch, NEW p, Permitted(c, ch, p, "QUAD")
  PROVE  /\ Top(p).split \notin MtSplits
         /\ Top(p).implicit = "NO" => Area(p).w > LimitsOf(c, ch).minQt
<1> DEFINE top == Top(p)
           a == Area(p)
           bt == {s \in BtSplits : s = top.implicit /\ ~(s = "VERT" /\ p.chType = "CHROMA" /\ ChromaWidth(a) = 4)}
<1>1. PICK m : LevelShape(c, ch, top, m) BY DEF Permitted
<1>2. a = CurrentPart(top) /\ AreaOK(c, ch, a, m)
  <2>1. LevelOK(Top(p)) /\ LevelShape(c, ch, Top(p), m) BY <1>1 DEF Permitted
  <2> QED BY <2>1, TopsPart
<1>3. CanQt(c, p) => top.split \notin MtSplits /\ a.w > Limits(c, p).minQt
  BY DEF CanQt, MtSplits, BtSplits, TtSplits, Top
<1>4. Limits(c, p) = LimitsOf(c, ch) BY DEF Limits, LimitsOf, Permitted
<1>5. CASE top.implicit = "NO"
  <2>1. CanQt(c, p)
    <3>1. "QUAD" \in Splits /\ "QUAD" \in CanSplit(c, p) /\ p.treeType # "TREE_C" BY DEF Permitted
    <3>2. IF Top(p).implicit = "NO"
          THEN /\ "QUAD" = "QUAD" => CanQt(c, p)
               /\ "QUAD" \in BtSplits => CanBt(c, p, "QUAD")
               /\ "QUAD" \in TtSplits => CanTt(c, p, "QUAD")
          ELSE "QUAD" = "QUAD" \/ ("QUAD" \in BtSplits /\ "QUAD" = Top(p).implicit)
      BY <3>1, Permits
    <3> QED BY <1>5, <3>2
  <2> QED BY <1>3, <1>4, <2>1
<1>6. CASE top.implicit # "NO"
  <2>1. "QUAD" \in ForcedSplits(c, p) BY <1>6 DEF Permitted, CanSplit, Top
  <2>2. bt = {} \/ CanQt(c, p)
    <3>1. "QUAD" \notin bt BY DEF BtSplits
    <3> QED BY <2>1, <3>1 DEF ForcedSplits, Top
  <2>3. CASE CanQt(c, p) BY <1>3, <1>6, <2>3
  <2>4. CASE bt = {}
    <3>1. top.implicit \notin BtSplits \/ (top.implicit = "VERT" /\ ChromaWidth(a) = 4) BY <2>4
    <3>2. ~(top.implicit = "VERT" /\ ChromaWidth(a) = 4)
      <4> SUFFICES ASSUME top.implicit = "VERT", ChromaWidth(a) = 4 PROVE FALSE OBVIOUS
      <4>1. a.x + a.w > c.width BY <1>1, <1>2 DEF LevelShape
      <4>2. Forced(c, a, "VERT") BY <4>1 DEF Forced
      <4>3. PlaceOK(c, a) /\ BorderOK(c) /\ InPicture(c, a.x, a.y) BY <1>2 DEF AreaOK, Permitted
      <4>4. a.w >= 16 BY <4>2, <4>3, ForcedIsLarge
      <4>5. a.w \in Sizes BY <4>3 DEF PlaceOK
      <4> QED BY <4>4, <4>5 DEF ChromaWidth, Sizes
    <3>3. top.implicit = "QUAD" BY <1>6, <3>1, <3>2 DEF Permitted, BtSplits
    <3> QED BY <1>6, <3>3 DEF Permitted, LevelPlaced
  <2> QED BY <2>2, <2>3, <2>4
<1> QED BY <1>5, <1>6

\* canSplit looks at the sizes, or the border forces the split.
LEMMA PermittedHasRoom ==
  ASSUME NEW c, NEW ch \in Channels, NEW p, NEW split, Permitted(c, ch, p, split)
  PROVE  SplitPlaces(c, ch, Area(p), Top(p).split, split)
<1> DEFINE top == Top(p)
           a == Area(p)
           n == c.minCb
           lim == LimitsOf(c, ch)
<1>1. PICK m : LevelShape(c, ch, top, m) BY DEF Permitted
<1>2. a = CurrentPart(top) /\ PlaceOK(c, a) /\ (top.split \notin MtSplits => a.w = a.h)
  <2>1. LevelOK(Top(p)) /\ LevelShape(c, ch, Top(p), m) BY <1>1 DEF Permitted
  <2> QED BY <2>1, TopsPart DEF AreaOK
<1>3. LevelPlaced(c, ch, top) /\ split \in Splits /\ ch \in Channels BY DEF Permitted
<1>4. AlignedArea(c, a) /\ (c.dual /\ top.split # "CTU_LEVEL" => a.w <= 64 /\ a.h <= 64)
  BY <1>2, <1>3 DEF LevelPlaced, CurrentPart
<1>5. IF top.implicit = "NO"
      THEN /\ split = "QUAD" => CanQt(c, p)
           /\ split \in BtSplits => CanBt(c, p, split)
           /\ split \in TtSplits => CanTt(c, p, split)
      ELSE split = "QUAD" \/ (split \in BtSplits /\ split = top.implicit)
  BY Permits DEF Permitted
<1>6. split = "QUAD" => top.split \notin MtSplits /\ (top.implicit = "NO" => a.w > lim.minQt)
  BY QuadrantsOfSquares
<1>7. /\ n \in MinSizes /\ c.width \in Nat /\ c.height \in Nat /\ c.width % n = 0 /\ c.height % n = 0
      /\ lim.minQt \in Nat /\ lim.minQt >= n
  BY <1>3 DEF Permitted, ConfigOK, LimitsOK
<1>8. /\ a.x \in Nat /\ a.y \in Nat /\ a.w \in Sizes /\ a.h \in Sizes
      /\ a.x % n = 0 /\ a.y % n = 0 /\ a.w >= n /\ a.h >= n
      /\ a.x < c.width /\ a.y < c.height
  BY <1>2, <1>4 DEF PlaceOK, AlignedArea, Permitted, InPicture
<1>9. /\ top.implicit = "NO" => ~Crosses(c, a)
      /\ top.implicit = "QUAD" => Crosses(c, a) \/ a.w > 64 \/ a.h > 64
      /\ top.implicit = "HORZ" => a.y + a.h > c.height
      /\ top.implicit = "VERT" => a.x + a.w > c.width
      /\ top.implicit \in BtSplits => SmallForBt(lim, a)
      /\ c.dual /\ top.implicit \notin {"UNCHECKED", "QUAD"} => a.w <= 64 /\ a.h <= 64
      /\ top.implicit \in {"NO", "QUAD", "HORZ", "VERT"}
  BY <1>1, <1>2, <1>3 DEF LevelShape, LevelPlaced, Permitted
<1>10. /\ CanBt(c, p, "HORZ") => a.h > n
       /\ CanBt(c, p, "VERT") => a.w > n
       /\ CanTt(c, p, "TRIH") => a.h > 2 * n
       /\ CanTt(c, p, "TRIV") => a.w > 2 * n
  BY DEF CanBt, CanTt
<1> HIDE DEF top, a, n, lim
<1>11. /\ a.w > n => a.w >= 2 * n
       /\ a.h > n => a.h >= 2 * n
       /\ a.w > 2 * n => a.w >= 4 * n
       /\ a.h > 2 * n => a.h >= 4 * n
  BY <1>7, <1>8, SizesAlign
<1>12. /\ a.x + a.w > c.width => a.w >= 2 * n
       /\ a.y + a.h > c.height => a.h >= 2 * n
  BY <1>7, <1>8, CrossingHasRoom
<1>13. n \in Nat /\ a.w \in Nat /\ a.h \in Nat /\ n <= 64
  BY <1>7, <1>8 DEF MinSizes, Sizes
<1>14. a.w > 64 => a.w >= 2 * n BY <1>8, <1>13 DEF Sizes
<1>15. a.h > 64 => a.h >= 2 * n BY <1>8, <1>13 DEF Sizes
<1>16. split = "QUAD" => a.w >= 2 * n /\ a.h >= 2 * n
  <2> SUFFICES ASSUME split = "QUAD" PROVE a.w >= 2 * n /\ a.h >= 2 * n OBVIOUS
  <2>1. a.w = a.h BY <1>2, <1>6
  <2>2. CASE top.implicit = "NO"
    <3>1. a.w > n BY <1>6, <1>7, <1>13, <2>2
    <3> QED BY <1>11, <2>1, <3>1
  <2>3. CASE top.implicit # "NO"
    <3>1. (a.x + a.w > c.width \/ a.y + a.h > c.height) \/ a.w > 64 \/ a.h > 64
      BY <1>9, <2>3 DEF Crosses
    <3> QED BY <1>12, <1>14, <1>15, <2>1, <3>1
  <2> QED BY <2>2, <2>3
<1>17. split = "HORZ" => a.h >= 2 * n BY <1>5, <1>9, <1>10, <1>11, <1>12 DEF BtSplits
<1>18. split = "VERT" => a.w >= 2 * n BY <1>5, <1>9, <1>10, <1>11, <1>12 DEF BtSplits
<1>19. split = "TRIH" => a.h >= 4 * n BY <1>5, <1>10, <1>11 DEF BtSplits, TtSplits
<1>20. split = "TRIV" => a.w >= 4 * n BY <1>5, <1>10, <1>11 DEF BtSplits, TtSplits
<1>21. RoomFor(n, a, split) BY <1>16, <1>17, <1>18, <1>19, <1>20 DEF RoomFor
<1>22. c.dual /\ split # "QUAD" => a.w <= 64 /\ a.h <= 64
  BY <1>5, <1>9 DEF BtSplits
<1>23. split \in MtSplits /\ Crosses(c, a) => SmallForBt(lim, a)
  BY <1>5, <1>9 DEF MtSplits, BtSplits, TtSplits
<1> QED BY <1>6, <1>21, <1>22, <1>23 DEF SplitPlaces, top, a, n, lim

\* What lies in a block is not larger than it.
LEMMA InsideFacts ==
  ASSUME NEW c, c.width \in Nat, c.height \in Nat, NEW a, Measured(a), NEW b, Measured(b), Inside(b, a)
  PROVE  b.w <= a.w /\ b.h <= a.h /\ (Crosses(c, b) => Crosses(c, a))
<1>1. a.x \in Nat /\ a.y \in Nat /\ a.w \in Nat /\ a.h \in Nat /\ b.x \in Nat /\ b.y \in Nat /\ b.w \in Nat /\ b.h \in Nat
  BY DEF Measured, Sizes
<1>2. a.x <= b.x /\ a.y <= b.y /\ b.x + b.w <= a.x + a.w /\ b.y + b.h <= a.y + a.h
  BY DEF Inside
<1>3. b.w <= a.w /\ b.h <= a.h BY <1>1, <1>2
<1>4. /\ b.x + b.w > c.width => a.x + a.w > c.width
      /\ b.y + b.h > c.height => a.y + a.h > c.height
  BY <1>1, <1>2
<1> QED BY <1>3, <1>4 DEF Crosses

\* A block in a block in a block.
LEMMA InsideTrans ==
  ASSUME NEW a, Measured(a), NEW b, Measured(b), NEW d, Measured(d), Inside(d, b), Inside(b, a)
  PROVE  Inside(d, a)
<1>1. /\ a.x \in Nat /\ a.y \in Nat /\ a.w \in Nat /\ a.h \in Nat /\ b.x \in Nat /\ b.y \in Nat /\ b.w \in Nat /\ b.h \in Nat
      /\ d.x \in Nat /\ d.y \in Nat /\ d.w \in Nat /\ d.h \in Nat
  BY DEF Measured, Sizes
<1> QED BY <1>1 DEF Inside

\* splitCurrArea puts a level on the stack that is as it has to be.
LEMMA SplitLevelPlaced ==
  ASSUME NEW c, ConfigOK(c), NEW ch \in Channels, NEW a, Measured(a), AlignedArea(c, a),
         NEW split \in Splits, NEW below, SplitPlaces(c, ch, a, below, split), NEW qgEnable
  PROVE  /\ LevelPlaced(c, ch, Level(split, SubAreas(a, split), qgEnable))
         /\ \A k \in 1 .. Len(SubAreas(a, split)) : Measured(SubAreas(a, split)[k]) /\ Inside(SubAreas(a, split)[k], a)
<1> DEFINE P == SubAreas(a, split)
           level == Level(split, P, qgEnable)
           lim == LimitsOf(c, ch)
<1>1. Tiles(P, a)
  <2>1. a.x \in Nat /\ a.y \in Nat /\ a.w \in Sizes /\ a.h \in Sizes BY DEF Measured
  <2> QED BY <2>1, SubAreasTile
<1>2. Len(P) \in Nat /\ Len(P) > 0 BY SubAreasFacts
<1>3. \A k \in 1 .. Len(P) : IsPart(a, split, P[k]) BY SubAreasAreParts
<1>4. c.minCb \in MinSizes /\ c.width \in Nat /\ c.height \in Nat BY DEF ConfigOK
<1>5. RoomFor(c.minCb, a, split) BY DEF SplitPlaces
<1>6. level.split = split /\ level.parts = P /\ level.idx = 0 /\ level.implicit = "UNCHECKED"
  BY DEF Level
<1> HIDE DEF P, level, lim
<1>7. ASSUME NEW k \in 1 .. Len(P) PROVE Measured(P[k]) /\ AlignedArea(c, P[k]) /\ Inside(P[k], a)
  <2>1. IsPart(a, split, P[k]) BY <1>3
  <2>2. Measured(P[k]) /\ AlignedArea(c, P[k]) BY <1>4, <1>5, <2>1, PartsAlign
  <2> QED BY <1>1, <2>2 DEF Tiles
<1>8. ASSUME NEW k \in 1 .. Len(P), c.dual PROVE P[k].w <= 64 /\ P[k].h <= 64
  <2>1. P[k].w <= a.w /\ P[k].h <= a.h BY <1>4, <1>7, InsideFacts
  <2>2. P[k].w \in Nat /\ P[k].h \in Nat /\ a.w \in Sizes /\ a.h \in Sizes BY <1>7 DEF Measured, Sizes
  <2>3. CASE split # "QUAD"
    <3>1. a.w <= 64 /\ a.h <= 64 BY <1>8, <2>3 DEF SplitPlaces
    <3> QED BY <2>1, <2>2, <3>1 DEF Sizes
  <2>4. CASE split = "QUAD"
    <3>1. P[k].w = a.w \div 2 /\ P[k].h = a.h \div 2 BY <1>3, <2>4 DEF IsPart, IsHalf
    <3>2. a.w \div 2 <= 64 /\ a.h \div 2 <= 64 BY <2>2 DEF Sizes
    <3> QED BY <3>1, <3>2
  <2> QED BY <2>3, <2>4
<1>9. ASSUME NEW k \in 1 .. Len(P), split \in MtSplits, Crosses(c, P[k]) PROVE SmallForBt(lim, P[k])
  <2>1. P[k].w <= a.w /\ P[k].h <= a.h /\ Crosses(c, a) BY <1>4, <1>7, <1>9, InsideFacts
  <2>2. SmallForBt(lim, a) BY <1>9, <2>1 DEF SplitPlaces, lim
  <2>3. P[k].w \in Nat /\ P[k].h \in Nat /\ a.w \in Nat /\ a.h \in Nat
    <3>1. Measured(P[k]) /\ Measured(a) BY <1>7
    <3> QED BY <3>1, MeasuredInNat
  <2>4. lim.maxBt \in Nat BY DEF ConfigOK, LimitsOK, lim
  <2> QED BY <2>1, <2>2, <2>3, <2>4 DEF SmallForBt
<1>10. level.idx + 1 \in 1 .. Len(level.parts) BY <1>2, <1>6
<1>11. \A k, l \in 1 .. Len(P) : k < l => InOrder(P[k], P[l]) BY <1>1 DEF Tiles
<1>12. LevelPlaced(c, ch, level)
  BY <1>6, <1>7, <1>8, <1>9, <1>10, <1>11 DEF LevelPlaced, lim, BtSplits
<1> QED BY <1>7, <1>12 DEF P, level

\* A level more.
GrowsPlaced(c, ch, s, e) ==
  Placed(c, ch, Append(s, e)) <=>
    (Placed(c, ch, s) /\ LevelPlaced(c, ch, e) /\ \A i \in 1 .. Len(s) : Above(e, s[i]))

\* The levels below stay as they are.
LEMMA PlacedAppend ==
  ASSUME NEW c, NEW ch, NEW s, IsSeq(s), NEW e
  PROVE  GrowsPlaced(c, ch, s, e)
<1> DEFINE u == Append(s, e)
           n == Len(s)
<1>1. /\ n \in Nat /\ DOMAIN s = 1 .. n /\ DOMAIN u = 1 .. n + 1 /\ u[n + 1] = e
      /\ \A i \in 1 .. n : u[i] = s[i]
  BY AppendIsSeq
<1> HIDE DEF u, n
<1>2. /\ n + 1 \in 1 .. n + 1 /\ (\A i \in 1 .. n + 1 : i \in 1 .. n \/ i = n + 1)
      /\ (\A i \in 1 .. n : i \in 1 .. n + 1 /\ i < n + 1)
      /\ (\A i, j \in 1 .. n + 1 : i < j => i \in 1 .. n)
  BY <1>1
<1>3. (\A i \in DOMAIN u : LevelPlaced(c, ch, u[i])) <=>
        ((\A i \in DOMAIN s : LevelPlaced(c, ch, s[i])) /\ LevelPlaced(c, ch, e))
  BY <1>1, <1>2
<1>4. (\A i, j \in DOMAIN u : i < j => Above(u[j], u[i])) <=>
        ((\A i, j \in DOMAIN s : i < j => Above(s[j], s[i])) /\ \A i \in 1 .. n : Above(e, s[i]))
  <2>1. ASSUME \A i, j \in 1 .. n + 1 : i < j => Above(u[j], u[i])
        PROVE  (\A i, j \in 1 .. n : i < j => Above(s[j], s[i])) /\ \A i \in 1 .. n : Above(e, s[i])
    <3>1. ASSUME NEW i \in 1 .. n PROVE Above(e, s[i])
      <4>1. Above(u[n + 1], u[i]) BY <1>2, <2>1
      <4> QED BY <1>1, <4>1
    <3> QED BY <1>1, <1>2, <2>1, <3>1
  <2>2. ASSUME \A i, j \in 1 .. n : i < j => Above(s[j], s[i]), \A i \in 1 .. n : Above(e, s[i])
        PROVE  \A i, j \in 1 .. n + 1 : i < j => Above(u[j], u[i])
    <3> SUFFICES ASSUME NEW i \in 1 .. n + 1, NEW j \in 1 .. n + 1, i < j PROVE Above(u[j], u[i]) OBVIOUS
    <3>1. i \in 1 .. n /\ u[i] = s[i] BY <1>1, <1>2
    <3>2. j \in 1 .. n \/ j = n + 1 BY <1>2
    <3>3. CASE j \in 1 .. n BY <1>1, <2>2, <3>1, <3>3
    <3>4. CASE j = n + 1 BY <1>1, <2>2, <3>1, <3>4
    <3> QED BY <3>2, <3>3, <3>4
  <2> QED BY <1>1, <2>1, <2>2
<1>5. Placed(c, ch, u) <=> (Placed(c, ch, s) /\ LevelPlaced(c, ch, e) /\ \A i \in 1 .. n : Above(e, s[i]))
  BY <1>3, <1>4 DEF Placed
<1> QED BY <1>5 DEF GrowsPlaced, u, n

\* Another top level with the same parts.
LEMMA PlacedTop ==
  ASSUME NEW c, NEW ch, NEW f, IsSeq(f), NEW e, Placed(c, ch, Append(f, e)),
         NEW d, d.parts = e.parts, d.split = e.split, LevelPlaced(c, ch, d)
  PROVE  Placed(c, ch, Append(f, d))
<1>1. GrowsPlaced(c, ch, f, e) /\ GrowsPlaced(c, ch, f, d) BY PlacedAppend
<1>2. Placed(c, ch, f) /\ \A i \in 1 .. Len(f) : Above(e, f[i]) BY <1>1 DEF GrowsPlaced
<1>3. \A i \in 1 .. Len(f) : Above(d, f[i]) BY <1>2 DEF Above
<1> QED BY <1>1, <1>2, <1>3 DEF GrowsPlaced

\* What a partitioner in its place knows of its levels.
LEMMA PlacedParts ==
  ASSUME NEW c, NEW ch, NEW p, PartOK(p), Placed(c, ch, p.stack)
  PROVE  /\ LevelPlaced(c, ch, Top(p)) /\ Placed(c, ch, Front(p.stack)) /\ IsSeq(Front(p.stack))
         /\ p.stack = Append(Front(p.stack), Top(p))
         /\ \A i \in 1 .. Len(Front(p.stack)) : Above(Top(p), Front(p.stack)[i])
<1> DEFINE f == Front(p.stack)
           e == Top(p)
<1>1. p.stack = Append(f, e) /\ IsSeq(f) BY StackParts
<1> HIDE DEF f, e
<1>2. GrowsPlaced(c, ch, f, e) BY <1>1, PlacedAppend
<1>3. Placed(c, ch, f) /\ LevelPlaced(c, ch, e) /\ \A i \in 1 .. Len(f) : Above(e, f[i])
  BY <1>1, <1>2 DEF GrowsPlaced
<1> QED BY <1>1, <1>3 DEF f, e

\* Where the current block crosses the border, all binary splits that led to it are forced.
LEMMA AllForced ==
  ASSUME NEW c, c.width \in Nat, c.height \in Nat, NEW ch, NEW p, PartOK(p), NEW s, NEW m,
         Shaped(c, ch, p.stack, s, m), Placed(c, ch, p.stack), Crosses(c, Area(p))
  PROVE  ForcedLevels(p.stack) = LevelsOf(p.stack, MtSplits)
<1> DEFINE stack == p.stack
           n == Len(stack)
<1>1. StackOK(stack) /\ IsSeq(stack) BY DEF PartOK, StackOK
<1>2. n \in Nat /\ DOMAIN stack = 1 .. n /\ n > 0
  <2>1. IsSeq(Front(stack)) /\ n = Len(Front(stack)) + 1 /\ Len(Front(stack)) \in Nat BY StackParts
  <2>2. DOMAIN stack = 1 .. n BY <1>1, AppendIsSeq
  <2> QED BY <2>1, <2>2
<1>3. stack[1].split = "CTU_LEVEL" /\ \A i \in 1 .. n : i > 1 => Fits(stack[i - 1], stack[i])
  BY <1>1, <1>2 DEF StackOK
<1>4. Area(p) = CurrentPart(stack[n])
  BY DEF Area, Last
<1> HIDE DEF stack, n
<1>5. \A i \in 1 .. n : /\ LevelOK(stack[i]) /\ LevelPlaced(c, ch, stack[i])
                        /\ LevelShape(c, ch, stack[i], ModeAt(s, m, i))
  BY <1>1, <1>2 DEF StackOK, Placed, Shaped, stack
<1>6. \A i \in 1 .. n : Measured(CurrentPart(stack[i]))
  <2> SUFFICES ASSUME NEW i \in 1 .. n PROVE Measured(CurrentPart(stack[i])) OBVIOUS
  <2> DEFINE level == stack[i]
  <2>1. level.idx + 1 \in 1 .. Len(level.parts) BY <1>5 DEF LevelPlaced
  <2>2. AreaOK(c, ch, level.parts[level.idx + 1], ModeAt(s, m, i)) BY <1>5, <2>1 DEF LevelShape
  <2> QED BY <2>2 DEF CurrentPart, AreaOK, PlaceOK, Measured
<1>7. ASSUME NEW i \in 1 .. n PROVE Crosses(c, CurrentPart(stack[i]))
  <2>1. CASE i = n BY <1>4, <2>1
  <2>2. CASE i # n
    <3>1. i < n /\ n \in 1 .. n BY <1>2, <2>2
    <3>2. Above(stack[n], stack[i]) BY <1>2, <3>1 DEF Placed, stack
    <3>3. Inside(CurrentPart(stack[n]), CurrentPart(stack[i]))
      <4>1. stack[n].idx + 1 \in 1 .. Len(stack[n].parts) BY <1>5, <3>1 DEF LevelPlaced
      <4> QED BY <3>2, <4>1 DEF Above, CurrentPart
    <3>4. Measured(CurrentPart(stack[n])) /\ Measured(CurrentPart(stack[i])) BY <1>6, <3>1
    <3>5. Crosses(c, CurrentPart(stack[n])) BY <1>4
    <3> QED BY <3>3, <3>4, <3>5, InsideFacts
  <2> QED BY <2>1, <2>2
<1>8. ASSUME NEW i \in LevelsOf(stack, MtSplits) PROVE i \in ForcedLevels(stack)
  <2>1. i \in 1 .. n /\ stack[i].split \in MtSplits BY <1>2 DEF LevelsOf
  <2>2. i # 1 BY <1>3, <2>1 DEF MtSplits, BtSplits, TtSplits
  <2>3. i > 1 /\ i - 1 \in 1 .. n BY <1>2, <2>1, <2>2
  <2>4. Fits(stack[i - 1], stack[i]) BY <1>3, <2>1, <2>3
  <2>5. stack[i - 1].implicit # "NO"
    <3>1. Crosses(c, CurrentPart(stack[i - 1])) BY <1>7, <2>3
    <3> QED BY <1>5, <2>3, <3>1 DEF LevelShape
  <2>6. stack[i - 1].implicit = stack[i].split BY <2>1, <2>4, <2>5 DEF Fits
  <2> QED BY <2>3, <2>6 DEF ForcedLevels
<1>9. ForcedLevels(stack) = LevelsOf(stack, MtSplits) BY <1>8 DEF ForcedLevels
<1> QED BY <1>9 DEF stack

\* The binary splits that the border forces are among the splits.
LEMMA ForcedAreFew ==
  ASSUME NEW p, PartOK(p)
  PROVE  /\ p.implicitBtDepth \in Nat /\ p.mtDepth \in Nat /\ p.implicitBtDepth <= p.mtDepth
         /\ Top(p).split \in MtSplits => p.btDepth > 0 /\ p.btDepth \in Nat
<1> DEFINE stack == p.stack
           f == Front(stack)
           e == Top(p)
<1>1. stack = Append(f, e) /\ IsSeq(f) /\ LevelOK(e) BY StackParts
<1>2. IsSeq(stack) /\ stack # <<>> BY DEF PartOK, StackOK
<1>3. MatchesItsStack(p) BY DEF PartOK
<1>4. /\ p.mtDepth = Cardinality(LevelsOf(stack, MtSplits))
      /\ p.implicitBtDepth = Cardinality(ForcedLevels(stack))
      /\ p.btDepth = SumOver(stack, MtSplits)
  BY <1>3 DEF MatchesItsStack
<1>5. IsFiniteSet(LevelsOf(stack, MtSplits))
  <2>1. DOMAIN stack = 1 .. Len(stack) /\ Len(stack) \in Nat BY <1>2, AppendIsSeq
  <2>2. IsFiniteSet(1 .. Len(stack)) BY <2>1, FS_Interval
  <2>3. LevelsOf(stack, MtSplits) \subseteq 1 .. Len(stack) BY <2>1 DEF LevelsOf
  <2> QED BY <2>2, <2>3, FS_Subset
<1>6. ForcedLevels(stack) \subseteq LevelsOf(stack, MtSplits) BY DEF ForcedLevels
<1>7. /\ Cardinality(ForcedLevels(stack)) <= Cardinality(LevelsOf(stack, MtSplits))
      /\ Cardinality(LevelsOf(stack, MtSplits)) \in Nat /\ Cardinality(ForcedLevels(stack)) \in Nat
  <2>1. IsFiniteSet(ForcedLevels(stack)) BY <1>5, <1>6, FS_Subset
  <2> QED BY <1>5, <1>6, <2>1, FS_Subset, FS_CardinalityType
<1>8. ASSUME e.split \in MtSplits PROVE SumOver(stack, MtSplits) > 0 /\ SumOver(stack, MtSplits) \in Nat
  <2> HIDE DEF f, e
  <2>1. SumOver(f, MtSplits) \in Nat /\ SumOver(Append(f, e), MtSplits) = SumOver(f, MtSplits) + Halved(e, MtSplits)
    BY <1>1, SumOverAppend
  <2>2. Halved(e, MtSplits) \in Nat /\ Halved(e, MtSplits) > 0 BY <1>8 DEF Halved, Halvings
  <2> HIDE DEF stack
  <2> QED BY <1>1, <2>1, <2>2
<1> HIDE DEF stack, f
<1> QED BY <1>4, <1>7, <1>8 DEF e

\* getImplicitSplit takes a binary split only where one is allowed, and no quadtree
\* split below a binary one.
LEMMA ImplicitPlaced ==
  ASSUME NEW c, ConfigOK(c), BorderOK(c), NEW ch \in Channels, NEW p, PartOK(p), c.dual => p.chType = ch,
         NEW t, NEW m, Shaped(c, ch, p.stack, t, m), Placed(c, ch, p.stack), InPicture(c, Area(p).x, Area(p).y),
         NEW d, d = [Top(p) EXCEPT !.implicit = ImplicitSplit(c, p)]
  PROVE  LevelPlaced(c, ch, d) /\ d.parts = Top(p).parts /\ d.split = Top(p).split
<1> DEFINE top == Top(p)
           a == Area(p)
           s == ImplicitSplit(c, p)
           lim == LimitsOf(c, ch)
           low == InPicture(c, a.x, a.y + a.h - 1)
           right == InPicture(c, a.x + a.w - 1, a.y)
           bt == a.w <= lim.maxBt /\ a.h <= lim.maxBt /\ p.mtDepth < lim.mttDepth + p.implicitBtDepth
           qt == a.w > lim.minQt /\ a.h > lim.minQt /\ p.btDepth = 0
<1>1. LevelPlaced(c, ch, top) BY PlacedParts
<1>2. LevelOK(top) /\ a = CurrentPart(top)
  BY StackParts DEF Area, Top
<1>3. Limits(c, p) = lim BY DEF Limits, LimitsOf
<1>4. /\ s \in BtSplits => bt /\ ~(low /\ right) /\ (s = "HORZ" => a.w <= 64) /\ (s = "VERT" => a.h <= 64)
      /\ s = "QUAD" => \/ c.dual /\ (a.w > 64 \/ a.h > 64)
                       \/ /\ ~(low /\ right)
                          /\ \/ ~low /\ ~right /\ qt
                             \/ ~(~low /\ bt /\ a.w <= 64) /\ ~(~right /\ bt /\ a.h <= 64)
      /\ c.dual /\ (a.w > 64 \/ a.h > 64) => s = "QUAD"
  BY <1>3 DEF ImplicitSplit, MaxBtDepth, MAX_TB_SIZEY, BtSplits
<1>5. AreaOK(c, ch, a, ModeAt(t, m, Len(p.stack))) /\ (top.split \notin MtSplits => a.w = a.h)
  <2>1. LevelShape(c, ch, Top(p), ModeAt(t, m, Len(Front(p.stack)) + 1))
    <3> DEFINE f == Front(p.stack)
               e == Top(p)
    <3>1. p.stack = Append(f, e) /\ IsSeq(f) BY StackParts
    <3>2. Shaped(c, ch, Append(f, e), t, m) BY <3>1
    <3> HIDE DEF f, e
    <3>3. LevelShape(c, ch, e, ModeAt(t, m, Len(f) + 1)) BY <3>1, <3>2, ShapedTop
    <3> QED BY <3>3 DEF f, e
  <2>2. Len(p.stack) = Len(Front(p.stack)) + 1 BY StackParts
  <2> QED BY <1>2, <2>1, <2>2, TopsPart
<1>6. a.x \in Nat /\ a.y \in Nat /\ a.w \in Nat /\ a.h \in Nat /\ a.x < c.width /\ a.y < c.height
  BY <1>5 DEF AreaOK, PlaceOK, Sizes, InPicture
<1>7. /\ lim.mttDepth \in Nat /\ lim.maxBt \in Nat /\ c.width \in Nat /\ c.height \in Nat
  BY DEF ConfigOK, LimitsOK
<1>8. /\ p.implicitBtDepth \in Nat /\ p.mtDepth \in Nat /\ p.implicitBtDepth <= p.mtDepth
      /\ top.split \in MtSplits => p.btDepth > 0 /\ p.btDepth \in Nat
  BY ForcedAreFew
<1>9. Crosses(c, a) => p.mtDepth = p.implicitBtDepth
  <2> SUFFICES ASSUME Crosses(c, a) PROVE p.mtDepth = p.implicitBtDepth OBVIOUS
  <2>1. ForcedLevels(p.stack) = LevelsOf(p.stack, MtSplits) BY <1>7, AllForced
  <2>2. MatchesItsStack(p) BY DEF PartOK
  <2> QED BY <2>1, <2>2 DEF MatchesItsStack
<1>10. (low <=> ~(a.y + a.h > c.height)) /\ (right <=> ~(a.x + a.w > c.width))
  BY <1>6, <1>7 DEF InPicture
<1>11. Crosses(c, a) <=> ~(low /\ right)
  BY <1>10 DEF Crosses
<1>12. IsRecord(top, LevelFields) /\ d = [top EXCEPT !.implicit = s] BY <1>2 DEF LevelOK
<1> HIDE DEF top, s, a
<1>13. /\ d.implicit = s /\ d.parts = top.parts /\ d.split = top.split /\ d.idx = top.idx
  BY <1>12 DEF IsRecord, LevelFields
<1>14. CurrentPart(d) = a BY <1>2, <1>13 DEF CurrentPart
<1>15. top.split \in MtSplits /\ Crosses(c, a) => SmallForBt(lim, a)
  BY <1>1, <1>2 DEF LevelPlaced, CurrentPart, lim
<1> HIDE DEF lim, low, right
<1>16. bt => lim.mttDepth > 0
  BY <1>7, <1>8
<1>17. s \in BtSplits => SmallForBt(lim, a)
  <2> SUFFICES ASSUME s \in BtSplits PROVE SmallForBt(lim, a) OBVIOUS
  <2>1. CASE top.split \in MtSplits BY <1>4, <1>11, <1>15, <2>1
  <2>2. CASE top.split \notin MtSplits
    <3>1. bt /\ a.w = a.h /\ (a.w <= 64 \/ a.h <= 64) BY <1>4, <1>5, <2>2 DEF BtSplits
    <3> QED BY <1>16, <3>1 DEF SmallForBt
  <2> QED BY <2>1, <2>2
<1>18. s = "QUAD" => top.split \notin MtSplits
  <2> SUFFICES ASSUME s = "QUAD", top.split \in MtSplits PROVE FALSE OBVIOUS
  <2>1. c.dual => a.w <= 64 /\ a.h <= 64
    BY <1>1, <1>2 DEF LevelPlaced, CurrentPart, MtSplits, BtSplits, TtSplits
  <2>2. ~(c.dual /\ (a.w > 64 \/ a.h > 64)) BY <1>6, <2>1
  <2>3. ~(low /\ right) BY <1>4, <2>2
  <2>4. SmallForBt(lim, a) /\ p.mtDepth = p.implicitBtDepth BY <1>9, <1>11, <1>15, <2>3
  <2>5. bt /\ a.w <= 64 /\ a.h <= 64 BY <1>7, <1>8, <2>4 DEF SmallForBt
  <2>6. ~qt BY <1>8
  <2> QED BY <1>4, <2>2, <2>3, <2>5, <2>6
<1>19. c.dual /\ s \notin {"UNCHECKED", "QUAD"} => a.w <= 64 /\ a.h <= 64
  BY <1>4, <1>6
<1>20. LevelPlaced(c, ch, d)
  BY <1>1, <1>13, <1>14, <1>17, <1>18, <1>19 DEF LevelPlaced, lim
<1> QED BY <1>13, <1>20 DEF top

\* getImplicitSplit leaves the levels where they are.
LEMMA CheckedPlaced ==
  ASSUME NEW c, ConfigOK(c), BorderOK(c), NEW ch \in Channels, NEW p, PartOK(p), c.dual => p.chType = ch,
         NEW t, NEW m, Shaped(c, ch, p.stack, t, m), Placed(c, ch, p.stack), InPicture(c, Area(p).x, Area(p).y)
  PROVE  Placed(c, ch, Checked(c, p).stack)
<1> DEFINE top == Top(p)
           d == [top EXCEPT !.implicit = ImplicitSplit(c, p)]
           f == Front(p.stack)
<1>1. CASE top.implicit # "UNCHECKED"
  BY <1>1 DEF Checked, Top
<1>2. CASE top.implicit = "UNCHECKED"
  <2>1. Checked(c, p) = WithTop(p, d) BY <1>2 DEF Checked, Top
  <2>2. LevelPlaced(c, ch, d) /\ d.parts = top.parts /\ d.split = top.split BY ImplicitPlaced
  <2>3. WithTop(p, d).stack = Append(f, d)
    <3> HIDE DEF d
    <3> QED BY WithTopFields
  <2>4. p.stack = Append(f, top) /\ IsSeq(f) BY StackParts
  <2>5. Placed(c, ch, Append(f, top)) BY <2>4
  <2> HIDE DEF d, f, top
  <2>6. Placed(c, ch, Append(f, d)) BY <2>2, <2>4, <2>5, PlacedTop
  <2> QED BY <2>1, <2>3, <2>6
<1> QED BY <1>1, <1>2

\* A split puts a level where it has to be.
LEMMA SplitPlaced ==
  ASSUME NEW c, ConfigOK(c), NEW ch \in Channels, NEW p, PartOK(p), Placed(c, ch, p.stack),
         Measured(Area(p)), \A i \in 1 .. Len(p.stack) : Measured(CurrentPart(p.stack[i])),
         NEW split \in Splits, SplitPlaces(c, ch, Area(p), Top(p).split, split), NEW qgEnable
  PROVE  Placed(c, ch, Append(p.stack, Level(split, SubAreas(Area(p), split), qgEnable)))
<1> DEFINE stack == p.stack
           n == Len(stack)
           a == Area(p)
           P == SubAreas(a, split)
           level == Level(split, P, qgEnable)
           f == Front(stack)
           top == Top(p)
<1>1. /\ LevelPlaced(c, ch, top) /\ IsSeq(f) /\ stack = Append(f, top)
      /\ \A i \in 1 .. Len(f) : Above(top, f[i])
  BY PlacedParts
<1>2. IsSeq(stack) BY DEF PartOK, StackOK
<1>3. AlignedArea(c, a)
  <2>1. a = CurrentPart(top) BY DEF Area, Top
  <2> QED BY <1>1, <2>1 DEF LevelPlaced, CurrentPart
<1>4. /\ LevelPlaced(c, ch, level)
      /\ \A k \in 1 .. Len(P) : Measured(P[k]) /\ Inside(P[k], a)
  BY <1>3, SplitLevelPlaced
<1>5. level.parts = P /\ level.split = split BY DEF Level
<1>6. split = "QUAD" => top.split \notin MtSplits BY DEF SplitPlaces
<1>7. n = Len(f) + 1 /\ Len(f) \in Nat /\ stack[n] = top /\ \A i \in 1 .. Len(f) : stack[i] = f[i]
  <2> HIDE DEF f, top
  <2> QED BY <1>1, AppendIsSeq
<1>8. a = CurrentPart(top) BY DEF Area, Top
<1>9. top.split = "CTU_LEVEL" => n = 1
  <2>1. StackOK(stack) BY DEF PartOK
  <2>2. n \in DOMAIN stack BY <1>2, <1>7, AppendIsSeq
  <2>3. n > 1 => stack[n].split \in Splits BY <2>1, <2>2 DEF StackOK, Fits
  <2>4. "CTU_LEVEL" \notin Splits BY DEF Splits, MtSplits, BtSplits, TtSplits
  <2> HIDE DEF stack, n, f, top
  <2> QED BY <1>7, <2>3, <2>4
<1>10. top.split \in Splits \cup {"CTU_LEVEL"} BY StackParts DEF LevelOK
<1>11. Placed(c, ch, stack) /\ Measured(a) OBVIOUS
<1>12. \A i \in 1 .. n : Measured(CurrentPart(stack[i])) OBVIOUS
<1> HIDE DEF stack, n, a, P, level, f, top
<1>13. ASSUME NEW i \in 1 .. n PROVE Above(level, stack[i])
  <2>1. CASE i = n
    BY <1>4, <1>5, <1>6, <1>7, <1>8, <2>1 DEF Above
  <2>2. CASE i # n
    <3>1. i \in 1 .. Len(f) /\ stack[i] = f[i] /\ n > 1 BY <1>7, <2>2
    <3>2. Above(top, stack[i]) BY <1>1, <3>1
    <3>3. Inside(a, CurrentPart(stack[i])) BY <1>1, <1>8, <3>2 DEF Above, LevelPlaced, CurrentPart
    <3>4. Measured(CurrentPart(stack[i])) BY <1>12
    <3>5. \A k \in 1 .. Len(P) : Inside(P[k], CurrentPart(stack[i]))
      BY <1>4, <1>11, <3>3, <3>4, InsideTrans
    <3>6. split = "QUAD" => stack[i].split \notin MtSplits
      <4> SUFFICES ASSUME split = "QUAD" PROVE stack[i].split \notin MtSplits OBVIOUS
      <4>1. top.split = "QUAD" BY <1>6, <1>7, <1>9, <1>10, <3>1 DEF Splits
      <4> QED BY <3>2, <4>1 DEF Above
    <3> QED BY <1>5, <3>5, <3>6 DEF Above
  <2> QED BY <2>1, <2>2
<1>14. GrowsPlaced(c, ch, stack, level) BY <1>2, PlacedAppend
<1>15. Placed(c, ch, Append(stack, level)) BY <1>4, <1>11, <1>13, <1>14 DEF GrowsPlaced, n
<1> QED BY <1>15 DEF stack, level, P, a

-----------------------------------------------------------------------------
(* The places through the walk.                                             *)

\* The sizes of the blocks on a stack.
LEMMA ShapedMeasures ==
  ASSUME NEW c, NEW ch, NEW p, PartOK(p), NEW s, NEW m, Shaped(c, ch, p.stack, s, m)
  PROVE  Measured(Area(p)) /\ \A i \in 1 .. Len(p.stack) : Measured(CurrentPart(p.stack[i]))
<1> DEFINE stack == p.stack
           n == Len(stack)
<1>1. StackOK(stack) /\ IsSeq(stack) BY DEF PartOK, StackOK
<1>2. n \in Nat /\ DOMAIN stack = 1 .. n /\ n > 0 /\ n \in 1 .. n
  <2>1. IsSeq(Front(stack)) /\ n = Len(Front(stack)) + 1 /\ Len(Front(stack)) \in Nat BY StackParts
  <2>2. DOMAIN stack = 1 .. n BY <1>1, AppendIsSeq
  <2> HIDE DEF stack
  <2> QED BY <2>1, <2>2
<1>3. Area(p) = CurrentPart(stack[n]) BY DEF Area, Last
<1> HIDE DEF n
<1>4. ASSUME NEW i \in 1 .. n PROVE Measured(CurrentPart(stack[i]))
  <2> DEFINE level == stack[i]
  <2>1. LevelOK(level) /\ LevelShape(c, ch, level, ModeAt(s, m, i)) BY <1>1, <1>2 DEF StackOK, Shaped
  <2>2. level.idx + 1 \in 1 .. Len(level.parts) BY <2>1 DEF LevelOK
  <2>3. AreaOK(c, ch, level.parts[level.idx + 1], ModeAt(s, m, i)) BY <2>1, <2>2 DEF LevelShape
  <2> QED BY <2>3 DEF CurrentPart, AreaOK, PlaceOK, Measured
<1> QED BY <1>2, <1>3, <1>4 DEF n

\* nextPart goes on among the parts of the top level.
LEMMA NextPlaced ==
  ASSUME NEW c, NEW ch, NEW p, PartOK(p), Placed(c, ch, p.stack), HasNextPart(p)
  PROVE  Placed(c, ch, NextPart(p).stack)
<1> DEFINE top == Top(p)
           d == [top EXCEPT !.idx = @ + 1, !.implicit = "UNCHECKED"]
           f == Front(p.stack)
<1>1. /\ NextPart(p).stack = Append(f, d) /\ d.parts = top.parts /\ d.split = top.split
      /\ d.implicit = "UNCHECKED"
  BY NextStack
<1>2. LevelPlaced(c, ch, top) /\ IsSeq(f) /\ p.stack = Append(f, top) BY PlacedParts
<1>3. LevelOK(top) BY StackParts
<1>4. top.idx + 1 < Len(top.parts) BY DEF HasNextPart, Top
<1>5. d.idx = top.idx + 1
  <2> HIDE DEF top
  <2> QED BY <1>3 DEF LevelOK, IsRecord, LevelFields
<1>6. d.idx + 1 \in 1 .. Len(d.parts)
  <2>1. Len(top.parts) \in Nat /\ top.idx \in 0 .. Len(top.parts) - 1 BY <1>3 DEF LevelOK
  <2> HIDE DEF d, top
  <2> QED BY <1>1, <1>4, <1>5, <2>1
<1> HIDE DEF d, top, f
<1>7. LevelPlaced(c, ch, d) BY <1>1, <1>2, <1>6 DEF LevelPlaced, BtSplits
<1>8. Placed(c, ch, Append(f, top)) BY <1>2
<1>9. Placed(c, ch, Append(f, d)) BY <1>1, <1>2, <1>7, <1>8, PlacedTop
<1> QED BY <1>1, <1>9

\* The invariant, when only the partitioner coding_tree was called with changes.
LEMMA OnePlaced ==
  ASSUME IInv, PlacesInv, NEW ch \in Channels, NEW q, parts' = [parts EXCEPT ![ch] = q], cfg' = cfg,
         Placed(cfg, ch, q.stack)
  PROVE  PlacesInv'
<1>1. parts = [i \in Channels |-> parts[i]] BY DEF IInv, PartsOK
<1>2. parts'[ch] = q /\ \A i \in Channels \ {ch} : parts'[i] = parts[i] BY <1>1
<1> QED BY <1>2 DEF PlacesInv

\* The place of the block coding_tree is called for.
LEMMA HerePlaced ==
  ASSUME IInv, ShapeInv, PlacesInv, pc = "tree"
  PROVE  /\ ConfigOK(cfg) /\ Placed(cfg, cur, part.stack) /\ Measured(area)
         /\ \A i \in 1 .. Len(part.stack) : Measured(CurrentPart(part.stack[i]))
         /\ \A split \in Splits : split \in permitted => Permitted(cfg, cur, part, split)
<1> DEFINE p == parts[cur]
<1>1. /\ ValidConfig(cfg) /\ cur \in Channels /\ PartOK(part) /\ SameKinds(part, parts[cur])
      /\ Shaped(cfg, cur, part.stack, calls, part.modeType)
      /\ area = Area(part) /\ InPicture(cfg, area.x, area.y)
      /\ LevelOK(Top(part)) /\ Top(part).implicit \in {"NO", "QUAD", "HORZ", "VERT"}
      /\ LevelShape(cfg, cur, Top(part), IF InItsChroma(calls) THEN "ALL" ELSE part.modeType)
      /\ (cfg.dual => ~InItsChroma(calls))
      /\ part.chType = IF cur = "LUMA" /\ InItsChroma(calls) THEN "CHROMA" ELSE cur
  BY Here
<1>2. ConfigOK(cfg) /\ BorderOK(cfg) BY <1>1, ConfigFacts, UnitFacts
<1>3. Placed(cfg, cur, p.stack) /\ PartOK(p) BY <1>1 DEF PlacesInv, IInv, PartsOK
<1>4. Shaped(cfg, cur, p.stack, calls, p.modeType) /\ InPicture(cfg, Area(p).x, Area(p).y)
  BY <1>1 DEF ShapeInv, WaitingFor
<1>5. cfg.dual => part.chType = cur BY <1>1
<1>6. p.chType = part.chType BY <1>1 DEF SameKinds
<1>7. part = Checked(cfg, p) BY DEF part
<1>8. permitted = CanSplit(cfg, part) BY DEF permitted
<1> HIDE DEF p, part, area
<1>9. Placed(cfg, cur, part.stack)
  <2>1. cfg.dual => p.chType = cur BY <1>5, <1>6
  <2>2. Placed(cfg, cur, Checked(cfg, p).stack) BY <1>1, <1>2, <1>3, <1>4, <2>1, CheckedPlaced
  <2> QED BY <1>7, <2>2
<1>10. Measured(Area(part)) /\ \A i \in 1 .. Len(part.stack) : Measured(CurrentPart(part.stack[i]))
  BY <1>1, ShapedMeasures
<1>11. LevelPlaced(cfg, cur, Top(part)) BY <1>1, <1>9, PlacedParts
<1>12. ASSUME NEW split \in Splits, split \in permitted PROVE Permitted(cfg, cur, part, split)
  <2>1. part.treeType # "TREE_C"
    <3>1. split # "NO" BY DEF Splits, MtSplits, BtSplits, TtSplits
    <3> QED BY <1>8, <1>12, <3>1 DEF CanSplit
  <2>2. split \in CanSplit(cfg, part) BY <1>8, <1>12
  <2> QED BY <1>1, <1>2, <1>5, <1>11, <2>1, <2>2 DEF Permitted
<1> QED BY <1>1, <1>2, <1>9, <1>10, <1>12

\* coding_tree_unit starts with the unit.
LEMMA InitPlaces ==
  ASSUME Init, IInv
  PROVE  PlacesInv
<1>1. ConfigOK(cfg) BY ConfigAssumption, ConfigFacts DEF IInv
<1>2. ASSUME NEW ch \in Channels PROVE Placed(cfg, ch, parts[ch].stack)
  <2> DEFINE a == CtuArea(cfg)
             level == Level("CTU_LEVEL", <<a>>, TRUE)
             s == <<level>>
  <2>1. parts[ch] = InitCtu(cfg, ch) BY DEF Init
  <2>2. InitCtu(cfg, ch).stack = s BY DEF InitCtu, CtuArea
  <2>3. /\ level.split = "CTU_LEVEL" /\ level.parts = <<a>> /\ level.idx = 0
        /\ level.implicit = "UNCHECKED"
    BY DEF Level
  <2>4. DOMAIN s = {1} /\ s[1] = level OBVIOUS
  <2>5. Len(<<a>>) = 1 /\ <<a>>[1] = a /\ 1 .. 1 = {1} /\ 0 + 1 = 1 OBVIOUS
  <2> HIDE DEF level, a
  <2>6. AlignedArea(cfg, a) BY <1>1 DEF ConfigOK, a
  <2>7. LevelPlaced(cfg, ch, level)
    BY <2>3, <2>5, <2>6 DEF LevelPlaced, MtSplits, BtSplits, TtSplits
  <2> HIDE DEF s
  <2>8. \A i, j \in DOMAIN s : ~(i < j) BY <2>4
  <2>9. Placed(cfg, ch, s) BY <2>4, <2>7, <2>8 DEF Placed
  <2> QED BY <2>1, <2>2, <2>9
<1> QED BY <1>2 DEF PlacesInv

\* A CHECK that fails, and nothing at all.
LEMMA NothingPlaces ==
  ASSUME PlacesInv, Abort \/ UNCHANGED vars
  PROVE  PlacesInv'
<1>1. cfg' = cfg /\ parts' = parts BY DEF Abort, vars
<1> QED BY <1>1 DEF PlacesInv

\* What a split of one tree does to the stacks.
NodeSplits(split, modeType, q, call, qgEnable) ==
  /\ modeType \in ModeTypes(cfg, part, split)
  /\ parts' = [parts EXCEPT ![cur] = q] /\ calls' = Append(calls, call)
  /\ cfg' = cfg /\ cur' = cur /\ pc' = pc /\ coded' = coded
  /\ q.stack = Append(part.stack, Level(split, SubAreas(area, split), qgEnable))
  /\ q.modeType = modeType /\ q.chType = part.chType
  /\ call.kind = "node" /\ call.modeTypeParent = part.modeType
  /\ call.chromaNotSplit <=> (part.modeType = "ALL" /\ modeType = "INTRA")

\* The partitioner a split of one tree is made with.
ForNode(modeType, q) ==
  /\ PartOK(q) /\ q.stack = part.stack /\ q.btDepth = part.btDepth /\ q.mtDepth = part.mtDepth
  /\ q.modeType = modeType /\ q.chType = part.chType /\ Checked(cfg, q) = q

\* A split of one tree, or a CHECK that fails.
LEMMA NodeStack ==
  ASSUME IInv, ShapeInv, NEW split \in Splits, SplitNode(split)
  PROVE  \E modeType \in ModeTypes(cfg, part, split) : \E node :
           /\ ForNode(modeType, node)
           /\ \/ /\ Abort
                 /\ \/ SplitFails(node, split)
                    \/ part.modeType = "ALL" /\ modeType = "INTRA" /\ part.chType # "LUMA"
              \/ \E q, call, qgEnable : NodeSplits(split, modeType, q, call, qgEnable)
<1>1. /\ pc = "tree" /\ split \in permitted
      /\ \E modeType \in ModeTypes(cfg, part, split) :
           LET chromaNotSplit == part.modeType = "ALL" /\ modeType = "INTRA"
               node == [part EXCEPT !.modeType = modeType,
                          !.treeType = IF chromaNotSplit /\ @ = "TREE_D" THEN "TREE_L" ELSE @]
           IN IF SplitFails(node, split) \/ (chromaNotSplit /\ part.chType # "LUMA") THEN Abort
              ELSE /\ parts' = [parts EXCEPT ![cur] = SplitCurrArea(cfg, node, split)]
                   /\ calls' = Append(calls, [kind |-> "node", modeTypeParent |-> part.modeType,
                                              chromaNotSplit |-> chromaNotSplit])
                   /\ qgStart' = Starts
                   /\ UNCHANGED <<cfg, cur, pc, group, coded>>
  BY DEF SplitNode
<1>2. PICK modeType \in ModeTypes(cfg, part, split) :
        LET chromaNotSplit == part.modeType = "ALL" /\ modeType = "INTRA"
            node == [part EXCEPT !.modeType = modeType,
                       !.treeType = IF chromaNotSplit /\ @ = "TREE_D" THEN "TREE_L" ELSE @]
        IN IF SplitFails(node, split) \/ (chromaNotSplit /\ part.chType # "LUMA") THEN Abort
           ELSE /\ parts' = [parts EXCEPT ![cur] = SplitCurrArea(cfg, node, split)]
                /\ calls' = Append(calls, [kind |-> "node", modeTypeParent |-> part.modeType,
                                           chromaNotSplit |-> chromaNotSplit])
                /\ qgStart' = Starts
                /\ UNCHANGED <<cfg, cur, pc, group, coded>>
  BY <1>1
<1> DEFINE chromaNotSplit == part.modeType = "ALL" /\ modeType = "INTRA"
           node1 == [part EXCEPT !.modeType = modeType]
           treeType == IF chromaNotSplit /\ node1.treeType = "TREE_D" THEN "TREE_L" ELSE node1.treeType
           node == [node1 EXCEPT !.treeType = treeType]
           q == SplitCurrArea(cfg, node, split)
           call == [kind |-> "node", modeTypeParent |-> part.modeType,
                    chromaNotSplit |-> chromaNotSplit]
           fails == SplitFails(node, split) \/ (chromaNotSplit /\ part.chType # "LUMA")
<1>3. IF fails THEN Abort
      ELSE /\ parts' = [parts EXCEPT ![cur] = q] /\ calls' = Append(calls, call)
           /\ qgStart' = Starts /\ UNCHANGED <<cfg, cur, pc, group, coded>>
  BY <1>2
<1>4. /\ PartOK(part) /\ area = Area(part) BY <1>1, Here
<1>5. Top(part).implicit # "UNCHECKED" BY PartFacts
<1>6. /\ PartOK(node) /\ node.stack = part.stack /\ node.btDepth = part.btDepth
      /\ node.mtDepth = part.mtDepth /\ node.modeType = modeType /\ node.chType = part.chType
  <2> HIDE DEF treeType, chromaNotSplit, part
  <2>1. /\ IsRecord(node1, PartFields) /\ \A f \in PartFields : f # "modeType" => node1[f] = part[f]
        /\ node1.modeType = modeType
    BY <1>4 DEF PartOK, IsRecord, PartFields
  <2> HIDE DEF node1
  <2>2. /\ IsRecord(node, PartFields) /\ \A f \in PartFields : f # "treeType" => node[f] = node1[f]
    BY <2>1 DEF IsRecord, PartFields
  <2> HIDE DEF node
  <2>3. \A f \in PartFields \ {"chType", "treeType", "modeType"} : node[f] = part[f]
    BY <2>1, <2>2
  <2>4. node.modeType = modeType /\ node.chType = part.chType BY <2>1, <2>2 DEF PartFields
  <2> QED BY <1>4, <2>2, <2>3, <2>4, Relabelled
<1>7. modeType \in ModeTypes(cfg, part, split) OBVIOUS
<1>8. /\ call.kind = "node" /\ call.modeTypeParent = part.modeType
      /\ call.chromaNotSplit = chromaNotSplit
  OBVIOUS
<1> HIDE DEF node, node1, treeType, call, q, part
<1>9. Checked(cfg, node) = node
  <2>1. Top(node) = Top(part) BY <1>6 DEF Top
  <2> QED BY <1>5, <1>6, <2>1, CheckedOK
<1>10. ForNode(modeType, node) BY <1>6, <1>9 DEF ForNode
<1>11. CASE fails
  <2>1. Abort /\ (SplitFails(node, split) \/ (part.modeType = "ALL" /\ modeType = "INTRA" /\ part.chType # "LUMA"))
    BY <1>3, <1>11
  <2> QED BY <1>7, <1>10, <2>1
<1>12. CASE ~fails
  <2>1. /\ parts' = [parts EXCEPT ![cur] = q] /\ calls' = Append(calls, call)
        /\ cfg' = cfg /\ cur' = cur /\ pc' = pc /\ coded' = coded
    BY <1>3, <1>12
  <2>2. PICK qgEnable : /\ q.stack = Append(Checked(cfg, node).stack, Level(split, SubAreas(Area(node), split), qgEnable))
                        /\ SameKinds(q, node)
    BY <1>6, SplitStack DEF q
  <2>3. Area(node) = area BY <1>4, <1>6 DEF Area
  <2>4. q.stack = Append(part.stack, Level(split, SubAreas(area, split), qgEnable))
    BY <1>6, <1>9, <2>2, <2>3
  <2>5. q.modeType = modeType /\ q.chType = part.chType BY <1>6, <2>2 DEF SameKinds
  <2>6. call.chromaNotSplit <=> (part.modeType = "ALL" /\ modeType = "INTRA") BY <1>8
  <2>7. NodeSplits(split, modeType, q, call, qgEnable) BY <1>7, <1>8, <2>1, <2>4, <2>5, <2>6 DEF NodeSplits
  <2> QED BY <1>7, <1>10, <2>7
<1> QED BY <1>11, <1>12

\* A split of one tree.
LEMMA SplitNodePlaces ==
  ASSUME IInv, ShapeInv, PlacesInv, NEW split \in Splits, SplitNode(split)
  PROVE  PlacesInv'
<1>1. pc = "tree" /\ split \in permitted BY DEF SplitNode
<1>2. CASE Abort BY <1>2, NothingPlaces
<1>3. CASE ~Abort
  <2>1. PICK modeType \in ModeTypes(cfg, part, split) :
          \E q, call, qgEnable : NodeSplits(split, modeType, q, call, qgEnable)
    <3>1. PICK modeType \in ModeTypes(cfg, part, split) : \E node :
           /\ ForNode(modeType, node)
           /\ \/ /\ Abort
                 /\ \/ SplitFails(node, split)
                    \/ part.modeType = "ALL" /\ modeType = "INTRA" /\ part.chType # "LUMA"
              \/ \E q, call, qgEnable : NodeSplits(split, modeType, q, call, qgEnable)
      BY NodeStack
    <3> QED BY <1>3, <3>1
  <2>2. PICK q, call, qgEnable : NodeSplits(split, modeType, q, call, qgEnable) BY <2>1
  <2>3. /\ parts' = [parts EXCEPT ![cur] = q] /\ cfg' = cfg
        /\ q.stack = Append(part.stack, Level(split, SubAreas(area, split), qgEnable))
    BY <2>2 DEF NodeSplits
  <2>4. /\ ConfigOK(cfg) /\ Placed(cfg, cur, part.stack) /\ Measured(area)
        /\ \A i \in 1 .. Len(part.stack) : Measured(CurrentPart(part.stack[i]))
        /\ Permitted(cfg, cur, part, split)
    BY <1>1, HerePlaced
  <2>5. cur \in Channels /\ PartOK(part) /\ area = Area(part) BY <1>1, Here
  <2> HIDE DEF part, area
  <2>6. SplitPlaces(cfg, cur, Area(part), Top(part).split, split) BY <2>4, <2>5, PermittedHasRoom
  <2>7. Placed(cfg, cur, Append(part.stack, Level(split, SubAreas(Area(part), split), qgEnable)))
    BY <2>4, <2>5, <2>6, SplitPlaced
  <2>8. Placed(cfg, cur, q.stack) BY <2>3, <2>5, <2>7
  <2> QED BY <2>3, <2>5, <2>8, OnePlaced
<1> QED BY <1>2, <1>3

\* A coding unit.
LEMMA CodeUnitPlaces ==
  ASSUME IInv, ShapeInv, PlacesInv, CodeUnit
  PROVE  PlacesInv'
<1> DEFINE lost == IsSepTree(cfg, part) /\ part.chType = "CHROMA" /\ LumaRef(cfg, area) \notin coded["LUMA"]
<1>1. CASE lost BY <1>1, NothingPlaces DEF CodeUnit
<1>2. CASE ~lost
  <2>1. parts' = [parts EXCEPT ![cur] = part] /\ cfg' = cfg /\ pc = "tree"
    BY <1>2 DEF CodeUnit
  <2>2. Placed(cfg, cur, part.stack) /\ cur \in Channels BY <2>1, HerePlaced DEF IInv
  <2> HIDE DEF part
  <2> QED BY <2>1, <2>2, OnePlaced
<1> QED BY <1>1, <1>2

\* The next part of a block.
LEMMA NextNodePartPlaces ==
  ASSUME IInv, PlacesInv, NextNodePart
  PROVE  PlacesInv'
<1> DEFINE p == parts[cur]
           q == NextPart(p)
<1>1. parts' = [parts EXCEPT ![cur] = q] /\ cfg' = cfg /\ HasNextPart(p) BY DEF NextNodePart
<1>2. PartOK(p) /\ cur \in Channels /\ Placed(cfg, cur, p.stack) BY DEF IInv, PartsOK, PlacesInv
<1> HIDE DEF p
<1>3. Placed(cfg, cur, q.stack) BY <1>1, <1>2, NextPlaced
<1> HIDE DEF q
<1> QED BY <1>1, <1>2, <1>3, OnePlaced

\* What the end of a loop over the parts does to the stacks.
NodeExits(q, call) ==
  /\ parts' = [parts EXCEPT ![cur] = q] /\ cfg' = cfg /\ cur' = cur /\ coded' = coded
  /\ q.stack = Front(parts[cur].stack)
  /\ IF Last(calls).chromaNotSplit
     THEN /\ calls' = Append(Front(calls), call) /\ call.kind = "chroma" /\ call.chromaNotSplit
          /\ pc' = Called(q) /\ q.modeType = parts[cur].modeType
     ELSE calls' = Front(calls) /\ pc' = pc /\ q.modeType = Last(calls).modeTypeParent

\* The end of the loop over the parts, or a CHECK that fails.
LEMMA ExitsStack ==
  ASSUME IInv, ShapeInv, ExitNode
  PROVE  (Abort /\ ExitFails(parts[cur])) \/ \E q, call : NodeExits(q, call)
<1> DEFINE p == parts[cur]
           left == ExitCurrSplit(p)
           last == Last(calls)
           before == Front(calls)
           ofChroma1 == [left EXCEPT !.chType = "CHROMA"]
           ofChroma == [ofChroma1 EXCEPT !.treeType = "TREE_C"]
           joined == [left EXCEPT !.modeType = last.modeTypeParent]
           chromaCall == [last EXCEPT !.kind = "chroma"]
<1>1. pc = "return" /\ calls # <<>> /\ last.kind = "node" /\ ~HasNextPart(p)
  BY DEF ExitNode, InLoop
<1>2. CASE ExitFails(p) BY <1>2 DEF ExitNode
<1>3. CASE ~ExitFails(p)
  <2>1. /\ calls = Append(before, last) /\ IsSeq(before)
        /\ Len(calls) = Len(before) + 1 /\ Len(before) \in Nat
        /\ PartOK(p) /\ CallOK(last, cur)
    BY <1>1, BackInLoop
  <2>2. left.stack = Front(p.stack) /\ SameKinds(left, p) BY <2>1, ExitStack
  <2>3. PartOK(left)
    <3>1. Len(p.stack) > 1
      <4>1. Len(p.stack) = 1 + Len(calls) BY <1>1, LoopFacts
      <4> HIDE DEF p, before
      <4> QED BY <2>1, <4>1
    <3> QED BY <1>1, <2>1, <3>1, ExitOK
  <2>4. IsRecord(left, PartFields) BY <2>3 DEF PartOK
  <2>5. CASE last.chromaNotSplit
    <3>1. /\ parts' = [parts EXCEPT ![cur] = [left EXCEPT !.chType = "CHROMA", !.treeType = "TREE_C"]]
          /\ calls' = [calls EXCEPT ![Len(calls)].kind = "chroma"]
          /\ pc' = Called(left) /\ UNCHANGED <<cfg, cur, qgStart, group, coded>>
      BY <1>1, <1>3, <2>5 DEF ExitNode
    <3>2. /\ calls' = [calls EXCEPT ![Len(calls)] = chromaCall] /\ parts' = [parts EXCEPT ![cur] = ofChroma]
          /\ cfg' = cfg /\ cur' = cur /\ coded' = coded
      BY <3>1 DEF Last
    <3>3. pc' = Called(left) BY <3>1
    <3>4. IsRecord(last, CallFields) BY <1>1, <2>1 DEF CallOK
    <3>5. chromaCall.kind = "chroma" /\ chromaCall.chromaNotSplit
      <4>1. chromaCall.kind = "chroma" /\ \A f \in CallFields : f # "kind" => chromaCall[f] = last[f]
        BY <3>4 DEF IsRecord, CallFields
      <4> HIDE DEF chromaCall, last
      <4> QED BY <2>5, <4>1 DEF CallFields
    <3>6. /\ ofChroma.stack = left.stack /\ ofChroma.modeType = left.modeType
      <4> HIDE DEF left
      <4>1. /\ IsRecord(ofChroma1, PartFields)
            /\ \A f \in PartFields : f # "chType" => ofChroma1[f] = left[f]
        BY <2>4 DEF IsRecord, PartFields
      <4> HIDE DEF ofChroma1
      <4>2. \A f \in PartFields : f # "treeType" => ofChroma[f] = ofChroma1[f]
        BY <4>1 DEF IsRecord, PartFields
      <4> HIDE DEF ofChroma
      <4> QED BY <4>1, <4>2 DEF PartFields
    <3> HIDE DEF left, p, last, before, chromaCall, ofChroma
    <3>7. calls' = Append(before, chromaCall)
      <4>1. \A d : [Append(before, last) EXCEPT ![Len(before) + 1] = d] = Append(before, d)
        BY <2>1, AppendIsSeq
      <4> QED BY <2>1, <3>2, <4>1
    <3>8. Called(ofChroma) = Called(left) BY <3>6 DEF Called, Area
    <3>9. ofChroma.stack = Front(p.stack) /\ ofChroma.modeType = p.modeType
      BY <2>2, <3>6 DEF SameKinds
    <3>10. NodeExits(ofChroma, chromaCall)
      BY <2>5, <3>2, <3>3, <3>5, <3>7, <3>8, <3>9 DEF NodeExits, p, last, before
    <3> QED BY <3>10
  <2>6. CASE ~last.chromaNotSplit
    <3>1. /\ parts' = [parts EXCEPT ![cur] = joined] /\ calls' = before
          /\ cfg' = cfg /\ cur' = cur /\ pc' = pc /\ coded' = coded
      BY <1>1, <1>3, <2>6 DEF ExitNode
    <3> HIDE DEF left, p, last, before
    <3>2. joined.stack = left.stack /\ joined.modeType = last.modeTypeParent
      <4>1. joined.modeType = last.modeTypeParent /\ \A f \in PartFields : f # "modeType" => joined[f] = left[f]
        BY <2>4 DEF IsRecord, PartFields
      <4> HIDE DEF joined
      <4> QED BY <4>1 DEF PartFields
    <3> HIDE DEF joined
    <3>3. joined.stack = Front(p.stack) BY <2>2, <3>2
    <3>4. NodeExits(joined, last) BY <2>6, <3>1, <3>2, <3>3 DEF NodeExits, p, last, before
    <3> QED BY <3>4
  <2> QED BY <2>5, <2>6
<1> QED BY <1>2, <1>3

\* The end of the loop over the parts.
LEMMA ExitNodePlaces ==
  ASSUME IInv, ShapeInv, PlacesInv, ExitNode
  PROVE  PlacesInv'
<1>1. CASE Abort BY <1>1, NothingPlaces
<1>2. CASE \E q, call : NodeExits(q, call)
  <2>1. PICK q, call : NodeExits(q, call) BY <1>2
  <2>2. /\ parts' = [parts EXCEPT ![cur] = q] /\ cfg' = cfg /\ q.stack = Front(parts[cur].stack)
    BY <2>1 DEF NodeExits
  <2> DEFINE p == parts[cur]
  <2>3. PartOK(p) /\ cur \in Channels /\ Placed(cfg, cur, p.stack) BY DEF IInv, PartsOK, PlacesInv
  <2>4. q.stack = Front(p.stack) BY <2>2
  <2> HIDE DEF p
  <2>5. Placed(cfg, cur, Front(p.stack)) BY <2>3, PlacedParts
  <2> QED BY <2>2, <2>3, <2>4, <2>5, OnePlaced
<1> QED BY <1>1, <1>2, ExitsStack

\* What Recover does to the stacks.
Recovers(q) ==
  /\ parts' = [parts EXCEPT ![cur] = q] /\ cfg' = cfg /\ cur' = cur /\ coded' = coded /\ pc' = pc
  /\ q.stack = parts[cur].stack /\ q.modeType = Last(calls).modeTypeParent /\ calls' = Front(calls)

\* After the chroma of a block whose luma alone was split.
LEMMA RecoverStack ==
  ASSUME IInv, Recover
  PROVE  \E q : Recovers(q)
<1> DEFINE p == parts[cur]
           m == Last(calls).modeTypeParent
           ofLuma1 == [p EXCEPT !.chType = "LUMA"]
           ofLuma == [ofLuma1 EXCEPT !.treeType = "TREE_D"]
           q == [ofLuma EXCEPT !.modeType = m]
<1>1. /\ parts' = [parts EXCEPT ![cur] = q] /\ cfg' = cfg /\ cur' = cur /\ coded' = coded /\ pc' = pc
      /\ calls' = Front(calls)
  BY DEF Recover
<1>2. IsRecord(p, PartFields) BY DEF IInv, PartsOK, PartOK
<1> HIDE DEF p, m
<1>3. q.stack = p.stack /\ q.modeType = m
  <2>1. IsRecord(ofLuma1, PartFields) /\ \A f \in PartFields : f # "chType" => ofLuma1[f] = p[f]
    BY <1>2 DEF IsRecord, PartFields
  <2> HIDE DEF ofLuma1
  <2>2. /\ IsRecord(ofLuma, PartFields)
        /\ \A f \in PartFields : f # "treeType" => ofLuma[f] = ofLuma1[f]
    BY <2>1 DEF IsRecord, PartFields
  <2> HIDE DEF ofLuma
  <2>3. q.modeType = m /\ \A f \in PartFields : f # "modeType" => q[f] = ofLuma[f]
    BY <2>2 DEF IsRecord, PartFields
  <2> HIDE DEF q
  <2> QED BY <2>1, <2>2, <2>3 DEF PartFields
<1> HIDE DEF q
<1>4. Recovers(q) BY <1>1, <1>3 DEF Recovers, p, m
<1> QED BY <1>4

\* The stack stays as it is.
LEMMA RecoverPlaces ==
  ASSUME IInv, PlacesInv, Recover
  PROVE  PlacesInv'
<1>1. PICK q : Recovers(q) BY RecoverStack
<1>2. Placed(cfg, cur, q.stack) /\ cur \in Channels BY <1>1 DEF Recovers, PlacesInv, IInv
<1>3. parts' = [parts EXCEPT ![cur] = q] /\ cfg' = cfg BY <1>1 DEF Recovers
<1> QED BY <1>2, <1>3, OnePlaced

\* One of the partitioners goes on, or stays.
LEMMA MovedPlaced ==
  ASSUME IInv, PlacesInv, NEW ch \in Channels
  PROVE  Placed(cfg, ch, Moved(parts[ch]).stack)
<1> DEFINE p == parts[ch]
<1>1. PartOK(p) /\ Placed(cfg, ch, p.stack) BY DEF IInv, PartsOK, PlacesInv
<1> HIDE DEF p
<1>2. Placed(cfg, ch, Moved(p).stack) BY <1>1, NextPlaced DEF Moved
<1> QED BY <1>2 DEF p

\* From luma to chroma, and from chroma to the next luma.
LEMMA TurnPlaces ==
  ASSUME IInv, PlacesInv, LumaThenChroma \/ NextJointPart
  PROVE  PlacesInv'
<1>1. "LUMA" \in Channels /\ "CHROMA" \in Channels BY DEF Channels
<1>2. CASE LumaThenChroma
  <2> DEFINE q == Moved(parts["LUMA"])
  <2>1. parts' = [parts EXCEPT !["LUMA"] = q] /\ cfg' = cfg BY <1>2 DEF LumaThenChroma
  <2>2. Placed(cfg, "LUMA", q.stack) BY <1>1, MovedPlaced
  <2> HIDE DEF q
  <2> QED BY <1>1, <2>1, <2>2, OnePlaced
<1>3. CASE NextJointPart
  <2> DEFINE q == Moved(parts["CHROMA"])
  <2>1. parts' = [parts EXCEPT !["CHROMA"] = q] /\ cfg' = cfg BY <1>3 DEF NextJointPart, Moved
  <2>2. Placed(cfg, "CHROMA", q.stack) BY <1>1, MovedPlaced
  <2> HIDE DEF q
  <2> QED BY <1>1, <2>1, <2>2, OnePlaced
<1> QED BY <1>2, <1>3

\* The end of the loop over the blocks of 64 x 64.
LEMMA ExitJointlyPlaces ==
  ASSUME IInv, PlacesInv, ExitJointly
  PROVE  PlacesInv'
<1> DEFINE Q(ch) == ExitCurrSplit(parts[ch])
<1>1. CASE \E ch \in Channels : ExitFails(parts[ch])
  BY <1>1, NothingPlaces DEF ExitJointly
<1>2. CASE ~\E ch \in Channels : ExitFails(parts[ch])
  <2>1. parts' = [ch \in Channels |-> Q(ch)] /\ cfg' = cfg BY <1>2 DEF ExitJointly
  <2>2. ASSUME NEW ch \in Channels PROVE Placed(cfg, ch, Q(ch).stack)
    <3> DEFINE p == parts[ch]
               left == ExitCurrSplit(p)
    <3>1. PartOK(p) /\ Placed(cfg, ch, p.stack) BY DEF IInv, PartsOK, PlacesInv
    <3> HIDE DEF p
    <3>2. Placed(cfg, ch, Front(p.stack)) BY <3>1, PlacedParts
    <3>3. left.stack = Front(p.stack) BY <3>1, ExitStack
    <3>4. Placed(cfg, ch, left.stack) BY <3>2, <3>3
    <3> QED BY <3>4 DEF left, p
  <2> HIDE DEF Q
  <2>3. \A ch \in Channels : parts'[ch] = Q(ch) BY <2>1
  <2> QED BY <2>1, <2>2, <2>3 DEF PlacesInv
<1> QED BY <1>1, <1>2

\* The walk where luma and chroma are about to be split at once.
JointStart(ch) ==
  LET p == parts[ch]
  IN PartOK(p) /\ Len(p.stack) = 1 /\ Shaped(cfg, ch, p.stack, <<>>, "ALL") /\ p.chType = ch
     /\ p.modeType = "ALL" /\ Area(p) = CtuArea(cfg)

\* Both partitioners are where they began.
LEMMA StartsJointly ==
  ASSUME IInv, ShapeInv, pc = "tree", WithChroma
  PROVE  /\ calls = <<>> /\ cfg.dual /\ ValidConfig(cfg) /\ cfg.ctu = 128 /\ cur = "LUMA"
         /\ \A ch \in Channels : JointStart(ch)
<1> DEFINE none == <<>>
<1>1. calls = <<>> /\ cfg.dual /\ ValidConfig(cfg) /\ cfg.ctu > 64 /\ IsJoint(cfg)
  BY ConfigAssumption DEF WithChroma, IsJoint, IInv
<1>2. ~InItsChroma(calls) /\ ~Alternates(calls) /\ Len(calls) = 0
  BY <1>1, EmptyIsSeq DEF InItsChroma, Alternates
<1>3. cfg.ctu = 128
  <2>1. cfg.ctu \in {32, 64, 128} BY <1>1, UnitFacts
  <2> QED BY <1>1, <2>1
<1>4. cur = "LUMA" BY <1>1 DEF IInv, LengthInv
<1>5. ASSUME NEW ch \in Channels PROVE JointStart(ch)
  <2> DEFINE p == parts[ch]
  <2>1. Len(p.stack) = 1
    <3>1. ch = cur => Len(p.stack) = 1 + 0 - 0 BY <1>2 DEF IInv, LengthInv
    <3>2. ch # cur => Len(p.stack) = 1 BY <1>2 DEF IInv, LengthInv
    <3> QED BY <3>1, <3>2
  <2>2. Shaped(cfg, ch, p.stack, none, p.modeType) BY <1>1 DEF ShapeInv, WaitingFor
  <2>3. p.modeType = "ALL"
    <3>1. CASE ch = cur
      <4>1. parts[cur].modeType \in ModesOf(cfg) BY DEF ShapeInv, Led
      <4> QED BY <1>1, <3>1, <4>1 DEF ModesOf
    <3>2. CASE ch # cur BY <3>2 DEF ShapeInv
    <3> QED BY <3>1, <3>2
  <2>4. PartOK(p) BY DEF IInv, PartsOK
  <2>5. p.chType = ch BY <1>2 DEF IInv, GroupInv, Channels
  <2> HIDE DEF p, none
  <2>6. Area(p) = CtuArea(cfg) BY <2>1, <2>2, <2>4, WholeArea
  <2>7. Shaped(cfg, ch, p.stack, none, "ALL") BY <2>2, <2>3
  <2> QED BY <2>1, <2>3, <2>4, <2>5, <2>6, <2>7 DEF JointStart, p, none
<1> QED BY <1>1, <1>3, <1>4, <1>5

\* What the quadtree split of luma and chroma at once does to the stacks.
Quarters(ch, qgEnable) ==
  parts'[ch].stack = Append(Checked(cfg, parts[ch]).stack, Level("QUAD", SubAreas(CtuArea(cfg), "QUAD"), qgEnable))

JointSplits ==
  /\ cfg' = cfg /\ cur' = cur /\ pc' = pc /\ coded' = coded /\ calls' = <<[kind |-> "joint"]>>
  /\ \A ch \in Channels : parts'[ch].modeType = "ALL" /\ \E qgEnable : Quarters(ch, qgEnable)

\* The quadtree split of luma and chroma at once, or a CHECK that fails.
LEMMA JointStack ==
  ASSUME IInv, ShapeInv, SplitJointly
  PROVE  \/ Abort /\ \E ch \in Channels : SplitFails(parts[ch], "QUAD")
         \/ JointSplits
<1> DEFINE Q(ch) == SplitCurrArea(cfg, parts[ch], "QUAD")
<1>1. CASE \E ch \in Channels : SplitFails(parts[ch], "QUAD")
  BY <1>1 DEF SplitJointly
<1>2. CASE ~\E ch \in Channels : SplitFails(parts[ch], "QUAD")
  <2>1. /\ parts' = [ch \in Channels |-> Q(ch)] /\ calls' = <<[kind |-> "joint"]>>
        /\ cfg' = cfg /\ cur' = cur /\ pc' = pc /\ coded' = coded
    BY <1>2 DEF SplitJointly
  <2>2. \A ch \in Channels : JointStart(ch) BY StartsJointly DEF SplitJointly
  <2>3. ASSUME NEW ch \in Channels
        PROVE  parts'[ch].modeType = "ALL" /\ \E qgEnable : Quarters(ch, qgEnable)
    <3> DEFINE p == parts[ch]
               q == SplitCurrArea(cfg, p, "QUAD")
    <3>1. PartOK(p) /\ Area(p) = CtuArea(cfg) /\ p.modeType = "ALL" BY <2>2 DEF JointStart
    <3>2. parts'[ch] = q BY <2>1
    <3>3. PICK qgEnable : /\ q.stack = Append(Checked(cfg, p).stack, Level("QUAD", SubAreas(Area(p), "QUAD"), qgEnable))
                          /\ SameKinds(q, p)
      BY <3>1, SplitStack
    <3> HIDE DEF q, p
    <3>4. parts'[ch].stack = Append(Checked(cfg, p).stack, Level("QUAD", SubAreas(CtuArea(cfg), "QUAD"), qgEnable))
      BY <3>1, <3>2, <3>3
    <3>5. parts'[ch].modeType = "ALL" BY <3>1, <3>2, <3>3 DEF SameKinds
    <3>6. Quarters(ch, qgEnable) BY <3>4 DEF Quarters, p
    <3> QED BY <3>5, <3>6
  <2> HIDE DEF Q
  <2>4. JointSplits BY <2>1, <2>3 DEF JointSplits
  <2> QED BY <2>4
<1> QED BY <1>1, <1>2

\* A unit of 128 x 128 has room for its quarters.
LEMMA QuartersPlaces ==
  ASSUME IInv, ShapeInv, PlacesInv, pc = "tree", WithChroma, NEW ch \in Channels
  PROVE  /\ ConfigOK(cfg) /\ PartOK(parts[ch]) /\ Placed(cfg, ch, parts[ch].stack) /\ Measured(Area(parts[ch]))
         /\ SplitPlaces(cfg, ch, Area(parts[ch]), Top(parts[ch]).split, "QUAD")
         /\ Top(parts[ch]).split = "CTU_LEVEL"
<1> DEFINE p == parts[ch]
<1>1. cfg.dual /\ ValidConfig(cfg) /\ cfg.ctu = 128 /\ JointStart(ch) BY StartsJointly
<1>2. ConfigOK(cfg) BY <1>1, ConfigFacts
<1>3. PartOK(p) /\ Len(p.stack) = 1 /\ Area(p) = CtuArea(cfg) BY <1>1 DEF JointStart
<1>4. Placed(cfg, ch, p.stack) BY DEF PlacesInv
<1> HIDE DEF p
<1>5. Top(p).split = "CTU_LEVEL"
  <2>1. StackOK(p.stack) /\ Last(p.stack) = p.stack[1] BY <1>3 DEF PartOK, Last
  <2> QED BY <2>1 DEF StackOK, Top
<1>6. SplitPlaces(cfg, ch, Area(p), "CTU_LEVEL", "QUAD")
  <2>1. cfg.minCb \in MinSizes BY <1>2 DEF ConfigOK
  <2>2. 128 >= 2 * cfg.minCb BY <2>1 DEF MinSizes
  <2>3. Area(p).w = 128 /\ Area(p).h = 128 BY <1>1, <1>3 DEF CtuArea
  <2>4. RoomFor(cfg.minCb, Area(p), "QUAD") BY <2>2, <2>3 DEF RoomFor
  <2>5. "QUAD" \notin MtSplits /\ "CTU_LEVEL" \notin MtSplits BY DEF MtSplits, BtSplits, TtSplits
  <2> QED BY <2>4, <2>5 DEF SplitPlaces
<1>7. Measured(Area(p)) BY <1>2, <1>3 DEF ConfigOK
<1> QED BY <1>2, <1>3, <1>4, <1>5, <1>6, <1>7 DEF p

\* The quadtree split of luma and chroma at once.
LEMMA SplitJointlyPlaces ==
  ASSUME IInv, ShapeInv, PlacesInv, SplitJointly
  PROVE  PlacesInv'
<1>1. CASE Abort BY <1>1, NothingPlaces
<1>2. CASE JointSplits
  <2>1. cfg' = cfg BY <1>2 DEF JointSplits
  <2>2. pc = "tree" /\ WithChroma BY DEF SplitJointly
  <2>3. ValidConfig(cfg) BY <2>2, StartsJointly
  <2>4. BorderOK(cfg) /\ InPicture(cfg, CtuArea(cfg).x, CtuArea(cfg).y)
    BY <2>3, UnitFacts DEF CtuArea
  <2>5. ASSUME NEW ch \in Channels PROVE Placed(cfg, ch, parts'[ch].stack)
    <3> DEFINE p == parts[ch]
               k == Checked(cfg, p)
               none == <<>>
               areas == SubAreas(CtuArea(cfg), "QUAD")
    <3>1. /\ PartOK(p) /\ Len(p.stack) = 1 /\ Shaped(cfg, ch, p.stack, none, "ALL") /\ p.chType = ch
          /\ Area(p) = CtuArea(cfg)
      BY <2>2, StartsJointly DEF JointStart
    <3>2. /\ ConfigOK(cfg) /\ Placed(cfg, ch, p.stack)
          /\ SplitPlaces(cfg, ch, Area(p), Top(p).split, "QUAD")
      BY <2>2, QuartersPlaces
    <3>3. PICK qgEnable : Quarters(ch, qgEnable) BY <1>2 DEF JointSplits
    <3>4. parts'[ch].stack = Append(k.stack, Level("QUAD", areas, qgEnable)) BY <3>3 DEF Quarters
    <3>5. "QUAD" \in Splits BY DEF Splits
    <3> HIDE DEF p, none, areas
    <3>6. Placed(cfg, ch, Checked(cfg, p).stack) BY <2>4, <3>1, <3>2, CheckedPlaced
    <3>7. /\ Shaped(cfg, ch, Checked(cfg, p).stack, none, "ALL") /\ Area(Checked(cfg, p)) = Area(p)
      BY <2>4, <3>1, CheckedShape
    <3>8. PartOK(k) /\ Top(k).split = Top(p).split
      <4>1. /\ PartOK(Checked(cfg, p))
            /\ \A f \in LevelFields : f # "implicit" => Top(Checked(cfg, p))[f] = Top(p)[f]
        BY <3>1, CheckedOK
      <4> QED BY <4>1 DEF LevelFields
    <3> HIDE DEF k
    <3>9. Placed(cfg, ch, k.stack) /\ Shaped(cfg, ch, k.stack, none, "ALL") /\ Area(k) = CtuArea(cfg)
      BY <3>1, <3>6, <3>7 DEF k
    <3>10. Measured(Area(k)) /\ \A i \in 1 .. Len(k.stack) : Measured(CurrentPart(k.stack[i]))
      BY <3>8, <3>9, ShapedMeasures
    <3>11. SplitPlaces(cfg, ch, Area(k), Top(k).split, "QUAD") BY <3>1, <3>2, <3>8, <3>9
    <3>12. Placed(cfg, ch, Append(k.stack, Level("QUAD", SubAreas(Area(k), "QUAD"), qgEnable)))
      BY <3>2, <3>5, <3>8, <3>9, <3>10, <3>11, SplitPlaced
    <3> QED BY <3>4, <3>9, <3>12 DEF areas
  <2> QED BY <2>1, <2>5 DEF PlacesInv
<1> QED BY <1>1, <1>2, JointStack

\* Every step leaves the levels where they have to be.
LEMMA StepPlaces ==
  ASSUME IInv, ShapeInv, PlacesInv, [Next]_vars
  PROVE  PlacesInv'
<1>1. CASE SplitJointly BY <1>1, SplitJointlyPlaces
<1>2. CASE CodeUnit BY <1>2, CodeUnitPlaces
<1>3. CASE \E split \in Splits : SplitNode(split) BY <1>3, SplitNodePlaces
<1>4. CASE NextNodePart BY <1>4, NextNodePartPlaces
<1>5. CASE ExitNode BY <1>5, ExitNodePlaces
<1>6. CASE Recover BY <1>6, RecoverPlaces
<1>7. CASE LumaThenChroma BY <1>7, TurnPlaces
<1>8. CASE NextJointPart BY <1>8, TurnPlaces
<1>9. CASE ExitJointly BY <1>9, ExitJointlyPlaces
<1>10. CASE EndOfTree
  <2>1. cfg' = cfg /\ parts' = parts BY <1>10 DEF EndOfTree
  <2> QED BY <2>1 DEF PlacesInv
<1>11. CASE Finished BY <1>11, NothingPlaces DEF Finished
<1>12. CASE UNCHANGED vars BY <1>12, NothingPlaces
<1> QED BY <1>1, <1>2, <1>3, <1>4, <1>5, <1>6, <1>7, <1>8, <1>9, <1>10, <1>11, <1>12 DEF Next

-----------------------------------------------------------------------------
(* No CHECK of splitCurrArea fails.                                         *)

\* A level that is no multi-type split counts nothing.
LEMMA NothingToSum ==
  ASSUME NEW stack, Len(stack) \in Nat, NEW kinds, \A i \in 1 .. Len(stack) : stack[i].split \notin kinds
  PROVE  SumOver(stack, kinds) = 0
<1> DEFINE n == Len(stack)
           g == [k \in 0 .. n |-> 0]
<1>1. PICK f : Sums(f, stack, kinds, n) /\ SumOver(stack, kinds) = f[n] BY SumOverSums
<1>2. n \in Nat /\ n <= n OBVIOUS
<1>3. \A k \in 1 .. n : Halved(stack[k], kinds) = 0 BY DEF Halved
<1> HIDE DEF n
<1>4. Sums(g, stack, kinds, n)
  <2>1. ASSUME NEW k \in 0 .. n
        PROVE  (IF k = 0 THEN 0 ELSE g[k - 1] + Halved(stack[k], kinds)) = 0
    <3>1. CASE k = 0 BY <3>1
    <3>2. CASE k # 0
      <4>1. k \in 1 .. n /\ k - 1 \in 0 .. n BY <1>2, <3>2
      <4>2. g[k - 1] = 0 BY <4>1
      <4>3. Halved(stack[k], kinds) = 0 BY <1>3, <4>1
      <4> QED BY <3>2, <4>2, <4>3
    <3> QED BY <3>1, <3>2
  <2> QED BY <2>1 DEF Sums
<1>5. g[n] = 0 BY <1>2
<1> HIDE DEF g
<1>6. f[n] = g[n] BY <1>1, <1>2, <1>4, SumsAgree
<1> QED BY <1>1, <1>5, <1>6

\* A split that there is room for passes the CHECKs: the parts are large enough, and
\* below a quadtree split there are only quadtree splits.
LEMMA SplitSucceeds ==
  ASSUME NEW c, ConfigOK(c), NEW ch \in Channels, NEW p, PartOK(p), Placed(c, ch, p.stack), Measured(Area(p)),
         NEW split \in Splits, SplitPlaces(c, ch, Area(p), Top(p).split, split)
  PROVE  ~SplitFails(p, split)
<1> DEFINE stack == p.stack
           n == Len(stack)
           a == Area(p)
           P == SubAreas(a, split)
           f == Front(stack)
           top == Top(p)
<1>1. /\ LevelPlaced(c, ch, top) /\ IsSeq(f) /\ stack = Append(f, top)
      /\ \A i \in 1 .. Len(f) : Above(top, f[i])
  BY PlacedParts
<1>2. IsSeq(stack) /\ StackOK(stack) BY DEF PartOK, StackOK
<1>3. n = Len(f) + 1 /\ Len(f) \in Nat /\ stack[n] = top /\ \A i \in 1 .. Len(f) : stack[i] = f[i]
  <2> HIDE DEF f, top
  <2> QED BY <1>1, AppendIsSeq
<1>4. AlignedArea(c, a)
  <2>1. a = CurrentPart(top) BY DEF Area, Top
  <2> QED BY <1>1, <2>1 DEF LevelPlaced, CurrentPart
<1>5. \A k \in 1 .. Len(P) : Measured(P[k])
  BY <1>4, SplitLevelPlaced
<1>6. DOMAIN P = 1 .. Len(P) BY SubAreasFacts
<1>7. top.split \in Splits \cup {"CTU_LEVEL"} BY StackParts DEF LevelOK
<1>8. /\ p.mtDepth = Cardinality(LevelsOf(stack, MtSplits))
      /\ p.btDepth = SumOver(stack, MtSplits)
  BY DEF PartOK, MatchesItsStack
<1>9. DOMAIN stack = 1 .. n /\ n \in Nat BY <1>2, AppendIsSeq
<1>10. top.split = "CTU_LEVEL" => n = 1
  <2>1. n \in DOMAIN stack BY <1>3, <1>9
  <2>2. n > 1 => stack[n].split \in Splits BY <1>2, <2>1 DEF StackOK, Fits
  <2>3. "CTU_LEVEL" \notin Splits BY DEF Splits, MtSplits, BtSplits, TtSplits
  <2> HIDE DEF stack, n, f, top
  <2> QED BY <1>3, <2>2, <2>3
<1>11. split = "QUAD" => top.split \notin MtSplits BY DEF SplitPlaces
<1>12. SplitFails(p, split) <=>
         \/ split = "QUAD" /\ (p.btDepth > 0 \/ p.mtDepth > 0)
         \/ \E b \in Range(P) : (IF split \in {"VERT", "TRIV"} THEN b.w ELSE b.h) < 4
  BY DEF SplitFails, MIN_TB_SIZEY
<1> HIDE DEF stack, n, a, P, f, top
<1>13. ASSUME split = "QUAD" PROVE p.btDepth = 0 /\ p.mtDepth = 0
  <2>1. ASSUME NEW i \in 1 .. n PROVE stack[i].split \notin MtSplits
    <3>1. CASE i = n BY <1>3, <1>11, <1>13, <3>1
    <3>2. CASE i # n
      <4>1. i \in 1 .. Len(f) /\ n > 1 BY <1>3, <3>2
      <4>2. top.split = "QUAD" BY <1>7, <1>10, <1>11, <1>13, <4>1 DEF Splits
      <4> QED BY <1>1, <1>3, <4>1, <4>2 DEF Above
    <3> QED BY <3>1, <3>2
  <2>2. SumOver(stack, MtSplits) = 0 BY <1>9, <2>1, NothingToSum DEF n
  <2>3. LevelsOf(stack, MtSplits) = {} BY <1>9, <2>1 DEF LevelsOf
  <2>4. Cardinality({}) = 0 BY FS_EmptySet
  <2> QED BY <1>8, <2>2, <2>3, <2>4
<1>14. ~(split = "QUAD" /\ (p.btDepth > 0 \/ p.mtDepth > 0)) BY <1>13
<1>15. ASSUME NEW b \in Range(P) PROVE ~((IF split \in {"VERT", "TRIV"} THEN b.w ELSE b.h) < 4)
  <2>1. PICK k \in 1 .. Len(P) : b = P[k] BY <1>6 DEF Range
  <2>2. b.w \in Sizes /\ b.h \in Sizes BY <1>5, <2>1 DEF Measured
  <2>3. ~(b.w < 4) /\ ~(b.h < 4) BY <2>2 DEF Sizes
  <2> QED BY <2>3
<1> QED BY <1>12, <1>14, <1>15

\* There is room for the split of a tree: it is made.
LEMMA NodeIsSplit ==
  ASSUME IInv, ShapeInv, PlacesInv, NEW split \in Splits, SplitNode(split)
  PROVE  \E modeType \in ModeTypes(cfg, part, split) : \E q, call, qgEnable :
           NodeSplits(split, modeType, q, call, qgEnable)
<1>1. pc = "tree" /\ split \in permitted BY DEF SplitNode
<1>2. /\ PartOK(part) /\ area = Area(part) /\ TreeOK(part, calls) /\ part.modeType \in ModesOf(cfg)
      /\ part.chType = IF cur = "LUMA" /\ InItsChroma(calls) THEN "CHROMA" ELSE cur
  BY <1>1, Here
<1>3. /\ ConfigOK(cfg) /\ Placed(cfg, cur, part.stack) /\ Measured(area)
      /\ Permitted(cfg, cur, part, split)
  BY <1>1, HerePlaced
<1>4. PICK modeType \in ModeTypes(cfg, part, split) : \E node :
        /\ ForNode(modeType, node)
        /\ \/ /\ Abort
              /\ \/ SplitFails(node, split)
                 \/ part.modeType = "ALL" /\ modeType = "INTRA" /\ part.chType # "LUMA"
           \/ \E q, call, qgEnable : NodeSplits(split, modeType, q, call, qgEnable)
  BY NodeStack
<1>5. PICK node :
        /\ ForNode(modeType, node)
        /\ \/ /\ Abort
              /\ \/ SplitFails(node, split)
                 \/ part.modeType = "ALL" /\ modeType = "INTRA" /\ part.chType # "LUMA"
           \/ \E q, call, qgEnable : NodeSplits(split, modeType, q, call, qgEnable)
  BY <1>4
<1>6. ~(part.modeType = "ALL" /\ modeType = "INTRA" /\ part.chType # "LUMA")
  <2> SUFFICES ASSUME part.modeType = "ALL", modeType = "INTRA", part.chType # "LUMA" PROVE FALSE OBVIOUS
  <2>1. ~cfg.dual
    <3>1. modeType \in ModeTypes(cfg, part, split) BY <1>4
    <3> QED BY <3>1 DEF ModeTypes
  <2>2. cur = "LUMA" BY <2>1 DEF ShapeInv, IInv, Channels
  <2>3. InItsChroma(calls) BY <1>2, <2>2
  <2>4. part.treeType = "TREE_C" BY <1>2, <2>3 DEF TreeOK
  <2> QED BY <1>3, <2>4 DEF Permitted
<1>7. ~SplitFails(node, split)
  <2>1. PartOK(node) /\ node.stack = part.stack BY <1>5 DEF ForNode
  <2>2. cur \in Channels BY DEF IInv
  <2> HIDE DEF part, area
  <2>3. SplitPlaces(cfg, cur, Area(part), Top(part).split, split) BY <1>3, <2>2, PermittedHasRoom
  <2>4. Area(node) = Area(part) /\ Top(node) = Top(part) BY <2>1 DEF Area, Top
  <2>5. /\ Placed(cfg, cur, node.stack) /\ Measured(Area(node))
        /\ SplitPlaces(cfg, cur, Area(node), Top(node).split, split)
    BY <1>2, <1>3, <2>1, <2>3, <2>4
  <2> QED BY <1>3, <2>1, <2>2, <2>5, SplitSucceeds
<1> QED BY <1>5, <1>6, <1>7

\* There is room for the quarters of a unit of 128 x 128.
LEMMA JointIsSplit ==
  ASSUME IInv, ShapeInv, PlacesInv, SplitJointly
  PROVE  JointSplits
<1>1. pc = "tree" /\ WithChroma BY DEF SplitJointly
<1>2. ASSUME NEW ch \in Channels PROVE ~SplitFails(parts[ch], "QUAD")
  <2> DEFINE p == parts[ch]
  <2>1. /\ ConfigOK(cfg) /\ PartOK(p) /\ Placed(cfg, ch, p.stack) /\ Measured(Area(p))
        /\ SplitPlaces(cfg, ch, Area(p), Top(p).split, "QUAD")
    BY <1>1, QuartersPlaces
  <2>2. "QUAD" \in Splits BY DEF Splits
  <2> HIDE DEF p
  <2>3. ~SplitFails(p, "QUAD") BY <2>1, <2>2, SplitSucceeds
  <2> QED BY <2>3 DEF p
<1> QED BY <1>2, JointStack

\* A call that has split its block leaves the split.
LEMMA NodeIsLeft ==
  ASSUME IInv, ShapeInv, ExitNode
  PROVE  \E q, call : NodeExits(q, call)
<1>1. ~ExitFails(parts[cur]) BY ExitsFailNever DEF ExitsSucceed, ExitNode
<1> QED BY <1>1, ExitsStack

-----------------------------------------------------------------------------
(* What the steps of the walk leave to come.                                *)

\* From the top: what comes on the levels below, or on the top level.
DueAt(f, e, here, q) ==
  Due(Append(f, e), Len(f) + 1, here, q) <=>
    (\E i \in 1 .. Len(f) : Later(f[i], q)) \/ Later(e, q) \/ (here /\ Within(q, CurrentPart(e)))

\* Nothing else is on the stack.
LEMMA DueTop ==
  ASSUME NEW f, IsSeq(f), NEW e, NEW here \in BOOLEAN, NEW q
  PROVE  DueAt(f, e, here, q)
<1> DEFINE n == Len(f)
           t == Append(f, e)
<1>1. n \in Nat /\ (\A i \in 1 .. n : t[i] = f[i]) /\ t[n + 1] = e BY AppendIsSeq
<1> HIDE DEF n, t
<1>2. (\A i \in 1 .. n + 1 : i \in 1 .. n \/ i = n + 1) /\ (\A i \in 1 .. n : i \in 1 .. n + 1) /\ n + 1 \in 1 .. n + 1
  BY <1>1
<1>3. (\E i \in 1 .. n + 1 : Later(t[i], q)) <=> (\E i \in 1 .. n : Later(f[i], q)) \/ Later(e, q)
  <2>1. ASSUME NEW i \in 1 .. n + 1, Later(t[i], q) PROVE (\E k \in 1 .. n : Later(f[k], q)) \/ Later(e, q)
    BY <1>1, <1>2, <2>1
  <2>2. ASSUME NEW i \in 1 .. n, Later(f[i], q) PROVE \E k \in 1 .. n + 1 : Later(t[k], q)
    BY <1>1, <1>2, <2>2
  <2>3. ASSUME Later(e, q) PROVE \E k \in 1 .. n + 1 : Later(t[k], q)
    BY <1>1, <1>2, <2>3
  <2> QED BY <2>1, <2>2, <2>3
<1>4. Due(t, n + 1, here, q) <=> (\E i \in 1 .. n + 1 : Later(t[i], q)) \/ (here /\ Within(q, CurrentPart(e)))
  BY <1>1 DEF Due
<1> QED BY <1>3, <1>4 DEF DueAt, n, t

\* The samples to cover have whole numbers as places.
LEMMA ToCoverFacts ==
  ASSUME NEW c, ConfigOK(c), NEW q \in ToCover(c)
  PROVE  q[1] \in Nat /\ q[2] \in Nat /\ OnGrid(c, q) /\ InPicture(c, q[1], q[2]) /\ Within(q, CtuArea(c))
<1> DEFINE a == CtuArea(c)
<1>1. q \in Cells(c, a) /\ InPicture(c, q[1], q[2]) BY DEF ToCover
<1>2. c.minCb \in MinSizes /\ Measured(a) /\ AlignedArea(c, a) BY DEF ConfigOK
<1> HIDE DEF a
<1>3. InCells(c, a, q) BY <1>2, CellsAreWithin
<1>4. OnGrid(c, q) /\ Within(q, a) BY <1>1, <1>3 DEF InCells
<1> QED BY <1>1, <1>4 DEF OnGrid, a

\* A split leaves what it splits to come.
LEMMA WalkedSplit ==
  ASSUME NEW c, ConfigOK(c), NEW p, PartOK(p), Measured(Area(p)), NEW split \in Splits, NEW qgEnable
  PROVE  Walked(c, Append(p.stack, Level(split, SubAreas(Area(p), split), qgEnable)), Len(p.stack) + 1, TRUE)
           = Walked(c, p.stack, Len(p.stack), TRUE)
<1> DEFINE stack == p.stack
           f == Front(stack)
           top == Top(p)
           a == Area(p)
           P == SubAreas(a, split)
           level == Level(split, P, qgEnable)
<1>1. stack = Append(f, top) /\ IsSeq(f) /\ Len(stack) = Len(f) + 1 /\ Len(f) \in Nat BY StackParts
<1>2. IsSeq(stack) BY DEF PartOK, StackOK
<1>3. a = CurrentPart(top) BY DEF Area, Top
<1>4. level.parts = P /\ level.idx = 0 BY DEF Level
<1>5. Tiles(P, a)
  <2>1. a.x \in Nat /\ a.y \in Nat /\ a.w \in Sizes /\ a.h \in Sizes BY DEF Measured
  <2> QED BY <2>1, SubAreasTile
<1>6. Len(P) \in Nat /\ Len(P) > 0 BY SubAreasFacts
<1> HIDE DEF stack, f, top, a, P, level
<1>7. ASSUME NEW q \in ToCover(c)
      PROVE  Due(Append(stack, level), Len(stack) + 1, TRUE, q) <=> Due(stack, Len(stack), TRUE, q)
  <2>1. q[1] \in Nat /\ q[2] \in Nat BY ToCoverFacts
  <2>2. TilesAt(P, a, q) BY <1>5, <2>1 DEF Tiles
  <2>3. CurrentPart(level) = P[1]
    <3>1. 0 + 1 = 1 OBVIOUS
    <3> QED BY <1>4, <3>1 DEF CurrentPart
  <2>4. Later(level, q) <=> \E k \in 2 .. Len(P) : Within(q, P[k])
    <3>1. 0 + 2 = 2 OBVIOUS
    <3> QED BY <1>4, <3>1 DEF Later
  <2>5. /\ \A k \in 1 .. Len(P) : k = 1 \/ k \in 2 .. Len(P)
        /\ 1 \in 1 .. Len(P) /\ \A k \in 2 .. Len(P) : k \in 1 .. Len(P)
    BY <1>6
  <2>6. Later(level, q) \/ Within(q, CurrentPart(level)) <=> Within(q, a)
    <3>1. (\E k \in 1 .. Len(P) : Within(q, P[k])) <=> (\E k \in 2 .. Len(P) : Within(q, P[k])) \/ Within(q, P[1])
      BY <2>5
    <3> QED BY <2>2, <2>3, <2>4, <3>1 DEF TilesAt
  <2>7. DueAt(stack, level, TRUE, q) /\ DueAt(f, top, TRUE, q) BY <1>1, <1>2, DueTop
  <2>8. DueAt(f, top, FALSE, q) BY <1>1, DueTop
  <2>9. Due(stack, Len(stack), FALSE, q) <=> \E i \in 1 .. Len(stack) : Later(stack[i], q) BY DEF Due
  <2> QED BY <1>1, <1>3, <2>6, <2>7, <2>8, <2>9 DEF DueAt
<1> QED BY <1>7 DEF Walked, stack, level, P, a

\* Levels further up do not count.
LEMMA WalkedBelow ==
  ASSUME NEW c, NEW f, IsSeq(f), NEW e, NEW i \in 1 .. Len(f), NEW here
  PROVE  Walked(c, Append(f, e), i, here) = Walked(c, f, i, here)
<1> DEFINE n == Len(f)
           t == Append(f, e)
<1>1. n \in Nat /\ (\A k \in 1 .. n : t[k] = f[k]) BY AppendIsSeq
<1>2. i \in 1 .. n OBVIOUS
<1> HIDE DEF n, t
<1>3. t[i] = f[i] /\ \A k \in 1 .. i : t[k] = f[k] BY <1>1, <1>2
<1>4. \A q : Due(t, i, here, q) <=> Due(f, i, here, q) BY <1>3 DEF Due
<1> QED BY <1>4 DEF Walked, t

\* Without a next part, a level leaves nothing to come.
LEMMA WalkedExit ==
  ASSUME NEW c, NEW p, PartOK(p), ~HasNextPart(p)
  PROVE  Walked(c, p.stack, Len(p.stack), FALSE) = Walked(c, Front(p.stack), Len(Front(p.stack)), FALSE)
<1> DEFINE stack == p.stack
           f == Front(stack)
           top == Top(p)
<1>1. stack = Append(f, top) /\ IsSeq(f) /\ Len(stack) = Len(f) + 1 /\ Len(f) \in Nat /\ LevelOK(top) BY StackParts
<1>2. ~(top.idx + 1 < Len(top.parts)) BY DEF HasNextPart, Top
<1>3. Len(top.parts) \in Nat /\ top.idx \in 0 .. Len(top.parts) - 1 BY <1>1 DEF LevelOK
<1> HIDE DEF stack, f, top
<1>4. ASSUME NEW q PROVE Due(stack, Len(stack), FALSE, q) <=> Due(f, Len(f), FALSE, q)
  <2>1. top.idx + 2 .. Len(top.parts) = {} BY <1>2, <1>3
  <2>2. ~Later(top, q) BY <2>1 DEF Later
  <2>3. DueAt(f, top, FALSE, q) BY <1>1, DueTop
  <2> QED BY <1>1, <2>2, <2>3 DEF DueAt, Due
<1> QED BY <1>4 DEF Walked, stack, f

\* The next part is the first of those to come.
LEMMA WalkedNext ==
  ASSUME NEW c, NEW p, PartOK(p), HasNextPart(p)
  PROVE  Walked(c, NextPart(p).stack, Len(p.stack), TRUE) = Walked(c, p.stack, Len(p.stack), FALSE)
<1> DEFINE stack == p.stack
           f == Front(stack)
           top == Top(p)
           d == [top EXCEPT !.idx = @ + 1, !.implicit = "UNCHECKED"]
<1>1. stack = Append(f, top) /\ IsSeq(f) /\ Len(stack) = Len(f) + 1 /\ Len(f) \in Nat /\ LevelOK(top) BY StackParts
<1>2. NextPart(p).stack = Append(f, d) /\ d.parts = top.parts BY NextStack
<1>3. d.idx = top.idx + 1
  <2> HIDE DEF top
  <2> QED BY <1>1 DEF LevelOK, IsRecord, LevelFields
<1>4. top.idx + 1 < Len(top.parts) BY DEF HasNextPart, Top
<1>5. Len(top.parts) \in Nat /\ top.idx \in 0 .. Len(top.parts) - 1 BY <1>1 DEF LevelOK
<1> HIDE DEF stack, f, top, d
<1>6. ASSUME NEW q PROVE Due(Append(f, d), Len(stack), TRUE, q) <=> Due(stack, Len(stack), FALSE, q)
  <2> DEFINE i == top.idx
             m == Len(top.parts)
  <2>1. i \in Nat /\ m \in Nat /\ i + 1 < m BY <1>4, <1>5
  <2>2. i + 1 + 1 = i + 2 /\ i + 1 + 2 = i + 3 BY <2>1
  <2>3. CurrentPart(d) = top.parts[i + 2] BY <1>2, <1>3, <2>2 DEF CurrentPart
  <2>4. Later(d, q) <=> \E k \in i + 3 .. m : Within(q, top.parts[k]) BY <1>2, <1>3, <2>2 DEF Later
  <2>5. Later(top, q) <=> \E k \in i + 2 .. m : Within(q, top.parts[k]) BY DEF Later
  <2> HIDE DEF i, m
  <2>6. /\ \A k \in i + 2 .. m : k = i + 2 \/ k \in i + 3 .. m
        /\ i + 2 \in i + 2 .. m /\ \A k \in i + 3 .. m : k \in i + 2 .. m
    BY <2>1
  <2>7. Later(top, q) <=> Later(d, q) \/ Within(q, CurrentPart(d)) BY <2>3, <2>4, <2>5, <2>6
  <2>8. DueAt(f, d, TRUE, q) /\ DueAt(f, top, FALSE, q) BY <1>1, DueTop
  <2> QED BY <1>1, <2>7, <2>8 DEF DueAt
<1> QED BY <1>2, <1>6 DEF Walked, stack

\* What getImplicitSplit remembers does not count.
LEMMA WalkedAlike ==
  ASSUME NEW c, NEW s, NEW t, NEW i \in Nat, i > 0, NEW here,
         \A k \in 1 .. i : s[k].idx = t[k].idx /\ s[k].parts = t[k].parts
  PROVE  Walked(c, s, i, here) = Walked(c, t, i, here)
<1>1. \A k \in 1 .. i : \A q : Later(s[k], q) <=> Later(t[k], q) BY DEF Later
<1>2. CurrentPart(s[i]) = CurrentPart(t[i])
  <2>1. i \in 1 .. i OBVIOUS
  <2> QED BY <2>1 DEF CurrentPart
<1>3. \A q : Due(s, i, here, q) <=> Due(t, i, here, q) BY <1>1, <1>2 DEF Due
<1> QED BY <1>3 DEF Walked

\* A stack with all its levels in their places.
Settled(c, ch, stack) ==
  /\ IsSeq(stack) /\ stack # <<>> /\ stack[1].parts = <<CtuArea(c)>> /\ Placed(c, ch, stack)
  /\ \A i \in 1 .. Len(stack) : stack[i].idx \in Nat
  /\ \A i \in 1 .. Len(stack) : \A k \in 1 .. Len(stack[i].parts) : Measured(stack[i].parts[k])

\* All stacks of the walk are.
LEMMA ShapedSettles ==
  ASSUME NEW c, NEW ch, NEW p, PartOK(p), NEW s, NEW m, Shaped(c, ch, p.stack, s, m), Placed(c, ch, p.stack)
  PROVE  Settled(c, ch, p.stack)
<1> DEFINE stack == p.stack
<1>1. IsSeq(stack) /\ stack # <<>> BY DEF PartOK, StackOK
<1>2. DOMAIN stack = 1 .. Len(stack) BY <1>1, AppendIsSeq
<1>3. ASSUME NEW i \in 1 .. Len(stack), NEW k \in 1 .. Len(stack[i].parts) PROVE Measured(stack[i].parts[k])
  <2>1. LevelShape(c, ch, stack[i], ModeAt(s, m, i)) BY <1>2 DEF Shaped
  <2>2. AreaOK(c, ch, stack[i].parts[k], ModeAt(s, m, i)) BY <2>1 DEF LevelShape
  <2> QED BY <2>2 DEF AreaOK, PlaceOK, Measured
<1>4. ASSUME NEW i \in 1 .. Len(stack) PROVE stack[i].idx \in Nat
  <2>1. LevelOK(stack[i]) BY <1>2 DEF PartOK, StackOK
  <2> QED BY <2>1 DEF LevelOK
<1> QED BY <1>1, <1>3, <1>4 DEF Settled, Shaped

\* The blocks on a stack lie in one another, the first is the unit.
LEMMA SettledParts ==
  ASSUME NEW c, NEW ch, NEW stack, Settled(c, ch, stack), NEW i \in 1 .. Len(stack)
  PROVE  /\ Measured(CurrentPart(stack[i])) /\ AlignedArea(c, CurrentPart(stack[i]))
         /\ \A k \in 1 .. i : Inside(CurrentPart(stack[i]), CurrentPart(stack[k]))
         /\ Inside(CurrentPart(stack[i]), CtuArea(c))
         /\ CurrentPart(stack[1]) = CtuArea(c)
<1> DEFINE n == Len(stack)
<1>1. /\ DOMAIN stack = 1 .. n /\ n \in Nat /\ stack[1].parts = <<CtuArea(c)>>
      /\ \A j \in 1 .. n : \A k \in 1 .. Len(stack[j].parts) : Measured(stack[j].parts[k])
  BY AppendIsSeq DEF Settled
<1>2. /\ \A j \in 1 .. n : LevelPlaced(c, ch, stack[j])
      /\ \A j, k \in 1 .. n : j < k => Above(stack[k], stack[j])
  BY <1>1 DEF Settled, Placed
<1>3. i \in 1 .. n OBVIOUS
<1> HIDE DEF n
<1>4. \A j \in 1 .. n : stack[j].idx + 1 \in 1 .. Len(stack[j].parts) BY <1>2 DEF LevelPlaced
<1>5. \A j \in 1 .. n : Measured(CurrentPart(stack[j])) BY <1>1, <1>4 DEF CurrentPart
<1>6. AlignedArea(c, CurrentPart(stack[i])) BY <1>2, <1>3, <1>4 DEF LevelPlaced, CurrentPart
<1>7. ASSUME NEW k \in 1 .. i PROVE Inside(CurrentPart(stack[i]), CurrentPart(stack[k]))
  <2>1. k \in 1 .. n BY <1>1, <1>3
  <2>2. CASE k = i
    <3>1. Measured(CurrentPart(stack[i])) BY <1>3, <1>5
    <3>2. \A a : Measured(a) => Inside(a, a)
      <4> SUFFICES ASSUME NEW a, Measured(a) PROVE Inside(a, a) OBVIOUS
      <4>1. a.x \in Nat /\ a.y \in Nat /\ a.w \in Nat /\ a.h \in Nat BY MeasuredInNat
      <4> QED BY <4>1 DEF Inside
    <3> QED BY <2>2, <3>1, <3>2
  <2>3. CASE k # i
    <3>1. k < i BY <1>1, <1>3, <2>3
    <3>2. Above(stack[i], stack[k]) BY <1>2, <1>3, <2>1, <3>1
    <3> QED BY <1>3, <1>4, <3>2 DEF Above, CurrentPart
  <2> QED BY <2>2, <2>3
<1>8. CurrentPart(stack[1]) = CtuArea(c)
  <2>1. 1 \in 1 .. n /\ 1 \in 1 .. i BY <1>1, <1>3
  <2> DEFINE u == <<CtuArea(c)>>
  <2>2. Len(u) = 1 /\ u[1] = CtuArea(c) OBVIOUS
  <2>3. stack[1].idx + 1 \in 1 .. Len(u) BY <1>1, <1>4, <2>1
  <2> HIDE DEF u
  <2>4. stack[1].idx + 1 = 1 BY <2>2, <2>3
  <2> QED BY <1>1, <2>2, <2>4 DEF CurrentPart, u
<1>9. 1 \in 1 .. i BY <1>1, <1>3
<1> QED BY <1>3, <1>5, <1>6, <1>7, <1>8, <1>9

\* What begins at the end or behind it.
LEMMA Behind ==
  ASSUME NEW u \in Nat, NEW x \in Nat, NEW w \in Nat, NEW d \in Nat, u < x + w, d >= x + w
  PROVE  d > u
  OBVIOUS

\* In a block, and in one around it.
LEMMA BeforeTheEnd ==
  ASSUME NEW u \in Nat, NEW x \in Nat, NEW w \in Nat, NEW y \in Nat, NEW h \in Nat, u < x + w, x + w <= y + h
  PROVE  u < y + h
  OBVIOUS

\* What comes later is neither in a block nor to the left of it or above.
LEMMA NotLater ==
  ASSUME NEW c, NEW ch, NEW stack, Settled(c, ch, stack), NEW i \in 1 .. Len(stack),
         NEW q, q[1] \in Nat, q[2] \in Nat,
         q[1] < CurrentPart(stack[i]).x + CurrentPart(stack[i]).w,
         q[2] < CurrentPart(stack[i]).y + CurrentPart(stack[i]).h,
         NEW k \in 1 .. i
  PROVE  ~Later(stack[k], q)
<1> DEFINE a == CurrentPart(stack[i])
           b == CurrentPart(stack[k])
           level == stack[k]
<1>1. Len(stack) \in Nat /\ DOMAIN stack = 1 .. Len(stack) BY AppendIsSeq DEF Settled
<1>2. k \in 1 .. Len(stack) BY <1>1
<1>3. Measured(a) /\ Inside(a, b) BY SettledParts
<1>4. Measured(b) BY <1>2, SettledParts
<1>5. /\ LevelPlaced(c, ch, level) /\ \A l \in 1 .. Len(level.parts) : Measured(level.parts[l])
      /\ level.idx \in Nat
  BY <1>1, <1>2 DEF Settled, Placed
<1>6. q[1] < a.x + a.w /\ q[2] < a.y + a.h OBVIOUS
<1>7. b = level.parts[level.idx + 1] BY DEF CurrentPart
<1> HIDE DEF a, b, level
<1>8. q[1] < b.x + b.w /\ q[2] < b.y + b.h
  <2>1. a.x \in Nat /\ a.y \in Nat /\ a.w \in Nat /\ a.h \in Nat BY <1>3, MeasuredInNat
  <2>2. b.x \in Nat /\ b.y \in Nat /\ b.w \in Nat /\ b.h \in Nat BY <1>4, MeasuredInNat
  <2>3. a.x + a.w <= b.x + b.w /\ a.y + a.h <= b.y + b.h BY <1>3 DEF Inside
  <2>4. q[1] < b.x + b.w BY <1>6, <2>1, <2>2, <2>3, BeforeTheEnd
  <2>5. q[2] < b.y + b.h BY <1>6, <2>1, <2>2, <2>3, BeforeTheEnd
  <2> QED BY <2>4, <2>5
<1>9. ASSUME NEW l \in level.idx + 2 .. Len(level.parts) PROVE ~Within(q, level.parts[l])
  <2> DEFINE d == level.parts[l]
             n == Len(level.parts)
             j == level.idx + 1
  <2>1. j \in 1 .. n BY <1>5 DEF LevelPlaced
  <2>2. l \in 1 .. n /\ j < l
    <3>1. level.idx + 2 .. n \subseteq 1 .. n /\ \A h \in level.idx + 2 .. n : level.idx + 1 < h
      BY <1>5, <2>1
    <3> QED BY <3>1
  <2>3. InOrder(b, d) BY <1>5, <1>7, <2>1, <2>2 DEF LevelPlaced
  <2>4. Measured(d) BY <1>5, <2>2
  <2> DEFINE u == q[1]
             v == q[2]
  <2>5. u \in Nat /\ v \in Nat /\ u < b.x + b.w /\ v < b.y + b.h BY <1>8
  <2>6. d.x \in Nat /\ d.y \in Nat /\ (d.y >= b.y + b.h \/ d.x >= b.x + b.w) BY <2>3, <2>4 DEF InOrder, Measured
  <2>7. b.x \in Nat /\ b.y \in Nat /\ b.w \in Nat /\ b.h \in Nat BY <1>4, MeasuredInNat
  <2> HIDE DEF u, v, d
  <2>8. d.x > u \/ d.y > v
    <3>1. CASE d.y >= b.y + b.h BY <2>5, <2>6, <2>7, <3>1, Behind
    <3>2. CASE d.x >= b.x + b.w BY <2>5, <2>6, <2>7, <3>2, Behind
    <3> QED BY <2>6, <3>1, <3>2
  <2>9. ~(d.x <= u /\ d.y <= v) BY <2>5, <2>6, <2>8
  <2> QED BY <2>9 DEF Within, u, v, d
<1> QED BY <1>9 DEF Later, level

\* Blocks of a unit of the tree that lie in the picture are to be covered.
LEMMA CellsToCover ==
  ASSUME NEW c, ConfigOK(c), NEW ch, NEW stack, Settled(c, ch, stack), NEW i \in 1 .. Len(stack),
         NEW q, OnGrid(c, q), InPicture(c, q[1], q[2]), Within(q, CtuArea(c))
  PROVE  q \in ToCover(c)
<1> DEFINE u == CtuArea(c)
<1>1. c.minCb \in MinSizes /\ Measured(u) /\ AlignedArea(c, u) BY DEF ConfigOK
<1>2. Within(q, u) OBVIOUS
<1> HIDE DEF u
<1>3. InCells(c, u, q) BY <1>1, CellsAreWithin
<1>4. q \in Cells(c, u) BY <1>2, <1>3 DEF InCells
<1> QED BY <1>4 DEF ToCover, u

\* In a block, and so in one around it.
LEMMA WithinInside ==
  ASSUME NEW a, Measured(a), NEW b, Measured(b), Inside(a, b), NEW q, q[1] \in Nat, q[2] \in Nat, Within(q, a)
  PROVE  Within(q, b)
<1>1. a.x \in Nat /\ a.y \in Nat /\ a.w \in Nat /\ a.h \in Nat BY MeasuredInNat
<1>2. b.x \in Nat /\ b.y \in Nat /\ b.w \in Nat /\ b.h \in Nat BY MeasuredInNat
<1>3. a.x + a.w <= b.x + b.w /\ a.y + a.h <= b.y + b.h /\ b.x <= a.x /\ b.y <= a.y BY DEF Inside
<1>4. q[1] \in Nat /\ q[2] \in Nat /\ q[1] >= a.x /\ q[2] >= a.y /\ q[1] < a.x + a.w /\ q[2] < a.y + a.h BY DEF Within
<1>5. q[1] < b.x + b.w BY <1>1, <1>2, <1>3, <1>4, BeforeTheEnd
<1>6. q[2] < b.y + b.h BY <1>1, <1>2, <1>3, <1>4, BeforeTheEnd
<1>7. b.x <= q[1] /\ b.y <= q[2] BY <1>1, <1>2, <1>3, <1>4
<1> QED BY <1>5, <1>6, <1>7 DEF Within

\* What is not to come: neither on a later level nor, where it counts, here.
LEMMA WalkedIs ==
  ASSUME NEW c, NEW stack, NEW i, NEW q
  PROVE  /\ q \in Walked(c, stack, i, FALSE) <=> q \in ToCover(c) /\ \A k \in 1 .. i : ~Later(stack[k], q)
         /\ q \in Walked(c, stack, i, TRUE) <=> q \in Walked(c, stack, i, FALSE) /\ ~Within(q, CurrentPart(stack[i]))
BY DEF Walked, Due

\* The blocks of a unit lie in it, in the picture.
LEMMA UnitsCells ==
  ASSUME NEW c, ConfigOK(c), NEW a, Measured(a), AlignedArea(c, a), NEW q \in Cells(c, a)
  PROVE  /\ OnGrid(c, q) /\ Within(q, a) /\ q[1] \in Nat /\ q[2] \in Nat
         /\ ~Crosses(c, a) => InPicture(c, q[1], q[2])
<1>1. c.minCb \in MinSizes /\ c.width \in Nat /\ c.height \in Nat BY DEF ConfigOK
<1>2. InCells(c, a, q) BY <1>1, CellsAreWithin
<1>3. OnGrid(c, q) /\ Within(q, a) BY <1>2 DEF InCells
<1>4. q[1] \in Nat /\ q[2] \in Nat BY <1>3 DEF OnGrid
<1>5. ASSUME ~Crosses(c, a) PROVE InPicture(c, q[1], q[2])
  <2>1. a.x \in Nat /\ a.y \in Nat /\ a.w \in Nat /\ a.h \in Nat BY MeasuredInNat
  <2>2. a.x + a.w <= c.width + 0 /\ a.y + a.h <= c.height + 0 BY <1>1, <1>5, <2>1 DEF Crosses
  <2>3. q[1] < a.x + a.w /\ q[2] < a.y + a.h BY <1>3 DEF Within
  <2>4. 0 \in Nat OBVIOUS
  <2>5. q[1] < c.width + 0 BY <1>1, <1>4, <2>1, <2>2, <2>3, <2>4, BeforeTheEnd
  <2>6. q[2] < c.height + 0 BY <1>1, <1>4, <2>1, <2>2, <2>3, <2>4, BeforeTheEnd
  <2> QED BY <1>1, <2>5, <2>6 DEF InPicture
<1> QED BY <1>3, <1>4, <1>5

\* A unit is covered with its blocks.
LEMMA WalkedUnit ==
  ASSUME NEW c, ConfigOK(c), NEW ch, NEW stack, Settled(c, ch, stack), NEW i \in 1 .. Len(stack),
         ~Crosses(c, CurrentPart(stack[i]))
  PROVE  Walked(c, stack, i, FALSE) = Walked(c, stack, i, TRUE) \cup Cells(c, CurrentPart(stack[i]))
<1> DEFINE a == CurrentPart(stack[i])
<1>1. Measured(a) /\ AlignedArea(c, a) /\ Inside(a, CtuArea(c)) BY SettledParts
<1>2. ~Crosses(c, a) OBVIOUS
<1>3. c.minCb \in MinSizes /\ Measured(CtuArea(c)) BY DEF ConfigOK
<1>4. ASSUME NEW q, q[1] \in Nat, q[2] \in Nat, Within(q, a) PROVE \A k \in 1 .. i : ~Later(stack[k], q)
  <2>1. q[1] < a.x + a.w /\ q[2] < a.y + a.h BY <1>4 DEF Within
  <2> QED BY <1>4, <2>1, NotLater
<1> HIDE DEF a
<1>5. ASSUME NEW q \in Cells(c, a) PROVE q \in Walked(c, stack, i, FALSE)
  <2>1. OnGrid(c, q) /\ Within(q, a) /\ q[1] \in Nat /\ q[2] \in Nat /\ InPicture(c, q[1], q[2])
    BY <1>1, <1>2, UnitsCells
  <2>2. Within(q, CtuArea(c)) BY <1>1, <1>3, <2>1, WithinInside
  <2>3. q \in ToCover(c) BY <2>1, <2>2, CellsToCover
  <2> QED BY <1>4, <2>1, <2>3, WalkedIs
<1>6. ASSUME NEW q \in Walked(c, stack, i, FALSE), Within(q, a) PROVE q \in Cells(c, a)
  <2>1. q \in ToCover(c) BY <1>6, WalkedIs
  <2>2. OnGrid(c, q) BY <2>1, ToCoverFacts
  <2>3. InCells(c, a, q) BY <1>1, <1>3, CellsAreWithin
  <2> QED BY <1>6, <2>2, <2>3 DEF InCells
<1>7. ASSUME NEW q
      PROVE  q \in Walked(c, stack, i, FALSE) <=> q \in Walked(c, stack, i, TRUE) \/ q \in Cells(c, a)
  <2>1. q \in Walked(c, stack, i, TRUE) <=> q \in Walked(c, stack, i, FALSE) /\ ~Within(q, a) BY WalkedIs DEF a
  <2> QED BY <1>5, <1>6, <2>1
<1> QED BY <1>7 DEF a

\* What the walk has yet to come to is not covered.
LEMMA WalkedApart ==
  ASSUME NEW c, ConfigOK(c), NEW ch, NEW stack, Settled(c, ch, stack), NEW i \in 1 .. Len(stack)
  PROVE  Cells(c, CurrentPart(stack[i])) \cap Walked(c, stack, i, TRUE) = {}
<1> DEFINE a == CurrentPart(stack[i])
<1>1. Measured(a) /\ AlignedArea(c, a) BY SettledParts
<1>2. ASSUME NEW q \in Cells(c, a) PROVE q \notin Walked(c, stack, i, TRUE)
  <2>1. Within(q, a)
    <3> HIDE DEF a
    <3> QED BY <1>1, UnitsCells
  <2> QED BY <2>1, WalkedIs
<1> QED BY <1>2

\* A block outside the picture has nothing to cover.
LEMMA WalkedOutside ==
  ASSUME NEW c, ConfigOK(c), NEW ch, NEW stack, Settled(c, ch, stack), NEW i \in 1 .. Len(stack),
         ~InPicture(c, CurrentPart(stack[i]).x, CurrentPart(stack[i]).y)
  PROVE  Walked(c, stack, i, TRUE) = Walked(c, stack, i, FALSE)
<1> DEFINE a == CurrentPart(stack[i])
<1>1. Measured(a) BY SettledParts
<1>2. ~InPicture(c, a.x, a.y) OBVIOUS
<1> HIDE DEF a
<1>3. a.x \in Nat /\ a.y \in Nat /\ c.width \in Nat /\ c.height \in Nat BY <1>1 DEF Measured, ConfigOK
<1>4. ASSUME NEW q \in Walked(c, stack, i, FALSE) PROVE ~Within(q, a)
  <2>1. q \in ToCover(c) BY <1>4, WalkedIs
  <2>2. q[1] \in Nat /\ q[2] \in Nat /\ InPicture(c, q[1], q[2]) BY <2>1, ToCoverFacts
  <2> DEFINE s == q[1]
             t == q[2]
  <2>3. s \in Nat /\ t \in Nat /\ s < c.width /\ t < c.height BY <2>2 DEF InPicture
  <2>4. a.x >= c.width \/ a.y >= c.height BY <1>2, <1>3 DEF InPicture
  <2> HIDE DEF s, t
  <2>5. ~(a.x <= s /\ a.y <= t) BY <1>3, <2>3, <2>4
  <2> QED BY <2>5 DEF Within, s, t
<1>5. ASSUME NEW q PROVE q \in Walked(c, stack, i, TRUE) <=> q \in Walked(c, stack, i, FALSE)
  <2>1. q \in Walked(c, stack, i, TRUE) <=> q \in Walked(c, stack, i, FALSE) /\ ~Within(q, a) BY WalkedIs DEF a
  <2> QED BY <1>4, <2>1
<1> QED BY <1>5

\* The last multiple below a multiple.
LEMMA LineBefore ==
  ASSUME NEW m \in MinSizes, NEW x \in Nat, x % m = 0, NEW z \in Nat, z % m = 0, z < x,
         NEW t, t = (x - 1) - ((x - 1) % m)
  PROVE  t \in Nat /\ t % m = 0 /\ z <= t /\ t < x
<1>1. CASE m = 4 BY <1>1
<1>2. CASE m = 8 BY <1>2
<1>3. CASE m = 16 BY <1>3
<1>4. CASE m = 32 BY <1>4
<1>5. CASE m = 64 BY <1>5
<1> QED BY <1>1, <1>2, <1>3, <1>4, <1>5 DEF MinSizes

\* The multiple at or below the middle of a block.
LEMMA LineOfMiddle ==
  ASSUME NEW m \in MinSizes, NEW x \in Nat, x % m = 0, NEW s \in Sizes,
         NEW t, t = (x + 2 * (s \div 4)) - ((x + 2 * (s \div 4)) % m)
  PROVE  t \in Nat /\ t % m = 0 /\ x <= t /\ t < x + s
<1> DEFINE y == x + 2 * (s \div 4)
<1>1. s \in Nat /\ y \in Nat /\ x <= y /\ y < x + s BY DEF Sizes
<1>2. t = y - (y % m) OBVIOUS
<1> HIDE DEF y
<1>3. CASE m = 4 BY <1>1, <1>2, <1>3
<1>4. CASE m = 8 BY <1>1, <1>2, <1>4
<1>5. CASE m = 16 BY <1>1, <1>2, <1>5
<1>6. CASE m = 32 BY <1>1, <1>2, <1>6
<1>7. CASE m = 64 BY <1>1, <1>2, <1>7
<1> QED BY <1>3, <1>4, <1>5, <1>6, <1>7 DEF MinSizes

\* The unit of luma that gives a unit of chroma its QP is one of those of the block.
LEMMA RefIsInBlock ==
  ASSUME NEW c, ConfigOK(c), NEW a, Measured(a), AlignedArea(c, a)
  PROVE  LumaRef(c, a) \in Cells(c, a)
<1> DEFINE m == c.minCb
           x == a.x + 2 * (a.w \div 4)
           y == a.y + 2 * (a.h \div 4)
           q == LumaRef(c, a)
           s == x - (x % m)
           t == y - (y % m)
<1>1. m \in MinSizes /\ a.x % m = 0 /\ a.y % m = 0 BY DEF ConfigOK, AlignedArea
<1>2. a.x \in Nat /\ a.y \in Nat /\ a.w \in Sizes /\ a.h \in Sizes BY DEF Measured
<1>3. q = <<s, t>> BY DEF LumaRef, Cell
<1> HIDE DEF q, m
<1>4. s \in Nat /\ s % m = 0 /\ a.x <= s /\ s < a.x + a.w BY <1>1, <1>2, LineOfMiddle
<1>5. t \in Nat /\ t % m = 0 /\ a.y <= t /\ t < a.y + a.h BY <1>1, <1>2, LineOfMiddle
<1> HIDE DEF s, t
<1>6. OnGrid(c, q) /\ Within(q, a) BY <1>3, <1>4, <1>5 DEF OnGrid, Within, m
<1>7. InCells(c, a, q) BY <1>1, CellsAreWithin DEF m
<1> QED BY <1>6, <1>7 DEF InCells, q

\* The block to the left of a unit, in the same coding tree unit, is not to come.
LEMMA LeftIsWalked ==
  ASSUME NEW c, ConfigOK(c), NEW ch, NEW stack, Settled(c, ch, stack), NEW i \in 1 .. Len(stack),
         NEW a, a = CurrentPart(stack[i]), InPicture(c, a.x, a.y), a.x > c.ctuX
  PROVE  Cell(c, a.x - 1, a.y) \in Walked(c, stack, i, TRUE)
<1> DEFINE m == c.minCb
           u == CtuArea(c)
           s == (a.x - 1) - ((a.x - 1) % m)
           q == Cell(c, a.x - 1, a.y)
<1>1. Measured(a) /\ AlignedArea(c, a) /\ Inside(a, u) BY SettledParts
<1>2. /\ a.x \in Nat /\ a.y \in Nat /\ a.w \in Nat /\ a.h \in Nat /\ a.w > 0 /\ a.h > 0
      /\ a.x % m = 0 /\ a.y % m = 0
  BY <1>1 DEF Measured, Sizes, AlignedArea
<1>3. m \in MinSizes /\ m \in Nat \ {0} /\ Measured(u) /\ AlignedArea(c, u) BY DEF ConfigOK, MinSizes
<1>4. u.x = c.ctuX /\ u.x \in Nat /\ u.x % m = 0 /\ u.w \in Nat
  <2>1. u.x = c.ctuX BY DEF CtuArea
  <2> QED BY <1>3, <2>1 DEF Measured, AlignedArea, Sizes
<1>5. /\ u.y \in Nat /\ u.h \in Nat /\ u.y <= a.y /\ a.x + a.w <= u.x + u.w /\ a.y + a.h <= u.y + u.h
  BY <1>1, <1>3 DEF Measured, Sizes, Inside
<1>6. a.x > u.x /\ c.width \in Nat /\ c.height \in Nat BY <1>4 DEF ConfigOK
<1> HIDE DEF u
<1>7. a.y - (a.y % m) = a.y BY <1>2
<1>8. q = <<s, a.y>> BY <1>7 DEF Cell, m
<1> HIDE DEF m, q
<1>18. s = (a.x - 1) - ((a.x - 1) % m) OBVIOUS
<1> HIDE DEF s
<1>9. s \in Nat /\ s % m = 0 /\ u.x <= s /\ s < a.x
  <2> DEFINE x == a.x
             z == u.x
  <2>1. m \in MinSizes /\ x \in Nat /\ x % m = 0 /\ z \in Nat /\ z % m = 0 /\ z < x /\ s = (x - 1) - ((x - 1) % m)
    BY <1>2, <1>3, <1>4, <1>6, <1>18
  <2> HIDE DEF x, z
  <2>2. s \in Nat /\ s % m = 0 /\ z <= s /\ s < x BY <2>1, LineBefore
  <2> QED BY <2>2 DEF x, z
<1>10. q[1] = s /\ q[2] = a.y BY <1>8
<1>11. OnGrid(c, q) BY <1>2, <1>8, <1>9, <1>10 DEF OnGrid, m
<1>12. s < a.x + a.w /\ a.y < a.y + a.h BY <1>2, <1>9
<1>13. Within(q, u)
  <2>1. s < u.x + u.w BY <1>2, <1>4, <1>5, <1>9, <1>12, BeforeTheEnd
  <2>2. a.y < u.y + u.h BY <1>2, <1>5, <1>12, BeforeTheEnd
  <2> QED BY <1>5, <1>9, <1>10, <2>1, <2>2 DEF Within
<1>14. InPicture(c, q[1], q[2])
  <2>1. a.x < c.width /\ a.y < c.height BY DEF InPicture
  <2>2. s < c.width BY <1>2, <1>6, <1>9, <2>1
  <2> QED BY <1>10, <2>1, <2>2 DEF InPicture
<1>15. q \in ToCover(c) BY <1>11, <1>13, <1>14, CellsToCover DEF u
<1>16. \A k \in 1 .. i : ~Later(stack[k], q)
  <2>1. q[1] \in Nat /\ q[2] \in Nat /\ q[1] < a.x + a.w /\ q[2] < a.y + a.h BY <1>2, <1>9, <1>10, <1>12
  <2> QED BY <2>1, NotLater
<1>17. ~Within(q, a)
  <2>1. ~(a.x <= s) BY <1>2, <1>9
  <2> QED BY <1>10, <2>1 DEF Within
<1>19. q \in Walked(c, stack, i, TRUE) BY <1>15, <1>16, <1>17, WalkedIs
<1> QED BY <1>19 DEF q

\* Nor is the block above.
LEMMA AboveIsWalked ==
  ASSUME NEW c, ConfigOK(c), NEW ch, NEW stack, Settled(c, ch, stack), NEW i \in 1 .. Len(stack),
         NEW a, a = CurrentPart(stack[i]), InPicture(c, a.x, a.y), a.y > c.ctuY
  PROVE  Cell(c, a.x, a.y - 1) \in Walked(c, stack, i, TRUE)
<1> DEFINE m == c.minCb
           u == CtuArea(c)
           s == (a.y - 1) - ((a.y - 1) % m)
           q == Cell(c, a.x, a.y - 1)
<1>1. Measured(a) /\ AlignedArea(c, a) /\ Inside(a, u) BY SettledParts
<1>2. /\ a.x \in Nat /\ a.y \in Nat /\ a.w \in Nat /\ a.h \in Nat /\ a.w > 0 /\ a.h > 0
      /\ a.x % m = 0 /\ a.y % m = 0
  BY <1>1 DEF Measured, Sizes, AlignedArea
<1>3. m \in MinSizes /\ m \in Nat \ {0} /\ Measured(u) /\ AlignedArea(c, u) BY DEF ConfigOK, MinSizes
<1>4. u.y = c.ctuY /\ u.y \in Nat /\ u.y % m = 0 /\ u.h \in Nat
  <2>1. u.y = c.ctuY BY DEF CtuArea
  <2> QED BY <1>3, <2>1 DEF Measured, AlignedArea, Sizes
<1>5. /\ u.x \in Nat /\ u.w \in Nat /\ u.x <= a.x /\ a.x + a.w <= u.x + u.w /\ a.y + a.h <= u.y + u.h
  <2>1. u.x \in Nat /\ u.w \in Nat
    <3> HIDE DEF u
    <3> QED BY <1>3, MeasuredInNat
  <2> QED BY <1>1, <2>1 DEF Inside
<1>6. a.y > u.y /\ c.width \in Nat /\ c.height \in Nat BY <1>4 DEF ConfigOK
<1> HIDE DEF u
<1>7. a.x - (a.x % m) = a.x BY <1>2
<1>8. q = <<a.x, s>> BY <1>7 DEF Cell, m
<1> HIDE DEF m, q
<1>18. s = (a.y - 1) - ((a.y - 1) % m) OBVIOUS
<1> HIDE DEF s
<1>9. s \in Nat /\ s % m = 0 /\ u.y <= s /\ s < a.y
  <2> DEFINE x == a.y
             z == u.y
  <2>1. m \in MinSizes /\ x \in Nat /\ x % m = 0 /\ z \in Nat /\ z % m = 0 /\ z < x /\ s = (x - 1) - ((x - 1) % m)
    BY <1>2, <1>3, <1>4, <1>6, <1>18
  <2> HIDE DEF x, z
  <2>2. s \in Nat /\ s % m = 0 /\ z <= s /\ s < x BY <2>1, LineBefore
  <2> QED BY <2>2 DEF x, z
<1>10. q[1] = a.x /\ q[2] = s BY <1>8
<1>11. OnGrid(c, q) BY <1>2, <1>8, <1>9, <1>10 DEF OnGrid, m
<1>12. a.x < a.x + a.w /\ s < a.y + a.h BY <1>2, <1>9
<1>13. Within(q, u)
  <2>1. a.x < u.x + u.w BY <1>2, <1>5, <1>12, BeforeTheEnd
  <2>2. s < u.y + u.h BY <1>2, <1>4, <1>5, <1>9, <1>12, BeforeTheEnd
  <2> QED BY <1>5, <1>9, <1>10, <2>1, <2>2 DEF Within
<1>14. InPicture(c, q[1], q[2])
  <2>1. a.x < c.width /\ a.y < c.height BY DEF InPicture
  <2>2. s < c.height BY <1>2, <1>6, <1>9, <2>1
  <2> QED BY <1>10, <2>1, <2>2 DEF InPicture
<1>15. q \in ToCover(c) BY <1>11, <1>13, <1>14, CellsToCover DEF u
<1>16. \A k \in 1 .. i : ~Later(stack[k], q)
  <2>1. q[1] \in Nat /\ q[2] \in Nat /\ q[1] < a.x + a.w /\ q[2] < a.y + a.h BY <1>2, <1>9, <1>10, <1>12
  <2> QED BY <2>1, NotLater
<1>17. ~Within(q, a)
  <2>1. ~(a.y <= s) BY <1>2, <1>9
  <2> QED BY <1>10, <2>1 DEF Within
<1>19. q \in Walked(c, stack, i, TRUE) BY <1>15, <1>16, <1>17, WalkedIs
<1> QED BY <1>19 DEF q

-----------------------------------------------------------------------------
(* What the invariant says of the block coding_tree is called for.          *)

\* But for what getImplicitSplit remembers, the same stacks.
Alike(s, t) == Len(s) = Len(t) /\ \A k \in 1 .. Len(s) : s[k].idx = t[k].idx /\ s[k].parts = t[k].parts

\* getImplicitSplit remembers its answer.
LEMMA CheckedAlike ==
  ASSUME NEW c, NEW p, PartOK(p)
  PROVE  Alike(Checked(c, p).stack, p.stack)
<1> DEFINE top == Top(p)
           d == [top EXCEPT !.implicit = ImplicitSplit(c, p)]
           f == Front(p.stack)
           n == Len(f)
<1>1. CASE top.implicit # "UNCHECKED"
  <2>1. Checked(c, p) = p BY <1>1 DEF Checked, Top
  <2> QED BY <2>1 DEF Alike
<1>2. CASE top.implicit = "UNCHECKED"
  <2>1. Checked(c, p) = WithTop(p, d) BY <1>2 DEF Checked, Top
  <2>2. p.stack = Append(f, top) /\ IsSeq(f) /\ LevelOK(top) BY StackParts
  <2>3. d.idx = top.idx /\ d.parts = top.parts
    <3> HIDE DEF top
    <3> QED BY <2>2 DEF LevelOK, IsRecord, LevelFields
  <2>4. WithTop(p, d).stack = Append(f, d)
    <3> HIDE DEF d
    <3> QED BY WithTopFields
  <2> HIDE DEF d, f, top, n
  <2>5. /\ n \in Nat /\ Len(Append(f, d)) = n + 1 /\ Len(Append(f, top)) = n + 1
        /\ \A k \in 1 .. n : Append(f, d)[k] = f[k] /\ Append(f, top)[k] = f[k]
        /\ Append(f, d)[n + 1] = d /\ Append(f, top)[n + 1] = top
    BY <2>2, AppendIsSeq DEF n
  <2>6. \A k \in 1 .. n + 1 : k \in 1 .. n \/ k = n + 1 BY <2>5
  <2>7. Alike(Append(f, d), Append(f, top)) BY <2>3, <2>5, <2>6 DEF Alike
  <2> QED BY <2>1, <2>2, <2>4, <2>7
<1> QED BY <1>1, <1>2

\* All levels of both partitioners are in their places.
LEMMA AllSettled ==
  ASSUME IInv, ShapeInv, PlacesInv, NEW ch \in Channels
  PROVE  /\ ConfigOK(cfg) /\ PartOK(parts[ch]) /\ Settled(cfg, ch, parts[ch].stack)
         /\ Len(parts[ch].stack) \in Nat /\ Len(parts[ch].stack) > 0
         /\ Area(parts[ch]) = CurrentPart(parts[ch].stack[Len(parts[ch].stack)])
<1> DEFINE p == parts[ch]
<1>1. ConfigOK(cfg) BY ConfigAssumption, ConfigFacts DEF IInv
<1>2. PartOK(p) BY DEF IInv, PartsOK
<1>3. Shaped(cfg, ch, p.stack, WaitingFor(ch), p.modeType) BY DEF ShapeInv
<1>4. Placed(cfg, ch, p.stack) BY DEF PlacesInv
<1>5. Area(p) = CurrentPart(p.stack[Len(p.stack)]) BY DEF Area, Last
<1> HIDE DEF p
<1>6. Settled(cfg, ch, p.stack) BY <1>2, <1>3, <1>4, ShapedSettles
<1>7. Len(p.stack) \in Nat /\ Len(p.stack) > 0 BY <1>2, StackParts
<1> QED BY <1>1, <1>2, <1>5, <1>6, <1>7 DEF p

\* The block coding_tree is called for is the last on the stack.
LEMMA HereSettled ==
  ASSUME IInv, ShapeInv, PlacesInv, pc = "tree"
  PROVE  /\ ConfigOK(cfg) /\ Settled(cfg, cur, parts[cur].stack) /\ Settled(cfg, cur, part.stack)
         /\ Len(parts[cur].stack) \in Nat /\ Len(parts[cur].stack) > 0
         /\ area = CurrentPart(parts[cur].stack[Len(parts[cur].stack)])
         /\ InPicture(cfg, area.x, area.y) /\ Alike(part.stack, parts[cur].stack)
         /\ Measured(area) /\ AlignedArea(cfg, area)
<1> DEFINE p == parts[cur]
           n == Len(p.stack)
<1>1. /\ cur \in Channels /\ PartOK(part) /\ InPicture(cfg, area.x, area.y)
      /\ Shaped(cfg, cur, part.stack, calls, part.modeType)
  BY Here
<1>2. ConfigOK(cfg) /\ PartOK(p) /\ Settled(cfg, cur, p.stack) /\ n \in Nat /\ n > 0 BY <1>1, AllSettled
<1>3. Alike(part.stack, p.stack)
  <2>1. part = Checked(cfg, p) BY DEF part
  <2> HIDE DEF part, p
  <2> QED BY <1>2, <2>1, CheckedAlike
<1>4. area = CurrentPart(part.stack[Len(part.stack)]) BY DEF area, Area, Last
<1>5. Placed(cfg, cur, part.stack) BY HerePlaced
<1> HIDE DEF p, part, area
<1>6. Settled(cfg, cur, part.stack) BY <1>1, <1>5, ShapedSettles
<1>7. n \in 1 .. Len(p.stack) BY <1>2 DEF n
<1>8. area = CurrentPart(p.stack[n])
  <2>1. Len(part.stack) = n /\ n \in 1 .. Len(part.stack) BY <1>3, <1>7 DEF Alike, n
  <2>2. part.stack[n].idx = p.stack[n].idx /\ part.stack[n].parts = p.stack[n].parts BY <1>3, <2>1 DEF Alike
  <2> QED BY <1>4, <2>1, <2>2 DEF CurrentPart
<1>9. Measured(area) /\ AlignedArea(cfg, area) BY <1>2, <1>7, <1>8, SettledParts
<1> QED BY <1>1, <1>2, <1>3, <1>6, <1>8, <1>9 DEF n, p

\* Chroma behind the luma of a block: the last call remembers that block.
LEMMA ChromaOfBlock ==
  ASSUME IInv, ShapeInv, InItsChroma(calls)
  PROVE  /\ Len(calls) = Len(parts[cur].stack) /\ Len(calls) \in LumaOnly(calls) /\ ~cfg.dual
         /\ cur = "LUMA" /\ Len(calls) \in 1 .. Len(parts[cur].stack)
<1> DEFINE n == Len(calls)
<1>1. calls # <<>> /\ Last(calls).kind = "chroma" BY DEF InItsChroma
<1>2. n \in Nat /\ n > 0 /\ DOMAIN calls = 1 .. n
  <2>1. IsSeq(calls) BY DEF IInv, CallsOK
  <2>2. n = Len(Front(calls)) + 1 /\ Len(Front(calls)) \in Nat BY <1>1, LastCall
  <2> QED BY <2>1, <2>2, AppendIsSeq
<1>3. Len(parts[cur].stack) = 1 + n - 1 BY DEF IInv, LengthInv
<1>4. TreeOK(parts[cur], calls) /\ Led(cfg, calls, parts[cur].modeType) BY DEF ShapeInv
<1>5. parts[cur].modeType = "INTRA" /\ calls[n].modeTypeParent = "ALL" /\ calls[n].kind = "chroma"
  BY <1>1, <1>4 DEF TreeOK, Last
<1>6. n \in DOMAIN calls BY <1>2
<1>7. Leads(cfg, calls[n], "INTRA")
  <2>1. Leads(cfg, calls[n], ModeAt(calls, parts[cur].modeType, n + 1)) BY <1>4, <1>6 DEF Led
  <2>2. ~(n + 1 <= n) BY <1>2
  <2>3. ModeAt(calls, parts[cur].modeType, n + 1) = "INTRA" BY <1>5, <2>2 DEF ModeAt
  <2> QED BY <2>1, <2>3
<1>8. calls[n].chromaNotSplit BY <1>5, <1>7 DEF Leads
<1>9. n \in LumaOnly(calls) BY <1>5, <1>6, <1>8 DEF LumaOnly
<1>10. ~cfg.dual BY <1>4, <1>5 DEF Led, ModesOf
<1>11. cur = "LUMA" BY <1>10 DEF IInv, ShapeInv, Channels
<1> QED BY <1>2, <1>3, <1>9, <1>10, <1>11

\* Only a block inside the picture is coded as one unit.
LEMMA UnitsAreInside ==
  ASSUME IInv, ShapeInv, WalkInv, pc = "tree", "NO" \in permitted
  PROVE  ~Crosses(cfg, area) /\ ~WithChroma
<1>1. /\ ValidConfig(cfg) /\ cur \in Channels /\ PartOK(part) /\ SameKinds(part, parts[cur])
      /\ LevelOK(Top(part)) /\ LevelShape(cfg, cur, Top(part), IF InItsChroma(calls) THEN "ALL" ELSE part.modeType)
      /\ TreeOK(part, calls) /\ (cfg.dual => ~InItsChroma(calls))
  BY Here
<1>2. PlacesInv /\ LumaOnlyInv BY DEF WalkInv
<1>3. area = CurrentPart(parts[cur].stack[Len(parts[cur].stack)]) BY <1>2, HereSettled
<1>4. area = CurrentPart(Top(part)) BY DEF area, Area, Top
<1>5. permitted = CanSplit(cfg, part) BY DEF permitted
<1>6. Placed(cfg, cur, part.stack) BY <1>2, HerePlaced
<1> HIDE DEF part, area
<1>7. CASE part.treeType = "TREE_C"
  <2>1. InItsChroma(calls) BY <1>1, <1>7 DEF TreeOK
  <2>2. Len(calls) = Len(parts[cur].stack) /\ Len(calls) \in LumaOnly(calls) /\ ~cfg.dual BY <2>1, ChromaOfBlock
  <2>3. ~Crosses(cfg, CurrentPart(parts[cur].stack[Len(calls)])) BY <1>2, <2>2 DEF LumaOnlyInv
  <2> QED BY <1>3, <2>2, <2>3 DEF WithChroma, IsJoint
<1>8. CASE part.treeType # "TREE_C"
  <2>1. Top(part).implicit = "NO"
    <3> SUFFICES ASSUME Top(part).implicit # "NO" PROVE FALSE OBVIOUS
    <3>1. "NO" \in ForcedSplits(cfg, part) BY <1>5, <1>8 DEF CanSplit, Top
    <3> QED BY <3>1 DEF ForcedSplits, BtSplits
  <2>2. ~Crosses(cfg, area) BY <1>1, <1>4, <2>1 DEF LevelShape
  <2>3. ~WithChroma
    <3> SUFFICES ASSUME WithChroma PROVE FALSE OBVIOUS
    <3>1. cfg.dual /\ cfg.ctu > 64 /\ calls = <<>> BY DEF WithChroma, IsJoint
    <3>2. LevelPlaced(cfg, cur, Top(part)) BY <1>1, <1>6, PlacedParts
    <3>3. area.w <= 64 BY <1>4, <2>1, <3>1, <3>2 DEF LevelPlaced
    <3>4. JointStart(cur) BY <1>1, StartsJointly
    <3>5. area.w = cfg.ctu
      <4>1. Area(parts[cur]) = CtuArea(cfg) BY <3>4 DEF JointStart
      <4>2. area = CtuArea(cfg) BY <1>3, <4>1 DEF Area, Last
      <4> QED BY <4>2 DEF CtuArea
    <3>6. cfg.ctu \in {32, 64, 128} BY <1>1, UnitFacts
    <3> QED BY <3>1, <3>3, <3>5, <3>6
  <2> QED BY <2>2, <2>3
<1> QED BY <1>7, <1>8

\* What is covered of the channels a block is called for.
LEMMA HereCovered ==
  ASSUME IInv, ShapeInv, WalkInv, pc = "tree", NEW ch \in ChannelsOf(cfg, part)
  PROVE  coded[ch] = Walked(cfg, parts[cur].stack, Len(parts[cur].stack), TRUE)
<1> DEFINE stack == parts[cur].stack
<1>1. /\ cur \in Channels /\ TreeOK(part, calls) /\ part.modeType \in ModesOf(cfg)
      /\ (cfg.dual => ~InItsChroma(calls)) /\ SameKinds(part, parts[cur])
      /\ part.chType = IF cur = "LUMA" /\ InItsChroma(calls) THEN "CHROMA" ELSE cur
  BY Here
<1>2. CoverInv /\ LumaOnlyInv BY DEF WalkInv
<1>3. ch \in ChannelsOf(cfg, part) OBVIOUS
<1> HIDE DEF part, stack
<1>4. CASE cfg.dual
  <2>1. ch = cur BY <1>1, <1>3, <1>4 DEF ChannelsOf, IsSepTree
  <2>2. coded[cur] = Walked(cfg, parts[cur].stack, Len(parts[cur].stack), IF cur = cur THEN TRUE ELSE WaitsHere(cur))
    BY <1>1, <1>2, <1>4 DEF CoverInv
  <2> QED BY <2>1, <2>2
<1>5. CASE ~cfg.dual
  <2>1. cur = "LUMA" BY <1>1, <1>5 DEF ShapeInv, Channels
  <2>2. /\ coded["LUMA"] = Walked(cfg, stack, Len(stack), ~InItsChroma(calls))
        /\ LumaOnly(calls) = {} => coded["CHROMA"] = Walked(cfg, stack, Len(stack), TRUE)
        /\ \A i \in LumaOnly(calls) : coded["CHROMA"] = Walked(cfg, stack, i, TRUE)
    BY <1>2, <1>5 DEF CoverInv, stack
  <2>3. LumaOnly(calls) = {} <=> part.modeType # "INTRA" BY <1>1, <1>2, <1>5 DEF LumaOnlyInv, SameKinds
  <2>4. CASE InItsChroma(calls)
    <3>1. part.treeType = "TREE_C" BY <1>1, <2>4 DEF TreeOK
    <3>2. ch = "CHROMA" BY <1>1, <1>3, <2>1, <2>4, <3>1 DEF ChannelsOf, IsSepTree
    <3>3. Len(calls) = Len(stack) /\ Len(calls) \in LumaOnly(calls) BY <2>4, ChromaOfBlock DEF stack
    <3> QED BY <2>2, <3>2, <3>3 DEF stack
  <2>5. CASE ~InItsChroma(calls) /\ part.modeType = "INTRA"
    <3>1. part.treeType = "TREE_L" BY <1>1, <2>5 DEF TreeOK
    <3>2. ch = "LUMA" BY <1>1, <1>3, <2>1, <2>5, <3>1 DEF ChannelsOf, IsSepTree
    <3> QED BY <2>2, <2>5, <3>2 DEF stack
  <2>6. CASE ~InItsChroma(calls) /\ part.modeType # "INTRA"
    <3>1. ch \in Channels BY <1>1, <1>3, <2>1, <2>6 DEF ChannelsOf, IsSepTree, Channels
    <3>2. ch = "LUMA" \/ ch = "CHROMA" BY <3>1 DEF Channels
    <3> QED BY <2>2, <2>3, <2>6, <3>2 DEF stack
  <2> QED BY <2>4, <2>5, <2>6
<1> QED BY <1>4, <1>5

\* With the unit alone on the stack nothing is to come behind it.
LEMMA WalkedAll ==
  ASSUME NEW c, ConfigOK(c), NEW ch, NEW stack, Settled(c, ch, stack), Len(stack) = 1
  PROVE  Walked(c, stack, 1, FALSE) = ToCover(c)
<1> DEFINE e == stack[1]
<1>1. 1 \in 1 .. Len(stack) OBVIOUS
<1>2. e.parts = <<CtuArea(c)>> /\ e.idx \in Nat BY <1>1 DEF Settled
<1>3. Len(e.parts) = 1 BY <1>2
<1>4. e.idx + 2 .. Len(e.parts) = {} BY <1>2, <1>3
<1>5. \A q : ~Later(e, q) BY <1>4 DEF Later
<1>6. \A k \in 1 .. 1 : k = 1 OBVIOUS
<1>7. \A q : ~Due(stack, 1, FALSE, q) BY <1>5, <1>6 DEF Due
<1> QED BY <1>7 DEF Walked

\* What the invariant says of the end.
LEMMA AllCovered ==
  ASSUME IInv, ShapeInv, WalkInv, pc = "done", NEW ch \in Channels
  PROVE  coded[ch] = ToCover(cfg)
<1>1. PlacesInv /\ TurnsInv /\ CoverInv BY DEF WalkInv
<1>2. calls = <<>> /\ ~Alternates(calls) /\ ~InItsChroma(calls) /\ cur \in Channels
  BY DEF IInv, LengthInv, Alternates, InItsChroma
<1>3. ASSUME NEW i \in Channels PROVE Len(parts[i].stack) = 1 /\ Walked(cfg, parts[i].stack, 1, FALSE) = ToCover(cfg)
  <2>1. Len(calls) = 0 BY <1>2
  <2>2. Len(parts[i].stack) = 1
    <3>1. CASE i = cur
      <4>1. Len(parts[cur].stack) = 1 + 0 - 0 BY <1>2, <2>1 DEF IInv, LengthInv
      <4> QED BY <3>1, <4>1
    <3>2. CASE i # cur BY <1>2, <3>2 DEF IInv, LengthInv
    <3> QED BY <3>1, <3>2
  <2>3. ConfigOK(cfg) /\ Settled(cfg, i, parts[i].stack) BY <1>1, AllSettled
  <2> QED BY <2>2, <2>3, WalkedAll
<1>4. CASE cfg.dual
  <2>1. cur = "CHROMA" BY <1>1, <1>4 DEF TurnsInv
  <2>2. \A i \in Channels : ~(IF i = cur THEN pc = "tree" ELSE WaitsHere(i)) BY <1>2, <2>1 DEF Channels, WaitsHere
  <2>3. \A i \in Channels : coded[i] = Walked(cfg, parts[i].stack, Len(parts[i].stack),
                                             IF i = cur THEN pc = "tree" ELSE WaitsHere(i))
    BY <1>1, <1>4 DEF CoverInv
  <2>4. coded[ch] = Walked(cfg, parts[ch].stack, Len(parts[ch].stack),
                           IF ch = cur THEN pc = "tree" ELSE WaitsHere(ch))
    BY <2>3
  <2>5. CASE ch = cur
    <3>1. coded[ch] = Walked(cfg, parts[ch].stack, Len(parts[ch].stack), pc = "tree") BY <2>4, <2>5
    <3>2. (pc = "tree") = FALSE OBVIOUS
    <3> QED BY <1>3, <3>1, <3>2
  <2>6. CASE ch # cur
    <3>1. coded[ch] = Walked(cfg, parts[ch].stack, Len(parts[ch].stack), WaitsHere(ch)) BY <2>4, <2>6
    <3>2. WaitsHere(ch) = FALSE
      <4>1. ch = "LUMA" BY <2>1, <2>6 DEF Channels
      <4> QED BY <1>2, <4>1 DEF WaitsHere
    <3> QED BY <1>3, <3>1, <3>2
  <2> QED BY <2>5, <2>6
<1>5. CASE ~cfg.dual
  <2>1. LumaOnly(calls) = {} BY <1>2 DEF LumaOnly
  <2>2. /\ coded["LUMA"] = Walked(cfg, parts[cur].stack, Len(parts[cur].stack), pc = "tree" /\ ~InItsChroma(calls))
        /\ coded["CHROMA"] = Walked(cfg, parts[cur].stack, Len(parts[cur].stack), pc = "tree")
    BY <1>1, <1>5, <2>1 DEF CoverInv
  <2>3. (pc = "tree") = FALSE /\ (pc = "tree" /\ ~InItsChroma(calls)) = FALSE OBVIOUS
  <2>4. Len(parts[cur].stack) = 1 /\ Walked(cfg, parts[cur].stack, 1, FALSE) = ToCover(cfg) BY <1>2, <1>3
  <2> QED BY <2>2, <2>3, <2>4 DEF Channels
<1> QED BY <1>4, <1>5

\* The invariant implies that the walk covers each sample once.
LEMMA CoversOnce ==
  ASSUME IInv, ShapeInv, WalkInv
  PROVE  EachSampleOnce
<1>1. PlacesInv BY DEF WalkInv
<1>2. ASSUME pc = "tree", NEW ch \in ChannelsOf(cfg, part) PROVE Cells(cfg, area) \cap coded[ch] = {}
  <2> DEFINE stack == parts[cur].stack
  <2>1. /\ ConfigOK(cfg) /\ Settled(cfg, cur, stack) /\ Len(stack) \in Nat /\ Len(stack) > 0
        /\ area = CurrentPart(stack[Len(stack)])
    BY <1>1, <1>2, HereSettled
  <2>2. coded[ch] = Walked(cfg, stack, Len(stack), TRUE) BY <1>2, HereCovered
  <2>3. Len(stack) \in 1 .. Len(stack) BY <2>1
  <2> HIDE DEF stack, area
  <2> QED BY <2>1, <2>2, <2>3, WalkedApart
<1>3. ASSUME pc = "done", NEW ch \in Channels
      PROVE  coded[ch] = {cell \in Cells(cfg, [x |-> cfg.ctuX, y |-> cfg.ctuY, w |-> cfg.ctu, h |-> cfg.ctu]) :
                            InPicture(cfg, cell[1], cell[2])}
  BY <1>3, AllCovered DEF ToCover, CtuArea
<1> QED BY <1>2, <1>3 DEF EachSampleOnce

\* The invariant implies that the neighbours in the unit were coded.
LEMMA CoversNeighbours ==
  ASSUME IInv, ShapeInv, WalkInv
  PROVE  NeighboursAreCoded
<1> SUFFICES ASSUME pc = "tree", NEW ch \in ChannelsOf(cfg, part)
             PROVE  /\ area.x > cfg.ctuX => Cell(cfg, area.x - 1, area.y) \in coded[ch]
                    /\ area.y > cfg.ctuY => Cell(cfg, area.x, area.y - 1) \in coded[ch]
  BY DEF NeighboursAreCoded
<1> DEFINE stack == parts[cur].stack
<1>1. PlacesInv BY DEF WalkInv
<1>2. /\ ConfigOK(cfg) /\ Settled(cfg, cur, stack) /\ Len(stack) \in Nat /\ Len(stack) > 0
      /\ area = CurrentPart(stack[Len(stack)]) /\ InPicture(cfg, area.x, area.y)
  BY <1>1, HereSettled
<1>3. coded[ch] = Walked(cfg, stack, Len(stack), TRUE) BY HereCovered
<1>4. Len(stack) \in 1 .. Len(stack) BY <1>2
<1> HIDE DEF stack, area
<1>5. area.x > cfg.ctuX => Cell(cfg, area.x - 1, area.y) \in coded[ch] BY <1>2, <1>3, <1>4, LeftIsWalked
<1>6. area.y > cfg.ctuY => Cell(cfg, area.x, area.y - 1) \in coded[ch] BY <1>2, <1>3, <1>4, AboveIsWalked
<1> QED BY <1>5, <1>6

-----------------------------------------------------------------------------
(* The blocks whose chroma is not split along.                              *)

\* The next call behind those that wait.
LumaOnlyOf(s, e) ==
  /\ LumaOnly(s) \subseteq 1 .. Len(s) /\ Len(s) \in Nat
  /\ LumaOnly(Append(s, e)) = LumaOnly(s) \cup {i \in {Len(s) + 1} : e.kind # "joint" /\ e.chromaNotSplit}

\* The calls before it keep their places.
LEMMA LumaOnlyAppend ==
  ASSUME NEW s, IsSeq(s), NEW e
  PROVE  LumaOnlyOf(s, e)
<1> DEFINE n == Len(s)
           t == Append(s, e)
<1>1. /\ n \in Nat /\ DOMAIN s = 1 .. n /\ DOMAIN t = 1 .. n + 1
      /\ \A i \in 1 .. n : t[i] = s[i]
      /\ t[n + 1] = e
  BY AppendIsSeq
<1> HIDE DEF n, t
<1>2. (\A i \in 1 .. n + 1 : i \in 1 .. n \/ i = n + 1) /\ (\A i \in 1 .. n : i \in 1 .. n + 1) /\ n + 1 \in 1 .. n + 1
  BY <1>1
<1>3. ASSUME NEW i
      PROVE  i \in LumaOnly(t) <=> i \in LumaOnly(s) \/ (i = n + 1 /\ e.kind # "joint" /\ e.chromaNotSplit)
  <2>1. i \in LumaOnly(s) <=> i \in 1 .. n /\ s[i].kind # "joint" /\ s[i].chromaNotSplit BY <1>1 DEF LumaOnly
  <2>2. i \in LumaOnly(t) <=> i \in 1 .. n + 1 /\ t[i].kind # "joint" /\ t[i].chromaNotSplit BY <1>1 DEF LumaOnly
  <2>3. CASE i \in 1 .. n
    <3>1. i # n + 1 BY <1>1, <2>3
    <3>2. t[i] = s[i] /\ i \in 1 .. n + 1 BY <1>1, <1>2, <2>3
    <3>3. i \in LumaOnly(s) <=> t[i].kind # "joint" /\ t[i].chromaNotSplit BY <2>1, <2>3, <3>2
    <3>4. i \in LumaOnly(t) <=> t[i].kind # "joint" /\ t[i].chromaNotSplit BY <2>2, <3>2
    <3> QED BY <3>1, <3>3, <3>4
  <2>4. CASE i = n + 1
    <3>1. i \notin 1 .. n BY <1>1, <2>4
    <3> QED BY <1>1, <1>2, <2>1, <2>2, <2>4, <3>1
  <2>5. CASE i \notin 1 .. n /\ i # n + 1 BY <1>2, <2>1, <2>2, <2>5
  <2> QED BY <2>3, <2>4, <2>5
<1>4. LumaOnly(s) \subseteq 1 .. n BY <1>1 DEF LumaOnly
<1>5. LumaOnly(t) = LumaOnly(s) \cup {i \in {n + 1} : e.kind # "joint" /\ e.chromaNotSplit} BY <1>3
<1> QED BY <1>1, <1>4, <1>5 DEF LumaOnlyOf, n, t

\* Any split that is permitted has room, and the blocks below it fit.
LEMMA PermittedSplits ==
  ASSUME IInv, ShapeInv, PlacesInv, pc = "tree", NEW split \in Splits, split \in permitted
  PROVE  Splittable(cfg, cur, part, split) /\ ~InItsChroma(calls)
<1>1. /\ PartOK(part) /\ cur \in Channels BY Here
<1>2. /\ ConfigOK(cfg) /\ Placed(cfg, cur, part.stack) /\ Measured(area)
      /\ Permitted(cfg, cur, part, split)
  BY HerePlaced
<1>3. ~SplitFails(part, split)
  <2>1. area = Area(part) BY DEF area
  <2> HIDE DEF part, area
  <2>2. SplitPlaces(cfg, cur, Area(part), Top(part).split, split) BY <1>1, <1>2, PermittedHasRoom
  <2> QED BY <1>1, <1>2, <2>1, <2>2, SplitSucceeds
<1> QED BY <1>3, PermittedIsSplittable

\* A block that the border splits keeps its mode type.
LEMMA CrossingKeepsMode ==
  ASSUME NEW c, NEW ch, NEW p, NEW split, Splittable(c, ch, p, split), Crosses(c, Area(p)),
         NEW m \in ModeTypes(c, p, split)
  PROVE  m = p.modeType
<1> DEFINE a == Area(p)
           w == a.w
           h == a.h
<1>1. /\ LevelOK(Top(p)) /\ LevelShape(c, ch, Top(p), p.modeType) /\ BorderOK(c)
      /\ InPicture(c, a.x, a.y) /\ split \in Splits
  BY DEF Splittable
<1>2. a = CurrentPart(Top(p)) /\ AreaOK(c, ch, a, p.modeType) BY <1>1, TopsPart
<1>3. Top(p).implicit # "NO" BY <1>1, <1>2 DEF LevelShape
<1>4. Forced(c, a, split) /\ (split = "QUAD" => w = h)
  <2>1. BorderAllows(c, a, split) /\ (Top(p).implicit # "NO" => Forced(c, a, split)) BY BorderDecides
  <2> QED BY <1>3, <2>1 DEF BorderAllows
<1>5. PlaceOK(c, a) BY <1>2 DEF AreaOK
<1> HIDE DEF a
<1>6. /\ split = "QUAD" => w >= 16 /\ h >= 16
      /\ split = "HORZ" => w >= 8 /\ h >= 16
      /\ split = "VERT" => w >= 16 /\ h >= 8
  BY <1>1, <1>4, <1>5, ForcedIsLarge
<1>7. split \in {"QUAD", "HORZ", "VERT"} BY <1>4 DEF Forced
<1>8. w \in Sizes /\ h \in Sizes BY <1>5 DEF PlaceOK
<1>9. LET narrow == (w = 8 /\ split = "VERT") \/ (w = 16 /\ split = "TRIV")
      IN /\ c.dual \/ p.modeType # "ALL" => m = p.modeType
         /\ ~c.dual /\ m = "ALL" => w * h >= (IF split \in BtSplits THEN 128 ELSE 256) /\ ~narrow
         /\ ~c.dual /\ p.modeType = "ALL" /\ m = "INTER" =>
              /\ w * h >= (IF split \in BtSplits THEN 64 ELSE 128)
              /\ w * h < (IF split \in BtSplits THEN 128 ELSE 256) \/ narrow
         /\ m \in {p.modeType, "INTRA", "INTER"}
  BY <1>1, <1>8, ModeDecides DEF a
<1>10. CASE c.dual \/ p.modeType # "ALL" BY <1>9, <1>10
<1>11. CASE ~c.dual /\ p.modeType = "ALL"
  <2>1. ModeTypes(c, p, split) = {p.modeType}
    <3>1. /\ ((w * h) \div 2) \div 4 >= 16 <=> w * h >= 128
          /\ ((w * h) \div 4) \div 4 >= 16 <=> w * h >= 256
      BY <1>8, LumaAreas
    <3>2. /\ w * h >= 128 <=> w >= 32 \/ h >= 32 \/ (w >= 16 /\ h >= 8) \/ (w >= 8 /\ h >= 16)
          /\ w * h >= 256 <=> w >= 64 \/ h >= 64 \/ (w >= 32 /\ h >= 8) \/ (w >= 16 /\ h >= 16)
                             \/ (w >= 8 /\ h >= 32)
      BY <1>8, LargerProducts
    <3>3. ChromaWidth(a) = w \div 2 BY DEF ChromaWidth
    <3>4. w >= 16 => w \div 2 # 4 BY <1>8 DEF Sizes
    <3>5. ~(\/ ChromaWidth(a) = 4 /\ split = "VERT"
            \/ ChromaWidth(a) = 8 /\ split = "TRIV")
      BY <1>6, <1>7, <3>3, <3>4
    <3>6. split \in BtSplits <=> split # "QUAD" BY <1>7 DEF BtSplits
    <3>7. IF split \in BtSplits THEN w * h >= 128 ELSE w * h >= 256 BY <1>6, <1>7, <3>2, <3>6
    <3>8. ((w * h) \div (IF split \in BtSplits THEN 2 ELSE 4)) \div 4 >= 16
      <4>1. CASE split \in BtSplits BY <3>1, <3>7, <4>1
      <4>2. CASE split \notin BtSplits BY <3>1, <3>7, <4>2
      <4> QED BY <4>1, <4>2
    <3> QED BY <3>5, <3>8 DEF ModeTypes, a
  <2> QED BY <2>1
<1> QED BY <1>10, <1>11

\* The invariant, from the block that coding_tree is called with next.
LEMMA LumaOnlyFrom ==
  ASSUME cfg' = cfg, NEW q, cfg.dual \/ parts'[cur'] = q, NEW s, calls' = s,
         ~cfg.dual => /\ LumaOnly(s) = {} <=> q.modeType # "INTRA"
                      /\ \A i, j \in LumaOnly(s) : i = j
                      /\ \A i \in LumaOnly(s) : ~Crosses(cfg, CurrentPart(q.stack[i]))
  PROVE  LumaOnlyInv'
BY DEF LumaOnlyInv

\* Nothing changes for them.
LEMMA LumaOnlyKeeps ==
  ASSUME LumaOnlyInv, cfg' = cfg, NEW q, cfg.dual \/ parts'[cur'] = q, NEW s, calls' = s, LumaOnly(s) = LumaOnly(calls),
         q.modeType = parts[cur].modeType,
         \A i \in LumaOnly(calls) : CurrentPart(q.stack[i]) = CurrentPart(parts[cur].stack[i])
  PROVE  LumaOnlyInv'
<1>1. ~cfg.dual => /\ LumaOnly(s) = {} <=> q.modeType # "INTRA"
                   /\ \A i, j \in LumaOnly(s) : i = j
                   /\ \A i \in LumaOnly(s) : ~Crosses(cfg, CurrentPart(q.stack[i]))
  BY DEF LumaOnlyInv
<1> QED BY <1>1, LumaOnlyFrom

\* A split may be the one that chroma is not split along: then the block it
\* splits lies inside the picture.
LEMMA SplitNodeLumaOnly ==
  ASSUME IInv, ShapeInv, WalkInv, NEW split \in Splits, SplitNode(split)
  PROVE  LumaOnlyInv'
<1>1. PlacesInv /\ LumaOnlyInv BY DEF WalkInv
<1>2. pc = "tree" /\ split \in permitted BY DEF SplitNode
<1>3. PICK modeType \in ModeTypes(cfg, part, split) : \E q, call, qgEnable :
        NodeSplits(split, modeType, q, call, qgEnable)
  BY <1>1, NodeIsSplit
<1>4. PICK q, call, qgEnable : NodeSplits(split, modeType, q, call, qgEnable) BY <1>3
<1>5. /\ parts' = [parts EXCEPT ![cur] = q] /\ calls' = Append(calls, call) /\ cfg' = cfg /\ cur' = cur
      /\ q.stack = Append(part.stack, Level(split, SubAreas(area, split), qgEnable))
      /\ q.modeType = modeType /\ call.kind = "node"
      /\ call.chromaNotSplit <=> (part.modeType = "ALL" /\ modeType = "INTRA")
  BY <1>4 DEF NodeSplits
<1>6. parts'[cur] = q
  <2>1. parts = [ch \in Channels |-> parts[ch]] /\ cur \in Channels BY DEF IInv, PartsOK
  <2> QED BY <1>5, <2>1
<1>7. Splittable(cfg, cur, part, split) /\ ~InItsChroma(calls) BY <1>1, <1>2, PermittedSplits
<1>8. /\ IsSeq(calls) /\ PartOK(part) /\ SameKinds(part, parts[cur]) BY <1>2, Here
<1>9. /\ Alike(part.stack, parts[cur].stack) /\ area = CurrentPart(parts[cur].stack[Len(parts[cur].stack)])
      /\ Len(parts[cur].stack) \in Nat
  BY <1>1, <1>2, HereSettled
<1>10. LumaOnlyOf(calls, call) BY <1>8, LumaOnlyAppend
<1> DEFINE n == Len(calls)
           level == Level(split, SubAreas(area, split), qgEnable)
           s == Append(calls, call)
<1>11. area = Area(part) BY DEF area
<1>12. part.modeType = parts[cur].modeType BY <1>8 DEF SameKinds
<1>13. Len(parts[cur].stack) = n + 1
  <2>1. Len(parts[cur].stack) = 1 + n - 0 BY <1>7 DEF IInv, LengthInv
  <2>2. n \in Nat BY <1>10 DEF LumaOnlyOf
  <2> QED BY <2>1, <2>2
<1>14. /\ n \in Nat /\ LumaOnly(calls) \subseteq 1 .. n
       /\ LumaOnly(s) = LumaOnly(calls) \cup {i \in {n + 1} : call.chromaNotSplit}
  BY <1>5, <1>10 DEF LumaOnlyOf
<1>15. part.stack = Append(Front(part.stack), Top(part)) /\ IsSeq(part.stack) BY <1>8, StackParts DEF PartOK, StackOK
<1> HIDE DEF part, area, level, s
<1>16. \A i \in 1 .. n + 1 : CurrentPart(q.stack[i]) = CurrentPart(parts[cur].stack[i])
  <2>1. Len(part.stack) = n + 1 BY <1>9, <1>13 DEF Alike
  <2>2. \A i \in 1 .. n + 1 : q.stack[i] = part.stack[i] BY <1>5, <1>15, <2>1, AppendIsSeq
  <2>3. \A i \in 1 .. n + 1 : part.stack[i].idx = parts[cur].stack[i].idx /\ part.stack[i].parts = parts[cur].stack[i].parts
    BY <1>9, <2>1 DEF Alike
  <2> QED BY <2>2, <2>3 DEF CurrentPart
<1>17. modeType = part.modeType \/ part.modeType = "ALL"
  <2>1. modeType \in ModeTypes(cfg, part, split) BY <1>3
  <2> QED BY <2>1 DEF ModeTypes
<1>18. ASSUME ~cfg.dual
       PROVE  /\ LumaOnly(s) = {} <=> q.modeType # "INTRA"
              /\ \A i, j \in LumaOnly(s) : i = j
              /\ \A i \in LumaOnly(s) : ~Crosses(cfg, CurrentPart(q.stack[i]))
  <2>1. /\ LumaOnly(calls) = {} <=> part.modeType # "INTRA"
        /\ \A i, j \in LumaOnly(calls) : i = j
        /\ \A i \in LumaOnly(calls) : ~Crosses(cfg, CurrentPart(parts[cur].stack[i]))
    BY <1>1, <1>12, <1>18 DEF LumaOnlyInv
  <2>2. CASE call.chromaNotSplit
    <3>1. part.modeType = "ALL" /\ modeType = "INTRA" BY <1>5, <2>2
    <3>2. LumaOnly(s) = {n + 1} BY <1>14, <2>1, <2>2, <3>1
    <3>3. ~Crosses(cfg, area)
      <4>1. modeType \in ModeTypes(cfg, part, split) BY <1>3
      <4>2. Crosses(cfg, Area(part)) => modeType = part.modeType BY <1>7, <4>1, CrossingKeepsMode
      <4> QED BY <1>11, <3>1, <4>2
    <3>4. n + 1 \in 1 .. n + 1 BY <1>14
    <3>5. CurrentPart(q.stack[n + 1]) = area BY <1>9, <1>13, <1>16, <3>4
    <3> QED BY <1>5, <3>1, <3>2, <3>3, <3>5
  <2>3. CASE ~call.chromaNotSplit
    <3>1. LumaOnly(s) = LumaOnly(calls) BY <1>14, <2>3
    <3>2. modeType = "INTRA" <=> part.modeType = "INTRA" BY <1>5, <1>17, <2>3
    <3>3. \A i \in LumaOnly(calls) : i \in 1 .. n + 1 BY <1>14
    <3> QED BY <1>5, <1>16, <2>1, <3>1, <3>2, <3>3
  <2> QED BY <2>2, <2>3
<1>19. calls' = s BY <1>5 DEF s
<1> QED BY <1>5, <1>6, <1>18, <1>19, LumaOnlyFrom

\* A call that has split its block: its level is the last on the stack.
LEMMA NodeLoop ==
  ASSUME IInv, ShapeInv, InLoop("node")
  PROVE  /\ calls = Append(Front(calls), Last(calls)) /\ IsSeq(Front(calls)) /\ ~InItsChroma(calls)
         /\ Len(calls) = Len(Front(calls)) + 1 /\ Len(Front(calls)) \in Nat /\ ~InItsChroma(Front(calls))
         /\ PartOK(parts[cur]) /\ Leads(cfg, Last(calls), parts[cur].modeType) /\ cur \in Channels
         /\ Last(calls).kind = "node" /\ pc = "return" /\ Len(parts[cur].stack) = Len(calls) + 1
         /\ parts[cur].stack = Append(Front(parts[cur].stack), Top(parts[cur]))
         /\ IsSeq(Front(parts[cur].stack)) /\ Len(Front(parts[cur].stack)) = Len(calls)
         /\ LumaOnlyOf(Front(calls), Last(calls))
         /\ ~cfg.dual => cur = "LUMA"
<1> DEFINE p == parts[cur]
           last == Last(calls)
           before == Front(calls)
<1>1. pc = "return" /\ calls # <<>> /\ last.kind = "node" BY DEF InLoop
<1>2. /\ calls = Append(before, last) /\ IsSeq(before) /\ ~InItsChroma(before)
      /\ Len(calls) = Len(before) + 1 /\ Len(before) \in Nat
      /\ PartOK(p) /\ Leads(cfg, last, p.modeType) /\ ~InItsChroma(calls)
  BY <1>1, BackInLoop
<1>3. Len(p.stack) = 1 + Len(calls) /\ cur \in Channels BY <1>1, LoopFacts
<1>4. /\ p.stack = Append(Front(p.stack), Top(p)) /\ IsSeq(Front(p.stack))
      /\ Len(p.stack) = Len(Front(p.stack)) + 1 /\ Len(Front(p.stack)) \in Nat
  BY <1>2, StackParts
<1>5. LumaOnlyOf(before, last) BY <1>2, LumaOnlyAppend
<1>6. ~cfg.dual => cur = "LUMA" BY <1>3 DEF ShapeInv, Channels
<1> DEFINE k == Len(Front(p.stack))
           l == Len(calls)
           n == Len(p.stack)
<1>7. k \in Nat /\ l \in Nat /\ n = 1 + l /\ n = k + 1 BY <1>2, <1>3, <1>4
<1> HIDE DEF k, l, n
<1>8. n = l + 1 /\ k = l BY <1>7
<1> QED BY <1>1, <1>2, <1>3, <1>4, <1>5, <1>6, <1>8 DEF k, l, n

\* A coding unit.
LEMMA CodeUnitLumaOnly ==
  ASSUME IInv, ShapeInv, WalkInv, CodeUnit
  PROVE  LumaOnlyInv'
<1>1. PlacesInv /\ LumaOnlyInv /\ pc = "tree" BY DEF WalkInv, CodeUnit
<1>2. CASE Abort BY <1>1, <1>2 DEF Abort, LumaOnlyInv
<1>3. CASE parts' = [parts EXCEPT ![cur] = part] /\ UNCHANGED <<cfg, cur, calls>>
  <2>1. parts'[cur] = part
    <3>1. parts = [ch \in Channels |-> parts[ch]] /\ cur \in Channels BY DEF IInv, PartsOK
    <3> QED BY <1>3, <3>1
  <2>2. SameKinds(part, parts[cur]) /\ IsSeq(calls) BY <1>1, Here
  <2>3. Alike(part.stack, parts[cur].stack) /\ Len(parts[cur].stack) \in Nat BY <1>1, HereSettled
  <2>4. part.modeType = parts[cur].modeType BY <2>2 DEF SameKinds
  <2>5. LumaOnly(calls) \subseteq 1 .. Len(parts[cur].stack)
    <3>1. DOMAIN calls = 1 .. Len(calls) /\ Len(calls) \in Nat BY <2>2, AppendIsSeq
    <3>2. Len(parts[cur].stack) = 1 + Len(calls) - (IF InItsChroma(calls) THEN 1 ELSE 0) BY DEF IInv, LengthInv
    <3>3. Len(calls) <= Len(parts[cur].stack)
      <4>1. CASE InItsChroma(calls) BY <3>1, <3>2, <4>1
      <4>2. CASE ~InItsChroma(calls) BY <3>1, <3>2, <4>2
      <4> QED BY <4>1, <4>2
    <3>4. LumaOnly(calls) \subseteq 1 .. Len(calls) BY <3>1 DEF LumaOnly
    <3>5. \A i \in 1 .. Len(calls) : i \in 1 .. Len(parts[cur].stack) BY <2>3, <3>1, <3>3
    <3> QED BY <3>4, <3>5
  <2> HIDE DEF part
  <2>6. \A i \in LumaOnly(calls) : CurrentPart(part.stack[i]) = CurrentPart(parts[cur].stack[i])
    BY <2>3, <2>5 DEF Alike, CurrentPart
  <2> QED BY <1>1, <1>3, <2>1, <2>4, <2>6, LumaOnlyKeeps
<1> QED BY <1>2, <1>3 DEF CodeUnit

\* The next part of a block.
LEMMA NextNodePartLumaOnly ==
  ASSUME IInv, ShapeInv, WalkInv, NextNodePart
  PROVE  LumaOnlyInv'
<1> DEFINE p == parts[cur]
           q == NextPart(p)
           f == Front(p.stack)
           d == [Top(p) EXCEPT !.idx = @ + 1, !.implicit = "UNCHECKED"]
<1>1. InLoop("node") /\ parts' = [parts EXCEPT ![cur] = q] /\ UNCHANGED <<cfg, cur, calls>> BY DEF NextNodePart
<1>2. /\ PartOK(p) /\ cur \in Channels /\ p.stack = Append(f, Top(p)) /\ IsSeq(f) /\ Len(f) = Len(calls)
      /\ LumaOnlyOf(Front(calls), Last(calls)) /\ calls = Append(Front(calls), Last(calls))
      /\ Len(calls) = Len(Front(calls)) + 1 /\ Len(Front(calls)) \in Nat
  BY <1>1, NodeLoop
<1>3. q.stack = Append(f, d) /\ SameKinds(q, p) BY <1>2, NextStack
<1>4. parts'[cur] = q
  <2>1. parts = [ch \in Channels |-> parts[ch]] BY DEF IInv, PartsOK
  <2> QED BY <1>1, <1>2, <2>1
<1>5. LumaOnlyInv BY DEF WalkInv
<1>6. q.modeType = p.modeType BY <1>3 DEF SameKinds
<1>7. LumaOnly(calls) \subseteq 1 .. Len(f)
  <2>1. IsSeq(calls) BY DEF IInv, CallsOK
  <2>2. DOMAIN calls = 1 .. Len(calls) BY <2>1, AppendIsSeq
  <2> QED BY <1>2, <2>2 DEF LumaOnly
<1> HIDE DEF q, f, d
<1>8. \A i \in LumaOnly(calls) : CurrentPart(q.stack[i]) = CurrentPart(p.stack[i])
  <2>1. \A i \in 1 .. Len(f) : q.stack[i] = f[i] /\ p.stack[i] = f[i] BY <1>2, <1>3, AppendIsSeq
  <2> QED BY <1>7, <2>1
<1> QED BY <1>1, <1>4, <1>5, <1>6, <1>8, LumaOnlyKeeps

\* The end of the loop over the parts.
LEMMA ExitNodeLumaOnly ==
  ASSUME IInv, ShapeInv, WalkInv, ExitNode
  PROVE  LumaOnlyInv'
<1> DEFINE p == parts[cur]
           f == Front(p.stack)
           last == Last(calls)
           before == Front(calls)
<1>1. InLoop("node") /\ LumaOnlyInv BY DEF WalkInv, ExitNode
<1>2. PICK q, call : NodeExits(q, call) BY NodeIsLeft
<1>3. /\ parts' = [parts EXCEPT ![cur] = q] /\ cfg' = cfg /\ cur' = cur /\ q.stack = f
      /\ IF last.chromaNotSplit
         THEN /\ calls' = Append(before, call) /\ call.kind = "chroma" /\ call.chromaNotSplit
              /\ q.modeType = p.modeType
         ELSE calls' = before /\ q.modeType = last.modeTypeParent
  BY <1>2 DEF NodeExits
<1>4. /\ PartOK(p) /\ cur \in Channels /\ p.stack = Append(f, Top(p)) /\ IsSeq(f) /\ Len(f) = Len(calls)
      /\ LumaOnlyOf(before, last) /\ calls = Append(before, last) /\ IsSeq(before)
      /\ Len(calls) = Len(before) + 1 /\ Len(before) \in Nat /\ last.kind = "node" /\ Leads(cfg, last, p.modeType)
  BY <1>1, NodeLoop
<1>5. parts'[cur] = q
  <2>1. parts = [ch \in Channels |-> parts[ch]] BY DEF IInv, PartsOK
  <2> QED BY <1>3, <1>4, <2>1
<1>6. LumaOnlyOf(before, call) BY <1>4, LumaOnlyAppend
<1> HIDE DEF f, before, last
<1>7. /\ LumaOnly(before) \subseteq 1 .. Len(before)
      /\ LumaOnly(calls) = LumaOnly(before) \cup {i \in {Len(before) + 1} : last.chromaNotSplit}
  BY <1>4 DEF LumaOnlyOf
<1>8. \A i \in 1 .. Len(calls) : CurrentPart(q.stack[i]) = CurrentPart(p.stack[i])
  <2>1. \A i \in 1 .. Len(f) : p.stack[i] = f[i] BY <1>4, AppendIsSeq
  <2> QED BY <1>3, <1>4, <2>1
<1>9. \A i \in LumaOnly(calls) : i \in 1 .. Len(calls)
  <2>1. \A i \in 1 .. Len(before) : i \in 1 .. Len(calls) BY <1>4
  <2>2. Len(before) + 1 \in 1 .. Len(calls) BY <1>4
  <2> QED BY <1>7, <2>1, <2>2
<1>10. CASE last.chromaNotSplit
  <2>1. LumaOnly(Append(before, call)) = LumaOnly(calls)
    <3>1. LumaOnly(Append(before, call)) = LumaOnly(before) \cup {i \in {Len(before) + 1} : call.kind # "joint" /\ call.chromaNotSplit}
      BY <1>6 DEF LumaOnlyOf
    <3> QED BY <1>3, <1>7, <1>10, <3>1
  <2> QED BY <1>1, <1>3, <1>5, <1>8, <1>9, <1>10, <2>1, LumaOnlyKeeps
<1>11. CASE ~last.chromaNotSplit
  <2>1. LumaOnly(before) = LumaOnly(calls) BY <1>7, <1>11
  <2>2. last.modeTypeParent = "INTRA" <=> p.modeType = "INTRA" BY <1>4, <1>11 DEF Leads
  <2>3. ~cfg.dual => /\ LumaOnly(before) = {} <=> q.modeType # "INTRA"
                     /\ \A i, j \in LumaOnly(before) : i = j
                     /\ \A i \in LumaOnly(before) : ~Crosses(cfg, CurrentPart(q.stack[i]))
    BY <1>1, <1>3, <1>8, <1>9, <1>11, <2>1, <2>2 DEF LumaOnlyInv
  <2> QED BY <1>3, <1>5, <1>11, <2>3, LumaOnlyFrom
<1> QED BY <1>10, <1>11

\* After the chroma of the one block there was.
LEMMA RecoverLumaOnly ==
  ASSUME IInv, ShapeInv, WalkInv, Recover
  PROVE  LumaOnlyInv' /\ LumaOnly(Front(calls)) = {}
<1> DEFINE last == Last(calls)
           before == Front(calls)
<1>1. pc = "return" /\ calls # <<>> /\ last.kind = "chroma" /\ LumaOnlyInv BY DEF WalkInv, Recover, InLoop
<1>2. PICK q : Recovers(q) BY RecoverStack
<1>3. /\ parts' = [parts EXCEPT ![cur] = q] /\ cfg' = cfg /\ cur' = cur /\ calls' = before
      /\ q.modeType = last.modeTypeParent
  BY <1>2 DEF Recovers
<1>4. parts'[cur] = q
  <2>1. parts = [ch \in Channels |-> parts[ch]] /\ cur \in Channels BY DEF IInv, PartsOK
  <2> QED BY <1>3, <2>1
<1>5. InItsChroma(calls) BY <1>1 DEF InItsChroma
<1>6. /\ calls = Append(before, last) /\ IsSeq(before) /\ Len(calls) = Len(before) + 1 /\ Len(before) \in Nat
      /\ TreeOK(parts[cur], calls)
  BY <1>1, BackInLoop
<1>7. Len(calls) \in LumaOnly(calls) /\ ~cfg.dual BY <1>5, ChromaOfBlock
<1>8. \A i, j \in LumaOnly(calls) : i = j BY <1>1, <1>7 DEF LumaOnlyInv
<1>9. LumaOnlyOf(before, last) BY <1>6, LumaOnlyAppend
<1>10. last.modeTypeParent = "ALL" BY <1>5, <1>6 DEF TreeOK
<1> HIDE DEF before, last
<1>11. LumaOnly(before) = {}
  <2>1. LumaOnly(before) \subseteq 1 .. Len(before) /\ LumaOnly(before) \subseteq LumaOnly(calls)
    BY <1>6, <1>9 DEF LumaOnlyOf
  <2>2. Len(calls) \notin 1 .. Len(before) BY <1>6
  <2> QED BY <1>7, <1>8, <2>1, <2>2
<1>12. ~cfg.dual => /\ LumaOnly(before) = {} <=> q.modeType # "INTRA"
                    /\ \A i, j \in LumaOnly(before) : i = j
                    /\ \A i \in LumaOnly(before) : ~Crosses(cfg, CurrentPart(q.stack[i]))
  BY <1>3, <1>10, <1>11
<1>13. LumaOnlyInv' BY <1>3, <1>4, <1>12, LumaOnlyFrom
<1> QED BY <1>11, <1>13 DEF before

\* Every step but those keeps the blocks whose chroma is not split along.
LEMMA StepLumaOnly ==
  ASSUME IInv, ShapeInv, WalkInv, [Next]_vars
  PROVE  LumaOnlyInv'
<1>1. LumaOnlyInv BY DEF WalkInv
<1>2. CASE UNCHANGED vars BY <1>1, <1>2 DEF vars, LumaOnlyInv
<1>3. CASE SplitJointly
  <2>1. cfg.dual BY <1>3 DEF SplitJointly, WithChroma, IsJoint
  <2>2. cfg' = cfg BY <1>3 DEF SplitJointly, Abort
  <2> QED BY <2>1, <2>2 DEF LumaOnlyInv
<1>4. CASE CodeUnit BY <1>4, CodeUnitLumaOnly
<1>5. ASSUME NEW split \in Splits, SplitNode(split) PROVE LumaOnlyInv' BY <1>5, SplitNodeLumaOnly
<1>6. CASE NextNodePart BY <1>6, NextNodePartLumaOnly
<1>7. CASE ExitNode BY <1>7, ExitNodeLumaOnly
<1>8. CASE Recover BY <1>8, RecoverLumaOnly
<1>9. CASE LumaThenChroma \/ NextJointPart \/ ExitJointly
  <2>1. InLoop("joint") /\ cfg' = cfg BY <1>9 DEF LumaThenChroma, NextJointPart, ExitJointly, Abort
  <2>2. cfg.dual BY <2>1, JointFacts
  <2> QED BY <2>1, <2>2 DEF LumaOnlyInv
<1>10. CASE EndOfTree
  <2>1. UNCHANGED <<cfg, parts, calls>> /\ (~cfg.dual => cur' = cur) BY <1>10 DEF EndOfTree
  <2> QED BY <1>1, <2>1 DEF LumaOnlyInv
<1>11. CASE Finished BY <1>1, <1>11 DEF Finished, vars, LumaOnlyInv
<1> QED BY <1>2, <1>3, <1>4, <1>5, <1>6, <1>7, <1>8, <1>9, <1>10, <1>11 DEF Next

-----------------------------------------------------------------------------
(* Luma and chroma in turn.                                                 *)

\* Luma waits for its turn as before.
WaitingStays == WaitsHere("LUMA")' <=> WaitsHere("LUMA")

\* A step inside a quarter, or of a tree of its own.
LEMMA TurnsKeep ==
  ASSUME TurnsInv, cfg' = cfg, cur' = cur, NEW s, calls' = s, Alternates(s) <=> Alternates(calls),
         IsJoint(cfg) /\ s # <<>> => Alternates(s), s = <<>> /\ pc' = "return" => ~IsJoint(cfg), pc' # "done",
         \A ch \in Channels : Alternates(calls) =>
           /\ parts'[ch].stack[2].parts = parts[ch].stack[2].parts
           /\ parts'[ch].stack[2].idx = parts[ch].stack[2].idx
  PROVE  TurnsInv' /\ WaitingStays
<1> DEFINE at == parts["CHROMA"].stack[2].idx
           luma == parts["LUMA"].stack[2].idx
<1>1. "LUMA" \in Channels /\ "CHROMA" \in Channels BY DEF Channels
<1>2. ASSUME Alternates(s)
      PROVE  /\ \A ch \in Channels : parts'[ch].stack[2].parts = SubAreas(CtuArea(cfg), "QUAD")
             /\ parts'["LUMA"].stack[2].idx \in
                  (IF cur = "LUMA" THEN {parts'["CHROMA"].stack[2].idx}
                   ELSE IF parts'["CHROMA"].stack[2].idx < 3 THEN {parts'["CHROMA"].stack[2].idx + 1}
                   ELSE {parts'["CHROMA"].stack[2].idx})
  <2>1. Alternates(calls) BY <1>2
  <2>2. /\ \A ch \in Channels : parts[ch].stack[2].parts = SubAreas(CtuArea(cfg), "QUAD")
        /\ luma \in (IF cur = "LUMA" THEN {at} ELSE IF at < 3 THEN {at + 1} ELSE {at})
    BY <2>1 DEF TurnsInv
  <2>3. parts'["CHROMA"].stack[2].idx = at /\ parts'["LUMA"].stack[2].idx = luma BY <1>1, <2>1
  <2> HIDE DEF at, luma
  <2>4. \A ch \in Channels : parts'[ch].stack[2].parts = SubAreas(CtuArea(cfg), "QUAD") BY <2>1, <2>2
  <2> QED BY <2>2, <2>3, <2>4
<1>3. IsJoint(cfg) /\ s = <<>> /\ pc' = "return" => cur = "CHROMA" OBVIOUS
<1>4. WaitingStays
  <2>1. CASE Alternates(calls)
    <3>1. parts'["CHROMA"].stack[2].idx = at /\ parts'["LUMA"].stack[2].idx = luma BY <1>1, <2>1
    <3>2. WaitsHere("LUMA")' <=> Alternates(s) /\ parts'["LUMA"].stack[2].idx # parts'["CHROMA"].stack[2].idx
      BY DEF WaitsHere
    <3>3. WaitsHere("LUMA") <=> Alternates(calls) /\ luma # at BY DEF WaitsHere
    <3> HIDE DEF at, luma
    <3> QED BY <2>1, <3>1, <3>2, <3>3 DEF WaitingStays
  <2>2. CASE ~Alternates(calls) BY <2>2 DEF WaitingStays, WaitsHere
  <2> QED BY <2>1, <2>2
<1> QED BY <1>2, <1>3, <1>4 DEF TurnsInv

\* Inside a quarter, the second level stays: there are levels further up.
LEMMA QuarterBelow ==
  ASSUME IInv, ShapeInv, InLoop("node")
  PROVE  /\ Alternates(calls) => Front(calls) # <<>> /\ Len(Front(parts[cur].stack)) >= 2
         /\ Front(calls) = <<>> => ~Alternates(calls)
         /\ Front(calls) # <<>> => (Alternates(calls) <=> Alternates(Front(calls)))
<1> DEFINE before == Front(calls)
<1>1. calls # <<>> /\ Last(calls).kind = "node" BY DEF InLoop
<1>2. /\ Alternates(calls) <=> IF before = <<>> THEN Last(calls).kind = "joint" ELSE Alternates(before)
      /\ before # <<>> => Len(before) > 0
  BY <1>1, LastCall
<1>3. Len(Front(parts[cur].stack)) = Len(calls) /\ Len(calls) = Len(before) + 1 /\ Len(before) \in Nat
  BY NodeLoop
<1>4. before # <<>> => Len(Front(parts[cur].stack)) >= 2
  <2> DEFINE k == Len(Front(parts[cur].stack))
             n == Len(before)
  <2>1. k = n + 1 /\ n \in Nat BY <1>3
  <2>2. before # <<>> => n > 0 BY <1>2
  <2> HIDE DEF k, n
  <2>3. before # <<>> => k >= 2 BY <2>1, <2>2
  <2> QED BY <2>3 DEF k
<1>5. CASE before = <<>> BY <1>1, <1>2, <1>5
<1>6. CASE before # <<>> BY <1>2, <1>4, <1>6
<1> QED BY <1>5, <1>6

\* One of the two goes on, inside its quarter.
LEMMA QuarterStays ==
  ASSUME IInv, NEW q, parts' = [parts EXCEPT ![cur] = q],
         Alternates(calls) => q.stack[2].parts = parts[cur].stack[2].parts /\ q.stack[2].idx = parts[cur].stack[2].idx
  PROVE  \A ch \in Channels : Alternates(calls) =>
           /\ parts'[ch].stack[2].parts = parts[ch].stack[2].parts
           /\ parts'[ch].stack[2].idx = parts[ch].stack[2].idx
<1> SUFFICES ASSUME NEW ch \in Channels, Alternates(calls)
             PROVE  /\ parts'[ch].stack[2].parts = parts[ch].stack[2].parts
                    /\ parts'[ch].stack[2].idx = parts[ch].stack[2].idx
  OBVIOUS
<1>1. parts = [i \in Channels |-> parts[i]] BY DEF IInv, PartsOK
<1>2. parts'[ch] = IF ch = cur THEN q ELSE parts[ch] BY <1>1
<1>3. CASE ch = cur BY <1>2, <1>3
<1>4. CASE ch # cur BY <1>2, <1>4
<1> QED BY <1>3, <1>4

\* The block coding_tree is called for.
LEMMA QuarterHere ==
  ASSUME IInv, ShapeInv, PlacesInv, pc = "tree", Alternates(calls)
  PROVE  /\ 2 \in 1 .. Len(part.stack) /\ IsSeq(part.stack)
         /\ part.stack[2].parts = parts[cur].stack[2].parts /\ part.stack[2].idx = parts[cur].stack[2].idx
<1>1. PartOK(part) /\ IsSeq(calls) /\ Led(cfg, calls, part.modeType) /\ (cfg.dual => ~InItsChroma(calls)) BY Here
<1>2. Alike(part.stack, parts[cur].stack) /\ Len(parts[cur].stack) \in Nat BY HereSettled
<1>3. IsSeq(part.stack) BY <1>1 DEF PartOK, StackOK
<1>4. calls # <<>> /\ calls[1].kind = "joint" BY DEF Alternates
<1>5. Len(calls) \in Nat /\ DOMAIN calls = 1 .. Len(calls) BY <1>1, AppendIsSeq
<1>6. Len(calls) > 0
  <2>1. calls = Append(Front(calls), Last(calls)) /\ Len(calls) = Len(Front(calls)) + 1 /\ Len(Front(calls)) \in Nat BY <1>4, LastCall
  <2> QED BY <2>1
<1>7. ~InItsChroma(calls)
  <2>1. 1 \in DOMAIN calls BY <1>5, <1>6
  <2>2. Leads(cfg, calls[1], ModeAt(calls, part.modeType, 1 + 1)) BY <1>1, <2>1 DEF Led
  <2>3. cfg.dual BY <1>4, <2>2 DEF Leads
  <2> QED BY <1>1, <2>3
<1>8. Len(parts[cur].stack) = 1 + Len(calls) - 0 BY <1>7 DEF IInv, LengthInv
<1>9. 2 \in 1 .. Len(part.stack)
  <2>1. Len(part.stack) = Len(parts[cur].stack) BY <1>2 DEF Alike
  <2> HIDE DEF part
  <2> QED BY <1>5, <1>6, <1>8, <2>1
<1> QED BY <1>2, <1>3, <1>9 DEF Alike

\* A split in a tree.
LEMMA SplitNodeTurns ==
  ASSUME IInv, ShapeInv, WalkInv, NEW split \in Splits, SplitNode(split)
  PROVE  TurnsInv' /\ WaitingStays
<1>1. PlacesInv /\ TurnsInv /\ pc = "tree" /\ ~WithChroma BY DEF WalkInv, SplitNode
<1>2. PICK modeType \in ModeTypes(cfg, part, split) : \E q, call, qgEnable :
        NodeSplits(split, modeType, q, call, qgEnable)
  BY <1>1, NodeIsSplit
<1>3. PICK q, call, qgEnable : NodeSplits(split, modeType, q, call, qgEnable) BY <1>2
<1>4. /\ parts' = [parts EXCEPT ![cur] = q] /\ calls' = Append(calls, call) /\ cfg' = cfg /\ cur' = cur /\ pc' = pc
      /\ q.stack = Append(part.stack, Level(split, SubAreas(area, split), qgEnable)) /\ call.kind = "node"
  BY <1>3 DEF NodeSplits
<1>5. IsSeq(calls) BY <1>1, Here
<1> DEFINE s == Append(calls, call)
<1>6. /\ s # <<>> /\ (Alternates(s) <=> IF calls = <<>> THEN call.kind = "joint" ELSE Alternates(calls))
  BY <1>5, CallsAppend, AppendIsSeq
<1>7. Alternates(calls) => calls # <<>> BY DEF Alternates
<1>8. Alternates(s) <=> Alternates(calls)
  <2>1. CASE calls = <<>> BY <1>4, <1>6, <1>7, <2>1
  <2>2. CASE calls # <<>> BY <1>6, <2>2
  <2> QED BY <2>1, <2>2
<1>9. IsJoint(cfg) => Alternates(calls) BY <1>1 DEF WithChroma, TurnsInv
<1>10. Alternates(calls) => q.stack[2].parts = parts[cur].stack[2].parts /\ q.stack[2].idx = parts[cur].stack[2].idx
  <2> SUFFICES ASSUME Alternates(calls)
               PROVE  q.stack[2].parts = parts[cur].stack[2].parts /\ q.stack[2].idx = parts[cur].stack[2].idx
    OBVIOUS
  <2>1. /\ 2 \in 1 .. Len(part.stack) /\ IsSeq(part.stack)
        /\ part.stack[2].parts = parts[cur].stack[2].parts /\ part.stack[2].idx = parts[cur].stack[2].idx
    BY <1>1, QuarterHere
  <2> DEFINE level == Level(split, SubAreas(area, split), qgEnable)
  <2>2. q.stack = Append(part.stack, level) BY <1>4
  <2> HIDE DEF level, part
  <2>3. q.stack[2] = part.stack[2] BY <2>1, <2>2, AppendIsSeq
  <2> QED BY <2>1, <2>3
<1>11. \A ch \in Channels : Alternates(calls) =>
         /\ parts'[ch].stack[2].parts = parts[ch].stack[2].parts
         /\ parts'[ch].stack[2].idx = parts[ch].stack[2].idx
  BY <1>4, <1>10, QuarterStays
<1>12. calls' = s BY <1>4
<1> HIDE DEF s
<1> QED BY <1>1, <1>4, <1>6, <1>8, <1>9, <1>11, <1>12, TurnsKeep

\* A coding unit.
LEMMA CodeUnitTurns ==
  ASSUME IInv, ShapeInv, WalkInv, CodeUnit, pc' # "aborted"
  PROVE  TurnsInv' /\ WaitingStays
<1>1. PlacesInv /\ TurnsInv /\ pc = "tree" /\ "NO" \in permitted BY DEF WalkInv, CodeUnit
<1>2. parts' = [parts EXCEPT ![cur] = part] /\ UNCHANGED <<cfg, cur, calls>> /\ pc' = "return"
  BY DEF CodeUnit, Abort
<1>3. ~WithChroma BY <1>1, UnitsAreInside
<1>4. Alternates(calls) =>
        part.stack[2].parts = parts[cur].stack[2].parts /\ part.stack[2].idx = parts[cur].stack[2].idx
  BY <1>1, QuarterHere
<1>5. \A ch \in Channels : Alternates(calls) =>
        /\ parts'[ch].stack[2].parts = parts[ch].stack[2].parts
        /\ parts'[ch].stack[2].idx = parts[ch].stack[2].idx
  BY <1>2, <1>4, QuarterStays
<1>6. IsJoint(cfg) /\ calls # <<>> => Alternates(calls) BY <1>1 DEF TurnsInv
<1>7. calls = <<>> => ~IsJoint(cfg) BY <1>3 DEF WithChroma
<1> QED BY <1>1, <1>2, <1>5, <1>6, <1>7, TurnsKeep

\* The next part of a block of a tree.
LEMMA NextNodePartTurns ==
  ASSUME IInv, ShapeInv, WalkInv, NextNodePart
  PROVE  TurnsInv' /\ WaitingStays
<1> DEFINE p == parts[cur]
           q == NextPart(p)
           f == Front(p.stack)
           d == [Top(p) EXCEPT !.idx = @ + 1, !.implicit = "UNCHECKED"]
<1>1. /\ InLoop("node") /\ parts' = [parts EXCEPT ![cur] = q] /\ UNCHANGED <<cfg, cur, calls>>
      /\ pc' \in {"tree", "return"} /\ calls # <<>> /\ TurnsInv
  BY DEF NextNodePart, InLoop, Called, WalkInv
<1>2. /\ PartOK(p) /\ p.stack = Append(f, Top(p)) /\ IsSeq(f) /\ Len(calls) = Len(Front(calls)) + 1
      /\ Len(f) = Len(calls) /\ Len(Front(calls)) \in Nat
  BY <1>1, NodeLoop
<1>3. q.stack = Append(f, d) BY <1>2, NextStack
<1>4. Alternates(calls) => Len(f) >= 2 BY <1>1, QuarterBelow
<1> HIDE DEF q, d
<1>5. Alternates(calls) => q.stack[2].parts = p.stack[2].parts /\ q.stack[2].idx = p.stack[2].idx
  <2> SUFFICES ASSUME Alternates(calls) PROVE q.stack[2] = p.stack[2] OBVIOUS
  <2> HIDE DEF f
  <2>1. 2 \in 1 .. Len(f) BY <1>2, <1>4
  <2> QED BY <1>2, <1>3, <2>1, AppendIsSeq
<1>6. \A ch \in Channels : Alternates(calls) =>
        /\ parts'[ch].stack[2].parts = parts[ch].stack[2].parts
        /\ parts'[ch].stack[2].idx = parts[ch].stack[2].idx
  BY <1>1, <1>5, QuarterStays
<1>7. IsJoint(cfg) => Alternates(calls) BY <1>1 DEF TurnsInv
<1> QED BY <1>1, <1>6, <1>7, TurnsKeep

\* The end of a loop over the parts.
LEMMA ExitNodeTurns ==
  ASSUME IInv, ShapeInv, WalkInv, ExitNode
  PROVE  TurnsInv' /\ WaitingStays
<1> DEFINE p == parts[cur]
           f == Front(p.stack)
           before == Front(calls)
<1>1. InLoop("node") /\ TurnsInv /\ pc = "return" /\ calls # <<>> BY DEF ExitNode, InLoop, WalkInv
<1>2. PICK q, call : NodeExits(q, call) BY NodeIsLeft
<1>3. /\ parts' = [parts EXCEPT ![cur] = q] /\ cfg' = cfg /\ cur' = cur /\ q.stack = f
      /\ \/ calls' = Append(before, call) /\ call.kind = "chroma" /\ pc' \in {"tree", "return"}
         \/ calls' = before /\ pc' = pc
  BY <1>2 DEF NodeExits, Called
<1>4. p.stack = Append(f, Top(p)) /\ IsSeq(f) /\ IsSeq(before) BY <1>1, NodeLoop
<1>5. /\ Alternates(calls) => before # <<>> /\ Len(f) >= 2
      /\ before = <<>> => ~Alternates(calls)
      /\ before # <<>> => (Alternates(calls) <=> Alternates(before))
  BY <1>1, QuarterBelow
<1>6. Alternates(calls) => q.stack[2].parts = p.stack[2].parts /\ q.stack[2].idx = p.stack[2].idx
  <2> SUFFICES ASSUME Alternates(calls) PROVE q.stack[2] = p.stack[2] OBVIOUS
  <2> HIDE DEF f
  <2>1. Len(f) \in Nat BY <1>4, AppendIsSeq
  <2>2. 2 \in 1 .. Len(f) BY <1>5, <2>1
  <2> QED BY <1>3, <1>4, <2>2, AppendIsSeq
<1>7. \A ch \in Channels : Alternates(calls) =>
        /\ parts'[ch].stack[2].parts = parts[ch].stack[2].parts
        /\ parts'[ch].stack[2].idx = parts[ch].stack[2].idx
  BY <1>3, <1>6, QuarterStays
<1>8. IsJoint(cfg) => Alternates(calls) BY <1>1 DEF TurnsInv
<1>9. ~Alternates(<<>>) BY DEF Alternates
<1> HIDE DEF before
<1>10. CASE calls' = Append(before, call) /\ call.kind = "chroma" /\ pc' \in {"tree", "return"}
  <2> DEFINE s == Append(before, call)
  <2>1. s # <<>> /\ (Alternates(s) <=> IF before = <<>> THEN call.kind = "joint" ELSE Alternates(before))
    BY <1>4, CallsAppend, AppendIsSeq
  <2> HIDE DEF s
  <2>2. Alternates(s) <=> Alternates(calls)
    <3>1. CASE before = <<>> BY <1>5, <1>10, <2>1, <3>1
    <3>2. CASE before # <<>> BY <1>5, <2>1, <3>2
    <3> QED BY <3>1, <3>2
  <2>3. calls' = s BY <1>10 DEF s
  <2> QED BY <1>1, <1>3, <1>7, <1>8, <1>10, <2>1, <2>2, <2>3, TurnsKeep
<1>11. CASE calls' = before /\ pc' = pc
  <2>1. Alternates(before) <=> Alternates(calls)
    <3>1. CASE before = <<>> BY <1>5, <1>9, <3>1
    <3>2. CASE before # <<>> BY <1>5, <3>2
    <3> QED BY <3>1, <3>2
  <2>2. before = <<>> => ~IsJoint(cfg) BY <1>5, <1>8
  <2> QED BY <1>1, <1>3, <1>7, <1>8, <1>11, <2>1, <2>2, TurnsKeep
<1> QED BY <1>3, <1>10, <1>11

\* After a chroma tree of its own.
LEMMA RecoverTurns ==
  ASSUME IInv, ShapeInv, WalkInv, Recover
  PROVE  TurnsInv' /\ WaitingStays
<1> DEFINE before == Front(calls)
<1>1. pc = "return" /\ calls # <<>> /\ Last(calls).kind = "chroma" /\ TurnsInv BY DEF WalkInv, Recover, InLoop
<1>2. PICK q : Recovers(q) BY RecoverStack
<1>3. /\ parts' = [parts EXCEPT ![cur] = q] /\ cfg' = cfg /\ cur' = cur /\ calls' = before /\ pc' = pc
      /\ q.stack = parts[cur].stack
  BY <1>2 DEF Recovers
<1>4. InItsChroma(calls) BY <1>1 DEF InItsChroma
<1>5. ~cfg.dual BY <1>4, ChromaOfBlock
<1>6. ~IsJoint(cfg) BY <1>5 DEF IsJoint
<1>7. Alternates(calls) <=> IF before = <<>> THEN Last(calls).kind = "joint" ELSE Alternates(before)
  BY <1>1, LastCall
<1>8. ~Alternates(<<>>) BY DEF Alternates
<1> HIDE DEF before
<1>9. Alternates(before) <=> Alternates(calls)
  <2>1. CASE before = <<>> BY <1>1, <1>7, <1>8, <2>1
  <2>2. CASE before # <<>> BY <1>7, <2>2
  <2> QED BY <2>1, <2>2
<1>10. Alternates(calls) => q.stack[2].parts = parts[cur].stack[2].parts /\ q.stack[2].idx = parts[cur].stack[2].idx
  BY <1>3
<1>11. \A ch \in Channels : Alternates(calls) =>
        /\ parts'[ch].stack[2].parts = parts[ch].stack[2].parts
        /\ parts'[ch].stack[2].idx = parts[ch].stack[2].idx
  BY <1>3, <1>10, QuarterStays
<1> QED BY <1>1, <1>3, <1>6, <1>9, <1>11, TurnsKeep

\* The quadtree split of luma and chroma at once: both are in the first quarter.
LEMMA SplitJointlyTurns ==
  ASSUME IInv, ShapeInv, WalkInv, SplitJointly
  PROVE  TurnsInv'
<1>1. PlacesInv /\ pc = "tree" /\ WithChroma BY DEF WalkInv, SplitJointly
<1>2. JointSplits BY <1>1, JointIsSplit
<1>3. cur = "LUMA" /\ \A ch \in Channels : JointStart(ch) BY <1>1, StartsJointly
<1>4. /\ cfg' = cfg /\ cur' = cur /\ pc' = pc /\ calls' = <<[kind |-> "joint"]>>
      /\ \A ch \in Channels : \E qgEnable : Quarters(ch, qgEnable)
  BY <1>2 DEF JointSplits
<1>5. ASSUME NEW ch \in Channels
      PROVE  parts'[ch].stack[2].parts = SubAreas(CtuArea(cfg), "QUAD") /\ parts'[ch].stack[2].idx = 0
  <2>1. PICK qgEnable : Quarters(ch, qgEnable) BY <1>4
  <2> DEFINE p == parts[ch]
             k == Checked(cfg, p)
             level == Level("QUAD", SubAreas(CtuArea(cfg), "QUAD"), qgEnable)
  <2>2. parts'[ch].stack = Append(k.stack, level) BY <2>1 DEF Quarters
  <2>3. level.parts = SubAreas(CtuArea(cfg), "QUAD") /\ level.idx = 0 BY DEF Level
  <2>4. PartOK(p) /\ Len(p.stack) = 1 BY <1>3 DEF JointStart
  <2> HIDE DEF p, level
  <2>5. PartOK(k) /\ Len(k.stack) = Len(p.stack) BY <2>4, CheckedOK
  <2> HIDE DEF k
  <2>6. IsSeq(k.stack) /\ Len(k.stack) = 1 BY <2>4, <2>5 DEF PartOK, StackOK
  <2>7. Append(k.stack, level)[Len(k.stack) + 1] = level BY <2>6, AppendIsSeq
  <2>8. 1 + 1 = 2 OBVIOUS
  <2>9. parts'[ch].stack[2] = level BY <2>2, <2>6, <2>7, <2>8
  <2> QED BY <2>3, <2>9
<1>6. "LUMA" \in Channels /\ "CHROMA" \in Channels BY DEF Channels
<1>7. parts'["LUMA"].stack[2].idx = 0 /\ parts'["CHROMA"].stack[2].idx = 0 BY <1>5, <1>6
<1>8. Alternates(calls')
  <2>1. calls' # <<>> /\ calls'[1].kind = "joint" BY <1>4
  <2> QED BY <2>1 DEF Alternates
<1>9. calls' # <<>> /\ cur' = "LUMA" /\ pc' = "tree" BY <1>1, <1>3, <1>4
<1>10. \A ch \in Channels : parts'[ch].stack[2].parts = SubAreas(CtuArea(cfg'), "QUAD") BY <1>4, <1>5
<1> QED BY <1>7, <1>8, <1>9, <1>10 DEF TurnsInv

\* The second level, where luma and chroma take turns: the quarters.
LEMMA QuartersInTurn ==
  ASSUME IInv, WalkInv, InLoop("joint"), NEW ch \in Channels
  PROVE  /\ PartOK(parts[ch]) /\ Len(parts[ch].stack) = 2 /\ parts[ch].stack[2] = Top(parts[ch])
         /\ parts[ch].stack[2].parts = SubAreas(CtuArea(cfg), "QUAD") /\ Len(parts[ch].stack[2].parts) = 4
         /\ parts[ch].stack[2].idx \in 0 .. 3 /\ Alternates(calls)
         /\ HasNextPart(parts[ch]) <=> parts[ch].stack[2].idx < 3
         /\ Moved(parts[ch]).stack[2].parts = parts[ch].stack[2].parts
         /\ Moved(parts[ch]).stack[2].idx = (IF parts[ch].stack[2].idx < 3 THEN parts[ch].stack[2].idx + 1
                                             ELSE parts[ch].stack[2].idx)
<1> DEFINE p == parts[ch]
           top == Top(p)
           d == [top EXCEPT !.idx = @ + 1, !.implicit = "UNCHECKED"]
           f == Front(p.stack)
           i == top.idx
<1>1. PartOK(p) /\ Len(p.stack) = 2 /\ Alternates(calls) BY AlternatingFacts
<1>2. p.stack = Append(f, top) /\ IsSeq(f) /\ Len(p.stack) = Len(f) + 1 /\ Len(f) \in Nat /\ LevelOK(top) BY <1>1, StackParts
<1>3. TurnsInv BY DEF WalkInv
<1>4. p.stack[2].parts = SubAreas(CtuArea(cfg), "QUAD") BY <1>1, <1>3 DEF TurnsInv
<1>5. p.stack[2] = top BY <1>1 DEF Top, Last
<1>6. Len(SubAreas(CtuArea(cfg), "QUAD")) = 4
  <2>1. "QUAD" \in Splits BY DEF Splits
  <2>2. Form(SubAreas(CtuArea(cfg), "QUAD"), CtuArea(cfg), "QUAD") BY <2>1, SubAreasForm
  <2> QED BY <2>2 DEF Form
<1>7. i \in 0 .. 3
  <2>1. i \in 0 .. 4 - 1 BY <1>2, <1>4, <1>5, <1>6 DEF LevelOK
  <2> HIDE DEF i
  <2> QED BY <2>1
<1>8. HasNextPart(p) <=> i < 3
  <2>1. HasNextPart(p) <=> i + 1 < 4 BY <1>4, <1>5, <1>6 DEF HasNextPart, Top
  <2> HIDE DEF i
  <2> QED BY <1>7, <2>1
<1>9. NextPart(p).stack = Append(f, d) /\ d.parts = top.parts BY <1>1, NextStack
<1>10. d.idx = i + 1
  <2> HIDE DEF top
  <2> QED BY <1>2 DEF LevelOK, IsRecord, LevelFields, i
<1>11. NextPart(p).stack[2] = d
  <2> HIDE DEF f, d
  <2>1. Len(f) + 1 = 2 BY <1>1, <1>2
  <2>2. Append(f, d)[Len(f) + 1] = d BY <1>2, AppendIsSeq
  <2> QED BY <1>9, <2>1, <2>2
<1> HIDE DEF top, d, i
<1>12. CASE i < 3
  <2>1. Moved(p).stack[2] = d BY <1>8, <1>11, <1>12 DEF Moved
  <2> QED BY <1>1, <1>4, <1>5, <1>6, <1>7, <1>8, <1>9, <1>10, <1>12, <2>1 DEF i, top
<1>13. CASE ~(i < 3)
  <2>1. Moved(p).stack[2] = top BY <1>5, <1>8, <1>13 DEF Moved
  <2> QED BY <1>1, <1>4, <1>5, <1>6, <1>7, <1>8, <1>13, <2>1 DEF i, top
<1> QED BY <1>12, <1>13

\* From luma to the chroma of the same quarter.
LEMMA LumaThenChromaTurns ==
  ASSUME IInv, ShapeInv, WalkInv, LumaThenChroma
  PROVE  TurnsInv'
<1> DEFINE p == parts["LUMA"]
           r == parts["CHROMA"]
           q == Moved(p)
<1>1. /\ InLoop("joint") /\ cur = "LUMA" /\ parts' = [parts EXCEPT !["LUMA"] = q]
      /\ cur' = "CHROMA" /\ pc' \in {"tree", "return"} /\ cfg' = cfg /\ calls' = calls
  BY DEF LumaThenChroma, Called
<1>2. "LUMA" \in Channels /\ "CHROMA" \in Channels /\ (\A ch \in Channels : ch \in {"LUMA", "CHROMA"}) BY DEF Channels
<1>3. /\ p.stack[2].parts = SubAreas(CtuArea(cfg), "QUAD") /\ Alternates(calls)
      /\ q.stack[2].parts = p.stack[2].parts
      /\ q.stack[2].idx = (IF p.stack[2].idx < 3 THEN p.stack[2].idx + 1 ELSE p.stack[2].idx)
  BY <1>1, <1>2, QuartersInTurn
<1>4. r.stack[2].parts = SubAreas(CtuArea(cfg), "QUAD") BY <1>1, <1>2, QuartersInTurn
<1>5. p.stack[2].idx = r.stack[2].idx BY <1>1, <1>3 DEF WalkInv, TurnsInv
<1>6. parts'["LUMA"] = q /\ parts'["CHROMA"] = r
  <2>1. parts = [ch \in Channels |-> parts[ch]] BY DEF IInv, PartsOK
  <2> QED BY <1>1, <1>2, <2>1
<1>7. calls # <<>> BY <1>3 DEF Alternates
<1> HIDE DEF p, q, r
<1>8. \A ch \in Channels : parts'[ch].stack[2].parts = SubAreas(CtuArea(cfg), "QUAD") BY <1>2, <1>3, <1>4, <1>6
<1>9. parts'["LUMA"].stack[2].idx \in
        (IF cur' = "LUMA" THEN {parts'["CHROMA"].stack[2].idx}
         ELSE IF parts'["CHROMA"].stack[2].idx < 3 THEN {parts'["CHROMA"].stack[2].idx + 1}
         ELSE {parts'["CHROMA"].stack[2].idx})
  BY <1>1, <1>3, <1>5, <1>6
<1> QED BY <1>1, <1>3, <1>7, <1>8, <1>9 DEF TurnsInv

\* From chroma to the luma of the next quarter.
LEMMA NextJointPartTurns ==
  ASSUME IInv, ShapeInv, WalkInv, NextJointPart
  PROVE  TurnsInv'
<1> DEFINE p == parts["LUMA"]
           r == parts["CHROMA"]
           q == NextPart(r)
<1>1. /\ InLoop("joint") /\ cur = "CHROMA" /\ HasNextPart(r) /\ parts' = [parts EXCEPT !["CHROMA"] = q]
      /\ cur' = "LUMA" /\ pc' \in {"tree", "return"} /\ cfg' = cfg /\ calls' = calls
  BY DEF NextJointPart, Called
<1>2. "LUMA" \in Channels /\ "CHROMA" \in Channels /\ (\A ch \in Channels : ch \in {"LUMA", "CHROMA"}) BY DEF Channels
<1>3. q = Moved(r) BY <1>1 DEF Moved
<1>4. /\ r.stack[2].parts = SubAreas(CtuArea(cfg), "QUAD") /\ Alternates(calls)
      /\ Moved(r).stack[2].parts = r.stack[2].parts /\ (HasNextPart(r) <=> r.stack[2].idx < 3)
      /\ Moved(r).stack[2].idx = (IF r.stack[2].idx < 3 THEN r.stack[2].idx + 1 ELSE r.stack[2].idx)
  BY <1>1, <1>2, QuartersInTurn
<1>5. p.stack[2].parts = SubAreas(CtuArea(cfg), "QUAD") BY <1>1, <1>2, QuartersInTurn
<1>6. p.stack[2].idx \in
        (IF cur = "LUMA" THEN {r.stack[2].idx}
         ELSE IF r.stack[2].idx < 3 THEN {r.stack[2].idx + 1} ELSE {r.stack[2].idx})
  BY <1>4 DEF WalkInv, TurnsInv
<1>7. parts'["LUMA"] = p /\ parts'["CHROMA"] = q
  <2>1. parts = [ch \in Channels |-> parts[ch]] BY DEF IInv, PartsOK
  <2> QED BY <1>1, <1>2, <2>1
<1>8. calls # <<>> BY <1>4 DEF Alternates
<1> HIDE DEF p, q, r
<1>9. \A ch \in Channels : parts'[ch].stack[2].parts = SubAreas(CtuArea(cfg), "QUAD")
  BY <1>2, <1>3, <1>4, <1>5, <1>7
<1>10. p.stack[2].idx = q.stack[2].idx BY <1>1, <1>3, <1>4, <1>6
<1>11. parts'["LUMA"].stack[2].idx = parts'["CHROMA"].stack[2].idx BY <1>7, <1>10
<1> QED BY <1>1, <1>4, <1>8, <1>9, <1>11 DEF TurnsInv

\* Every step that fails no CHECK keeps luma and chroma in turn.
LEMMA StepTurns ==
  ASSUME IInv, ShapeInv, WalkInv, [Next]_vars, pc' # "aborted"
  PROVE  TurnsInv'
<1>1. TurnsInv BY DEF WalkInv
<1>2. CASE UNCHANGED vars BY <1>1, <1>2 DEF vars, TurnsInv
<1>3. CASE SplitJointly BY <1>3, SplitJointlyTurns
<1>4. CASE CodeUnit BY <1>4, CodeUnitTurns
<1>5. ASSUME NEW split \in Splits, SplitNode(split) PROVE TurnsInv' BY <1>5, SplitNodeTurns
<1>6. CASE NextNodePart BY <1>6, NextNodePartTurns
<1>7. CASE ExitNode BY <1>7, ExitNodeTurns
<1>8. CASE Recover BY <1>8, RecoverTurns
<1>9. CASE LumaThenChroma BY <1>9, LumaThenChromaTurns
<1>10. CASE NextJointPart BY <1>10, NextJointPartTurns
<1>11. CASE ExitJointly
  <2>1. calls' = <<>> /\ cfg' = cfg /\ cur' = cur /\ cur = "CHROMA" /\ pc' = "return"
    BY <1>11 DEF ExitJointly, Abort, InLoop
  <2>2. ~Alternates(calls') BY <2>1 DEF Alternates
  <2> QED BY <2>1, <2>2 DEF TurnsInv
<1>12. CASE EndOfTree
  <2>1. /\ pc = "return" /\ calls = <<>> /\ UNCHANGED <<cfg, calls>>
        /\ \/ pc' = "tree"
           \/ ~(cfg.dual /\ ~IsJoint(cfg) /\ cur = "LUMA") /\ cur' = cur /\ pc' = "done"
    BY <1>12 DEF EndOfTree
  <2>2. ~Alternates(calls') BY <2>1 DEF Alternates
  <2>3. cur \in Channels /\ IsJoint(cfg) => cur = "CHROMA" BY <1>1, <2>1 DEF TurnsInv
  <2>4. cfg.dual /\ pc' = "done" => cur' = "CHROMA" BY <2>1, <2>3 DEF IInv, Channels
  <2> QED BY <2>1, <2>2, <2>4 DEF TurnsInv
<1>13. CASE Finished BY <1>1, <1>13 DEF Finished, vars, TurnsInv
<1> QED BY <1>2, <1>3, <1>4, <1>5, <1>6, <1>7, <1>8, <1>9, <1>10, <1>11, <1>12, <1>13 DEF Next

-----------------------------------------------------------------------------
(* Each step covers what it passes.                                         *)

\* What is covered after a step of one tree that leaves this stack and these calls.
Covers(stack, waiting, now) ==
  IF cfg.dual
  THEN /\ coded'[cur] = Walked(cfg, stack, Len(stack), now)
       /\ \A ch \in Channels : ch # cur => coded'[ch] = coded[ch]
  ELSE /\ coded'["LUMA"] = Walked(cfg, stack, Len(stack), now /\ ~InItsChroma(waiting))
       /\ LumaOnly(waiting) = {} => coded'["CHROMA"] = Walked(cfg, stack, Len(stack), now)
       /\ \A i \in LumaOnly(waiting) : coded'["CHROMA"] = Walked(cfg, stack, i, ~InItsChroma(waiting) \/ now)

\* A step of one tree: the other one waits as before.
LEMMA TreeCovers ==
  ASSUME IInv, CoverInv, cfg' = cfg, cur' = cur, WaitingStays, NEW q, parts' = [parts EXCEPT ![cur] = q],
         NEW s, calls' = s, Covers(q.stack, s, pc' = "tree")
  PROVE  CoverInv'
<1>1. parts'[cur] = q /\ \A ch \in Channels : ch # cur => parts'[ch] = parts[ch]
  <2>1. parts = [ch \in Channels |-> parts[ch]] /\ cur \in Channels BY DEF IInv, PartsOK
  <2> QED BY <2>1
<1>2. CASE cfg.dual
  <2>1. \A ch \in Channels : coded[ch] = Walked(cfg, parts[ch].stack, Len(parts[ch].stack),
                                                IF ch = cur THEN pc = "tree" ELSE WaitsHere(ch))
    BY <1>2 DEF CoverInv
  <2>2. /\ coded'[cur] = Walked(cfg, q.stack, Len(q.stack), pc' = "tree")
        /\ \A ch \in Channels : ch # cur => coded'[ch] = coded[ch]
    BY <1>2 DEF Covers
  <2>3. ASSUME NEW ch \in Channels
        PROVE  coded'[ch] = Walked(cfg, parts'[ch].stack, Len(parts'[ch].stack),
                                   IF ch = cur THEN pc' = "tree" ELSE WaitsHere(ch)')
    <3>1. CASE ch = cur BY <1>1, <2>2, <3>1
    <3>2. CASE ch # cur
      <4>1. coded'[ch] = Walked(cfg, parts'[ch].stack, Len(parts'[ch].stack), WaitsHere(ch))
        BY <1>1, <2>1, <2>2, <3>2
      <4>2. CASE ch = "CHROMA"
        <5>1. WaitsHere(ch) = TRUE /\ WaitsHere(ch)' = TRUE BY <4>2 DEF WaitsHere
        <5> QED BY <3>2, <4>1, <5>1
      <4>3. CASE ch = "LUMA"
        <5>1. WaitsHere("LUMA")' = WaitsHere("LUMA")
          <6>1. WaitsHere("LUMA")' <=> WaitsHere("LUMA") BY DEF WaitingStays
          <6> QED BY <6>1 DEF WaitsHere
        <5> QED BY <3>2, <4>1, <4>3, <5>1
      <4> QED BY <4>2, <4>3 DEF Channels
    <3> QED BY <3>1, <3>2
  <2> QED BY <1>2, <2>3 DEF CoverInv
<1>3. CASE ~cfg.dual
  <2>1. /\ coded'["LUMA"] = Walked(cfg, q.stack, Len(q.stack), (pc' = "tree") /\ ~InItsChroma(s))
        /\ LumaOnly(s) = {} => coded'["CHROMA"] = Walked(cfg, q.stack, Len(q.stack), pc' = "tree")
        /\ \A i \in LumaOnly(s) : coded'["CHROMA"] = Walked(cfg, q.stack, i, ~InItsChroma(s) \/ pc' = "tree")
    BY <1>3 DEF Covers
  <2> QED BY <1>1, <1>3, <2>1 DEF CoverInv
<1> QED BY <1>2, <1>3

\* A part outside the picture is passed at once.
LEMMA CalledCovers ==
  ASSUME ConfigOK(cfg), NEW ch, NEW p, PartOK(p), Settled(cfg, ch, p.stack)
  PROVE  Walked(cfg, p.stack, Len(p.stack), Called(p) = "tree") = Walked(cfg, p.stack, Len(p.stack), TRUE)
<1> DEFINE n == Len(p.stack)
<1>1. n \in 1 .. Len(p.stack)
  <2>1. Len(p.stack) = Len(Front(p.stack)) + 1 /\ Len(Front(p.stack)) \in Nat BY StackParts
  <2> QED BY <2>1
<1>2. Area(p) = CurrentPart(p.stack[n]) BY DEF Area, Last
<1>3. CASE InPicture(cfg, Area(p).x, Area(p).y)
  <2>1. (Called(p) = "tree") = TRUE BY <1>3 DEF Called
  <2> QED BY <2>1
<1>4. CASE ~InPicture(cfg, Area(p).x, Area(p).y)
  <2>1. (Called(p) = "tree") = FALSE BY <1>4 DEF Called
  <2>2. Walked(cfg, p.stack, n, TRUE) = Walked(cfg, p.stack, n, FALSE)
    <3> HIDE DEF n
    <3> QED BY <1>1, <1>2, <1>4, WalkedOutside
  <2> QED BY <2>1, <2>2
<1> QED BY <1>3, <1>4

\* The stacks are as they should be after the step, too.
LEMMA NextSettled ==
  ASSUME IInv, ShapeInv, PlacesInv, [Next]_vars, cfg' = cfg, NEW ch \in Channels
  PROVE  ConfigOK(cfg) /\ PartOK(parts'[ch]) /\ Settled(cfg, ch, parts'[ch].stack)
<1>1. IInv' /\ ShapeInv' /\ PlacesInv' BY StepKeeps, StepShape, StepPlaces
<1> DEFINE q == parts'[ch]
           s == WaitingFor(ch)'
           m == parts'[ch].modeType
<1>2. PartOK(q) BY <1>1 DEF IInv, PartsOK
<1>3. Shaped(cfg', ch, q.stack, s, m) BY <1>1 DEF ShapeInv
<1>4. Placed(cfg', ch, q.stack) BY <1>1 DEF PlacesInv
<1>5. ConfigOK(cfg) BY ConfigAssumption, ConfigFacts DEF IInv
<1> HIDE DEF q, s, m
<1>6. Settled(cfg, ch, q.stack) BY <1>2, <1>3, <1>4, ShapedSettles
<1> QED BY <1>2, <1>5, <1>6 DEF q

\* Stacks that are alike are covered alike.
LEMMA WalkedOnAlike ==
  ASSUME NEW c, NEW s, NEW t, Alike(s, t), Len(s) \in Nat, NEW i \in 1 .. Len(s), NEW here
  PROVE  Walked(c, s, i, here) = Walked(c, t, i, here)
<1>1. \A k \in 1 .. i : k \in 1 .. Len(s) OBVIOUS
<1>2. \A k \in 1 .. i : s[k].idx = t[k].idx /\ s[k].parts = t[k].parts BY <1>1 DEF Alike
<1>3. i \in Nat /\ i > 0 OBVIOUS
<1> QED BY <1>2, <1>3, WalkedAlike

\* A coding unit: its blocks, in the channels it is of.
LEMMA CodeUnitCovers ==
  ASSUME IInv, ShapeInv, WalkInv, CodeUnit, pc' # "aborted"
  PROVE  CoverInv'
<1> DEFINE stack == parts[cur].stack
           n == Len(stack)
<1>1. /\ PlacesInv /\ CoverInv /\ LumaOnlyInv /\ pc = "tree" /\ pc # "aborted" /\ "NO" \in permitted
  BY DEF WalkInv, CodeUnit
<1>2. /\ parts' = [parts EXCEPT ![cur] = part] /\ UNCHANGED <<cfg, cur, calls>> /\ pc' = "return"
      /\ coded' = [ch \in Channels |-> IF ch \in ChannelsOf(cfg, part)
                                       THEN coded[ch] \cup Cells(cfg, area) ELSE coded[ch]]
  BY DEF CodeUnit, Abort
<1>3. WaitingStays BY CodeUnitTurns
<1>4. ~Crosses(cfg, area) BY <1>1, UnitsAreInside
<1>5. /\ ConfigOK(cfg) /\ Settled(cfg, cur, stack) /\ n \in Nat /\ n > 0
      /\ area = CurrentPart(stack[n]) /\ Alike(part.stack, stack)
  BY <1>1, HereSettled
<1>6. /\ cur \in Channels /\ TreeOK(part, calls) /\ part.modeType \in ModesOf(cfg)
      /\ (cfg.dual => ~InItsChroma(calls)) /\ SameKinds(part, parts[cur]) /\ IsSeq(calls)
      /\ part.chType = IF cur = "LUMA" /\ InItsChroma(calls) THEN "CHROMA" ELSE cur
  BY <1>1, Here
<1>7. n \in 1 .. Len(stack) BY <1>5
<1>8. Walked(cfg, stack, n, FALSE) = Walked(cfg, stack, n, TRUE) \cup Cells(cfg, area)
  <2> HIDE DEF stack, n, area
  <2>1. ~Crosses(cfg, CurrentPart(stack[n])) BY <1>4, <1>5
  <2>2. Walked(cfg, stack, n, FALSE) = Walked(cfg, stack, n, TRUE) \cup Cells(cfg, CurrentPart(stack[n]))
    BY <1>5, <1>7, <2>1, WalkedUnit
  <2> QED BY <1>5, <2>2
<1>9. \A ch \in ChannelsOf(cfg, part) : coded[ch] = Walked(cfg, stack, n, TRUE) BY <1>1, HereCovered
<1>10. \A ch \in Channels : coded'[ch] = IF ch \in ChannelsOf(cfg, part) THEN Walked(cfg, stack, n, FALSE) ELSE coded[ch]
  BY <1>2, <1>8, <1>9
<1>11. Len(part.stack) = n BY <1>5 DEF Alike
<1>12. \A i \in 1 .. n : \A here : Walked(cfg, part.stack, i, here) = Walked(cfg, stack, i, here)
  <2> HIDE DEF part, stack
  <2> QED BY <1>5, <1>11, WalkedOnAlike DEF n
<1>13. n \in 1 .. n BY <1>7
<1>14. LumaOnly(calls) \subseteq 1 .. n
  <2>1. DOMAIN calls = 1 .. Len(calls) /\ Len(calls) \in Nat BY <1>6, AppendIsSeq
  <2>2. n = 1 + Len(calls) - (IF InItsChroma(calls) THEN 1 ELSE 0) BY DEF IInv, LengthInv
  <2> HIDE DEF n
  <2>3. Len(calls) <= n
    <3>1. CASE InItsChroma(calls) BY <1>5, <2>1, <2>2, <3>1
    <3>2. CASE ~InItsChroma(calls) BY <1>5, <2>1, <2>2, <3>2
    <3> QED BY <3>1, <3>2
  <2>4. LumaOnly(calls) \subseteq 1 .. Len(calls) BY <2>1 DEF LumaOnly
  <2>5. \A i \in 1 .. Len(calls) : i \in 1 .. n BY <1>5, <2>1, <2>3
  <2> QED BY <2>4, <2>5
<1>15. "LUMA" \in Channels /\ "CHROMA" \in Channels BY DEF Channels
<1>16. Covers(part.stack, calls, FALSE)
  <2> HIDE DEF stack, n, part
  <2>1. CASE cfg.dual
    <3>1. part.chType = cur /\ ChannelsOf(cfg, part) = {cur} BY <1>6, <2>1 DEF ChannelsOf, IsSepTree
    <3> QED BY <1>6, <1>10, <1>11, <1>12, <1>13, <2>1, <3>1 DEF Covers
  <2>2. CASE ~cfg.dual
    <3>1. cur = "LUMA" BY <1>6, <2>2 DEF ShapeInv, Channels
    <3>2. /\ coded["LUMA"] = Walked(cfg, stack, n, ~InItsChroma(calls))
          /\ LumaOnly(calls) = {} => coded["CHROMA"] = Walked(cfg, stack, n, TRUE)
          /\ \A i \in LumaOnly(calls) : coded["CHROMA"] = Walked(cfg, stack, i, TRUE)
      BY <1>1, <2>2 DEF CoverInv, stack, n
    <3>3. LumaOnly(calls) = {} <=> part.modeType # "INTRA" BY <1>1, <1>6, <2>2 DEF LumaOnlyInv, SameKinds
    <3>4. \A i, j \in LumaOnly(calls) : i = j BY <1>1, <2>2 DEF LumaOnlyInv
    <3>5. CASE InItsChroma(calls)
      <4>1. part.treeType = "TREE_C" /\ part.chType = "CHROMA" BY <1>6, <3>1, <3>5 DEF TreeOK
      <4>2. ChannelsOf(cfg, part) = {"CHROMA"} BY <4>1 DEF ChannelsOf, IsSepTree
      <4>3. Len(calls) = n /\ Len(calls) \in LumaOnly(calls) BY <3>5, ChromaOfBlock DEF n, stack
      <4>4. \A i \in LumaOnly(calls) : i = n BY <3>4, <4>3
      <4>5. coded'["LUMA"] = Walked(cfg, stack, n, FALSE) /\ coded'["CHROMA"] = Walked(cfg, stack, n, FALSE)
        BY <1>10, <1>15, <3>2, <3>5, <4>2
      <4> QED BY <1>11, <1>12, <1>13, <2>2, <3>5, <4>3, <4>4, <4>5 DEF Covers
    <3>6. CASE ~InItsChroma(calls) /\ part.modeType = "INTRA"
      <4>1. part.treeType = "TREE_L" /\ part.chType = "LUMA" BY <1>6, <3>1, <3>6 DEF TreeOK
      <4>2. ChannelsOf(cfg, part) = {"LUMA"} BY <4>1 DEF ChannelsOf, IsSepTree
      <4>3. coded'["LUMA"] = Walked(cfg, stack, n, FALSE) /\ coded'["CHROMA"] = coded["CHROMA"]
        BY <1>10, <1>15, <4>2
      <4>4. \A i \in LumaOnly(calls) : coded'["CHROMA"] = Walked(cfg, part.stack, i, TRUE)
        BY <1>12, <1>14, <3>2, <4>3
      <4> QED BY <1>11, <1>12, <1>13, <2>2, <3>3, <3>6, <4>3, <4>4 DEF Covers
    <3>7. CASE ~InItsChroma(calls) /\ part.modeType # "INTRA"
      <4>1. part.treeType = "TREE_D" BY <1>6, <3>7 DEF TreeOK
      <4>2. ChannelsOf(cfg, part) = Channels BY <2>2, <4>1 DEF ChannelsOf, IsSepTree
      <4>3. coded'["LUMA"] = Walked(cfg, stack, n, FALSE) /\ coded'["CHROMA"] = Walked(cfg, stack, n, FALSE)
        BY <1>10, <1>15, <4>2
      <4> QED BY <1>11, <1>12, <1>13, <2>2, <3>3, <3>7, <4>3 DEF Covers
    <3> QED BY <3>5, <3>6, <3>7
  <2> QED BY <2>1, <2>2
<1>17. Covers(part.stack, calls, pc' = "tree") BY <1>2, <1>16
<1>18. calls' = calls /\ cfg' = cfg /\ cur' = cur BY <1>2
<1> HIDE DEF part
<1> QED BY <1>1, <1>2, <1>3, <1>17, <1>18, TreeCovers

\* A split of one tree: its parts are its block, and are yet to come.
LEMMA SplitNodeCovers ==
  ASSUME IInv, ShapeInv, WalkInv, NEW split \in Splits, SplitNode(split)
  PROVE  CoverInv'
<1> DEFINE stack == parts[cur].stack
           n == Len(stack)
<1>1. PlacesInv /\ CoverInv /\ LumaOnlyInv /\ pc = "tree" /\ split \in permitted BY DEF WalkInv, SplitNode
<1>2. PICK modeType \in ModeTypes(cfg, part, split) : \E q, call, qgEnable :
        NodeSplits(split, modeType, q, call, qgEnable)
  BY <1>1, NodeIsSplit
<1>3. PICK q, call, qgEnable : NodeSplits(split, modeType, q, call, qgEnable) BY <1>2
<1> DEFINE level == Level(split, SubAreas(area, split), qgEnable)
           s == Append(calls, call)
<1>4. /\ parts' = [parts EXCEPT ![cur] = q] /\ calls' = s /\ cfg' = cfg /\ cur' = cur /\ pc' = pc /\ coded' = coded
      /\ q.stack = Append(part.stack, level) /\ call.kind = "node"
      /\ call.chromaNotSplit <=> (part.modeType = "ALL" /\ modeType = "INTRA")
  BY <1>3 DEF NodeSplits
<1>5. WaitingStays BY SplitNodeTurns
<1>6. /\ ConfigOK(cfg) /\ n \in Nat /\ n > 0 /\ area = CurrentPart(stack[n]) /\ Alike(part.stack, stack) /\ Measured(area)
  BY <1>1, HereSettled
<1>7. /\ cur \in Channels /\ PartOK(part) /\ SameKinds(part, parts[cur]) /\ IsSeq(calls) /\ area = Area(part)
  BY <1>1, Here
<1>8. ~InItsChroma(calls) BY <1>1, PermittedSplits
<1>9. ~InItsChroma(s)
  <2>1. s # <<>> /\ Last(s) = call BY <1>7, AppendIsSeq DEF Last
  <2> QED BY <1>4, <2>1 DEF InItsChroma
<1>10. Len(part.stack) = n BY <1>6 DEF Alike
<1>11. IsSeq(part.stack) BY <1>7 DEF PartOK, StackOK
<1>12. \A i \in 1 .. n : \A here : Walked(cfg, part.stack, i, here) = Walked(cfg, stack, i, here)
  <2> HIDE DEF part, stack
  <2> QED BY <1>6, <1>10, WalkedOnAlike DEF n
<1>13. Len(q.stack) = n + 1 /\ Walked(cfg, q.stack, Len(q.stack), TRUE) = Walked(cfg, stack, n, TRUE)
  <2> HIDE DEF part, area, stack, n
  <2>1. Len(q.stack) = n + 1 BY <1>4, <1>10, <1>11, AppendIsSeq
  <2>2. Walked(cfg, q.stack, n + 1, TRUE) = Walked(cfg, part.stack, n, TRUE)
    BY <1>4, <1>6, <1>7, <1>10, WalkedSplit
  <2>3. n \in 1 .. n BY <1>6
  <2> QED BY <1>12, <2>1, <2>2, <2>3
<1>14. \A i \in 1 .. n : \A here : Walked(cfg, q.stack, i, here) = Walked(cfg, stack, i, here)
  <2> HIDE DEF part, level, stack, n
  <2> QED BY <1>4, <1>10, <1>11, <1>12, WalkedBelow
<1>15. Len(calls) + 1 = n /\ Len(calls) \in Nat
  <2>1. n = 1 + Len(calls) - 0 BY <1>8 DEF IInv, LengthInv
  <2>2. Len(calls) \in Nat BY <1>7, AppendIsSeq
  <2> HIDE DEF n
  <2> QED BY <1>6, <2>1, <2>2
<1>16. Covers(q.stack, s, TRUE)
  <2>1. CASE cfg.dual
    <3>1. coded[cur] = Walked(cfg, stack, n, IF cur = cur THEN TRUE ELSE WaitsHere(cur))
      BY <1>1, <1>7, <2>1 DEF CoverInv
    <3> HIDE DEF stack, n
    <3> QED BY <1>4, <1>13, <2>1, <3>1 DEF Covers
  <2>2. CASE ~cfg.dual
    <3>1. /\ coded["LUMA"] = Walked(cfg, stack, n, TRUE)
          /\ LumaOnly(calls) = {} => coded["CHROMA"] = Walked(cfg, stack, n, TRUE)
          /\ \A i \in LumaOnly(calls) : coded["CHROMA"] = Walked(cfg, stack, i, TRUE)
      BY <1>1, <1>8, <2>2 DEF CoverInv
    <3>2. LumaOnly(calls) = {} <=> part.modeType # "INTRA" BY <1>1, <1>7, <2>2 DEF LumaOnlyInv, SameKinds
    <3>3. LumaOnlyOf(calls, call) BY <1>7, LumaOnlyAppend
    <3> HIDE DEF stack, n
    <3>4. /\ LumaOnly(calls) \subseteq 1 .. Len(calls)
          /\ LumaOnly(s) = LumaOnly(calls) \cup {i \in {n} : call.chromaNotSplit}
      BY <1>4, <1>15, <3>3 DEF LumaOnlyOf
    <3>5. \A i \in 1 .. Len(calls) : i \in 1 .. n BY <1>6, <1>15
    <3>6. n \in 1 .. n BY <1>6
    <3> HIDE DEF s
    <3>7. LumaOnly(s) = {} => coded'["CHROMA"] = Walked(cfg, q.stack, Len(q.stack), TRUE)
      BY <1>4, <1>13, <3>1, <3>4
    <3>8. ASSUME NEW i \in LumaOnly(s) PROVE coded'["CHROMA"] = Walked(cfg, q.stack, i, TRUE)
      <4>1. CASE i \in LumaOnly(calls) BY <1>4, <1>14, <3>1, <3>4, <3>5, <4>1
      <4>2. CASE i = n /\ call.chromaNotSplit
        <5>1. LumaOnly(calls) = {} BY <1>4, <3>2, <4>2
        <5> QED BY <1>4, <1>14, <3>1, <3>6, <4>2, <5>1
      <4> QED BY <3>4, <4>1, <4>2
    <3> QED BY <1>4, <1>9, <1>13, <2>2, <3>1, <3>7, <3>8 DEF Covers
  <2> QED BY <2>1, <2>2
<1>17. Covers(q.stack, s, pc' = "tree")
  <2>1. (pc' = "tree") = TRUE BY <1>1, <1>4
  <2> QED BY <1>16, <2>1
<1> HIDE DEF s
<1> QED BY <1>1, <1>4, <1>5, <1>17, TreeCovers

\* In a loop over the parts all the blocks whose chroma is not split along are below.
LEMMA LumaOnlyBelow ==
  ASSUME IInv, ShapeInv, CoverInv, InLoop("node")
  PROVE  /\ LumaOnly(calls) \subseteq 1 .. Len(Front(parts[cur].stack))
         /\ cfg.dual => coded[cur] = Walked(cfg, parts[cur].stack, Len(parts[cur].stack), FALSE)
         /\ ~cfg.dual =>
              /\ coded["LUMA"] = Walked(cfg, parts[cur].stack, Len(parts[cur].stack), FALSE)
              /\ LumaOnly(calls) = {} => coded["CHROMA"] = Walked(cfg, parts[cur].stack, Len(parts[cur].stack), FALSE)
              /\ \A i \in LumaOnly(calls) : coded["CHROMA"] = Walked(cfg, Front(parts[cur].stack), i, TRUE)
<1> DEFINE p == parts[cur]
           f == Front(p.stack)
           n == Len(p.stack)
<1>1. /\ calls = Append(Front(calls), Last(calls)) /\ Len(calls) = Len(Front(calls)) + 1 /\ Len(Front(calls)) \in Nat
      /\ ~InItsChroma(calls) /\ PartOK(p) /\ cur \in Channels /\ pc = "return" /\ ~(pc = "tree")
      /\ p.stack = Append(f, Top(p)) /\ IsSeq(f) /\ Len(f) = Len(calls)
  BY NodeLoop
<1>2. LumaOnly(calls) \subseteq 1 .. Len(f)
  <2>1. IsSeq(calls) BY DEF IInv, CallsOK
  <2>2. DOMAIN calls = 1 .. Len(calls) BY <2>1, AppendIsSeq
  <2> QED BY <1>1, <2>2 DEF LumaOnly
<1>3. CASE cfg.dual
  <2>1. coded[cur] = Walked(cfg, p.stack, n, IF cur = cur THEN pc = "tree" ELSE WaitsHere(cur))
    BY <1>1, <1>3 DEF CoverInv
  <2>2. (pc = "tree") = FALSE BY <1>1
  <2> QED BY <1>2, <1>3, <2>1, <2>2
<1>4. CASE ~cfg.dual
  <2>1. /\ coded["LUMA"] = Walked(cfg, p.stack, n, FALSE)
        /\ LumaOnly(calls) = {} => coded["CHROMA"] = Walked(cfg, p.stack, n, FALSE)
        /\ \A i \in LumaOnly(calls) : coded["CHROMA"] = Walked(cfg, p.stack, i, TRUE)
    BY <1>1, <1>4 DEF CoverInv
  <2>2. \A i \in 1 .. Len(f) : \A here : Walked(cfg, p.stack, i, here) = Walked(cfg, f, i, here)
    <3> HIDE DEF p, f
    <3> QED BY <1>1, WalkedBelow
  <2> QED BY <1>2, <1>4, <2>1, <2>2
<1> QED BY <1>3, <1>4

\* The next part of a block of a tree.
LEMMA NextNodePartCovers ==
  ASSUME IInv, ShapeInv, WalkInv, NextNodePart
  PROVE  CoverInv'
<1> DEFINE p == parts[cur]
           q == NextPart(p)
           f == Front(p.stack)
           d == [Top(p) EXCEPT !.idx = @ + 1, !.implicit = "UNCHECKED"]
           n == Len(p.stack)
<1>1. /\ InLoop("node") /\ pc = "return" /\ pc # "aborted" /\ PlacesInv /\ CoverInv /\ HasNextPart(p)
      /\ parts' = [parts EXCEPT ![cur] = q] /\ UNCHANGED <<cfg, cur, calls, coded>>
  BY DEF NextNodePart, InLoop, WalkInv
<1>2. pc' = Called(parts'[cur]) BY DEF NextNodePart
<1>3. WaitingStays BY NextNodePartTurns
<1>4. PartOK(p) /\ cur \in Channels /\ IsSeq(f) /\ n = Len(f) + 1 /\ ~InItsChroma(calls)
  <2>1. PartOK(p) /\ cur \in Channels /\ IsSeq(f) /\ ~InItsChroma(calls) BY <1>1, NodeLoop
  <2> QED BY <2>1, StackParts
<1>5. parts'[cur] = q
  <2>1. parts = [ch \in Channels |-> parts[ch]] BY DEF IInv, PartsOK
  <2> QED BY <1>1, <1>4, <2>1
<1>6. ConfigOK(cfg) /\ PartOK(q) /\ Settled(cfg, cur, q.stack)
  <2>1. [Next]_vars BY DEF Next
  <2>2. cfg' = cfg BY <1>1
  <2> HIDE DEF q
  <2> QED BY <1>1, <1>4, <1>5, <2>1, <2>2, NextSettled
<1>7. q.stack = Append(f, d) BY <1>4, NextStack
<1>8. Len(q.stack) = n BY <1>4, <1>7, AppendIsSeq
<1>9. Walked(cfg, q.stack, Len(q.stack), Called(q) = "tree") = Walked(cfg, p.stack, n, FALSE)
  <2>1. Walked(cfg, q.stack, n, TRUE) = Walked(cfg, p.stack, n, FALSE)
    <3> HIDE DEF p
    <3> QED BY <1>1, <1>4, WalkedNext
  <2>2. Walked(cfg, q.stack, Len(q.stack), Called(q) = "tree") = Walked(cfg, q.stack, Len(q.stack), TRUE)
    <3> HIDE DEF q
    <3> QED BY <1>6, CalledCovers
  <2> QED BY <1>8, <2>1, <2>2
<1>10. /\ LumaOnly(calls) \subseteq 1 .. Len(f)
       /\ cfg.dual => coded[cur] = Walked(cfg, p.stack, n, FALSE)
       /\ ~cfg.dual => /\ coded["LUMA"] = Walked(cfg, p.stack, n, FALSE)
                       /\ LumaOnly(calls) = {} => coded["CHROMA"] = Walked(cfg, p.stack, n, FALSE)
                       /\ \A i \in LumaOnly(calls) : coded["CHROMA"] = Walked(cfg, f, i, TRUE)
  BY <1>1, LumaOnlyBelow
<1> HIDE DEF q, d, f, p, n
<1>11. \A i \in 1 .. Len(f) : \A here : Walked(cfg, q.stack, i, here) = Walked(cfg, f, i, here)
  BY <1>4, <1>7, WalkedBelow
<1>12. Covers(q.stack, calls, Called(q) = "tree")
  <2>1. CASE cfg.dual BY <1>1, <1>9, <1>10, <2>1 DEF Covers
  <2>2. CASE ~cfg.dual
    <3>1. \A i \in LumaOnly(calls) : coded'["CHROMA"] = Walked(cfg, q.stack, i, TRUE) BY <1>1, <1>10, <1>11, <2>2
    <3>2. /\ coded'["LUMA"] = Walked(cfg, q.stack, Len(q.stack), Called(q) = "tree")
          /\ LumaOnly(calls) = {} => coded'["CHROMA"] = Walked(cfg, q.stack, Len(q.stack), Called(q) = "tree")
      BY <1>1, <1>9, <1>10, <2>2
    <3>3. ((Called(q) = "tree") /\ ~InItsChroma(calls)) = (Called(q) = "tree") BY <1>4 DEF Called
    <3>4. (~InItsChroma(calls) \/ (Called(q) = "tree")) = TRUE BY <1>4
    <3> QED BY <2>2, <3>1, <3>2, <3>3, <3>4 DEF Covers
  <2> QED BY <2>1, <2>2
<1>13. Covers(q.stack, calls, pc' = "tree") BY <1>2, <1>5, <1>12
<1> QED BY <1>1, <1>3, <1>13, TreeCovers

\* The end of the loop over the parts: the whole block was passed.
LEMMA ExitNodeCovers ==
  ASSUME IInv, ShapeInv, WalkInv, ExitNode
  PROVE  CoverInv'
<1> DEFINE p == parts[cur]
           f == Front(p.stack)
           last == Last(calls)
           before == Front(calls)
           n == Len(p.stack)
<1>1. /\ InLoop("node") /\ pc = "return" /\ pc # "aborted" /\ PlacesInv /\ CoverInv /\ LumaOnlyInv /\ ~HasNextPart(p)
  BY DEF ExitNode, InLoop, WalkInv
<1>2. PICK q, call : NodeExits(q, call) BY NodeIsLeft
<1>3. /\ parts' = [parts EXCEPT ![cur] = q] /\ cfg' = cfg /\ cur' = cur /\ coded' = coded /\ q.stack = f
      /\ IF last.chromaNotSplit
         THEN /\ calls' = Append(before, call) /\ call.kind = "chroma" /\ call.chromaNotSplit /\ pc' = Called(q)
         ELSE calls' = before /\ pc' = pc
  BY <1>2 DEF NodeExits
<1>4. WaitingStays BY ExitNodeTurns
<1>5. /\ PartOK(p) /\ cur \in Channels /\ p.stack = Append(f, Top(p)) /\ IsSeq(f) /\ Len(f) = Len(calls)
      /\ LumaOnlyOf(before, last) /\ calls = Append(before, last) /\ IsSeq(before)
      /\ Len(calls) = Len(before) + 1 /\ Len(before) \in Nat /\ last.kind = "node" /\ Leads(cfg, last, p.modeType)
      /\ ~InItsChroma(before)
  BY <1>1, NodeLoop
<1>6. Walked(cfg, f, Len(f), FALSE) = Walked(cfg, p.stack, n, FALSE)
  <2> HIDE DEF p
  <2> QED BY <1>1, <1>5, WalkedExit
<1>7. /\ LumaOnly(calls) \subseteq 1 .. Len(f)
      /\ cfg.dual => coded[cur] = Walked(cfg, p.stack, n, FALSE)
      /\ ~cfg.dual => /\ coded["LUMA"] = Walked(cfg, p.stack, n, FALSE)
                      /\ LumaOnly(calls) = {} => coded["CHROMA"] = Walked(cfg, p.stack, n, FALSE)
                      /\ \A i \in LumaOnly(calls) : coded["CHROMA"] = Walked(cfg, f, i, TRUE)
  BY <1>1, LumaOnlyBelow
<1>8. LumaOnlyOf(before, call) BY <1>5, LumaOnlyAppend
<1>9. (pc = "tree") = FALSE BY <1>1
<1>10. PartOK(parts'[cur]) /\ Settled(cfg, cur, parts'[cur].stack) /\ ConfigOK(cfg)
  <2>1. [Next]_vars BY DEF Next
  <2> QED BY <1>1, <1>3, <1>5, <2>1, NextSettled
<1>11. parts'[cur] = q
  <2>1. parts = [ch \in Channels |-> parts[ch]] BY DEF IInv, PartsOK
  <2> QED BY <1>3, <1>5, <2>1
<1> HIDE DEF f, before, last, p, n
<1>12. /\ LumaOnly(before) \subseteq 1 .. Len(before)
       /\ LumaOnly(calls) = LumaOnly(before) \cup {i \in {Len(before) + 1} : last.chromaNotSplit}
  BY <1>5 DEF LumaOnlyOf
<1>13. CASE last.chromaNotSplit
  <2> DEFINE s == Append(before, call)
  <2>1. s # <<>> /\ Last(s) = call BY <1>5, AppendIsSeq DEF Last
  <2>2. InItsChroma(s) BY <1>3, <1>13, <2>1 DEF InItsChroma
  <2>3. LumaOnly(s) = LumaOnly(calls)
    <3>1. LumaOnly(s) = LumaOnly(before) \cup {i \in {Len(before) + 1} : call.kind # "joint" /\ call.chromaNotSplit}
      BY <1>8 DEF LumaOnlyOf
    <3> QED BY <1>3, <1>12, <1>13, <3>1
  <2>4. ~cfg.dual
    <3>1. p.modeType = "INTRA" BY <1>5, <1>13 DEF Leads
    <3>2. p.modeType \in ModesOf(cfg) BY DEF ShapeInv, Led, p
    <3> QED BY <3>1, <3>2 DEF ModesOf
  <2>5. Len(f) \in LumaOnly(calls) BY <1>5, <1>12, <1>13
  <2>6. \A i \in LumaOnly(calls) : i = Len(f) BY <1>1, <2>4, <2>5 DEF LumaOnlyInv
  <2>7. Walked(cfg, q.stack, Len(q.stack), Called(q) = "tree") = Walked(cfg, q.stack, Len(q.stack), TRUE)
    BY <1>10, <1>11, CalledCovers
  <2>8. coded'["CHROMA"] = Walked(cfg, q.stack, Len(q.stack), Called(q) = "tree")
    BY <1>3, <1>7, <2>4, <2>5, <2>7
  <2>9. coded'["LUMA"] = Walked(cfg, q.stack, Len(q.stack), FALSE) BY <1>3, <1>6, <1>7, <2>4
  <2> HIDE DEF s
  <2>10. ((Called(q) = "tree") /\ ~InItsChroma(s)) = FALSE BY <2>2
  <2>11. (~InItsChroma(s) \/ (Called(q) = "tree")) = (Called(q) = "tree") BY <2>2 DEF Called
  <2>12. \A i \in LumaOnly(s) : coded'["CHROMA"] = Walked(cfg, q.stack, i, Called(q) = "tree")
    BY <1>3, <2>3, <2>6, <2>8
  <2>13. Covers(q.stack, s, Called(q) = "tree") BY <2>3, <2>4, <2>5, <2>9, <2>10, <2>11, <2>12 DEF Covers
  <2>14. calls' = s /\ pc' = Called(q) BY <1>3, <1>13 DEF s
  <2>15. Covers(q.stack, s, pc' = "tree") BY <2>13, <2>14
  <2> QED BY <1>1, <1>3, <1>4, <2>14, <2>15, TreeCovers
<1>14. CASE ~last.chromaNotSplit
  <2>1. calls' = before /\ pc' = pc /\ LumaOnly(before) = LumaOnly(calls) BY <1>3, <1>12, <1>14
  <2>2. Covers(q.stack, before, FALSE)
    <3>1. CASE cfg.dual BY <1>3, <1>6, <1>7, <3>1 DEF Covers
    <3>2. CASE ~cfg.dual BY <1>3, <1>5, <1>6, <1>7, <2>1, <3>2 DEF Covers
    <3> QED BY <3>1, <3>2
  <2>3. Covers(q.stack, before, pc' = "tree") BY <1>9, <2>1, <2>2
  <2> QED BY <1>1, <1>3, <1>4, <2>1, <2>3, TreeCovers
<1> QED BY <1>13, <1>14

\* After the chroma of a block that was split in luma only.
LEMMA RecoverCovers ==
  ASSUME IInv, ShapeInv, WalkInv, Recover
  PROVE  CoverInv'
<1> DEFINE stack == parts[cur].stack
           n == Len(stack)
           before == Front(calls)
<1>1. /\ pc = "return" /\ pc # "aborted" /\ calls # <<>> /\ Last(calls).kind = "chroma" /\ PlacesInv /\ CoverInv
  BY DEF WalkInv, Recover, InLoop
<1>2. PICK q : Recovers(q) BY RecoverStack
<1>3. /\ parts' = [parts EXCEPT ![cur] = q] /\ cfg' = cfg /\ cur' = cur /\ coded' = coded /\ calls' = before /\ pc' = pc
      /\ q.stack = stack
  BY <1>2 DEF Recovers
<1>4. WaitingStays BY RecoverTurns
<1>5. InItsChroma(calls) BY <1>1 DEF InItsChroma
<1>6. Len(calls) = n /\ Len(calls) \in LumaOnly(calls) /\ ~cfg.dual BY <1>5, ChromaOfBlock
<1>7. LumaOnly(before) = {} BY RecoverLumaOnly
<1>8. (pc = "tree") = FALSE BY <1>1
<1>9. coded["LUMA"] = Walked(cfg, stack, n, FALSE) /\ coded["CHROMA"] = Walked(cfg, stack, n, FALSE)
  <2>1. /\ coded["LUMA"] = Walked(cfg, stack, n, (pc = "tree") /\ ~InItsChroma(calls))
        /\ \A i \in LumaOnly(calls) : coded["CHROMA"] = Walked(cfg, stack, i, ~InItsChroma(calls) \/ pc = "tree")
    BY <1>1, <1>6 DEF CoverInv
  <2>2. ((pc = "tree") /\ ~InItsChroma(calls)) = FALSE /\ (~InItsChroma(calls) \/ pc = "tree") = FALSE BY <1>5, <1>8
  <2> HIDE DEF stack, n
  <2> QED BY <1>6, <2>1, <2>2
<1> HIDE DEF stack, n, before
<1>10. Covers(q.stack, before, FALSE)
  <2>1. (FALSE /\ ~InItsChroma(before)) = FALSE OBVIOUS
  <2> QED BY <1>3, <1>6, <1>7, <1>9, <2>1 DEF Covers, n
<1>11. Covers(q.stack, before, pc' = "tree") BY <1>3, <1>8, <1>10
<1> QED BY <1>1, <1>3, <1>4, <1>11, TreeCovers

\* The next part is on the same level.
LEMMA NextLength ==
  ASSUME NEW p, PartOK(p)
  PROVE  Len(NextPart(p).stack) = Len(p.stack)
<1> DEFINE d == [Top(p) EXCEPT !.idx = @ + 1, !.implicit = "UNCHECKED"]
           f == Front(p.stack)
<1>1. NextPart(p).stack = Append(f, d) BY NextStack
<1>2. IsSeq(f) /\ Len(p.stack) = Len(f) + 1 BY StackParts
<1> HIDE DEF d, f
<1>3. Len(Append(f, d)) = Len(f) + 1 BY <1>2, AppendIsSeq
<1> QED BY <1>1, <1>2, <1>3

\* Luma and chroma in turn, after a step: what is covered of each.
LEMMA JointCovers ==
  ASSUME cfg.dual, cfg' = cfg,
         coded'["LUMA"] = Walked(cfg, parts'["LUMA"].stack, Len(parts'["LUMA"].stack),
                                 IF "LUMA" = cur' THEN pc' = "tree" ELSE WaitsHere("LUMA")'),
         coded'["CHROMA"] = Walked(cfg, parts'["CHROMA"].stack, Len(parts'["CHROMA"].stack),
                                   IF "CHROMA" = cur' THEN pc' = "tree" ELSE TRUE)
  PROVE  CoverInv'
<1>1. WaitsHere("CHROMA")' = TRUE BY DEF WaitsHere
<1>2. ASSUME NEW ch \in Channels
      PROVE  coded'[ch] = Walked(cfg, parts'[ch].stack, Len(parts'[ch].stack),
                                 IF ch = cur' THEN pc' = "tree" ELSE WaitsHere(ch)')
  <2>1. CASE ch = "LUMA" BY <2>1
  <2>2. CASE ch = "CHROMA" BY <1>1, <2>2
  <2> QED BY <2>1, <2>2 DEF Channels
<1> QED BY <1>2 DEF CoverInv

\* What is covered when luma and chroma take turns.
LEMMA JointCovered ==
  ASSUME IInv, ShapeInv, WalkInv, InLoop("joint")
  PROVE  /\ cfg.dual /\ pc = "return" /\ Alternates(calls)
         /\ coded["LUMA"] = Walked(cfg, parts["LUMA"].stack, 2, IF "LUMA" = cur THEN FALSE ELSE WaitsHere("LUMA"))
         /\ coded["CHROMA"] = Walked(cfg, parts["CHROMA"].stack, 2, IF "CHROMA" = cur THEN FALSE ELSE TRUE)
         /\ \A ch \in Channels : /\ PartOK(parts[ch]) /\ Len(parts[ch].stack) = 2
                                 /\ ConfigOK(cfg) /\ Settled(cfg, ch, parts[ch].stack)
<1>1. cfg.dual BY JointFacts
<1>2. pc = "return" /\ CoverInv /\ PlacesInv BY DEF WalkInv, InLoop
<1>3. /\ Alternates(calls)
      /\ \A ch \in Channels : PartOK(parts[ch]) /\ Len(parts[ch].stack) = 2
  BY AlternatingFacts
<1>4. \A ch \in Channels : ConfigOK(cfg) /\ Settled(cfg, ch, parts[ch].stack) BY <1>2, AllSettled
<1>5. (pc = "tree") = FALSE /\ WaitsHere("CHROMA") = TRUE BY <1>2 DEF WaitsHere
<1>6. \A ch \in Channels : coded[ch] = Walked(cfg, parts[ch].stack, Len(parts[ch].stack),
                                              IF ch = cur THEN pc = "tree" ELSE WaitsHere(ch))
  BY <1>1, <1>2 DEF CoverInv
<1>7. "LUMA" \in Channels /\ "CHROMA" \in Channels BY DEF Channels
<1>8. /\ coded["LUMA"] = Walked(cfg, parts["LUMA"].stack, 2, IF "LUMA" = cur THEN pc = "tree" ELSE WaitsHere("LUMA"))
      /\ coded["CHROMA"] = Walked(cfg, parts["CHROMA"].stack, 2, IF "CHROMA" = cur THEN pc = "tree" ELSE WaitsHere("CHROMA"))
  BY <1>3, <1>6, <1>7
<1> QED BY <1>1, <1>2, <1>3, <1>4, <1>5, <1>8

\* Luma moves on to the next quarter before the chroma of this one, and waits there.
LEMMA LumaThenChromaCovers ==
  ASSUME IInv, ShapeInv, WalkInv, LumaThenChroma
  PROVE  CoverInv'
<1> DEFINE p == parts["LUMA"]
           r == parts["CHROMA"]
           q == Moved(p)
<1>1. /\ InLoop("joint") /\ cur = "LUMA" /\ parts' = [parts EXCEPT !["LUMA"] = q]
      /\ cur' = "CHROMA" /\ pc' = Called(r) /\ cfg' = cfg /\ calls' = calls /\ coded' = coded
  BY DEF LumaThenChroma
<1>2. "LUMA" \in Channels /\ "CHROMA" \in Channels BY DEF Channels
<1>3. /\ cfg.dual /\ Alternates(calls) /\ ConfigOK(cfg)
      /\ coded["LUMA"] = Walked(cfg, p.stack, 2, FALSE) /\ coded["CHROMA"] = Walked(cfg, r.stack, 2, TRUE)
      /\ PartOK(p) /\ PartOK(r) /\ Len(p.stack) = 2 /\ Len(r.stack) = 2 /\ Settled(cfg, "CHROMA", r.stack)
  BY <1>1, <1>2, JointCovered
<1>4. /\ HasNextPart(p) <=> p.stack[2].idx < 3
      /\ q.stack[2].idx = (IF p.stack[2].idx < 3 THEN p.stack[2].idx + 1 ELSE p.stack[2].idx)
      /\ p.stack[2].idx \in 0 .. 3
  BY <1>1, <1>2, QuartersInTurn
<1>5. p.stack[2].idx = r.stack[2].idx BY <1>1, <1>3 DEF WalkInv, TurnsInv
<1>6. parts'["LUMA"] = q /\ parts'["CHROMA"] = r
  <2>1. parts = [ch \in Channels |-> parts[ch]] BY DEF IInv, PartsOK
  <2> QED BY <1>1, <1>2, <2>1
<1>7. Alternates(calls') BY <1>1, <1>3
<1>8. WaitsHere("LUMA")' = (q.stack[2].idx # r.stack[2].idx) BY <1>6, <1>7 DEF WaitsHere
<1> DEFINE n == p.stack[2].idx
<1>9. coded["LUMA"] = Walked(cfg, q.stack, Len(q.stack), q.stack[2].idx # r.stack[2].idx)
  <2>1. CASE HasNextPart(p)
    <3>1. q = NextPart(p) BY <2>1 DEF Moved
    <3>2. Walked(cfg, NextPart(p).stack, Len(p.stack), TRUE) = Walked(cfg, p.stack, Len(p.stack), FALSE)
      <4> HIDE DEF p
      <4> QED BY <1>3, <2>1, WalkedNext
    <3>3. Len(NextPart(p).stack) = 2
      <4> HIDE DEF p
      <4> QED BY <1>3, NextLength
    <3>4. q.stack[2].idx = n + 1 /\ n \in Nat BY <1>4, <2>1
    <3> HIDE DEF n, q, p, r
    <3>5. (q.stack[2].idx # n) = TRUE BY <3>4
    <3> QED BY <1>3, <1>5, <3>1, <3>2, <3>3, <3>5 DEF n
  <2>2. CASE ~HasNextPart(p)
    <3>1. q = p BY <2>2 DEF Moved
    <3>2. (q.stack[2].idx # r.stack[2].idx) = FALSE BY <1>5, <3>1
    <3> HIDE DEF q, p, r
    <3> QED BY <1>3, <3>1, <3>2
  <2> QED BY <2>1, <2>2
<1>10. Walked(cfg, r.stack, Len(r.stack), Called(r) = "tree") = Walked(cfg, r.stack, Len(r.stack), TRUE)
  <2> HIDE DEF r
  <2> QED BY <1>3, CalledCovers
<1> HIDE DEF p, q, r
<1>11. coded'["LUMA"] = Walked(cfg, parts'["LUMA"].stack, Len(parts'["LUMA"].stack),
                               IF "LUMA" = cur' THEN pc' = "tree" ELSE WaitsHere("LUMA")')
  BY <1>1, <1>6, <1>8, <1>9
<1>12. coded'["CHROMA"] = Walked(cfg, parts'["CHROMA"].stack, Len(parts'["CHROMA"].stack),
                                 IF "CHROMA" = cur' THEN pc' = "tree" ELSE TRUE)
  BY <1>1, <1>3, <1>6, <1>10
<1> QED BY <1>1, <1>3, <1>11, <1>12, JointCovers

\* Chroma moves on to the next quarter, where luma is already.
LEMMA NextJointPartCovers ==
  ASSUME IInv, ShapeInv, WalkInv, NextJointPart
  PROVE  CoverInv'
<1> DEFINE p == parts["LUMA"]
           r == parts["CHROMA"]
           q == NextPart(r)
<1>1. /\ InLoop("joint") /\ cur = "CHROMA" /\ HasNextPart(r) /\ parts' = [parts EXCEPT !["CHROMA"] = q]
      /\ cur' = "LUMA" /\ pc' = Called(p) /\ cfg' = cfg /\ calls' = calls /\ coded' = coded
  BY DEF NextJointPart
<1>2. "LUMA" \in Channels /\ "CHROMA" \in Channels BY DEF Channels
<1>3. /\ cfg.dual /\ Alternates(calls) /\ ConfigOK(cfg)
      /\ coded["LUMA"] = Walked(cfg, p.stack, 2, WaitsHere("LUMA")) /\ coded["CHROMA"] = Walked(cfg, r.stack, 2, FALSE)
      /\ PartOK(p) /\ PartOK(r) /\ Len(p.stack) = 2 /\ Len(r.stack) = 2 /\ Settled(cfg, "LUMA", p.stack)
  BY <1>1, <1>2, JointCovered
<1>4. r.stack[2].idx < 3 /\ r.stack[2].idx \in 0 .. 3 BY <1>1, <1>2, QuartersInTurn
<1>5. p.stack[2].idx = r.stack[2].idx + 1
  <2>1. p.stack[2].idx \in (IF r.stack[2].idx < 3 THEN {r.stack[2].idx + 1} ELSE {r.stack[2].idx})
    BY <1>1, <1>3 DEF WalkInv, TurnsInv
  <2> HIDE DEF p, r
  <2> QED BY <1>4, <2>1
<1>6. parts'["LUMA"] = p /\ parts'["CHROMA"] = q
  <2>1. parts = [ch \in Channels |-> parts[ch]] BY DEF IInv, PartsOK
  <2> QED BY <1>1, <1>2, <2>1
<1>7. WaitsHere("LUMA") = TRUE
  <2>1. WaitsHere("LUMA") = (p.stack[2].idx # r.stack[2].idx) BY <1>3 DEF WaitsHere
  <2> DEFINE n == r.stack[2].idx
  <2>2. n \in Nat /\ p.stack[2].idx = n + 1 BY <1>4, <1>5
  <2> HIDE DEF n, p
  <2>3. p.stack[2].idx # n BY <2>2
  <2> QED BY <2>1, <2>3 DEF n
<1>8. Walked(cfg, p.stack, Len(p.stack), Called(p) = "tree") = Walked(cfg, p.stack, Len(p.stack), TRUE)
  <2> HIDE DEF p
  <2> QED BY <1>3, CalledCovers
<1>9. Walked(cfg, q.stack, 2, TRUE) = Walked(cfg, r.stack, 2, FALSE) /\ Len(q.stack) = 2
  <2> HIDE DEF r
  <2>1. Walked(cfg, q.stack, Len(r.stack), TRUE) = Walked(cfg, r.stack, Len(r.stack), FALSE)
    BY <1>1, <1>3, WalkedNext
  <2>2. Len(q.stack) = 2 BY <1>3, NextLength
  <2> QED BY <1>3, <2>1, <2>2
<1> HIDE DEF p, q, r
<1>10. coded'["LUMA"] = Walked(cfg, parts'["LUMA"].stack, Len(parts'["LUMA"].stack),
                               IF "LUMA" = cur' THEN pc' = "tree" ELSE WaitsHere("LUMA")')
  BY <1>1, <1>3, <1>6, <1>7, <1>8
<1>11. coded'["CHROMA"] = Walked(cfg, parts'["CHROMA"].stack, Len(parts'["CHROMA"].stack),
                                 IF "CHROMA" = cur' THEN pc' = "tree" ELSE TRUE)
  BY <1>1, <1>3, <1>6, <1>9
<1> QED BY <1>1, <1>3, <1>10, <1>11, JointCovers

\* The end of the four quarters, for luma and chroma at once.
LEMMA ExitJointlyCovers ==
  ASSUME IInv, ShapeInv, WalkInv, ExitJointly, pc' # "aborted"
  PROVE  CoverInv'
<1> DEFINE p == parts["LUMA"]
           r == parts["CHROMA"]
<1>1. /\ InLoop("joint") /\ cur = "CHROMA" /\ ~HasNextPart(r)
      /\ parts' = [ch \in Channels |-> ExitCurrSplit(parts[ch])] /\ calls' = <<>>
      /\ cfg' = cfg /\ cur' = cur /\ pc' = pc /\ coded' = coded
  BY DEF ExitJointly, Abort
<1>2. "LUMA" \in Channels /\ "CHROMA" \in Channels BY DEF Channels
<1>3. /\ cfg.dual /\ Alternates(calls) /\ pc = "return"
      /\ coded["LUMA"] = Walked(cfg, p.stack, 2, WaitsHere("LUMA")) /\ coded["CHROMA"] = Walked(cfg, r.stack, 2, FALSE)
      /\ PartOK(p) /\ PartOK(r) /\ Len(p.stack) = 2 /\ Len(r.stack) = 2
  BY <1>1, <1>2, JointCovered
<1>4. ~(r.stack[2].idx < 3) /\ (HasNextPart(p) <=> p.stack[2].idx < 3) BY <1>1, <1>2, QuartersInTurn
<1>5. p.stack[2].idx = r.stack[2].idx
  <2>1. p.stack[2].idx \in (IF r.stack[2].idx < 3 THEN {r.stack[2].idx + 1} ELSE {r.stack[2].idx})
    BY <1>1, <1>3 DEF WalkInv, TurnsInv
  <2> HIDE DEF p, r
  <2> QED BY <1>4, <2>1
<1>6. WaitsHere("LUMA") = FALSE BY <1>3, <1>5 DEF WaitsHere
<1>7. ~HasNextPart(p) BY <1>4, <1>5
<1>8. parts'["LUMA"].stack = Front(p.stack) /\ parts'["CHROMA"].stack = Front(r.stack)
  <2>1. parts'["LUMA"] = ExitCurrSplit(p) /\ parts'["CHROMA"] = ExitCurrSplit(r) BY <1>1, <1>2
  <2> HIDE DEF p, r
  <2> QED BY <1>3, <2>1, ExitStack
<1>9. /\ Walked(cfg, p.stack, 2, FALSE) = Walked(cfg, Front(p.stack), Len(Front(p.stack)), FALSE)
      /\ Walked(cfg, r.stack, 2, FALSE) = Walked(cfg, Front(r.stack), Len(Front(r.stack)), FALSE)
  <2> HIDE DEF p, r
  <2>1. Walked(cfg, p.stack, Len(p.stack), FALSE) = Walked(cfg, Front(p.stack), Len(Front(p.stack)), FALSE)
    BY <1>3, <1>7, WalkedExit
  <2>2. Walked(cfg, r.stack, Len(r.stack), FALSE) = Walked(cfg, Front(r.stack), Len(Front(r.stack)), FALSE)
    BY <1>1, <1>3, WalkedExit
  <2> QED BY <1>3, <2>1, <2>2
<1>10. WaitsHere("LUMA")' = FALSE /\ (pc' = "tree") = FALSE /\ "LUMA" # cur' BY <1>1, <1>3 DEF WaitsHere, Alternates
<1> HIDE DEF p, r
<1>11. coded'["LUMA"] = Walked(cfg, parts'["LUMA"].stack, Len(parts'["LUMA"].stack),
                               IF "LUMA" = cur' THEN pc' = "tree" ELSE WaitsHere("LUMA")')
  BY <1>1, <1>3, <1>6, <1>8, <1>9, <1>10
<1>12. coded'["CHROMA"] = Walked(cfg, parts'["CHROMA"].stack, Len(parts'["CHROMA"].stack),
                                 IF "CHROMA" = cur' THEN pc' = "tree" ELSE TRUE)
  BY <1>1, <1>3, <1>8, <1>9, <1>10
<1> QED BY <1>1, <1>3, <1>11, <1>12, JointCovers

\* The quadtree split of luma and chroma at once.
LEMMA SplitJointlyCovers ==
  ASSUME IInv, ShapeInv, WalkInv, SplitJointly
  PROVE  CoverInv'
<1>1. pc = "tree" /\ WithChroma /\ PlacesInv /\ CoverInv BY DEF SplitJointly, WalkInv
<1>2. JointSplits BY <1>1, JointIsSplit
<1>3. cur = "LUMA" /\ cfg.dual /\ ValidConfig(cfg) /\ (\A ch \in Channels : JointStart(ch)) BY <1>1, StartsJointly
<1>4. /\ cfg' = cfg /\ cur' = cur /\ pc' = pc /\ coded' = coded
      /\ \A ch \in Channels : \E qgEnable : Quarters(ch, qgEnable)
  BY <1>2 DEF JointSplits
<1>5. ConfigOK(cfg) BY <1>3, ConfigFacts
<1>6. ASSUME NEW ch \in Channels
      PROVE  /\ coded[ch] = Walked(cfg, parts[ch].stack, Len(parts[ch].stack), TRUE)
             /\ Walked(cfg, parts'[ch].stack, Len(parts'[ch].stack), TRUE)
                  = Walked(cfg, parts[ch].stack, Len(parts[ch].stack), TRUE)
  <2> DEFINE p == parts[ch]
             k == Checked(cfg, p)
             u == CtuArea(cfg)
  <2>1. coded[ch] = Walked(cfg, p.stack, Len(p.stack), TRUE)
    <3>1. coded[ch] = Walked(cfg, p.stack, Len(p.stack), IF ch = cur THEN pc = "tree" ELSE WaitsHere(ch))
      BY <1>1, <1>3 DEF CoverInv
    <3>2. ch # cur => WaitsHere(ch) = TRUE BY <1>3 DEF WaitsHere, Channels
    <3>3. (pc = "tree") = TRUE BY <1>1
    <3> HIDE DEF p
    <3>4. CASE ch = cur BY <3>1, <3>3, <3>4
    <3>5. CASE ch # cur BY <3>1, <3>2, <3>5
    <3> QED BY <3>4, <3>5
  <2>2. PICK qgEnable : Quarters(ch, qgEnable) BY <1>4
  <2> DEFINE level == Level("QUAD", SubAreas(u, "QUAD"), qgEnable)
  <2>3. parts'[ch].stack = Append(k.stack, level) BY <2>2 DEF Quarters
  <2>4. PartOK(p) /\ Len(p.stack) = 1 /\ Area(p) = u BY <1>3 DEF JointStart
  <2>5. Measured(u) BY <1>5 DEF ConfigOK
  <2> HIDE DEF p, u
  <2>6. PartOK(k) /\ Len(k.stack) = Len(p.stack) /\ Alike(k.stack, p.stack) BY <2>4, CheckedOK, CheckedAlike
  <2>7. Area(k) = u
    <3>1. Area(k) = CurrentPart(k.stack[1]) /\ Area(p) = CurrentPart(p.stack[1])
      BY <2>4, <2>6 DEF Area, Last
    <3>2. k.stack[1].idx = p.stack[1].idx /\ k.stack[1].parts = p.stack[1].parts BY <2>4, <2>6 DEF Alike
    <3> QED BY <2>4, <3>1, <3>2 DEF CurrentPart
  <2>8. "QUAD" \in Splits BY DEF Splits
  <2> DEFINE split == "QUAD"
             areas == SubAreas(Area(k), split)
  <2>9. parts'[ch].stack = Append(k.stack, Level(split, SubAreas(Area(k), split), qgEnable)) BY <2>3, <2>7
  <2>10. Measured(Area(k)) /\ split \in Splits BY <2>5, <2>7, <2>8
  <2> HIDE DEF k, split
  <2>11. Walked(cfg, parts'[ch].stack, Len(k.stack) + 1, TRUE) = Walked(cfg, k.stack, Len(k.stack), TRUE)
    BY <1>5, <2>6, <2>9, <2>10, WalkedSplit
  <2>12. Len(parts'[ch].stack) = Len(k.stack) + 1
    <3>1. IsSeq(k.stack) BY <2>6 DEF PartOK, StackOK
    <3> HIDE DEF level
    <3> QED BY <2>3, <3>1, AppendIsSeq
  <2>13. Walked(cfg, k.stack, Len(k.stack), TRUE) = Walked(cfg, p.stack, Len(p.stack), TRUE)
    <3>1. 1 \in 1 .. Len(k.stack) /\ Len(k.stack) \in Nat BY <2>4, <2>6
    <3>2. \A here : Walked(cfg, k.stack, 1, here) = Walked(cfg, p.stack, 1, here) BY <2>6, <3>1, WalkedOnAlike
    <3> QED BY <2>4, <2>6, <3>2
  <2> QED BY <2>1, <2>11, <2>12, <2>13 DEF p
<1>7. "LUMA" \in Channels /\ "CHROMA" \in Channels BY DEF Channels
<1>8. (pc' = "tree") = TRUE /\ cur' = "LUMA" BY <1>1, <1>3, <1>4
<1>9. coded'["LUMA"] = Walked(cfg, parts'["LUMA"].stack, Len(parts'["LUMA"].stack),
                              IF "LUMA" = cur' THEN pc' = "tree" ELSE WaitsHere("LUMA")')
  BY <1>4, <1>6, <1>7, <1>8
<1>10. coded'["CHROMA"] = Walked(cfg, parts'["CHROMA"].stack, Len(parts'["CHROMA"].stack),
                                 IF "CHROMA" = cur' THEN pc' = "tree" ELSE TRUE)
  BY <1>4, <1>6, <1>7, <1>8
<1> QED BY <1>3, <1>4, <1>9, <1>10, JointCovers

\* The end of a tree, and the start of the chroma tree behind that of luma.
LEMMA EndOfTreeCovers ==
  ASSUME IInv, ShapeInv, WalkInv, EndOfTree
  PROVE  CoverInv'
<1> DEFINE again == cfg.dual /\ ~IsJoint(cfg) /\ cur = "LUMA"
<1>1. /\ pc = "return" /\ calls = <<>> /\ UNCHANGED <<cfg, parts, calls, coded>>
      /\ IF again THEN cur' = "CHROMA" /\ pc' = "tree" ELSE cur' = cur /\ pc' = "done"
  BY DEF EndOfTree
<1>2. CoverInv BY <1>1 DEF WalkInv
<1>3. WaitsHere("LUMA") = FALSE /\ WaitsHere("LUMA")' = FALSE BY <1>1 DEF WaitsHere, Alternates
<1>4. WaitsHere("CHROMA") = TRUE BY DEF WaitsHere
<1>5. (pc = "tree") = FALSE BY <1>1
<1>6. CASE ~cfg.dual
  <2>1. (pc' = "tree") = FALSE /\ cur' = cur BY <1>1, <1>6
  <2> QED BY <1>1, <1>2, <1>5, <1>6, <2>1 DEF CoverInv
<1>7. CASE cfg.dual
  <2>1. \A ch \in Channels : coded[ch] = Walked(cfg, parts[ch].stack, Len(parts[ch].stack),
                                                IF ch = cur THEN pc = "tree" ELSE WaitsHere(ch))
    BY <1>2, <1>7 DEF CoverInv
  <2>2. "LUMA" \in Channels /\ "CHROMA" \in Channels /\ cur \in Channels BY DEF Channels, IInv
  <2>3. /\ coded["LUMA"] = Walked(cfg, parts["LUMA"].stack, Len(parts["LUMA"].stack), FALSE)
        /\ coded["CHROMA"] = Walked(cfg, parts["CHROMA"].stack, Len(parts["CHROMA"].stack), cur # "CHROMA")
    <3>1. CASE cur = "LUMA" BY <1>3, <1>4, <1>5, <2>1, <2>2, <3>1
    <3>2. CASE cur = "CHROMA" BY <1>3, <1>4, <1>5, <2>1, <2>2, <3>2
    <3> QED BY <2>2, <3>1, <3>2 DEF Channels
  <2>4. (IF "LUMA" = cur' THEN pc' = "tree" ELSE WaitsHere("LUMA")') = FALSE
    <3>1. CASE again BY <1>1, <1>3, <3>1
    <3>2. CASE ~again BY <1>1, <1>3, <3>2
    <3> QED BY <3>1, <3>2
  <2>5. (IF "CHROMA" = cur' THEN pc' = "tree" ELSE TRUE) = (cur # "CHROMA")
    <3>1. CASE again BY <1>1, <3>1
    <3>2. CASE ~again BY <1>1, <3>2
    <3> QED BY <3>1, <3>2
  <2>6. coded'["LUMA"] = Walked(cfg, parts'["LUMA"].stack, Len(parts'["LUMA"].stack),
                                IF "LUMA" = cur' THEN pc' = "tree" ELSE WaitsHere("LUMA")')
    BY <1>1, <2>3, <2>4
  <2>7. coded'["CHROMA"] = Walked(cfg, parts'["CHROMA"].stack, Len(parts'["CHROMA"].stack),
                                  IF "CHROMA" = cur' THEN pc' = "tree" ELSE TRUE)
    BY <1>1, <2>3, <2>5
  <2> QED BY <1>1, <1>7, <2>6, <2>7, JointCovers
<1> QED BY <1>6, <1>7

\* Every step that fails no CHECK covers what it passes.
LEMMA StepCovers ==
  ASSUME IInv, ShapeInv, WalkInv, [Next]_vars, pc' # "aborted"
  PROVE  CoverInv'
<1>1. CASE UNCHANGED vars
  <2>1. CoverInv BY <1>1 DEF WalkInv, vars
  <2> QED BY <1>1, <2>1 DEF vars, CoverInv, WaitsHere
<1>2. CASE SplitJointly BY <1>2, SplitJointlyCovers
<1>3. CASE CodeUnit BY <1>3, CodeUnitCovers
<1>4. ASSUME NEW split \in Splits, SplitNode(split) PROVE CoverInv' BY <1>4, SplitNodeCovers
<1>5. CASE NextNodePart BY <1>5, NextNodePartCovers
<1>6. CASE ExitNode BY <1>6, ExitNodeCovers
<1>7. CASE Recover BY <1>7, RecoverCovers
<1>8. CASE LumaThenChroma BY <1>8, LumaThenChromaCovers
<1>9. CASE NextJointPart BY <1>9, NextJointPartCovers
<1>10. CASE ExitJointly BY <1>10, ExitJointlyCovers
<1>11. CASE EndOfTree BY <1>11, EndOfTreeCovers
<1>12. CASE Finished
  <2>1. UNCHANGED vars BY <1>12 DEF Finished
  <2> QED BY <1>1, <2>1
<1> QED BY <1>1, <1>2, <1>3, <1>4, <1>5, <1>6, <1>7, <1>8, <1>9, <1>10, <1>11, <1>12 DEF Next

-----------------------------------------------------------------------------
(* No CHECK fails.                                                          *)

\* In a chroma tree behind luma, the luma of the block is done.
LEMMA LumaOfQuarter ==
  ASSUME IInv, ShapeInv, WalkInv, pc = "tree", cfg.dual, cur = "CHROMA",
         NEW q, q \in ToCover(cfg), Within(q, area)
  PROVE  q \in coded["LUMA"]
<1> DEFINE p == parts["LUMA"]
           r == parts["CHROMA"]
           l == p.stack[2].idx
           k == r.stack[2].idx
           quarters == SubAreas(CtuArea(cfg), "QUAD")
<1>1. PlacesInv /\ CoverInv /\ TurnsInv BY DEF WalkInv
<1>2. "LUMA" \in Channels /\ "CHROMA" \in Channels BY DEF Channels
<1>3. coded["LUMA"] = Walked(cfg, p.stack, Len(p.stack), WaitsHere("LUMA")) BY <1>1, <1>2 DEF CoverInv
<1>4. ConfigOK(cfg) /\ PartOK(p) /\ Settled(cfg, "LUMA", p.stack) BY <1>1, <1>2, AllSettled
<1>5. /\ Settled(cfg, cur, r.stack) /\ area = CurrentPart(r.stack[Len(r.stack)])
      /\ Alike(part.stack, r.stack) /\ Len(r.stack) \in Nat /\ Len(r.stack) > 0
  BY <1>1, HereSettled
<1>6. Len(p.stack) = IF Alternates(calls) THEN 2 ELSE 1
  <2>1. "LUMA" \in Channels \ {cur} BY <1>2
  <2> QED BY <2>1 DEF IInv, LengthInv
<1>7. CASE ~Alternates(calls)
  <2>1. WaitsHere("LUMA") = FALSE BY <1>7 DEF WaitsHere
  <2> HIDE DEF p
  <2>2. Walked(cfg, p.stack, 1, FALSE) = ToCover(cfg) BY <1>4, <1>6, <1>7, WalkedAll
  <2> QED BY <1>3, <1>6, <1>7, <2>1, <2>2
<1>8. CASE Alternates(calls)
  <2>1. p.stack[2].parts = quarters /\ r.stack[2].parts = quarters BY <1>1, <1>2, <1>8 DEF TurnsInv
  <2>2. l \in (IF k < 3 THEN {k + 1} ELSE {k}) BY <1>1, <1>8 DEF TurnsInv
  <2>3. WaitsHere("LUMA") = (l # k) BY <1>8 DEF WaitsHere
  <2>4. 2 \in 1 .. Len(r.stack)
    <3>1. 2 \in 1 .. Len(part.stack) BY <1>1, <1>8, QuarterHere
    <3>2. Len(part.stack) = Len(r.stack) BY <1>5 DEF Alike
    <3> QED BY <3>1, <3>2
  <2>5. Len(p.stack) = 2 BY <1>6, <1>8
  <2>6. l \in Nat /\ k \in Nat /\ p.stack[1].idx \in Nat /\ p.stack[1].parts = <<CtuArea(cfg)>>
    BY <1>4, <1>5, <2>4, <2>5 DEF Settled
  <2>7. q[1] \in Nat /\ q[2] \in Nat BY <1>4, ToCoverFacts
  <2> HIDE DEF p, r, area
  <2>8. Within(q, CurrentPart(r.stack[2]))
    <3>1. Len(r.stack) \in 1 .. Len(r.stack) /\ 2 \in 1 .. Len(r.stack) BY <1>5, <2>4
    <3>2. /\ Measured(CurrentPart(r.stack[2])) /\ Measured(area)
          /\ Inside(area, CurrentPart(r.stack[2]))
      BY <1>5, <3>1, SettledParts
    <3> QED BY <2>7, <3>2, WithinInside
  <2>9. ~Later(r.stack[2], q)
    <3> DEFINE a == CurrentPart(r.stack[2])
    <3>1. q[1] < a.x + a.w /\ q[2] < a.y + a.h BY <2>8 DEF Within
    <3>2. 2 \in 1 .. 2 OBVIOUS
    <3> QED BY <1>5, <2>4, <2>7, <3>1, <3>2, NotLater
  <2>10. \A j \in k + 2 .. Len(quarters) : ~Within(q, quarters[j]) BY <2>1, <2>9 DEF Later
  <2>11. ~Later(p.stack[1], q)
    <3>1. Len(p.stack[1].parts) = 1 BY <2>6
    <3>2. p.stack[1].idx + 2 .. 1 = {} BY <2>6
    <3> QED BY <3>1, <3>2 DEF Later
  <2>12. Len(quarters) = 4
    <3>1. "QUAD" \in Splits BY DEF Splits
    <3>2. Form(quarters, CtuArea(cfg), "QUAD") BY <3>1, SubAreasForm
    <3> HIDE DEF quarters
    <3> QED BY <3>2 DEF Form
  <2>13. CurrentPart(p.stack[2]) = quarters[l + 1] BY <2>1 DEF CurrentPart
  <2>14. l \in 0 .. 3
    <3>1. 2 \in 1 .. Len(p.stack) BY <2>5
    <3>2. LevelPlaced(cfg, "LUMA", p.stack[2])
      <4>1. IsSeq(p.stack) BY <1>4 DEF Settled
      <4>2. 2 \in DOMAIN p.stack BY <3>1, <4>1, AppendIsSeq
      <4> QED BY <1>4, <4>2 DEF Settled, Placed
    <3>3. l + 1 \in 1 .. 4 BY <2>1, <2>12, <3>2 DEF LevelPlaced
    <3> HIDE DEF l
    <3> QED BY <2>6, <3>3
  <2>15. Later(p.stack[2], q) <=> \E j \in l + 2 .. Len(quarters) : Within(q, quarters[j]) BY <2>1 DEF Later
  <2> HIDE DEF l, k, quarters
  <2>16. l = k \/ l = k + 1 BY <2>2
  <2>17. ~Later(p.stack[2], q)
    <3>1. \A j \in l + 2 .. 4 : j \in k + 2 .. 4 BY <2>6, <2>14, <2>16
    <3> QED BY <2>10, <2>12, <2>15, <3>1
  <2>18. WaitsHere("LUMA") => ~Within(q, CurrentPart(p.stack[2]))
    <3>1. l # k => l + 1 \in k + 2 .. 4 BY <2>6, <2>14, <2>16
    <3> QED BY <2>3, <2>10, <2>12, <2>13, <3>1
  <2>19. \A i \in 1 .. 2 : i = 1 \/ i = 2 OBVIOUS
  <2>20. \A i \in 1 .. 2 : ~Later(p.stack[i], q) BY <2>11, <2>17, <2>19
  <2>21. ~Due(p.stack, 2, WaitsHere("LUMA"), q) BY <2>18, <2>20 DEF Due
  <2>22. q \in Walked(cfg, p.stack, 2, WaitsHere("LUMA")) BY <2>21 DEF Walked
  <2> QED BY <1>3, <2>5, <2>22
<1> QED BY <1>7, <1>8

\* The unit of luma that a unit of chroma takes its QP from was coded before it.
LEMMA LumaIsThere ==
  ASSUME IInv, ShapeInv, WalkInv, pc = "tree", "NO" \in permitted, IsSepTree(cfg, part), part.chType = "CHROMA"
  PROVE  LumaRef(cfg, area) \in coded["LUMA"]
<1> DEFINE stack == parts[cur].stack
           n == Len(stack)
           q == LumaRef(cfg, area)
<1>1. PlacesInv /\ CoverInv BY DEF WalkInv
<1>2. /\ ConfigOK(cfg) /\ Settled(cfg, cur, stack) /\ n \in Nat /\ n > 0 /\ area = CurrentPart(stack[n])
      /\ Measured(area) /\ AlignedArea(cfg, area)
  BY <1>1, HereSettled
<1>3. /\ (cfg.dual => ~InItsChroma(calls)) /\ cur \in Channels
      /\ part.chType = IF cur = "LUMA" /\ InItsChroma(calls) THEN "CHROMA" ELSE cur
  BY Here
<1>4. ~Crosses(cfg, area) BY UnitsAreInside
<1>5. q \in Cells(cfg, area)
  <2> HIDE DEF area
  <2> QED BY <1>2, RefIsInBlock
<1>6. q \in Walked(cfg, stack, n, FALSE)
  <2>1. n \in 1 .. Len(stack) BY <1>2
  <2> HIDE DEF stack, n, area, q
  <2>2. ~Crosses(cfg, CurrentPart(stack[n])) BY <1>2, <1>4
  <2>3. Walked(cfg, stack, n, FALSE) = Walked(cfg, stack, n, TRUE) \cup Cells(cfg, CurrentPart(stack[n]))
    BY <1>2, <2>1, <2>2, WalkedUnit
  <2> QED BY <1>2, <1>5, <2>3
<1>7. CASE ~cfg.dual
  <2>1. cur = "LUMA" BY <1>3, <1>7 DEF ShapeInv, Channels
  <2>2. InItsChroma(calls) BY <1>3, <2>1
  <2>3. coded["LUMA"] = Walked(cfg, stack, n, FALSE) BY <1>1, <1>7, <2>2 DEF CoverInv
  <2> QED BY <1>6, <2>3
<1>8. CASE cfg.dual
  <2>1. cur = "CHROMA" BY <1>3, <1>8
  <2>2. q \in ToCover(cfg) BY <1>6 DEF Walked
  <2>3. Within(q, area)
    <3> HIDE DEF area, q
    <3> QED BY <1>2, <1>5, UnitsCells
  <2> HIDE DEF q
  <2>4. q \in coded["LUMA"] BY <1>8, <2>1, <2>2, <2>3, LumaOfQuarter
  <2> QED BY <2>4 DEF q
<1> QED BY <1>7, <1>8

\* No step fails a CHECK.
LEMMA StepSucceeds ==
  ASSUME IInv, ShapeInv, WalkInv, NeverAborts, [Next]_vars
  PROVE  NeverAborts'
<1>1. pc # "aborted" /\ PlacesInv BY DEF NeverAborts, WalkInv
<1>2. CASE UNCHANGED vars BY <1>1, <1>2 DEF vars, NeverAborts
<1>3. CASE SplitJointly
  <2>1. JointSplits BY <1>1, <1>3, JointIsSplit
  <2> QED BY <1>1, <2>1 DEF JointSplits, NeverAborts
<1>4. CASE CodeUnit
  <2>1. pc = "tree" /\ "NO" \in permitted BY <1>4 DEF CodeUnit
  <2>2. ~(IsSepTree(cfg, part) /\ part.chType = "CHROMA" /\ LumaRef(cfg, area) \notin coded["LUMA"])
    BY <2>1, LumaIsThere
  <2>3. pc' = "return" BY <1>4, <2>2 DEF CodeUnit
  <2> QED BY <2>3 DEF NeverAborts
<1>5. ASSUME NEW split \in Splits, SplitNode(split) PROVE NeverAborts'
  <2>1. PICK modeType \in ModeTypes(cfg, part, split) : \E q, call, qgEnable :
          NodeSplits(split, modeType, q, call, qgEnable)
    BY <1>1, <1>5, NodeIsSplit
  <2>2. pc' = pc BY <2>1 DEF NodeSplits
  <2> QED BY <1>1, <2>2 DEF NeverAborts
<1>6. CASE NextNodePart BY <1>6 DEF NextNodePart, Called, NeverAborts
<1>7. CASE ExitNode
  <2>1. PICK q, call : NodeExits(q, call) BY <1>7, NodeIsLeft
  <2>2. pc' = pc \/ pc' \in {"tree", "return"} BY <2>1 DEF NodeExits, Called
  <2> QED BY <1>1, <2>2 DEF NeverAborts
<1>8. CASE Recover BY <1>1, <1>8 DEF Recover, NeverAborts
<1>9. CASE LumaThenChroma \/ NextJointPart BY <1>9 DEF LumaThenChroma, NextJointPart, Called, NeverAborts
<1>10. CASE ExitJointly
  <2>1. \A ch \in Channels : ~ExitFails(parts[ch]) BY <1>10, ExitsFailNever DEF ExitsSucceed, ExitJointly
  <2>2. pc' = pc BY <1>10, <2>1 DEF ExitJointly
  <2> QED BY <1>1, <2>2 DEF NeverAborts
<1>11. CASE EndOfTree BY <1>11 DEF EndOfTree, NeverAborts
<1>12. CASE Finished BY <1>1, <1>12 DEF Finished, vars, NeverAborts
<1> QED BY <1>2, <1>3, <1>4, <1>5, <1>6, <1>7, <1>8, <1>9, <1>10, <1>11, <1>12 DEF Next

-----------------------------------------------------------------------------
(* The theorems.                                                            *)

\* At the start nothing is covered.
LEMMA InitWalks ==
  ASSUME Init, IInv, ShapeInv
  PROVE  WalkInv /\ NeverAborts
<1>1. /\ cur = "LUMA" /\ calls = <<>> /\ pc = "tree" /\ coded = [ch \in Channels |-> {}]
      /\ parts = [ch \in Channels |-> InitCtu(cfg, ch)]
  BY DEF Init
<1>2. PlacesInv BY InitPlaces
<1>3. /\ ~Alternates(calls) /\ ~InItsChroma(calls) /\ LumaOnly(calls) = {}
  BY <1>1 DEF Alternates, InItsChroma, LumaOnly
<1>4. TurnsInv BY <1>1, <1>3 DEF TurnsInv
<1>5. ASSUME NEW ch \in Channels
      PROVE  parts[ch].modeType = "ALL" /\ Walked(cfg, parts[ch].stack, Len(parts[ch].stack), TRUE) = {}
  <2> DEFINE stack == parts[ch].stack
             u == CtuArea(cfg)
  <2>1. parts[ch].modeType = "ALL" /\ Len(stack) = 1
    <3>1. parts[ch] = InitCtu(cfg, ch) BY <1>1
    <3> QED BY <3>1 DEF InitCtu
  <2>2. ConfigOK(cfg) /\ Settled(cfg, ch, stack) BY <1>2, AllSettled
  <2>3. 1 \in 1 .. Len(stack) BY <2>1
  <2> HIDE DEF stack
  <2>4. CurrentPart(stack[1]) = u BY <2>2, <2>3, SettledParts
  <2>5. ASSUME NEW q \in Walked(cfg, stack, 1, TRUE) PROVE FALSE
    <3>1. q \in ToCover(cfg) /\ ~Within(q, CurrentPart(stack[1])) BY <2>5, WalkedIs
    <3>2. Within(q, CtuArea(cfg)) BY <2>2, <3>1, ToCoverFacts
    <3> QED BY <2>4, <3>1, <3>2
  <2>6. Walked(cfg, stack, 1, TRUE) = {} BY <2>5
  <2> QED BY <2>1, <2>6 DEF stack
<1>6. "LUMA" \in Channels /\ "CHROMA" \in Channels BY DEF Channels
<1>7. LumaOnlyInv BY <1>1, <1>3, <1>5, <1>6 DEF LumaOnlyInv
<1>8. CoverInv
  <2>1. \A ch \in Channels : coded[ch] = Walked(cfg, parts[ch].stack, Len(parts[ch].stack), TRUE) BY <1>1, <1>5
  <2>2. (pc = "tree") = TRUE /\ ((pc = "tree") /\ ~InItsChroma(calls)) = TRUE /\ WaitsHere("CHROMA") = TRUE
    BY <1>1, <1>3 DEF WaitsHere
  <2>3. CASE cfg.dual
    <3>1. \A ch \in Channels : (IF ch = cur THEN pc = "tree" ELSE WaitsHere(ch)) = TRUE
      BY <1>1, <2>2 DEF Channels
    <3>2. ASSUME NEW ch \in Channels
          PROVE  coded[ch] = Walked(cfg, parts[ch].stack, Len(parts[ch].stack),
                                    IF ch = cur THEN pc = "tree" ELSE WaitsHere(ch))
      <4>1. (IF ch = cur THEN pc = "tree" ELSE WaitsHere(ch)) = TRUE BY <3>1
      <4> QED BY <2>1, <4>1
    <3> QED BY <2>3, <3>2 DEF CoverInv
  <2>4. CASE ~cfg.dual
    <3>1. coded["CHROMA"] = {} /\ coded["LUMA"] = {} /\ Walked(cfg, parts["LUMA"].stack, Len(parts["LUMA"].stack), TRUE) = {}
      BY <1>1, <1>5, <1>6
    <3> QED BY <1>1, <1>3, <2>2, <2>4, <3>1 DEF CoverInv
  <2> QED BY <2>3, <2>4
<1>9. NeverAborts BY <1>1 DEF NeverAborts
<1> QED BY <1>2, <1>4, <1>7, <1>8, <1>9 DEF WalkInv

\* A step that fails no CHECK keeps the invariant of the walk.
LEMMA StepWalks ==
  ASSUME IInv, ShapeInv, WalkInv, [Next]_vars, NeverAborts'
  PROVE  WalkInv'
<1>1. pc' # "aborted" BY DEF NeverAborts
<1>2. PlacesInv' BY StepPlaces DEF WalkInv
<1>3. LumaOnlyInv' BY StepLumaOnly
<1>4. TurnsInv' BY <1>1, StepTurns
<1>5. CoverInv' BY <1>1, StepCovers
<1> QED BY <1>2, <1>3, <1>4, <1>5 DEF WalkInv

\* The walk covers the stack's earlier parts, and fails no CHECK.
LEMMA WalkInvAlways == Spec => [](IInv /\ ShapeInv /\ WalkInv /\ NeverAborts)
<1>1. Init => IInv /\ ShapeInv /\ WalkInv /\ NeverAborts BY InitKeeps, InitShape, InitWalks
<1>2. (IInv /\ ShapeInv /\ WalkInv /\ NeverAborts) /\ [Next]_vars => (IInv /\ ShapeInv /\ WalkInv /\ NeverAborts)'
  BY StepKeeps, StepShape, StepSucceeds, StepWalks
<1> QED BY <1>1, <1>2, PTL DEF Spec

\* No sequence of permitted splits runs into a CHECK of splitCurrArea,
\* exitCurrSplit or coding_tree, and a unit of chroma finds the unit of luma that
\* it takes its QP from.
THEOREM NeverAbortsAlways == Spec => []NeverAborts
<1> QED BY WalkInvAlways, PTL

\* The walk covers the part of the unit inside the picture, in luma and in chroma,
\* and comes to no sample a second time, whatever the splits.
THEOREM EachSampleOnceAlways == Spec => []EachSampleOnce
<1>1. IInv /\ ShapeInv /\ WalkInv => EachSampleOnce BY CoversOnce
<1> QED BY <1>1, WalkInvAlways, PTL

\* The blocks predictQP reads, to the left and above in the unit, were coded before
\* in the same channel.
THEOREM NeighboursAreCodedAlways == Spec => []NeighboursAreCoded
<1>1. IInv /\ ShapeInv /\ WalkInv => NeighboursAreCoded BY CoversNeighbours
<1> QED BY <1>1, WalkInvAlways, PTL
==============================================================================
