---------------------------- MODULE Partitioner ----------------------------
(***************************************************************************)
(* QTBTPartitioner (UnitPartitioner.cpp): the way from a coding tree unit  *)
(* to the block that is coded now, with the splits each block permits.    *)
(* Areas are in luma samples; chroma has half the width and half the      *)
(* height (4:2:0).                                                         *)
(*                                                                         *)
(* A configuration has the position (ctuX, ctuY) and the size (ctu) of the *)
(* unit, the size of the picture, whether the slice is intra and has       *)
(* separate trees for luma and chroma (dual), the smallest coding block    *)
(* (minCb), the depth up to which blocks form quantisation groups          *)
(* (qpSubdiv), and for each channel the limits minQt, maxBt, maxTt and     *)
(* mttDepth.  Groups of chroma QP offsets are numbered like those of QP    *)
(* and are left out, and so are the splits of transform units.             *)
(***************************************************************************)
EXTENDS Integers, Sequences, SequencesExt

MAX_TB_SIZEY == 64
MIN_TB_SIZEY == 4
MIN_DUALTREE_CHROMA_WIDTH == 4
MIN_DUALTREE_CHROMA_SIZE == 16

Channels == {"LUMA", "CHROMA"}
BtSplits == {"HORZ", "VERT"}
TtSplits == {"TRIH", "TRIV"}
MtSplits == BtSplits \cup TtSplits
Splits == MtSplits \cup {"QUAD"}

\* How often a split halves the first part; a quarter counts twice.
Halvings(split) == IF split \in BtSplits THEN 1 ELSE 2

CurrentPart(level) == level.parts[level.idx + 1]
Position(level) == <<CurrentPart(level).x, CurrentPart(level).y>>
Area(p) == CurrentPart(Last(p.stack))
WithTop(p, level) == [p EXCEPT !.stack[Len(p.stack)] = level]
ChromaWidth(a) == a.w \div 2
ChromaSize(a) == (a.w \div 2) * (a.h \div 2)

InPicture(c, x, y) == x < c.width /\ y < c.height

-----------------------------------------------------------------------------
\* getCUSubPartitions: cuts along one dimension, and the parts row by row.

Whole(at, size) == <<[at |-> at, size |-> size]>>
Halves(at, size) == <<[at |-> at, size |-> size \div 2],
                      [at |-> at + size \div 2, size |-> size \div 2]>>
\* Mutant of Thirds: the middle part begins at the middle.
ThirdsFromTheMiddle(at, size) ==
  <<[at |-> at, size |-> size \div 4],
    [at |-> at + size \div 2, size |-> size \div 2],
    [at |-> at + 3 * (size \div 4), size |-> size \div 4]>>

Thirds(at, size) == <<[at |-> at, size |-> size \div 4],
                      [at |-> at + size \div 4, size |-> size \div 2],
                      [at |-> at + 3 * (size \div 4), size |-> size \div 4]>>

SubAreas(a, split) ==
  LET xs == CASE split \in {"QUAD", "VERT"} -> Halves(a.x, a.w)
              [] split = "TRIV" -> Thirds(a.x, a.w)
              [] OTHER -> Whole(a.x, a.w)
      ys == CASE split \in {"QUAD", "HORZ"} -> Halves(a.y, a.h)
              [] split = "TRIH" -> Thirds(a.y, a.h)
              [] OTHER -> Whole(a.y, a.h)
      Part(col, row) == [x |-> col.at, y |-> row.at, w |-> col.size, h |-> row.size]
  IN [i \in 1..(Len(xs) * Len(ys)) |->
        Part(xs[((i - 1) % Len(xs)) + 1], ys[((i - 1) \div Len(xs)) + 1])]

-----------------------------------------------------------------------------
\* A level of the stack.  implicit is the split the picture boundary forces on
\* the current part, "UNCHECKED" before getImplicitSplit has found it, and "NO"
\* when there is none.
Level(split, parts, qgEnable) ==
  [split |-> split, parts |-> parts, idx |-> 0, qgEnable |-> qgEnable, implicit |-> "UNCHECKED"]

InitCtu(c, ch) ==
  LET ctuArea == [x |-> c.ctuX, y |-> c.ctuY, w |-> c.ctu, h |-> c.ctu]
  IN [stack |-> <<Level("CTU_LEVEL", <<ctuArea>>, TRUE)>>,
      qtDepth |-> 0, btDepth |-> 0, mtDepth |-> 0, subdiv |-> 0, implicitBtDepth |-> 0,
      qgPos |-> <<c.ctuX, c.ctuY>>, chType |-> ch, treeType |-> "TREE_D", modeType |-> "ALL"]

\* PreCalcValues: the limits of the slice type and of the tree.
Limits(c, p) == IF c.dual THEN c.limits[p.chType] ELSE c.limits["LUMA"]

\* Mutant of MaxBtDepth: splits that the border forces count as well.
MaxBtDepthOfSlice(c, p) == Limits(c, p).mttDepth

\* Splits that the border of the picture forces do not count.
MaxBtDepth(c, p) == Limits(c, p).mttDepth + p.implicitBtDepth

ImplicitSplit(c, p) ==
  LET a == Area(p)
      lim == Limits(c, p)
      isBlInPic == InPicture(c, a.x, a.y + a.h - 1)
      isTrInPic == InPicture(c, a.x + a.w - 1, a.y)
      isBtAllowed == a.w <= lim.maxBt /\ a.h <= lim.maxBt /\ p.mtDepth < MaxBtDepth(c, p)
      isQtAllowed == a.w > lim.minQt /\ a.h > lim.minQt /\ p.btDepth = 0
  IN IF c.dual /\ (a.w > 64 \/ a.h > 64) THEN "QUAD"
     ELSE IF isBlInPic /\ isTrInPic THEN "NO"
     ELSE IF ~isBlInPic /\ ~isTrInPic /\ isQtAllowed THEN "QUAD"
     ELSE IF ~isBlInPic /\ isBtAllowed /\ a.w <= MAX_TB_SIZEY THEN "HORZ"
     ELSE IF ~isTrInPic /\ isBtAllowed /\ a.h <= MAX_TB_SIZEY THEN "VERT"
     ELSE "QUAD"

\* getImplicitSplit remembers its answer until the next part.
Checked(c, p) ==
  LET top == Last(p.stack)
  IN IF top.implicit = "UNCHECKED" THEN WithTop(p, [top EXCEPT !.implicit = ImplicitSplit(c, p)])
     ELSE p

-----------------------------------------------------------------------------
\* canSplit, one condition per kind of split.  chroma: the partitioner is the
\* one of chroma, and the sizes of chroma blocks count as well.

CanQt(c, p) ==
  LET a == Area(p) IN
  /\ Last(p.stack).split \in {"CTU_LEVEL", "QUAD"}
  /\ a.w > Limits(c, p).minQt
  /\ p.chType = "CHROMA" => ChromaWidth(a) > MIN_DUALTREE_CHROMA_WIDTH

\* Some binary or ternary split is possible.
CanBtt(c, p) ==
  LET a == Area(p)
      lim == Limits(c, p)
  IN /\ p.mtDepth < MaxBtDepth(c, p)
     /\ a.w > c.minCb \/ a.h > c.minCb
     /\ \/ a.w <= lim.maxBt /\ a.h <= lim.maxBt
        \/ a.w <= lim.maxTt /\ a.h <= lim.maxTt

\* The middle part of a ternary split is not halved in the same direction.
RepeatsTernary(p, split) ==
  /\ Last(p.stack).idx = 1
  /\ \/ Last(p.stack).split = "TRIH" /\ split = "HORZ"
     \/ Last(p.stack).split = "TRIV" /\ split = "VERT"

CanBt(c, p, split) ==
  LET a == Area(p) IN
  /\ ~RepeatsTernary(p, split)
  /\ a.w <= Limits(c, p).maxBt /\ a.h <= Limits(c, p).maxBt
  /\ IF split = "HORZ"
     THEN a.h > c.minCb /\ ~(a.w > MAX_TB_SIZEY /\ a.h <= MAX_TB_SIZEY)
     ELSE a.w > c.minCb /\ ~(a.w <= MAX_TB_SIZEY /\ a.h > MAX_TB_SIZEY)
  /\ p.chType = "CHROMA" => /\ ChromaSize(a) > MIN_DUALTREE_CHROMA_SIZE
                            /\ split = "VERT" => ChromaWidth(a) # 4
  /\ ~(p.modeType = "INTER" /\ a.w * a.h = 32)

CanTt(c, p, split) ==
  LET a == Area(p) IN
  /\ a.w <= Limits(c, p).maxTt /\ a.h <= Limits(c, p).maxTt
  /\ (IF split = "TRIH" THEN a.h ELSE a.w) > 2 * c.minCb
  /\ a.w <= MAX_TB_SIZEY /\ a.h <= MAX_TB_SIZEY
  /\ p.chType = "CHROMA" => /\ ChromaSize(a) > 2 * MIN_DUALTREE_CHROMA_SIZE
                            /\ split = "TRIV" => ChromaWidth(a) # 8
  /\ ~(p.modeType = "INTER" /\ a.w * a.h = 64)

\* What a block at the picture boundary may do: the forced split, or a quadtree
\* split, which it must take if nothing else is left.
ForcedSplits(c, p) ==
  LET a == Area(p)
      implicit == Last(p.stack).implicit
      bt == {s \in BtSplits : s = implicit /\ ~(s = "VERT" /\ p.chType = "CHROMA" /\ ChromaWidth(a) = 4)}
  IN IF bt = {} \/ CanQt(c, p) THEN bt \cup {"QUAD"} ELSE bt

\* canSplit of a partitioner whose current part was Checked; "NO" is to code the
\* part as one unit.
CanSplit(c, p) ==
  IF p.treeType = "TREE_C" THEN {"NO"}
  ELSE IF Last(p.stack).implicit # "NO" THEN ForcedSplits(c, p)
  ELSE {"NO"} \cup {s \in {"QUAD"} : CanQt(c, p)}
              \cup {s \in BtSplits : CanBtt(c, p) /\ CanBt(c, p, s)}
              \cup {s \in TtSplits : CanBtt(c, p) /\ CanTt(c, p, s)}

-----------------------------------------------------------------------------
\* splitCurrArea, nextPart and exitCurrSplit, and their CHECKs.

AtGroup(p) == IF Last(p.stack).qgEnable THEN [p EXCEPT !.qgPos = Position(Last(p.stack))] ELSE p

SplitFails(p, split) ==
  \/ split = "QUAD" /\ (p.btDepth > 0 \/ p.mtDepth > 0)
  \/ \E a \in Range(SubAreas(Area(p), split)) :
       (IF split \in {"VERT", "TRIV"} THEN a.w ELSE a.h) < MIN_TB_SIZEY

SplitCurrArea(c, p, split) ==
  LET q == Checked(c, p)
      subdiv == p.subdiv + Halvings(split)
      level == Level(split, SubAreas(Area(p), split),
                     Last(p.stack).qgEnable /\ subdiv <= c.qpSubdiv)
      pushed == [q EXCEPT !.stack = Append(@, level), !.subdiv = subdiv]
  IN AtGroup(
       IF split = "QUAD" THEN [pushed EXCEPT !.mtDepth = 0, !.btDepth = 0, !.qtDepth = @ + 1]
       ELSE [pushed EXCEPT !.btDepth = @ + Halvings(split), !.mtDepth = @ + 1,
                           !.implicitBtDepth = IF split = Last(q.stack).implicit THEN @ + 1 ELSE @])

HasNextPart(p) == Last(p.stack).idx + 1 < Len(Last(p.stack).parts)

\* The outer parts of a ternary split are one halving deeper than the middle.
\* Mutant of Deeper: only the way into the middle is counted.
DeeperWayIn(level) == IF level.split \in TtSplits /\ level.idx = 0 THEN -1 ELSE 0

Deeper(level) == IF level.split \notin TtSplits THEN 0 ELSE IF level.idx = 0 THEN -1 ELSE 1

NextPart(p) ==
  LET top == Last(p.stack)
      next == WithTop(p, [top EXCEPT !.idx = @ + 1, !.implicit = "UNCHECKED"])
  IN AtGroup([next EXCEPT !.btDepth = @ + Deeper(top), !.subdiv = @ + Deeper(top)])

ExitFails(p) ==
  LET split == Last(p.stack).split
      parent == Last(Front(p.stack))
  IN IF split = "QUAD" THEN p.qtDepth = 0
     ELSE parent.implicit = "UNCHECKED" \/ p.mtDepth = 0 \/ p.btDepth < Halvings(split)

IsImplicit(level) == level.implicit # "NO"

Popped(p) ==
  LET split == Last(p.stack).split
      q == [p EXCEPT !.stack = Front(@), !.subdiv = @ - Halvings(split)]
  IN IF split = "QUAD" THEN [q EXCEPT !.qtDepth = @ - 1]
     ELSE [q EXCEPT !.mtDepth = @ - 1, !.btDepth = @ - Halvings(split),
                    !.implicitBtDepth = IF IsImplicit(Last(q.stack)) THEN @ - 1 ELSE @]

ExitCurrSplit(p) == AtGroup(Popped(p))
=============================================================================
