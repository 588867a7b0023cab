----------------------------- MODULE CodingTree -----------------------------
(***************************************************************************)
(* coding_tree_unit and coding_tree (CABACReader.cpp, CABACWriter.cpp):    *)
(* the walk through the blocks of a coding tree unit.  The writer replays  *)
(* the splits the search has chosen, any that the partitioner permits, and *)
(* the reader finds them from the bins; both walk in the same way, so one  *)
(* walk stands for the two, and ReadsTheSplits compares what they write    *)
(* and read.  The recursion is a stack of calls.                           *)
(***************************************************************************)
EXTENDS Partitioner, FiniteSetsExt

CONSTANT Configs \* the coding tree units to walk through

IsPowerOfTwo(n) == n \in {2 ^ i : i \in 0..7}

\* xCheckParameter: the limits of the sequence parameter set, in luma samples.
ValidLimits(c, lim, lowest, highest) ==
  /\ \A n \in {lim.minQt, lim.maxBt, lim.maxTt} : IsPowerOfTwo(n)
  /\ lim.minQt \in lowest..highest
  /\ lim.maxBt \in lim.minQt..c.ctu
  /\ lim.maxTt \in lim.minQt..(IF c.ctu < 64 THEN c.ctu ELSE 64)
  /\ lim.mttDepth \in Nat
  /\ lim.mttDepth = 0 => lim.maxBt = lim.minQt /\ lim.maxTt = lim.minQt

ValidConfig(c) ==
  /\ {c.ctuX, c.ctuY, c.width, c.height, c.qpSubdiv} \subseteq Nat
  /\ c.ctu \in {32, 64, 128} /\ IsPowerOfTwo(c.minCb) /\ c.minCb >= MIN_TB_SIZEY
  /\ c.width % c.minCb = 0 /\ c.height % c.minCb = 0
  /\ c.width % 8 = 0 /\ c.height % 8 = 0
  /\ c.ctuX % c.ctu = 0 /\ c.ctuY % c.ctu = 0 /\ InPicture(c, c.ctuX, c.ctuY)
  /\ ValidLimits(c, c.limits["LUMA"], c.minCb, 64)
  /\ c.dual => /\ c.intra
               /\ ValidLimits(c, c.limits["CHROMA"], IF c.minCb < 8 THEN 8 ELSE c.minCb,
                              IF c.ctu < 64 THEN c.ctu ELSE 64)
               /\ c.limits["CHROMA"].maxBt <= 64

ASSUME ConfigAssumption == \A c \in Configs : ValidConfig(c)

VARIABLES
  cfg,       \* the coding tree unit
  parts,     \* the partitioner of luma (or of both) and that of chroma
  cur,       \* the partitioner coding_tree was called with
  calls,     \* the calls of coding_tree that wait for the calls they made
  pc,
  qgStart,   \* CUCtx: the next unit is the first of its quantisation group
  group,     \* where the QP was predicted for the last time
  coded      \* the blocks of minCb x minCb samples that were coded

vars == <<cfg, parts, cur, calls, pc, qgStart, group, coded>>

part == Checked(cfg, parts[cur])
area == Area(part)
permitted == CanSplit(cfg, part)

-----------------------------------------------------------------------------
\* split_cu_mode: the bins of a split, and the split of some bins.  A bin that
\* only one value is possible for is not coded.

Bin(isCoded, value) == IF isCoded THEN <<value>> ELSE <<>>
Hor == {"HORZ", "TRIH"}
Ver == {"VERT", "TRIV"}
Meets(can, kinds) == can \cap kinds # {}
Along(split) == IF split \in Ver THEN Ver ELSE Hor

\* Mutant of BinsOfMt: the direction is coded although only one is possible.
BinsOfMtAlwaysHv(can, split) ==
  <<split \in Ver>>
  \o Bin(Meets(can, Along(split) \cap BtSplits) /\ Meets(can, Along(split) \cap TtSplits),
         split \in BtSplits)

BinsOfMt(can, split) ==
  Bin(Meets(can, Ver) /\ Meets(can, Hor), split \in Ver)
  \o Bin(Meets(can, Along(split) \cap BtSplits) /\ Meets(can, Along(split) \cap TtSplits),
         split \in BtSplits)

SplitBins(can, split) ==
  Bin("NO" \in can /\ Meets(can, Splits), split # "NO")
  \o (CASE split = "NO" -> <<>>
        [] split = "QUAD" -> Bin(Meets(can, MtSplits), TRUE)
        [] OTHER -> Bin("QUAD" \in can, FALSE) \o BinsOfMt(can, split))

\* A bin that is missing reads as FALSE here.
Rest(isCoded, bins) == IF isCoded /\ bins # <<>> THEN Tail(bins) ELSE bins
ReadBin(isCoded, inferred, bins) ==
  IF ~isCoded THEN inferred ELSE bins # <<>> /\ Head(bins)

ReadMt(can, bins) ==
  LET hvCoded == Meets(can, Ver) /\ Meets(can, Hor)
      dir == IF ReadBin(hvCoded, Meets(can, Ver), bins) THEN Ver ELSE Hor
      bt == dir \cap BtSplits
      tt == dir \cap TtSplits
      coded12 == Meets(can, bt) /\ Meets(can, tt)
      is12 == ReadBin(coded12, Meets(can, bt), Rest(hvCoded, bins))
  IN [split |-> CHOOSE s \in (IF is12 THEN bt ELSE tt) : TRUE,
      left |-> Rest(coded12, Rest(hvCoded, bins))]

ReadSplit(can, bins) ==
  LET splitCoded == "NO" \in can /\ Meets(can, Splits)
      isSplit == ReadBin(splitCoded, Meets(can, Splits), bins)
      bins2 == Rest(splitCoded, bins)
      qtCoded == "QUAD" \in can /\ Meets(can, MtSplits)
      isQt == ReadBin(qtCoded, "QUAD" \in can, bins2)
  IN IF ~isSplit THEN [split |-> "NO", left |-> bins2]
     ELSE IF isQt THEN [split |-> "QUAD", left |-> Rest(qtCoded, bins2)]
     ELSE ReadMt(can, Rest(qtCoded, bins2))

-----------------------------------------------------------------------------
\* signalModeCons and mode_constraint: a split that would make chroma blocks too
\* small ends the choice between intra and inter prediction below it.

\* Mutant of ModeTypes: narrow chroma blocks are overlooked.
ModeTypesBySizeOnly(c, p, split) ==
  LET a == Area(p)
      minLumaArea == (a.w * a.h) \div (IF split \in BtSplits THEN 2 ELSE 4)
  IN IF c.dual \/ p.modeType # "ALL" \/ minLumaArea \div 4 >= 16 THEN {p.modeType}
     ELSE IF minLumaArea < 32 \/ c.intra THEN {"INTRA"}
     ELSE {"INTRA", "INTER"}

ModeTypes(c, p, split) ==
  LET a == Area(p)
      minLumaArea == (a.w * a.h) \div (IF split \in BtSplits THEN 2 ELSE 4)
      is2xNChroma == \/ ChromaWidth(a) = 4 /\ split = "VERT"
                     \/ ChromaWidth(a) = 8 /\ split = "TRIV"
  IN IF c.dual \/ p.modeType # "ALL" \/ (minLumaArea \div 4 >= 16 /\ ~is2xNChroma)
     THEN {p.modeType}
     ELSE IF minLumaArea < 32 \/ c.intra THEN {"INTRA"}
     ELSE {"INTRA", "INTER"}

-----------------------------------------------------------------------------
Cell(c, x, y) == <<x - (x % c.minCb), y - (y % c.minCb)>>
Cells(c, a) == {<<a.x + c.minCb * i, a.y + c.minCb * j>> :
                  i \in 0..(a.w \div c.minCb - 1), j \in 0..(a.h \div c.minCb - 1)}

\* The channels of a unit, and the luma sample whose unit gives a chroma unit of
\* a tree of its own its QP.
IsSepTree(c, p) == c.dual \/ p.treeType # "TREE_D"
ChannelsOf(c, p) == IF IsSepTree(c, p) THEN {p.chType} ELSE Channels
LumaRef(c, a) == Cell(c, a.x + 2 * (a.w \div 4), a.y + 2 * (a.h \div 4))

\* Mutant of Called: a part that crosses the border is left out.
CalledInside(p) ==
  IF InPicture(cfg, Area(p).x + Area(p).w - 1, Area(p).y + Area(p).h - 1) THEN "tree" ELSE "return"

\* coding_tree is called only for a part that begins inside the picture.
Called(p) == IF InPicture(cfg, Area(p).x, Area(p).y) THEN "tree" ELSE "return"

\* Both partitioners are walked together as far as the blocks of 64 x 64.
IsJoint(c) == c.dual /\ c.ctu > 64
WithChroma == IsJoint(cfg) /\ calls = <<>>

\* Mutant of Starts: the chroma of a block starts a group as well.
StartsInChroma == [ch \in Channels |->
  qgStart[ch] \/ (ch = cur /\ Last(part.stack).qgEnable) \/ (ch = "CHROMA" /\ WithChroma)]

\* Every quantisation group begins with a new prediction; not in a chroma tree.
Starts == [ch \in Channels |->
  \/ qgStart[ch]
  \/ ch = cur /\ part.chType = "LUMA" /\ Last(part.stack).qgEnable
  \/ ch = "CHROMA" /\ WithChroma]

Init ==
  /\ cfg \in Configs
  /\ parts = [ch \in Channels |-> InitCtu(cfg, ch)]
  /\ cur = "LUMA" /\ calls = <<>> /\ pc = "tree"
  /\ qgStart = [ch \in Channels |-> FALSE]
  /\ group = [ch \in Channels |-> <<>>]
  /\ coded = [ch \in Channels |-> {}]

Abort == pc' = "aborted" /\ UNCHANGED <<cfg, parts, cur, calls, qgStart, group, coded>>

\* The quadtree split of a unit of 128 x 128 samples with separate trees.
SplitJointly ==
  /\ pc = "tree" /\ WithChroma /\ "NO" \notin permitted
  /\ IF \E ch \in Channels : SplitFails(parts[ch], "QUAD") THEN Abort
     ELSE /\ parts' = [ch \in Channels |-> SplitCurrArea(cfg, parts[ch], "QUAD")]
          /\ calls' = <<[kind |-> "joint"]>>
          /\ qgStart' = Starts
          /\ UNCHANGED <<cfg, cur, pc, group, coded>>

\* One split of a tree.  Where chroma is not split along, the parts are of luma
\* only and the chroma of the whole block follows them.
SplitNode(split) ==
  /\ pc = "tree" /\ ~WithChroma /\ split \in permitted \ {"NO"}
  /\ \E modeType \in ModeTypes(cfg, part, split) :
       LET chromaNotSplit == part.modeType = "ALL" /\ modeType = "INTRA"
           node == [part EXCEPT !.modeType = modeType,
                      !.treeType = IF chromaNotSplit /\ @ = "TREE_D" THEN "TREE_L" ELSE @]
       IN IF SplitFails(node, split) \/ (chromaNotSplit /\ part.chType # "LUMA") THEN Abort
          ELSE /\ parts' = [parts EXCEPT ![cur] = SplitCurrArea(cfg, node, split)]
               /\ calls' = Append(calls, [kind |-> "node", modeTypeParent |-> part.modeType,
                                          chromaNotSplit |-> chromaNotSplit])
               /\ qgStart' = Starts
               /\ UNCHANGED <<cfg, cur, pc, group, coded>>

\* A block that is not split is a coding unit.
CodeUnit ==
  /\ pc = "tree" /\ "NO" \in permitted
  /\ IF IsSepTree(cfg, part) /\ part.chType = "CHROMA" /\ LumaRef(cfg, area) \notin coded["LUMA"]
     THEN Abort
     ELSE /\ parts' = [parts EXCEPT ![cur] = part]
          /\ coded' = [ch \in Channels |-> IF ch \in ChannelsOf(cfg, part)
                                           THEN coded[ch] \cup Cells(cfg, area) ELSE coded[ch]]
          /\ group' = [group EXCEPT ![cur] = IF Starts[cur] THEN <<area.x, area.y>> ELSE @]
          /\ qgStart' = [Starts EXCEPT ![cur] = FALSE]
          /\ pc' = "return"
          /\ UNCHANGED <<cfg, cur, calls>>

\* Back in the loop of a call that has split its block.
InLoop(kind) == pc = "return" /\ calls # <<>> /\ Last(calls).kind = kind

NextNodePart ==
  /\ InLoop("node") /\ HasNextPart(parts[cur])
  /\ parts' = [parts EXCEPT ![cur] = NextPart(@)]
  /\ pc' = Called(parts'[cur])
  /\ UNCHANGED <<cfg, cur, calls, qgStart, group, coded>>

ExitNode ==
  /\ InLoop("node") /\ ~HasNextPart(parts[cur])
  /\ LET call == Last(calls)
         left == ExitCurrSplit(parts[cur])
     IN IF ExitFails(parts[cur]) THEN Abort
        ELSE IF call.chromaNotSplit
        THEN /\ parts' = [parts EXCEPT ![cur] = [left EXCEPT !.chType = "CHROMA", !.treeType = "TREE_C"]]
             /\ calls' = [calls EXCEPT ![Len(calls)].kind = "chroma"]
             /\ pc' = Called(left)
             /\ UNCHANGED <<cfg, cur, qgStart, group, coded>>
        ELSE /\ parts' = [parts EXCEPT ![cur] = [left EXCEPT !.modeType = call.modeTypeParent]]
             /\ calls' = Front(calls)
             /\ UNCHANGED <<cfg, cur, pc, qgStart, group, coded>>

\* After the chroma of a block whose luma alone was split.
Recover ==
  /\ InLoop("chroma")
  /\ parts' = [parts EXCEPT ![cur] = [@ EXCEPT !.chType = "LUMA", !.treeType = "TREE_D",
                                               !.modeType = Last(calls).modeTypeParent]]
  /\ calls' = Front(calls)
  /\ UNCHANGED <<cfg, cur, pc, qgStart, group, coded>>

\* The loop over the blocks of 64 x 64: luma, then the chroma of the same block.
Moved(p) == IF HasNextPart(p) THEN NextPart(p) ELSE p

LumaThenChroma ==
  /\ InLoop("joint") /\ cur = "LUMA"
  /\ parts' = [parts EXCEPT !["LUMA"] = Moved(@)]
  /\ cur' = "CHROMA" /\ pc' = Called(parts["CHROMA"])
  /\ UNCHANGED <<cfg, calls, qgStart, group, coded>>

NextJointPart ==
  /\ InLoop("joint") /\ cur = "CHROMA" /\ HasNextPart(parts["CHROMA"])
  /\ parts' = [parts EXCEPT !["CHROMA"] = NextPart(@)]
  /\ cur' = "LUMA" /\ pc' = Called(parts["LUMA"])
  /\ UNCHANGED <<cfg, calls, qgStart, group, coded>>

ExitJointly ==
  /\ InLoop("joint") /\ cur = "CHROMA" /\ ~HasNextPart(parts["CHROMA"])
  /\ IF \E ch \in Channels : ExitFails(parts[ch]) THEN Abort
     ELSE /\ parts' = [ch \in Channels |-> ExitCurrSplit(parts[ch])]
          /\ calls' = <<>>
          /\ UNCHANGED <<cfg, cur, pc, qgStart, group, coded>>

\* The end of the walk; small units with separate trees are walked a second time.
EndOfTree ==
  /\ pc = "return" /\ calls = <<>>
  /\ LET again == cfg.dual /\ ~IsJoint(cfg) /\ cur = "LUMA"
     IN /\ cur' = IF again THEN "CHROMA" ELSE cur
        /\ pc' = IF again THEN "tree" ELSE "done"
  /\ UNCHANGED <<cfg, parts, calls, qgStart, group, coded>>

Finished == pc = "done" /\ UNCHANGED vars

Next ==
  \/ SplitJointly \/ CodeUnit
  \/ \E split \in Splits : SplitNode(split)
  \/ NextNodePart \/ ExitNode \/ Recover
  \/ LumaThenChroma \/ NextJointPart \/ ExitJointly
  \/ EndOfTree \/ Finished

Spec == Init /\ [][Next]_vars
-----------------------------------------------------------------------------
\* No sequence of permitted splits runs into a CHECK of splitCurrArea,
\* exitCurrSplit or coding_tree; the QP of chroma finds its unit of luma.
NeverAborts == pc # "aborted"

\* coding_tree reads back every split that the writer may choose, and just the
\* bins it was coded with (split_cu_mode of CABACWriter and CABACReader).
ReadsTheSplits ==
  pc = "tree" => \A split \in permitted :
    ReadSplit(permitted, SplitBins(permitted, split)) = [split |-> split, left |-> <<>>]

\* The walk covers the part of the unit inside the picture, in luma and in chroma,
\* and comes to no sample a second time (coding_tree, nextPart).
EachSampleOnce ==
  /\ pc = "tree" => \A ch \in ChannelsOf(cfg, part) : Cells(cfg, area) \cap coded[ch] = {}
  /\ pc = "done" => \A ch \in Channels :
       coded[ch] = {cell \in Cells(cfg, [x |-> cfg.ctuX, y |-> cfg.ctuY, w |-> cfg.ctu, h |-> cfg.ctu]) :
                      InPicture(cfg, cell[1], cell[2])}

\* What predictQP reads of the same unit, the block to the left and the one above,
\* was coded before in the same channel (UnitTools.cpp, predictQP).
NeighboursAreCoded ==
  pc = "tree" => \A ch \in ChannelsOf(cfg, part) :
    /\ area.x > cfg.ctuX => Cell(cfg, area.x - 1, area.y) \in coded[ch]
    /\ area.y > cfg.ctuY => Cell(cfg, area.x, area.y - 1) \in coded[ch]

\* A unit that may be predicted intra has at least 16 samples of chroma in rows of
\* at least 4, and no unit of 4 x 4 is predicted inter: what canSplit and
\* signalModeCons exist for, over all the splits that lead to a unit.
UnitsArePredictable ==
  pc = "tree" /\ "NO" \in permitted =>
    /\ "CHROMA" \in ChannelsOf(cfg, part) /\ part.modeType # "INTER" =>
         ChromaWidth(area) >= 4 /\ ChromaSize(area) >= 16
    /\ part.modeType = "INTER" => area.w * area.h > 16
    /\ part.modeType = "ALL" /\ ~cfg.intra => area.w * area.h > 16

\* The depths count the splits on the stack, whichever part is the current one:
\* what was added on the way into a part is taken back on the way out.  The group
\* begins at the current part of the deepest level that may begin one.
Halved(level, kinds) ==
  IF level.split \notin kinds THEN 0
  ELSE IF level.split \in TtSplits /\ level.idx = 1 THEN 1 ELSE Halvings(level.split)
SumOver(stack, kinds) ==
  LET sum[n \in 0..Len(stack)] == IF n = 0 THEN 0 ELSE sum[n - 1] + Halved(stack[n], kinds)
  IN sum[Len(stack)]
LevelsOf(stack, kinds) == {i \in DOMAIN stack : stack[i].split \in kinds}
ForcedLevels(stack) ==
  {i \in LevelsOf(stack, MtSplits) : i > 1 /\ stack[i - 1].implicit = stack[i].split}
GroupBegins(stack, at) ==
  \E deepest \in DOMAIN stack :
    /\ stack[deepest].qgEnable
    /\ \A i \in DOMAIN stack : stack[i].qgEnable => i <= deepest
    /\ at = Position(stack[deepest])
MatchesItsStack(p) ==
  /\ p.qtDepth = Cardinality(LevelsOf(p.stack, {"QUAD"}))
  /\ p.mtDepth = Cardinality(LevelsOf(p.stack, MtSplits))
  /\ p.btDepth = SumOver(p.stack, MtSplits)
  /\ p.subdiv = SumOver(p.stack, Splits)
  /\ p.implicitBtDepth = Cardinality(ForcedLevels(p.stack))
  /\ GroupBegins(p.stack, p.qgPos)
PartitionerMatchesItsStack ==
  /\ \A ch \in Channels : MatchesItsStack(parts[ch])
  /\ pc = "done" => \A ch \in Channels : Len(parts[ch].stack) = 1

\* Each unit of luma has the QP that was predicted where its quantisation group
\* begins (currQgPos, checked by EncCu), and a chroma tree predicts none.
UnitsShareTheirGroupsQp ==
  [][CodeUnit /\ pc' # "aborted" =>
       IF part.chType = "LUMA" THEN group'[cur] = part.qgPos
       ELSE cur = "LUMA" => group' = group]_vars
=============================================================================
