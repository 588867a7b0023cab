----------------------------- MODULE GopStructure -----------------------------
(***************************************************************************)
(* The encoder application's configuration of the coding order: the GOP    *)
(* structure a user gives, the check of it frame by frame, and the lists   *)
(* of references for the first frames of a sequence, which the check adds. *)
(*                                                                         *)
(* A frame of the structure is a record: its display order within the GOP, *)
(* its temporal layer, its slice type and two lists of references, each    *)
(* naming pictures by how far back they are displayed (negative: later).   *)
(***************************************************************************)
EXTENDS Integers, Sequences, SequencesExt

CONSTANT Configs        \* the configurations a user may choose

List  == [refs: Seq(Int), active: Nat]
Frame == [poc: Nat, tid: Nat, type: {"B", "P", "I"}, l0: List, l1: List]

\* A configuration: GOPList and the parameters that go with it, and how many
\* frames the input file holds.
Config == [gop: Seq(Frame), intraPeriod: Int, refresh: 0 .. 3,
           framesToBeEncoded: Nat, input: Nat]

IsList(l) ==
  /\ l.active <= Len(l.refs)
  /\ \A i, j \in DOMAIN l.refs : l.refs[i] # 0 /\ (l.refs[i] = l.refs[j] => i = j)

\* What xCheckParameter demands before it checks the references; what the manual
\* says of the POCs; a first frame that may lend its layer to the very first
\* picture; and no intra period without a refresh, which the application sees to.
IsConfig(c) ==
  LET size == Len(c.gop)
  IN  /\ size >= 2 /\ size % 2 = 0
      /\ {c.gop[i].poc : i \in 1 .. size} = 1 .. size
      /\ \A i \in 1 .. size : IsList(c.gop[i].l0) /\ IsList(c.gop[i].l1)
      /\ \A i \in 1 .. size : i = 1 \/ c.gop[i].poc = size => c.gop[i].tid = 0
      /\ IF c.refresh = 0 THEN c.intraPeriod = -1
                          ELSE c.intraPeriod >= size /\ c.intraPeriod % size = 0
      /\ c.refresh = 2 => c.intraPeriod > size
      /\ c.framesToBeEncoded > 0

ASSUME GopAssumption == \A c \in Configs : c \in Config /\ IsConfig(c)

VARIABLES
  config,     \* the configuration
  phase,      \* which function runs next
  check       \* the variables of the check

\* The check: checkGOP, isOK, refList, hasFutureRef, and m_RPLList0 and
\* m_RPLList1 together.
Check == [n: Nat, ok: SUBSET Nat, refList: SUBSET Nat, future: BOOLEAN,
          rpls: Seq(Frame)]

GopInit ==
  /\ config \in Configs
  /\ phase = "check"
  /\ check = [n |-> 1, ok |-> {}, refList |-> {0}, future |-> FALSE,
              rpls |-> config.gop]

-----------------------------------------------------------------------------
(* The frames in coding order, as if the GOP went on for ever. *)

GopSize == Len(config.gop)

IndexAt(n) == ((n - 1) % GopSize) + 1
FrameAt(n) == config.gop[IndexAt(n)]
PocAt(n)   == ((n - 1) \div GopSize) * GopSize + FrameAt(n).poc

\* The references of a list that are displayed at POC 0 or later.
Kept(l, poc) ==
  [refs   |-> SelectSeq(l.refs, LAMBDA d : d <= poc),
   active |-> Cardinality({i \in 1 .. l.active : l.refs[i] <= poc})]

\* Adding a reference to the active ones: it is put before the first that is
\* further away.
Adding(d) ==
  [active \in Seq(Int) |->
     LET further == {j \in DOMAIN active : d > 0 /\ active[j] > d}
     IN  InsertAt(active, Min(further \cup {Len(active) + 1}), d)]

\* Frame m can be a further reference of frame n.
IsExtra(l, n, m) ==
  /\ FrameAt(m).tid <= FrameAt(n).tid
  /\ PocAt(m) \in check.refList
  /\ PocAt(n) - PocAt(m) \notin ToSet(l.refs)

\* The list of frame n for the start of a sequence: the references it has
\* left, then others, the last coded one first, until it has as many active
\* ones as it should.  Whether it has is not asked before the first of them.
Completed(l, n) ==
  LET kept    == Kept(l, PocAt(n))
      missing == l.active - kept.active
      extra   == SelectSeq([k \in 1 .. n - 1 |-> n - k], LAMBDA m : IsExtra(l, n, m))
      taken   == IF missing > 0 THEN SubSeq(extra, 1, Min({missing, Len(extra)}))
                 ELSE SelectSeq(extra, LAMBDA m : m = n - 1)
      active  == FoldLeft(LAMBDA refs, m : Adding(PocAt(n) - PocAt(m))[refs],
                          SubSeq(kept.refs, 1, kept.active), taken)
  IN  [refs   |-> active \o SubSeq(kept.refs, kept.active + 1, Len(kept.refs)),
       active |-> Len(active)]

\* A reference of frame n was not kept by the frame before it.  Only list 0 is
\* looked at.
Unavailable(n) ==
  \E d \in ToSet(FrameAt(n).l0.refs) :
    d <= PocAt(n) /\ PocAt(n) - d \notin check.refList

BeforeStart(n) == \E d \in ToSet(FrameAt(n).l0.refs) : d > PocAt(n)

IsRight(n) == ~BeforeStart(n) /\ ~Unavailable(n)

\* The lists frame n is coded with where it is first met.
FirstEntry(n) ==
  IF IsRight(n) THEN FrameAt(n)
  ELSE [FrameAt(n) EXCEPT !.l0 = Completed(@, n), !.l1 = Completed(@, n)]

MAX_GOP == 64       \* the entries m_RPLList0 and m_RPLList1 hold

\* One round of the loop: frame n is right, or its lists need a version for the
\* start of a sequence; the structure is right once every frame has been.
CheckFrame ==
  /\ phase = "check"
  /\ \E n \in {check.n}, entry \in {FirstEntry(check.n)} :
     \E refs \in {ToSet(entry.l0.refs) \cup ToSet(entry.l1.refs)} :
       /\ check' = [n       |-> n + 1,
                    ok      |-> check.ok \cup (IF IsRight(n) THEN {IndexAt(n)} ELSE {}),
                    refList |-> {PocAt(n) - d : d \in {r \in refs : r <= PocAt(n)}}
                                  \cup {PocAt(n)},
                    future  |-> check.future \/ \E d \in refs : d < 0,
                    rpls    |-> IF IsRight(n) THEN check.rpls ELSE Append(check.rpls, entry)]
       /\ phase' = CASE ~IsRight(n) /\ Len(check.rpls) >= MAX_GOP -> "aborted"
                     [] Unavailable(n)                   -> "refused"
                     [] Cardinality(check'.ok) = GopSize -> "read"
                     [] OTHER                            -> "check"
  /\ UNCHANGED config

-----------------------------------------------------------------------------
(* What the sequence parameter set says of the decoded picture buffer. *)

\* The pictures that are coded before frame i and shown after it.
NumReorder(i) ==
  LET last == Max({j \in 1 .. GopSize : config.gop[j].poc <= config.gop[i].poc})
  IN  Cardinality({j \in 1 .. last - 1 : /\ config.gop[j].tid <= config.gop[i].tid
                                         /\ config.gop[j].poc > config.gop[i].poc})

NumRefs(i) ==
  Cardinality(ToSet(config.gop[i].l0.refs) \cup ToSet(config.gop[i].l1.refs))

\* m_maxNumReorderPics and m_maxDecPicBuffering of the highest temporal layer,
\* which no lower one exceeds.  Only these are written to the SPS, and the
\* decoder takes them for every layer.
MaxNumReorderPics == Max({NumReorder(i) : i \in 1 .. GopSize})

\* Mutant of MaxDecPicBuffering: counts the references of one list.
MaxDecPicBufferingOneList ==
  Max({MaxNumReorderPics + 1} \cup {Len(config.gop[i].l0.refs) + 1 : i \in 1 .. GopSize})

MaxDecPicBuffering ==
  Max({MaxNumReorderPics + 1} \cup {NumRefs(i) + 1 : i \in 1 .. GopSize})

IsLowDelay == ~check.future /\ config.intraPeriod # 1
=============================================================================
