-------------------------- MODULE DecoderProperties --------------------------
(***************************************************************************)
(* What the decoder application owes to its user, stated against the       *)
(* stream alone: which pictures reach the output file, in which order, and *)
(* that every picture was predicted from the pictures its encoder meant.   *)
(***************************************************************************)
EXTENDS Decoder

(* The stream as its encoder saw it. *)

IsPicture(p) == stream[p].nut \in SliceTypes /\ stream[p].start

\* The pictures of the temporal layers that are decoded, by their positions.
Pictures ==
  {p \in DOMAIN stream : IsPicture(p) /\ stream[p].tid <= options.maxTid}

LastOf(S) == CHOOSE p \in S : \A q \in S : q <= p

\* Where POCs begin to count from a new origin: at the end of a sequence and at
\* an IDR picture.
BeginsSequence(n) == n.nut = "EOS" \/ (n.nut = "IDR" /\ n.start)

OneSequence(s, p, q) == \A r \in p + 1 .. q : ~BeginsSequence(s[r])

\* Two pictures whose POCs count from the same origin.
SameSequence(p, q) == OneSequence(stream, p, q) /\ OneSequence(stream, q, p)

\* The first picture after the end of a sequence.
FollowsEos(p) ==
  \E e \in 1 .. p - 1 :
    stream[e].nut = "EOS" /\ \A q \in e + 1 .. p - 1 : ~IsPicture(q)

IsRap(p) == stream[p].nut \in {"IDR", "CRA", "GDR"}

\* The picture where decoding begins: the first one after the skipped pictures
\* at which a decoder can begin.
Entry ==
  LET entries == {p \in Pictures :
                    /\ IsRap(p)
                    /\ Cardinality({q \in Pictures : q < p}) >= options.skipFrame}
  IN  CHOOSE p \in entries : \A q \in entries : p <= q

\* Decoding begins at p, with none of the pictures before it.
StartsAfresh(p) == p = Entry \/ FollowsEos(p)

\* A leading picture that is predicted from pictures before a CRA picture at
\* which decoding began.
IsLost(p) ==
  /\ stream[p].nut = "RASL"
  /\ StartsAfresh(LastOf({q \in Pictures : q < p /\ IsRap(q)}))

\* A picture that is not yet right, since decoding began at a GDR picture.
IsRecovering(p) ==
  /\ stream[Entry].nut = "GDR" /\ SameSequence(p, Entry)
  /\ stream[p].poc < stream[Entry].poc + stream[Entry].recovery

IsDecodable(p) == p >= Entry /\ ~IsLost(p)

Output ==
  {p \in Pictures : IsDecodable(p) /\ ~IsRecovering(p) /\ stream[p].output}

\* Slices between which no picture header comes are of one picture: they share
\* what its header says, their type and their temporal layer.  Only whole
\* pictures may be missing: the first slice that is there is the first one.
IsHeader(n) == n.nut = "PH" \/ (n.nut \in SliceTypes /\ n.phInSh)

SamePicture(s, p, q) ==
  /\ p <= q /\ {s[p].nut, s[q].nut} \subseteq SliceTypes
  /\ \A r \in p + 1 .. q : ~IsHeader(s[r])

PicturesAreWhole(s) ==
  /\ \A p, q \in DOMAIN s : SamePicture(s, p, q) =>
       s[p].nut = s[q].nut /\ s[p].tid = s[q].tid /\ s[p].output = s[q].output
  /\ \A q \in DOMAIN s : s[q].nut \in SliceTypes /\ ~s[q].start =>
       \E p \in DOMAIN s : p < q /\ SamePicture(s, p, q)

\* The POCs that may serve as the anchor of those after the slice n: its own,
\* and those of the pictures that are made up when decoding begins with it.
Anchors(n) ==
  (IF IsAnchor(n) THEN {n.poc} ELSE {})
    \cup (IF n.nut \in {"CRA", "GDR"} THEN {n.poc + d : d \in n.active} ELSE {})

\* What a conforming encoder keeps to, so that the POCs can be derived: a POC
\* is less than half a cycle from its anchor, ...
PocsAreNear(s) ==
  \A p, q \in DOMAIN s :
    /\ p < q /\ {s[p].nut, s[q].nut} \subseteq SliceTypes
    /\ OneSequence(s, p, q)
    /\ \A r \in p + 1 .. q - 1 : s[r].nut \in SliceTypes => ~IsAnchor(s[r])
    => \A x \in Anchors(s[p]) :
         x - MaxPocLsb \div 2 < s[q].poc /\ s[q].poc <= x + MaxPocLsb \div 2

\* ... the pictures where decoding may begin, and those that begin a sequence
\* in fact, are anchors, ...
AnchorsComeFirst(s) ==
  \A q \in DOMAIN s :
    /\ s[q].nut \in SliceTypes
    /\ \/ s[q].nut \in {"IDR", "CRA", "GDR"}
       \/ \A p \in DOMAIN s : p < q /\ s[p].nut \in SliceTypes => ~OneSequence(s, p, q)
    => IsAnchor(s[q])

\* ... the slices of a picture have one POC, and a sequence that has ended is
\* followed by a picture header.
PocsAreDerivable(s) ==
  /\ PocsAreNear(s) /\ AnchorsComeFirst(s)
  /\ \A p, q \in DOMAIN s : p < q /\ SamePicture(s, p, q) =>
       s[p].poc = s[q].poc /\ ~s[q].start
  /\ \A e, q \in DOMAIN s :
       e < q /\ s[e].nut = "EOS" /\ s[q].nut \in SliceTypes =>
         \E r \in e + 1 .. q : IsHeader(s[r])

-----------------------------------------------------------------------------
(* Properties. *)

\* Every variable has its type.
TypeOK ==
  /\ stream \in Seq(NalUnit) /\ stream # <<>>
  /\ options \in Options
  /\ pc \in Points
  /\ pos \in 1 .. Len(stream) + 1
  /\ nal \in 0 .. Len(stream)
  /\ newPicture \in BOOLEAN
  /\ app \in App /\ app.skipFrame \in -1 .. options.skipFrame
  /\ dec \in Dec
  /\ listPic \in Seq(Buffer)
  /\ written \in Seq(Nat)

\* The decoder never runs into a null pointer, a picture buffer it has deleted,
\* a missing reference or a failing CHECK while it decodes a conforming stream.
NeverAborts == pc # "aborted"

\* At the end, the output file holds exactly the pictures that can be decoded
\* correctly from the point of random access on and are meant to be shown.
ExactlyTheDecodable ==
  pc = "done" =>
    /\ {written[n] : n \in DOMAIN written} = Output
    /\ Len(written) = Cardinality(Output)

\* Whatever the stream is, the decoder writes no picture twice, and none that it
\* made up itself or that belongs to a temporal layer above the target.
WritesOnlyPictures ==
  /\ \A n \in DOMAIN written :
       /\ written[n] \in DOMAIN stream
       /\ stream[written[n]].nut \in SliceTypes
       /\ stream[written[n]].tid <= options.maxTid
  /\ \A m, n \in DOMAIN written : written[m] = written[n] => m = n

\* Whatever is missing from the stream, the decoder writes no picture that is
\* not to be shown.
WritesOnlyShown == \A n \in DOMAIN written : stream[written[n]].output

\* The POCs the decoder derived from their low-order bits differ from each
\* other as those the encoder gave to the same pictures do.
PocsAgree ==
  \A i, j \in DOMAIN listPic :
    LET p == listPic[i].pic
        q == listPic[j].pic
    IN  p # 0 /\ q # 0 /\ SameSequence(p, q) =>
          listPic[i].poc - listPic[j].poc = stream[p].poc - stream[q].poc

\* The picture the encoder predicted p from when it wrote the difference d.
Meant(p, d) ==
  LET meant == {q \in Pictures : /\ q < p /\ SameSequence(p, q)
                                 /\ stream[q].poc = stream[p].poc + d}
  IN  IF meant = {} THEN 0 ELSE LastOf(meant)

\* A picture is predicted from finished pictures, from those its encoder meant,
\* and only at a point of random access from made-up ones.
PredictsFromTheRightPictures ==
  [][pc = "refs" /\ pc' = "returned" =>
       \A d \in stream[nal].active :
         LET ref == RefPic(listPic', dec'.poc + d)
             q   == Meant(dec'.curPic, d)
         IN  /\ ref.reconstructed
             /\ ref.pic = IF q >= Entry THEN q ELSE 0]_vars

\* The list of picture buffers never grows beyond max_dec_pic_buffering: every
\* picture that is neither a reference nor waits for output is given back in time.
BufferBounded == Len(listPic) <= options.limits.buffering

\* A conforming stream is decoded to its end.
Terminates == <>(pc = "done")

\* Whatever is missing from the stream, the program ends.
Halts == <>(pc \in {"done", "aborted"})

\* What is written, and in which order, is what OutputProcess allows.
Out == INSTANCE OutputProcess
  WITH pending <- {[pic |-> listPic[i].pic, poc |-> listPic[i].poc] :
                     i \in {k \in DOMAIN listPic : listPic[k].neededForOutput}},
       last <- app.pocLastDisplay

OutputOrder == Out!Spec
=============================================================================
