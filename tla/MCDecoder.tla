------------------------------ MODULE MCDecoder ------------------------------
(***************************************************************************)
(* Small bitstreams for the decoder.  A stream is made of segments, each   *)
(* of them a few pictures that a conforming encoder could write next.      *)
(***************************************************************************)
EXTENDS DecoderProperties, SequencesExt

CONSTANTS
  Starts, Segments, Ends,       \* the first segment, those after it, the last
  MinSegments, MaxSegments,     \* how many there are between these two
  FirstPoc,                     \* the POC before the first picture of a sequence
  Reorder, Buffering            \* what the SPS says of every temporal layer

MCLimits == {[reorder |-> Reorder, buffering |-> Buffering]}

Plain == [nut |-> "PH", tid |-> 0, poc |-> 0, start |-> FALSE, phInSh |-> FALSE,
          active |-> {}, rpl |-> {}, output |-> TRUE, nonRef |-> FALSE,
          noPrior |-> FALSE, recovery |-> 0]

NonVcl(nut) == [Plain EXCEPT !.nut = nut]

\* A picture of one slice that predicts from the pictures with the POCs refs,
\* and keeps those with the POCs kept too.
PicKeeping(nut, poc, refs, kept) ==
  [Plain EXCEPT !.nut = nut, !.poc = poc, !.start = TRUE, !.phInSh = TRUE,
                !.active = {r - poc : r \in refs},
                !.rpl = {r - poc : r \in refs \cup kept}]

Pic(nut, poc, refs) == PicKeeping(nut, poc, refs, {})

\* A picture of the second temporal layer that nothing is predicted from.
B(poc, refs, kept) ==
  [PicKeeping("TRAIL", poc, refs, kept) EXCEPT !.tid = 1, !.nonRef = TRUE]

\* A segment after the POC b: its NAL units, and the POC of its last anchor.
Segment(kind, b) ==
  CASE kind = "trail" ->
         [base |-> b + 2, nals |-> <<Pic("TRAIL", b + 2, {b}), B(b + 1, {b, b + 2}, {})>>]
    [] kind = "pyramid" ->
         [base |-> b + 4,
          nals |-> <<Pic("TRAIL", b + 4, {b}),
                     [Pic("TRAIL", b + 2, {b, b + 4}) EXCEPT !.tid = 1],
                     B(b + 1, {b, b + 2}, {b + 4}), B(b + 3, {b + 2, b + 4}, {})>>]
    [] kind = "jump" ->
         [base |-> b + 3, nals |-> <<Pic("TRAIL", b + 3, {b})>>]
    [] kind = "hidden" ->
         [base |-> b + 1, nals |-> <<[Pic("TRAIL", b + 1, {b}) EXCEPT !.output = FALSE]>>]
    [] kind = "slices" ->
         LET slice == [Pic("TRAIL", b + 1, {b}) EXCEPT !.phInSh = FALSE]
         IN  [base |-> b + 1,
              nals |-> <<NonVcl("SEI"), NonVcl("PH"), slice,
                         [slice EXCEPT !.start = FALSE], NonVcl("SUFFIX")>>]
    [] kind = "rasl" ->
         [base |-> b + 2,
          nals |-> <<PicKeeping("CRA", b + 2, {}, {b}), Pic("RASL", b + 1, {b, b + 2})>>]
    [] kind = "radl" ->
         [base |-> b + 2,
          nals |-> <<Pic("CRA", b + 2, {}), Pic("RADL", b + 1, {b + 2})>>]
    [] kind = "idr" ->
         [base |-> FirstPoc, nals |-> <<Pic("IDR", FirstPoc, {})>>]
    [] kind = "gdr" ->
         [base |-> b + 3,
          nals |-> <<[Pic("GDR", b + 2, {b}) EXCEPT !.recovery = 1],
                     Pic("TRAIL", b + 3, {b + 2})>>]

NewSequence(kind) ==
  LET s == Segment(kind, FirstPoc)
  IN  [s EXCEPT !.nals = <<NonVcl("EOS")>> \o @]

Extend(acc, kind) ==
  LET s == CASE kind = "eosIdr"  -> NewSequence("idr")
             [] kind = "eosRasl" -> NewSequence("rasl")
             [] kind = "eosRadl" -> NewSequence("radl")
             [] OTHER            -> Segment(kind, acc.base)
  IN  [base |-> s.base, nals |-> acc.nals \o s.nals]

Built(kinds) == FoldLeft(Extend, [base |-> FirstPoc, nals |-> <<>>], kinds).nals

AllStreams ==
  {Built(<<first>> \o middle \o <<last>>) :
     first \in Starts, last \in Ends,
     middle \in UNION {[1 .. n -> Segments] : n \in MinSegments .. MaxSegments}}

\* A RASL picture directly before the end of a sequence.
RaslBeforeEos(s) ==
  \E p \in 2 .. Len(s) : s[p].nut = "EOS" /\ s[p - 1].nut = "RASL"

MCStreams == {s \in AllStreams : ~RaslBeforeEos(s)}

\* Streams whose first picture is skipped, with more pictures perhaps: an IDR
\* picture, two segments of one sequence, and a CRA picture to begin at.
SkippableStreams ==
  LET middle == Segments \ {"idr", "eosIdr", "eosRasl", "eosRadl"}
  IN  {Built(<<"idr", s, t, last>>) : s, t \in middle, last \in {"rasl", "radl"}}

MCInit == Init /\ (options.skipFrame > 0 => stream \in SkippableStreams)
MCSpec == MCInit /\ [][Next]_vars /\ WF_vars(Next)

\* One picture is lost.
LossyStreams ==
  UNION {{RemoveAt(s, i) : i \in {k \in DOMAIN s : s[k].phInSh}} : s \in AllStreams}
    \ {<<>>}

\* The file ends too early.
TruncatedStreams ==
  UNION {{SubSeq(s, 1, n) : n \in DOMAIN s} : s \in MCStreams}

\* Either of these.
DamagedStreams == LossyStreams \cup TruncatedStreams

\* What the theorem on WritesOnlyShown assumes of a stream holds of all of them.
ASSUME MCStreamsAssumption == \A s \in Streams : PicturesAreWhole(s)

\* What the theorem on PocsAgree assumes besides holds of those of which nothing
\* is missing.
ASSUME MCDerivableAssumption == \A s \in MCStreams : PocsAreDerivable(s)
=============================================================================
