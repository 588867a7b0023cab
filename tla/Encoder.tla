------------------------------- MODULE Encoder -------------------------------
(***************************************************************************)
(* The encoder application and the part of the encoder library that        *)
(* decides in which order pictures are coded, what kind of NAL unit each   *)
(* becomes and which pictures it predicts from: EncApp::encodePrep and     *)
(* encode, EncLib::encodePrep and encode, EncGOP::compressGOP, and the     *)
(* functions of Slice that they call.  One thread runs them all; phase     *)
(* names what runs next.                                                   *)
(*                                                                         *)
(* One layer, frame pictures, no GDR, DRAP, composite references or        *)
(* resolution changes, and EfficientFieldIRAPEnabled as it is by default.  *)
(* The order of m_cListPic, which is sorted by POC before a buffer is      *)
(* taken from it, decides nothing else, so it is a set.                    *)
(***************************************************************************)
EXTENDS GopStructure

VARIABLES
  enc,        \* the variables of EncApp, EncLib and EncGOP
  encPics,    \* EncLib::m_cListPic
  rec,        \* EncApp::m_recBufList: the POCs its entries show, -1 for none
  recon,      \* the reconstruction file: the POCs written to it
  cur,        \* the slice being coded
  stream,     \* the bitstream
  stsa        \* the POCs of the STSA pictures

encVars == <<config, phase, check, enc, encPics, rec, recon, cur, stream, stsa>>

IdrTypes == {"IDR_W_RADL", "IDR_N_LP"}
RapTypes == IdrTypes \cup {"CRA"}
Leading  == {"RASL", "RADL"}

Enc == [frameRcvd: Nat, eos: BOOLEAN, framesToBeEncoded: Nat, pocLast: Int,
        received: Nat,              \* m_receivedPicCount
        picInGop: Nat,              \* m_picIdInGOP
        lastIDR: Nat, pocCRA: Nat, refreshPending: BOOLEAN,
        irapPoc: Nat, irapType: RapTypes]    \* m_associatedIRAPPOC and -Type

\* Of a picture of the list that is not reconstructed, nut and irap say nothing.
EncPic == [poc: Nat, referenced: BOOLEAN, reconstructed: BOOLEAN, tid: Nat,
           nut: RapTypes \cup Leading \cup {"TRAIL"}, irap: Nat]

NoLayer == 7      \* stands for the temporalId of a new Picture: above all others

EncInit ==
  /\ GopInit
  /\ enc = [frameRcvd |-> 0, eos |-> FALSE,
            framesToBeEncoded |-> config.framesToBeEncoded, pocLast |-> -1,
            received |-> 0, picInGop |-> 0, lastIDR |-> 0, pocCRA |-> 0,
            refreshPending |-> FALSE, irapPoc |-> 0, irapType |-> "IDR_N_LP"]
  /\ encPics = {}
  /\ rec = [i \in 1 .. Len(config.gop) + 1 |-> -1]
  /\ recon = <<>>
  /\ cur = [poc |-> 0, type |-> "I", nut |-> "TRAIL", tid |-> 0,
            l0 |-> [refs |-> <<>>, active |-> 0], l1 |-> [refs |-> <<>>, active |-> 0]]
  /\ stream = <<>>
  /\ stsa = {}

-----------------------------------------------------------------------------
(* Reading. *)

\* Mutant of IsComplete: waits for a whole GOP at the end of the file, too.
IsCompleteGop(e) == e.received > 0 /\ (e.pocLast = 0 \/ e.received = GopSize)

\* EncLib::encodePrep returns false: a GOP is complete, or the very first
\* picture, or there will be no more.
IsComplete(e) ==
  e.received > 0 /\ (e.eos \/ e.pocLast = 0 \/ e.received = GopSize)

\* Mutant of Reused: takes a picture that is still a reference.
ReusedAny == encPics

\* xGetNewPicBuffer: the pictures whose buffers it may take, once the list is
\* long enough; 1 is what the SPS holds for the highest layer there can be,
\* which is not the highest one in use.
Reused ==
  IF Cardinality(encPics) >= GopSize + 1 + 2
    THEN {p \in encPics : ~p.referenced} ELSE {}

\* The first picture of the sorted list gives way, or the list grows.
WithNewPicture(poc) ==
  LET new == [poc |-> poc, referenced |-> TRUE, reconstructed |-> FALSE,
              tid |-> NoLayer, nut |-> "TRAIL", irap |-> 0]
  IN  IF Reused = {} THEN encPics \cup {new}
      ELSE LET old == CHOOSE p \in Reused : \A q \in Reused : p.poc <= q.poc
           IN  (encPics \ {old}) \cup {[new EXCEPT !.tid = old.tid]}

\* encodePrep gets a frame: it is put into a picture buffer.
ReadFrame ==
  /\ phase = "read" /\ enc.frameRcvd < config.input
  /\ enc' = [enc EXCEPT !.frameRcvd = @ + 1,
                        !.eos = (enc.frameRcvd + 1 = config.framesToBeEncoded),
                        !.pocLast = @ + 1, !.received = @ + 1, !.picInGop = 0]
  /\ encPics' = WithNewPicture(enc'.pocLast)
  /\ rec' = Append(Tail(rec), Head(rec))
  /\ phase' = IF IsComplete(enc') THEN "start" ELSE "read"
  /\ UNCHANGED <<config, check, recon, cur, stream, stsa>>

\* The input has ended, as a read that fails tells: what was received is coded.
\* If that is nothing, the loop of the main program does not end.
ReadPastEnd ==
  /\ phase = "read" /\ enc.frameRcvd >= config.input
  /\ enc' = [enc EXCEPT !.eos = TRUE, !.framesToBeEncoded = enc.frameRcvd,
                        !.picInGop = 0]
  /\ phase' = IF IsComplete(enc') THEN "start" ELSE "read"
  /\ UNCHANGED <<config, check, encPics, rec, recon, cur, stream, stsa>>

-----------------------------------------------------------------------------
(* compressGOP for one picture: its NAL unit, its slice and its references. *)

Entry0 == config.gop[enc.picInGop + 1]       \* getGOPEntry(gopId)

PocCurr == IF enc.pocLast = 0 THEN 0 ELSE enc.pocLast - enc.received + Entry0.poc

\* A picture at which decoding can begin, other than the very first one.
IsPeriodic(poc) == config.refresh \in {1, 2} /\ poc % config.intraPeriod = 0

\* Mutant of NalType: a picture shown before a CRA picture is an ordinary one.
NalTypeTrail(poc) ==
  IF poc = 0 THEN "IDR_N_LP"
  ELSE IF IsPeriodic(poc) THEN IF config.refresh = 1 THEN "CRA" ELSE "IDR_W_RADL"
  ELSE IF poc < enc.lastIDR THEN "RADL" ELSE "TRAIL"

\* getNalUnitType
NalType(poc) ==
  IF poc = 0 THEN "IDR_N_LP"
  ELSE IF IsPeriodic(poc)
    THEN IF config.refresh = 1 THEN "CRA"
         ELSE IF MaxNumReorderPics > 0 THEN "IDR_W_RADL" ELSE "IDR_N_LP"
  ELSE IF poc < enc.pocCRA THEN "RASL"
  ELSE IF poc < enc.lastIDR THEN "RADL" ELSE "TRAIL"

\* initEncSlice: the slices that predict from nothing by their position.
IsIntra(poc) == poc = 0 \/ (config.intraPeriod > 0 /\ poc % config.intraPeriod = 0)

\* A picture beyond the last one that will be coded.
SkipPicture ==
  /\ phase = "start" /\ PocCurr >= enc.framesToBeEncoded
  /\ phase' = "next"
  /\ UNCHANGED <<config, check, enc, encPics, rec, recon, cur, stream, stsa>>

\* decodingRefreshMarking: the picture after which nothing before it is needed.
Anchor(nut) ==
  IF nut # "CRA" /\ enc.irapType \in IdrTypes THEN enc.lastIDR ELSE enc.pocCRA

\* decodingRefreshMarking: an IDR picture releases all others; the first picture
\* after the anchor releases all but these two.
Refreshed(pics, poc, nut) ==
  LET stays(p) == IF nut \in IdrTypes THEN p.poc = poc
                  ELSE \/ ~enc.refreshPending \/ poc <= Anchor(nut)
                       \/ p.poc \in {poc, Anchor(nut)}
  IN  {[p EXCEPT !.referenced = @ /\ stays(p)] : p \in pics}

\* From the choice of the NAL unit type to decodingRefreshMarking; the picture
\* is found by its POC, and its samples get their place for the file.
StartPicture ==
  /\ phase = "start" /\ PocCurr < enc.framesToBeEncoded
  /\ LET poc  == PocCurr
         nut  == NalType(poc)
         idr  == nut \in IdrTypes
         slot == Len(rec) - enc.received + IF enc.pocLast = 0 THEN 1 ELSE Entry0.poc
     IN  /\ cur' = [cur EXCEPT !.poc = poc, !.nut = nut, !.tid = Entry0.tid,
                               !.type = IF IsIntra(poc) THEN "I" ELSE Entry0.type]
         /\ rec' = [rec EXCEPT ![slot] = poc]
         /\ encPics' = Refreshed({IF p.poc # poc THEN p
                                  ELSE [p EXCEPT !.referenced = TRUE,
                                          !.tid = IF IsIntra(poc) THEN 0 ELSE Entry0.tid]
                                    : p \in encPics}, poc, nut)
         /\ enc' = [enc EXCEPT
              !.lastIDR = IF idr THEN poc ELSE @,
              !.refreshPending = nut \in RapTypes \/ (@ /\ poc <= Anchor(nut)),
              !.pocCRA = IF nut = "CRA" THEN poc ELSE @,
              !.irapPoc = IF nut \in RapTypes THEN poc ELSE @,
              !.irapType = IF nut \in RapTypes THEN nut ELSE @]
         /\ phase' = IF \E p \in encPics : p.poc = poc THEN "lists" ELSE "aborted"
  /\ UNCHANGED <<config, check, recon, stream, stsa>>

-----------------------------------------------------------------------------
(* The lists of references. *)

\* The entries for the start of a sequence: the last one for this position in
\* the period applies, but the entry after one that does is not looked at.
Matched(period) ==
  LET position == IF cur.poc % period = 0 THEN period ELSE cur.poc % period
      matches  == {i \in GopSize + 1 .. Len(check.rpls) : check.rpls[i].poc = position}
      run(i)   == i - Max({j \in GopSize .. i : j \notin matches})
      applies  == {i \in matches : run(i) % 2 = 1}
  IN  IF applies = {} THEN enc.picInGop + 1 ELSE Max(applies)

\* Without an intra period there is one all the same if the second frame of the
\* GOP is first predicted from both sides.
RplPeriod ==
  LET second == check.rpls[2]
      first(l) == IF l.refs = <<>> THEN 0 ELSE l.refs[1]
  IN  IF config.intraPeriod > 0 THEN config.intraPeriod
      ELSE IF first(second.l0) * first(second.l1) < 0 THEN 2 * GopSize ELSE 0

\* Mutant of RplIndex: no entry for the start of a sequence.
RplIndexPlain == enc.picInGop + 1

\* selectReferencePictureList
RplIndex ==
  LET since == cur.poc - enc.lastIDR
  IN  IF IsLowDelay
        THEN IF since < 2 * GopSize + 2
               THEN IF since + GopSize - 1 >= Len(check.rpls)
                      THEN enc.picInGop + 1 ELSE since + GopSize
               ELSE IF cur.poc % GopSize = 0 THEN GopSize ELSE cur.poc % GopSize
        ELSE IF RplPeriod > 0 THEN Matched(RplPeriod) ELSE enc.picInGop + 1

\* A picture the encoder may predict from, coded or not.
IsThere(d) == \E p \in encPics : p.poc = cur.poc - d /\ p.referenced

\* checkThatAllRefPicsAreAvailable answers with the POC of the first reference
\* that is missing, and with 0 if there is none.
AllThere(l) ==
  LET missing == SelectSeq(l.refs, LAMBDA d : ~IsThere(d))
  IN  cur.nut \in IdrTypes \/ missing = <<>> \/ cur.poc = missing[1]

\* The picture being coded has layer 0 if it is intra.
PicTid == (CHOOSE p \in encPics : p.poc = cur.poc).tid

IsHigher(d) == (CHOOSE p \in encPics : p.poc = cur.poc - d).tid > PicTid

\* getAllActiveRplEntriesHasSameSignFlag: no list of the SPS turns round.
SameSigns ==
  LET turns(l) ==
        \E j \in 2 .. l.active :
          (l.refs[1] > 0) # (l.refs[j] > l.refs[j - 1])
      copied == \A i \in DOMAIN check.rpls :
                  check.rpls[i].l0.refs = check.rpls[i].l1.refs
  IN  \A i \in DOMAIN check.rpls :
        /\ ~turns(check.rpls[i].l0)
        /\ copied \/ ~turns(check.rpls[i].l1)

\* The references of a list that are there and not of a higher layer.
Usable(l) == SelectSeq(l.refs, LAMBDA d : IsThere(d) /\ ~IsHigher(d))

\* xCreateExplicitReferencePictureSetFromReference for one of the lists, of which
\* own can be used: from what can be used of the other list, as many are added as
\* are needed for the active ones, if all lists have the same signs only with
\* theirs; then, never active, what is of a higher layer.
Explicit(l, own, others, same) ==
  LET Fits(d) == \A i \in DOMAIN own :
                   own[i] # d /\ (same => (own[i] > 0) = (d > 0))
      fits    == SelectSeq(others, Fits)
      alike   == SelectSeq(fits, LAMBDA d : same => (fits[1] > 0) = (d > 0))
      filled  == own \o SubSeq(alike, 1, Min({Len(alike), l.active - Len(own)}))
      higher  == SelectSeq(l.refs, LAMBDA d : IsThere(d) /\ IsHigher(d))
  IN  IF cur.nut \in RapTypes THEN [refs |-> <<>>, active |-> 0]
      ELSE [refs   |-> filled \o higher,
            active |-> Min({Len(filled), l.active})]

\* The lists from the SPS, or, if a reference is missing, lists of their own.
ChooseLists ==
  /\ phase = "lists"
  /\ phase' = "code"
  /\ \E rpl \in {check.rpls[RplIndex]} :
     \E own0 \in {Usable(rpl.l0)}, own1 \in {Usable(rpl.l1)}, same \in {SameSigns} :
       cur' = IF AllThere(rpl.l0) /\ AllThere(rpl.l1)
              THEN [cur EXCEPT !.l0 = rpl.l0, !.l1 = rpl.l1]
              ELSE [cur EXCEPT !.l0 = Explicit(rpl.l0, own0, own1, same),
                               !.l1 = Explicit(rpl.l1, own1, own0, same)]
  /\ UNCHANGED <<config, check, enc, encPics, rec, recon, stream, stsa>>

-----------------------------------------------------------------------------
(* The rest of compressGOP. *)

\* checkLeadingPictureRestrictions, each conjunct one of its CHECKs.
LeadingPicturesLegal ==
  LET others == {p \in encPics : p.reconstructed /\ p.poc # cur.poc}
      early  == cur.poc < enc.irapPoc
  IN  /\ cur.nut \notin RapTypes => (early <=> cur.nut \in Leading)
      /\ cur.nut = "RASL" => enc.irapType = "CRA"
      /\ cur.nut = "RADL" => enc.irapType # "IDR_N_LP"
      /\ cur.nut \in RapTypes => \A p \in others : p.poc < cur.poc
      /\ cur.nut = "RADL" =>
           \A p \in others : p.irap < enc.irapPoc /\ p.poc # enc.irapPoc => p.poc < cur.poc
      /\ cur.nut \in Leading =>
           \A p \in others : p.nut \notin Leading /\ p.irap = enc.irapPoc => p.poc <= enc.irapPoc
      /\ cur.nut = "RASL" =>
           \A p \in others : /\ p.nut = "RADL" /\ p.irap = enc.irapPoc => p.poc > cur.poc
                             /\ p.nut \in RapTypes /\ p.poc < enc.irapPoc => p.poc < cur.poc

\* Every picture the lists name, by how far back it is displayed.
Listed == ToSet(cur.l0.refs) \cup ToSet(cur.l1.refs)

\* Those of them that the slice predicts from, by setNumRefIdx.
ActiveOf(l) == {l.refs[i] : i \in 1 .. l.active}

Active == (IF cur.type = "I" THEN {} ELSE ActiveOf(cur.l0))
            \cup (IF cur.type = "B" THEN ActiveOf(cur.l1) ELSE {})

\* Mutant of AfterMarking: keeps what only the second list names no longer.
AfterMarkingFirst ==
  {[p EXCEPT !.referenced =
      @ /\ (cur.nut \in IdrTypes \/ p.poc = cur.poc
              \/ cur.poc - p.poc \in ToSet(cur.l0.refs))] : p \in encPics}

\* Mutant of AfterMarking: keeps every picture up to the next IDR picture.
AfterMarkingForever ==
  {[p EXCEPT !.referenced = @ /\ (cur.nut \notin IdrTypes \/ p.poc = cur.poc)]
     : p \in encPics}

\* applyReferencePictureListBasedMarking
AfterMarking ==
  {[p EXCEPT !.referenced =
      @ /\ (cur.nut \in IdrTypes \/ p.poc = cur.poc \/ cur.poc - p.poc \in Listed)]
     : p \in encPics}

\* Mutant of IsStsa: does not ask what is still kept.
IsStsaAlways == cur.tid > 0 /\ cur.nut \notin Leading

\* isStepwiseTemporalLayerSwitchingPointCandidate, and the loop that looks for
\* references of the same layer in the structure.  It compares POCs with the
\* places in the GOP, and past the end of a list it finds the difference 0.
IsStsa ==
  LET Ref(l, j) == IF j <= Len(l.refs) THEN cur.poc - l.refs[j] ELSE cur.poc
      Named(i)  == {Ref(config.gop[i].l0, j) : j \in 1 .. cur.l0.active}
                     \cup {Ref(config.gop[i].l1, j) : j \in 1 .. cur.l1.active}
      sameLayer == {i \in 1 .. GopSize : config.gop[i].tid = cur.tid}
  IN  /\ cur.tid > 0 /\ cur.nut \notin Leading
      /\ \A p \in AfterMarking : p.referenced /\ p.poc # cur.poc => p.tid < cur.tid
      /\ \A i \in sameLayer, k \in 1 .. GopSize :
           config.gop[k].poc \in Named(i) => config.gop[k].tid < cur.tid

\* A NAL unit as the decoder sees it (see Decoder): one slice, with the picture
\* header in it.
Unit(nut) ==
  [nut |-> nut, tid |-> cur.tid, poc |-> cur.poc, start |-> TRUE, phInSh |-> TRUE,
   active |-> {-d : d \in Active}, rpl |-> {-d : d \in Listed}, output |-> TRUE,
   nonRef |-> FALSE, noPrior |-> FALSE, recovery |-> 0]

\* The first picture comes after the parameter sets.
ParameterSetUnits ==
  IF stream # <<>> THEN <<>>
  ELSE <<[Unit("PH") EXCEPT !.start = FALSE, !.phInSh = FALSE, !.active = {}, !.rpl = {}]>>

\* constructRefPicList, which throws unless it finds every active reference.
RefsFound == \A d \in Active : \E p \in encPics : p.poc = cur.poc - d

CodePicture ==
  /\ phase = "code"
  /\ encPics' = {IF p.poc # cur.poc THEN p
                 ELSE [p EXCEPT !.reconstructed = TRUE, !.nut = cur.nut,
                                !.irap = enc.irapPoc] : p \in AfterMarking}
  /\ stsa' = IF IsStsa THEN stsa \cup {cur.poc} ELSE stsa
  /\ stream' = stream \o ParameterSetUnits
                      \o <<Unit(IF cur.nut \in IdrTypes THEN "IDR" ELSE cur.nut)>>
  /\ phase' = IF LeadingPicturesLegal /\ RefsFound THEN "next" ELSE "aborted"
  /\ UNCHANGED <<config, check, enc, rec, recon, cur>>

\* EncLib::encode counts the pictures of the GOP; after the last one, the
\* application writes those it has got to the reconstruction file.
NextPicture ==
  /\ phase = "next" /\ enc.picInGop + 1 # GopSize /\ enc.pocLast # 0
  /\ phase' = "start"
  /\ enc' = [enc EXCEPT !.picInGop = @ + 1]
  /\ UNCHANGED <<config, check, encPics, rec, recon, cur, stream, stsa>>

EndGop ==
  /\ phase = "next" /\ (enc.picInGop + 1 = GopSize \/ enc.pocLast = 0)
  /\ phase' = IF enc.eos THEN "done" ELSE "read"
  /\ enc' = [enc EXCEPT !.picInGop = @ + 1, !.received = 0]
  /\ recon' = recon \o SubSeq(rec, Len(rec) - enc.received + 1, Len(rec))
  /\ UNCHANGED <<config, check, encPics, rec, cur, stream, stsa>>

EncNext ==
  \/ CheckFrame /\ UNCHANGED <<enc, encPics, rec, recon, cur, stream, stsa>>
  \/ ReadFrame \/ ReadPastEnd \/ SkipPicture \/ StartPicture
  \/ ChooseLists \/ CodePicture \/ NextPicture \/ EndGop
=============================================================================
