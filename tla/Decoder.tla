------------------------------- MODULE Decoder -------------------------------
(***************************************************************************)
(* The decoder application: the main loop of DecApp::decode, the part of   *)
(* DecLib that decides what becomes of each NAL unit (random access, the   *)
(* decoded picture buffer, the end of a sequence), and the writing of      *)
(* pictures in output order.  One thread runs it; pc names the function    *)
(* that runs next, and every action is one call or one round of a loop.    *)
(* The stream is whatever Streams holds: the decoder must cope with it,    *)
(* except that the loss of a picture header is not modelled.               *)
(***************************************************************************)
EXTENDS PicOrderCnt, PicList

CONSTANTS
  MAX_INT,              \* the code's infinity for POCs (CommonDef.h)
  Streams,              \* the bitstreams that may be decoded
  SkipFrames,           \* the values of m_iSkipFrame a user may ask for
  TemporalLayers,       \* the values of m_maxTemporalLayer
  Limits                \* what an SPS may say of that layer (see Limit)

(***************************************************************************)
(* A NAL unit is a record.  PH stands for every type that can only start a *)
(* picture (a delimiter, a parameter set, a picture header), SEI for the   *)
(* prefix types that leave this open, SUFFIX for the types that belong to  *)
(* the picture before them; IDR stands for both IDR types and TRAIL for    *)
(* STSA too.  Of a slice, the fields tell                                  *)
(*   tid        its temporal layer                                         *)
(*   poc        the POC its encoder gave it, which is not transmitted      *)
(*   start      whether it is the first slice of its picture               *)
(*   phInSh     whether its header contains the picture header             *)
(*   active     the POC differences of the pictures it predicts from       *)
(*   rpl        those of every picture its lists name                      *)
(*   output     ph_pic_output_flag                                         *)
(*   nonRef     ph_non_ref_pic_flag                                        *)
(*   noPrior    sh_no_output_of_prior_pics_flag                            *)
(*   recovery   ph_recovery_poc_cnt of a GDR picture                       *)
(***************************************************************************)
SliceTypes == {"IDR", "CRA", "GDR", "RASL", "RADL", "TRAIL"}
NalTypes   == SliceTypes \cup {"EOS", "EOB", "PH", "SEI", "SUFFIX"}

NalUnit == [nut: NalTypes, tid: Nat, poc: Int, start: BOOLEAN, phInSh: BOOLEAN,
            active: SUBSET Int, rpl: SUBSET Int, output: BOOLEAN,
            nonRef: BOOLEAN, noPrior: BOOLEAN, recovery: Nat]

\* getMaxNumReorderPics and getMaxDecPicBuffering of the SPS.
Limit == [reorder: Nat, buffering: Nat]

\* The picture header of the picture that starts at p has not been lost.
HasHeader(s, p) ==
  \/ s[p].phInSh
  \/ \E q \in 1 .. p - 1 : /\ s[q].nut = "PH"
                           /\ \A r \in q + 1 .. p - 1 : s[r].nut \in {"PH", "SEI"}

ASSUME DecoderAssumption ==
  /\ MAX_INT \in Nat
  /\ \A s \in Streams : /\ s \in Seq(NalUnit) /\ s # <<>>
                        /\ \A p \in DOMAIN s : s[p].start => HasHeader(s, p)
  /\ SkipFrames \subseteq Nat
  /\ TemporalLayers \subseteq Nat
  /\ Limits \subseteq Limit

\* The values of pc.
Points == {"loop", "flush", "decode", "access", "refs", "returned", "read",
           "finish", "output", "write", "finalFlush", "done", "aborted"}

VARIABLES
  stream,       \* the bitstream
  options,      \* m_iSkipFrame and m_maxTemporalLayer as the user set them, and
                \* the limits the SPS sets for that layer
  pc,           \* what runs next
  pos,          \* the position of the next NAL unit to be read
  nal,          \* the position of the one just read, 0 if none was
  newPicture,   \* bNewPicture
  app,          \* the other variables of DecApp
  dec,          \* the variables of DecLib
  listPic,      \* DecLib::m_cListPic
  written       \* the pictures written to the output file, in order

vars == <<stream, options, pc, pos, nal, newPicture, app, dec, listPic, written>>

App == [skipFrame: Int,              \* m_iSkipFrame
        skipFrameCounter: Int,       \* its value before the call of decode
        pocLastDisplay: Int,         \* m_iPOCLastDisplay
        picSkipped: BOOLEAN,         \* bPicSkipped
        prevPicSkipped: BOOLEAN,
        eosPresentInPu: BOOLEAN,
        eosPresentInLastPu: BOOLEAN,
        newCLVS: BOOLEAN,            \* m_newCLVS
        loopFiltered: BOOLEAN,
        gdrRecoveryPeriod: BOOLEAN,
        listKnown: BOOLEAN,          \* pcListPic # nullptr
        outputPresent: BOOLEAN,      \* outputPicturePresentInBitstream
        notYetDisplayed: Int,        \* numPicsNotYetDisplayed
        dpbFullness: Int,
        cursor: Nat]                 \* iterPic of xWriteOutput

Dec == [poc: Int,                    \* of m_apcSlicePilot
        curPic: Nat,                 \* m_pcPic, 0 for nullptr
        filterable: BOOLEAN,         \* it has its temporary buffers
        firstSliceInPicture: BOOLEAN,
        firstSliceInSequence: BOOLEAN,
        pocRandomAccess: Int,
        prevTid0POC: Int,
        prevPOC: Int,
        skippedOnce: BOOLEAN,        \* m_skippedPOC, m_skippedLayerID # MAX_INT
        picOutputFlag: BOOLEAN,      \* of m_picHeader
        noOutputBeforeRecovery: BOOLEAN,
        lastNoOutputBeforeRecovery: BOOLEAN,
        isNoOutputPriorPics: BOOLEAN,
        lastPOCNoOutputPriorPics: Int,
        prevGDRPOC: Int,             \* m_prevGDRInSameLayerPOC
        prevGDRRecoveryPOC: Int]     \* m_prevGDRInSameLayerRecoveryPOC

Options == [skipFrame: SkipFrames, maxTid: TemporalLayers, limits: Limits]

\* The program is about to read the first NAL unit.
Ready ==
  /\ app = [skipFrame |-> options.skipFrame, skipFrameCounter |-> 0,
            pocLastDisplay |-> -MAX_INT + options.skipFrame,
            picSkipped |-> FALSE, prevPicSkipped |-> TRUE, eosPresentInPu |-> FALSE,
            eosPresentInLastPu |-> FALSE, newCLVS |-> TRUE,
            loopFiltered |-> FALSE, gdrRecoveryPeriod |-> FALSE,
            listKnown |-> FALSE, outputPresent |-> FALSE,
            notYetDisplayed |-> 0, dpbFullness |-> 0, cursor |-> 0]
  /\ dec = [poc |-> 0, curPic |-> 0, filterable |-> FALSE,
            firstSliceInPicture |-> TRUE, firstSliceInSequence |-> TRUE,
            pocRandomAccess |-> MAX_INT,
            prevTid0POC |-> 0, prevPOC |-> MAX_INT, skippedOnce |-> FALSE,
            picOutputFlag |-> TRUE, noOutputBeforeRecovery |-> FALSE,
            lastNoOutputBeforeRecovery |-> FALSE,
            isNoOutputPriorPics |-> FALSE, lastPOCNoOutputPriorPics |-> -1,
            prevGDRPOC |-> -MAX_INT, prevGDRRecoveryPOC |-> -MAX_INT]
  /\ pc = "loop"
  /\ pos = 1
  /\ nal = 0
  /\ newPicture = FALSE
  /\ listPic = <<>>
  /\ written = <<>>

Init == stream \in Streams /\ options \in Options /\ Ready

-----------------------------------------------------------------------------
(* The state as the functions below see it. *)

AtEof == pos > Len(stream)                    \* !bitstreamFile

Nut == IF nal = 0 THEN "INVALID" ELSE stream[nal].nut

IsSlice == Nut \in SliceTypes

\* Mutant of IsNewPicture: does not wait for the first slice of a picture.
IsNewPictureAlways ==
  \E q \in pos .. Len(stream) :
    /\ stream[q].nut \in SliceTypes => stream[q].phInSh
    /\ stream[q].nut \in SliceTypes \cup {"PH"}
    /\ \A r \in pos .. q - 1 : stream[r].nut = "SEI"

\* isNewPicture: looks ahead, past the NAL units that leave it open, for one
\* that starts a picture or one that cannot.
IsNewPicture ==
  LET decisive == {q \in pos .. Len(stream) : stream[q].nut # "SEI"}
      next     == stream[CHOOSE q \in decisive : \A r \in decisive : q <= r]
  IN  /\ ~dec.firstSliceInPicture
      /\ decisive # {}
      /\ next.nut \in SliceTypes \cup {"PH"}
      /\ next.nut \in SliceTypes => next.phInSh

\* isRapPicFlag of the slice pilot or a GDR slice
IsRecoveryPoint == Nut \in {"IDR", "CRA", "GDR"}

\* xUpdatePreviousTid0POC: the pictures that anchor the POCs after them.
IsAnchor(n) == n.tid = 0 /\ n.nut \notin {"RASL", "RADL"} /\ ~n.nonRef

-----------------------------------------------------------------------------
(* The main loop up to the call of DecLib::decode. *)

\* The next NAL unit starts a picture: this round of the loop reads nothing.
NewPicture ==
  /\ pc = "loop" /\ ~AtEof /\ IsNewPicture
  /\ pc' = "finish"
  /\ nal' = 0
  /\ newPicture' = TRUE
  /\ UNCHANGED <<stream, options, pos, app, dec, listPic, written>>

\* Mutant of StartsSequence: forgets CRA pictures.
StartsSequenceIdr(n) == n.nut = "IDR"

\* The slices before which all earlier pictures are written: those of an IDR
\* picture, and of a CRA picture that follows the end of a sequence.
StartsSequence(n) ==
  n.nut = "IDR" \/ (n.nut = "CRA" /\ app.eosPresentInLastPu)

\* A NAL unit is read.
ReadNal ==
  /\ pc = "loop" /\ ~AtEof /\ ~IsNewPicture
  /\ nal' = pos
  /\ pos' = pos + 1
  /\ newPicture' = FALSE
  /\ LET starts == dec.firstSliceInPicture /\ StartsSequence(stream[pos])
         stays  == ~dec.firstSliceInPicture \/ app.eosPresentInLastPu
     IN  /\ app' = [app EXCEPT !.newCLVS = starts \/ (stays /\ @)]
         /\ pc' = IF starts THEN "flush" ELSE "decode"
  /\ UNCHANGED <<stream, options, dec, listPic, written>>

\* xFlushOutput: the first picture of the list that is still to be output.
FlushOne ==
  /\ pc \in {"flush", "finalFlush"} /\ app.listKnown
  /\ \E i \in DOMAIN listPic :
       /\ listPic[i].neededForOutput
       /\ \A k \in DOMAIN listPic : k < i => ~listPic[k].neededForOutput
       /\ listPic' = [listPic EXCEPT ![i] = Written(@)]
       /\ written' = Append(written, listPic[i].pic)
       /\ app' = [app EXCEPT !.pocLastDisplay = listPic[i].poc]
  /\ UNCHANGED <<stream, options, pc, pos, nal, newPicture, dec>>

\* xFlushOutput returns: every buffer has been deleted.
FlushEnd ==
  /\ pc \in {"flush", "finalFlush"}
  /\ app.listKnown =>
       \A i \in DOMAIN listPic : ~listPic[i].neededForOutput
  /\ pc' = IF pc = "flush" THEN "decode" ELSE "done"
  /\ IF app.listKnown /\ listPic # <<>>
       THEN /\ listPic' = <<>>
            /\ app' = [app EXCEPT !.pocLastDisplay = -MAX_INT]
       ELSE UNCHANGED <<listPic, app>>
  /\ UNCHANGED <<stream, options, pos, nal, newPicture, dec, written>>

\* A NAL unit of a temporal layer above the target is not decoded.
Drop ==
  /\ pc = "decode" /\ stream[nal].tid > options.maxTid
  /\ pc' = "read"
  /\ app' = [app EXCEPT !.picSkipped = TRUE]
  /\ dec' = [dec EXCEPT !.firstSliceInPicture = @ /\ ~IsSlice]
  /\ UNCHANGED <<stream, options, pos, nal, newPicture, listPic, written>>

-----------------------------------------------------------------------------
(* DecLib::decode *)

\* decode for the end of a sequence
AfterEos(d) ==
  [d EXCEPT !.prevGDRPOC = -MAX_INT, !.prevGDRRecoveryPOC = -MAX_INT,
            !.pocRandomAccess = MAX_INT, !.prevPOC = -MAX_INT]

DecodeNonVcl ==
  /\ pc = "decode" /\ stream[nal].tid <= options.maxTid /\ ~IsSlice
  /\ pc' = "read"
  /\ dec' = IF Nut = "EOS" THEN AfterEos(dec) ELSE dec
  /\ UNCHANGED <<stream, options, pos, nal, newPicture, app, listPic, written>>

\* xDecodeSlice derives NoOutputBeforeRecoveryFlag of a recovery point; both
\* HandleCraAsCvsStartFlag and HandleGdrAsCvsStartFlag are never set.
StartsDecoding == dec.firstSliceInSequence \/ Nut = "IDR"

\* parseSliceHeader: the POC of the slice.
SlicePoc(n) ==
  IF n.nut = "IDR" THEN IdrPoc(PocLsb(n.poc))
                   ELSE DerivedPoc(PocLsb(n.poc), dec.prevTid0POC)

\* xDecodeSlice up to the decision on random access: the POC, and what the
\* slice header says of the output of this picture and of those before it.
DecodeHeader ==
  /\ pc = "decode" /\ stream[nal].tid <= options.maxTid /\ IsSlice
  /\ pc' = "access"
  /\ app' = [app EXCEPT !.picSkipped = FALSE, !.skipFrameCounter = app.skipFrame]
  /\ LET n         == stream[nal]
         parsed    == SlicePoc(n)
         lastFlag  == IF Nut \in {"CRA", "GDR"} THEN StartsDecoding
                      ELSE dec.lastNoOutputBeforeRecovery
         flag      == IF IsRecoveryPoint THEN StartsDecoding
                      ELSE dec.noOutputBeforeRecovery
         noPrior   == IF IsRecoveryPoint THEN n.noPrior
                      ELSE dec.isNoOutputPriorPics
         discard   == /\ dec.firstSliceInPicture /\ parsed # dec.prevPOC
                      /\ IsRecoveryPoint /\ flag /\ noPrior
         reset     == Nut \in {"CRA", "GDR"} /\ lastFlag
         poc       == IF reset THEN PocLsb(parsed) ELSE parsed
     IN  /\ dec' = [dec EXCEPT
              !.poc = poc,
              !.prevTid0POC = IF IsAnchor(n) THEN poc ELSE @,
              !.prevGDRRecoveryPOC =
                 IF Nut = "GDR" /\ dec.prevGDRPOC = -MAX_INT
                   THEN parsed + n.recovery ELSE @,
              !.noOutputBeforeRecovery = flag,
              !.lastNoOutputBeforeRecovery = lastFlag,
              !.isNoOutputPriorPics = noPrior /\ ~discard,
              !.lastPOCNoOutputPriorPics =
                 IF reset THEN poc
                 ELSE IF IsRecoveryPoint /\ n.noPrior THEN parsed ELSE @,
              !.picOutputFlag = n.output /\ ~(Nut = "RASL" /\ lastFlag)]
         /\ listPic' = IF discard THEN WithoutPriorOutput(listPic, parsed)
                                  ELSE listPic
  /\ UNCHANGED <<stream, options, pos, nal, newPicture, written>>

\* Mutants of FramesToSkip: counts the first picture; counts below zero.
FramesToSkipEarly ==
  IF app.skipFrame > 0 /\ stream[nal].start THEN app.skipFrame - 1 ELSE app.skipFrame

FramesToSkipBelow ==
  IF stream[nal].start /\ dec.skippedOnce THEN app.skipFrame - 1 ELSE app.skipFrame

\* isRandomAccessSkipPicture: m_iSkipFrame once the picture has been counted.
FramesToSkip ==
  IF app.skipFrame > 0 /\ stream[nal].start /\ dec.skippedOnce
    THEN app.skipFrame - 1 ELSE app.skipFrame

\* Mutants of CannotBeDecoded: skips RADL pictures too; starts anywhere.
CannotBeDecodedLeading ==
  IF dec.pocRandomAccess = MAX_INT
    THEN ~IsRecoveryPoint ELSE dec.poc < dec.pocRandomAccess

CannotBeDecodedAnywhere ==
  dec.pocRandomAccess # MAX_INT /\ Nut = "RASL" /\ dec.poc < dec.pocRandomAccess

\* isRandomAccessSkipPicture: decoding cannot start here, or the picture needs
\* pictures from before the point where it did start.
CannotBeDecoded ==
  IF dec.pocRandomAccess = MAX_INT
    THEN ~IsRecoveryPoint
    ELSE Nut = "RASL" /\ dec.poc < dec.pocRandomAccess

\* The slice is not decoded.
SkipSlice ==
  /\ pc = "access"
  /\ FramesToSkip # 0 \/ CannotBeDecoded
  /\ pc' = "returned"
  /\ app' = [app EXCEPT !.skipFrame = FramesToSkip - 1]
  /\ dec' = [dec EXCEPT !.skippedOnce = TRUE]
  /\ UNCHANGED <<stream, options, pos, nal, newPicture, listPic, written>>

\* The slice is decoded; it may be the one where decoding starts.
AccessSlice ==
  /\ pc = "access"
  /\ FramesToSkip = 0 /\ ~CannotBeDecoded
  /\ pc' = "refs"
  /\ app' = [app EXCEPT !.skipFrame = FramesToSkip]
  /\ dec' = [dec EXCEPT !.pocRandomAccess =
               IF Nut = "IDR" THEN -MAX_INT
               ELSE IF @ = MAX_INT THEN dec.poc ELSE @]
  /\ UNCHANGED <<stream, options, pos, nal, newPicture, listPic, written>>

\* checkThatAllRefPicsAreAvailable: the POCs of the active references that are
\* not there.  An IDR picture is not asked.
Missing ==
  IF Nut = "IDR" THEN {}
  ELSE {p \in {dec.poc + d : d \in stream[nal].active} : ~IsAvailable(listPic, p)}

\* The loop that asks for missing references runs only while their POC is
\* greater than zero.
Noticed == {p \in Missing : p > 0}

MayGenerate == Nut \in {"CRA", "GDR"} /\ dec.noOutputBeforeRecovery

\* xCreateUnavailablePicture: a grey picture takes the place of a reference
\* that lies before the picture at which decoding starts.
InsertUnavailable ==
  /\ pc = "refs" /\ MayGenerate
  /\ \E p \in Noticed :
       /\ listPic' = Store(listPic, [pic |-> 0, poc |-> p, referenced |-> TRUE,
                             neededForOutput |-> FALSE, reconstructed |-> TRUE])
       /\ dec' = [dec EXCEPT !.prevTid0POC = p]
  /\ UNCHANGED <<stream, options, pc, pos, nal, newPicture, app, written>>

\* A reference is missing and nothing is put in its place: xCreateLostPicture is
\* called with the layer of the slice pilot's picture, which for the first slice
\* of a picture is a null pointer, and finds no slices in a new buffer.  (After
\* a picture of several slices the pilot may still point to that picture; the
\* streams with lost pictures have one slice per picture.)
LoseReference ==
  /\ pc = "refs" /\ ~MayGenerate /\ Noticed # {}
  /\ pc' = "aborted"
  /\ UNCHANGED <<stream, options, pos, nal, newPicture, app, dec, listPic, written>>

\* The loop is left when no reference is missing, or at one it does not notice.
RefsChecked == Noticed = {} \/ Missing # Noticed

\* constructRefPicList, which throws unless it finds every active reference.
AfterRefPicList(list) ==
  IF \A d \in stream[nal].active :
       \E i \in DOMAIN list : list[i].poc = dec.poc + d
    THEN "returned" ELSE "aborted"

\* xActivateParameterSets and the rest of xDecodeSlice for the first slice of
\* a picture: the marking of references, then a buffer for the picture.
ActivatePicture ==
  /\ pc = "refs" /\ RefsChecked /\ dec.firstSliceInPicture
  /\ listPic' = Store(Marked(listPic, dec.poc, stream[nal].rpl, Nut = "IDR"),
                      [pic |-> nal, poc |-> dec.poc, referenced |-> TRUE,
                       neededForOutput |-> FALSE, reconstructed |-> FALSE])
  /\ pc' = AfterRefPicList(listPic')
  /\ dec' = [dec EXCEPT !.curPic = nal, !.filterable = TRUE, !.prevPOC = dec.poc,
               !.firstSliceInSequence = FALSE, !.firstSliceInPicture = FALSE]
  /\ UNCHANGED <<stream, options, pos, nal, newPicture, app, written>>

\* The same for a slice that continues m_pcPic.
ContinuePicture ==
  /\ pc = "refs" /\ RefsChecked /\ ~dec.firstSliceInPicture
  /\ listPic' = [listPic EXCEPT ![IndexOf(listPic, dec.curPic)] =
                   [@ EXCEPT !.poc = dec.poc, !.referenced = TRUE]]
  /\ pc' = AfterRefPicList(listPic')
  /\ dec' = [dec EXCEPT !.prevPOC = dec.poc, !.firstSliceInSequence = FALSE]
  /\ UNCHANGED <<stream, options, pos, nal, newPicture, app, written>>

-----------------------------------------------------------------------------
(* The main loop after the call of DecLib::decode. *)

\* DecApp notices that the slice was skipped by the change of m_iSkipFrame, and
\* takes it back: the count goes down when the next picture comes.
Returned ==
  /\ pc = "returned"
  /\ pc' = "read"
  /\ LET counter == IF app.skipFrameCounter = 1 /\ Nut \in {"GDR", "CRA"}
                      THEN 0 ELSE app.skipFrameCounter
         skipped == app.skipFrame < counter
     IN  app' = [app EXCEPT
           !.gdrRecoveryPeriod = @ \/ (app.prevPicSkipped /\ Nut = "GDR"),
           !.picSkipped = @ \/ skipped,
           !.skipFrame = IF skipped THEN @ + 1 ELSE @]
  /\ UNCHANGED <<stream, options, pos, nal, newPicture, dec, listPic, written>>

\* setEosPresentInPu writes to m_pcPic, and after an EOS only EOS and EOB may
\* come until the next picture starts.
EndsOfReading == Nut = "EOS" => dec.curPic # 0
LegalAfterEos == app.eosPresentInPu => Nut \in {"EOS", "EOB"}

ReadEnd ==
  /\ pc = "read"
  /\ pc' = IF EndsOfReading /\ LegalAfterEos THEN "finish" ELSE "aborted"
  /\ app' = [app EXCEPT
       !.prevPicSkipped = IF IsSlice /\ Nut # "RASL" THEN app.picSkipped ELSE @,
       !.eosPresentInPu = @ \/ Nut = "EOS",
       !.newCLVS = @ \/ Nut = "EOS"]
  /\ UNCHANGED <<stream, options, pos, nal, newPicture, dec, listPic, written>>

\* newPicture || !bitstreamFile || EOS: the current picture is complete.
EndsPicture == newPicture \/ AtEof \/ Nut = "EOS"

\* The slices read since the last picture was finished were decoded.
HasPicture == ~dec.firstSliceInSequence /\ ~app.picSkipped

\* After an EOS, the current picture is not finished at the end of the file.
Filters == ~app.loopFiltered \/ ~AtEof

\* Mutant of IsOutput: ignores ph_pic_output_flag.
IsOutputAlways == ~(app.newCLVS /\ stream[dec.curPic].nut = "RASL")

\* finishPicture: whether the current picture will be output.
IsOutput == dec.picOutputFlag /\ ~(app.newCLVS /\ stream[dec.curPic].nut = "RASL")

\* What follows finishPicture, and happens without it too: bookkeeping for EOS
\* and GDR, with the POC of the picture that ended.
AfterPicture(a, d) ==
  LET poc   == listPic[IndexOf(listPic, dec.curPic)].poc
      isGdr == stream[dec.curPic].nut = "GDR"
  IN  /\ dec' = [d EXCEPT !.firstSliceInSequence = @ \/ Nut = "EOS",
                          !.prevGDRPOC = IF isGdr THEN poc ELSE @]
      /\ app' = [a EXCEPT !.loopFiltered = (Nut = "EOS"),
                          !.gdrRecoveryPeriod = @ /\ poc < dec.prevGDRRecoveryPOC]

\* executeLoopFilters and finishPicture; the list is sorted for output.
FinishPicture ==
  /\ pc = "finish" /\ EndsPicture /\ HasPicture /\ Filters
  /\ Holds(listPic, dec.curPic) /\ dec.filterable
  /\ pc' = "output"
  /\ LET finished == [listPic EXCEPT ![IndexOf(listPic, dec.curPic)] =
                       [@ EXCEPT !.neededForOutput = IsOutput,
                                 !.reconstructed = TRUE]]
     IN  listPic' = [i \in DOMAIN listPic |-> finished[SortOrder(finished)[i]]]
  /\ AfterPicture([app EXCEPT !.listKnown = TRUE],
                  [dec EXCEPT !.firstSliceInPicture = TRUE, !.filterable = FALSE])
  /\ UNCHANGED <<stream, options, pos, nal, newPicture, written>>

\* The last picture of the file, when loopFiltered is still set from an EOS.
LeaveUnfinished ==
  /\ pc = "finish" /\ EndsPicture /\ HasPicture /\ ~Filters
  /\ Holds(listPic, dec.curPic)
  /\ pc' = "output"
  /\ AfterPicture(app, dec)
  /\ UNCHANGED <<stream, options, pos, nal, newPicture, listPic, written>>

\* m_pcPic has been deleted, or the deblocking filter runs on a picture that was
\* finished before, and whose coding units are gone.
FilterFreed ==
  /\ pc = "finish" /\ EndsPicture /\ HasPicture
  /\ ~(Holds(listPic, dec.curPic) /\ (Filters => dec.filterable))
  /\ pc' = "aborted"
  /\ UNCHANGED <<stream, options, pos, nal, newPicture, app, dec, listPic, written>>

\* There is no picture to finish: none since the end of the last sequence, or
\* its slices were skipped; or this NAL unit ends no picture.
NoPicture ==
  /\ pc = "finish" /\ ~(EndsPicture /\ HasPicture)
  /\ pc' = "output"
  /\ dec' = [dec EXCEPT !.firstSliceInPicture = @ \/ EndsPicture]
  /\ UNCHANGED <<stream, options, pos, nal, newPicture, app, listPic, written>>

-----------------------------------------------------------------------------
(* Output. *)

\* The calls of xWriteOutput: after a picture, after an EOS, and after every
\* slice (the additional bumping of C.5.2.3).
Writes == newPicture \/ Nut = "EOS" \/ IsSlice

\* When a new picture starts, the EOS flags of the picture unit move on.
NextPictureUnit(a) ==
  IF newPicture
    THEN [a EXCEPT !.eosPresentInLastPu = a.eosPresentInPu,
                   !.eosPresentInPu = FALSE]
    ELSE a

\* Output is suppressed while a GDR picture recovers; xWriteOutput counts.
PrepareOutput ==
  /\ pc = "output" /\ app.listKnown
  /\ pc' = IF Writes THEN "write" ELSE "loop"
  /\ LET list    == IF app.gdrRecoveryPeriod THEN WithoutOutput(listPic)
                                             ELSE listPic
         needed  == \E i \in DOMAIN list : list[i].neededForOutput
     IN  /\ listPic' = list
         /\ app' = NextPictureUnit([app EXCEPT
              !.outputPresent = @ \/ (Writes /\ needed),
              !.notYetDisplayed = Cardinality(Waiting(list, app.pocLastDisplay)),
              !.dpbFullness = Cardinality(Occupied(list, app.pocLastDisplay)),
              !.cursor = 0])
  /\ dec' = [dec EXCEPT !.firstSliceInPicture = @ /\ Nut # "EOS"]
  /\ UNCHANGED <<stream, options, pos, nal, newPicture, written>>

\* Nothing can be written before the first picture is finished.
NoOutput ==
  /\ pc = "output" /\ ~app.listKnown
  /\ pc' = "loop"
  /\ app' = NextPictureUnit(app)
  /\ UNCHANGED <<stream, options, pos, nal, newPicture, dec, listPic, written>>

\* Mutant of MustBump: one picture too early.
MustBumpEarly ==
  \/ app.notYetDisplayed >= options.limits.reorder
  \/ app.dpbFullness > options.limits.buffering

\* xWriteOutput: too many pictures wait, or the buffer is too full.
MustBump ==
  \/ app.notYetDisplayed > options.limits.reorder
  \/ app.dpbFullness > options.limits.buffering

\* Mutant of ToWrite: writes whatever waits.
ToWriteAll == {i \in Waiting(listPic, app.pocLastDisplay) : i > app.cursor}

\* The pictures of the list the loop of xWriteOutput has still to pass and
\* would write.
ToWrite ==
  {i \in Waiting(listPic, app.pocLastDisplay) : i > app.cursor /\ MustBump}

WriteOne ==
  /\ pc = "write"
  /\ \E i \in ToWrite :
       /\ \A k \in ToWrite : i <= k
       /\ listPic' = [listPic EXCEPT ![i] = Written(@)]
       /\ written' = Append(written, listPic[i].pic)
       /\ app' = [app EXCEPT
            !.pocLastDisplay = listPic[i].poc,
            !.notYetDisplayed = @ - 1,
            !.dpbFullness = IF listPic[i].referenced THEN @ ELSE @ - 1,
            !.cursor = i]
  /\ UNCHANGED <<stream, options, pc, pos, nal, newPicture, dec>>

WriteEnd ==
  /\ pc = "write" /\ ToWrite = {}
  /\ pc' = "loop"
  /\ UNCHANGED <<stream, options, pos, nal, newPicture, app, dec, listPic, written>>

\* After the loop.  Without a finished picture the list is a null pointer; a
\* stream without a picture to output is an error.
EndOfStream ==
  /\ pc = "loop" /\ AtEof
  /\ LET needed == \E i \in DOMAIN listPic : listPic[i].neededForOutput
     IN  pc' = IF app.listKnown /\ (app.outputPresent \/ needed)
                 THEN "finalFlush" ELSE "aborted"
  /\ UNCHANGED <<stream, options, pos, nal, newPicture, app, dec, listPic, written>>

\* The program has ended.
Ended == pc \in {"done", "aborted"} /\ UNCHANGED vars

Next ==
  \/ NewPicture \/ ReadNal \/ FlushOne \/ FlushEnd \/ Drop
  \/ DecodeNonVcl \/ DecodeHeader \/ SkipSlice \/ AccessSlice
  \/ InsertUnavailable \/ LoseReference \/ ActivatePicture \/ ContinuePicture
  \/ Returned \/ ReadEnd
  \/ FinishPicture \/ LeaveUnfinished \/ FilterFreed \/ NoPicture
  \/ PrepareOutput \/ NoOutput \/ WriteOne \/ WriteEnd
  \/ EndOfStream \/ Ended

\* The program is one thread that never waits: it takes every step it can.
Spec == Init /\ [][Next]_vars /\ WF_vars(Next)
=============================================================================
