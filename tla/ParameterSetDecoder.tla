------------------------- MODULE ParameterSetDecoder -------------------------
(***************************************************************************)
(* How DecLib and the loop of DecApp::decode receive parameter sets and    *)
(* activate them for the slices of a picture: SPS, PPS, and the adaptation *)
(* parameter sets (APS) of the adaptive loop filter (ALF) and of luma      *)
(* mapping (LMCS).  One layer, decoded without -s.  The operators take     *)
(* and return the decoder's state, a record:                               *)
(*   sps, pps, alf, lmcs   the maps of m_parameterSetManager               *)
(*   suffixApsNalus        APS units that wait for the end of the picture  *)
(*   accessUnitApsNals     ids of the APSs of the access unit, per type    *)
(*   pictureUnitNals       "prefix", "slice", "suffix": the NAL units of   *)
(*                         the picture that checkAPSInPictureUnit looks at *)
(*   prevSliceSkipped, firstSliceInPicture, firstSliceInSequence,          *)
(*   decodedSliceInAU      the flags of these names                        *)
(*   slices                what the slices of the picture are decoded with *)
(*   active, last          m_activePsId and m_lastActiveParameterSet of    *)
(*                         the APS maps, the latter while slices point to  *)
(*                         the sets of the map                             *)
(*   failed                a CHECK failed or the decoder exited            *)
(***************************************************************************)
EXTENDS ParameterSetManager, Naturals, SequencesExt

ApsTypes == {"alf", "lmcs"}

InitDec ==
  [sps |-> NoSets, pps |-> NoSets, alf |-> NoSets, lmcs |-> NoSets,
   suffixApsNalus |-> <<>>, accessUnitApsNals |-> [t \in ApsTypes |-> <<>>],
   pictureUnitNals |-> <<>>, prevSliceSkipped |-> FALSE,
   firstSliceInPicture |-> TRUE, firstSliceInSequence |-> TRUE,
   decodedSliceInAU |-> FALSE, slices |-> <<>>, failed |-> FALSE,
   active |-> [t \in ApsTypes |-> {}], last |-> [t \in ApsTypes |-> {}]]

Fail(dec, ok) == [dec EXCEPT !.failed = @ \/ ~ok]

\* The head of decode: units behind a skipped slice are not noted.
Noted(dec, type) ==
  IF type = "suffix" /\ dec.prevSliceSkipped THEN dec
  ELSE [dec EXCEPT !.pictureUnitNals = Append(@, type)]

DecodeSPS(dec, unit) == [dec EXCEPT !.sps = StorePS(@, unit.id, unit.nalu)]

DecodePPS(dec, unit) == [dec EXCEPT !.pps = StorePS(@, unit.id, unit.nalu)]

\* The ids after checkAuApsContent; a suffix APS of a skipped picture is taken
\* out again, whatever the last id is.
ApsIdsAfter(dec, unit) ==
  LET ids == dec.accessUnitApsNals[unit.aps]
      noted == IF unit.id \in Range(ids) THEN ids ELSE Append(ids, unit.id)
  IN IF unit.nalu.type = "suffix" /\ dec.prevSliceSkipped
     THEN Front(noted) ELSE noted

\* xDecodeAPS
DecodeAPS(dec, unit) ==
  Fail([dec EXCEPT ![unit.aps] = StorePS(@, unit.id, unit.nalu),
                   !.last[unit.aps] = IF dec.slices = <<>> THEN {} ELSE
                     LastActiveParameterSet(@, dec.active[unit.aps], dec[unit.aps],
                                            unit.id, unit.nalu),
                   !.accessUnitApsNals[unit.aps] = ApsIdsAfter(dec, unit)],
       ApsContentAgrees(dec[unit.aps], unit.id, unit.nalu, dec.accessUnitApsNals[unit.aps]))

DecodePrefixAPS(dec, unit) == DecodeAPS(Noted(dec, "prefix"), unit)

\* Mutant of the next: every suffix APS is decoded when it comes.
DecodeSuffixAPSAtOnce(dec, unit) == DecodeAPS(Noted(dec, "suffix"), unit)

\* A suffix APS is for the pictures that follow: it waits, unless its own picture
\* is skipped.
DecodeSuffixAPS(dec, unit) ==
  IF dec.prevSliceSkipped THEN DecodeAPS(Noted(dec, "suffix"), unit)
  ELSE [Noted(dec, "suffix") EXCEPT !.suffixApsNalus = Append(@, unit)]

ResetAccessUnit(dec) == [dec EXCEPT !.accessUnitApsNals = [t \in ApsTypes |-> <<>>]]

\* The part of xDecodeSlice for a slice that is skipped.
SkipSlice(dec) ==
  [ResetAccessUnit(dec) EXCEPT !.prevSliceSkipped = TRUE, !.pictureUnitNals = <<>>,
                               !.decodedSliceInAU = TRUE]

\* A slice refers to a PPS, to ALF APSs, and through the header of its picture
\* to at most one LMCS APS.  What it refers to must be there when it is parsed.
CanBeParsed(dec, slice) ==
  /\ Known(dec.pps, slice.pps) /\ Known(dec.sps, GetPS(dec.pps, slice.pps).sps)
  /\ \A id \in slice.alf : Known(dec.alf, id)
  /\ \A id \in slice.lmcs : Known(dec.lmcs, id)

\* The pointers of activateAPS to the ALF sets of a slice; those of the slices
\* before it in the picture stay.
AlfApss(dec, slice) ==
  LET before == IF dec.slices = <<>> THEN NoSets ELSE Last(dec.slices).alf
  IN [id \in DOMAIN before \union slice.alf |->
        IF id \in slice.alf THEN GetPS(dec.alf, id) ELSE before[id]]

LmcsApss(dec, slice) == [id \in slice.lmcs |-> GetPS(dec.lmcs, id)]

\* What later slices of a picture share with the first one.
Bound(dec, slice) ==
  LET pps == IF dec.slices = <<>> THEN GetPS(dec.pps, slice.pps) ELSE dec.slices[1].pps
      sps == IF dec.slices = <<>> THEN GetPS(dec.sps, pps.sps) ELSE dec.slices[1].sps
      lmcs == IF dec.slices = <<>> THEN LmcsApss(dec, slice) ELSE dec.slices[1].lmcs
  IN [sps |-> sps, pps |-> pps, alf |-> AlfApss(dec, slice), lmcs |-> lmcs]

\* Mutant of the next: only the flags of the ALF sets in use are cleared.
ActivatedUsedOnly(dec, slice) ==
  [dec EXCEPT !.sps = ClearChangedFlags(@, {GetPS(dec.pps, slice.pps).sps}),
              !.pps = ClearChangedFlags(@, {slice.pps}),
              !.alf = ClearChangedFlags(@, slice.alf),
              !.lmcs = ClearChangedFlags(@, slice.lmcs)]

\* xActivateParameterSets for the first slice of a picture: the flags of its SPS
\* and PPS, of all ALF sets and of its LMCS set are cleared.
Activated(dec, slice) ==
  [dec EXCEPT !.sps = ClearChangedFlags(@, {GetPS(dec.pps, slice.pps).sps}),
              !.pps = ClearChangedFlags(@, {slice.pps}),
              !.alf = ClearChangedFlags(@, DOMAIN dec.alf),
              !.lmcs = ClearChangedFlags(@, slice.lmcs)]

\* xActivateParameterSets for the others: it exits when a set was replaced.
NoneChanged(dec, slice) ==
  /\ ~ChangedFlag(dec.pps, slice.pps) /\ ~ChangedFlag(dec.sps, dec.slices[1].pps.sps)
  /\ \A id \in DOMAIN dec.alf : ~ChangedFlag(dec.alf, id)
  /\ \A id \in slice.lmcs : ~ChangedFlag(dec.lmcs, id)

\* xDecodeSlice.  A slice that is skipped is parsed before it is skipped.
DecodeSlice(dec, slice, skipped) ==
  IF ~CanBeParsed(dec, slice) THEN Fail(Noted(dec, "slice"), FALSE)
  ELSE IF skipped THEN SkipSlice(dec)
  ELSE LET activated == IF dec.firstSliceInPicture
                        THEN Activated([dec EXCEPT !.slices = <<>>], slice)
                        ELSE Fail(dec, NoneChanged(dec, slice))
       IN [Noted(activated, "slice") EXCEPT
             !.slices = Append(@, Bound(activated, slice)),
             !.active = [alf |-> @.alf \union slice.alf, lmcs |-> @.lmcs \union slice.lmcs],
             !.prevSliceSkipped = FALSE, !.firstSliceInPicture = FALSE,
             !.firstSliceInSequence = FALSE, !.decodedSliceInAU = TRUE]

\* The loop of processSuffixApsNalus over the waiting units.
DecodeApss(dec, units) ==
  LET after[n \in 0 .. Len(units)] ==
        IF n = 0 THEN dec ELSE DecodeAPS(after[n - 1], units[n])
  IN after[Len(units)]

\* processSuffixApsNalus, called by finishPicture.
ProcessSuffixApsNalus(dec) ==
  [DecodeApss(dec, dec.suffixApsNalus) EXCEPT !.suffixApsNalus = <<>>]

\* The ALF sets stop being active: the code clears them with the first slice of
\* the next picture, and the LMCS sets never.
FinishPicture(dec) ==
  [ProcessSuffixApsNalus(dec) EXCEPT !.firstSliceInPicture = TRUE, !.slices = <<>>,
                                     !.active["alf"] = {}, !.last = [t \in ApsTypes |-> {}]]

\* checkAPSInPictureUnit: prefix APSs come before the first slice, suffix APSs
\* behind the last one.
ApsInOrder(nals) ==
  \A i, j \in DOMAIN nals : i < j =>
    /\ nals[j] = "prefix" => nals[i] # "slice"
    /\ nals[j] = "slice" => nals[i] # "suffix"

CheckPictureUnit(dec) ==
  Fail([dec EXCEPT !.pictureUnitNals = <<>>], ApsInOrder(dec.pictureUnitNals))

\* Mutant of the next: the ids of the access unit are kept.
NewPictureKeepingAu(dec) ==
  CheckPictureUnit(IF dec.firstSliceInSequence THEN [dec EXCEPT !.firstSliceInPicture = TRUE]
                   ELSE FinishPicture(dec))

\* DecApp::decode when the unit ahead starts a picture.  With one layer it then
\* starts an access unit too, once a slice was decoded in the last one.
NewPicture(dec) ==
  LET finished == CheckPictureUnit(IF dec.firstSliceInSequence
                                   THEN [dec EXCEPT !.firstSliceInPicture = TRUE]
                                   ELSE FinishPicture(dec))
  IN IF dec.decodedSliceInAU
     THEN [ResetAccessUnit(finished) EXCEPT !.decodedSliceInAU = FALSE] ELSE finished

\* DecApp::decode for an EOS: the picture is finished, and the flag of the first
\* slice is taken back so that the unit ahead is looked at.
DecodeEOS(dec) ==
  LET cleared == [dec EXCEPT !.prevSliceSkipped = FALSE]
      finished == IF dec.firstSliceInSequence THEN cleared ELSE FinishPicture(cleared)
  IN [CheckPictureUnit(finished) EXCEPT !.firstSliceInSequence = TRUE,
                                        !.firstSliceInPicture = FALSE]
=============================================================================
