---------------------------- MODULE ParameterSets ----------------------------
(***************************************************************************)
(* A legal stream of parameter sets, slices and ends of sequence, and the  *)
(* decoder of ParameterSetDecoder that reads it.  The stream is described  *)
(* by what it means: inEffect holds the sets as they stand for the slices  *)
(* of this picture unit and upcoming as they stand for the next one, for a *)
(* suffix APS counts from the end of its picture unit on.                  *)
(* A picture that the decoder skips is a leading picture it cannot decode  *)
(* or one before the first random access point; its parameter sets count.  *)
(***************************************************************************)
EXTENDS ParameterSetDecoder

CONSTANTS
  SpsContents, PpsContents, ApsContents,
  PpsIds, ApsIds,        \* ApsIds: per type, the ids in use
  MaxApss, MaxSlices     \* bounds: APSs and slices of a picture unit

ASSUME ParameterSetsAssumption ==
  /\ ApsIds \in [ApsTypes -> SUBSET Nat] /\ PpsIds \subseteq Nat
  /\ MaxApss \in Nat /\ MaxSlices \in Nat \ {0}

VARIABLES
  dec,        \* the decoder
  unit,       \* the picture unit being sent: its phase, whether it is skipped,
              \* its APSs, their number and that of its slices, its first slice
  inEffect,   \* the sets as they stand for the slices of this picture unit
  upcoming,   \* the sets as they stand for the unit that follows
  expected    \* what each slice of the picture in progress was coded with

vars == <<dec, unit, inEffect, upcoming, expected>>

SpsId == 0

StartedUnit ==
  [phase |-> "prefix", skipped |-> FALSE, apss |-> {}, apsCount |-> 0, slices |-> 0,
   slice |-> <<>>]

Init ==
  /\ dec = InitDec
  /\ unit = StartedUnit
  /\ inEffect = [sps |-> NoSets, pps |-> NoSets, alf |-> NoSets, lmcs |-> NoSets]
  /\ upcoming = inEffect
  /\ expected = <<>>

InEffect(sets, kind, id, nalu) == [sets EXCEPT ![kind] = With(@, id, nalu)]

-----------------------------------------------------------------------------
\* Sets in front of the slices.  The decoder must have started on the picture.
InPrefix == unit.phase = "prefix" /\ dec.firstSliceInPicture

ReceiveSPS ==
  /\ InPrefix
  /\ \E content \in SpsContents :
       LET nalu == [type |-> "sps", content |-> content] IN
       /\ dec' = DecodeSPS(dec, [id |-> SpsId, nalu |-> nalu])
       /\ inEffect' = InEffect(inEffect, "sps", SpsId, nalu)
       /\ upcoming' = inEffect'
  /\ UNCHANGED <<unit, expected>>

ReceivePPS ==
  /\ InPrefix /\ Known(inEffect.sps, SpsId)
  /\ \E id \in PpsIds, content \in PpsContents :
       LET nalu == [type |-> "pps", content |-> content, sps |-> SpsId] IN
       /\ dec' = DecodePPS(dec, [id |-> id, nalu |-> nalu])
       /\ inEffect' = InEffect(inEffect, "pps", id, nalu)
       /\ upcoming' = inEffect'
  /\ UNCHANGED <<unit, expected>>

\* Two APSs of a picture unit that share unit type, APS type and id are equal.
Agrees(u) == \A other \in unit.apss :
  other.aps = u.aps /\ other.id = u.id /\ other.nalu.type = u.nalu.type => other = u

ApsUnits(type) ==
  {u \in [id : UNION {ApsIds[t] : t \in ApsTypes}, aps : ApsTypes,
          nalu : [type : {type}, content : ApsContents]] :
     u.id \in ApsIds[u.aps] /\ Agrees(u)}

ReceivePrefixAPS ==
  /\ InPrefix /\ unit.apsCount < MaxApss
  /\ \E u \in ApsUnits("prefix") :
       /\ dec' = DecodePrefixAPS(dec, u)
       /\ inEffect' = InEffect(inEffect, u.aps, u.id, u.nalu)
       /\ upcoming' = inEffect'
       /\ unit' = [unit EXCEPT !.apsCount = @ + 1, !.apss = @ \union {u}]
  /\ UNCHANGED expected

ReceiveSuffixAPS ==
  /\ unit.phase \in {"slices", "suffix"} /\ unit.apsCount < MaxApss
  /\ \E u \in ApsUnits("suffix") :
       /\ dec' = DecodeSuffixAPS(dec, u)
       /\ unit' = [unit EXCEPT !.phase = "suffix", !.apsCount = @ + 1, !.apss = @ \union {u}]
       /\ upcoming' = InEffect(upcoming, u.aps, u.id, u.nalu)
  /\ UNCHANGED <<inEffect, expected>>

-----------------------------------------------------------------------------
\* Slices.  All slices of a picture share its PPS and LMCS set.
SlicesInEffect ==
  {slice \in [pps : DOMAIN inEffect.pps, alf : SUBSET DOMAIN inEffect.alf,
              lmcs : {{}} \union {{id} : id \in DOMAIN inEffect.lmcs}] :
     unit.phase = "slices" =>
       slice.pps = unit.slice[1].pps /\ slice.lmcs = unit.slice[1].lmcs}

CodedWith(slice) ==
  LET pps == inEffect.pps[slice.pps]
  IN [sps |-> inEffect.sps[pps.sps], pps |-> pps,
      alf |-> [id \in slice.alf |-> inEffect.alf[id]],
      lmcs |-> [id \in slice.lmcs |-> inEffect.lmcs[id]]]

ReceiveSlice ==
  /\ \/ unit.phase = "prefix" /\ dec.firstSliceInPicture
     \/ unit.phase = "slices" /\ unit.slices < MaxSlices
  /\ \E slice \in SlicesInEffect, skipped \in BOOLEAN :
       /\ unit.phase = "slices" => skipped = unit.skipped
       /\ dec' = DecodeSlice(dec, slice, skipped)
       /\ unit' = [unit EXCEPT !.phase = "slices", !.slices = @ + 1, !.skipped = skipped,
                               !.slice = <<[pps |-> slice.pps, lmcs |-> slice.lmcs]>>]
       /\ expected' = IF skipped THEN expected ELSE Append(expected, CodedWith(slice))
  /\ UNCHANGED <<inEffect, upcoming>>

-----------------------------------------------------------------------------
\* The picture unit is over.
EndOfUnit ==
  /\ unit' = StartedUnit
  /\ inEffect' = upcoming
  /\ UNCHANGED upcoming
  /\ expected' = <<>>

\* The decoder looks ahead and finds the next picture.  Right behind an EOS it does
\* so with the next unit already started.
StartPicture ==
  /\ ~dec.firstSliceInPicture
  /\ dec' = NewPicture(dec)
  /\ \/ unit.phase \in {"slices", "suffix"} /\ EndOfUnit
     \/ unit.phase = "prefix" /\ UNCHANGED <<unit, inEffect, upcoming, expected>>

\* Behind a skipped picture it does not look.
SkippedPictureEnds ==
  /\ unit.phase \in {"slices", "suffix"} /\ dec.firstSliceInPicture
  /\ EndOfUnit
  /\ UNCHANGED dec

ReceiveEOS ==
  /\ unit.phase \in {"slices", "suffix"}
  /\ dec' = DecodeEOS(dec)
  /\ EndOfUnit

Next ==
  \/ ReceiveSPS \/ ReceivePPS \/ ReceivePrefixAPS \/ ReceiveSuffixAPS
  \/ ReceiveSlice \/ StartPicture \/ SkippedPictureEnds \/ ReceiveEOS

Spec == Init /\ [][Next]_vars

-----------------------------------------------------------------------------
\* No legal stream makes the decoder fail: not the CHECKs of checkAuApsContent,
\* checkAPSInPictureUnit and the slice header parser, and not the EXITs of
\* xActivateParameterSets about sets that changed while a picture was decoded.
NeverFails == ~dec.failed

\* Every slice is decoded with the sets that were in effect when it was coded,
\* whatever suffix APSs, skipped pictures and ends of sequence came between; the
\* sets of a picture are bound once although the slices name them again.
DecodesWithTheSetsInEffect ==
  /\ Len(dec.slices) = Len(expected)
  /\ \A i \in DOMAIN expected :
       LET is == dec.slices[i] was == expected[i]
       IN /\ is.sps = was.sps /\ is.pps = was.pps /\ is.lmcs = was.lmcs
          /\ Restrict(is.alf, DOMAIN was.alf) = was.alf

\* The APSs that the slices of the picture in progress point to are not deleted
\* before the loop filters have used them: they are in the map still, or they are
\* the one replaced set that is kept.
UsedApssExist ==
  \A i \in DOMAIN dec.slices, t \in ApsTypes : \A id \in DOMAIN dec.slices[i][t] :
    \/ GetPS(dec[t], id) = dec.slices[i][t][id]
    \/ <<id, dec.slices[i][t][id]>> \in dec.last[t]
=============================================================================
