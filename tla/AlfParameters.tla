----------------------------- MODULE AlfParameters -----------------------------
(***************************************************************************)
(* The encoder's ALF parameter sets (AlfEncoder) and a decoder that reads  *)
(* its stream (ParameterSetDecoder).  The decoder keeps the temporal       *)
(* layers up to highestTid, and it starts with the stream or later, at any *)
(* CRA or IDR picture, and then skips the RASL pictures of that CRA.  A    *)
(* step codes and decodes one picture.                                     *)
(***************************************************************************)
EXTENDS AlfEncoder, ParameterSetDecoder

CONSTANTS
  HighestTids,   \* the values of highestTid to try
  LeadingTLayers,   \* the temporal layers of leading pictures
  CraApsResets   \* and the values of getCraAPSreset (ConstrainedRaslEncoding) to try

ASSUME AlfParametersAssumption ==
  /\ HighestTids \subseteq Nat /\ LeadingTLayers \subseteq TLayers
  /\ CraApsResets \subseteq BOOLEAN

VARIABLES
  craApsReset,   \* the configuration of the encoder
  highestTid,    \* and of the decoder
  enc,           \* the encoder's sets
  lastRas,       \* the IRAP picture that no later picture in output order followed
                 \* yet (m_lastRasPoc), "none" afterwards
  dec,           \* the decoder
  starting,      \* "waits", "atCRA" until the next IRAP picture, "started"
  filtersAlike   \* the decoder filtered the last picture as the encoder did

vars == <<craApsReset, highestTid, enc, lastRas, dec, starting, filtersAlike>>

\* The SPS and the PPS come with every IRAP picture and never change here.
StartedDec ==
  [InitDec EXCEPT !.sps = Put(NoSets, 0, FALSE, [type |-> "sps", content |-> 1]),
                  !.pps = Put(NoSets, 0, FALSE, [type |-> "pps", content |-> 1, sps |-> 0])]

Init ==
  /\ craApsReset \in CraApsResets /\ highestTid \in HighestTids
  /\ enc = InitEnc
  /\ lastRas = "first"
  /\ dec = StartedDec
  /\ starting = "waits"
  /\ filtersAlike = TRUE

-----------------------------------------------------------------------------
\* The pictures the encoder may code next.  Leading pictures come between an IRAP
\* picture and the first one behind it in output order; those of a CRA are RASL
\* and those of an IDR are RADL.  xUpdateRasInit tells the first one behind.
Pictures ==
  {pic \in [type : {"IDR", "CRA", "RASL", "RADL", "TRAIL"}, tid : TLayers,
            pendingRasInit : BOOLEAN] :
     /\ lastRas = "first" => pic.type = "IDR"
     /\ IsIRAP(pic) => pic.tid = 0
     /\ pic.type = "RASL" => lastRas = "CRA" /\ pic.tid \in LeadingTLayers
     /\ pic.type = "RADL" => lastRas = "IDR" /\ pic.tid \in LeadingTLayers
     /\ pic.pendingRasInit <=> pic.type \in {"TRAIL", "CRA"} /\ lastRas \in {"IDR", "CRA"}}

ResetsSets(pic) == pic.pendingRasInit \/ pic.type = "IDR" \/ (pic.type = "CRA" /\ craApsReset)

\* Only whether the decoder has the encoder's content matters: after a picture the
\* encoder's is Current, and other content of the decoder is Old.
Content(e, id, part) == IF e.aps[id].parts[part] = Off THEN Off ELSE Current

Copy(e, d, id, part) ==
  LET has == GetPS(d.alf, id).content[part]
  IN IF has = Off THEN Off ELSE IF has = e.aps[id].parts[part] THEN Current ELSE Old

Renamed(e) ==
  [e EXCEPT !.aps = [id \in ApsIds |->
                       [@[id] EXCEPT !.parts = [p \in Parts |-> Content(e, id, p)]]]]

Compared(e, d) ==
  [d EXCEPT !.alf = [id \in DOMAIN @ |->
                       [@[id] EXCEPT !.nalu.content = [p \in Parts |-> Copy(e, d, id, p)]]]]

\* The decoder reads the access unit of a picture, unless it has not started or
\* the picture is of a temporal layer it drops.
Reads(pic, start) ==
  (starting # "waits" \/ start) /\ pic.tid <= highestTid

\* The prefix APSs of the access unit, one after the other.
DecodePrefixApss(units) ==
  LET after[n \in 0 .. Len(units)] ==
        IF n = 0 THEN dec ELSE DecodePrefixAPS(after[n - 1], units[n])
  IN after[Len(units)]

Decoded(units, slice, skipped) == DecodeSlice(DecodePrefixApss(units), slice, skipped)

\* The decoder filters with the encoder's content of every part in use, from sets of
\* the picture's temporal layer or a lower one.  The parser of the slice header and
\* activateAPS check that the part is signalled, and the layer.
FiltersAlike(e, d, pic, uses) ==
  \A use \in uses :
    LET aps == d.slices[1].alf[use.id]
    IN /\ aps.content[use.part] = e.aps[use.id].parts[use.part]
       /\ aps.content[use.part] # Off /\ aps.tid <= pic.tid

\* Behind the picture the decoder looks ahead and starts the next one.
Send(e, pic, units, uses) ==
  LET slice == [pps |-> 0, alf |-> {use.id : use \in uses}, lmcs |-> {}]
  IN \E start \in IF starting = "waits" /\ IsIRAP(pic) THEN BOOLEAN ELSE {FALSE} :
     \E d \in {IF Reads(pic, start)
               THEN Decoded(units, slice, pic.type = "RASL" /\ starting = "atCRA") ELSE dec} :
       /\ enc' = Renamed(AfterWriting(e))
       /\ dec' = Compared(e, IF d.firstSliceInPicture THEN d ELSE NewPicture(d))
       /\ filtersAlike' = (d.slices = <<>> \/ FiltersAlike(e, d, pic, uses))
       /\ starting' = IF start THEN IF pic.type = "CRA" THEN "atCRA" ELSE "started"
                      ELSE IF IsIRAP(pic) /\ starting = "atCRA" THEN "started"
                      ELSE starting

Ended(pic) ==
  /\ lastRas' = IF IsIRAP(pic) THEN pic.type
                ELSE IF pic.type = "TRAIL" THEN "none" ELSE lastRas
  /\ UNCHANGED <<craApsReset, highestTid>>

-----------------------------------------------------------------------------
\* A picture without ALF.  A decoder that failed has stopped.  Sets that are marked as changed are not written.
CodePictureWithoutAlf ==
  ~dec.failed /\ \E pic \in Pictures :
    /\ Send(IF ResetsSets(pic) THEN Reset(enc) ELSE enc, pic, <<>>, {})
    /\ Ended(pic)

\* A picture with ALF: luma, then chroma, then the CC filters, then the sets.
CodePictureWithAlf ==
  ~dec.failed /\ \E pic \in Pictures : \E e0 \in {IF ResetsSets(pic) THEN Reset(enc) ELSE enc} :
  \E luma \in LumaChoices(e0, pic) :
  \E lumaIds \in {LumaIds(e0, pic, luma)}, newApsId \in {Before(e0.apsIdStart)} :
  \E e1 \in {AfterLuma(e0, pic, luma)} :
  \E chroma \in ChromaChoices(e1, pic, luma, lumaIds, newApsId) :
  \E e2 \in {AfterChroma(e1, pic, luma, chroma)} :
  \E e3 \in {WithoutOldCc(e2, lumaIds \union {chroma.id})} :
  \E cc \in CcChoices(e3, pic, chroma.ccApsIds) :
  \E e4 \in {AfterCc(e3, pic, cc)} :
     /\ Send(e4, pic, Written(e4),
             {[part |-> "luma", id |-> id] : id \in lumaIds}
             \union {[part |-> "chroma", id |-> id] : id \in {chroma.id} \ {-1}}
             \union {[part |-> c, id |-> cc[c].id] : c \in {k \in CcComponents : cc[k].id # -1}})
     /\ Ended(pic)

Next == CodePictureWithoutAlf \/ CodePictureWithAlf

Spec == Init /\ [][Next]_vars

-----------------------------------------------------------------------------
\* A decoder of all pictures, or of the lower temporal layers only, never fails: the
\* sets a picture refers to have come with pictures that it has decoded.  Neither
\* does one that starts at a CRA picture, behind its RASL pictures, and among them
\* if the encoder resets its sets at CRA pictures.
StreamIsDecodable == craApsReset \/ starting # "atCRA" => ~dec.failed

\* A decoder that starts at a CRA picture and skips its RASL pictures does not fail
\* because of a picture that it skips.
SkipsLeadingPictures == ~dec.failed

\* The decoder filters with the coefficients of the encoder, although layers were
\* dropped, sets were overwritten part by part and written again with the parts they
\* had, and a late decoder has not received all of them.
FiltersAsTheEncoder == filtersAlike
=============================================================================
