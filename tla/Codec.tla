-------------------------------- MODULE Codec --------------------------------
(***************************************************************************)
(* The encoder writes a bitstream, and the decoder application decodes it, *)
(* completely or without its upper temporal layers: what is configured and *)
(* what the encoder tells the decoder in the sequence parameter set must   *)
(* be enough for the decoder to give back what the encoder reconstructed.  *)
(***************************************************************************)
EXTENDS Encoder

CONSTANTS MaxPocLsb, MAX_INT      \* see Decoder

VARIABLES options, pc, pos, nal, newPicture, app, dec, listPic, written

decVars == <<options, pc, pos, nal, newPicture, app, dec, listPic, written>>

vars == <<encVars, decVars>>

D == INSTANCE DecoderProperties
       WITH Streams <- {}, SkipFrames <- {0}, TemporalLayers <- Nat, Limits <- {}

HighestTid == Max({config.gop[i].tid : i \in 1 .. GopSize})

\* The limits are those the encoder writes to the SPS.
Init ==
  /\ EncInit
  /\ \E t \in 0 .. HighestTid :
       options = [skipFrame |-> 0, maxTid |-> t,
                  limits |-> [reorder   |-> MaxNumReorderPics,
                              buffering |-> MaxDecPicBuffering]]
  /\ D!Ready

Encode == EncNext /\ UNCHANGED decVars

Decode == phase = "done" /\ D!Next /\ UNCHANGED encVars

Stopped == phase \in {"refused", "aborted"} /\ UNCHANGED vars

Next == Encode \/ Decode \/ Stopped

Spec == Init /\ [][Next]_vars /\ WF_vars(Next)

-----------------------------------------------------------------------------
(* Properties. *)

\* The encoder finds every picture it predicts from, and none of its CHECKs of
\* the order of leading pictures fails.
EncoderNeverAborts == phase # "aborted"

\* At the end, the reconstruction file holds every frame that was read, in
\* display order, and the decoder writes the same pictures in the same order,
\* up to the temporal layer it was asked for.
GivesBackTheFrames ==
  pc = "done" =>
    /\ recon = [i \in 1 .. enc.frameRcvd |-> i - 1]
    /\ [i \in DOMAIN written |-> stream[written[i]].poc]
         = SelectSeq(recon, LAMBDA poc : \E p \in DOMAIN stream :
               D!IsPicture(p) /\ stream[p].poc = poc /\ stream[p].tid <= options.maxTid)

\* When the encoder codes a picture, every picture it has said to be a point to
\* switch to that temporal layer keeps its promise: the picture is predicted
\* from none of the layer that came before such a point.
StsaIsASwitchingPoint ==
  phase = "next" =>
    LET p == Len(stream)
        switches == {s \in DOMAIN stream : /\ stream[s].start /\ stream[s].poc \in stsa
                                           /\ stream[s].tid = stream[p].tid}
    IN  \A s \in switches : \A q \in 1 .. s - 1 :
          stream[q].start /\ stream[q].poc - stream[p].poc \in stream[p].active
            => stream[q].tid < stream[p].tid

\* The encoder needs picture buffers for a GOP of new pictures and as many as a
\* decoder, and none beyond the number from which on it reuses them.
EncoderBufferBounded ==
  Cardinality(encPics) <= Max({GopSize + 3, GopSize + MaxDecPicBuffering})

\* The decoder needs one buffer more than the SPS announces: it asks whether
\* there are too many only when a picture has been finished, not before the
\* next one takes a buffer.
BufferBounded == Len(listPic) <= MaxDecPicBuffering + 1

\* Every configuration is refused, or its frames are coded and decoded.
Terminates == <>(phase = "refused" \/ pc = "done")
=============================================================================
