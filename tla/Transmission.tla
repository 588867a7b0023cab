----------------------------- MODULE Transmission -----------------------------
(***************************************************************************)
(* What a writer and a reader of coded data promise together: items are    *)
(* put into a stream, the stream is closed, and then the same items are    *)
(* taken from it in the same order, all of them and no others.  The        *)
(* arithmetic coder (Cabac) and the byte stream of NAL units (NalStream)   *)
(* implement it.                                                           *)
(***************************************************************************)
EXTENDS Naturals, Sequences

VARIABLES sent, received, closed

transmissionVars == <<sent, received, closed>>

Init == sent = <<>> /\ received = <<>> /\ closed = FALSE

Send ==
  /\ ~closed
  /\ Len(sent') = Len(sent) + 1 /\ SubSeq(sent', 1, Len(sent)) = sent
  /\ UNCHANGED <<received, closed>>

Close == ~closed /\ closed' = TRUE /\ UNCHANGED <<sent, received>>

Receive ==
  /\ closed /\ Len(received) < Len(sent)
  /\ received' = Append(received, sent[Len(received) + 1])
  /\ UNCHANGED <<sent, closed>>

Next == Send \/ Close \/ Receive

Spec == Init /\ [][Next]_transmissionVars
=============================================================================
