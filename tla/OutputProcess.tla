---------------------------- MODULE OutputProcess ----------------------------
(***************************************************************************)
(* What the decoder promises about its output, whatever buffers it keeps   *)
(* and whenever it decides to write: within a coded layer video sequence   *)
(* the pictures leave in the order of their POCs, each of them once, and   *)
(* a new sequence starts only after the last one has left completely.      *)
(***************************************************************************)
EXTENDS Integers, Sequences

CONSTANT MAX_INT

VARIABLES
  pending,      \* the finished pictures that wait to be written: [pic, poc]
  written,      \* the pictures written so far, in order
  last          \* the POC written last in the current sequence

vars == <<pending, written, last>>

Init == pending = {} /\ written = <<>> /\ last = -MAX_INT

\* Decoding finishes a picture that is to be output.  It is not late: none of
\* its successors in output order has been written yet.
Complete ==
  \E p \in pending' \ pending :
    /\ pending' = pending \cup {p}
    /\ p.poc > last
    /\ \A n \in DOMAIN written : written[n] # p.pic
    /\ UNCHANGED <<written, last>>

\* The next picture in output order is written.
Write ==
  \E p \in pending :
    /\ \A q \in pending : p.poc <= q.poc
    /\ p.poc > last
    /\ pending' = pending \ {p}
    /\ written' = Append(written, p.pic)
    /\ last' = p.poc

\* A new sequence starts; its POCs have nothing to do with those before.
StartSequence ==
  /\ pending = {}
  /\ last' = -MAX_INT
  /\ UNCHANGED <<pending, written>>

\* The pictures that wait are given up, all of them.
Discard ==
  /\ pending' = {}
  /\ UNCHANGED <<written, last>>

Next == Complete \/ Write \/ StartSequence \/ Discard

Spec == Init /\ [][Next]_vars
=============================================================================
