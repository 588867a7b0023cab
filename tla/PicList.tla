------------------------------- MODULE PicList -------------------------------
(***************************************************************************)
(* The decoded picture buffer: DecLib::m_cListPic, a std::list of picture  *)
(* buffers that the decoder library fills and the application writes out.  *)
(* One layer, frame (not field) pictures, short-term references.           *)
(*                                                                         *)
(* A buffer is a record.  Its field pic says whose samples it holds: the   *)
(* position in the stream of the first slice of the coded picture, or 0    *)
(* for a picture the decoder made up.  The other fields are the members of *)
(* Picture that decide how the buffer is used.                             *)
(***************************************************************************)
EXTENDS Integers, Sequences, FiniteSets

Buffer == [pic: Nat, poc: Int, referenced: BOOLEAN,
           neededForOutput: BOOLEAN, reconstructed: BOOLEAN]

Holds(list, pic) == \E i \in DOMAIN list : list[i].pic = pic

IndexOf(list, pic) == CHOOSE i \in DOMAIN list : list[i].pic = pic

\* Mutants of IsFree: a picture that waits for output may be overwritten; a
\* buffer must have been given back after it was written.
IsFreeUnreferenced(buf) == ~buf.referenced \/ ~buf.reconstructed

IsFreeAfterOutput(buf) ==
  ~buf.neededForOutput /\ ~buf.referenced /\ ~buf.reconstructed

\* xGetNewPicBuffer: the buffers it may overwrite.  A buffer whose picture was
\* never finished counts as free even while it is marked as a reference.
IsFree(buf) ==
  /\ ~buf.neededForOutput
  /\ ~buf.referenced \/ ~buf.reconstructed

\* xGetNewPicBuffer and the assignments its callers make to the buffer: buf
\* takes the first free place, or a new one at the end of the list.
Store(list, buf) ==
  LET free == {i \in DOMAIN list : IsFree(list[i])}
  IN  IF free = {} THEN Append(list, buf)
      ELSE [list EXCEPT ![CHOOSE i \in free : \A j \in free : i <= j] = buf]

\* Mutant of SortOrder: leaves the list in decoding order.
SortOrderNone(list) == [n \in DOMAIN list |-> n]

\* sortPicList puts a list in the order of its POCs; equal ones, which
\* std::list::sort leaves alone, keep their order.
Precedes(list, i, j) ==
  list[i].poc < list[j].poc \/ (list[i].poc = list[j].poc /\ i < j)

Predecessors(list, i) == {j \in DOMAIN list : Precedes(list, j, i)}

\* The place from which each place of the sorted list gets its buffer.
SortOrder(list) ==
  [n \in DOMAIN list |->
     CHOOSE i \in DOMAIN list : Cardinality(Predecessors(list, i)) = n - 1]

\* The test of checkThatAllRefPicsAreAvailable on a short-term entry: a picture
\* with that POC, marked as a reference, finished or not.
IsAvailable(list, poc) ==
  \E i \in DOMAIN list : list[i].poc = poc /\ list[i].referenced

\* xGetRefPic: the first picture of the list with that POC.
RefPic(list, poc) ==
  LET found == {i \in DOMAIN list : list[i].poc = poc}
  IN  list[CHOOSE i \in found : \A j \in found : i <= j]

\* Mutants of Marked: the difference is taken the wrong way round; nothing is
\* ever released.
MarkedBackwards(list, poc, rpl, idr) ==
  [i \in DOMAIN list |->
    [list[i] EXCEPT !.referenced =
       @ /\ (idr \/ list[i].poc = poc \/ poc - list[i].poc \in rpl)]]

MarkedForever(list, poc, rpl, idr) == list

\* applyReferencePictureListBasedMarking for the picture with order count poc:
\* a buffer that no entry of its lists names is no longer a reference.  An
\* IDR picture returns before this loop.
Marked(list, poc, rpl, idr) ==
  [i \in DOMAIN list |->
    [list[i] EXCEPT !.referenced =
       @ /\ (idr \/ list[i].poc = poc \/ list[i].poc - poc \in rpl)]]

\* checkNoOutputPriorPics: nothing but the picture with that POC is output.
WithoutPriorOutput(list, poc) ==
  [i \in DOMAIN list |->
    [list[i] EXCEPT !.neededForOutput = @ /\ list[i].poc = poc]]

\* The loop of DecApp::decode that suppresses output during GDR recovery.
WithoutOutput(list) ==
  [i \in DOMAIN list |-> [list[i] EXCEPT !.neededForOutput = FALSE]]

\* xWriteOutput and xFlushOutput, after the picture of a buffer was written:
\* a buffer that is no reference either is given back.
Written(buf) ==
  [buf EXCEPT !.neededForOutput = FALSE, !.reconstructed = @ /\ buf.referenced]

\* Mutant of Waiting: counts pictures that were written already.
WaitingAgain(list, lastDisplay) ==
  {i \in DOMAIN list : list[i].reconstructed /\ list[i].poc >= lastDisplay}

\* xWriteOutput: the buffers counted as not yet displayed, and as occupying
\* the decoded picture buffer.
Waiting(list, lastDisplay) ==
  {i \in DOMAIN list : list[i].neededForOutput /\ list[i].poc >= lastDisplay}

Occupied(list, lastDisplay) ==
  Waiting(list, lastDisplay) \cup {i \in DOMAIN list : list[i].referenced}
=============================================================================
