----------------------------- MODULE PicOrderCnt -----------------------------
(***************************************************************************)
(* Picture order counts.  A slice header carries only the low-order bits   *)
(* of its picture's POC; parseSliceHeader (VLCReader.cpp) rebuilds the POC *)
(* from them and from m_prevTid0POC, the POC of the last picture of        *)
(* temporal layer 0 that can serve as an anchor.                           *)
(***************************************************************************)
EXTENDS Integers

CONSTANT MaxPocLsb      \* maxPocLsb == 1 << sps->getBitsForPOC()

ASSUME MaxPocLsbAssumption == MaxPocLsb \in Nat \ {0} /\ MaxPocLsb % 2 = 0

\* poc & (maxPocLsb - 1), which on two's complement integers is the residue.
PocLsb(poc) == poc % MaxPocLsb

\* prevPocMsb == prevPoc - prevPocLsb
PocMsb(poc) == poc - PocLsb(poc)

\* An IDR picture takes its low-order bits as its POC (no ph_poc_msb).
IdrPoc(pocLsb) == pocLsb

\* Mutant of DerivedPoc: never goes on to the next cycle.
DerivedPocBackwards(pocLsb, prevTid0Poc) ==
  LET prevLsb == PocLsb(prevTid0Poc)
  IN  pocLsb + (IF pocLsb > prevLsb /\ pocLsb - prevLsb > MaxPocLsb \div 2
                  THEN PocMsb(prevTid0Poc) - MaxPocLsb ELSE PocMsb(prevTid0Poc))

\* The POC of any other picture: pocMsb is that of the anchor, or one cycle
\* above or below it, so that the result lies within half a cycle.
DerivedPoc(pocLsb, prevTid0Poc) ==
  LET prevLsb == PocLsb(prevTid0Poc)
      pocMsb  == IF pocLsb < prevLsb /\ prevLsb - pocLsb >= MaxPocLsb \div 2
                   THEN PocMsb(prevTid0Poc) + MaxPocLsb
                 ELSE IF pocLsb > prevLsb /\ pocLsb - prevLsb > MaxPocLsb \div 2
                   THEN PocMsb(prevTid0Poc) - MaxPocLsb
                 ELSE PocMsb(prevTid0Poc)
  IN  pocMsb + pocLsb
=============================================================================
