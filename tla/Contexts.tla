------------------------------ MODULE Contexts ------------------------------
(***************************************************************************)
(* The binary probability model of CommonLib/Contexts.h and Contexts.cpp:  *)
(* BinProbModel_Std.  A context keeps two estimates of the probability of  *)
(* a one, of 10 and 14 bits, each in a word of 15 bits, and the rates at   *)
(* which they adapt.                                                       *)
(***************************************************************************)
EXTENDS Integers

PROB_BITS == 15
PROB_BITS_0 == 10
PROB_BITS_1 == 14

\* x & MASK_0 and x & MASK_1: the low bits of the word are cleared.
Mask(x, bits) == x - (x % 2^(PROB_BITS - bits))

\* setLog2WindowSize
Rates(log2WindowSize) ==
  LET rate0 == 2 + ((log2WindowSize \div 4) % 4)
  IN [rate0 |-> rate0, rate1 |-> 3 + rate0 + (log2WindowSize % 4)]

\* init: the first state from the quantisation parameter and the table entry.
InitState(qp, initId) ==
  LET slope == (initId \div 8) - 4
      offset == ((initId % 8) * 18) + 1
      inistate == ((slope * (qp - 16)) \div 2) + offset
      clip == IF inistate < 1 THEN 1 ELSE IF inistate > 127 THEN 127 ELSE inistate
  IN clip * 256

InitModel(qp, initId, log2WindowSize) ==
  [s0 |-> Mask(InitState(qp, initId), PROB_BITS_0),
   s1 |-> Mask(InitState(qp, initId), PROB_BITS_1),
   rate |-> Rates(log2WindowSize)]

\* update
Toward(s, bits, rate, bin) ==
  s - Mask(s \div 2^rate, bits) + (IF bin = 1 THEN Mask(32767 \div 2^rate, bits) ELSE 0)

Update(m, bin) ==
  [m EXCEPT !.s0 = Toward(@, PROB_BITS_0, m.rate.rate0, bin),
            !.s1 = Toward(@, PROB_BITS_1, m.rate.rate1, bin)]

State(m) == (m.s0 + m.s1) \div 256
Mps(m) == State(m) \div 128

\* getLPS: the part of the range that the less probable symbol gets.
LpsRange(m, range) ==
  LET q == IF Mps(m) = 1 THEN 255 - State(m) ELSE State(m)
  IN (((q \div 4) * (range \div 32)) \div 2) + 4

\* m_RenormTable_32, by the eighth of the range it is indexed with
RenormBitsLPS(lpsRange) ==
  LET i == lpsRange \div 8
  IN CASE i = 0 -> 6 [] i = 1 -> 5 [] i \in 2..3 -> 4
       [] i \in 4..7 -> 3 [] i \in 8..15 -> 2 [] OTHER -> 1
=============================================================================
