------------------------------ MODULE BitStream ------------------------------
(***************************************************************************)
(* The bit streams of CommonLib/BitStream.cpp: OutputBitstream collects    *)
(* bits into bytes, InputBitstream takes them out again.  Both are records *)
(* here.  The field "ok" becomes FALSE when a CHECK of the code fails (the *)
(* code then throws).  Words are at most 24 bits wide (MaxWordBits; the    *)
(* code allows 32).                                                        *)
(***************************************************************************)
EXTENDS Integers, Sequences, SequencesExt

MaxWordBits == 24

Shl(x, n) == x * 2^n
Shr(x, n) == x \div 2^n
LowBits(x, n) == x % 2^n

Byte == 0..255

\* The n bytes of the word x, the most significant first.
BytesOf(x, n) == [i \in 1..n |-> LowBits(Shr(x, 8 * (n - i)), 8)]

-----------------------------------------------------------------------------
\* OutputBitstream

EmptyOutput == [fifo |-> <<>>, heldBits |-> 0, numHeldBits |-> 0, ok |-> TRUE]

\* write: held bits are kept at the top of a byte.
Write(s, bits, n) ==
  LET total == n + s.numHeldBits
      nextNum == total % 8
      nextHeld == LowBits(Shl(bits, 8 - nextNum), 8)
      topword == 8 * ((n - nextNum) \div 8)
      word == Shl(s.heldBits, topword) + Shr(bits, nextNum)
  IN IF n > MaxWordBits \/ bits >= 2^n
     THEN [s EXCEPT !.ok = FALSE]
     ELSE IF total < 8
     THEN [s EXCEPT !.heldBits = @ + nextHeld, !.numHeldBits = nextNum]
     ELSE [s EXCEPT !.fifo = @ \o BytesOf(word, total \div 8),
                    !.heldBits = nextHeld, !.numHeldBits = nextNum]

WriteAlignZero(s) ==
  IF s.numHeldBits = 0 THEN s
  ELSE [s EXCEPT !.fifo = Append(@, s.heldBits), !.heldBits = 0, !.numHeldBits = 0]

WriteByteAlignment(s) == WriteAlignZero(Write(s, 1, 1))

\* addSubstream of a stream t: its bytes one by one, then the bits it holds.
AddSubstream(s, t) ==
  LET bytes == FoldLeft(LAMBDA acc, byte : Write(acc, byte, 8), s, t.fifo)
  IN IF t.numHeldBits = 0 THEN bytes
     ELSE Write(bytes, Shr(t.heldBits, 8 - t.numHeldBits), t.numHeldBits)

-----------------------------------------------------------------------------
\* InputBitstream

InputOf(bytes) == [fifo |-> bytes, fifoIdx |-> 0, heldBits |-> 0, numHeldBits |-> 0, ok |-> TRUE]

NumBitsLeft(s) == 8 * (Len(s.fifo) - s.fifoIdx) + s.numHeldBits

\* The n bytes from position i on as one word; n is at most 4.
WordAt(fifo, i, n) ==
  LET at(k) == IF k < n THEN Shl(fifo[i + k + 1], 8 * (n - 1 - k)) ELSE 0
  IN at(0) + at(1) + at(2) + at(3)

\* read returns the stream after the call with the bits in the field "value".
\* ReadMore takes bytes when the held bits are "rest" bits short of n.
ReadMore(s, n, rest) ==
  LET numBytes == ((rest - 1) \div 8) + 1
      aligned == WordAt(s.fifo, s.fifoIdx, numBytes)
      nextNum == (32 - rest) % 8
  IN IF n > MaxWordBits \/ s.fifoIdx + numBytes > Len(s.fifo)
     THEN [value |-> 0, bs |-> [s EXCEPT !.ok = FALSE]]
     ELSE [value |-> Shl(LowBits(s.heldBits, s.numHeldBits), rest) + Shr(aligned, nextNum),
           bs |-> [s EXCEPT !.fifoIdx = @ + numBytes, !.numHeldBits = nextNum,
                            !.heldBits = LowBits(aligned, 8)]]

Read(s, n) ==
  IF n <= s.numHeldBits
  THEN [value |-> LowBits(Shr(s.heldBits, s.numHeldBits - n), n),
        bs |-> [s EXCEPT !.numHeldBits = @ - n]]
  ELSE ReadMore(s, n, n - s.numHeldBits)

\* readByte ignores the bits that are held.
ReadByte(s) ==
  IF s.fifoIdx >= Len(s.fifo) THEN [value |-> 0, bs |-> [s EXCEPT !.ok = FALSE]]
  ELSE [value |-> s.fifo[s.fifoIdx + 1], bs |-> [s EXCEPT !.fifoIdx = @ + 1]]

PeekPreviousByte(s) == s.fifo[s.fifoIdx]

\* readByteAlignment: a one, then zeros up to the end of the byte.
ReadByteAlignment(s) ==
  LET one == Read(s, 1)
      zeros == Read(one.bs, one.bs.numHeldBits)
  IN [zeros.bs EXCEPT !.ok = @ /\ one.value = 1 /\ zeros.value = 0]

\* readOutTrailingBits: bits up to the next byte are dropped.
ReadOutTrailingBits(s) == [s EXCEPT !.numHeldBits = 0]

\* extractSubstream of whole bytes from an aligned stream: beyond the end of
\* the data the substream is filled with zeros.
ExtractSubstream(s, numBytes) ==
  LET avail == Len(s.fifo) - s.fifoIdx
      taken == IF numBytes < avail THEN numBytes ELSE avail
  IN [value |-> InputOf(SubSeq(s.fifo, s.fifoIdx + 1, s.fifoIdx + taken)
                        \o [i \in 1..(numBytes - taken) |-> 0]),
      bs |-> [s EXCEPT !.fifoIdx = @ + taken]]
=============================================================================
