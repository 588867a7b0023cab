-------------------------------- MODULE Cabac --------------------------------
(***************************************************************************)
(* The arithmetic coder: BinEncoder.cpp writes bins into a bit stream,     *)
(* BinDecoder.cpp reads them.  The program encodes a substream of a slice, *)
(* ends and aligns it (CABACWriter::end_of_slice, EncSlice.cpp 2158-2161), *)
(* and decodes it later, asking for the bins in the order of the syntax.   *)
(*                                                                         *)
(* Bins are written in calls ("ops"): a bin of a context, one or several   *)
(* equally probable bins, a remainder of a coefficient, a terminating bin. *)
(* Calls that write several bins work in chunks of at most eight; each     *)
(* chunk is a step, "todo" holds those of the call that is under way.      *)
(***************************************************************************)
EXTENDS BitStream, Contexts

CONSTANTS
  Ops,       \* the calls that may be made
  MaxOps,    \* at most this many of them
  Contexts0  \* the models of the contexts at the start, by context

\* The longest prefix that a remainder may have beyond its cutoff.
MaxPrefixLength(op) == 32 - op.cutoff - op.log2Range

\* The calls.  What the decoder asks for differs from call to call only in the
\* fields that the syntax knows; a terminating bin within a substream is a zero.
\* The bins fit the number of bins, and a remainder its longest code.
IsOp(op) ==
  \/ op \in [kind : {"ctx"}, ctx : DOMAIN Contexts0, bin : {0, 1}]
  \/ op \in [kind : {"ep"}, bin : {0, 1}]
  \/ op \in [kind : {"trm"}, bin : {0}]
  \/ op \in [kind : {"align"}]
  \/ op \in [kind : {"eps"}, bins : Nat, num : Nat] /\ op.bins < 2^op.num
  \/ /\ op \in [kind : {"rem"}, value : Nat, rice : Nat, cutoff : Nat, log2Range : 0..31]
     /\ MaxPrefixLength(op) \in Nat
     /\ op.value < Shl(op.cutoff + 2^MaxPrefixLength(op) - 1, op.rice) + 2^op.log2Range

\* Contexts start as BinProbModel_Std::init and setLog2WindowSize leave them.
ASSUME CabacAssumption ==
  /\ MaxOps \in Nat
  /\ \A op \in Ops : IsOp(op)
  /\ Contexts0 = [c \in DOMAIN Contexts0 |-> Contexts0[c]]
  /\ \A c \in DOMAIN Contexts0 :
       \E qp \in 0..63, initId \in 0..63, log2WindowSize \in 0..15 :
         Contexts0[c] = InitModel(qp, initId, log2WindowSize)

VARIABLES
  pc,       \* "encode", "start", "decode", "done"
  enc,      \* registers of BinEncoderBase
  encCtx,   \* models of the encoder's contexts
  out,      \* the substream being written
  coded,    \* the calls made so far
  todo,     \* chunks of the call under way that are still to be coded
  dec,      \* registers of BinDecoderBase
  decCtx,   \* models of the decoder's contexts
  in,       \* the substream being read
  decoded,  \* the calls answered so far
  part      \* what is known of the answer to the call under way

encVars == <<enc, encCtx, out, coded, todo>>
decVars == <<dec, decCtx, in, decoded, part>>
vars == <<pc, encVars, decVars>>

LowestOf(a, b) == IF a < b THEN a ELSE b

-----------------------------------------------------------------------------
\* The encoder

EncStart == [low |-> 0, range |-> 510, bufferedByte |-> 255,
             numBufferedBytes |-> 0, bitsLeft |-> 23]

Fill(s, byte, n) ==
  LET filled[k \in 0..n] == IF k = 0 THEN s ELSE Write(filled[k - 1], byte, 8)
  IN filled[n]

\* writeOut: the leading byte leaves the register.  Bytes 0xff wait, because a
\* carry would run through them.
LeadByte(e) == Shr(e.low, 24 - e.bitsLeft)

\* Mutant of WriteOut: the carry stays in the register.
WriteOutKeepsCarry(e) ==
  [e EXCEPT !.bitsLeft = @ + 8, !.low = LowBits(@, 33 - (e.bitsLeft + 8)),
            !.bufferedByte = LowBits(LeadByte(e), 8), !.numBufferedBytes = 1]

WriteOut(e) ==
  LET kept == [e EXCEPT !.bitsLeft = @ + 8, !.low = LowBits(@, 32 - (e.bitsLeft + 8))]
      lead == LeadByte(e)
  IN IF lead = 255 THEN [kept EXCEPT !.numBufferedBytes = @ + 1]
     ELSE IF e.numBufferedBytes > 0
     THEN [kept EXCEPT !.bufferedByte = LowBits(lead, 8), !.numBufferedBytes = 1]
     ELSE [kept EXCEPT !.bufferedByte = lead, !.numBufferedBytes = 1]

\* Mutant of WrittenOut: the carry reaches the first waiting byte only.
WrittenOutShortCarry(e, s) ==
  IF LeadByte(e) = 255 \/ e.numBufferedBytes = 0 THEN s
  ELSE Fill(Write(s, e.bufferedByte + Shr(LeadByte(e), 8), 8), 255, e.numBufferedBytes - 1)

WrittenOut(e, s) ==
  LET carry == Shr(LeadByte(e), 8)
  IN IF LeadByte(e) = 255 \/ e.numBufferedBytes = 0 THEN s
     ELSE Fill(Write(s, e.bufferedByte + carry, 8), LowBits(255 + carry, 8), e.numBufferedBytes - 1)

\* The common end of the encoding functions: write out when 12 bits are full.
Encoded(e) ==
  /\ enc' = IF e.bitsLeft < 12 THEN WriteOut(e) ELSE e
  /\ out' = IF e.bitsLeft < 12 THEN WrittenOut(e, out) ELSE out

\* encodeBin: the less probable symbol takes the upper part of the range.
EncodeBin(op) ==
  LET m == encCtx[op.ctx]
      lps == LpsRange(m, enc.range)
      range == enc.range - lps
      bits == IF op.bin # Mps(m) THEN RenormBitsLPS(lps) ELSE IF range < 256 THEN 1 ELSE 0
  IN /\ op.kind = "ctx"
     /\ Encoded(IF op.bin # Mps(m)
                THEN [enc EXCEPT !.low = Shl(@ + range, bits), !.range = Shl(lps, bits),
                                 !.bitsLeft = @ - bits]
                ELSE [enc EXCEPT !.low = Shl(@, bits), !.range = Shl(range, bits),
                                 !.bitsLeft = @ - bits])
     /\ encCtx' = [encCtx EXCEPT ![op.ctx] = Update(@, op.bin)]
     /\ UNCHANGED todo

EncodeBinEP(op) ==
  /\ op.kind = "ep"
  /\ Encoded([enc EXCEPT !.low = Shl(@, 1) + op.bin * enc.range, !.bitsLeft = @ - 1])
  /\ UNCHANGED <<encCtx, todo>>

\* encodeBinTrm(0); a one is written by Finish.
EncodeBinTrm(op) ==
  LET range == enc.range - 2
  IN /\ op.kind = "trm"
     /\ IF range >= 256
        THEN enc' = [enc EXCEPT !.range = range] /\ UNCHANGED out
        ELSE Encoded([enc EXCEPT !.low = Shl(@, 1), !.range = Shl(range, 1), !.bitsLeft = @ - 1])
     /\ UNCHANGED <<encCtx, todo>>

Align(op) ==
  /\ op.kind = "align"
  /\ enc' = [enc EXCEPT !.range = 256]
  /\ UNCHANGED <<encCtx, out, todo>>

\* The chunks in which encodeBinsEP and encodeAlignedBinsEP write n bins.
Chunks(bins, n) ==
  LET count == (n + 7) \div 8
  IN [i \in 1..count |->
        IF i < count
        THEN [num |-> 8, bins |-> LowBits(Shr(bins, n - 8 * i), 8)]
        ELSE [num |-> n - 8 * (count - 1), bins |-> LowBits(bins, n - 8 * (count - 1))]]

EncodeBinsEP(op) ==
  /\ op.kind = "eps"
  /\ todo' = Chunks(op.bins, op.num)
  /\ UNCHANGED <<enc, encCtx, out>>

\* encodeRemAbsEP: a unary prefix and a suffix whose length it tells, at first
\* by the Rice parameter, beyond the cutoff as an Exp-Golomb code, and with a
\* fixed length when the prefix is the longest.
EncodeRemAbsEP(op) ==
  LET high == Shr(op.value, op.rice)
      codeValue == high - op.cutoff
      escape == codeValue >= 2^MaxPrefixLength(op) - 1
      prefixLength == IF escape THEN MaxPrefixLength(op)
                      ELSE CHOOSE k \in 0..MaxPrefixLength(op) : 2^k - 1 <= codeValue /\ codeValue <= 2^(k + 1) - 2
      suffixLength == IF escape THEN op.log2Range ELSE prefixLength + op.rice + 1
      suffix == Shl(codeValue - (2^prefixLength - 1), op.rice) + LowBits(op.value, op.rice)
  IN /\ op.kind = "rem"
     /\ todo' = IF op.value < Shl(op.cutoff, op.rice)
                THEN Chunks(2^(high + 1) - 2, high + 1) \o Chunks(LowBits(op.value, op.rice), op.rice)
                ELSE Chunks(2^(prefixLength + op.cutoff) - 1, prefixLength + op.cutoff)
                     \o Chunks(suffix, suffixLength)
     /\ UNCHANGED <<enc, encCtx, out>>

\* A call of the encoder.
Code ==
  /\ pc = "encode" /\ todo = <<>> /\ Len(coded) < MaxOps
  /\ \E op \in Ops :
       /\ coded' = Append(coded, op)
       /\ \/ EncodeBin(op) \/ EncodeBinEP(op) \/ EncodeBinTrm(op) \/ Align(op)
          \/ EncodeBinsEP(op) \/ EncodeRemAbsEP(op)
  /\ UNCHANGED <<pc, decVars>>

\* A round of the loop of encodeBinsEP or of encodeAlignedBinsEP.
CodeChunk ==
  /\ pc = "encode" /\ todo # <<>>
  /\ LET c == Head(todo)
     IN Encoded([enc EXCEPT !.low = Shl(@, c.num) + c.bins * enc.range, !.bitsLeft = @ - c.num])
  /\ todo' = Tail(todo)
  /\ UNCHANGED <<pc, encCtx, coded, decVars>>

\* encodeBinTrm(1), finish, writeByteAlignment: the end of a substream.
Terminated(e) ==
  [e EXCEPT !.low = Shl(@ + (e.range - 2), 7), !.range = 256, !.bitsLeft = @ - 7]

\* Mutant of FinishEncoder: a carry at the end is forgotten.
FinishEncoderNoCarry(e, s) ==
  Write(IF e.numBufferedBytes > 0
        THEN Fill(Write(s, e.bufferedByte, 8), 255, e.numBufferedBytes - 1) ELSE s,
        Shr(e.low, 8), 24 - e.bitsLeft)

FinishEncoder(e, s) ==
  LET carry == Shr(e.low, 32 - e.bitsLeft) > 0
      low == IF carry THEN e.low - 2^(32 - e.bitsLeft) ELSE e.low
      flushed == IF carry THEN Fill(Write(s, e.bufferedByte + 1, 8), 0, e.numBufferedBytes - 1)
                 ELSE IF e.numBufferedBytes > 0
                 THEN Fill(Write(s, e.bufferedByte, 8), 255, e.numBufferedBytes - 1)
                 ELSE s
  IN Write(flushed, Shr(low, 8), 24 - e.bitsLeft)

EndOfSlice ==
  /\ pc = "encode" /\ todo = <<>>
  /\ LET t == Terminated(enc)
         full == t.bitsLeft < 12
         e == IF full THEN WriteOut(t) ELSE t
         s == IF full THEN WrittenOut(t, out) ELSE out
     IN /\ enc' = e
        /\ out' = WriteByteAlignment(FinishEncoder(e, s))
  /\ pc' = "start"
  /\ UNCHANGED <<encCtx, coded, todo, decVars>>

-----------------------------------------------------------------------------
\* The decoder

NoRegisters == [value |-> 0, range |-> 0, bitsNeeded |-> 0]
NoPart == [kind |-> "none"]

\* The call that the decoder answers next, and the kind of it that the syntax
\* tells: everything but the value.
Wanted == coded[Len(decoded) + 1]

\* start: two bytes fill the value register.
StartDecoder ==
  /\ pc = "start"
  /\ LET first == ReadByte(InputOf(out.fifo))
         second == ReadByte(first.bs)
     IN /\ dec' = [range |-> 510, value |-> Shl(first.value, 8) + second.value, bitsNeeded |-> -8]
        /\ in' = second.bs
  /\ pc' = "decode"
  /\ UNCHANGED <<encVars, decCtx, decoded, part>>

\* The common refill: a byte is added below the bits that are still missing.
Refilled(d) ==
  LET byte == ReadByte(in)
  IN IF d.bitsNeeded >= 0
     THEN /\ dec' = [d EXCEPT !.value = @ + Shl(byte.value, d.bitsNeeded), !.bitsNeeded = @ - 8]
          /\ in' = byte.bs
     ELSE dec' = d /\ UNCHANGED in

Answer(op) == decoded' = Append(decoded, op)

DecodeBin ==
  LET m == decCtx[Wanted.ctx]
      lps == LpsRange(m, dec.range)
      range == dec.range - lps
      scaled == Shl(range, 7)
      isMps == dec.value < scaled
      bin == IF isMps THEN Mps(m) ELSE 1 - Mps(m)
      bits == IF isMps THEN (IF range < 256 THEN 1 ELSE 0) ELSE RenormBitsLPS(lps)
  IN /\ Wanted.kind = "ctx"
     /\ Refilled([range |-> Shl(IF isMps THEN range ELSE lps, bits),
                  value |-> Shl(IF isMps THEN dec.value ELSE dec.value - scaled, bits),
                  bitsNeeded |-> dec.bitsNeeded + bits])
     /\ decCtx' = [decCtx EXCEPT ![Wanted.ctx] = Update(@, bin)]
     /\ Answer([Wanted EXCEPT !.bin = bin])
     /\ UNCHANGED part

\* decodeBinEP refills before it compares.
BinEP ==
  LET d == [dec EXCEPT !.value = 2 * @, !.bitsNeeded = @ + 1]
      byte == ReadByte(in)
      value == IF d.bitsNeeded >= 0 THEN d.value + byte.value ELSE d.value
      scaled == Shl(dec.range, 7)
  IN [bin |-> IF value >= scaled THEN 1 ELSE 0,
      dec |-> [dec EXCEPT !.value = IF value >= scaled THEN value - scaled ELSE value,
                          !.bitsNeeded = IF d.bitsNeeded >= 0 THEN -8 ELSE d.bitsNeeded],
      in |-> IF d.bitsNeeded >= 0 THEN byte.bs ELSE in]

DecodeBinEP ==
  /\ Wanted.kind = "ep"
  /\ dec' = BinEP.dec /\ in' = BinEP.in
  /\ Answer([Wanted EXCEPT !.bin = BinEP.bin])
  /\ UNCHANGED <<decCtx, part>>

\* decodeBinTrm inside of the substream, where a zero is due.
DecodeBinTrm ==
  LET range == dec.range - 2
      ends == dec.value >= Shl(range, 7)
  IN /\ Wanted.kind = "trm"
     /\ IF range < 256 /\ ~ends
        THEN Refilled([range |-> 2 * range, value |-> 2 * dec.value, bitsNeeded |-> dec.bitsNeeded + 1])
        ELSE dec' = [dec EXCEPT !.range = range] /\ UNCHANGED in
     /\ Answer([Wanted EXCEPT !.bin = IF ends THEN 1 ELSE 0])
     /\ UNCHANGED <<decCtx, part>>

DecodeAlign ==
  /\ Wanted.kind = "align"
  /\ dec' = [dec EXCEPT !.range = 256]
  /\ Answer(Wanted)
  /\ UNCHANGED <<decCtx, in, part>>

\* decodeBinsEP and decodeRemAbsEP: the call starts ...
DecodeBinsEP ==
  /\ Wanted.kind = "eps"
  /\ part' = [kind |-> "bins", left |-> Wanted.num, bins |-> 0, offset |-> 0]
  /\ UNCHANGED <<dec, decCtx, in, decoded>>

DecodeRemAbsEP ==
  /\ Wanted.kind = "rem"
  /\ part' = [kind |-> "prefix", prefix |-> 0]
  /\ UNCHANGED <<dec, decCtx, in, decoded>>

\* A call of the decoder.
Ask ==
  /\ pc = "decode" /\ part = NoPart /\ Len(decoded) < Len(coded)
  /\ DecodeBin \/ DecodeBinEP \/ DecodeBinTrm \/ DecodeAlign \/ DecodeBinsEP \/ DecodeRemAbsEP
  /\ UNCHANGED <<pc, encVars>>

\* ... reads the unary prefix bin by bin ...
ReadPrefix ==
  LET maxPrefix == 32 - Wanted.log2Range
      prefix == part.prefix + 1
      counted == prefix - (1 - BinEP.bin)
      offset == IF counted < Wanted.cutoff THEN Shl(counted, Wanted.rice)
                ELSE Shl(2^(counted - Wanted.cutoff) + Wanted.cutoff - 1, Wanted.rice)
      length == IF counted < Wanted.cutoff THEN Wanted.rice
                ELSE Wanted.rice + (IF counted = maxPrefix THEN Wanted.log2Range - Wanted.rice
                                    ELSE counted - Wanted.cutoff)
  IN /\ pc = "decode" /\ part.kind = "prefix"
     /\ dec' = BinEP.dec /\ in' = BinEP.in
     /\ part' = IF BinEP.bin = 1 /\ prefix < maxPrefix
                THEN [part EXCEPT !.prefix = prefix]
                ELSE [kind |-> "bins", left |-> length, bins |-> 0, offset |-> offset]
     /\ UNCHANGED <<pc, encVars, decCtx, decoded>>

\* ... and n bins at a time.  A restoring division yields them all at once; with
\* a range of 256 they are the bits of the value.
ReadBins ==
  LET n == LowestOf(part.left, 8)
      byte == ReadByte(in)
      bitsNeeded == dec.bitsNeeded + n
      refill == bitsNeeded >= 0
      fresh == IF refill THEN Shl(byte.value, bitsNeeded) ELSE 0
      value == Shl(dec.value, n) + fresh
      scaled == Shl(dec.range, 7)
      bins == LowestOf(value \div scaled, 2^n - 1)
      refilled == [dec EXCEPT !.bitsNeeded = IF refill THEN bitsNeeded - 8 ELSE bitsNeeded]
      newBins == IF dec.range = 256 THEN LowBits(Shr(dec.value, 15 - n), n) ELSE bins
  IN /\ pc = "decode" /\ part.kind = "bins" /\ part.left > 0
     /\ dec' = [refilled EXCEPT !.value = IF dec.range = 256
                                          THEN LowBits(Shl(dec.value, n), 15) + fresh
                                          ELSE value - bins * scaled]
     /\ in' = IF refill THEN byte.bs ELSE in
     /\ part' = [part EXCEPT !.left = @ - n, !.bins = Shl(@, n) + newBins]
     /\ UNCHANGED <<pc, encVars, decCtx, decoded>>

Answered ==
  /\ pc = "decode" /\ part.kind = "bins" /\ part.left = 0
  /\ Answer(IF Wanted.kind = "eps" THEN [Wanted EXCEPT !.bins = part.bins]
            ELSE [Wanted EXCEPT !.value = part.offset + part.bins])
  /\ part' = NoPart
  /\ UNCHANGED <<pc, encVars, dec, decCtx, in>>

\* CABACReader::terminating_bit at the end of the substream, where DecSlice
\* expects a one (DecSlice.cpp 247-270): the check of the stop pattern, and the
\* trailing bits.
StopPattern == LowBits(Shl(PeekPreviousByte(in), 8 + dec.bitsNeeded), 8) = 128

TerminatingBit ==
  LET range == dec.range - 2
  IN /\ pc = "decode" /\ part = NoPart /\ Len(decoded) = Len(coded)
     /\ dec' = [dec EXCEPT !.range = range]
     /\ in' = ReadOutTrailingBits([in EXCEPT !.ok = @ /\ dec.value >= Shl(range, 7) /\ StopPattern])
     /\ pc' = "done"
     /\ UNCHANGED <<encVars, decCtx, decoded, part>>

Done == pc = "done" /\ UNCHANGED vars

-----------------------------------------------------------------------------
Init ==
  /\ pc = "encode"
  /\ enc = EncStart /\ encCtx = Contexts0 /\ out = EmptyOutput
  /\ coded = <<>> /\ todo = <<>>
  /\ dec = NoRegisters /\ decCtx = Contexts0 /\ in = InputOf(<<>>)
  /\ decoded = <<>> /\ part = NoPart

Next ==
  \/ Code \/ CodeChunk \/ EndOfSlice
  \/ StartDecoder \/ Ask \/ ReadPrefix \/ ReadBins \/ Answered
  \/ TerminatingBit \/ Done

Spec == Init /\ [][Next]_vars

-----------------------------------------------------------------------------
\* Properties

\* The registers keep to their widths, whatever is coded.  The encoder's
\* interval [low, low + range) may exceed the register by a carry, but by less
\* than one sixteenth, so that the byte that leaves the register after a carry
\* is not 0xff and can take another one; and as long as no byte waits, there is
\* no carry (BinEncoder.cpp 304-334).  The decoder's value is below its range,
\* which is what makes its bits bins (BinDecoder.cpp 292-345).
RegistersInRange ==
  /\ enc.range \in 256..510 /\ enc.bitsLeft \in 12..23
  /\ LET width == 32 - enc.bitsLeft
     IN IF enc.numBufferedBytes = 0
        THEN enc.low + enc.range <= 510 * 2^(width - 9)
        ELSE /\ enc.bufferedByte \in 0..254
             /\ enc.low + enc.range <= 2^width + 2^(width - 4)
  /\ pc = "decode" =>
       /\ dec.range \in 256..510 /\ dec.bitsNeeded \in -8..-1
       /\ dec.value < Shl(dec.range, 7)

\* No CHECK fails: no byte that is written has more than eight bits, the
\* decoder does not read beyond the substream, a terminating one is at its end
\* and then the stop pattern (BitStream.cpp 114, BitStream.h 173, DecSlice.cpp
\* 253-264, BinDecoder.cpp 82).  And the decoder leaves nothing of it behind.
ReadsExactlyTheSubstream ==
  /\ out.ok /\ in.ok
  /\ pc = "done" => NumBitsLeft(in) = 0

\* The decoder gets the bins that were coded, in order: a carry that runs
\* through waiting bytes, bytes that are held back and the different chunks of
\* both sides make no difference (BinEncoder.cpp, BinDecoder.cpp).
T == INSTANCE Transmission WITH sent <- coded, received <- decoded, closed <- pc # "encode"
BinsComeBack == T!Spec
=============================================================================
