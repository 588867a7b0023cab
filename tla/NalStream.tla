----------------------------- MODULE NalStream -----------------------------
(***************************************************************************)
(* The byte stream of NAL units (Annex B), from the encoder's syntax       *)
(* elements and substreams to the decoder's.                               *)
(*                                                                         *)
(* The encoder puts symbols into a payload (VLCWriter), prepends a header  *)
(* and prevents start codes inside the unit (NALwrite.cpp), and writes the *)
(* unit behind a start code (AnnexBwrite.h).  A slice carries substreams   *)
(* behind its header; their sizes in the header, the entry points, count   *)
(* the bytes of the final NAL unit, emulation prevention included.         *)
(*                                                                         *)
(* The decoder finds the units again (AnnexBread.cpp), looks ahead over    *)
(* whole units to see whether a new picture or access unit starts and goes *)
(* back (DecLib::isNewPicture, isNewAccessUnit), removes the emulation     *)
(* prevention and maps the entry points onto what is left (VLCReader.cpp). *)
(* The position in the file and the bytes InputByteStream has read ahead   *)
(* are separate pieces of state, and going back relies on their relation.  *)
(*                                                                         *)
(* A unit is a record [type, layer, tid, symbols, substreams, zeroWords];  *)
(* a symbol is [kind, value, bits].  Positions in the file count from 0.   *)
(***************************************************************************)
EXTENDS BitStream, FiniteSets, FiniteSetsExt

CONSTANTS
  Units,      \* the NAL units the encoder may write
  MaxUnits,   \* how many of them a file holds at most
  Gaps        \* numbers of zero bytes before a start code

ASSUME NalStreamAssumption ==
  /\ MaxUnits \in Nat
  /\ Gaps \subseteq Nat

VARIABLES
  sent,       \* the units written
  received,   \* the units read
  closed,     \* the file is complete
  file,       \* its bytes
  starts,     \* where each unit starts: its first byte and its start code prefix
  reader,     \* the decoder's end of the file
  pu          \* firstSliceInPicture, and decodedSliceInAU of DecApp::decode

vars == <<sent, received, closed, file, starts, reader, pu>>

NalTypes == [TRAIL |-> 0, IDR |-> 7, SPS |-> 15, PREFIX_APS |-> 17, PH |-> 19, AUD |-> 20,
             EOS |-> 21, PREFIX_SEI |-> 23, SUFFIX_SEI |-> 24]

IsVcl(type) == NalTypes[type] <= 11

-----------------------------------------------------------------------------
\* Symbols

\* xWriteVlc: an Exp-Golomb code, zeros and then value + 1.
WriteVlc(bs, value) ==
  LET length == CHOOSE n \in 1..16 : 2^(n - 1) <= value + 1 /\ value + 1 < 2^n
  IN Write(Write(bs, 0, length - 1), value + 1, length)

Unsigned(value) == IF value <= 0 THEN 2 * (-value) ELSE 2 * value - 1

WriteSymbol(bs, s) ==
  CASE s.kind = "u"  -> Write(bs, s.value, s.bits)
    [] s.kind = "ue" -> WriteVlc(bs, s.value)
    [] s.kind = "se" -> WriteVlc(bs, Unsigned(s.value))

\* xReadUvlc and xReadSvlc up to the number 2^length + suffix.
VlcSuffix(bs, length) ==
  LET suffix == Read(Read(bs, length + 1).bs, length)
  IN [suffix EXCEPT !.value = @ + 2^length]

ReadVlc(bs) ==
  LET lengths == {n \in 0..16 : LET r == Read(bs, n + 1) IN r.bs.ok /\ r.value = 1}
  IN IF lengths = {} THEN [value |-> 0, bs |-> [bs EXCEPT !.ok = FALSE]]
     ELSE VlcSuffix(bs, Min(lengths))

Signed(n) == IF n % 2 = 1 THEN -(n \div 2) ELSE n \div 2

ReadSymbol(bs, s) ==
  CASE s.kind = "u"  -> Read(bs, s.bits)
    [] s.kind = "ue" -> [ReadVlc(bs) EXCEPT !.value = @ - 1]
    [] s.kind = "se" -> [ReadVlc(bs) EXCEPT !.value = Signed(@)]

\* The reader of one unit: its bit stream, the positions of the bytes removed
\* from it, and the values read so far.
ReadSymbols(in, syntax) ==
  FoldLeft(LAMBDA acc, s :
             LET r == ReadSymbol(acc.bs, s)
             IN [acc EXCEPT !.bs = r.bs, !.values = Append(@, r.value)], in, syntax)

-----------------------------------------------------------------------------
\* The encoder

\* countStartCodeEmulations: two zeros and a byte up to 3, the third byte
\* being the first one of the next search; the last byte is never a zero.
StartCodeEmulations(bytes) ==
  FoldLeft(LAMBDA acc, byte :
             LET found == acc.zeros >= 2 /\ byte <= 3
             IN [count |-> IF found THEN acc.count + 1 ELSE acc.count,
                 zeros |-> IF byte # 0 THEN 0 ELSE IF found THEN 1 ELSE acc.zeros + 1],
           [count |-> 0, zeros |-> 0], bytes).count

\* Mutant of SubstreamSize: without the bytes to come.
SubstreamSizeOfPayload(bytes) == Len(bytes)

SubstreamSize(bytes) == Len(bytes) + StartCodeEmulations(bytes)

\* codeTilesWPPEntryPoint: all but the last substream have an offset.
WriteEntryPoints(bs, substreams) ==
  LET sizes == [i \in 1..(Len(substreams) - 1) |-> SubstreamSize(substreams[i])]
      bits == CHOOSE n \in 1..16 :
                /\ \A i \in DOMAIN sizes : sizes[i] < 2^n
                /\ n > 1 => \E i \in DOMAIN sizes : sizes[i] >= 2^(n - 1)
  IN IF sizes = <<>> THEN bs
     ELSE FoldLeft(LAMBDA acc, size : Write(acc, size - 1, bits), WriteVlc(bs, bits - 1), sizes)

\* A slice: the header, the entry points and, aligned, the substreams
\* (compressGOP and xAttachSliceDataToNalUnit of EncGOP.cpp).  Any other unit:
\* its symbols and the trailing bits; an EOS has no payload.
Payload(unit) ==
  LET header == FoldLeft(WriteSymbol, EmptyOutput, unit.symbols)
      data == FlattenSeq(unit.substreams)
  IN IF IsVcl(unit.type)
     THEN AddSubstream(WriteByteAlignment(WriteEntryPoints(header, unit.substreams)),
                       [EmptyOutput EXCEPT !.fifo = data])
     ELSE IF unit.symbols = <<>> THEN EmptyOutput ELSE WriteByteAlignment(header)

\* writeNalUnitHeader: two bytes, written field by field.
ReservedBits == Write(Write(EmptyOutput, 0, 1), 0, 1)
AndLayer(unit) == Write(ReservedBits, unit.layer, 6)
AndType(unit) == Write(AndLayer(unit), NalTypes[unit.type], 5)
NalUnitHeader(unit) == Write(AndType(unit), unit.tid + 1, 3).fifo

\* Mutant of Protect: a zero behind a byte put in does not count.
ProtectOnce(acc, v) ==
  LET stuffed == acc.zeros = 2 /\ v <= 3
  IN [out   |-> acc.out \o (IF stuffed THEN <<3, v>> ELSE <<v>>),
      zeros |-> IF v # 0 \/ stuffed THEN 0 ELSE acc.zeros + 1]

\* writeNaluContent: a byte 3 goes in front of the third byte of what could be
\* taken for a start code, and behind a last byte zero.
Protect(acc, v) ==
  LET stuffed == acc.zeros = 2 /\ v <= 3
  IN [out   |-> acc.out \o (IF stuffed THEN <<3, v>> ELSE <<v>>),
      zeros |-> IF v # 0 THEN 0 ELSE IF stuffed THEN 1 ELSE acc.zeros + 1]

Protected(rbsp) ==
  LET acc[n \in 0..Len(rbsp)] ==
        IF n = 0 THEN [out |-> <<>>, zeros |-> 0] ELSE Protect(acc[n - 1], rbsp[n])
  IN acc[Len(rbsp)]

NaluContent(rbsp) ==
  LET acc == Protected(rbsp)
  IN IF acc.zeros > 0 THEN Append(acc.out, 3) ELSE acc.out

\* Mutant of ZeroWords: not protected.
ZeroWordsUnprotected(n) == [i \in 1..(2 * n) |-> 0]

\* cabac_zero_word_padding appends its words 00 00 03 to the finished unit.
ZeroWords(n) == [i \in 1..(3 * n) |-> IF i % 3 = 0 THEN 3 ELSE 0]

NalUnit(unit) ==
  NalUnitHeader(unit) \o NaluContent(Payload(unit).fifo) \o ZeroWords(unit.zeroWords)

\* The fields of a header fit it, and a payload is bytes.
ASSUME UnitsAssumption ==
  \A unit \in Units :
    /\ unit.type \in DOMAIN NalTypes /\ unit.layer \in 0..63 /\ unit.tid \in 0..6
    /\ unit.zeroWords \in Nat
    /\ Payload(unit).fifo \in Seq(Byte)

\* writeAnnexBAccessUnit: the first unit of an access unit and the units of
\* parameter sets have the long start code.
LongStartCode(unit, firstInAU) == firstInAU \/ unit.type \in {"SPS", "PREFIX_APS"}

StartCode(unit, firstInAU) ==
  IF LongStartCode(unit, firstInAU) THEN <<0, 0, 0, 1>> ELSE <<0, 0, 1>>

\* The encoder writes a unit.  The zero bytes in front (leading_zero_8bits,
\* trailing_zero_8bits) are what other encoders may add.
WriteNalUnit(unit, firstInAU, gap) ==
  /\ ~closed /\ Len(sent) < MaxUnits
  /\ sent = <<>> => firstInAU
  /\ sent' = Append(sent, unit)
  /\ LET lead == [i \in 1..gap |-> 0] \o StartCode(unit, firstInAU)
     IN /\ file' = file \o lead \o NalUnit(unit)
        /\ starts' = Append(starts, [from |-> Len(file), prefix |-> Len(file) + Len(lead) - 3])
  /\ UNCHANGED <<received, closed, reader, pu>>

CloseFile ==
  /\ ~closed /\ closed' = TRUE
  /\ UNCHANGED <<sent, received, file, starts, reader, pu>>

-----------------------------------------------------------------------------
\* InputByteStream and byteStreamNALUnit

\* The reader: how many bytes were taken from the file, how many of them are
\* held back in m_futureBytes, whether the stream has failed (end of file), and
\* whether all CHECKs on what was read have passed.
InitReader == [pos |-> 0, numFutureBytes |-> 0, failed |-> FALSE, ok |-> TRUE]

NextByte(r) == r.pos - r.numFutureBytes

StartsWith(i, bytes) ==
  /\ i + Len(bytes) <= Len(file)
  /\ \A k \in DOMAIN bytes : file[i + k] = bytes[k]

IsPrefix3(i) == StartsWith(i, <<0, 0, 1>>)
IsPrefix4(i) == StartsWith(i, <<0, 0, 0, 1>>)
IsEndOfUnit(i) == \E b \in 0..2 : StartsWith(i, <<0, 0, b>>)

\* The first position from i on where one of the two start codes stands and
\* before which there are only zeros; at most the length of the file.
NextStart(i) ==
  LET stops == {k \in i..(Len(file) - 1) : IsPrefix3(k) \/ IsPrefix4(k) \/ file[k + 1] # 0}
  IN IF stops = {} THEN Len(file) ELSE Min(stops)

\* Where the body of a unit ends that begins at i.
BodyEnd(i) ==
  LET ends == {k \in i..(Len(file) - 3) : IsEndOfUnit(k)}
  IN IF ends = {} THEN Len(file) ELSE Min(ends)

\* The reader when it stops in front of position i, having peeked at 3 bytes or,
\* because these are not the short start code, at 4.
StoppedAt(r, i) ==
  LET peeked == IF IsPrefix3(i) THEN 3 ELSE 4
  IN IF i + peeked > Len(file)
     THEN [r EXCEPT !.pos = Len(file), !.numFutureBytes = Len(file) - i, !.failed = TRUE]
     ELSE [r EXCEPT !.pos = i + peeked, !.numFutureBytes = peeked]

\* byteStreamNALUnit.  A byte that is neither zero nor part of a start code
\* makes it throw and return an empty unit; the end of the file ends the unit.
ByteStreamNalUnit(r) ==
  LET start == NextStart(NextByte(r))
      body == IF IsPrefix3(start) THEN start + 3 ELSE start + 4
      end == BodyEnd(body)
      stopped == StoppedAt(r, NextStart(end))
  IN IF start = Len(file) THEN [nal |-> <<>>, r |-> StoppedAt(r, start)]
     ELSE IF ~IsPrefix3(start) /\ ~IsPrefix4(start)
     THEN [nal |-> <<>>,
           r |-> LET s == StoppedAt(r, start) IN [s EXCEPT !.numFutureBytes = @ - 1]]
     ELSE [nal |-> SubSeq(file, body + 1, end), r |-> stopped]

-----------------------------------------------------------------------------
\* read(InputNALUnit)

\* convertPayloadToRBSP; "removed" are the positions of the emulation
\* prevention bytes in the unit.
Unprotect(acc, i, byte) ==
  IF acc.after3
  THEN [acc EXCEPT !.out = Append(@, byte), !.zeros = IF byte = 0 THEN 1 ELSE 0,
                   !.after3 = FALSE, !.ok = @ /\ byte <= 3]
  ELSE IF acc.zeros = 2 /\ byte = 3
  THEN [acc EXCEPT !.removed = Append(@, i - 1), !.zeros = 0, !.after3 = TRUE]
  ELSE [acc EXCEPT !.out = Append(@, byte), !.zeros = IF byte = 0 THEN @ + 1 ELSE 0,
                   !.ok = @ /\ ~(acc.zeros >= 2 /\ byte < 3)]

\* cabac_zero_words at the end of a slice are dropped.
WithoutZeroWords(bytes) ==
  SubSeq(bytes, 1, Max({0} \cup {i \in DOMAIN bytes : bytes[i] # 0}))

Converted(nal) ==
  LET acc[n \in 0..Len(nal)] ==
        IF n = 0 THEN [out |-> <<>>, zeros |-> 0, after3 |-> FALSE, removed |-> <<>>, ok |-> TRUE]
        ELSE Unprotect(acc[n - 1], n, nal[n])
  IN acc[Len(nal)]

RbspOf(acc, isVcl) ==
  [bs |-> [InputOf(IF isVcl THEN WithoutZeroWords(acc.out) ELSE acc.out)
             EXCEPT !.ok = acc.ok /\ acc.zeros = 0],
   removed |-> acc.removed, values |-> <<>>]

\* read and readNalUnitHeader: two bits, the layer, the type and the temporal layer.
\* The type is in the second byte.
Field(bits) == [kind |-> "u", bits |-> bits]
HeaderFields == <<Field(1), Field(1), Field(6), Field(5), Field(3)>>

OpenUnit(nal) ==
  ReadSymbols(RbspOf(Converted(nal), Shr(nal[2], 3) <= 11), HeaderFields)

TypeOf(in) == CHOOSE type \in DOMAIN NalTypes : NalTypes[type] = in.values[4]
LayerIsLegal(in) == in.values[3] <= 55

-----------------------------------------------------------------------------
\* The slice header and its substreams

\* The number of emulation prevention bytes in [from, to) of the unit.
RemovedIn(removed, from, to) ==
  Quantify(DOMAIN removed, LAMBDA k : from <= removed[k] /\ removed[k] < to)

\* Mutant of PositionInUnit: as if nothing was removed from the slice header.
PositionInPayload(removed, location) == location

\* getByteLocation counts the bytes of the payload: each byte removed in front
\* of the position found so far moves it on in the unit.
PositionInUnit(removed, location) ==
  FoldLeft(LAMBDA at, r : IF r < at THEN at + 1 ELSE at, location, removed)

\* parseSliceHeader: the offsets, n numbers of as many bits as a code says; then
\* sizes in bytes of the unit become sizes in bytes of the payload.
ReadOffsets(in, n) ==
  LET code == ReadVlc(in.bs)
  IN ReadSymbols([in EXCEPT !.bs = code.bs, !.values = <<>>],
                 [i \in 1..n |-> Field(code.value)])

SizesInPayload(offsets, removed, from) ==
  [i \in DOMAIN offsets |->
     LET start == from + FoldLeft(LAMBDA x, y : x + y + 1, 0, SubSeq(offsets, 1, i - 1))
         size == offsets[i] + 1
     IN size - RemovedIn(removed, start, start + size)]

\* decompressSlice: the last substream takes what is left.
Extract(acc, size) ==
  LET x == ExtractSubstream(acc.bs, size)
  IN [bs |-> x.bs, list |-> Append(acc.list, x.value.fifo)]

Substreams(bs, sizes) ==
  LET acc == FoldLeft(Extract, [bs |-> bs, list |-> <<>>], sizes)
  IN Extract(acc, NumBitsLeft(acc.bs) \div 8).list

SliceData(aligned, in) ==
  [list |-> Substreams(aligned, SizesInPayload(in.values, in.removed,
                                               PositionInUnit(in.removed, aligned.fifoIdx))),
   ok |-> aligned.ok]

SliceDataFrom(in) == SliceData(ReadByteAlignment(in.bs), in)

NoData(bs) == [list |-> <<>>, ok |-> bs.ok]

\* What follows the symbols of a unit: nothing at all, the trailing bits, or the
\* entry points, if there are any, and the substreams.
DataOf(in, syntax) ==
  CASE IsVcl(TypeOf(in)) ->
         LET n == Len(syntax.substreams) - 1
         IN SliceDataFrom(IF n = 0 THEN [in EXCEPT !.values = <<>>] ELSE ReadOffsets(in, n))
    [] ~IsVcl(TypeOf(in)) /\ syntax.symbols = <<>> -> NoData(in.bs)
    [] OTHER -> NoData(ReadByteAlignment(in.bs))

UnitFrom(in, data, syntax) ==
  [unit |-> [type |-> TypeOf(in), layer |-> in.values[3], tid |-> in.values[5] - 1,
             symbols |-> [i \in DOMAIN syntax.symbols |->
                            [syntax.symbols[i] EXCEPT !.value = in.values[5 + i]]],
             substreams |-> data.list, zeroWords |-> syntax.zeroWords],
   ok |-> data.ok /\ LayerIsLegal(in)]

ParsedFrom(in, syntax) == UnitFrom(in, DataOf(in, syntax), syntax)

\* What the decoder makes of a unit.  The syntax (which symbols, how many
\* substreams) is known to both sides from the parameter sets; here it is taken
\* from the unit that was written.
Parsed(nal, syntax) == ParsedFrom(ReadSymbols(OpenUnit(nal), syntax.symbols), syntax)

-----------------------------------------------------------------------------
\* Looking ahead

\* What the type of a unit says of the picture, in isNewPicture: the first unit
\* of a new one, not the first of one, or nothing yet ("more").
PictureStart(in) ==
  CASE TypeOf(in) \in {"SPS", "PH", "AUD"} -> "yes"
    [] IsVcl(TypeOf(in)) -> IF Read(in.bs, 1).value = 1 THEN "yes" ELSE "no"
    [] TypeOf(in) \in {"EOS", "SUFFIX_SEI"} -> "no"
    [] OTHER -> "more"

Answer(nal) == IF nal = <<>> THEN "more" ELSE PictureStart(OpenUnit(nal))

\* The units looked at one after the other, as long as the stream is good.
Readers == [pos : 0..Len(file), numFutureBytes : 0..4, failed : BOOLEAN, ok : BOOLEAN]

LookAhead(reader0) ==
  LET look[r \in Readers] ==
        LET next == ByteStreamNalUnit(r)
            answer == Answer(next.nal)
        IN IF r.failed THEN "no" ELSE IF answer = "more" THEN look[next.r] ELSE answer
  IN look[reader0]

\* clear, seekg and reset.
SeekTo(r, position) == [r EXCEPT !.pos = position, !.numFutureBytes = 0, !.failed = FALSE]

\* Mutants of the next two: each goes back as far as the other.
SeekToPosition(r) == SeekTo(r, r.pos)
SeekBackThree(r) == SeekTo(r, r.pos - 3)

\* isNewPicture goes back to 3 bytes before the position it started from: the
\* file was read that far ahead.  isNewAccessUnit, which only ever follows it,
\* goes back to just the position.
AfterIsNewPicture(r) == SeekTo(r, r.pos - 3)
AfterIsNewAccessUnit(r) == SeekTo(r, r.pos)

IsNewPicture == ~pu.firstSliceInPicture /\ LookAhead(reader) = "yes"

\* The position where DecApp::decode goes on after isNewPicture: it returns at
\* once when no slice was read.
Reading == IF pu.firstSliceInPicture THEN reader ELSE AfterIsNewPicture(reader)

\* DecApp::decode when isNewPicture is true: the picture is finished.  Which
\* answer isNewAccessUnit gives is left open.
FinishPicture ==
  /\ closed /\ ~reader.failed /\ reader.ok
  /\ IsNewPicture
  /\ reader' = IF pu.decodedSliceInAU THEN AfterIsNewAccessUnit(Reading) ELSE Reading
  /\ \E newAU \in BOOLEAN :
       pu' = [firstSliceInPicture |-> TRUE, decodedSliceInAU |-> pu.decodedSliceInAU /\ ~newAU]
  /\ UNCHANGED <<sent, received, closed, file, starts>>

AfterUnit(type) ==
  [firstSliceInPicture |-> ~IsVcl(type) /\ (pu.firstSliceInPicture \/ type = "EOS"),
   decodedSliceInAU |-> pu.decodedSliceInAU \/ IsVcl(type)]

\* DecApp::decode when it is not: the next unit is read and decoded.  An empty
\* unit is only warned of.
ReadNalUnit ==
  /\ closed /\ ~reader.failed /\ reader.ok
  /\ ~IsNewPicture
  /\ \E next \in {ByteStreamNalUnit(Reading)} :
       IF next.nal = <<>>
       THEN reader' = next.r /\ UNCHANGED <<received, pu>>
       ELSE \E read \in {Parsed(next.nal, sent[Len(received) + 1])} :
              /\ reader' = [next.r EXCEPT !.ok = read.ok]
              /\ received' = Append(received, read.unit)
              /\ pu' = AfterUnit(read.unit.type)
  /\ UNCHANGED <<sent, closed, file, starts>>

Finished == closed /\ (reader.failed \/ ~reader.ok) /\ UNCHANGED vars

Init ==
  /\ sent = <<>> /\ received = <<>> /\ closed = FALSE
  /\ file = <<>> /\ starts = <<>>
  /\ reader = InitReader
  /\ pu = [firstSliceInPicture |-> TRUE, decodedSliceInAU |-> FALSE]

Next ==
  \/ \E unit \in Units, firstInAU \in BOOLEAN, gap \in Gaps : WriteNalUnit(unit, firstInAU, gap)
  \/ CloseFile
  \/ FinishPicture
  \/ ReadNalUnit
  \/ Finished

Spec == Init /\ [][Next]_vars

-----------------------------------------------------------------------------
\* The bytes of the unit i in the file, behind its start code.
UnitBytes(i) ==
  SubSeq(file, starts[i].prefix + 4,
         IF i < Len(starts) THEN starts[i + 1].from ELSE Len(file))

\* Inside a NAL unit no three bytes look like a start code or the end of the
\* unit, a protected 3 is followed by a byte up to 3 or by nothing, and the last
\* byte is not zero: what the comment of writeNaluContent (NALwrite.cpp:71-87)
\* asks for, also with cabac_zero_words behind the unit.
NoStartCodeInside ==
  \A i \in DOMAIN starts :
    LET bytes == UnitBytes(i)
        from(k) == SubSeq(bytes, k, Len(bytes))
    IN /\ Last(bytes) # 0
       /\ \A k \in 1..(Len(bytes) - 2) : bytes[k] = 0 /\ bytes[k+1] = 0 =>
            /\ bytes[k+2] > 2
            /\ bytes[k+2] = 3 /\ k + 3 <= Len(bytes) => bytes[k+3] <= 3

\* Whatever was looked at ahead, and however far InputByteStream has read on,
\* the decoder goes on at the start code of the unit that follows the last one
\* it read: the seeks of isNewPicture and isNewAccessUnit (DecLib.cpp:4432,
\* 4526) neither repeat nor lose a byte of it.
KeepsPlace ==
  closed /\ ~reader.failed /\ Len(received) < Len(sent) =>
    LET next == starts[Len(received) + 1]
        at == IF pu.firstSliceInPicture THEN NextByte(reader) ELSE NextByte(AfterIsNewPicture(reader))
    IN next.from <= at /\ at <= next.prefix

\* The decoder reads the very units the encoder wrote, with the same symbols
\* and the same substreams, in order, and no CHECK of the reading side fails on
\* what the writing side produced (NALread.cpp:66-85 and 131, BitStream.cpp:291
\* and 393-406).
T == INSTANCE Transmission
UnitsComeBack == T!Spec /\ []reader.ok

\* Nothing stops the reader before the last unit.  The stream fails only when
\* that one was read: looking ahead up to the end of the file leaves no failed
\* stream behind, and no unit in front of it.
ReadsToTheEnd == closed /\ reader.failed => Len(received) = Len(sent)
=============================================================================
