# A verification of the VTM codec: the decoder, the coding engine and the coding order

This directory holds TLA+ specifications of the program in `src/`, the VVC test
model VTM 24.0 with an add-on that counts zero columns of transform blocks.
They are read off the C++ source, model-checked with TLC on small instances,
and partly proved with TLAPS for every value of the parameters.

The modules cover the control of the program at the level of pictures and NAL
units, and the bits and bytes below it:

- the **decoder application and library**: what becomes of each NAL unit, which
  pictures are decoded, where they are stored, what they are predicted from,
  when they are written; which parameter sets each slice is decoded with;
- the **coding engine** of both programs: the arithmetic coder, the bit streams,
  NAL units with their escapes, entry points and start codes;
- **tiles and slices**: how a picture is divided, how the parameter set tells it, and
  what encoder and decoder reset on their ways through a slice;
- the **coding tree**: the splits of a coding tree unit, what they permit, how
  they are coded, and the order of its blocks;
- the **encoder's coding order**: the check of the GOP structure, the reading of
  frames, NAL unit types, reference lists, picture buffers, ALF parameter sets;
- the **composition** of encoder and decoder.

The samples are abstracted away.  Paths below are relative to `src/source/`.

## 1. The system

The repository has about 211,000 lines of C++ under `source/`: two programs
(decoder and encoder) over three libraries, a handful of stream tools, and
scripts.  All of it runs in a single thread; nothing is persisted except the
output files.  What is hard is not concurrency but *protocol*: an unbounded
sequence of NAL units drives several pieces of state that are owned by
different classes, updated at different times, and must stay in step.

| Part | State | Operations | Interacts with | What makes it correct |
|---|---|---|---|---|
| Decoder application (`App/DecoderApp/DecApp.cpp`) | `m_iSkipFrame`, `m_iPOCLastDisplay`, `m_newCLVS`, and the local flags of `decode` (`bPicSkipped`, `prevPicSkipped`, `loopFiltered`, `gdrRecoveryPeriod`, EOS flags) | the main loop, `xWriteOutput`, `xFlushOutput` | calls DecLib; shares the list of pictures with it through a pointer | all decodable pictures are written, once, in output order |
| Decoder library (`Lib/DecoderLib/DecLib.cpp`) | current picture, slice pilot, first-slice flags, `m_pocRandomAccess`, `m_prevTid0POC`, GDR and "no output" variables | `decode`, `xDecodeSlice`, `isRandomAccessSkipPicture`, `xActivateParameterSets`, `finishPicture`, `isNewPicture` | parser, list of pictures, slice decoder, filters | decoding starts at a point of random access and predicts from the pictures the encoder meant |
| Decoded picture buffer (`m_cListPic`; `Slice.cpp`, `Picture.h`) | a list of buffers with `referenced`, `neededForOutput`, `reconstructed`, `poc` | `xGetNewPicBuffer`, reference marking, `sortPicList`, generation of missing pictures, bumping | written by DecLib and DecApp | no picture is overwritten while needed, none is kept for ever |
| Picture order counts (`VLCReader.cpp`) | the anchor `m_prevTid0POC` | derivation from the low-order bits | every header | the POC is the encoder's |
| Parsers (`VLCReader.cpp`, `SEIread.cpp`, `CABACReader.cpp`) and parameter sets (`ParameterSetManager.h`) | parsed structures; stored sets with changed flags | parse, store, activate | DecLib | what was written is read; no change while active |
| Byte stream, bit stream, CABAC engine (`AnnexBread.cpp`, `NALread.cpp`, `BitStream.cpp`, `BinDecoder.cpp`, `BinEncoder.cpp`) | position, range, low, outstanding bytes | read and write bytes, bits, bins | parsers and writers | the reader inverts the writer |
| Slice data (`PictureParameterSet.cpp`, `EncSlice.cpp`, `DecSlice.cpp`, `EncGOP.cpp`) | tiles, the map from slices to CTUs; contexts, palette predictor, motion candidates, QP; substreams | `initTiles`, `initRectSliceMap`, `encodeCtus`, `encodeSlice`, `decompressSlice` | configuration, PPS, slice header, CABAC | the decoder gets the slices that were asked for and starts each CTU as the encoder did |
| Coding tree (`CABACReader.cpp`, `CABACWriter.cpp`, `UnitPartitioner.cpp`) | a stack of splits with counters of depth, quantisation groups, tree and mode types | `splitCurrArea`, `nextPart`, `exitCurrSplit`, `canSplit`, `coding_tree` | parsers, search, reconstruction | every sample is coded once, after what it refers to, in a block that can be predicted |
| Reconstruction: prediction, transforms, quantisation, filters | samples, motion lists, quantiser state | per coding unit | DecSlice, DecCu, EncCu | bit-exact arithmetic |
| Sparsity statistics (`Lib/CommonLib/CDSATMStats.h`) | counters per block shape, a log file | `record`, `flush` at exit | called by `TrQuant.cpp` | totals agree with the blocks |
| Encoder (`EncLib.cpp`, `EncGOP.cpp`, `RateCtrl.cpp`, `EncSlice.cpp`, `EncCu.cpp`) | picture buffers, GOP position, bit budgets | encode a GOP, choose references, code | everything above | emits a conforming stream |
| Stream tools (`Parcat`, `StreamMergeApp`, `BitstreamExtractorApp`, ...) | rewritten POCs, layers | concatenate, merge, extract | files | the result conforms |

The complete list, with files and reasons, is under `components` in
`PROJECT.json`.

**Hard behaviours**, each at its line under `hazards` in `PROJECT.json`: two
sequences in one list of pictures, buffers reused too early or too late,
references identified by POC alone, POCs rebuilt from their low-order bits,
random access and the leading pictures that depend on it, the counting of
skipped pictures by two classes, end-of-sequence NAL units that end one picture
and start another in the same round of the loop, recovery from a gradual
decoding refresh (GDR), pictures that were lost, files that end early, and
loops some of whose rounds read nothing; parameter sets that are replaced while
slices point to them, or remembered by only one of encoder and decoder; a reader
that looks ahead and seeks back; carries, escapes and sizes that are right but
for one byte; sizes that are inferred, and states reset by three functions that must do
the same; and a coding order that must be right at the start of every
sequence, after every refresh and at the end of the input.

## 2. The modules

| Module | Models | Kind |
|---|---|---|
| `PicOrderCnt` | the POC derivation of `parseSliceHeader` | operators |
| `PicList` | `m_cListPic` of the decoder and everything done to it | operators on a sequence of records |
| `Decoder` | `DecApp::decode`, `xWriteOutput`, `xFlushOutput`, the picture level of `DecLib` | state machine; uses the two above |
| `OutputProcess` | what the decoder promises about its output | abstract state machine |
| `DecoderProperties` | the properties, stated against the stream | extends `Decoder`, instantiates `OutputProcess` |
| `ParameterSetManager` | `ParameterSetMap`: store, replace, keep, activate | operators on a record |
| `ParameterSetDecoder` | what `DecLib` does with SPSs, PPSs and APSs | operators, one per handler |
| `ParameterSets` | a legal stream of parameter sets, slices, skipped pictures and ends of sequence, and its decoder | state machine |
| `AlfEncoder` | the ring of ALF parameter sets in `EncAdaptiveLoopFilter` | operators |
| `AlfParameters` | that encoder with decoders of all or of the lower temporal layers, from the start or from a CRA picture | state machine; composes `AlfEncoder` and `ParameterSetDecoder` |
| `BitStream` | `OutputBitstream`, `InputBitstream` | operators |
| `Contexts` | `BinProbModel_Std`: states, their adaptation, the range of the less probable bin | operators |
| `Cabac` | `BinEncoderBase` and `BinDecoderBase` | state machine; uses the two above |
| `Partitioner` | `QTBTPartitioner`: the stack, permitted and forced splits | operators on a record |
| `CodingTree` | `coding_tree_unit`, `coding_tree`, `split_cu_mode`, `mode_constraint` of reader and writer | state machine; extends `Partitioner` |
| `PictureSlices` | tiles and slices from `EncAppCfg` through `initTiles`, `initRectSliceMap`, `initRasterSliceMap`, the PPS as written and read | operators |
| `SliceData` | `compressSlice`, `encodeCtus`, `encodeSlice`, `decompressSlice`, entry points, slice addresses | state machine; extends `PictureSlices` |
| `NalStream` | `NALwrite`, `AnnexBwrite`, `AnnexBread`, `NALread`, entry points, the looking ahead of `DecLib` | state machine; uses `BitStream` |
| `Transmission` | what a writer and a reader promise together | abstract state machine |
| `GopStructure` | the check and completion of the GOP structure in `EncAppCfg`, the limits of the SPS | first phase of the encoder |
| `Encoder` | `EncApp::encodePrep`, `encode`, `EncLib::encodePrep`, `encode`, `xGetNewPicBuffer`, `EncGOP::compressGOP` and what it calls in `Slice` | state machine; extends `GopStructure` |
| `Codec` | the encoder, then the decoder on what it wrote | composes `Encoder` and `DecoderProperties` |
| `MC...` | instances for TLC | |
| `DecoderProof`, `ParameterSetsProof`, `AlfParametersProof`, `CodingTreeProof`, `CabacProof`, `NalStreamProof` | theorems and the lemmas of each component | for TLAPS |
| `CodingTreeWalk` | the cover of a coding tree unit by the walk, and its checks | theorems; extends `CodingTreeProof` |
| `Arithmetic` | induction over the natural numbers, for sets; powers of two and division; nested intervals | lemmas |

**How `Decoder` corresponds to the code.**  One thread runs the program, so the
state has a program counter `pc`, and each action is one call or one round of a
loop.  `app` is a record of the variables of `DecApp` and of the locals of its
`decode`; `dec` one of those of `DecLib`; `listPic` is `m_cListPic`; `written`
records the pictures that went to the output file.  A picture is identified by
the position of its first slice in the stream, 0 standing for one that the
decoder made up.

| `pc` | Code | Actions |
|---|---|---|
| `loop` | head of the main loop, `DecApp.cpp` 210-267 | `NewPicture`, `ReadNal`, `EndOfStream` |
| `flush`, `finalFlush` | `xFlushOutput` | `FlushOne`, `FlushEnd` |
| `decode` | layer filter, `DecLib::decode`, `xDecodeSlice` to line 3186 | `Drop`, `DecodeNonVcl`, `DecodeHeader` |
| `access` | `isRandomAccessSkipPicture` | `SkipSlice`, `AccessSlice` |
| `refs` | missing references, marking, new buffer, `constructRefPicList` | `InsertUnavailable`, `LoseReference`, `ActivatePicture`, `ContinuePicture` |
| `returned`, `read` | `DecApp.cpp` 291-369 | `Returned`, `ReadEnd` |
| `finish` | `DecApp.cpp` 377-408 with `executeLoopFilters`, `finishPicture` | `FinishPicture`, `LeaveUnfinished`, `FilterFreed`, `NoPicture` |
| `output`, `write` | `DecApp.cpp` 410-817, `xWriteOutput` | `PrepareOutput`, `NoOutput`, `WriteOne`, `WriteEnd` |
| `done`, `aborted` | normal end; exception, failed `CHECK` or null pointer | `Ended` |

**How `Encoder` corresponds to the code.**  Again one thread; `phase` is its
program counter.  `config` is what the user asks for and what the input file
holds; `enc` the variables of `EncApp`, `EncLib` and `EncGOP`; `encPics` the
encoder's `m_cListPic`; `rec` and `recon` the list of reconstructed frames and
the file they go to; `cur` the slice being coded; `stream` what was written, in
the form in which `Decoder` reads it.

| `phase` | Code | Actions |
|---|---|---|
| `check` | `App/EncoderApp/EncAppCfg.cpp` 5559-5797, one frame a round | `CheckFrame` |
| `read` | `EncApp::encodePrep`, `EncApp.cpp` 1994-2078, and `EncLib::encodePrep` | `ReadFrame`, `ReadPastEnd` |
| `start` | `EncGOP.cpp` 2590-2802: POC, type, refresh marking | `SkipPicture`, `StartPicture` |
| `lists` | `EncGOP.cpp` 2820-2952: lists from the SPS or lists of their own | `ChooseLists` |
| `code` | `EncGOP.cpp` 2954 on: marking, STSA, checks, writing | `CodePicture` |
| `next` | `EncLib.cpp` 976-1006, writing of the reconstruction | `NextPicture`, `EndGop` |
| `done`, `refused`, `aborted` | all coded; the structure is refused; a `CHECK` or exception | |

**The coding engine.**  `Cabac` has the registers of both engines (`low`,
`range`, the bits left, the buffered byte and the number of bytes 0xff that wait
for a carry; the decoder's value and its bits needed) and one action per call: a
bin with a context, one or several equally probable bins, in the aligned mode
too, a terminating bin, a remainder of a coefficient, then `finish` and the
trailing bits; a call of several bins is coded in chunks, a step each.  `NalStream` has the bytes of the file, the two bytes that the
reader of start codes holds ahead, and the position in the file; a round of the
decoder's loop reads a unit, and looking ahead for a new picture or access unit
reads more and seeks back.

**The coding tree.**  The partitioner is a record with a stack of levels (the
split, its parts, the current part, whether it may begin a quantisation group,
the split that the border forces) and the code's counters of depth.  `coding_tree`
is recursive: `calls` is the stack of its activations, `pc` says whether a call
begins or has returned.  The writer replays what the search chose, any permitted
split, and the reader finds it from the bins; both walk in the same way, so
there is one walk, and `ReadsTheSplits` compares `SplitBins` of the writer with
`ReadSplit` of the reader.  `coded` has the smallest blocks coded so far in each channel.

**Slice data.**  `PictureSlices` has the two directions of the PPS: `EncLayout` turns a
configuration into a grid of tiles and groups of slices (or refuses it), `WritePPS`
leaves out what follows from the rest, `ReadPPS` infers it, and `RectSliceMap` and
`RasterSliceMap` give the CTUs of each slice.  In `SliceData` one picture goes through it:

| `pc` | Code | Actions |
|---|---|---|
| `configure` | `EncAppCfg.cpp` 5887-6145, `EncLib::xInitPPS` | `Configure` |
| `search` | `EncSlice::compressSlice`, `encodeCtus`, slice by slice | `SearchSlice`, `SearchCtu` |
| `write` | `EncSlice::encodeSlice`, then `EncGOP.cpp` 4509-4523 | `WriteSlice`, `WriteCtu`, `FinishSlice` |
| `parse` | the PPS in `VLCReader.cpp`, the map of its slices | `Parse` |
| `read` | the slice header, `DecSlice::decompressSlice` | `ReadSlice`, `ReadCtu` |
| `done`, `refused`, `aborted` | all read; the configuration is refused; a failed `CHECK` or no buffer left | |

What adapts from CTU to CTU (contexts, palette predictor, motion candidates) is
represented by the list of the CTUs it has adapted to since its last reset, the QP by
where it comes from.  `used` records what each of the three walks starts each CTU with; a
substream is the sequence of CTUs in it with the start and the end of the arithmetic
coder, and its size counts these items (what becomes of bytes is `NalStream`'s part).  A
header whose number of entry points is not the decoder's would be parsed as something
else; the model aborts.

**Parameter sets.**  A parameter set is a content, an identity (so that a slice
can keep a pointer to it) and a changed flag.  `ParameterSetDecoder` has one
operator per handler of `DecLib`: parsing an SPS, a PPS or an APS, the
activation of a picture's sets, the slice's copies of pointers, the suffix APSs
that wait for the end of the picture and the list of those of an access unit.
`AlfEncoder` is the encoder's side for ALF: which of the sets may still be named
(`Available`), which identifiers a new set takes, and what is forgotten at a
point of random access (`Reset`).  Which sets *are* used is the outcome of a
rate-distortion search and left open.

**Abstractions.**  A NAL unit of `Decoder` is a record of the header fields that
decide control.  `PH` stands for all types that can only start a picture, `IDR`
for both IDR types, `TRAIL` for STSA too.  The POC in a NAL unit is the one its
encoder meant; the decoder sees only its residue modulo `MaxPocLsb`.  Entries of
reference picture lists are sets of POC differences in the decoder, where their
order decides samples, not control; sequences in the encoder, where it does.
`-MAX_INT` and `MAX_INT` are the code's infinities; `MAX_INT = 1000` in the runs
is beyond every POC there.  In `ParameterSets`, `AlfParameters` and `Cabac` the
writer's freedom is a set of inputs chosen with `\E`.

**Abstract specifications.**  `OutputProcess` knows pictures that wait, the
POC written last in this sequence, and what has been written.  It allows a
picture to be completed only if none of its successors has been written,
pictures to be written only in the order of their POCs, each once, and a new
sequence only after the last has left.  `OutputOrder` says that the decoder
implements it, with the pictures that wait read off `listPic` and the last POC
being `m_iPOCLastDisplay`.

`Transmission` knows what was sent, what was received and whether the stream is
closed: items are received only after the stream is closed, in the order in
which they were sent, none twice and none left out.  The arithmetic coder
implements it with bins as items (`BinsComeBack`), the byte stream with NAL units as
items (`UnitsComeBack`).

## 3. What is checked

Runs that pass:

| Run | Properties | Question |
|---|---|---|
| `MCDecoder` | `TypeOK`, `NeverAborts`, `ExactlyTheDecodable`, `PocsAgree`, `BufferBounded`, `PredictsFromTheRightPictures`, `Terminates` | Is a conforming stream decoded correctly from its first picture, or after skipping one to three? |
| `MCDamaged` | `WritesOnlyShown`, `WritesOnlyPictures`, `OutputOrder`, `Halts` | What if any one picture was lost, or the file ends after any NAL unit? |
| `MCParameterSets` | `NeverFails`, `DecodesWithTheSetsInEffect`, `UsedApssExist` | Is every slice decoded with the parameter sets that are in effect, whatever legal order they come in? |
| `MCAlfParameters` | `StreamIsDecodable`, `FiltersAsTheEncoder` | Do encoder and decoder hold the same filter coefficients, also from a CRA picture on and without the upper temporal layers? |
| `MCCabac` | `RegistersInRange`, `ReadsExactlyTheSubstream`, `BinsComeBack` | Does the decoder get back the bins from exactly the bytes written? |
| `MCCodingTree` | `NeverAborts`, `ReadsTheSplits`, `EachSampleOnce`, `NeighboursAreCoded`, `UnitsArePredictable`, `PartitionerMatchesItsStack`, `UnitsShareTheirGroupsQp` | Does every permitted way to split a coding tree unit cover it once, in a usable order, in usable blocks? |
| `MCSliceData` | `SlicesComeBack`, `StartsAlike`, `ContextsStayInside`, `NeverAborts` | Does the decoder infer the slices that were asked for, and start every CTU as the encoder did? |
| `MCNalStream` | `NoStartCodeInside`, `KeepsPlace`, `ReadsToTheEnd`, `UnitsComeBack` | Does the reader get back the NAL units and substreams while it looks ahead? |
| `MCCodec` | `EncoderNeverAborts`, `GivesBackTheFrames`, `StsaIsASwitchingPoint`, `EncoderBufferBounded`, `BufferBounded`, `Terminates` | Do all frames that were read come out of the decoder, in order, from the buffers announced? |

`ExactlyTheDecodable` is the property users rely on: at the end the output file
holds exactly the pictures that the standard lets a decoder decode from the
point of random access on and that are meant to be shown, each once; the right
hand side (`Output`) is computed from the stream alone.
`PredictsFromTheRightPictures` is an action property: at the step that builds
the reference lists, every active reference is the picture that its encoder
had under that POC, and finished.  `GivesBackTheFrames` is its counterpart for
streams that the encoder itself writes.

**Streams of the decoder runs** (module `MCDecoder`).  A stream is a first segment (`Starts`), some
middle segments (`Segments`, their number between `MinSegments` and
`MaxSegments`) and a last one (`Ends`); a segment is one to five NAL units that
a conforming encoder could write next: trailing pictures with a picture of a
higher temporal layer that is output first, a jump of
the POC, a hidden picture, a picture of two slices with its own picture header,
SEI and suffix NAL units, CRA pictures with RASL or RADL pictures, IDR and GDR
pictures, and each of IDR, CRA+RASL, CRA+RADL after an EOS.

**Bounds and why they suffice.**

- Decoder: `MaxPocLsb = 16` and `FirstPoc = 6` make the low-order bits wrap within
  two or three segments.  Two middle segments put every kind of segment between every two
  others, which reaches all interactions of one sequence with the next and of
  leading pictures with the pictures before their CRA picture.  `Reorder` and
  `Buffering` are the smallest values with which the streams conform, so that
  bumping happens at the limit.  Up to three pictures are skipped of streams of one
  sequence that end with a CRA picture, to have a point to begin at; these pictures must
  not exceed half a cycle.  The damaged streams use `MaxPocLsb = 32` for the same reason.
- `MCCabac`: sequences of four calls; a context close to one half and one that
  is nearly certain; patterns of equally probable bins that leave up to four
  bytes 0xff waiting and then set off the carry; remainders with the longest
  prefix; words of up to 24 bits.
- `MCCodingTree`: 108 units.  All ways to split a unit of 32 x 32 samples three
  levels deep, inside the picture and where one or two of its borders cut the unit;
  limits of luma and chroma that differ, binary splits only, no such splits;
  units of 64 and 128 for the sizes above that of a transform and for luma and
  chroma walked in turn.  The depth of three reaches a split within each part of a ternary
  split within a binary one, and the smallest luma and chroma blocks of each shape.
- `MCSliceData`: pictures of 3 x 4, 3 x 5 and 4 x 3 CTUs in up to six tiles, of equal sizes and
  not, explicit and inferred, and lists of tiles that reach beyond the picture.  In each,
  all ways to cover the tiles with rectangles and to cut single tiles into slices, in raster order of
  their first tiles and in another order (which needs deltas of the tile index), slices of fixed sizes,
  raster-scan slices, and some divisions that are impossible; all with and without
  wavefronts and entry points: 3352 configurations.  Three columns or rows of tiles are the
  fewest with a slice that is neither in the first nor in the last.
- `MCNalStream`: up to three of seven units (an SPS, SEI, an EOS without payload,
  slices with up to three substreams of a few bytes) with padding words and none or
  two zero bytes between them: an escape falls into the header of a slice, at the
  boundary of substreams, into a substream and at the end.
- `MCParameterSets`: one SPS, one PPS with two contents, two ALF APSs and one LMCS
  APS with two contents each, two slices a picture, two APSs an access unit: a set
  that is sent again, changed and unchanged, before, between and after the slices
  that use it.
- `MCAlfParameters`: two identifiers, so that the ring is overwritten at the
  third set; one CC-ALF component; two temporal layers.
- `MCCodec`: small structures of two layers, three layers and one, with every kind of refresh, input
  files that end within a GOP, up to twelve frames; a small structure over 262 frames, since the
  encoder always writes eight bits of the POC; and the structures that come with
  the program (`cfg/encoder_randomaccess_vtm*.cfg`, `encoder_lowdelay*_vtm.cfg`) over two or more GOPs
  and a refresh.  The decoder decodes all temporal layers or any number of the lower ones.

Every action fires in one of the passing runs.

**Fairness.**  `Decoder` and `Codec` have `WF_vars(Next)`: each program is one
thread that never waits, so it takes a step whenever it can.  `Terminates` and
`Halts` rest on it.  The other specifications state safety only: there the
writer is free to stop at any time.

Runs that TLC must find violated, each against a line of the repository that
says otherwise (quoted under `findings` in `PROJECT.json`):

| Run | The code |
|---|---|
| `FindRaslAps` | a decoder that starts at a CRA picture parses the header of a RASL picture, which it is to skip, and exits when the ALF APS it names came before the CRA picture |
| `FindPocZero` | the encoder does not notice that a reference with POC 0 is missing and ends with an exception |
| `FindEndOfFile` | the input file ends with a GOP before the frames asked for were read; the encoder reads past the end for ever |

**Streams and configurations left out of the passing runs** are legal ones on
which the code does something else; each was met while modelling, and all of these paths are in
the model.  In the decoder:

- an EOS that follows a picture of a dropped temporal layer starts no sequence
  (`DecApp.cpp` 343-362);
- a RASL picture directly before an EOS is not output, although it could be decoded;
- a GDR picture amid a decoded stream suppresses output if the picture before it
  was dropped for its temporal layer;
- the recovery POC of a first GDR picture is computed before the POC is reset
  (`DecLib.cpp` 2996), and unrecovered pictures are written;
- an IDR picture at which decoding starts after skipped pictures is decoded and
  not written (`DecApp.cpp` 304), although the comment at `DecLib.cpp` 4165 speaks of IDR pictures too;
- the only picture after the last EOS is not finished, hence not written
  (`DecApp.cpp` 381);
- a GDR picture that follows an EOS does not flush the sequence before it
  (`DecApp.cpp` 239-258), so that both are mixed in the output;
- a missing reference with POC 0 goes unnoticed (`DecLib.cpp` 3251; the streams start with greater POCs);
- a generated picture becomes the POC anchor (`DecLib.cpp` 1238), which is wrong
  if the next POC is more than half a cycle away from it;
- `-s 1` with a stream that starts with a CRA picture leaves `bPicSkipped` FALSE;
- a lost reference is not replaced by a copy of another picture, as the comment at
  `DecLib.cpp` 3241 says: `xCreateLostPicture` is called with the layer of a picture that
  the slice does not have yet, and the decoder aborts (`LoseReference`);
- an EOS before the first picture dereferences a null pointer;
- a file that ends in a picture header finishes the picture before it twice (`FilterFreed`);
- the decoder takes a buffer before it asks whether there are too many, so it
  needs one more than the SPS announces (`BufferBounded` says so).

In the slice data (the model has these paths; the properties make the exceptions that are named):

- `encodeSlice` keeps `m_prevQP` from one tile of a slice to the next, while `decompressSlice`
  (`DecSlice.cpp` 190) and the search (`EncSlice.cpp` 1814) reset it at each tile and row: QPs of
  single blocks come out differently in slices of several tiles (`DeltaQpsAreUsable`);
- `decompressSlice` resets the palette predictor at the start of a slice (`DecSlice.cpp` 97), the search
  only at the first CTU of a tile, or with wavefronts of a row: they differ in a slice that starts within a tile
  (`PaletteIsUsable`);
- of the lists of slice positions that cannot be (`IsPossible`), some are refused; a last slice
  that is too small is enlarged without a word, and a gap within a tile gives a stream that
  cannot be decoded.  The last slice must be the one at the bottom right;
- without `EntryPointsPresent` no entry points are written for tiles either, although the manual
  (`doc/software-manual.tex` 2939-2944) says that those are always there;
- not among the configurations: `RasterScanSlices` with a single tile, for which
  `pps_rect_slice_flag` is not written, so that the decoder takes the slices for rectangular; and lists of
  positions in which slices of a tile are out of order or the first slice is not at the first tile.

In the encoder:

- the check of the GOP structure looks at list 0 only and ends before the frames
  whose references reach into the GOP before are met again
  (`EncAppCfg.cpp` 5573), so a structure may pass whose list 1 names pictures
  that are not kept; the encoder then makes lists of its own;
- a structure that reorders frames without references to later ones counts as
  low delay and may predict from pictures that are not coded yet; the
  structures of the runs are steady and have none of this;
- a picture may refer to pictures of a higher temporal layer if the structure
  says so, which the manual (`doc/software-manual.tex` 494-496) does not expect;
- `FramesToBeEncoded` 0, by the manual (line 892) all frames, is refused
  (`EncAppCfg.cpp` 5090); `DecodingRefreshType` 0 drops the intra period
  (`EncAppCfg.cpp` 2480).

**Mutants.**  For every property of a passing run, `PROJECT.json` names a
plausible bug (the operator next to the definition it replaces) under which TLC
finds the property violated.

## 4. What is proved

Every theorem holds for every value of the constants that satisfies the named
assumptions of the modules, which TLC evaluates for the instances:
`MaxPocLsbAssumption` (an even positive number; the code uses a power of two),
`DecoderAssumption` (types; the streams are non-empty sequences of NAL units
in which no picture header was lost; they need not conform),
`ParameterSetsAssumption` (natural numbers as identifiers; at least one slice),
`AlfEncoderAssumption` and `AlfParametersAssumption` (types),
`ConfigAssumption` (what `EncAppCfg` and the SPS demand of the limits of splits; a
unit that begins inside the picture),
`CabacAssumption` (each call is one that the program makes, `IsOp`: bins that fit
their number, a remainder within the longest code that its parameters leave; contexts as
`BinProbModel_Std::init` and `setLog2WindowSize` set them up),
`NalStreamAssumption` and `UnitsAssumption` (types: a unit has a known type, a layer and a temporal
layer in the range of their fields, and a payload of whole bytes).

`WritesOnlyShownAlways` has a hypothesis on the streams too, `PicturesAreWhole`:
slices between which no picture header comes agree in type, layer and output flag,
and only whole pictures are missing, not the first of several slices.  TLC checks it
for every stream of `MCDecoder` and `MCDamaged` (`MCStreamsAssumption`).

`PocsAgreeAlways` assumes besides that the POCs can be derived, `PocsAreDerivable`, as an
encoder that conforms makes sure: a POC is less than half a cycle from its anchor, also from
every picture that may be made up in place of a missing one and become the anchor
(`PocsAreNear`); IDR, CRA and GDR pictures and the first picture of a sequence are
anchors (`AnchorsComeFirst`); the slices of a picture have one POC; a picture
header comes between an EOS and the next slice.  TLC checks it for every stream of `MCDecoder`,
and for those of `MCDamaged` before they are damaged (`MCDerivableAssumption`).

| Theorem | Statement |
|---|---|
| `TypeCorrect` | `Spec => []TypeOK` of the decoder |
| `EachPictureOnce` | `Spec => []WritesOnlyPictures`: nothing is written twice, nothing made up, nothing of a higher temporal layer |
| `WritesOnlyShownAlways` | `Spec => []WritesOnlyShown`, if `PicturesAreWhole` of every stream |
| `PocsAgreeAlways` | `Spec => []PocsAgree`, if `PicturesAreWhole` and `PocsAreDerivable` of every stream: wherever decoding begins and whatever is skipped or dropped |
| `DerivedPocExact` | the POC is recovered whenever it lies in the half-open cycle around its anchor |
| `NeverFailsAlways` | `Spec => []NeverFails`: no legal order of parameter sets, slices and ends of sequence makes a check fail |
| `DecodesWithTheSetsInEffectAlways` | `Spec => []DecodesWithTheSetsInEffect` |
| `UsedApssExistAlways` | `Spec => []UsedApssExist`: no APS is deleted while a slice points to it |
| `StreamIsDecodableAlways` | `Spec => []StreamIsDecodable` of the ALF parameter sets |
| `FiltersAsTheEncoderAlways` | `Spec => []FiltersAsTheEncoder`: from the start, from a CRA picture, and without the upper temporal layers |
| `ReadsTheSplitsAlways` | `Spec => []ReadsTheSplits`: the bins of `split_cu_mode` are read back |
| `PartitionerMatchesItsStackAlways` | `Spec => []PartitionerMatchesItsStack` |
| `UnitsShareTheirGroupsQpAlways` | `Spec => UnitsShareTheirGroupsQp`, an action property |
| `UnitsArePredictableAlways` | `Spec => []UnitsArePredictable`: every unit is large enough for the prediction it may have |
| `NeverAbortsAlways` | `Spec => []NeverAborts` of the coding tree: no `CHECK` of the walk fails |
| `EachSampleOnceAlways` | `Spec => []EachSampleOnce`: the walk covers the unit inside the picture, no sample twice |
| `NeighboursAreCodedAlways` | `Spec => []NeighboursAreCoded`: what `predictQP` reads was coded before |
| `ExitsSucceedAlways` | the `CHECK`s of `exitCurrSplit` never fire |
| `RegistersInRangeAlways` | `Spec => []RegistersInRange` of the arithmetic coder |
| `ReadsExactlyTheSubstreamAlways` | `Spec => []ReadsExactlyTheSubstream`: no `CHECK` fails, and the decoder ends where the substream does |
| `BinsComeBackAlways` | `Spec => BinsComeBack`: the coder implements `Transmission` |
| `AllBinsComeBack` | when the substream is read, every call was answered with what was coded |
| `NoStartCodeInsideAlways` | `Spec => []NoStartCodeInside` of the byte stream |
| `KeepsPlaceAlways` | `Spec => []KeepsPlace`: looking ahead does not move the reader |
| `ReadsToTheEndAlways` | `Spec => []ReadsToTheEnd` |
| `UnitsAreReadAsWritten` | the bytes read for a unit are those written for the next unit |
| `PayloadComesBack` | escaping and its inverse, with the header and padding words: the payload comes back byte for byte |

Each rests on an inductive invariant, which TLC checked before it was proved; that of the
arithmetic coder speaks of numbers and histories that are not part of the state, and TLC checks
only the properties it implies.

*Type correctness* is not inductive as it stands.  `TypeOK` says that
`m_iSkipFrame` is at least -1; this needs `SkipCounts`: it is negative only
between a skipped slice and the statement that takes the decrement back.
`NalRead` says that while a NAL unit is being decoded, `nal` is the position
just before `pos`.  `Typed` is the conjunction, and is inductive.

*Each picture once* rests on the invariant `Once`, whose parts are: buffers hold
the first decoded slices of pictures of decoded layers (`BuffersHoldSlices`);
no picture has two buffers (`OneBufferEach`); what was written is such a slice
(`WrittenAreSlices`) and occurs once (`WrittenOnce`); a picture that waits for
output has not been written (`NeededNotWritten`); the current picture, while
unfinished, has not been written either (`CurrentUnfinished`), which is what
makes it safe for `finishPicture` to set `neededForOutput`; and the slice being
decoded is new to all of these (`SliceDecoded`).  The crux is that the decoder
destroys the temporary buffers of a picture when it finishes it, so that no
picture is finished twice, whatever comes next.  The lemmas at the head of `DecoderProof`
say what each list operation preserves (`SortOrderSpec`: that sorting permutes the
list and orders it by POC).

*Only what is to be shown* rests on the invariant `Shown`.  `finishPicture` sets
`neededForOutput` of the current picture from a flag of the slice header that was
parsed last, which may belong to a slice that was skipped since.  `FlagOfCurrent`
says when that flag speaks of the current picture; it needs `InsidePicture` (no
picture header came since the slice that is current) and `UnitEnds` (what a round of
the main loop leaves behind a picture), and `Counts` and `CountedAtCra`: a
skipped slice is noticed by `DecApp` only through `m_iSkipFrame`, so `HasPicture` is
false after one because the counts differ, while a dropped one sets `picSkipped`.
`NeededAreShown` carries the result to the buffers that wait.

*Exactness of the POC* is arithmetic on residues: the distance of two numbers
that lie within half a cycle decides which of three cycles is meant.

*POCs of a sequence.*  The decoder does not find the encoder's POCs: where it begins,
at an IDR, CRA or GDR picture, it keeps only the low-order bits.  `HasOrigin` says that
there is a number, a multiple of a cycle, by which all POCs of the sequence in its buffers, that of
the slice at hand and the anchor exceed those of the encoder (`CountsFrom`).  `AnchorsFrom` states
of the anchor what the derivation needs: each slice up to the next anchor lies within half
a cycle of it.  The number may only change where no buffer holds a picture of the
sequence; `StartsAfterEos` shows it for the picture where decoding begins, `IdrCountsFrom` that the
further slices of an IDR picture find the number of its first.  Pictures are made up with
POCs next to that of the slice that needs them, and only where decoding begins (`GeneratesAtStart`).
The rest serves slices that continue a picture, whose POC is set again: `CurrentIsLast`,
`CurrentIsHeld` (its buffer is not deleted before it is finished) and `WaitsAfterEos` (after an EOS
no slice of an earlier picture is taken for one of the current picture).  `Derived` is the conjunction, and is
inductive together with `Typed`, `Once`, `UnitEnds` and `InsidePicture`.

*Parameter sets.*  The heart of `IInv` in `ParameterSetsProof` is `SetsInv`: the
maps of the decoder hold the sets in effect, and they *would* hold the
`upcoming` ones once the suffix APSs that wait were decoded.  `FlagsInv` ties the
flags of `DecLib` to the phase of the picture unit, `OrderInv` and `SuffixInv`
say what was noted of the unit's NAL units, `StreamInv` what legality
leaves of the stream, and `SlicesInv` that the sets the slices point to are still in the
maps, with their changed flags down.  A skipped picture is the difficult
case: its sets are stored, but nothing is activated and nothing noted.  The loop over
the suffix APSs is a recursive function; what all its rounds preserve is proved by induction
over the rounds.

*ALF parameter sets.*  In `AlfParametersProof`, `IInv` says that the encoder has sent every set it
holds (`AllSent`), that the decoder is between two pictures (`Idle`), and that it `Agrees`
with the encoder on every set of its temporal layers once it is `InStep`: started, or at a CRA
picture behind which no RASL picture can refer to a set from before it.  A
decoder may only fail while it skips RASL pictures of an encoder that does not reset its sets at
CRA pictures, as `StreamIsDecodable` says.

*Coding tree.*  `PartOK` in `CodingTreeProof` says of a partitioner that its
stack is well formed (`StackOK`: each level `Fits` on the one below: it is a part of its split,
halves or quarters it, and may begin a quantisation group only if that one may) and that the
counters match the stack (`MatchesItsStack`, the property).  `LengthInv` relates the
height of the stack to that of `calls`, the activations of `coding_tree`; where
luma and chroma are walked in turn, that of the other partitioner too.  `GroupInv` says that
the QP of the group in progress was predicted where it begins.  Counting levels of a
kind on the stack and adding up their depths needs lemmas on cardinalities and
sums, by induction over the stack (`SumOverAppend`, `LevelsOfAppend`).  *Reading back the splits* needs no
induction: it is shown for every set of permitted splits.

*Predictable units* rest on a second invariant, `ShapeInv`.  Every part of every level of a stack,
not only the current one, has the sizes that the mode type in force for that level demands
(`AreaOK`): chroma of at least 16 samples in rows of at least 4 while both kinds of
prediction are open, more than 4 x 4 samples where all units are inter.  The mode
type of a level is not stored in it; it is in the call that waits above it (`ModeAt`,
`Led`), from where `exitCurrSplit` restores it.  A block that crosses the border is aligned to its
size and larger than 8 (`PlaceOK`), which is why the splits that the border forces, for
which `canSplit` looks at no size, never come to a small block; and the splits that are permitted
satisfy `PartsFit`, by the limits in `CanBt`, `CanTt`, `CanQt` and the modes in `ModeTypes` together.

*The cover of a unit* (`CodingTreeWalk`) rests on a third invariant, `WalkInv`.

- `PlacesInv`: where parts lie.  The parts of a level do not overlap and come in an order in which
  what is to the left or above comes first (`InOrder`); all lie in the current part of every level
  below (`Above`) and are aligned to the smallest blocks.  It also keeps that a block which crosses the border
  behind a binary split is small enough for another one (`SmallForBt`): the reason why the
  implicit split never falls back on a quadtree split below a binary one.
- `TurnsInv`: where luma and chroma are walked in turn, which of the four quarters each is in; `LumaOnlyInv`:
  the walk is inside at most one block whose chroma is not split along, and it is when all units are intra.
- `CoverInv`: what is `coded` is all of the unit that lies in the picture, except the parts that
  come later on any level of the stack (`Due`), and except the current one before it is coded.  Each
  channel has its own: a chroma unit that waits for its luma units is due until the last of them.

A split refines what is due (`SubAreas` tiles a block, `SubAreasForm`); a unit takes
its own area away; leaving a split changes nothing, since its parts are all behind it.  When the
stacks are back at the unit, nothing is due: the cover is complete.  A sample of the
current part is due, so it was not coded; one to the left or above of it in the unit is not, for then its part
would come later in order.  `NeverAborts` needs these too: after the last quarter both
partitioners leave together, and when a chroma unit is reached the luma unit at its centre
is `coded`.

*The arithmetic coder.*  The argument is that of the textbook, carried out for the registers,
bytes and carries of the code, and for all numbers of calls.  An `Interval` has a lower end
`low` of `n` bits, a `range` of 256 to 510 and the contexts; each call leaves one inside of the
one it found (`Follows`, `FollowsInside`), and a `History` is the sequence of these.

- *Encoder* (`CabacProof`, first half).  `EncodedAs`: the bytes written, those that wait for a carry (a
  byte and any number of 0xff) and the register, as digits of one number, are the lower end of the
  last interval.  The crux is `Flush`: `writeOut` keeps this whether it adds one to the bytes that
  wait or lets them go with or without a carry, and the last two
  conjuncts of `EncodedAs` bound the register so that the waiting bytes can take every carry.  Then `finish` and the trailing bits write a number that this
  interval holds, `EndingOf`.
- *Decoder* (`CabacProof`).  `DecoderAt`: the value is how far the bytes read so far lie above
  the lower end of the interval of the calls answered so far (`Reads`), at least as many bits as
  the interval has and 7 more.  As the last interval holds the number written and is a part of all
  those before, the value is below the range, and each comparison of the decoder can only
  come out as the encoder's did.
- *Calls of several bins* (`Chunks`, `ReadPrefix`, `ReadBins`).  Both sides divide them
  differently, the encoder into chunks of eight, the decoder by what it can take from the value at
  once, and a remainder's prefix bin by bin; `BinsPath` and `PartAt` relate these to the interval
  of the whole call.

`CabacInv` is the conjunction: while encoding, there is a history of the calls coded that the registers
encode; while decoding, there is a history that the bytes stand for, and the decoder has arrived
at the interval after the calls it answered.  It is stronger than every property it gives:
`RegistersInRange` alone is not inductive, since the decoder's value is below its range only
because the bytes that come are those of the encoder.

*The byte stream.*  In `NalStreamProof`, `FileInv` frames the units in the file: each has zero bytes
and a start code in front, no start code or three zero bytes inside and no zero byte at its end
(`Framed`), by an induction over the bytes that `Protected` escapes.  `ReaderInv` says that the
reader stands in front of a start code or behind the last unit whenever it is not reading,
and that all of `byteStreamNALUnit`, the looking ahead and the seeking back lead from one such place to
another.  `FileHolds` adds that the bytes in a frame are those of the unit sent, which gives
`UnitsAreReadAsWritten`.  `PayloadComesBack` is the round trip of one unit: un-escaping follows the
escaped bytes with the same count of zeros, so the inserted bytes, and only those, go.
`UnitsComeBack` itself stays model-checked: the header and the entry points are read bit by
bit in recursive functions of `BitStream`, and only their bytes are proved to come back.

*Induction.*  The library's induction theorems have predicates as parameters, which
the provers cannot instantiate.  `Arithmetic` derives from the well-foundedness of the strict
subset ordering (`FiniteSetTheorems`) that a set of natural numbers with 0 and
all successors is `Nat`; a proof by induction defines the set of numbers for which its claim holds.

Only model-checked: the liveness properties (out of the prover's reach); the
other properties of the decoder that hold for conforming streams only (`NeverAborts`,
`ExactlyTheDecodable`, `BufferBounded`, `PredictsFromTheRightPictures`: the references and reorder limits
of a conforming stream would have to be assumptions on streams as well) and the refinement of `OutputProcess`, which for
arbitrary streams is false; `UnitsComeBack`; the slices, whose modules use RECURSIVE
operators; and the encoder.

## 5. What is not modelled

In the components that are modelled:

- decoder: more than one layer, field pictures, mixed NAL unit types and
  subpictures, long-term and inter-layer references, `ph_poc_msb_cycle_val`, OPI
  and VPS changing the target layers, SEI, the `CHECK`s of bitstream conformance
  other than those named above, and a lost picture header;
- parameter sets: VPS and DCI, scaling list APSs (handled like those of LMCS), more than one layer, the
  interplay with skipped temporal layers; `m_lastActiveParameterSet` is
  tracked only while slices point to sets;
- ALF parameter sets: the rewriting of sets for GDR, several layers, the choice
  of filters;
- coding tree: chroma formats other than 4:2:0, slices without `cu_qp_delta`,
  groups of chroma QP offsets (numbered like those of the QP), splits of transform
  units, contexts; the lists of coding units are not put together, the rounds
  of the joint walk for blocks above 64 that a single split always ends, and the `CHECK` that
  luma and chroma end it together (both have four parts), are left out;
- slice data: subpictures, `pps_single_slice_per_subpic_flag`, pictures with
  `pps_no_pic_partition_flag` set, the limits of levels, the order of the CTUs in the loop filters;
- coding engine: words of more than 24 bits, the decision how many
  `cabac_zero_words` are needed, the estimation of bits (`BitEstimator`);
- encoder: fields, composite and long-term references, GDR, DRAP and EDRAP,
  layers, resolution changes, GOPs of one frame, `EfficientFieldIRAPEnabled` = 0,
  temporal subsampling.

The other components are not modelled yet, or are numeric; `PROJECT.json` says
which.

## 6. Plan

Done: `PicOrderCnt`, `PicList`, `Decoder`, `OutputProcess` and their theorems;
parameter sets and ALF parameter sets and their theorems; bit streams, the arithmetic coder (with the proof
that it gives back what was coded) and the byte stream (with the proof that its units are framed
and read as written) against `Transmission`; tiles, slices and their data; the coding tree, all of
whose properties are theorems; the encoder's coding order and its composition with the decoder.

Left, in this order:

1. Theorems: that `FilledUp` makes up the total it is given and `IsCover` what it says of the slices (in a
   module apart from the recursive operators of `PictureSlices`); that the header and the entry points of a unit are read
   back from its bytes (`UnitsComeBack`); the bound of the encoder's buffers.
2. `PocChain`: the encoder's anchors as a state machine over pictures that may be
   dropped by temporal layer, so that the streams which satisfy `PocsAreDerivable` (the
   hypothesis of `PocsAgreeAlways`) are shown to include every stream the encoder writes.
3. `AccessUnits`: the detection of access units and the lists of NAL units that
   are checked and reset at their boundaries.
4. `RateBudget` (bit budgets of `RateCtrl` as counters), `Hmvp` (history list of
   motion vectors), `CacheModel`, `TrellisStates` of dependent quantisation,
   `SignedContent` (substream manager), `SparsityLog` (`CDSATMStats.h`).
5. `Parcat` and `StreamMerge`, composed with the POC derivation.
6. Theorems about pictures: the marking of references keeps every picture that
   a later picture names; a picture is never overwritten while it waits for
   output; `OutputProcess` as a step refinement for streams that conform.
