----------------------------- MODULE DecoderProof -----------------------------
(***************************************************************************)
(* Theorems about the decoder application, for every stream of NAL units   *)
(* that has lost no picture header, and every value of the other           *)
(* constants.  The last two assume more of the streams: that only whole    *)
(* pictures are missing, and that the POCs can be derived.                 *)
(***************************************************************************)
EXTENDS DecoderProperties, FiniteSetTheorems, TLAPS

Numbers == INSTANCE Arithmetic

-----------------------------------------------------------------------------
(* What the operators on the list of picture buffers preserve. *)

\* A function on the places of a list with buffers as values is a list.
LEMMA ListType ==
  ASSUME NEW list \in Seq(Buffer), NEW f \in [DOMAIN list -> Buffer]
  PROVE  f \in Seq(Buffer) /\ DOMAIN f = DOMAIN list
  OBVIOUS

\* Replacing one buffer by another keeps the list a list of buffers.
LEMMA ExceptType ==
  ASSUME NEW list \in Seq(Buffer), NEW k, NEW buf,
         k \in DOMAIN list => buf \in Buffer
  PROVE  /\ [list EXCEPT ![k] = buf] \in Seq(Buffer)
         /\ DOMAIN [list EXCEPT ![k] = buf] = DOMAIN list
         /\ \A i \in DOMAIN list :
              [list EXCEPT ![k] = buf][i] = IF i = k THEN buf ELSE list[i]
<1>1. \A i \in DOMAIN list : list[i] \in Buffer
  OBVIOUS
<1>2. list = [i \in DOMAIN list |-> list[i]]
  OBVIOUS
<1>3. [list EXCEPT ![k] = buf] = [i \in DOMAIN list |-> IF i = k THEN buf ELSE list[i]]
  BY <1>2
<1>4. [list EXCEPT ![k] = buf] \in [DOMAIN list -> Buffer]
  BY <1>1, <1>3
<1> QED
  BY <1>3, <1>4, ListType

\* Storing a buffer puts it at one place and leaves every other place alone.
LEMMA StoreSpec ==
  ASSUME NEW list \in Seq(Buffer), NEW buf \in Buffer
  PROVE  /\ Store(list, buf) \in Seq(Buffer)
         /\ \E k : \A i \in DOMAIN Store(list, buf) :
              IF i = k THEN Store(list, buf)[i] = buf
              ELSE i \in DOMAIN list /\ Store(list, buf)[i] = list[i]
<1> DEFINE free == {i \in DOMAIN list : IsFree(list[i])}
           first == CHOOSE i \in free : \A j \in free : i <= j
<1>1. CASE free = {}
  <2>1. Store(list, buf) = Append(list, buf)
    BY <1>1 DEF Store
  <2>2. Append(list, buf) \in Seq(Buffer)
    OBVIOUS
  <2>3. \A i \in DOMAIN Append(list, buf) :
          IF i = Len(list) + 1 THEN Append(list, buf)[i] = buf
          ELSE i \in DOMAIN list /\ Append(list, buf)[i] = list[i]
    OBVIOUS
  <2> QED
    BY <2>1, <2>2, <2>3
<1>2. CASE free # {}
  <2>1. Store(list, buf) = [list EXCEPT ![first] = buf]
    BY <1>2 DEF Store
  <2> HIDE DEF first
  <2>2. \A i \in DOMAIN Store(list, buf) :
          IF i = first THEN Store(list, buf)[i] = buf
          ELSE i \in DOMAIN list /\ Store(list, buf)[i] = list[i]
    BY <2>1, ExceptType
  <2>3. Store(list, buf) \in Seq(Buffer)
    BY <2>1, ExceptType
  <2> QED
    BY <2>2, <2>3
<1> QED
  BY <1>1, <1>2

\* The marking of references changes nothing but the mark.
LEMMA MarkedSpec ==
  ASSUME NEW list \in Seq(Buffer), NEW poc, NEW rpl, NEW idr \in BOOLEAN
  PROVE  /\ Marked(list, poc, rpl, idr) \in Seq(Buffer)
         /\ DOMAIN Marked(list, poc, rpl, idr) = DOMAIN list
         /\ \A i \in DOMAIN list :
              /\ Marked(list, poc, rpl, idr)[i].pic = list[i].pic
              /\ Marked(list, poc, rpl, idr)[i].poc = list[i].poc
              /\ Marked(list, poc, rpl, idr)[i].neededForOutput = list[i].neededForOutput
<1> DEFINE m == Marked(list, poc, rpl, idr)
<1>1. m = [i \in DOMAIN list |->
            [list[i] EXCEPT !.referenced =
              list[i].referenced /\ (idr \/ list[i].poc = poc \/ list[i].poc - poc \in rpl)]]
  BY DEF Marked
<1>2. \A i \in DOMAIN list : list[i] \in Buffer
  OBVIOUS
<1>3. \A i \in DOMAIN list :
        /\ m[i] \in Buffer
        /\ m[i].pic = list[i].pic /\ m[i].poc = list[i].poc
        /\ m[i].neededForOutput = list[i].neededForOutput
  <2> SUFFICES ASSUME NEW i \in DOMAIN list
               PROVE  /\ m[i] \in Buffer
                      /\ m[i].pic = list[i].pic /\ m[i].poc = list[i].poc
                      /\ m[i].neededForOutput = list[i].neededForOutput
    OBVIOUS
  <2> DEFINE keep == list[i].referenced /\ (idr \/ list[i].poc = poc \/ list[i].poc - poc \in rpl)
  <2>1. m[i] = [list[i] EXCEPT !.referenced = keep]
    BY <1>1
  <2>2. keep \in BOOLEAN
    OBVIOUS
  <2> HIDE DEF m, keep
  <2> QED
    BY <1>2, <2>1, <2>2 DEF Buffer
<1>4. m \in [DOMAIN list -> Buffer]
  BY <1>1, <1>3
<1> QED
  BY <1>3, <1>4, ListType

\* Giving up output changes nothing but what is needed for output.
LEMMA WithoutOutputSpec ==
  ASSUME NEW list \in Seq(Buffer), NEW poc \in Int,
         NEW l \in {WithoutOutput(list), WithoutPriorOutput(list, poc)}
  PROVE  /\ l \in Seq(Buffer)
         /\ DOMAIN l = DOMAIN list
         /\ \A i \in DOMAIN list :
              /\ l[i].pic = list[i].pic /\ l[i].poc = list[i].poc
              /\ l[i].neededForOutput => list[i].neededForOutput
<1>1. \A i \in DOMAIN list : list[i] \in Buffer
  OBVIOUS
<1>2. CASE l = WithoutOutput(list)
  <2>1. l = [i \in DOMAIN list |-> [list[i] EXCEPT !.neededForOutput = FALSE]]
    BY <1>2 DEF WithoutOutput
  <2>2. l \in [DOMAIN list -> Buffer]
    BY <1>1, <2>1 DEF Buffer
  <2> QED
    BY <1>1, <2>1, <2>2, ListType DEF Buffer
<1>3. CASE l = WithoutPriorOutput(list, poc)
  <2>1. l = [i \in DOMAIN list |-> [list[i] EXCEPT !.neededForOutput =
                                      list[i].neededForOutput /\ list[i].poc = poc]]
    BY <1>3 DEF WithoutPriorOutput
  <2>2. l \in [DOMAIN list -> Buffer]
    BY <1>1, <2>1 DEF Buffer
  <2> QED
    BY <1>1, <2>1, <2>2, ListType DEF Buffer
<1> QED
  BY <1>2, <1>3

\* A picture that was written is no longer needed for output.
LEMMA WrittenSpec ==
  ASSUME NEW buf \in Buffer
  PROVE  /\ Written(buf) \in Buffer
         /\ Written(buf).pic = buf.pic /\ Written(buf).poc = buf.poc
         /\ ~Written(buf).neededForOutput
  BY DEF Written, Buffer

\* Sorting moves every buffer to a place of its own, in the order of the POCs.
LEMMA SortOrderSpec ==
  ASSUME NEW list \in Seq(Buffer)
  PROVE  /\ SortOrder(list) \in [DOMAIN list -> DOMAIN list]
         /\ \A m, n \in DOMAIN list :
              m < n => Precedes(list, SortOrder(list)[m], SortOrder(list)[n])
<1> DEFINE D == DOMAIN list
           C(i) == Cardinality(Predecessors(list, i))
           place == [i \in D |-> C(i) + 1]
<1>1. /\ D = 1 .. Len(list) /\ Len(list) \in Nat
      /\ IsFiniteSet(D) /\ Cardinality(D) = Len(list)
  <2>1. D = 1 .. Len(list) /\ Len(list) \in Nat
    OBVIOUS
  <2> HIDE DEF D
  <2>2. IsFiniteSet(1 .. Len(list)) /\ Cardinality(1 .. Len(list)) = Len(list)
    BY <2>1, FS_Interval
  <2> QED
    BY <2>1, <2>2
<1>2. \A i \in D : list[i].poc \in Int /\ i \in Int
  <2>1. \A i \in D : list[i] \in Buffer
    OBVIOUS
  <2> QED
    BY <1>1, <2>1 DEF Buffer
<1>3. \A i, j \in D : i # j => Precedes(list, i, j) \/ Precedes(list, j, i)
  BY <1>2 DEF Precedes
<1>4. \A i \in D : i \notin Predecessors(list, i) /\ Predecessors(list, i) \subseteq D
  BY <1>2 DEF Precedes, Predecessors
<1>5. \A i \in D : IsFiniteSet(Predecessors(list, i)) /\ C(i) \in Nat
  BY <1>1, <1>4, FS_Subset, FS_CardinalityType
<1>6. \A i, j \in D : Precedes(list, i, j) => C(i) < C(j)
  <2> SUFFICES ASSUME NEW i \in D, NEW j \in D, Precedes(list, i, j)
               PROVE  C(i) < C(j)
    OBVIOUS
  <2>1. Predecessors(list, i) \subseteq Predecessors(list, j)
    BY <1>2 DEF Precedes, Predecessors
  <2>2. i \in Predecessors(list, j)
    BY DEF Predecessors
  <2>3. Predecessors(list, i) # Predecessors(list, j)
    BY <1>4, <2>2
  <2> QED
    BY <1>5, <2>1, <2>3, FS_Subset
<1>7. place \in [D -> D]
  <2> SUFFICES ASSUME NEW i \in D PROVE C(i) + 1 \in D
    OBVIOUS
  <2>1. C(i) < Cardinality(D)
    <3>1. Predecessors(list, i) # D
      BY <1>4
    <3> HIDE DEF D
    <3> QED
      BY <1>1, <1>4, <1>5, <3>1, FS_Subset
  <2> QED
    BY <1>1, <1>5, <2>1
<1> HIDE DEF C
<1>8. \A i, j \in D : i # j => place[i] # place[j]
  BY <1>3, <1>5, <1>6
<1> HIDE DEF D
<1>9. place \in Injection(D, D)
  BY <1>7, <1>8 DEF Injection, IsInjective
<1>10. place \in Surjection(D, D)
  BY <1>1, <1>9, FS_Injection
<1>11. \A n \in D : \E i \in D : place[i] = n
  BY <1>10 DEF Surjection
<1>12. \A n \in D : \E i \in D : C(i) = n - 1
  BY <1>5, <1>11
<1>13. \A n \in D : SortOrder(list)[n] \in D /\ C(SortOrder(list)[n]) = n - 1
  BY <1>12 DEF SortOrder, D, C
<1>14. SortOrder(list) \in [D -> D]
  BY <1>13 DEF SortOrder, D
<1>15. ASSUME NEW m \in D, NEW n \in D, m < n
       PROVE  Precedes(list, SortOrder(list)[m], SortOrder(list)[n])
  <2>1. C(SortOrder(list)[m]) < C(SortOrder(list)[n])
    BY <1>1, <1>13, <1>15
  <2>2. ~Precedes(list, SortOrder(list)[n], SortOrder(list)[m])
    BY <1>5, <1>6, <1>13, <2>1
  <2>3. SortOrder(list)[m] # SortOrder(list)[n]
    BY <1>5, <1>13, <2>1
  <2> QED
    BY <1>3, <1>13, <2>2, <2>3
<1> QED
  BY <1>14, <1>15 DEF D

-----------------------------------------------------------------------------
(* Type correctness. *)

\* The count of the frames to be skipped is negative only until DecApp has
\* taken the decrement of a skipped slice back.
SkipCounts ==
  /\ app.skipFrameCounter \in 0 .. options.skipFrame
  /\ pc # "returned" => app.skipFrame >= 0

\* While a NAL unit is decoded, it is the last one that was read.
NalRead ==
  pc \in {"flush", "decode", "access", "refs", "returned", "read"} =>
    nal \in DOMAIN stream /\ nal = pos - 1

Typed == TypeOK /\ SkipCounts /\ NalRead

LEMMA PocLsbType ==
  ASSUME NEW poc \in Int
  PROVE  PocLsb(poc) \in 0 .. MaxPocLsb - 1
BY MaxPocLsbAssumption DEF PocLsb

LEMMA DerivedPocType ==
  ASSUME NEW lsb \in Int, NEW poc \in Int
  PROVE  DerivedPoc(lsb, poc) \in Int
<1>1. PocLsb(poc) \in Int /\ PocMsb(poc) \in Int
  BY PocLsbType, MaxPocLsbAssumption DEF PocMsb
<1> QED
  BY <1>1, MaxPocLsbAssumption DEF DerivedPoc

LEMMA SlicePocType ==
  ASSUME dec \in Dec, NEW n \in NalUnit
  PROVE  SlicePoc(n) \in Int
<1>1. PocLsb(n.poc) \in Int /\ dec.prevTid0POC \in Int
  BY PocLsbType, MaxPocLsbAssumption DEF NalUnit, Dec
<1> QED
  BY <1>1, DerivedPocType DEF SlicePoc, IdrPoc

LEMMA TypedInit == Init => Typed
<1> SUFFICES ASSUME Init PROVE Typed
  OBVIOUS
<1>1. stream \in Seq(NalUnit) /\ stream # <<>>
  BY DecoderAssumption DEF Init
<1> Ready
  BY DEF Init
<1>2. options.skipFrame \in Nat /\ app.skipFrame = options.skipFrame
  <2>1. options.skipFrame \in Nat
    BY DecoderAssumption DEF Init, Options
  <2>2. app.skipFrame = options.skipFrame
    BY DEF Ready
  <2> QED
    BY <2>1, <2>2
<1>3. app \in App /\ dec \in Dec
  <2>1. MAX_INT \in Int /\ -MAX_INT \in Int
    BY DecoderAssumption
  <2>2. app \in App
    BY <1>2, <2>1 DEF Ready, App
  <2>3. dec \in Dec
    BY <2>1 DEF Ready, Dec
  <2> QED
    BY <2>2, <2>3
<1>4. listPic \in Seq(Buffer) /\ written \in Seq(Nat)
  BY DEF Ready
<1>5. options \in Options
  BY DEF Init
<1>6. pc = "loop" /\ pos = 1 /\ nal = 0 /\ newPicture \in BOOLEAN
  BY DEF Ready
<1>7. app.skipFrameCounter = 0
  BY DEF Ready
<1>8. pos \in 1 .. Len(stream) + 1 /\ nal \in 0 .. Len(stream)
  BY <1>1, <1>6
<1>9. TypeOK
  <2>1. app.skipFrame \in -1 .. options.skipFrame
    BY <1>2
  <2> QED
    BY <1>1, <1>3, <1>4, <1>5, <1>6, <1>8, <2>1 DEF TypeOK, Points
<1>10. SkipCounts
  BY <1>2, <1>7 DEF SkipCounts
<1>11. NalRead
  BY <1>6 DEF NalRead
<1> QED
  BY <1>9, <1>10, <1>11 DEF Typed

LEMMA SkipFrameType ==
  ASSUME Typed
  PROVE  /\ options.skipFrame \in Nat
         /\ app.skipFrame \in -1 .. options.skipFrame
         /\ pc # "returned" => app.skipFrame \in 0 .. options.skipFrame
<1>1. options.skipFrame \in Nat
  BY DecoderAssumption DEF Typed, TypeOK, Options
<1> QED
  BY <1>1 DEF Typed, TypeOK, SkipCounts

\* What a step has to show to preserve the types.
LEMMA TypedStep ==
  ASSUME Typed, UNCHANGED <<stream, options>>,
         pc' \in Points, newPicture' \in BOOLEAN,
         pos' \in 1 .. Len(stream) + 1, nal' \in 0 .. Len(stream),
         NalRead',
         app' \in App, SkipCounts', app'.skipFrame \in -1 .. options.skipFrame,
         dec' \in Dec, listPic' \in Seq(Buffer), written' \in Seq(Nat)
  PROVE  Typed'
BY DEF Typed, TypeOK

\* The steps that read no NAL unit and leave the count of skipped frames alone.
LEMMA TypedQuietStep ==
  ASSUME Typed, UNCHANGED <<stream, options, pos, nal, newPicture>>,
         pc' \in Points, pc # "returned",
         pc' \in {"flush", "decode", "access", "refs", "returned", "read"} =>
           pc \in {"flush", "decode", "access", "refs", "returned", "read"},
         app' \in App, app'.skipFrame = app.skipFrame,
         app'.skipFrameCounter = app.skipFrameCounter,
         dec' \in Dec, listPic' \in Seq(Buffer), written' \in Seq(Nat)
  PROVE  Typed'
<1>1. NalRead'
  BY DEF Typed, NalRead
<1>2. SkipCounts' /\ app'.skipFrame \in -1 .. options.skipFrame
  BY DEF Typed, TypeOK, SkipCounts
<1> QED
  BY <1>1, <1>2, TypedStep DEF Typed, TypeOK

\* Reading and dropping NAL units.
LEMMA TypedReading ==
  ASSUME Typed, NewPicture \/ ReadNal \/ Drop \/ DecodeNonVcl
  PROVE  Typed'
<1> USE DEF Typed, TypeOK, Points
<1>1. CASE NewPicture
  BY <1>1 DEF NewPicture, SkipCounts, NalRead
<1>2. CASE ReadNal
  <2>1. pos \in DOMAIN stream
    BY <1>2 DEF ReadNal, AtEof
  <2>2. /\ UNCHANGED <<stream, options, dec, listPic, written>>
        /\ pc' \in {"flush", "decode"} /\ newPicture' \in BOOLEAN
        /\ nal' = pos /\ pos' = pos + 1
    BY <1>2 DEF ReadNal
  <2>3. app' \in App
    BY <1>2 DEF ReadNal, App
  <2>4. UNCHANGED <<app.skipFrame, app.skipFrameCounter>>
    BY <1>2 DEF ReadNal, App
  <2>5. pos' \in 1 .. Len(stream) + 1 /\ nal' \in 0 .. Len(stream) /\ NalRead'
    BY <2>1, <2>2 DEF NalRead
  <2>6. SkipCounts'
    BY <1>2, <2>2, <2>4 DEF SkipCounts, ReadNal
  <2> QED
    BY <2>2, <2>3, <2>4, <2>5, <2>6, TypedStep
<1>3. CASE Drop
  <2>1. app' \in App /\ UNCHANGED <<app.skipFrame, app.skipFrameCounter>>
    BY <1>3 DEF Drop, App
  <2>2. dec' \in Dec
    BY <1>3 DEF Drop, Dec
  <2> QED
    BY <1>3, <2>1, <2>2, TypedQuietStep DEF Drop
<1>4. CASE DecodeNonVcl
  <2>1. dec' \in Dec
    <3>1. MAX_INT \in Int /\ -MAX_INT \in Int
      BY DecoderAssumption
    <3> QED
      BY <1>4, <3>1 DEF DecodeNonVcl, AfterEos, Dec
  <2> QED
    BY <1>4, <2>1, TypedQuietStep DEF DecodeNonVcl
<1> QED
  BY <1>1, <1>2, <1>3, <1>4

\* Decoding a slice as far as the pictures it predicts from.
LEMMA TypedSlice ==
  ASSUME Typed, DecodeHeader \/ SkipSlice \/ AccessSlice
  PROVE  Typed'
<1> USE DEF Typed, TypeOK, Points
<1>1. CASE DecodeHeader
  <2> DEFINE parsed == SlicePoc(stream[nal])
  <2>1. nal \in DOMAIN stream
    BY <1>1 DEF DecodeHeader, NalRead
  <2>2. stream[nal] \in NalUnit
    BY <2>1
  <2>3. parsed \in Int
    BY <2>2, SlicePocType
  <2> HIDE DEF parsed
  <2>12. PocLsb(parsed) \in Int
    BY <2>3, PocLsbType
  <2>4. /\ stream[nal].noPrior \in BOOLEAN /\ stream[nal].output \in BOOLEAN
        /\ stream[nal].recovery \in Nat
    BY <2>2 DEF NalUnit
  <2>5. parsed + stream[nal].recovery \in Int
    BY <2>3, <2>4
  <2>6. dec' \in Dec
    <3> DEFINE n        == stream[nal]
               lastFlag == IF Nut \in {"CRA", "GDR"} THEN StartsDecoding
                           ELSE dec.lastNoOutputBeforeRecovery
               flag     == IF IsRecoveryPoint THEN StartsDecoding
                           ELSE dec.noOutputBeforeRecovery
               noPrior  == IF IsRecoveryPoint THEN n.noPrior
                           ELSE dec.isNoOutputPriorPics
               discard  == /\ dec.firstSliceInPicture /\ parsed # dec.prevPOC
                           /\ IsRecoveryPoint /\ flag /\ noPrior
               reset    == Nut \in {"CRA", "GDR"} /\ lastFlag
               poc      == IF reset THEN PocLsb(parsed) ELSE parsed
               recovery == IF Nut = "GDR" /\ dec.prevGDRPOC = -MAX_INT
                             THEN parsed + n.recovery ELSE dec.prevGDRRecoveryPOC
               lastPoc  == IF reset THEN poc
                           ELSE IF IsRecoveryPoint /\ n.noPrior THEN parsed
                           ELSE dec.lastPOCNoOutputPriorPics
               output   == n.output /\ ~(Nut = "RASL" /\ lastFlag)
               anchor   == IF IsAnchor(n) THEN poc ELSE dec.prevTid0POC
               keeps    == noPrior /\ ~discard
               d        == [dec EXCEPT
                              !.poc = poc,
                              !.prevTid0POC = anchor,
                              !.prevGDRRecoveryPOC = recovery,
                              !.noOutputBeforeRecovery = flag,
                              !.lastNoOutputBeforeRecovery = lastFlag,
                              !.isNoOutputPriorPics = keeps,
                              !.lastPOCNoOutputPriorPics = lastPoc,
                              !.picOutputFlag = output]
    <3>1. dec' = d
      BY <1>1 DEF DecodeHeader, parsed
    <3>2. flag \in BOOLEAN /\ lastFlag \in BOOLEAN
      BY DEF Dec, StartsDecoding
    <3>3. keeps \in BOOLEAN /\ output \in BOOLEAN
      OBVIOUS
    <3>4. poc \in Int /\ anchor \in Int
      BY <2>3, <2>12 DEF Dec
    <3>5. recovery \in Int /\ lastPoc \in Int
      BY <2>3, <2>5, <3>4 DEF Dec
    <3> HIDE DEF n, lastFlag, flag, noPrior, discard, reset, poc, recovery,
                 lastPoc, output, anchor, keeps
    <3>6. dec \in Dec
      OBVIOUS
    <3>7. d \in Dec
      BY <3>2, <3>3, <3>4, <3>5, <3>6 DEF Dec
    <3> HIDE DEF d
    <3> QED
      BY <3>1, <3>7
  <2>7. listPic' \in Seq(Buffer)
    BY <1>1, <2>3, WithoutOutputSpec DEF DecodeHeader, parsed
  <2>8. app' \in App
    BY <1>1 DEF DecodeHeader, App
  <2>9. app'.skipFrame = app.skipFrame /\ app'.skipFrameCounter = app.skipFrame
    BY <1>1 DEF DecodeHeader, App
  <2>10. SkipCounts'
    BY <1>1, <2>9 DEF SkipCounts, DecodeHeader
  <2>11. NalRead'
    BY <1>1 DEF NalRead, DecodeHeader
  <2> QED
    BY <1>1, <2>6, <2>7, <2>8, <2>9, <2>10, <2>11, TypedStep DEF DecodeHeader
<1>2. ASSUME pc = "access"
      PROVE  FramesToSkip \in 0 .. options.skipFrame
  BY <1>2, SkipFrameType DEF FramesToSkip
<1>3. CASE SkipSlice
  <2>1. dec' \in Dec
    BY <1>3 DEF SkipSlice, Dec
  <2>2. app'.skipFrame = FramesToSkip - 1 /\ UNCHANGED app.skipFrameCounter
    BY <1>3 DEF SkipSlice, App
  <2>3. FramesToSkip - 1 \in -1 .. options.skipFrame
    BY <1>2, <1>3, SkipFrameType DEF SkipSlice
  <2>4. app' \in App
    <3>1. FramesToSkip - 1 \in Int
      BY <2>3, SkipFrameType
    <3> QED
      BY <1>3, <3>1 DEF SkipSlice, App
  <2>5. SkipCounts'
    BY <1>3, <2>2 DEF SkipCounts, SkipSlice
  <2>6. NalRead'
    BY <1>3 DEF NalRead, SkipSlice
  <2> QED
    BY <1>3, <2>1, <2>2, <2>3, <2>4, <2>5, <2>6, TypedStep DEF SkipSlice
<1>4. CASE AccessSlice
  <2>1. dec' \in Dec
    <3>1. -MAX_INT \in Int
      BY DecoderAssumption
    <3> QED
      BY <1>4, <3>1 DEF AccessSlice, Dec
  <2>2. app'.skipFrame = FramesToSkip /\ UNCHANGED app.skipFrameCounter
    BY <1>4 DEF AccessSlice, App
  <2>3. FramesToSkip \in 0 .. options.skipFrame
    BY <1>2, <1>4 DEF AccessSlice
  <2>4. app' \in App
    <3>1. FramesToSkip \in Int
      BY <2>3, SkipFrameType
    <3> QED
      BY <1>4, <3>1 DEF AccessSlice, App
  <2>5. SkipCounts'
    BY <1>4, <2>2, <2>3, SkipFrameType DEF SkipCounts, AccessSlice
  <2>6. NalRead'
    BY <1>4 DEF NalRead, AccessSlice
  <2> QED
    BY <1>4, <2>1, <2>2, <2>3, <2>4, <2>5, <2>6, TypedStep, SkipFrameType
    DEF AccessSlice
<1> QED
  BY <1>1, <1>3, <1>4

\* The references of a picture, and the buffer it is decoded into.
LEMMA TypedReferences ==
  ASSUME Typed,
         InsertUnavailable \/ LoseReference \/ ActivatePicture \/ ContinuePicture
  PROVE  Typed'
<1> USE DEF Typed, TypeOK, Points
<1>1. CASE InsertUnavailable
  <2>1. PICK p \in Noticed :
          /\ listPic' = Store(listPic, [pic |-> 0, poc |-> p, referenced |-> TRUE,
                                neededForOutput |-> FALSE, reconstructed |-> TRUE])
          /\ dec' = [dec EXCEPT !.prevTid0POC = p]
    BY <1>1 DEF InsertUnavailable
  <2>2. p \in Int
    <3>1. stream[nal] \in NalUnit
      BY <1>1 DEF InsertUnavailable, NalRead
    <3>2. stream[nal].active \subseteq Int /\ dec.poc \in Int
      BY <3>1 DEF NalUnit, Dec
    <3> QED
      BY <2>1, <3>2 DEF Noticed, Missing
  <2>3. listPic' \in Seq(Buffer)
    BY <2>1, <2>2, StoreSpec DEF Buffer
  <2>4. dec' \in Dec
    BY <2>1, <2>2 DEF Dec
  <2> QED
    BY <1>1, <2>3, <2>4, TypedQuietStep DEF InsertUnavailable
<1>2. CASE LoseReference
  BY <1>2, TypedQuietStep DEF LoseReference
<1>3. \A list : AfterRefPicList(list) \in {"returned", "aborted"}
  BY DEF AfterRefPicList
<1>4. CASE ActivatePicture
  <2> DEFINE buf == [pic |-> nal, poc |-> dec.poc, referenced |-> TRUE,
                     neededForOutput |-> FALSE, reconstructed |-> FALSE]
             marked == Marked(listPic, dec.poc, stream[nal].rpl, Nut = "IDR")
  <2>12. nal \in Nat /\ dec.poc \in Int
    BY DEF Dec
  <2>13. buf \in Buffer
    BY <2>12 DEF Buffer
  <2>1. marked \in Seq(Buffer)
    BY MarkedSpec
  <2> HIDE DEF marked
  <2>2. listPic' \in Seq(Buffer)
    BY <1>4, <2>1, <2>13, StoreSpec DEF ActivatePicture, marked
  <2>3. dec' \in Dec
    BY <1>4, <2>12 DEF ActivatePicture, Dec
  <2>4. pc' \in {"returned", "aborted"}
    BY <1>3, <1>4 DEF ActivatePicture
  <2>5. UNCHANGED <<stream, options, pos, nal, newPicture, app, written>> /\ pc = "refs"
    BY <1>4 DEF ActivatePicture
  <2> QED
    BY <2>2, <2>3, <2>4, <2>5, TypedQuietStep
<1>5. CASE ContinuePicture
  <2> DEFINE k == IndexOf(listPic, dec.curPic)
             buf == [listPic[k] EXCEPT !.poc = dec.poc, !.referenced = TRUE]
  <2> HIDE DEF k
  <2>1. k \in DOMAIN listPic => buf \in Buffer
    <3>1. k \in DOMAIN listPic => listPic[k] \in Buffer
      OBVIOUS
    <3>2. dec.poc \in Int
      BY DEF Dec
    <3> QED
      BY <3>1, <3>2 DEF Buffer
  <2>2. listPic' = [listPic EXCEPT ![k] = buf]
    BY <1>5 DEF ContinuePicture, k
  <2> HIDE DEF buf
  <2>3. listPic' \in Seq(Buffer)
    BY <2>1, <2>2, ExceptType
  <2>4. dec' \in Dec
    BY <1>5 DEF ContinuePicture, Dec
  <2>5. pc' \in {"returned", "aborted"}
    BY <1>3, <1>5 DEF ContinuePicture
  <2>6. UNCHANGED <<stream, options, pos, nal, newPicture, app, written>> /\ pc = "refs"
    BY <1>5 DEF ContinuePicture
  <2> QED
    BY <2>3, <2>4, <2>5, <2>6, TypedQuietStep
<1> QED
  BY <1>1, <1>2, <1>4, <1>5

\* The return from DecLib::decode.
LEMMA TypedReturn ==
  ASSUME Typed, Returned \/ ReadEnd
  PROVE  Typed'
<1> USE DEF Typed, TypeOK, Points
<1>1. CASE Returned
  <2> DEFINE counter == IF app.skipFrameCounter = 1 /\ Nut \in {"GDR", "CRA"}
                          THEN 0 ELSE app.skipFrameCounter
             skipped == app.skipFrame < counter
             count   == IF skipped THEN app.skipFrame + 1 ELSE app.skipFrame
  <2>1. options.skipFrame \in Nat /\ counter \in 0 .. options.skipFrame
    BY SkipFrameType DEF SkipCounts
  <2>2. count \in 0 .. options.skipFrame
    BY <2>1, SkipFrameType
  <2>3. app' = [app EXCEPT
           !.gdrRecoveryPeriod = app.gdrRecoveryPeriod
                                 \/ (app.prevPicSkipped /\ Nut = "GDR"),
           !.picSkipped = app.picSkipped \/ skipped,
           !.skipFrame = count]
    BY <1>1 DEF Returned
  <2>4. count \in Int
    BY <2>1, <2>2
  <2> HIDE DEF count, skipped
  <2>5. app' \in App
    BY <2>3, <2>4 DEF App
  <2>6. app'.skipFrame = count /\ UNCHANGED app.skipFrameCounter
    BY <2>3 DEF App
  <2>7. SkipCounts' /\ app'.skipFrame \in -1 .. options.skipFrame
    BY <1>1, <2>1, <2>2, <2>6 DEF SkipCounts, Returned
  <2>8. NalRead'
    BY <1>1 DEF NalRead, Returned
  <2> QED
    BY <1>1, <2>5, <2>7, <2>8, TypedStep DEF Returned
<1>2. CASE ReadEnd
  <2> DEFINE skipped == IF IsSlice /\ Nut # "RASL" THEN app.picSkipped
                        ELSE app.prevPicSkipped
             eos     == app.eosPresentInPu \/ Nut = "EOS"
             newCLVS == app.newCLVS \/ Nut = "EOS"
  <2>1. app' = [app EXCEPT !.prevPicSkipped = skipped,
                  !.eosPresentInPu = eos, !.newCLVS = newCLVS]
    BY <1>2 DEF ReadEnd
  <2>2. skipped \in BOOLEAN /\ eos \in BOOLEAN /\ newCLVS \in BOOLEAN
    BY DEF App
  <2> HIDE DEF skipped, eos, newCLVS
  <2>3. app' \in App /\ UNCHANGED <<app.skipFrame, app.skipFrameCounter>>
    BY <2>1, <2>2 DEF App
  <2> QED
    BY <1>2, <2>3, TypedQuietStep DEF ReadEnd
<1> QED
  BY <1>1, <1>2

LEMMA IndexOfType ==
  ASSUME NEW list, NEW pic, Holds(list, pic)
  PROVE  IndexOf(list, pic) \in DOMAIN list /\ list[IndexOf(list, pic)].pic = pic
BY DEF Holds, IndexOf

LEMMA AfterPictureType ==
  ASSUME Typed, Holds(listPic, dec.curPic),
         NEW a \in App, NEW d \in Dec, AfterPicture(a, d)
  PROVE  /\ app' \in App /\ dec' \in Dec
         /\ app'.skipFrame = a.skipFrame
         /\ app'.skipFrameCounter = a.skipFrameCounter
         /\ dec'.filterable = d.filterable
         /\ dec'.curPic = d.curPic
<1> DEFINE poc   == listPic[IndexOf(listPic, dec.curPic)].poc
           first == d.firstSliceInSequence \/ Nut = "EOS"
           gdr   == IF stream[dec.curPic].nut = "GDR" THEN poc ELSE d.prevGDRPOC
           eos   == Nut = "EOS"
           recovers == a.gdrRecoveryPeriod /\ poc < dec.prevGDRRecoveryPOC
<1>1. poc \in Int
  <2>1. listPic[IndexOf(listPic, dec.curPic)] \in Buffer
    BY IndexOfType DEF Typed, TypeOK
  <2> QED
    BY <2>1 DEF Buffer
<1>2. /\ dec' = [d EXCEPT !.firstSliceInSequence = first, !.prevGDRPOC = gdr]
      /\ app' = [a EXCEPT !.loopFiltered = eos, !.gdrRecoveryPeriod = recovers]
  BY DEF AfterPicture
<1> HIDE DEF poc
<1>3. /\ first \in BOOLEAN /\ gdr \in Int /\ eos \in BOOLEAN /\ recovers \in BOOLEAN
  BY <1>1 DEF Dec
<1> HIDE DEF first, gdr, eos, recovers
<1>4. dec' \in Dec /\ dec'.filterable = d.filterable /\ dec'.curPic = d.curPic
  BY <1>2, <1>3 DEF Dec
<1>5. /\ app' \in App
      /\ app'.skipFrame = a.skipFrame
      /\ app'.skipFrameCounter = a.skipFrameCounter
  BY <1>2, <1>3 DEF App
<1> QED
  BY <1>4, <1>5

\* The end of a picture.
LEMMA TypedFinish ==
  ASSUME Typed, FinishPicture \/ LeaveUnfinished \/ FilterFreed \/ NoPicture
  PROVE  Typed'
<1> USE DEF Typed, TypeOK, Points
<1>1. CASE FinishPicture
  <2> DEFINE a == [app EXCEPT !.listKnown = TRUE]
             d == [dec EXCEPT !.firstSliceInPicture = TRUE, !.filterable = FALSE]
             k == IndexOf(listPic, dec.curPic)
             buf == [listPic[k] EXCEPT !.neededForOutput = IsOutput, !.reconstructed = TRUE]
             finished == [listPic EXCEPT ![k] = buf]
  <2>1. a \in App /\ d \in Dec
    BY DEF App, Dec
  <2>2. a.skipFrame = app.skipFrame /\ a.skipFrameCounter = app.skipFrameCounter
    BY DEF App
  <2>3. Holds(listPic, dec.curPic) /\ AfterPicture(a, d)
    BY <1>1 DEF FinishPicture
  <2> HIDE DEF a, d
  <2>4. /\ app' \in App /\ dec' \in Dec
        /\ app'.skipFrame = app.skipFrame
        /\ app'.skipFrameCounter = app.skipFrameCounter
    BY <2>1, <2>2, <2>3, AfterPictureType
  <2>5. listPic' \in Seq(Buffer)
    <3>1. listPic' = [i \in DOMAIN listPic |-> finished[SortOrder(finished)[i]]]
      BY <1>1 DEF FinishPicture
    <3>2. k \in DOMAIN listPic /\ listPic[k] \in Buffer
      BY <2>3, IndexOfType
    <3>3. IsOutput \in BOOLEAN
      BY DEF IsOutput
    <3>4. buf \in Buffer
      BY <3>2, <3>3 DEF Buffer
    <3> HIDE DEF buf
    <3>5. finished \in Seq(Buffer) /\ DOMAIN finished = DOMAIN listPic
      BY <3>4, ExceptType
    <3> HIDE DEF finished
    <3>6. listPic' \in [DOMAIN listPic -> Buffer]
      BY <3>1, <3>5, SortOrderSpec
    <3> QED
      BY <3>6, ListType
  <2> QED
    BY <1>1, <2>4, <2>5, TypedQuietStep DEF FinishPicture
<1>2. CASE LeaveUnfinished
  <2>1. Holds(listPic, dec.curPic) /\ AfterPicture(app, dec)
    BY <1>2 DEF LeaveUnfinished
  <2>2. /\ app' \in App /\ dec' \in Dec
        /\ app'.skipFrame = app.skipFrame
        /\ app'.skipFrameCounter = app.skipFrameCounter
    BY <2>1, AfterPictureType
  <2> QED
    BY <1>2, <2>2, TypedQuietStep DEF LeaveUnfinished
<1>3. CASE FilterFreed
  BY <1>3, TypedQuietStep DEF FilterFreed
<1>4. CASE NoPicture
  <2>1. dec' \in Dec
    BY <1>4 DEF NoPicture, Dec
  <2> QED
    BY <1>4, <2>1, TypedQuietStep DEF NoPicture
<1> QED
  BY <1>1, <1>2, <1>3, <1>4

LEMMA CountType ==
  ASSUME NEW list \in Seq(Buffer), NEW S \in SUBSET DOMAIN list
  PROVE  Cardinality(S) \in Nat
<1>1. DOMAIN list = 1 .. Len(list) /\ Len(list) \in Nat
  OBVIOUS
<1>2. IsFiniteSet(DOMAIN list)
  BY <1>1, FS_Interval
<1>3. IsFiniteSet(S)
  BY <1>2, FS_Subset
<1> QED
  BY <1>3, FS_CardinalityType

\* The next picture unit has the same types.
LEMMA NextPictureUnitType ==
  ASSUME NEW a \in App
  PROVE  /\ NextPictureUnit(a) \in App
         /\ NextPictureUnit(a).skipFrame = a.skipFrame
         /\ NextPictureUnit(a).skipFrameCounter = a.skipFrameCounter
BY DEF NextPictureUnit, App

\* Output.
LEMMA TypedOutput ==
  ASSUME Typed, FlushOne \/ FlushEnd \/ PrepareOutput \/ NoOutput \/ WriteOne \/ WriteEnd
  PROVE  Typed'
<1> USE DEF Typed, TypeOK, Points
<1>1. ASSUME NEW i \in DOMAIN listPic
      PROVE  /\ listPic[i] \in Buffer /\ listPic[i].poc \in Int
             /\ [listPic EXCEPT ![i] = Written(listPic[i])] \in Seq(Buffer)
             /\ Append(written, listPic[i].pic) \in Seq(Nat)
  <2>1. listPic[i] \in Buffer
    OBVIOUS
  <2>2. listPic[i].poc \in Int /\ listPic[i].pic \in Nat
    BY <2>1 DEF Buffer
  <2>3. Append(written, listPic[i].pic) \in Seq(Nat)
    BY <2>2
  <2> QED
    BY <2>1, <2>2, <2>3, WrittenSpec, ExceptType
<1>2. CASE FlushOne
  <2>1. PICK i \in DOMAIN listPic :
          /\ listPic' = [listPic EXCEPT ![i] = Written(listPic[i])]
          /\ written' = Append(written, listPic[i].pic)
          /\ app' = [app EXCEPT !.pocLastDisplay = listPic[i].poc]
    BY <1>2 DEF FlushOne
  <2>2. app' \in App /\ UNCHANGED <<app.skipFrame, app.skipFrameCounter>>
    BY <1>1, <2>1 DEF App
  <2>3. listPic' \in Seq(Buffer) /\ written' \in Seq(Nat)
    BY <1>1, <2>1
  <2> QED
    BY <1>2, <2>2, <2>3, TypedQuietStep DEF FlushOne
<1>3. CASE FlushEnd
  <2>1. app' \in App /\ UNCHANGED <<app.skipFrame, app.skipFrameCounter>>
    <3>1. -MAX_INT \in Int
      BY DecoderAssumption
    <3>2. app' = app \/ app' = [app EXCEPT !.pocLastDisplay = -MAX_INT]
      BY <1>3 DEF FlushEnd
    <3> QED
      BY <3>1, <3>2 DEF App
  <2>2. listPic' \in Seq(Buffer)
    <3>1. listPic' = listPic \/ listPic' = <<>>
      BY <1>3 DEF FlushEnd
    <3>2. <<>> \in Seq(Buffer)
      OBVIOUS
    <3> QED
      BY <3>1, <3>2
  <2> QED
    BY <1>3, <2>1, <2>2, TypedQuietStep DEF FlushEnd
<1>4. CASE PrepareOutput
  <2> DEFINE list == IF app.gdrRecoveryPeriod THEN WithoutOutput(listPic) ELSE listPic
             shown == app.outputPresent \/
                        (Writes /\ \E i \in DOMAIN list : list[i].neededForOutput)
             waiting == Cardinality(Waiting(list, app.pocLastDisplay))
             fullness == Cardinality(Occupied(list, app.pocLastDisplay))
             a == [app EXCEPT !.outputPresent = shown, !.notYetDisplayed = waiting,
                              !.dpbFullness = fullness, !.cursor = 0]
  <2>1. list \in Seq(Buffer)
    BY WithoutOutputSpec
  <2>2. listPic' = list /\ app' = NextPictureUnit(a)
    BY <1>4 DEF PrepareOutput
  <2> HIDE DEF list
  <2>3. waiting \in Int /\ fullness \in Int
    BY <2>1, CountType DEF Waiting, Occupied
  <2>4. shown \in BOOLEAN
    BY DEF App
  <2> HIDE DEF shown, waiting, fullness
  <2>5. a \in App /\ a.skipFrame = app.skipFrame /\ a.skipFrameCounter = app.skipFrameCounter
    BY <2>3, <2>4 DEF App
  <2> HIDE DEF a
  <2>6. /\ app' \in App
        /\ app'.skipFrame = app.skipFrame
        /\ app'.skipFrameCounter = app.skipFrameCounter
    BY <2>2, <2>5, NextPictureUnitType
  <2>7. dec' \in Dec
    BY <1>4 DEF PrepareOutput, Dec
  <2>8. listPic' \in Seq(Buffer)
    BY <2>1, <2>2
  <2> QED
    BY <1>4, <2>6, <2>7, <2>8, TypedQuietStep DEF PrepareOutput
<1>5. CASE NoOutput
  BY <1>5, NextPictureUnitType, TypedQuietStep DEF NoOutput
<1>6. CASE WriteOne
  <2> DEFINE fullness(i) == IF listPic[i].referenced THEN app.dpbFullness
                            ELSE app.dpbFullness - 1
  <2>1. PICK i \in DOMAIN listPic :
          /\ listPic' = [listPic EXCEPT ![i] = Written(listPic[i])]
          /\ written' = Append(written, listPic[i].pic)
          /\ app' = [app EXCEPT
               !.pocLastDisplay = listPic[i].poc,
               !.notYetDisplayed = app.notYetDisplayed - 1,
               !.dpbFullness = fullness(i),
               !.cursor = i]
    BY <1>6 DEF WriteOne, ToWrite, Waiting
  <2>2. i \in Nat /\ listPic[i].poc \in Int
    BY <1>1
  <2>12. app.notYetDisplayed - 1 \in Int /\ fullness(i) \in Int
    BY DEF App
  <2> HIDE DEF fullness
  <2>3. app' \in App /\ UNCHANGED <<app.skipFrame, app.skipFrameCounter>>
    BY <2>1, <2>2, <2>12 DEF App
  <2>4. listPic' \in Seq(Buffer) /\ written' \in Seq(Nat)
    BY <1>1, <2>1
  <2> QED
    BY <1>6, <2>3, <2>4, TypedQuietStep DEF WriteOne
<1>7. CASE WriteEnd
  BY <1>7, TypedQuietStep DEF WriteEnd
<1> QED
  BY <1>2, <1>3, <1>4, <1>5, <1>6, <1>7

LEMMA TypedNext == Typed /\ [Next]_vars => Typed'
<1> SUFFICES ASSUME Typed, [Next]_vars PROVE Typed'
  OBVIOUS
<1>1. CASE EndOfStream
  BY <1>1, TypedQuietStep DEF EndOfStream, Typed, TypeOK, Points
<1>2. CASE Ended \/ UNCHANGED vars
  BY <1>2 DEF Ended, vars, Typed, TypeOK, SkipCounts, NalRead
<1> QED
  BY <1>1, <1>2, TypedReading, TypedSlice, TypedReferences, TypedReturn,
     TypedFinish, TypedOutput DEF Next

\* Every variable of the decoder keeps its type, whatever the stream holds.
THEOREM TypeCorrect == Spec => []TypeOK
<1>1. Spec => []Typed
  BY TypedInit, TypedNext, PTL DEF Spec
<1>2. Typed => TypeOK
  BY DEF Typed
<1> QED
  BY <1>1, <1>2, PTL

-----------------------------------------------------------------------------
(* Every picture is written once at most.                                  *)
(*                                                                         *)
(* A picture is known by the position of its first slice.  The invariant   *)
(* follows it from there: it gets one buffer, at a position that was read  *)
(* just now; it is marked as needed for output when it is finished, which  *)
(* happens once, since its temporary buffers are gone then; and the mark   *)
(* is taken away when it is written.                                       *)

\* Positions of NAL units that have not been decoded start here.
Bound == IF pc \in {"flush", "decode", "access", "refs"} THEN nal ELSE pos

\* A slice that may be decoded.
Slice(p) ==
  /\ p \in DOMAIN stream
  /\ stream[p].nut \in SliceTypes
  /\ stream[p].tid <= options.maxTid

\* Buffers hold pictures that were decoded, or made-up ones ...
BuffersHoldSlices ==
  \A i \in DOMAIN listPic :
    listPic[i].pic # 0 => Slice(listPic[i].pic) /\ listPic[i].pic < Bound

\* ... each of them in one buffer.
OneBufferEach ==
  \A i, j \in DOMAIN listPic :
    listPic[i].pic # 0 /\ listPic[i].pic = listPic[j].pic => i = j

WrittenAreSlices ==
  \A n \in DOMAIN written : Slice(written[n]) /\ written[n] < Bound

WrittenOnce ==
  \A m, n \in DOMAIN written : written[m] = written[n] => m = n

IsWritten(p) == \E n \in DOMAIN written : written[n] = p

\* What is to be written has not been written yet.
NeededNotWritten ==
  \A i \in DOMAIN listPic :
    listPic[i].neededForOutput => listPic[i].pic # 0 /\ ~IsWritten(listPic[i].pic)

\* The current picture is neither before it is finished.
CurrentUnfinished ==
  dec.filterable =>
    /\ dec.curPic # 0 /\ ~IsWritten(dec.curPic)
    /\ \A i \in DOMAIN listPic :
         listPic[i].pic = dec.curPic => ~listPic[i].neededForOutput

SliceDecoded == pc \in {"access", "refs"} => Slice(nal)

Once ==
  /\ BuffersHoldSlices /\ OneBufferEach
  /\ WrittenAreSlices /\ WrittenOnce
  /\ NeededNotWritten /\ CurrentUnfinished
  /\ SliceDecoded

LEMMA OnceInit == Init => Once
BY DEF Init, Ready, Once, BuffersHoldSlices, OneBufferEach, WrittenAreSlices, WrittenOnce,
       NeededNotWritten, CurrentUnfinished, SliceDecoded

\* The steps that write nothing, and change the buffers no further than to
\* give up output or to delete them.
LEMMA OnceQuietStep ==
  ASSUME Once, UNCHANGED <<stream, options, written>>,
         Bound \in Int, Bound' \in Int, Bound <= Bound',
         \A i \in DOMAIN listPic : listPic[i].pic \in Nat,
         \A n \in DOMAIN written : written[n] \in Nat,
         DOMAIN listPic' \subseteq DOMAIN listPic,
         \A i \in DOMAIN listPic' :
           /\ listPic'[i].pic = listPic[i].pic
           /\ listPic'[i].neededForOutput => listPic[i].neededForOutput,
         dec'.filterable => dec.filterable /\ dec'.curPic = dec.curPic,
         SliceDecoded'
  PROVE  Once'
<1> USE DEF Once
<1>1. \A p : Slice(p)' <=> Slice(p)
  BY DEF Slice
<1>2. \A p : IsWritten(p)' <=> IsWritten(p)
  BY DEF IsWritten
<1>3. BuffersHoldSlices'
  BY <1>1 DEF BuffersHoldSlices
<1>4. OneBufferEach'
  BY DEF OneBufferEach
<1>5. WrittenAreSlices'
  BY <1>1 DEF WrittenAreSlices
<1>6. WrittenOnce'
  BY DEF WrittenOnce
<1>7. NeededNotWritten'
  BY <1>2 DEF NeededNotWritten
<1>8. CurrentUnfinished'
  BY <1>2 DEF CurrentUnfinished
<1> QED
  BY <1>3, <1>4, <1>5, <1>6, <1>7, <1>8

\* The step that writes the picture of one buffer.
LEMMA OnceWriteStep ==
  ASSUME Once, UNCHANGED <<stream, options, pc, pos, nal, dec>>,
         listPic \in Seq(Buffer), written \in Seq(Nat),
         NEW i \in DOMAIN listPic, listPic[i].neededForOutput,
         listPic' = [listPic EXCEPT ![i] = Written(listPic[i])],
         written' = Append(written, listPic[i].pic)
  PROVE  Once'
<1> USE DEF Once
<1> DEFINE p == listPic[i].pic
<1>1. listPic[i] \in Buffer /\ p \in Nat
  <2>1. listPic[i] \in Buffer
    OBVIOUS
  <2> QED
    BY <2>1 DEF Buffer
<1>2. /\ DOMAIN listPic' = DOMAIN listPic
      /\ \A j \in DOMAIN listPic :
           /\ listPic'[j].pic = listPic[j].pic
           /\ listPic'[j].neededForOutput => listPic[j].neededForOutput /\ j # i
  BY <1>1, WrittenSpec, ExceptType
<1>3. /\ DOMAIN written' = DOMAIN written \cup {Len(written) + 1}
      /\ Len(written) + 1 \notin DOMAIN written
      /\ \A n \in DOMAIN written : written'[n] = written[n]
      /\ written'[Len(written) + 1] = p
  BY <1>1
<1>4. p # 0 /\ ~IsWritten(p) /\ Slice(p) /\ p < Bound
  BY DEF NeededNotWritten, BuffersHoldSlices
<1>5. \A q : Slice(q)' <=> Slice(q)
  BY DEF Slice
<1>6. \A q : IsWritten(q)' <=> IsWritten(q) \/ q = p
  BY <1>3 DEF IsWritten
<1>7. Bound' = Bound
  BY DEF Bound
<1> HIDE DEF p
<1>8. BuffersHoldSlices'
  BY <1>2, <1>5, <1>7 DEF BuffersHoldSlices
<1>9. OneBufferEach'
  BY <1>2 DEF OneBufferEach
<1>10. WrittenAreSlices'
  BY <1>3, <1>4, <1>5, <1>7 DEF WrittenAreSlices
<1>11. WrittenOnce'
  BY <1>3, <1>4 DEF WrittenOnce, IsWritten
<1>12. NeededNotWritten'
  BY <1>2, <1>6 DEF NeededNotWritten, OneBufferEach, p
<1>13. CurrentUnfinished'
  BY <1>2, <1>6 DEF CurrentUnfinished, p
<1>14. SliceDecoded'
  BY <1>5 DEF SliceDecoded
<1> QED
  BY <1>8, <1>9, <1>10, <1>11, <1>12, <1>13, <1>14

\* The step that stores a buffer with a made-up picture, or with the picture
\* whose first slice was read last, which becomes the current one.
LEMMA OnceStoreStep ==
  ASSUME Once, Typed, UNCHANGED <<stream, options, pos, nal, written>>,
         pc = "refs", pc' \in {"refs", "returned", "aborted"},
         NEW list \in Seq(Buffer), DOMAIN list = DOMAIN listPic,
         \A i \in DOMAIN listPic :
           /\ list[i].pic = listPic[i].pic
           /\ list[i].neededForOutput = listPic[i].neededForOutput,
         NEW buf \in Buffer, ~buf.neededForOutput,
         listPic' = Store(list, buf),
         \/ buf.pic = 0 /\ dec'.filterable = dec.filterable /\ dec'.curPic = dec.curPic
         \/ buf.pic = nal /\ dec'.curPic = nal /\ pc' # "refs"
  PROVE  Once'
<1> USE DEF Once
<1>1. nal \in Nat \ {0} /\ pos = nal + 1 /\ Bound = nal /\ Bound' \in {nal, nal + 1}
  BY DEF Typed, TypeOK, NalRead, Bound
<1>2. pc' # "refs" => Bound' = nal + 1
  BY <1>1 DEF Bound
<1>3. PICK k : \A i \in DOMAIN listPic' :
                 IF i = k THEN listPic'[i] = buf
                 ELSE i \in DOMAIN list /\ listPic'[i] = list[i]
  <2>1. \E k : \A i \in DOMAIN Store(list, buf) :
          IF i = k THEN Store(list, buf)[i] = buf
          ELSE i \in DOMAIN list /\ Store(list, buf)[i] = list[i]
    BY StoreSpec
  <2> QED
    BY <2>1
<1>4. \A i \in DOMAIN listPic' :
        IF i = k THEN listPic'[i] = buf
        ELSE /\ i \in DOMAIN listPic
             /\ listPic'[i].pic = listPic[i].pic
             /\ listPic'[i].neededForOutput = listPic[i].neededForOutput
  BY <1>3
<1>5. \A p : (Slice(p)' <=> Slice(p)) /\ (IsWritten(p)' <=> IsWritten(p))
  BY DEF Slice, IsWritten
<1>6. /\ \A i \in DOMAIN listPic : listPic[i].pic \in Nat
      /\ \A n \in DOMAIN written : written[n] \in Nat
  <2>1. \A i \in DOMAIN listPic : listPic[i] \in Buffer
    BY DEF Typed, TypeOK
  <2> QED
    BY <2>1 DEF Buffer, Typed, TypeOK
<1>7. ~IsWritten(nal)
  BY <1>1, <1>6 DEF IsWritten, WrittenAreSlices
<1>8. \A i \in DOMAIN listPic : listPic[i].pic # nal
  BY <1>1, <1>6 DEF BuffersHoldSlices
<1>9. Slice(nal)
  BY DEF SliceDecoded
<1>10. BuffersHoldSlices'
  BY <1>1, <1>2, <1>4, <1>5, <1>6, <1>9 DEF BuffersHoldSlices
<1>11. OneBufferEach'
  BY <1>4, <1>8 DEF OneBufferEach
<1>12. WrittenAreSlices'
  BY <1>1, <1>5, <1>6 DEF WrittenAreSlices
<1>13. WrittenOnce'
  BY DEF WrittenOnce
<1>14. NeededNotWritten'
  BY <1>4, <1>5 DEF NeededNotWritten
<1>15. CurrentUnfinished'
  BY <1>1, <1>4, <1>5, <1>7, <1>8 DEF CurrentUnfinished
<1>16. SliceDecoded'
  BY <1>5, <1>9 DEF SliceDecoded
<1> QED
  BY <1>10, <1>11, <1>12, <1>13, <1>14, <1>15, <1>16

\* The step that finishes the current picture, and sorts the list.
LEMMA OnceFinishStep ==
  ASSUME Once, Typed, FinishPicture
  PROVE  Once'
<1> USE DEF Once
<1> DEFINE k == IndexOf(listPic, dec.curPic)
           buf == [listPic[k] EXCEPT !.neededForOutput = IsOutput, !.reconstructed = TRUE]
           finished == [listPic EXCEPT ![k] = buf]
<1> DEFINE perm == SortOrder(finished)
<1>1. listPic' = [i \in DOMAIN listPic |-> finished[perm[i]]]
  BY DEF FinishPicture
<1>2. /\ UNCHANGED <<stream, options, pos, nal, written>>
      /\ pc = "finish" /\ pc' = "output" /\ dec.filterable
      /\ Holds(listPic, dec.curPic)
  BY DEF FinishPicture
<1>3. listPic \in Seq(Buffer) /\ k \in DOMAIN listPic /\ listPic[k].pic = dec.curPic
  BY <1>2, IndexOfType DEF Typed, TypeOK
<1>4. buf \in Buffer /\ buf.pic = dec.curPic
  <2>1. listPic[k] \in Buffer
    BY <1>3
  <2>2. IsOutput \in BOOLEAN
    BY DEF IsOutput
  <2> HIDE DEF k
  <2> QED
    BY <1>3, <2>1, <2>2 DEF Buffer
<1> HIDE DEF buf, k
<1>5. finished \in Seq(Buffer) /\ DOMAIN finished = DOMAIN listPic
  BY <1>3, <1>4, ExceptType
<1>6. \A i \in DOMAIN listPic :
        /\ finished[i].pic = listPic[i].pic
        /\ i # k => finished[i].neededForOutput = listPic[i].neededForOutput
  BY <1>3, <1>4, ExceptType
<1> HIDE DEF finished
<1>7. /\ perm \in [DOMAIN listPic -> DOMAIN listPic]
      /\ \A i, j \in DOMAIN listPic : i # j => perm[i] # perm[j]
  <2>1. /\ perm \in [DOMAIN listPic -> DOMAIN listPic]
        /\ \A i, j \in DOMAIN listPic : i < j => Precedes(finished, perm[i], perm[j])
    BY <1>5, SortOrderSpec
  <2> HIDE DEF perm
  <2>2. \A i \in DOMAIN listPic : finished[i] \in Buffer /\ i \in Int
    BY <1>3, <1>5
  <2>3. \A i \in DOMAIN listPic : ~Precedes(finished, i, i)
    BY <2>2 DEF Precedes, Buffer
  <2>4. \A i, j \in DOMAIN listPic : i < j => perm[i] # perm[j]
    BY <2>1, <2>3
  <2> QED
    BY <2>1, <2>2, <2>4
<1> HIDE DEF perm
<1>8. \A i \in DOMAIN listPic' :
        /\ i \in DOMAIN listPic /\ perm[i] \in DOMAIN listPic
        /\ listPic'[i].pic = listPic[perm[i]].pic
        /\ perm[i] # k =>
             listPic'[i].neededForOutput = listPic[perm[i]].neededForOutput
  BY <1>1, <1>6, <1>7
<1>9. dec'.curPic = dec.curPic /\ ~dec'.filterable
  <2> DEFINE a == [app EXCEPT !.listKnown = TRUE]
             d == [dec EXCEPT !.firstSliceInPicture = TRUE, !.filterable = FALSE]
  <2>1. a \in App /\ d \in Dec /\ d.curPic = dec.curPic /\ ~d.filterable
    BY DEF App, Dec, Typed, TypeOK
  <2>2. AfterPicture(a, d)
    BY DEF FinishPicture
  <2> HIDE DEF a, d
  <2> QED
    BY <1>2, <2>1, <2>2, AfterPictureType
<1>10. Bound' = Bound
  BY <1>2 DEF Bound
<1>11. \A p : (Slice(p)' <=> Slice(p)) /\ (IsWritten(p)' <=> IsWritten(p))
  BY <1>2 DEF Slice, IsWritten
<1>12. BuffersHoldSlices'
  BY <1>8, <1>10, <1>11 DEF BuffersHoldSlices
<1>13. OneBufferEach'
  BY <1>7, <1>8 DEF OneBufferEach
<1>14. WrittenAreSlices' /\ WrittenOnce'
  BY <1>2, <1>10, <1>11 DEF WrittenAreSlices, WrittenOnce
<1>15. NeededNotWritten'
  <2> SUFFICES ASSUME NEW i \in DOMAIN listPic', listPic'[i].neededForOutput
               PROVE  listPic'[i].pic # 0 /\ ~IsWritten(listPic'[i].pic)
    BY <1>11 DEF NeededNotWritten
  <2>1. CASE perm[i] = k
    BY <1>2, <1>3, <1>8, <2>1 DEF CurrentUnfinished
  <2>2. CASE perm[i] # k
    BY <1>8, <2>2 DEF NeededNotWritten
  <2> QED
    BY <2>1, <2>2
<1>16. CurrentUnfinished' /\ SliceDecoded'
  BY <1>2, <1>9 DEF CurrentUnfinished, SliceDecoded
<1> QED
  BY <1>12, <1>13, <1>14, <1>15, <1>16

LEMMA OnceNext == Typed /\ Once /\ [Next]_vars => Once'
<1> SUFFICES ASSUME Typed, Once, [Next]_vars PROVE Once'
  OBVIOUS
<1>1. /\ nal \in Int /\ pos \in Int /\ Bound \in Int
      /\ pc \in {"flush", "decode", "access", "refs", "returned", "read"} => nal = pos - 1
  BY DEF Typed, TypeOK, NalRead, Bound
<1>2. /\ listPic \in Seq(Buffer) /\ written \in Seq(Nat)
      /\ \A i \in DOMAIN listPic : listPic[i].pic \in Nat
      /\ \A n \in DOMAIN written : written[n] \in Nat
  <2>1. \A i \in DOMAIN listPic : listPic[i] \in Buffer
    BY DEF Typed, TypeOK
  <2> QED
    BY <2>1 DEF Buffer, Typed, TypeOK
<1>3. CASE NewPicture
  BY <1>1, <1>2, <1>3, OnceQuietStep DEF NewPicture, Bound, SliceDecoded
<1>4. CASE ReadNal
  <2>1. /\ UNCHANGED <<stream, written, options, listPic, dec>>
        /\ pc = "loop" /\ pc' \in {"flush", "decode"} /\ nal' = pos
    BY <1>4 DEF ReadNal
  <2> QED
    BY <1>1, <1>2, <2>1, OnceQuietStep DEF Bound, SliceDecoded
<1>5. CASE FlushOne
  <2>1. PICK i \in DOMAIN listPic :
          /\ listPic[i].neededForOutput
          /\ listPic' = [listPic EXCEPT ![i] = Written(listPic[i])]
          /\ written' = Append(written, listPic[i].pic)
    BY <1>5 DEF FlushOne
  <2> QED
    BY <1>2, <1>5, <2>1, OnceWriteStep DEF FlushOne
<1>6. CASE FlushEnd
  <2>1. /\ UNCHANGED <<stream, options, pos, nal, written, dec>>
        /\ \/ pc = "flush" /\ pc' = "decode"
           \/ pc = "finalFlush" /\ pc' = "done"
        /\ listPic' = listPic \/ listPic' = <<>>
    BY <1>6 DEF FlushEnd
  <2> QED
    BY <1>1, <1>2, <2>1, OnceQuietStep DEF Bound, SliceDecoded
<1>7. CASE Drop
  <2>1. dec'.filterable = dec.filterable /\ dec'.curPic = dec.curPic
    BY <1>7 DEF Drop, Dec, Typed, TypeOK
  <2> QED
    BY <1>1, <1>2, <1>7, <2>1, OnceQuietStep DEF Drop, Bound, SliceDecoded
<1>8. CASE DecodeNonVcl
  <2>1. dec'.filterable = dec.filterable /\ dec'.curPic = dec.curPic
    BY <1>8 DEF DecodeNonVcl, AfterEos, Dec, Typed, TypeOK
  <2> QED
    BY <1>1, <1>2, <1>8, <2>1, OnceQuietStep DEF DecodeNonVcl, Bound, SliceDecoded
<1>9. CASE DecodeHeader
  <2>1. dec'.filterable = dec.filterable /\ dec'.curPic = dec.curPic
    BY <1>9 DEF DecodeHeader, Dec, Typed, TypeOK
  <2>2. /\ UNCHANGED <<stream, options, pos, nal, written>>
        /\ pc = "decode" /\ pc' = "access"
        /\ IsSlice /\ stream[nal].tid <= options.maxTid
        /\ \/ listPic' = listPic
           \/ listPic' = WithoutPriorOutput(listPic, SlicePoc(stream[nal]))
    BY <1>9 DEF DecodeHeader
  <2>3. nal \in DOMAIN stream /\ stream[nal] \in NalUnit /\ dec \in Dec
    BY <2>2 DEF Typed, TypeOK, NalRead
  <2>4. SlicePoc(stream[nal]) \in Int
    BY <2>3, SlicePocType
  <2>5. /\ DOMAIN listPic' = DOMAIN listPic
        /\ \A i \in DOMAIN listPic :
             /\ listPic'[i].pic = listPic[i].pic
             /\ listPic'[i].neededForOutput => listPic[i].neededForOutput
    <3>1. CASE listPic' = listPic
      BY <3>1
    <3>2. CASE listPic' = WithoutPriorOutput(listPic, SlicePoc(stream[nal]))
      <4> DEFINE poc == SlicePoc(stream[nal])
                 l   == WithoutPriorOutput(listPic, poc)
      <4>1. poc \in Int
        BY <2>4
      <4> HIDE DEF poc
      <4>2. l \in {WithoutOutput(listPic), WithoutPriorOutput(listPic, poc)}
        OBVIOUS
      <4>3. /\ DOMAIN l = DOMAIN listPic
            /\ \A i \in DOMAIN listPic :
                 /\ l[i].pic = listPic[i].pic
                 /\ l[i].neededForOutput => listPic[i].neededForOutput
        BY ONLY <1>2, <4>1, <4>2, WithoutOutputSpec
      <4>4. listPic' = l
        BY <3>2 DEF poc
      <4> HIDE DEF l
      <4> QED
        BY <4>3, <4>4
    <3> QED
      BY <2>2, <3>1, <3>2
  <2>6. SliceDecoded' /\ Bound' = Bound
    <3>1. Nut = stream[nal].nut
      BY <2>3 DEF Nut, Typed, TypeOK
    <3> QED
      BY <1>1, <2>2, <2>3, <3>1 DEF SliceDecoded, Slice, IsSlice, Bound
  <2> QED
    BY <1>1, <1>2, <2>1, <2>2, <2>5, <2>6, OnceQuietStep
<1>10. CASE SkipSlice \/ AccessSlice
  <2>1. dec'.filterable = dec.filterable /\ dec'.curPic = dec.curPic
    BY <1>10 DEF SkipSlice, AccessSlice, Dec, Typed, TypeOK
  <2>2. /\ UNCHANGED <<stream, options, pos, nal, written, listPic>>
        /\ pc = "access" /\ pc' \in {"returned", "refs"}
    BY <1>10 DEF SkipSlice, AccessSlice
  <2>3. SliceDecoded' /\ Bound <= Bound' /\ Bound' \in Int
    BY <1>1, <2>2 DEF Once, SliceDecoded, Slice, Bound
  <2> QED
    BY <1>1, <1>2, <2>1, <2>2, <2>3, OnceQuietStep
<1>11. CASE InsertUnavailable
  <2>1. PICK p \in Noticed :
          /\ listPic' = Store(listPic, [pic |-> 0, poc |-> p, referenced |-> TRUE,
                                neededForOutput |-> FALSE, reconstructed |-> TRUE])
          /\ dec' = [dec EXCEPT !.prevTid0POC = p]
    BY <1>11 DEF InsertUnavailable
  <2>2. pc = "refs" /\ UNCHANGED <<stream, options, pc, pos, nal, written>>
    BY <1>11 DEF InsertUnavailable
  <2>3. p \in Int
    <3>1. stream[nal] \in NalUnit
      BY <2>2 DEF Typed, TypeOK, NalRead
    <3>2. stream[nal].active \subseteq Int /\ dec.poc \in Int
      BY <3>1 DEF NalUnit, Dec, Typed, TypeOK
    <3> QED
      BY <2>1, <3>2 DEF Noticed, Missing
  <2>4. dec'.filterable = dec.filterable /\ dec'.curPic = dec.curPic
    BY <2>1 DEF Dec, Typed, TypeOK
  <2> DEFINE buf == [pic |-> 0, poc |-> p, referenced |-> TRUE,
                     neededForOutput |-> FALSE, reconstructed |-> TRUE]
  <2>5. buf \in Buffer /\ buf.pic = 0 /\ ~buf.neededForOutput
    BY <2>3 DEF Buffer
  <2>6. listPic' = Store(listPic, buf)
    BY <2>1
  <2> HIDE DEF buf
  <2> QED
    BY <1>2, <2>2, <2>4, <2>5, <2>6, OnceStoreStep
<1>12. CASE ActivatePicture
  <2> DEFINE buf == [pic |-> nal, poc |-> dec.poc, referenced |-> TRUE,
                     neededForOutput |-> FALSE, reconstructed |-> FALSE]
             idr == Nut = "IDR"
             marked == Marked(listPic, dec.poc, stream[nal].rpl, idr)
  <2>1. nal \in Nat /\ dec.poc \in Int
    BY DEF Dec, Typed, TypeOK
  <2>2. buf \in Buffer /\ buf.pic = nal /\ ~buf.neededForOutput
    BY <2>1 DEF Buffer
  <2>3. /\ marked \in Seq(Buffer) /\ DOMAIN marked = DOMAIN listPic
        /\ \A i \in DOMAIN listPic :
             /\ marked[i].pic = listPic[i].pic
             /\ marked[i].neededForOutput = listPic[i].neededForOutput
    <3>1. idr \in BOOLEAN
      OBVIOUS
    <3> HIDE DEF idr
    <3>2. marked \in Seq(Buffer) /\ DOMAIN marked = DOMAIN listPic
      BY <1>2, <3>1, MarkedSpec
    <3>3. \A i \in DOMAIN listPic :
             /\ marked[i].pic = listPic[i].pic
             /\ marked[i].neededForOutput = listPic[i].neededForOutput
      BY ONLY <1>2, <3>1, MarkedSpec
    <3> QED
      BY <3>2, <3>3
  <2>4. listPic' = Store(marked, buf)
    BY <1>12 DEF ActivatePicture
  <2>5. dec'.curPic = nal
    BY <1>12 DEF ActivatePicture, Dec, Typed, TypeOK
  <2>6. /\ UNCHANGED <<stream, options, pos, nal, written>>
        /\ pc = "refs" /\ pc' \in {"returned", "aborted"}
    BY <1>12 DEF ActivatePicture, AfterRefPicList
  <2> HIDE DEF buf, marked
  <2> QED
    BY <2>2, <2>3, <2>4, <2>5, <2>6, OnceStoreStep
<1>13. CASE ContinuePicture
  <2> DEFINE k == IndexOf(listPic, dec.curPic)
             buf == [listPic[k] EXCEPT !.poc = dec.poc, !.referenced = TRUE]
  <2> HIDE DEF k
  <2>1. \A i \in DOMAIN listPic : listPic[i] \in Buffer
    BY <1>2
  <2>2. k \in DOMAIN listPic =>
          /\ buf \in Buffer /\ buf.pic = listPic[k].pic
          /\ buf.neededForOutput = listPic[k].neededForOutput
    <3>1. dec.poc \in Int
      BY DEF Dec, Typed, TypeOK
    <3> QED
      BY <2>1, <3>1 DEF Buffer
  <2>3. listPic' = [listPic EXCEPT ![k] = buf]
    BY <1>13 DEF ContinuePicture, k
  <2> HIDE DEF buf
  <2>4. /\ DOMAIN listPic' = DOMAIN listPic
        /\ \A i \in DOMAIN listPic :
             /\ listPic'[i].pic = listPic[i].pic
             /\ listPic'[i].neededForOutput = listPic[i].neededForOutput
    BY <1>2, <2>2, <2>3, ExceptType
  <2>5. dec'.filterable = dec.filterable /\ dec'.curPic = dec.curPic
    BY <1>13 DEF ContinuePicture, Dec, Typed, TypeOK
  <2>6. /\ UNCHANGED <<stream, options, pos, nal, written>>
        /\ pc = "refs" /\ pc' \in {"returned", "aborted"}
    BY <1>13 DEF ContinuePicture, AfterRefPicList
  <2>7. SliceDecoded' /\ Bound <= Bound' /\ Bound' \in Int
    BY <1>1, <2>6 DEF SliceDecoded, Bound
  <2> QED
    BY <1>1, <1>2, <2>4, <2>5, <2>6, <2>7, OnceQuietStep
<1>14. CASE LoseReference \/ Returned \/ ReadEnd \/ FilterFreed \/ NoPicture
            \/ NoOutput \/ WriteEnd \/ EndOfStream
  <2>1. /\ UNCHANGED <<stream, options, pos, nal, written, listPic>>
        /\ pc' \notin {"flush", "decode", "access", "refs"}
    BY <1>14 DEF LoseReference, Returned, ReadEnd, FilterFreed, NoPicture,
                 NoOutput, WriteEnd, EndOfStream
  <2>2. dec'.filterable = dec.filterable /\ dec'.curPic = dec.curPic
    BY <1>14 DEF LoseReference, Returned, ReadEnd, FilterFreed, NoPicture,
                 NoOutput, WriteEnd, EndOfStream, Dec, Typed, TypeOK
  <2>3. SliceDecoded' /\ Bound <= Bound' /\ Bound' \in Int
    BY <1>1, <2>1 DEF SliceDecoded, Bound
  <2> QED
    BY <1>1, <1>2, <2>1, <2>2, <2>3, OnceQuietStep
<1>15. CASE FinishPicture
  BY <1>15, OnceFinishStep
<1>16. CASE LeaveUnfinished
  <2>1. Holds(listPic, dec.curPic) /\ AfterPicture(app, dec)
    BY <1>16 DEF LeaveUnfinished
  <2>2. dec'.filterable = dec.filterable /\ dec'.curPic = dec.curPic
    BY <2>1, AfterPictureType DEF Typed, TypeOK
  <2>3. /\ UNCHANGED <<stream, options, pos, nal, written, listPic>>
        /\ pc = "finish" /\ pc' = "output"
    BY <1>16 DEF LeaveUnfinished
  <2>4. SliceDecoded' /\ Bound' = Bound
    BY <2>3 DEF SliceDecoded, Bound
  <2> QED
    BY <1>1, <1>2, <2>2, <2>3, <2>4, OnceQuietStep
<1>17. CASE PrepareOutput
  <2>1. /\ UNCHANGED <<stream, options, pos, nal, written>>
        /\ pc = "output" /\ pc' \in {"write", "loop"}
        /\ listPic' = listPic \/ listPic' = WithoutOutput(listPic)
    BY <1>17 DEF PrepareOutput
  <2>2. /\ DOMAIN listPic' = DOMAIN listPic
        /\ \A i \in DOMAIN listPic :
             /\ listPic'[i].pic = listPic[i].pic
             /\ listPic'[i].neededForOutput => listPic[i].neededForOutput
    BY <1>2, <2>1, WithoutOutputSpec
  <2>3. dec'.filterable = dec.filterable /\ dec'.curPic = dec.curPic
    BY <1>17 DEF PrepareOutput, Dec, Typed, TypeOK
  <2>4. SliceDecoded' /\ Bound' = Bound
    BY <2>1 DEF SliceDecoded, Bound
  <2> QED
    BY <1>1, <1>2, <2>1, <2>2, <2>3, <2>4, OnceQuietStep
<1>18. CASE WriteOne
  <2>1. PICK i \in DOMAIN listPic :
          /\ listPic[i].neededForOutput
          /\ listPic' = [listPic EXCEPT ![i] = Written(listPic[i])]
          /\ written' = Append(written, listPic[i].pic)
    BY <1>18 DEF WriteOne, ToWrite, Waiting
  <2> QED
    BY <1>2, <1>18, <2>1, OnceWriteStep DEF WriteOne
<1>19. CASE Ended \/ UNCHANGED vars
  <2>1. UNCHANGED vars
    BY <1>19 DEF Ended
  <2>2. SliceDecoded' /\ Bound' = Bound
    BY <2>1 DEF Once, SliceDecoded, Slice, Bound, vars
  <2> QED
    BY <1>1, <1>2, <2>1, <2>2, OnceQuietStep DEF vars
<1> QED
  BY <1>3, <1>4, <1>5, <1>6, <1>7, <1>8, <1>9, <1>10, <1>11, <1>12, <1>13,
     <1>14, <1>15, <1>16, <1>17, <1>18, <1>19 DEF Next

\* Whatever the stream holds, the decoder writes no picture twice, and only
\* pictures of the stream that belong to the temporal layers it decodes.
THEOREM EachPictureOnce == Spec => []WritesOnlyPictures
<1>1. Spec => [](Typed /\ Once)
  <2>1. Init => Typed /\ Once
    BY TypedInit, OnceInit
  <2>2. Typed /\ Once /\ [Next]_vars => (Typed /\ Once)'
    BY TypedNext, OnceNext
  <2> QED
    BY <2>1, <2>2, PTL DEF Spec
<1>2. Once => WritesOnlyPictures
  BY DEF Once, WrittenAreSlices, WrittenOnce, Slice, WritesOnlyPictures
<1> QED
  BY <1>1, <1>2, PTL

-----------------------------------------------------------------------------
(* Picture order counts: the derivation is exact for every number of       *)
(* transmitted bits, as long as a picture is less than half a cycle from   *)
(* its anchor.                                                             *)

\* A POC is a whole number of cycles and its low-order bits.
LEMMA Cycles ==
  ASSUME NEW poc \in Int
  PROVE  /\ PocLsb(poc) \in 0 .. MaxPocLsb - 1
         /\ \E c \in Int : PocMsb(poc) = c * MaxPocLsb
<1>1. MaxPocLsb \in Nat /\ MaxPocLsb > 0
  BY MaxPocLsbAssumption
<1>2. PocLsb(poc) \in 0 .. MaxPocLsb - 1
  BY <1>1 DEF PocLsb
<1>3. poc \div MaxPocLsb \in Int
  BY <1>1
<1>4. poc = MaxPocLsb * (poc \div MaxPocLsb) + (poc % MaxPocLsb)
  BY <1>1
<1>5. PocMsb(poc) = (poc \div MaxPocLsb) * MaxPocLsb
  BY <1>1, <1>3, <1>4 DEF PocMsb, PocLsb
<1> QED
  BY <1>2, <1>3, <1>5

\* Multiples of a cycle that are less than two cycles apart.
LEMMA NearCycles ==
  ASSUME NEW a \in Int, NEW b \in Int,
         a * MaxPocLsb - b * MaxPocLsb < 2 * MaxPocLsb,
         b * MaxPocLsb - a * MaxPocLsb < 2 * MaxPocLsb
  PROVE  a * MaxPocLsb - b * MaxPocLsb \in {-MaxPocLsb, 0, MaxPocLsb}
<1> DEFINE c == a - b
<1>1. MaxPocLsb \in Nat /\ MaxPocLsb > 0
  BY MaxPocLsbAssumption
<1>2. c \in Int /\ a * MaxPocLsb - b * MaxPocLsb = c * MaxPocLsb
  BY <1>1
<1>3. c * MaxPocLsb < 2 * MaxPocLsb /\ -(c * MaxPocLsb) < 2 * MaxPocLsb
  BY <1>1, <1>2
<1> HIDE DEF c
<1>4. c < 2
  <2> SUFFICES ASSUME c >= 2 PROVE FALSE
    BY <1>2
  <2>1. (c - 2) * MaxPocLsb >= 0
    BY <1>1, <1>2
  <2> QED
    BY <1>1, <1>2, <1>3, <2>1
<1>5. c > -2
  <2> SUFFICES ASSUME c <= -2 PROVE FALSE
    BY <1>2
  <2>1. (-2 - c) * MaxPocLsb >= 0
    BY <1>1, <1>2
  <2> QED
    BY <1>1, <1>2, <1>3, <2>1
<1>6. c = -1 \/ c = 0 \/ c = 1
  BY <1>2, <1>4, <1>5
<1> QED
  BY <1>1, <1>2, <1>6

\* parseSliceHeader recovers the POC of every picture that comes no more than
\* half a cycle after its anchor, and less than half a cycle before it.
THEOREM DerivedPocExact ==
  ASSUME NEW poc \in Int, NEW prev \in Int,
         prev - MaxPocLsb \div 2 < poc, poc <= prev + MaxPocLsb \div 2
  PROVE  DerivedPoc(PocLsb(poc), prev) = poc
<1> DEFINE half == MaxPocLsb \div 2
           lsb  == PocLsb(poc)
           msb  == PocMsb(poc)
           prevLsb == PocLsb(prev)
           prevMsb == PocMsb(prev)
<1>1. MaxPocLsb \in Nat /\ MaxPocLsb > 0 /\ half \in Nat /\ MaxPocLsb = 2 * half
  BY MaxPocLsbAssumption
<1>2. lsb \in 0 .. MaxPocLsb - 1 /\ prevLsb \in 0 .. MaxPocLsb - 1
  BY Cycles
<1>3. PICK a \in Int, b \in Int : msb = a * MaxPocLsb /\ prevMsb = b * MaxPocLsb
  BY Cycles
<1>4. msb \in Int /\ prevMsb \in Int /\ poc = msb + lsb /\ prev = prevMsb + prevLsb
  BY <1>1, <1>2 DEF PocMsb
<1>5. DerivedPoc(lsb, prev) =
        lsb + (IF lsb < prevLsb /\ prevLsb - lsb >= half THEN prevMsb + MaxPocLsb
               ELSE IF lsb > prevLsb /\ lsb - prevLsb > half THEN prevMsb - MaxPocLsb
               ELSE prevMsb)
  BY <1>1, <1>2, <1>4 DEF DerivedPoc
<1>6. prev - half < poc /\ poc <= prev + half
  OBVIOUS
<1> HIDE DEF half, lsb, msb, prevLsb, prevMsb
<1>7. msb - prevMsb < 2 * MaxPocLsb /\ prevMsb - msb < 2 * MaxPocLsb
  BY <1>1, <1>2, <1>4, <1>6
<1>8. msb - prevMsb \in {-MaxPocLsb, 0, MaxPocLsb}
  BY <1>3, <1>7, NearCycles
<1> QED
  <2>1. CASE msb = prevMsb
    BY <1>1, <1>2, <1>4, <1>5, <1>6, <2>1 DEF lsb
  <2>2. CASE msb = prevMsb + MaxPocLsb
    BY <1>1, <1>2, <1>4, <1>5, <1>6, <2>2 DEF lsb
  <2>3. CASE msb = prevMsb - MaxPocLsb
    BY <1>1, <1>2, <1>4, <1>5, <1>6, <2>3 DEF lsb
  <2> QED
    BY <1>1, <1>4, <1>8, <2>1, <2>2, <2>3

-----------------------------------------------------------------------------
(* Only pictures that are to be shown are written, whatever whole pictures *)
(* are missing from the stream.                                            *)
(*                                                                         *)
(* finishPicture asks the slice that was parsed last whether the current   *)
(* picture is shown.  The invariant says that it was a slice of this       *)
(* picture: what comes before the next picture header is, and a slice      *)
(* that is skipped or dropped keeps the picture before it from being       *)
(* finished.  DecApp notices a skipped slice by counting; it misses one    *)
(* only before the first picture.                                          *)

\* m_iSkipFrame is above zero only before the first picture is decoded, or once
\* more right after it.
Counts ==
  /\ app.skipFrame >= 2 => dec.firstSliceInSequence
  /\ app.skipFrame > 0 => dec.firstSliceInSequence \/ dec.skippedOnce
  /\ pc = "access" => app.skipFrameCounter = app.skipFrame
  /\ pc = "refs" => /\ app.skipFrame = 0 /\ app.skipFrameCounter <= 1
                    /\ app.skipFrameCounter = 1 => dec.skippedOnce
  /\ pc = "returned" =>
       /\ IsSlice /\ app.skipFrame <= app.skipFrameCounter
       /\ app.skipFrameCounter <= 1 => app.skipFrame <= 0
       /\ app.skipFrameCounter >= 2 => dec.firstSliceInSequence
       /\ app.skipFrameCounter # 0 => dec.skippedOnce

\* After slices of CRA or GDR pictures alone, nothing is left to skip.
CountedAtCra ==
  pc # "returned" => \A q \in DOMAIN stream :
    /\ q < Bound /\ stream[q].nut \in SliceTypes
    /\ \A r \in q .. Bound - 1 : stream[r].nut \in SliceTypes =>
         stream[r].nut \in {"CRA", "GDR"} /\ stream[r].tid <= options.maxTid
    => dec.firstSliceInSequence \/ app.skipFrame = 0

\* What ends a picture.
UnitEnds ==
  /\ newPicture => /\ nal = 0
                   /\ pc = "finish" => ~AtEof
                   /\ pc = "output" => dec.firstSliceInPicture
  /\ pc \in {"finish", "output"} /\ Nut = "EOS" => app.eosPresentInPu

\* Within a picture no header comes; it is the current one, unless it was dropped.
\* (After the end of a sequence, a slice without a header makes the decoder stop.)
InsidePicture ==
  ~dec.firstSliceInPicture =>
    /\ pc \in {"flush", "decode", "access", "refs"} => ~IsHeader(stream[nal])
    /\ app.eosPresentInPu \/
       \E q \in DOMAIN stream :
         /\ q < Bound /\ stream[q].nut \in SliceTypes
         /\ \A r \in q + 1 .. Bound - 1 : ~IsHeader(stream[r])
         /\ stream[q].tid > options.maxTid \/ q = dec.curPic

\* The flag is that of the current picture, or the current picture will not be
\* finished.
MeansCurrent == dec.picOutputFlag => stream[dec.curPic].output
WillCount ==
  app.skipFrame < IF app.skipFrameCounter = 1 /\ Nut \in {"GDR", "CRA"} THEN 0 ELSE app.skipFrameCounter

FlagOfCurrent ==
  /\ pc \in {"access", "refs"} => (dec.picOutputFlag => stream[nal].output)
  /\ pc = "returned" /\ ~app.eosPresentInPu =>
       (dec.filterable /\ ~dec.firstSliceInSequence => MeansCurrent \/ WillCount)
  /\ pc \notin {"access", "refs", "returned", "aborted"} /\ ~(pc = "read" /\ IsSlice /\ app.eosPresentInPu) =>
       (dec.filterable /\ HasPicture => MeansCurrent)

NeededAreShown == \A i \in DOMAIN listPic : listPic[i].neededForOutput => stream[listPic[i].pic].output

Shown == /\ Counts /\ CountedAtCra /\ UnitEnds /\ InsidePicture /\ FlagOfCurrent
         /\ NeededAreShown /\ WritesOnlyShown

\* The fields these speak of.
Skips == <<app.skipFrame, app.skipFrameCounter, app.picSkipped, dec.skippedOnce>>
Picture == <<dec.firstSliceInSequence, dec.filterable, dec.curPic, dec.picOutputFlag>>
Place == <<dec.firstSliceInPicture, app.eosPresentInPu>>

\* The steps that change none of them.
LEMMA QuietFields ==
  ASSUME Typed,
         \/ NewPicture \/ ReadNal \/ FlushOne \/ FlushEnd \/ DecodeNonVcl \/ InsertUnavailable
         \/ LoseReference \/ FilterFreed \/ WriteOne \/ WriteEnd \/ EndOfStream \/ Ended \/ UNCHANGED vars
  PROVE  UNCHANGED <<Skips, Picture, Place>>
<1> USE DEF Typed, TypeOK, Skips, Picture, Place
<1>1. app \in App /\ dec \in Dec OBVIOUS
<1>2. CASE NewPicture \/ LoseReference \/ FilterFreed \/ WriteEnd \/ EndOfStream \/ Ended \/ UNCHANGED vars
  BY <1>2 DEF NewPicture, LoseReference, FilterFreed, WriteEnd, EndOfStream, Ended, vars
<1>3. CASE ReadNal BY <1>1, <1>3 DEF ReadNal, App
<1>4. CASE FlushOne BY <1>1, <1>4 DEF FlushOne, App
<1>5. CASE FlushEnd BY <1>1, <1>5 DEF FlushEnd, App
<1>6. CASE DecodeNonVcl BY <1>1, <1>6 DEF DecodeNonVcl, AfterEos, Dec
<1>7. CASE InsertUnavailable BY <1>1, <1>7 DEF InsertUnavailable, Dec
<1>8. CASE WriteOne BY <1>1, <1>8 DEF WriteOne, App
<1> QED BY <1>2, <1>3, <1>4, <1>5, <1>6, <1>7, <1>8

\* Dropping and reading on, and the end of a call of decode.
LEMMA ReadingFields ==
  ASSUME Typed
  PROVE  /\ Drop => /\ UNCHANGED <<Picture, app.skipFrame, app.skipFrameCounter, dec.skippedOnce, app.eosPresentInPu>>
                    /\ app'.picSkipped
                    /\ dec'.firstSliceInPicture = (dec.firstSliceInPicture /\ ~IsSlice)
         /\ ReadEnd => /\ UNCHANGED <<Picture, Skips, dec.firstSliceInPicture>>
                       /\ app'.eosPresentInPu = (app.eosPresentInPu \/ Nut = "EOS")
<1> USE DEF Typed, TypeOK, Skips, Picture
<1>1. app \in App /\ dec \in Dec OBVIOUS
<1>2. CASE Drop
  <2>1. ~ReadEnd BY <1>2 DEF Drop, ReadEnd
  <2> QED BY <1>1, <1>2, <2>1 DEF Drop, App, Dec
<1>3. CASE ReadEnd
  <2>1. ~Drop BY <1>3 DEF Drop, ReadEnd
  <2> QED BY <1>1, <1>3, <2>1 DEF ReadEnd, App
<1> QED BY <1>2, <1>3

\* Decoding a slice header, up to the decision to skip the slice.
LEMMA SliceFields ==
  ASSUME Typed
  PROVE  /\ DecodeHeader =>
              /\ UNCHANGED <<Place, dec.firstSliceInSequence, dec.filterable, dec.curPic, dec.skippedOnce, app.skipFrame>>
              /\ app'.skipFrameCounter = app.skipFrame /\ ~app'.picSkipped
              /\ dec'.picOutputFlag => stream[nal].output
         /\ SkipSlice => /\ UNCHANGED <<Place, Picture, app.skipFrameCounter, app.picSkipped>>
                         /\ app'.skipFrame = FramesToSkip - 1 /\ dec'.skippedOnce
         /\ AccessSlice => /\ UNCHANGED <<Place, Picture, app.skipFrameCounter, app.picSkipped, dec.skippedOnce>>
                           /\ app'.skipFrame = 0 /\ FramesToSkip = 0
<1> USE DEF Typed, TypeOK, Picture, Place
<1>1. app \in App /\ dec \in Dec OBVIOUS
<1>2. DecodeHeader =>
        /\ UNCHANGED <<Place, dec.firstSliceInSequence, dec.filterable, dec.curPic, dec.skippedOnce, app.skipFrame>>
        /\ app'.skipFrameCounter = app.skipFrame /\ ~app'.picSkipped
        /\ dec'.picOutputFlag => stream[nal].output
  <2> SUFFICES ASSUME DecodeHeader
               PROVE /\ UNCHANGED <<Place, dec.firstSliceInSequence, dec.filterable, dec.curPic, dec.skippedOnce, app.skipFrame>>
                     /\ app'.skipFrameCounter = app.skipFrame /\ ~app'.picSkipped
                     /\ dec'.picOutputFlag => stream[nal].output
    OBVIOUS
  <2>1. app' = [app EXCEPT !.picSkipped = FALSE, !.skipFrameCounter = app.skipFrame] BY DEF DecodeHeader
  <2>2. /\ UNCHANGED <<app.eosPresentInPu, app.skipFrame>>
        /\ app'.skipFrameCounter = app.skipFrame /\ ~app'.picSkipped
    BY <1>1, <2>1 DEF App
  <2> DEFINE n        == stream[nal]
             parsed   == SlicePoc(n)
             lastFlag == IF Nut \in {"CRA", "GDR"} THEN StartsDecoding
                         ELSE dec.lastNoOutputBeforeRecovery
             flag     == IF IsRecoveryPoint THEN StartsDecoding
                         ELSE dec.noOutputBeforeRecovery
             noPrior  == IF IsRecoveryPoint THEN n.noPrior
                         ELSE dec.isNoOutputPriorPics
             discard  == /\ dec.firstSliceInPicture /\ parsed # dec.prevPOC
                         /\ IsRecoveryPoint /\ flag /\ noPrior
             reset    == Nut \in {"CRA", "GDR"} /\ lastFlag
             poc      == IF reset THEN PocLsb(parsed) ELSE parsed
             anchor   == IF IsAnchor(n) THEN poc ELSE dec.prevTid0POC
             recovers == IF Nut = "GDR" /\ dec.prevGDRPOC = -MAX_INT
                           THEN parsed + n.recovery ELSE dec.prevGDRRecoveryPOC
             kept     == noPrior /\ ~discard
             last     == IF reset THEN poc
                         ELSE IF IsRecoveryPoint /\ n.noPrior THEN parsed
                         ELSE dec.lastPOCNoOutputPriorPics
             shown    == ~(Nut = "RASL" /\ lastFlag)
  <2>3. dec' = [dec EXCEPT
              !.poc = poc, !.prevTid0POC = anchor, !.prevGDRRecoveryPOC = recovers,
              !.noOutputBeforeRecovery = flag, !.lastNoOutputBeforeRecovery = lastFlag,
              !.isNoOutputPriorPics = kept, !.lastPOCNoOutputPriorPics = last,
              !.picOutputFlag = stream[nal].output /\ shown]
    BY DEF DecodeHeader
  <2> HIDE DEF parsed, lastFlag, flag, noPrior, discard, reset, poc, anchor, recovers, kept, last, shown
  <2>4. /\ UNCHANGED <<dec.firstSliceInPicture, dec.firstSliceInSequence, dec.filterable, dec.curPic, dec.skippedOnce>>
        /\ dec'.picOutputFlag => stream[nal].output
    BY <1>1, <2>3 DEF Dec
  <2> QED BY <2>2, <2>4
<1>3. SkipSlice => /\ UNCHANGED <<Place, Picture, app.skipFrameCounter, app.picSkipped>>
                   /\ app'.skipFrame = FramesToSkip - 1 /\ dec'.skippedOnce
  <2>1. SkipSlice => /\ app' = [app EXCEPT !.skipFrame = FramesToSkip - 1]
                     /\ dec' = [dec EXCEPT !.skippedOnce = TRUE]
    BY DEF SkipSlice
  <2> QED BY <1>1, <2>1 DEF App, Dec
<1>4. AccessSlice => /\ UNCHANGED <<Place, Picture, app.skipFrameCounter, app.picSkipped, dec.skippedOnce>>
                     /\ app'.skipFrame = 0 /\ FramesToSkip = 0
  <2>1. AccessSlice => /\ FramesToSkip = 0 /\ app' = [app EXCEPT !.skipFrame = FramesToSkip]
                       /\ \E p : dec' = [dec EXCEPT !.pocRandomAccess = p]
    BY DEF AccessSlice
  <2> QED BY <1>1, <2>1 DEF App, Dec
<1> QED BY <1>2, <1>3, <1>4

\* Decoding a slice, and back in DecApp.
LEMMA DecodedFields ==
  ASSUME Typed
  PROVE  /\ ActivatePicture =>
              /\ UNCHANGED <<Skips, app.eosPresentInPu, dec.picOutputFlag>>
              /\ dec'.curPic = nal /\ ~dec'.firstSliceInSequence /\ ~dec'.firstSliceInPicture
         /\ ContinuePicture =>
              /\ UNCHANGED <<Skips, Place, dec.picOutputFlag, dec.filterable, dec.curPic>>
              /\ ~dec'.firstSliceInSequence
         /\ Returned =>
              /\ UNCHANGED <<Picture, Place, app.skipFrameCounter, dec.skippedOnce>>
              /\ app'.skipFrame = (IF WillCount THEN app.skipFrame + 1 ELSE app.skipFrame)
              /\ app'.picSkipped = (app.picSkipped \/ WillCount)
<1> USE DEF Typed, TypeOK, Picture, Place, Skips
<1>1. app \in App /\ dec \in Dec OBVIOUS
<1>2. ActivatePicture =>
              /\ UNCHANGED <<Skips, app.eosPresentInPu, dec.picOutputFlag>>
              /\ dec'.curPic = nal /\ ~dec'.firstSliceInSequence /\ ~dec'.firstSliceInPicture
  <2>1. ActivatePicture =>
           /\ app' = app
           /\ dec' = [dec EXCEPT !.curPic = nal, !.filterable = TRUE, !.prevPOC = dec.poc,
               !.firstSliceInSequence = FALSE, !.firstSliceInPicture = FALSE]
    BY DEF ActivatePicture
  <2> QED BY <1>1, <2>1 DEF Dec
<1>3. ContinuePicture =>
              /\ UNCHANGED <<Skips, Place, dec.picOutputFlag, dec.filterable, dec.curPic>>
              /\ ~dec'.firstSliceInSequence
  <2>1. ContinuePicture =>
           /\ app' = app
           /\ dec' = [dec EXCEPT !.prevPOC = dec.poc, !.firstSliceInSequence = FALSE]
    BY DEF ContinuePicture
  <2> QED BY <1>1, <2>1 DEF Dec
<1>4. Returned =>
              /\ UNCHANGED <<Picture, Place, app.skipFrameCounter, dec.skippedOnce>>
              /\ app'.skipFrame = (IF WillCount THEN app.skipFrame + 1 ELSE app.skipFrame)
              /\ app'.picSkipped = (app.picSkipped \/ WillCount)
  <2>1. Returned =>
          /\ dec' = dec
          /\ \E g : app' = [app EXCEPT !.gdrRecoveryPeriod = g, !.picSkipped = @ \/ WillCount,
                                       !.skipFrame = IF WillCount THEN @ + 1 ELSE @]
    BY DEF Returned, WillCount
  <2> QED BY <1>1, <2>1 DEF App
<1> QED BY <1>2, <1>3, <1>4

\* The end of a picture, and output.
LEMMA FinishFields ==
  ASSUME Typed
  PROVE  /\ FinishPicture => /\ UNCHANGED <<Skips, app.eosPresentInPu, dec.curPic, dec.picOutputFlag>>
                             /\ dec'.firstSliceInPicture /\ ~dec'.filterable
                             /\ dec'.firstSliceInSequence = (dec.firstSliceInSequence \/ Nut = "EOS")
         /\ LeaveUnfinished => /\ UNCHANGED <<Skips, Place, dec.filterable, dec.curPic, dec.picOutputFlag>>
                               /\ dec'.firstSliceInSequence = (dec.firstSliceInSequence \/ Nut = "EOS")
         /\ NoPicture => /\ UNCHANGED <<Skips, Picture, app.eosPresentInPu>>
                         /\ dec'.firstSliceInPicture = (dec.firstSliceInPicture \/ EndsPicture)
         /\ PrepareOutput => /\ UNCHANGED <<Skips, Picture>>
                             /\ dec'.firstSliceInPicture = (dec.firstSliceInPicture /\ Nut # "EOS")
                             /\ app'.eosPresentInPu = (app.eosPresentInPu /\ ~newPicture)
         /\ NoOutput => /\ UNCHANGED <<Skips, Picture, dec.firstSliceInPicture>>
                        /\ app'.eosPresentInPu = (app.eosPresentInPu /\ ~newPicture)
<1> USE DEF Typed, TypeOK, Picture, Place, Skips
<1>1. app \in App /\ dec \in Dec OBVIOUS
<1>2. ASSUME NEW a \in App, NEW d \in Dec, AfterPicture(a, d)
      PROVE  /\ app'.skipFrame = a.skipFrame /\ app'.skipFrameCounter = a.skipFrameCounter
             /\ app'.picSkipped = a.picSkipped /\ app'.eosPresentInPu = a.eosPresentInPu
             /\ dec'.skippedOnce = d.skippedOnce /\ dec'.curPic = d.curPic /\ dec'.filterable = d.filterable
             /\ dec'.picOutputFlag = d.picOutputFlag /\ dec'.firstSliceInPicture = d.firstSliceInPicture
             /\ dec'.firstSliceInSequence = (d.firstSliceInSequence \/ Nut = "EOS")
  <2>1. /\ \E e, g : app' = [a EXCEPT !.loopFiltered = e, !.gdrRecoveryPeriod = g]
        /\ \E p : dec' = [d EXCEPT !.firstSliceInSequence = @ \/ Nut = "EOS", !.prevGDRPOC = p]
    BY <1>2 DEF AfterPicture
  <2> QED BY <2>1 DEF App, Dec
<1>3. FinishPicture => /\ UNCHANGED <<Skips, app.eosPresentInPu, dec.curPic, dec.picOutputFlag>>
                       /\ dec'.firstSliceInPicture /\ ~dec'.filterable
                       /\ dec'.firstSliceInSequence = (dec.firstSliceInSequence \/ Nut = "EOS")
  <2> DEFINE a == [app EXCEPT !.listKnown = TRUE]
             d == [dec EXCEPT !.firstSliceInPicture = TRUE, !.filterable = FALSE]
  <2>1. /\ a \in App /\ d \in Dec
        /\ a.skipFrame = app.skipFrame /\ a.skipFrameCounter = app.skipFrameCounter
        /\ a.picSkipped = app.picSkipped /\ a.eosPresentInPu = app.eosPresentInPu
        /\ d.skippedOnce = dec.skippedOnce /\ d.curPic = dec.curPic /\ ~d.filterable
        /\ d.picOutputFlag = dec.picOutputFlag /\ d.firstSliceInPicture
        /\ d.firstSliceInSequence = dec.firstSliceInSequence
    BY <1>1 DEF App, Dec
  <2>2. FinishPicture => AfterPicture(a, d) BY DEF FinishPicture
  <2> HIDE DEF a, d
  <2> QED BY <1>2, <2>1, <2>2
<1>4. LeaveUnfinished => /\ UNCHANGED <<Skips, Place, dec.filterable, dec.curPic, dec.picOutputFlag>>
                         /\ dec'.firstSliceInSequence = (dec.firstSliceInSequence \/ Nut = "EOS")
  <2>1. LeaveUnfinished => AfterPicture(app, dec) BY DEF LeaveUnfinished
  <2> QED BY <1>1, <1>2, <2>1
<1>5. NoPicture => /\ UNCHANGED <<Skips, Picture, app.eosPresentInPu>>
                   /\ dec'.firstSliceInPicture = (dec.firstSliceInPicture \/ EndsPicture)
  BY <1>1 DEF NoPicture, Dec
<1>6. ASSUME NEW a \in App, app' = NextPictureUnit(a)
      PROVE  /\ app'.skipFrame = a.skipFrame /\ app'.skipFrameCounter = a.skipFrameCounter
             /\ app'.picSkipped = a.picSkipped
             /\ app'.eosPresentInPu = (a.eosPresentInPu /\ ~newPicture)
  BY <1>6 DEF NextPictureUnit, App
<1>7. PrepareOutput => /\ UNCHANGED <<Skips, Picture>>
                       /\ dec'.firstSliceInPicture = (dec.firstSliceInPicture /\ Nut # "EOS")
                       /\ app'.eosPresentInPu = (app.eosPresentInPu /\ ~newPicture)
  <2> SUFFICES ASSUME PrepareOutput PROVE /\ UNCHANGED <<Skips, Picture>>
                       /\ dec'.firstSliceInPicture = (dec.firstSliceInPicture /\ Nut # "EOS")
                       /\ app'.eosPresentInPu = (app.eosPresentInPu /\ ~newPicture)
    OBVIOUS
  <2>1. PICK o, n, f : app' = NextPictureUnit([app EXCEPT !.outputPresent = o, !.notYetDisplayed = n,
                                                          !.dpbFullness = f, !.cursor = 0])
    BY DEF PrepareOutput
  <2>2. dec' = [dec EXCEPT !.firstSliceInPicture = @ /\ Nut # "EOS"] BY DEF PrepareOutput
  <2>3. /\ app'.skipFrame = app.skipFrame /\ app'.skipFrameCounter = app.skipFrameCounter
        /\ app'.picSkipped = app.picSkipped
        /\ app'.eosPresentInPu = (app.eosPresentInPu /\ ~newPicture)
    BY <1>1, <2>1 DEF NextPictureUnit, App
  <2> QED BY <1>1, <2>2, <2>3 DEF Dec
<1>8. NoOutput => /\ UNCHANGED <<Skips, Picture, dec.firstSliceInPicture>>
                  /\ app'.eosPresentInPu = (app.eosPresentInPu /\ ~newPicture)
  <2>1. NoOutput => dec' = dec /\ app' = NextPictureUnit(app) BY DEF NoOutput
  <2> QED BY <1>1, <1>6, <2>1
<1> QED BY <1>3, <1>4, <1>5, <1>7, <1>8

\* The steps that count no slices.
Calm ==
  \/ NewPicture \/ ReadNal \/ FlushOne \/ FlushEnd \/ Drop \/ DecodeNonVcl \/ InsertUnavailable
  \/ LoseReference \/ ReadEnd \/ FinishPicture \/ LeaveUnfinished \/ FilterFreed \/ NoPicture
  \/ PrepareOutput \/ NoOutput \/ WriteOne \/ WriteEnd \/ EndOfStream \/ Ended \/ UNCHANGED vars

LEMMA CalmFields ==
  ASSUME Typed, Calm
  PROVE  /\ UNCHANGED <<app.skipFrame, app.skipFrameCounter, dec.skippedOnce, dec.picOutputFlag, dec.curPic>>
         /\ dec.firstSliceInSequence => dec'.firstSliceInSequence
         /\ dec'.filterable => dec.filterable
<1>1. CASE FinishPicture \/ LeaveUnfinished \/ NoPicture \/ PrepareOutput \/ NoOutput
  BY <1>1, FinishFields DEF Skips, Picture, Place
<1>2. CASE Drop \/ ReadEnd
  BY <1>2, ReadingFields DEF Skips, Picture
<1>3. CASE ~(FinishPicture \/ LeaveUnfinished \/ NoPicture \/ PrepareOutput \/ NoOutput) /\ ~(Drop \/ ReadEnd)
  <2>1. UNCHANGED <<Skips, Picture, Place>> BY <1>3, QuietFields DEF Calm
  <2> QED BY <2>1 DEF Skips, Picture
<1> QED BY <1>1, <1>2, <1>3

\* Where a step leads.
LEMMA CalmPlace ==
  ASSUME Calm
  PROVE  /\ UNCHANGED <<stream, options>>
         /\ pc' \in {"access", "refs", "returned"} => pc' = pc /\ UNCHANGED nal
BY DEF Calm, NewPicture, ReadNal, FlushOne, FlushEnd, Drop, DecodeNonVcl, InsertUnavailable, LoseReference,
       ReadEnd, FinishPicture, LeaveUnfinished, FilterFreed, NoPicture, PrepareOutput, NoOutput, WriteOne,
       WriteEnd, EndOfStream, Ended, vars

\* Those that do.
LEMMA SlicePlace ==
  /\ DecodeHeader => pc = "decode" /\ pc' = "access"
  /\ SkipSlice => pc = "access" /\ pc' = "returned"
  /\ AccessSlice => pc = "access" /\ pc' = "refs"
  /\ ActivatePicture \/ ContinuePicture => pc = "refs" /\ pc' \in {"returned", "aborted"}
  /\ Returned => pc = "returned" /\ pc' = "read"
  /\ DecodeHeader \/ SkipSlice \/ AccessSlice \/ ActivatePicture \/ ContinuePicture \/ Returned =>
       UNCHANGED <<stream, options, pos, nal, newPicture, written>>
BY DEF DecodeHeader, SkipSlice, AccessSlice, ActivatePicture, ContinuePicture, Returned, AfterRefPicList

\* Every step is one of these.
LEMMA StepKinds ==
  [Next]_vars => \/ Calm \/ DecodeHeader \/ SkipSlice \/ AccessSlice
                 \/ ActivatePicture \/ ContinuePicture \/ Returned
BY DEF Next, Calm

\* What is left to skip was set before the first picture, or by the round of
\* the loop that counts a skipped slice.
LEMMA CountsNext ==
  ASSUME Typed, Once, Counts, [Next]_vars
  PROVE  Counts'
<1>1. /\ app.skipFrame \in Int /\ app.skipFrameCounter \in Nat
      /\ app'.skipFrame \in Int /\ app'.skipFrameCounter \in Nat
  <2>1. app \in App /\ options.skipFrame \in Nat BY SkipFrameType DEF Typed, TypeOK
  <2>2. Typed' BY TypedNext
  <2>3. app' \in App /\ app'.skipFrameCounter \in 0 .. options'.skipFrame BY <2>2 DEF Typed, TypeOK, SkipCounts
  <2>4. options'.skipFrame \in Nat BY <2>2, DecoderAssumption DEF Typed, TypeOK, Options
  <2> QED BY <2>1, <2>3, <2>4 DEF App, Typed, SkipCounts
<1>2. CASE Calm
  <2>1. pc' = "returned" => IsSlice' = IsSlice BY <1>2, CalmPlace DEF IsSlice, Nut
  <2> QED BY <1>2, <2>1, CalmFields, CalmPlace DEF Counts
<1>3. CASE DecodeHeader
  BY <1>3, SliceFields, SlicePlace DEF Counts
<1>4. pc \in {"access", "refs"} => IsSlice
  BY DEF Once, SliceDecoded, Slice, IsSlice, Nut, Typed, TypeOK, NalRead
<1>5. FramesToSkip \in {app.skipFrame} \cup (IF app.skipFrame > 0 /\ dec.skippedOnce THEN {app.skipFrame - 1} ELSE {})
  BY DEF FramesToSkip
<1>6. CASE SkipSlice
  <2>1. IsSlice' BY <1>4, <1>6, SlicePlace DEF IsSlice, Nut
  <2>2. /\ UNCHANGED <<dec.firstSliceInSequence, app.skipFrameCounter>>
        /\ app'.skipFrame = FramesToSkip - 1 /\ dec'.skippedOnce
    BY <1>6, SliceFields DEF Picture
  <2> QED BY <1>1, <1>5, <1>6, <2>1, <2>2, SlicePlace DEF Counts
<1>7. CASE AccessSlice
  <2>1. UNCHANGED <<app.skipFrameCounter, dec.skippedOnce>> /\ app'.skipFrame = 0 /\ FramesToSkip = 0
    BY <1>7, SliceFields
  <2> QED BY <1>1, <1>5, <1>7, <2>1, SlicePlace DEF Counts
<1>8. CASE ActivatePicture \/ ContinuePicture
  <2>1. IsSlice' BY <1>4, <1>8, SlicePlace DEF IsSlice, Nut
  <2>2. UNCHANGED <<app.skipFrame, app.skipFrameCounter, dec.skippedOnce>> BY <1>8, DecodedFields DEF Skips
  <2> QED BY <1>1, <1>8, <2>1, <2>2, SlicePlace DEF Counts
<1>9. CASE Returned
  <2>1. /\ UNCHANGED <<dec.firstSliceInSequence, dec.skippedOnce>>
        /\ app'.skipFrame = (IF WillCount THEN app.skipFrame + 1 ELSE app.skipFrame)
    BY <1>9, DecodedFields DEF Picture
  <2> QED BY <1>1, <1>9, <2>1, SlicePlace DEF Counts, WillCount
<1> QED BY <1>2, <1>3, <1>6, <1>7, <1>8, <1>9, StepKinds

\* The NAL unit that was read last has been decoded, or nothing was.
LEMMA BoundNext ==
  ASSUME Typed, [Next]_vars
  PROVE  /\ UNCHANGED <<stream, options>> /\ Bound \in Nat
         /\ \/ Bound' = Bound
            \/ /\ Drop \/ DecodeNonVcl \/ SkipSlice \/ LoseReference \/ ActivatePicture \/ ContinuePicture
               /\ nal \in DOMAIN stream /\ Bound = nal /\ Bound' = nal + 1
               /\ pc' \notin {"flush", "decode", "access", "refs"}
<1>1. /\ nal \in Nat /\ pos \in Nat
      /\ pc \in {"flush", "decode", "access", "refs"} => nal \in DOMAIN stream /\ pos = nal + 1
  BY DEF Typed, TypeOK, NalRead
<1>2. CASE Drop \/ DecodeNonVcl \/ SkipSlice \/ LoseReference \/ ActivatePicture \/ ContinuePicture
  BY <1>1, <1>2 DEF Bound, Drop, DecodeNonVcl, SkipSlice, LoseReference, ActivatePicture, ContinuePicture, AfterRefPicList
<1>3. CASE NewPicture \/ ReadNal \/ FlushOne \/ FlushEnd
  BY <1>1, <1>3 DEF Bound, NewPicture, ReadNal, FlushOne, FlushEnd
<1>4. CASE DecodeHeader \/ AccessSlice \/ InsertUnavailable
  BY <1>1, <1>4 DEF Bound, DecodeHeader, AccessSlice, InsertUnavailable
<1>5. CASE Returned \/ ReadEnd \/ FinishPicture \/ LeaveUnfinished \/ FilterFreed \/ NoPicture
  BY <1>1, <1>5 DEF Bound, Returned, ReadEnd, FinishPicture, LeaveUnfinished, FilterFreed, NoPicture
<1>6. CASE PrepareOutput \/ NoOutput \/ WriteOne \/ WriteEnd \/ EndOfStream \/ Ended \/ UNCHANGED vars
  BY <1>1, <1>6 DEF Bound, PrepareOutput, NoOutput, WriteOne, WriteEnd, EndOfStream, Ended, vars
<1> QED BY <1>2, <1>3, <1>4, <1>5, <1>6 DEF Next

\* What the stream and the options hold.
LEMMA TidTypes ==
  ASSUME Typed
  PROVE  options.maxTid \in Nat /\ \A q \in DOMAIN stream : stream[q].tid \in Nat /\ stream[q].output \in BOOLEAN
<1>1. options.maxTid \in Nat BY DecoderAssumption DEF Typed, TypeOK, Options
<1>2. \A q \in DOMAIN stream : stream[q] \in NalUnit BY DEF Typed, TypeOK
<1> QED BY <1>1, <1>2 DEF NalUnit

\* The count of a CRA or GDR picture is put to zero when its slice has been
\* decoded, and a slice of a layer that is dropped is none of theirs.
LEMMA CountedAtCraNext ==
  ASSUME Typed, Once, Counts, CountedAtCra, [Next]_vars
  PROVE  CountedAtCra'
<1>1. app.skipFrame \in Int /\ app.skipFrame >= -1 /\ app.skipFrameCounter \in Nat /\ DOMAIN stream \subseteq Nat \ {0}
  BY SkipFrameType DEF Typed, TypeOK, SkipCounts
<1>2. UNCHANGED <<stream, options>> /\ Bound \in Nat BY BoundNext
<1>3. CASE SkipSlice \/ AccessSlice \/ ActivatePicture \/ ContinuePicture \/ LoseReference
  <2>1. CASE SkipSlice BY <2>1, SlicePlace DEF CountedAtCra
  <2>2. CASE AccessSlice BY <2>2, SliceFields DEF CountedAtCra
  <2>3. CASE ActivatePicture \/ ContinuePicture \/ LoseReference
    <3>1. pc = "refs" /\ UNCHANGED app.skipFrame
      BY <2>3, SlicePlace, DecodedFields, CalmFields DEF LoseReference, Skips, Calm
    <3> QED BY <3>1 DEF Counts, CountedAtCra
  <2> QED BY <1>3, <2>1, <2>2, <2>3
<1>4. CASE Returned
  <2>1. /\ UNCHANGED dec.firstSliceInSequence
        /\ app'.skipFrame = (IF WillCount THEN app.skipFrame + 1 ELSE app.skipFrame)
    BY <1>4, DecodedFields DEF Picture
  <2>2. /\ pc = "returned" /\ nal \in Nat /\ Bound = nal + 1 /\ Bound' = nal + 1
        /\ nal \in DOMAIN stream /\ Nut = stream[nal].nut /\ Nut \in SliceTypes
    BY <1>4, SlicePlace DEF Bound, Typed, TypeOK, NalRead, Nut, Counts, IsSlice
  <2> SUFFICES ASSUME NEW q \in DOMAIN stream, q < nal + 1,
                      \A r \in q .. nal + 1 - 1 : stream[r].nut \in SliceTypes =>
                         stream[r].nut \in {"CRA", "GDR"} /\ stream[r].tid <= options.maxTid
               PROVE  dec.firstSliceInSequence \/ app'.skipFrame = 0
    BY <1>2, <2>1, <2>2 DEF CountedAtCra
  <2>3. Nut \in {"CRA", "GDR"}
    <3>1. nal \in q .. nal + 1 - 1 BY <1>1, <2>2
    <3> QED BY <2>2, <3>1
  <2> QED BY <1>1, <2>1, <2>2, <2>3 DEF Counts, WillCount
<1>5. CASE /\ DecodeHeader \/ Calm
           /\ ~(SkipSlice \/ AccessSlice \/ ActivatePicture \/ ContinuePicture \/ LoseReference)
  <2>1. /\ UNCHANGED app.skipFrame
        /\ dec.firstSliceInSequence => dec'.firstSliceInSequence
    BY <1>5, CalmFields, SliceFields
  <2>2. pc # "returned" \/ pc' = "returned"
    BY <1>5, SlicePlace DEF Calm, NewPicture, ReadNal, FlushOne, FlushEnd, Drop, DecodeNonVcl, InsertUnavailable,
       ReadEnd, FinishPicture, LeaveUnfinished, FilterFreed, NoPicture, PrepareOutput, NoOutput, WriteOne,
       WriteEnd, EndOfStream, Ended, vars
  <2>3. CASE Bound' = Bound
    BY <1>2, <2>1, <2>2, <2>3 DEF CountedAtCra
  <2>4. CASE Bound' # Bound
    <3>1. /\ Drop \/ DecodeNonVcl
          /\ nal \in DOMAIN stream /\ nal \in Nat /\ Bound = nal /\ Bound' = nal + 1
      <4>1. nal \in Nat BY DEF Typed, TypeOK
      <4> QED BY <1>5, <2>4, <4>1, BoundNext
    <3>2. ~(stream[nal].nut \in SliceTypes /\ stream[nal].tid <= options.maxTid)
      <4>1. stream[nal].tid \in Nat /\ options.maxTid \in Nat
        BY <3>1, TidTypes
      <4> QED BY <1>1, <3>1, <4>1 DEF Drop, DecodeNonVcl, IsSlice, Nut
    <3> SUFFICES ASSUME pc' # "returned", NEW q \in DOMAIN stream, q < nal + 1, stream[q].nut \in SliceTypes,
                        \A r \in q .. nal + 1 - 1 : stream[r].nut \in SliceTypes =>
                           stream[r].nut \in {"CRA", "GDR"} /\ stream[r].tid <= options.maxTid
                 PROVE  dec'.firstSliceInSequence \/ app'.skipFrame = 0
      BY <1>2, <3>1 DEF CountedAtCra
    <3>3. q < nal /\ \A r \in q .. nal - 1 : r \in q .. nal + 1 - 1
      <4>1. nal \in q .. nal + 1 - 1 BY <1>1, <3>1
      <4> QED BY <1>1, <3>1, <3>2, <4>1
    <3> QED BY <2>1, <2>2, <3>1, <3>3 DEF CountedAtCra
  <2> QED BY <2>3, <2>4
<1> QED BY <1>3, <1>4, <1>5, StepKinds

\* A picture ends where a header comes next, or with an EOS.
LEMMA UnitEndsNext ==
  ASSUME Typed, UnitEnds, [Next]_vars
  PROVE  UnitEnds'
<1>1. /\ pc \in {"flush", "decode", "access", "refs", "returned", "read"} => nal # 0 /\ ~newPicture
      /\ stream' = stream
  BY BoundNext DEF Typed, TypeOK, NalRead, UnitEnds
<1>2. CASE NewPicture
  BY <1>1, <1>2 DEF NewPicture, UnitEnds, AtEof, Nut
<1>3. CASE ReadNal
  BY <1>3 DEF ReadNal, UnitEnds
<1>4. CASE ReadEnd
  <2>1. UNCHANGED <<stream, nal, pos, newPicture>> /\ pc = "read" /\ pc' \in {"finish", "aborted"} BY <1>4 DEF ReadEnd
  <2>2. Nut' = Nut /\ AtEof' = AtEof BY <2>1 DEF Nut, AtEof
  <2> QED BY <1>1, <1>4, <2>1, <2>2, ReadingFields DEF UnitEnds
<1>5. CASE FinishPicture \/ LeaveUnfinished \/ NoPicture
  <2>1. UNCHANGED <<stream, nal, pos, newPicture>> /\ pc = "finish" /\ pc' = "output"
    BY <1>5 DEF FinishPicture, LeaveUnfinished, NoPicture
  <2>2. Nut' = Nut BY <2>1 DEF Nut
  <2>3. app'.eosPresentInPu = app.eosPresentInPu
    BY <1>5, FinishFields DEF Place
  <2>4. newPicture => dec'.firstSliceInPicture
    <3>1. LeaveUnfinished => ~newPicture BY <2>1 DEF UnitEnds, LeaveUnfinished, Filters
    <3> QED BY <1>5, <3>1, FinishFields DEF EndsPicture
  <2> QED BY <2>1, <2>2, <2>3, <2>4 DEF UnitEnds
<1>6. CASE ~(NewPicture \/ ReadNal \/ ReadEnd \/ FinishPicture \/ LeaveUnfinished \/ NoPicture \/ UNCHANGED vars)
  <2>1. UNCHANGED <<nal, newPicture>> /\ pc' \notin {"finish", "output"}
    BY <1>6 DEF Next, FlushOne, FlushEnd, Drop, DecodeNonVcl, InsertUnavailable, LoseReference, DecodeHeader,
       SkipSlice, AccessSlice, ActivatePicture, ContinuePicture, AfterRefPicList, Returned,
       FilterFreed, PrepareOutput, NoOutput, WriteOne, WriteEnd, EndOfStream, Ended, vars
  <2> QED BY <2>1 DEF UnitEnds
<1>7. CASE UNCHANGED vars
  BY <1>7 DEF vars, UnitEnds, AtEof, Nut
<1> QED BY <1>2, <1>3, <1>4, <1>5, <1>6, <1>7

\* Where the next NAL unit would start a picture, none is read before the
\* current picture is finished.
LEMMA NoHeaderIsRead ==
  ASSUME Typed, ReadNal, ~dec.firstSliceInPicture
  PROVE  ~IsHeader(stream[pos])
<1> DEFINE decisive == {q \in pos .. Len(stream) : stream[q].nut # "SEI"}
           Next1(q) == q \in decisive /\ \A r \in decisive : q <= r
<1> SUFFICES ASSUME IsHeader(stream[pos]) PROVE FALSE
  OBVIOUS
<1>1. pos \in Nat /\ pos <= Len(stream) /\ Len(stream) \in Nat /\ ~IsNewPicture
  BY DEF ReadNal, AtEof, Typed, TypeOK
<1>2. pos \in decisive /\ \A q \in decisive : pos <= q
  BY <1>1 DEF IsHeader, SliceTypes
<1>3. (CHOOSE q \in decisive : \A r \in decisive : q <= r) = pos
  <2>1. \A q \in decisive : (\A r \in decisive : q <= r) => q = pos
    BY <1>1, <1>2
  <2> HIDE DEF decisive
  <2> QED BY <1>2, <2>1
<1>4. /\ decisive # {}
      /\ stream[pos].nut \in SliceTypes \cup {"PH"}
      /\ stream[pos].nut \in SliceTypes => stream[pos].phInSh
  BY <1>2 DEF IsHeader, SliceTypes
<1> QED BY <1>1, <1>3, <1>4 DEF IsNewPicture

\* q is the slice the current picture would go on with, or one that was dropped.
GoesOn(q, b) ==
  /\ q \in DOMAIN stream /\ q < b /\ stream[q].nut \in SliceTypes
  /\ \A r \in q + 1 .. b - 1 : ~IsHeader(stream[r])
  /\ stream[q].tid > options.maxTid \/ q = dec.curPic

\* A slice that does not start a picture goes on with the one before it: with
\* the current one, when that was decoded.
LEMMA InsidePictureNext ==
  ASSUME Typed, Once, UnitEnds, InsidePicture, [Next]_vars
  PROVE  InsidePicture'
<1>1. UNCHANGED <<stream, options>> /\ Bound \in Nat /\ DOMAIN stream \subseteq Nat \ {0}
  BY BoundNext DEF Typed, TypeOK
<1>2. InsidePicture <=>
        (~dec.firstSliceInPicture =>
           /\ pc \in {"flush", "decode", "access", "refs"} => ~IsHeader(stream[nal])
           /\ app.eosPresentInPu \/ \E q : GoesOn(q, Bound))
  BY DEF InsidePicture, GoesOn
<1>3. InsidePicture' <=>
        (~dec'.firstSliceInPicture =>
           /\ pc' \in {"flush", "decode", "access", "refs"} => ~IsHeader(stream[nal'])
           /\ app'.eosPresentInPu \/ \E q : GoesOn(q, Bound)')
  BY <1>1 DEF InsidePicture, GoesOn
<1>4. CASE ReadNal
  <2>1. UNCHANGED <<Place, Picture>> BY <1>4, QuietFields
  <2>2. nal' = pos /\ UNCHANGED dec BY <1>4 DEF ReadNal
  <2>3. Bound' = Bound BY <1>4, BoundNext DEF ReadNal, Drop, DecodeNonVcl, SkipSlice, LoseReference, ActivatePicture, ContinuePicture
  <2>4. \A q : GoesOn(q, Bound)' <=> GoesOn(q, Bound) BY <1>1, <2>2, <2>3 DEF GoesOn
  <2> QED BY <1>2, <1>3, <1>4, <2>1, <2>2, <2>4, NoHeaderIsRead DEF Place
<1>5. CASE Drop \/ ActivatePicture
  <2>1. pc' \notin {"flush", "decode", "access", "refs"} /\ pc \in {"decode", "refs"} /\ UNCHANGED <<nal, pos>>
    BY <1>5 DEF Drop, ActivatePicture, AfterRefPicList
  <2>2. /\ nal \in DOMAIN stream /\ Bound = nal /\ Bound' = nal + 1 /\ Nut = stream[nal].nut
    BY <2>1 DEF Bound, Typed, TypeOK, NalRead, Nut
  <2>3. CASE ActivatePicture
    <3>1. dec'.curPic = nal BY <2>3, DecodedFields
    <3>2. stream[nal].nut \in SliceTypes BY <2>3 DEF Once, SliceDecoded, Slice, ActivatePicture
    <3>3. GoesOn(nal, Bound)' BY <1>1, <2>1, <2>2, <3>1, <3>2 DEF GoesOn
    <3> QED BY <1>3, <2>1, <3>3
  <2>4. CASE Drop
    <3>1. /\ dec'.curPic = dec.curPic /\ app'.eosPresentInPu = app.eosPresentInPu
          /\ dec'.firstSliceInPicture = (dec.firstSliceInPicture /\ ~IsSlice)
      BY <2>4, ReadingFields DEF Picture
    <3>2. CASE IsSlice
      <4>1. GoesOn(nal, Bound)' BY <1>1, <2>2, <2>4, <3>2 DEF GoesOn, Drop, IsSlice
      <4> QED BY <1>3, <2>1, <4>1
    <3>3. CASE ~IsSlice /\ ~dec.firstSliceInPicture
      <4>1. ~IsHeader(stream[nal]) BY <1>2, <2>1, <3>3
      <4>2. \A q : GoesOn(q, Bound) => GoesOn(q, Bound)' BY <1>1, <2>2, <3>1, <4>1 DEF GoesOn
      <4> QED BY <1>2, <1>3, <2>1, <3>1, <3>3, <4>2
    <3>4. CASE ~IsSlice /\ dec.firstSliceInPicture
      BY <1>3, <3>1, <3>4
    <3> QED BY <3>2, <3>3, <3>4
  <2> QED BY <1>5, <2>3, <2>4
<1>6. CASE DecodeNonVcl \/ SkipSlice \/ LoseReference \/ ContinuePicture
  <2>1. pc' \notin {"flush", "decode", "access", "refs"} /\ pc \in {"decode", "access", "refs"} /\ UNCHANGED <<nal, pos>>
    BY <1>6 DEF DecodeNonVcl, SkipSlice, LoseReference, ContinuePicture, AfterRefPicList
  <2>2. /\ nal \in DOMAIN stream /\ Bound = nal /\ Bound' = nal + 1
    BY <2>1 DEF Bound, Typed, TypeOK, NalRead
  <2>3. UNCHANGED <<Place, dec.curPic>>
    BY <1>6, QuietFields, SliceFields, DecodedFields DEF Picture
  <2>4. \A q : ~IsHeader(stream[nal]) /\ GoesOn(q, Bound) => GoesOn(q, Bound)' BY <1>1, <2>2, <2>3 DEF GoesOn
  <2> QED BY <1>2, <1>3, <2>1, <2>3, <2>4 DEF Place
<1>7. CASE ~(ReadNal \/ Drop \/ ActivatePicture \/ DecodeNonVcl \/ SkipSlice \/ LoseReference \/ ContinuePicture)
  <2>1. Bound' = Bound BY <1>7, BoundNext
  <2>2. pc' \in {"flush", "decode", "access", "refs"} =>
          pc \in {"flush", "decode", "access", "refs"} /\ nal' = nal
    BY <1>7 DEF Next, NewPicture, FlushOne, FlushEnd, InsertUnavailable, DecodeHeader, AccessSlice, Returned, ReadEnd,
       FinishPicture, LeaveUnfinished, FilterFreed, NoPicture, PrepareOutput, NoOutput, WriteOne, WriteEnd,
       EndOfStream, Ended, vars
  <2>3. dec'.curPic = dec.curPic
    BY <1>7, StepKinds, CalmFields, SliceFields, DecodedFields DEF Picture
  <2>4. \A q : GoesOn(q, Bound) => GoesOn(q, Bound)' BY <1>1, <2>1, <2>3 DEF GoesOn
  <2>5. ~dec'.firstSliceInPicture =>
          \/ ~dec.firstSliceInPicture /\ (app.eosPresentInPu => app'.eosPresentInPu)
          \/ app'.eosPresentInPu /\ pc' \notin {"flush", "decode", "access", "refs"}
    <3>1. CASE FinishPicture \/ LeaveUnfinished \/ NoPicture BY <3>1, FinishFields DEF Place
    <3>2. CASE PrepareOutput \/ NoOutput
      <4>1. newPicture => dec.firstSliceInPicture BY <3>2 DEF UnitEnds, PrepareOutput, NoOutput
      <4>2. CASE PrepareOutput
        <5>1. /\ pc' \notin {"flush", "decode", "access", "refs"}
              /\ Nut = "EOS" => app.eosPresentInPu /\ ~newPicture
          BY <4>2 DEF PrepareOutput, UnitEnds, Nut
        <5> QED BY <4>1, <4>2, <5>1, FinishFields
      <4>3. CASE NoOutput BY <4>1, <4>3, FinishFields
      <4> QED BY <3>2, <4>2, <4>3
    <3>3. CASE ReadEnd BY <3>3, ReadingFields
    <3>4. CASE DecodeHeader \/ AccessSlice \/ Returned BY <3>4, SliceFields, DecodedFields DEF Place
    <3>5. CASE ~(FinishPicture \/ LeaveUnfinished \/ NoPicture \/ PrepareOutput \/ NoOutput \/ ReadEnd \/ DecodeHeader
                 \/ AccessSlice \/ Returned)
      BY <1>7, <3>5, QuietFields DEF Next, Place
    <3> QED BY <3>1, <3>2, <3>3, <3>4, <3>5
  <2> QED BY <1>2, <1>3, <2>1, <2>2, <2>4, <2>5, <1>1
<1> QED BY <1>4, <1>5, <1>6, <1>7

\* DecApp notices that a slice was skipped, except before the first picture.
LEMMA SkippedIsCounted ==
  ASSUME Typed, Once, Counts, CountedAtCra, PicturesAreWhole(stream), SkipSlice, ~dec.firstSliceInSequence
  PROVE  WillCount'
<1>1. /\ app.skipFrame \in Nat /\ app.skipFrameCounter = app.skipFrame
      /\ pc = "access" /\ nal \in DOMAIN stream /\ Bound = nal /\ Nut = stream[nal].nut
      /\ DOMAIN stream \subseteq Nat \ {0}
      /\ Nut \in SliceTypes /\ stream[nal].tid <= options.maxTid
  BY SkipFrameType DEF SkipSlice, Counts, Bound, Typed, TypeOK, NalRead, Nut, Once, SliceDecoded, Slice
<1>2. /\ app'.skipFrameCounter = app.skipFrame /\ app'.skipFrame = FramesToSkip - 1 /\ Nut' = Nut
  BY <1>1, SliceFields DEF SkipSlice, Nut
<1>3. CASE FramesToSkip = 1 /\ app.skipFrame = 1 /\ Nut \in {"CRA", "GDR"}
  <2>1. dec.skippedOnce BY <1>1, <1>3 DEF Counts
  <2>2. ~stream[nal].start BY <1>1, <1>3, <2>1 DEF FramesToSkip
  <2>3. PICK p \in DOMAIN stream : p < nal /\ SamePicture(stream, p, nal)
    BY <1>1, <2>2 DEF PicturesAreWhole
  <2>4. ASSUME NEW r \in p .. nal - 1, stream[r].nut \in SliceTypes
        PROVE  stream[r].nut \in {"CRA", "GDR"} /\ stream[r].tid <= options.maxTid
    <3>1. r \in DOMAIN stream /\ SamePicture(stream, r, nal)
      BY <1>1, <2>3, <2>4 DEF SamePicture, Typed, TypeOK
    <3> QED BY <1>1, <1>3, <3>1 DEF PicturesAreWhole
  <2>5. stream[p].nut \in SliceTypes BY <2>3 DEF SamePicture
  <2> QED BY <1>1, <1>3, <2>3, <2>4, <2>5 DEF CountedAtCra
<1>4. CASE ~(FramesToSkip = 1 /\ app.skipFrame = 1 /\ Nut \in {"CRA", "GDR"})
  <2>1. FramesToSkip \in {app.skipFrame} \cup (IF app.skipFrame > 0 THEN {app.skipFrame - 1} ELSE {})
    BY DEF FramesToSkip
  <2>2. app'.skipFrame < IF app'.skipFrameCounter = 1 /\ Nut' \in {"GDR", "CRA"} THEN 0 ELSE app'.skipFrameCounter
    BY <1>1, <1>2, <1>4, <2>1
  <2> QED BY <2>2 DEF WillCount
<1> QED BY <1>3, <1>4

\* A slice that continues a picture continues the current one.
LEMMA ContinuesCurrent ==
  ASSUME Typed, Once, InsidePicture, PicturesAreWhole(stream), ContinuePicture, ~app.eosPresentInPu
  PROVE  stream[nal].output = stream[dec.curPic].output
<1>1. /\ pc = "refs" /\ ~dec.firstSliceInPicture /\ nal \in DOMAIN stream /\ Bound = nal
      /\ DOMAIN stream \subseteq Nat \ {0}
      /\ stream[nal].nut \in SliceTypes /\ stream[nal].tid <= options.maxTid
  BY DEF ContinuePicture, Bound, Typed, TypeOK, NalRead, Once, SliceDecoded, Slice
<1>2. ~IsHeader(stream[nal]) BY <1>1 DEF InsidePicture
<1>3. PICK q \in DOMAIN stream :
        /\ q < nal /\ stream[q].nut \in SliceTypes
        /\ \A r \in q + 1 .. nal - 1 : ~IsHeader(stream[r])
        /\ stream[q].tid > options.maxTid \/ q = dec.curPic
  BY <1>1 DEF InsidePicture
<1>4. SamePicture(stream, q, nal) BY <1>1, <1>2, <1>3 DEF SamePicture
<1>5. stream[q].tid = stream[nal].tid /\ stream[q].output = stream[nal].output
  BY <1>1, <1>4 DEF PicturesAreWhole
<1> QED BY <1>1, <1>3, <1>5, TidTypes

\* The flag is set by every slice header, decoded or not; a slice that is not
\* decoded is counted before the next picture is finished.
LEMMA FlagOfCurrentNext ==
  ASSUME Typed, Once, Counts, CountedAtCra, UnitEnds, InsidePicture, FlagOfCurrent,
         PicturesAreWhole(stream), [Next]_vars
  PROVE  FlagOfCurrent'
<1>1. UNCHANGED <<stream, options>> BY BoundNext
<1>2. CASE DecodeHeader
  <2>1. UNCHANGED nal /\ pc' = "access" BY <1>2, SlicePlace
  <2> QED BY <1>1, <1>2, <2>1, SliceFields DEF FlagOfCurrent
<1>3. CASE SkipSlice
  <2>1. UNCHANGED Picture /\ pc' = "returned" BY <1>3, SlicePlace, SliceFields
  <2>2. dec'.firstSliceInSequence \/ WillCount' BY <1>3, <2>1, SkippedIsCounted DEF Picture
  <2> QED BY <2>1, <2>2 DEF FlagOfCurrent
<1>4. CASE AccessSlice
  <2>1. UNCHANGED <<Picture, nal>> /\ pc = "access" /\ pc' = "refs" BY <1>4, SlicePlace, SliceFields
  <2> QED BY <1>1, <2>1 DEF FlagOfCurrent, Picture
<1>5. CASE ActivatePicture
  <2>1. /\ pc = "refs" /\ pc' \in {"returned", "aborted"} /\ UNCHANGED dec.picOutputFlag /\ dec'.curPic = nal
    BY <1>5, SlicePlace, DecodedFields
  <2> QED BY <1>1, <2>1 DEF FlagOfCurrent, MeansCurrent
<1>6. CASE ContinuePicture
  <2>1. /\ pc = "refs" /\ pc' \in {"returned", "aborted"}
        /\ UNCHANGED <<dec.picOutputFlag, dec.curPic, app.eosPresentInPu>>
    BY <1>6, SlicePlace, DecodedFields DEF Place
  <2> QED BY <1>1, <1>6, <2>1, ContinuesCurrent DEF FlagOfCurrent, MeansCurrent
<1>7. CASE Returned
  <2>1. pc = "returned" /\ pc' = "read" /\ UNCHANGED <<nal, Picture, Place>>
        /\ app'.picSkipped = (app.picSkipped \/ WillCount)
    BY <1>7, SlicePlace, DecodedFields
  <2>2. IsSlice /\ IsSlice' BY <1>1, <2>1 DEF Counts, IsSlice, Nut
  <2> QED BY <1>1, <2>1, <2>2 DEF FlagOfCurrent, MeansCurrent, HasPicture, Picture, Place
<1>8. CASE Drop
  <2>1. app'.picSkipped /\ pc' = "read" BY <1>8, ReadingFields DEF Drop
  <2> QED BY <2>1 DEF FlagOfCurrent, HasPicture
<1>9. CASE Calm /\ ~Drop
  <2>1. /\ UNCHANGED <<dec.picOutputFlag, dec.curPic>>
        /\ dec.firstSliceInSequence => dec'.firstSliceInSequence
        /\ dec'.filterable => dec.filterable
    BY <1>9, CalmFields
  <2>2. UNCHANGED app.picSkipped
    <3>1. CASE FinishPicture \/ LeaveUnfinished \/ NoPicture \/ PrepareOutput \/ NoOutput \/ ReadEnd
      BY <3>1, FinishFields, ReadingFields DEF Skips
    <3>2. CASE ~(FinishPicture \/ LeaveUnfinished \/ NoPicture \/ PrepareOutput \/ NoOutput \/ ReadEnd)
      BY <1>9, <3>2, QuietFields DEF Skips, Calm
    <3> QED BY <3>1, <3>2
  <2>3. MeansCurrent' = MeansCurrent /\ (HasPicture' => HasPicture)
    BY <1>1, <2>1, <2>2 DEF MeansCurrent, HasPicture
  <2>4. CASE pc' \in {"access", "refs", "returned"}
    <3>1. pc' = pc /\ UNCHANGED nal BY <1>9, <2>4, CalmPlace
    <3>2. pc = "returned" => UNCHANGED vars
      BY <1>9, <3>1 DEF Calm, NewPicture, ReadNal, FlushOne, FlushEnd, DecodeNonVcl, InsertUnavailable, LoseReference, ReadEnd,
         FinishPicture, LeaveUnfinished, FilterFreed, NoPicture, PrepareOutput, NoOutput, WriteOne, WriteEnd, EndOfStream, Ended
    <3>3. pc = "returned" => (WillCount' = WillCount) /\ UNCHANGED app.eosPresentInPu
      BY <3>2 DEF WillCount, Nut, vars
    <3> QED BY <1>1, <2>1, <2>3, <2>4, <3>1, <3>2, <3>3 DEF FlagOfCurrent, vars
  <2>5. CASE pc' \notin {"access", "refs", "returned"}
    <3>1. pc' # "aborted" =>
            /\ pc \notin {"access", "refs", "returned", "aborted"}
            /\ pc = "read" /\ IsSlice /\ app.eosPresentInPu => UNCHANGED vars
      BY <1>9, <2>5 DEF Calm, NewPicture, ReadNal, FlushOne, FlushEnd, DecodeNonVcl, InsertUnavailable, LoseReference, ReadEnd,
         FinishPicture, LeaveUnfinished, FilterFreed, NoPicture, PrepareOutput, NoOutput, WriteOne, WriteEnd, EndOfStream, Ended,
         vars, LegalAfterEos, IsSlice, SliceTypes
    <3>2. UNCHANGED vars => IsSlice' = IsSlice /\ UNCHANGED <<pc, app>> BY DEF vars, IsSlice, Nut
    <3> QED BY <2>1, <2>3, <2>5, <3>1, <3>2 DEF FlagOfCurrent
  <2> QED BY <2>4, <2>5
<1> QED BY <1>2, <1>3, <1>4, <1>5, <1>6, <1>7, <1>8, <1>9, StepKinds

\* A picture waits for output if it did before, or was finished by this step;
\* what is written has been waiting.
LEMMA BuffersNext ==
  ASSUME Typed, [Next]_vars
  PROVE  /\ \A i \in DOMAIN listPic' : listPic'[i].neededForOutput =>
              \/ \E j \in DOMAIN listPic : listPic[j].neededForOutput /\ listPic'[i].pic = listPic[j].pic
              \/ FinishPicture /\ listPic'[i].pic = dec.curPic /\ dec.picOutputFlag
         /\ \A n \in DOMAIN written' :
              \/ n \in DOMAIN written /\ written'[n] = written[n]
              \/ \E j \in DOMAIN listPic : listPic[j].neededForOutput /\ written'[n] = listPic[j].pic
<1> DEFINE Kept ==
      /\ DOMAIN listPic' \subseteq DOMAIN listPic
      /\ \A i \in DOMAIN listPic' :
           /\ listPic'[i].pic = listPic[i].pic
           /\ listPic'[i].neededForOutput => listPic[i].neededForOutput
    Stored ==
      \E k : \A i \in DOMAIN listPic' :
        \/ i = k /\ ~listPic'[i].neededForOutput
        \/ /\ i \in DOMAIN listPic /\ listPic'[i].pic = listPic[i].pic
           /\ listPic'[i].neededForOutput = listPic[i].neededForOutput
    Finished ==
      FinishPicture /\ \A i \in DOMAIN listPic' : listPic'[i].neededForOutput =>
        \/ \E j \in DOMAIN listPic : listPic[j].neededForOutput /\ listPic'[i].pic = listPic[j].pic
        \/ listPic'[i].pic = dec.curPic /\ dec.picOutputFlag
    WroteOne ==
      \E j \in DOMAIN listPic : listPic[j].neededForOutput /\ written' = Append(written, listPic[j].pic)
<1>1. /\ listPic \in Seq(Buffer) /\ written \in Seq(Nat)
      /\ \A i \in DOMAIN listPic : listPic[i] \in Buffer /\ listPic[i].pic \in Nat
  <2>1. \A i \in DOMAIN listPic : listPic[i] \in Buffer BY DEF Typed, TypeOK
  <2> QED BY <2>1 DEF Buffer, Typed, TypeOK
<1> SUFFICES (Kept \/ Stored \/ Finished) /\ (written' = written \/ WroteOne)
  <2>1. ASSUME Kept \/ Stored \/ Finished, NEW i \in DOMAIN listPic', listPic'[i].neededForOutput
        PROVE \/ \E j \in DOMAIN listPic : listPic[j].neededForOutput /\ listPic'[i].pic = listPic[j].pic
              \/ FinishPicture /\ listPic'[i].pic = dec.curPic /\ dec.picOutputFlag
    BY <2>1
  <2>2. ASSUME written' = written \/ WroteOne, NEW n \in DOMAIN written'
        PROVE \/ n \in DOMAIN written /\ written'[n] = written[n]
              \/ \E j \in DOMAIN listPic : listPic[j].neededForOutput /\ written'[n] = listPic[j].pic
    <3>1. CASE written' = written BY <2>2, <3>1
    <3>2. CASE WroteOne
      <4>1. PICK j \in DOMAIN listPic : listPic[j].neededForOutput /\ written' = Append(written, listPic[j].pic)
        BY <3>2
      <4>2. written' \in Seq(Nat) /\ Len(written') = Len(written) + 1 /\ n \in 1 .. Len(written) + 1
        BY <1>1, <2>2, <4>1
      <4>3. IF n = Len(written) + 1 THEN written'[n] = listPic[j].pic
            ELSE n \in DOMAIN written /\ written'[n] = written[n]
        BY <1>1, <4>1, <4>2
      <4> QED BY <4>1, <4>3
    <3> QED BY <2>2, <3>1, <3>2
  <2> QED BY <2>1, <2>2
<1>2. CASE FlushOne \/ WriteOne
  <2>1. PICK i \in DOMAIN listPic :
          /\ listPic[i].neededForOutput
          /\ listPic' = [listPic EXCEPT ![i] = Written(listPic[i])]
          /\ written' = Append(written, listPic[i].pic)
    BY <1>2 DEF FlushOne, WriteOne, ToWrite, Waiting
  <2>2. Kept BY <1>1, <2>1, WrittenSpec, ExceptType
  <2> QED BY <2>1, <2>2
<1>3. CASE FlushEnd
  BY <1>3 DEF FlushEnd
<1>4. CASE DecodeHeader
  <2>1. /\ written' = written /\ stream[nal] \in NalUnit /\ dec \in Dec
        /\ listPic' = listPic \/ listPic' = WithoutPriorOutput(listPic, SlicePoc(stream[nal]))
    BY <1>4 DEF DecodeHeader, Typed, TypeOK, NalRead
  <2>2. CASE listPic' = listPic BY <2>1, <2>2
  <2>3. CASE listPic' # listPic
    <3> DEFINE poc == SlicePoc(stream[nal])
               l   == WithoutPriorOutput(listPic, poc)
    <3>1. poc \in Int BY <2>1, SlicePocType
    <3> HIDE DEF poc
    <3>2. l \in {WithoutOutput(listPic), WithoutPriorOutput(listPic, poc)} OBVIOUS
    <3>3. /\ DOMAIN l = DOMAIN listPic
          /\ \A i \in DOMAIN listPic :
               /\ l[i].pic = listPic[i].pic
               /\ l[i].neededForOutput => listPic[i].neededForOutput
      BY ONLY <1>1, <3>1, <3>2, WithoutOutputSpec
    <3>4. listPic' = l BY <2>1, <2>3 DEF poc
    <3> HIDE DEF l
    <3>5. Kept BY <3>3, <3>4
    <3> QED BY <2>1, <3>5
  <2> QED BY <2>2, <2>3
<1>5. ASSUME NEW list \in Seq(Buffer), DOMAIN list = DOMAIN listPic,
             \A i \in DOMAIN listPic :
               /\ list[i].pic = listPic[i].pic
               /\ list[i].neededForOutput = listPic[i].neededForOutput,
             NEW buf \in Buffer, ~buf.neededForOutput, listPic' = Store(list, buf)
      PROVE  Stored
  <2>1. PICK k : \A i \in DOMAIN Store(list, buf) :
                   IF i = k THEN Store(list, buf)[i] = buf
                   ELSE i \in DOMAIN list /\ Store(list, buf)[i] = list[i]
    BY <1>5, StoreSpec
  <2>2. \A i \in DOMAIN listPic' :
          \/ i = k /\ ~listPic'[i].neededForOutput
          \/ /\ i \in DOMAIN listPic /\ listPic'[i].pic = listPic[i].pic
             /\ listPic'[i].neededForOutput = listPic[i].neededForOutput
    BY <1>5, <2>1
  <2> QED BY <2>2
<1>6. CASE InsertUnavailable
  <2>1. PICK p \in Noticed :
          listPic' = Store(listPic, [pic |-> 0, poc |-> p, referenced |-> TRUE,
                                     neededForOutput |-> FALSE, reconstructed |-> TRUE])
    BY <1>6 DEF InsertUnavailable
  <2>2. p \in Int
    <3>1. stream[nal] \in NalUnit BY <1>6 DEF InsertUnavailable, Typed, TypeOK, NalRead
    <3>2. stream[nal].active \subseteq Int /\ dec.poc \in Int BY <3>1 DEF NalUnit, Dec, Typed, TypeOK
    <3> QED BY <2>1, <3>2 DEF Noticed, Missing
  <2> DEFINE buf == [pic |-> 0, poc |-> p, referenced |-> TRUE, neededForOutput |-> FALSE, reconstructed |-> TRUE]
  <2>3. buf \in Buffer /\ ~buf.neededForOutput /\ listPic' = Store(listPic, buf) BY <2>1, <2>2 DEF Buffer
  <2> HIDE DEF buf
  <2>4. Stored BY <1>1, <1>5, <2>3
  <2> QED BY <1>6, <2>4 DEF InsertUnavailable
<1>7. CASE ActivatePicture
  <2> DEFINE buf == [pic |-> nal, poc |-> dec.poc, referenced |-> TRUE,
                     neededForOutput |-> FALSE, reconstructed |-> FALSE]
             idr == Nut = "IDR"
             marked == Marked(listPic, dec.poc, stream[nal].rpl, idr)
  <2>1. nal \in Nat /\ dec.poc \in Int BY DEF Dec, Typed, TypeOK
  <2>2. buf \in Buffer /\ ~buf.neededForOutput BY <2>1 DEF Buffer
  <2>3. idr \in BOOLEAN OBVIOUS
  <2>4. listPic' = Store(marked, buf) /\ written' = written BY <1>7 DEF ActivatePicture
  <2> HIDE DEF buf, idr
  <2>5. marked \in Seq(Buffer) /\ DOMAIN marked = DOMAIN listPic BY <1>1, <2>3, MarkedSpec
  <2>6. \A i \in DOMAIN listPic : /\ marked[i].pic = listPic[i].pic
                                  /\ marked[i].neededForOutput = listPic[i].neededForOutput
    BY ONLY <1>1, <2>3, MarkedSpec
  <2> HIDE DEF marked
  <2>7. Stored BY <1>5, <2>2, <2>4, <2>5, <2>6
  <2> QED BY <2>4, <2>7
<1>8. CASE ContinuePicture
  <2> DEFINE k == IndexOf(listPic, dec.curPic)
             buf == [listPic[k] EXCEPT !.poc = dec.poc, !.referenced = TRUE]
  <2>1. listPic' = [listPic EXCEPT ![k] = buf] /\ written' = written BY <1>8 DEF ContinuePicture
  <2> HIDE DEF k
  <2>2. k \in DOMAIN listPic =>
          buf \in Buffer /\ buf.pic = listPic[k].pic /\ buf.neededForOutput = listPic[k].neededForOutput
    <3>1. dec.poc \in Int BY DEF Dec, Typed, TypeOK
    <3> QED BY <1>1, <3>1 DEF Buffer
  <2> HIDE DEF buf
  <2>3. Kept BY <1>1, <2>1, <2>2, ExceptType
  <2> QED BY <2>1, <2>3
<1>9. CASE PrepareOutput
  <2>1. written' = written /\ (listPic' = listPic \/ listPic' = WithoutOutput(listPic)) BY <1>9 DEF PrepareOutput
  <2>2. Kept BY <1>1, <2>1, WithoutOutputSpec
  <2> QED BY <2>1, <2>2
<1>10. CASE FinishPicture
  <2> DEFINE k == IndexOf(listPic, dec.curPic)
             buf == [listPic[k] EXCEPT !.neededForOutput = IsOutput, !.reconstructed = TRUE]
             finished == [listPic EXCEPT ![k] = buf]
             perm == SortOrder(finished)
  <2>1. /\ listPic' = [i \in DOMAIN listPic |-> finished[perm[i]]] /\ written' = written
        /\ Holds(listPic, dec.curPic)
    BY <1>10 DEF FinishPicture
  <2>2. k \in DOMAIN listPic /\ listPic[k].pic = dec.curPic BY <2>1, IndexOfType DEF Typed, TypeOK
  <2>3. buf \in Buffer /\ buf.pic = dec.curPic /\ (buf.neededForOutput => dec.picOutputFlag)
    <3>1. IsOutput \in BOOLEAN /\ (IsOutput => dec.picOutputFlag) BY DEF IsOutput
    <3> HIDE DEF k
    <3> QED BY <1>1, <2>2, <3>1 DEF Buffer
  <2> HIDE DEF buf, k
  <2>4. finished \in Seq(Buffer) /\ DOMAIN finished = DOMAIN listPic BY <1>1, <2>2, <2>3, ExceptType
  <2>5. \A i \in DOMAIN listPic : IF i = k THEN finished[i] = buf ELSE finished[i] = listPic[i]
    BY <1>1, <2>2, <2>3, ExceptType
  <2> HIDE DEF finished
  <2>6. perm \in [DOMAIN listPic -> DOMAIN listPic] BY <2>4, SortOrderSpec
  <2> HIDE DEF perm
  <2>7. Finished BY <1>10, <2>1, <2>2, <2>3, <2>5, <2>6
  <2> QED BY <2>1, <2>7
<1>11. CASE \/ NewPicture \/ ReadNal \/ Drop \/ DecodeNonVcl \/ SkipSlice \/ AccessSlice \/ LoseReference \/ Returned
            \/ ReadEnd \/ LeaveUnfinished \/ FilterFreed \/ NoPicture \/ NoOutput \/ WriteEnd \/ EndOfStream \/ Ended
            \/ UNCHANGED vars
  <2>1. UNCHANGED <<listPic, written>>
    BY <1>11 DEF NewPicture, ReadNal, Drop, DecodeNonVcl, SkipSlice, AccessSlice, LoseReference, Returned, ReadEnd,
       LeaveUnfinished, FilterFreed, NoPicture, NoOutput, WriteEnd, EndOfStream, Ended, vars
  <2> QED BY <2>1
<1> QED BY <1>2, <1>3, <1>4, <1>6, <1>7, <1>8, <1>9, <1>10, <1>11 DEF Next

\* The invariant holds at the start ...
LEMMA ShownInit == Init => Shown
<1> SUFFICES ASSUME Init PROVE Shown
  OBVIOUS
<1>1. app.skipFrame \in Nat /\ DOMAIN stream \subseteq Nat \ {0}
  BY TypedInit, SkipFrameType DEF Typed, TypeOK, Init, Ready
<1> QED BY <1>1 DEF Init, Ready, Shown, Counts, CountedAtCra, UnitEnds, InsidePicture, FlagOfCurrent,
                NeededAreShown, WritesOnlyShown, Bound

\* ... and after every step.
LEMMA ShownNext ==
  ASSUME Typed, Once, Shown, PicturesAreWhole(stream), [Next]_vars
  PROVE  Shown'
<1> USE DEF Shown
<1>1. stream' = stream BY BoundNext
<1>2. NeededAreShown'
  <2>1. FinishPicture => dec.filterable /\ HasPicture /\ pc = "finish" BY DEF FinishPicture
  <2>2. FinishPicture /\ dec.picOutputFlag => stream[dec.curPic].output
    BY <2>1 DEF FlagOfCurrent, MeansCurrent
  <2> QED BY <1>1, <2>2, BuffersNext DEF NeededAreShown
<1>3. WritesOnlyShown' BY <1>1, BuffersNext DEF NeededAreShown, WritesOnlyShown
<1> QED BY <1>2, <1>3, CountsNext, CountedAtCraNext, UnitEndsNext, InsidePictureNext, FlagOfCurrentNext

\* Whatever whole pictures are missing from the stream, the decoder writes only
\* pictures that are to be shown.
THEOREM WritesOnlyShownAlways ==
  ASSUME \A s \in Streams : PicturesAreWhole(s)
  PROVE  Spec => []WritesOnlyShown
<1>1. Init => Typed /\ Once /\ Shown /\ PicturesAreWhole(stream)
  BY TypedInit, OnceInit, ShownInit DEF Init
<1>2. Typed /\ Once /\ Shown /\ PicturesAreWhole(stream) /\ [Next]_vars
        => (Typed /\ Once /\ Shown /\ PicturesAreWhole(stream))'
  <2>1. ASSUME Typed, [Next]_vars, PicturesAreWhole(stream) PROVE PicturesAreWhole(stream)'
    BY <2>1, BoundNext DEF PicturesAreWhole, SamePicture
  <2> QED BY <2>1, TypedNext, OnceNext, ShownNext
<1>3. Shown => WritesOnlyShown BY DEF Shown
<1> QED BY <1>1, <1>2, <1>3, PTL DEF Spec

-----------------------------------------------------------------------------
(* The POCs the decoder derives.  Within a sequence they differ from those *)
(* of the encoder by one number, a multiple of a cycle.  It changes only   *)
(* where no buffer holds a picture of the sequence: at an IDR picture, and *)
(* at the picture where decoding begins.                                   *)

Cycle(k) == \E c \in Int : k = c * MaxPocLsb

\* What is left of a POC when its low-order bits are taken away is a number of
\* cycles, and these do not change the low-order bits.
LEMMA CycleFacts ==
  /\ Cycle(0)
  /\ \A y \in Int : Cycle(PocLsb(y) - y) /\ PocLsb(y) \in Int
  /\ \A y, z \in Int : Cycle(DerivedPoc(PocLsb(y), z) - y) /\ DerivedPoc(PocLsb(y), z) \in Int
  /\ \A k : Cycle(k) => k \in Int /\ \A y \in Int : PocLsb(y + k) = PocLsb(y)
<1>1. MaxPocLsb \in Nat /\ MaxPocLsb > 0
  BY MaxPocLsbAssumption
<1>2. Cycle(0)
  <2>1. 0 = 0 * MaxPocLsb BY <1>1
  <2> QED BY <2>1 DEF Cycle
<1>3. ASSUME NEW y \in Int
      PROVE  PocLsb(y) \in Int /\ \E c \in Int : PocLsb(y) - y = c * MaxPocLsb
  <2>1. PICK c \in Int : PocMsb(y) = c * MaxPocLsb BY Cycles
  <2>2. PocLsb(y) \in Int BY <1>1, Cycles
  <2>3. PocLsb(y) - y = (-c) * MaxPocLsb /\ -c \in Int BY <1>1, <2>1, <2>2 DEF PocMsb
  <2> QED BY <2>2, <2>3
<1>4. ASSUME NEW y \in Int, NEW z \in Int
      PROVE  DerivedPoc(PocLsb(y), z) \in Int /\ \E c \in Int : DerivedPoc(PocLsb(y), z) - y = c * MaxPocLsb
  <2>1. PICK c \in Int : PocMsb(z) = c * MaxPocLsb BY Cycles
  <2>2. PICK b \in Int : PocLsb(y) - y = b * MaxPocLsb BY <1>3
  <2>3. PocLsb(y) \in Int /\ PocLsb(z) \in Int BY <1>3
  <2>4. PICK m \in {-1, 0, 1} : DerivedPoc(PocLsb(y), z) = c * MaxPocLsb + m * MaxPocLsb + PocLsb(y)
    <3> DEFINE l == PocLsb(y)
               e == c * MaxPocLsb
    <3>1. e \in Int BY <1>1
    <3>2. DerivedPoc(l, z) \in {e + MaxPocLsb + l, e - MaxPocLsb + l, e + l} BY <2>1 DEF DerivedPoc
    <3> HIDE DEF l, e
    <3>3. /\ e + MaxPocLsb + l = e + 1 * MaxPocLsb + l
          /\ e - MaxPocLsb + l = e + (-1) * MaxPocLsb + l
          /\ e + l = e + 0 * MaxPocLsb + l
      BY <1>1, <2>3, <3>1 DEF l
    <3> QED BY <3>2, <3>3 DEF l, e
  <2>5. m \in Int /\ c * MaxPocLsb \in Int /\ m * MaxPocLsb \in Int /\ b * MaxPocLsb \in Int BY <1>1
  <2>6. DerivedPoc(PocLsb(y), z) - y = c * MaxPocLsb + m * MaxPocLsb + b * MaxPocLsb
    BY <2>2, <2>3, <2>4, <2>5
  <2>7. c * MaxPocLsb + m * MaxPocLsb + b * MaxPocLsb = (c + m + b) * MaxPocLsb /\ c + m + b \in Int
    BY <1>1, <2>5
  <2>8. DerivedPoc(PocLsb(y), z) \in Int BY <2>3, <2>4, <2>5
  <2> QED BY <2>6, <2>7, <2>8
<1>5. ASSUME NEW c \in Int, NEW y \in Int
      PROVE  PocLsb(y + c * MaxPocLsb) = PocLsb(y)
  <2> DEFINE z == y + c * MaxPocLsb
  <2>1. z \in Int BY <1>1
  <2>2. PICK a \in Int : PocMsb(y) = a * MaxPocLsb BY Cycles
  <2>3. PICK b \in Int : PocMsb(z) = b * MaxPocLsb BY <2>1, Cycles
  <2>4. PocLsb(y) \in 0 .. MaxPocLsb - 1 /\ PocLsb(z) \in 0 .. MaxPocLsb - 1 BY <2>1, Cycles
  <2>5. y = a * MaxPocLsb + PocLsb(y) /\ z = b * MaxPocLsb + PocLsb(z)
    BY <1>1, <2>1, <2>2, <2>3, <2>4 DEF PocMsb
  <2>6. z = y + c * MaxPocLsb OBVIOUS
  <2> HIDE DEF z
  <2>7. (b - a - c) * MaxPocLsb = PocLsb(y) - PocLsb(z)
    BY <1>1, <2>1, <2>4, <2>5, <2>6
  <2> DEFINE d == b - a - c
  <2>8. d \in Int OBVIOUS
  <2> HIDE DEF d
  <2>9. d * MaxPocLsb < MaxPocLsb /\ d * MaxPocLsb > -MaxPocLsb BY <1>1, <2>4, <2>7 DEF d
  <2>10. d = 0
    <3>1. d < 1
      <4>1. d >= 1 => (d - 1) * MaxPocLsb >= 0 BY <1>1, <2>8
      <4> QED BY <1>1, <2>8, <2>9, <4>1
    <3>2. d > -1
      <4>1. d <= -1 => (-1 - d) * MaxPocLsb >= 0 BY <1>1, <2>8
      <4> QED BY <1>1, <2>8, <2>9, <4>1
    <3> QED BY <2>8, <3>1, <3>2
  <2> QED BY <1>1, <2>4, <2>7, <2>10 DEF d, z
<1>6. ASSUME NEW k, Cycle(k) PROVE k \in Int /\ \A y \in Int : PocLsb(y + k) = PocLsb(y)
  <2>1. PICK c \in Int : k = c * MaxPocLsb BY <1>6 DEF Cycle
  <2>2. k \in Int BY <1>1, <2>1
  <2> QED BY <1>5, <2>1, <2>2
<1> QED BY <1>2, <1>3, <1>4, <1>6 DEF Cycle

\* Positions of NAL units whose headers have not been parsed start here.
Parsed == IF pc \in {"flush", "decode"} THEN nal ELSE pos

IsSliceAt(p) == p \in DOMAIN stream /\ stream[p].nut \in SliceTypes

IsNear(poc, x) == x - MaxPocLsb \div 2 < poc /\ poc <= x + MaxPocLsb \div 2

\* x anchors the slices from b on, as far as the next anchor.
AnchorsFrom(x, b) ==
  \A q : /\ IsSliceAt(q) /\ q >= b
         /\ \E p : IsSliceAt(p) /\ p < b /\ OneSequence(stream, p, q)
         /\ \A r \in b .. q - 1 : stream[r].nut \in SliceTypes => ~IsAnchor(stream[r])
         => IsNear(stream[q].poc, x)

\* The POCs of the buffers, that of the slice whose header was parsed and the
\* anchor are k above those of the encoder.
BuffersCountFrom(k) ==
  \A i \in DOMAIN listPic :
    listPic[i].pic # 0 /\ OneSequence(stream, listPic[i].pic, Parsed - 1) =>
      listPic[i].poc = stream[listPic[i].pic].poc + k

SliceCountsFrom(k) == pc \in {"access", "refs"} => dec.poc = stream[nal].poc + k

\* After a slice of an IDR picture, k is what its other slices will find.
IdrCountsFrom(k) ==
  \A p : /\ IsSliceAt(p) /\ p < Parsed /\ stream[p].nut = "IDR"
         /\ \A r \in p + 1 .. Parsed - 1 : ~IsHeader(stream[r])
         => k = PocLsb(stream[p].poc) - stream[p].poc

CountsFrom(k) ==
  /\ BuffersCountFrom(k) /\ SliceCountsFrom(k) /\ IdrCountsFrom(k)
  /\ AnchorsFrom(dec.prevTid0POC - k, Parsed)

HasOrigin == \E k : Cycle(k) /\ CountsFrom(k)

\* Where decoding begins, the buffers hold no picture of the sequence.
StartsAfterEos ==
  dec.firstSliceInSequence => \A i \in DOMAIN listPic : listPic[i].pic # 0 =>
    \E e \in listPic[i].pic + 1 .. Parsed - 1 : stream[e].nut = "EOS"

\* Pictures are made up only there.
GeneratesAtStart == pc \in {"access", "refs"} /\ MayGenerate => dec.firstSliceInSequence

\* The current picture is the last one that was decoded.
CurrentIsLast ==
  /\ nal = 0 \/ nal = pos - 1
  /\ pc = "flush" => dec.firstSliceInPicture
  /\ dec.curPic # 0 => Slice(dec.curPic) /\ dec.curPic < Bound
  /\ \A i \in DOMAIN listPic : listPic[i].pic <= dec.curPic

\* After an EOS, the decoder waits for a header.
WaitsAfterEos ==
  /\ app.eosPresentInPu /\ ~dec.firstSliceInPicture /\ pc # "aborted"
  /\ ~(pc \in {"returned", "read"} /\ IsSlice)
  => \E e \in DOMAIN stream :
       /\ e < Bound /\ stream[e].nut = "EOS"
       /\ \A r \in e + 1 .. Bound - 1 : ~IsHeader(stream[r])

\* A picture that may go on has its buffer.
CurrentIsHeld ==
  /\ dec.curPic # 0 /\ ~dec.firstSliceInPicture /\ ~app.eosPresentInPu
  /\ \A r \in dec.curPic + 1 .. Bound - 1 : ~IsHeader(stream[r])
  /\ pc \notin {"finalFlush", "done", "aborted"}
  => Holds(listPic, dec.curPic) /\ ~dec.firstSliceInSequence

Derived ==
  /\ HasOrigin /\ StartsAfterEos /\ GeneratesAtStart /\ CurrentIsLast /\ WaitsAfterEos
  /\ CurrentIsHeld /\ PocsAgree

\* What the stream is assumed to be.
Derivable == PicturesAreWhole(stream) /\ PocsAreDerivable(stream)

-----------------------------------------------------------------------------
(* What the conformance of the stream means for its anchors. *)

\* The types of what is compared.
LEMMA StreamTypes ==
  ASSUME Typed
  PROVE  /\ DOMAIN stream \subseteq Nat \ {0} /\ nal \in Nat /\ pos \in Nat
         /\ \A q \in DOMAIN stream : stream[q].poc \in Int /\ stream[q].tid \in Nat /\ stream[q].active \subseteq Int
         /\ MaxPocLsb \div 2 \in Int /\ options.maxTid \in Nat
         /\ \A p, q \in DOMAIN stream, r \in Int : p <= r /\ r <= q => r \in DOMAIN stream
<1>1. \A q \in DOMAIN stream : stream[q] \in NalUnit BY DEF Typed, TypeOK
<1>2. options.maxTid \in Nat BY DecoderAssumption DEF Typed, TypeOK, Options
<1>3. DOMAIN stream = 1 .. Len(stream) /\ Len(stream) \in Nat BY DEF Typed, TypeOK
<1>4. nal \in Nat /\ pos \in Nat BY <1>3 DEF Typed, TypeOK
<1>5. MaxPocLsb \div 2 \in Int BY MaxPocLsbAssumption
<1>6. \A q \in DOMAIN stream : stream[q].poc \in Int /\ stream[q].tid \in Nat /\ stream[q].active \subseteq Int
  BY <1>1 DEF NalUnit
<1>7. ASSUME NEW p \in DOMAIN stream, NEW q \in DOMAIN stream, NEW r \in Int, p <= r, r <= q PROVE r \in DOMAIN stream
  BY <1>3, <1>7
<1> QED BY <1>2, <1>3, <1>4, <1>5, <1>6, <1>7

\* Sequences can be put together and taken apart.
LEMMA OneSequenceParts ==
  ASSUME NEW p \in Int, NEW q \in Int, NEW r \in Int, p <= q, q <= r
  PROVE  OneSequence(stream, p, r) <=> OneSequence(stream, p, q) /\ OneSequence(stream, q, r)
BY DEF OneSequence

\* After a slice, its anchors.
LEMMA AnchorsAfterSlice ==
  ASSUME Typed, Derivable, NEW b, IsSliceAt(b), NEW x \in Anchors(stream[b])
  PROVE  AnchorsFrom(x, b + 1)
<1> SUFFICES ASSUME NEW q, IsSliceAt(q), q >= b + 1,
                    NEW p, IsSliceAt(p), p < b + 1, OneSequence(stream, p, q),
                    \A r \in b + 1 .. q - 1 : stream[r].nut \in SliceTypes => ~IsAnchor(stream[r])
             PROVE  IsNear(stream[q].poc, x)
  BY DEF AnchorsFrom
<1>1. b \in Int /\ p \in Int /\ q \in Int /\ b \in DOMAIN stream /\ q \in DOMAIN stream BY StreamTypes DEF IsSliceAt
<1>2. b < q /\ p <= b /\ b <= q BY <1>1
<1>3. OneSequence(stream, b, q) BY <1>1, <1>2, OneSequenceParts
<1> QED BY <1>1, <1>2, <1>3 DEF Derivable, PocsAreDerivable, PocsAreNear, IsSliceAt, IsNear

\* After a NAL unit that is not one, the anchors before it.
LEMMA AnchorsAfterOther ==
  ASSUME Typed, Derivable, NEW b \in DOMAIN stream, IsSliceAt(b) => ~IsAnchor(stream[b]),
         NEW x, AnchorsFrom(x, b)
  PROVE  AnchorsFrom(x, b + 1)
<1> SUFFICES ASSUME NEW q, IsSliceAt(q), q >= b + 1,
                    NEW p, IsSliceAt(p), p < b + 1, OneSequence(stream, p, q),
                    \A r \in b + 1 .. q - 1 : stream[r].nut \in SliceTypes => ~IsAnchor(stream[r])
             PROVE  IsNear(stream[q].poc, x)
  BY DEF AnchorsFrom
<1>1. b \in Int /\ p \in Int /\ q \in Int /\ b \in DOMAIN stream /\ q \in DOMAIN stream BY StreamTypes DEF IsSliceAt
<1>2. PICK p0 : IsSliceAt(p0) /\ p0 < b /\ OneSequence(stream, p0, q)
  <2>1. CASE p < b BY <2>1
  <2>2. CASE p = b
    <3>1. PICK p0 \in DOMAIN stream : p0 < b /\ stream[p0].nut \in SliceTypes /\ OneSequence(stream, p0, b)
      BY <1>1, <2>2 DEF Derivable, PocsAreDerivable, AnchorsComeFirst, IsSliceAt
    <3>2. p0 \in Int BY StreamTypes
    <3>3. OneSequence(stream, p0, q) BY <1>1, <2>2, <3>1, <3>2, OneSequenceParts
    <3> QED BY <3>1, <3>3 DEF IsSliceAt
  <2> QED BY <1>1, <2>1, <2>2
<1>3. \A r \in b .. q - 1 : stream[r].nut \in SliceTypes => ~IsAnchor(stream[r])
  <2>1. \A r \in b .. q - 1 : r = b \/ r \in b + 1 .. q - 1 BY <1>1
  <2> QED BY <2>1 DEF IsSliceAt
<1> QED BY <1>1, <1>2, <1>3 DEF AnchorsFrom

\* A slice is an anchor, or near the one before it.
LEMMA SliceIsNear ==
  ASSUME Typed, Derivable, NEW b, IsSliceAt(b), NEW x, AnchorsFrom(x, b)
  PROVE  \/ /\ IsAnchor(stream[b])
            /\ \A p : IsSliceAt(p) /\ p < b => ~OneSequence(stream, p, b)
         \/ IsNear(stream[b].poc, x)
<1>1. b \in Int /\ b \in DOMAIN stream BY StreamTypes DEF IsSliceAt
<1>2. CASE \A p : IsSliceAt(p) /\ p < b => ~OneSequence(stream, p, b)
  BY <1>1, <1>2 DEF Derivable, PocsAreDerivable, AnchorsComeFirst, IsSliceAt
<1>3. CASE \E p : IsSliceAt(p) /\ p < b /\ OneSequence(stream, p, b)
  BY <1>1, <1>3 DEF AnchorsFrom
<1> QED BY <1>2, <1>3

-----------------------------------------------------------------------------
(* What the steps do to the fields these speak of. *)

\* The POC of a slice, and what is kept of it as an anchor.
LEMMA HeaderPoc ==
  ASSUME Typed, DecodeHeader
  PROVE  /\ dec'.poc = IF Nut \in {"CRA", "GDR"} /\ StartsDecoding
                         THEN PocLsb(SlicePoc(stream[nal])) ELSE SlicePoc(stream[nal])
         /\ dec'.prevTid0POC = IF IsAnchor(stream[nal]) THEN dec'.poc ELSE dec.prevTid0POC
         /\ Nut \in {"CRA", "GDR"} => dec'.noOutputBeforeRecovery = StartsDecoding
<1> DEFINE n        == stream[nal]
           parsed   == SlicePoc(n)
           lastFlag == IF Nut \in {"CRA", "GDR"} THEN StartsDecoding
                       ELSE dec.lastNoOutputBeforeRecovery
           flag     == IF IsRecoveryPoint THEN StartsDecoding
                       ELSE dec.noOutputBeforeRecovery
           noPrior  == IF IsRecoveryPoint THEN n.noPrior
                       ELSE dec.isNoOutputPriorPics
           discard  == /\ dec.firstSliceInPicture /\ parsed # dec.prevPOC
                       /\ IsRecoveryPoint /\ flag /\ noPrior
           reset    == Nut \in {"CRA", "GDR"} /\ lastFlag
           poc      == IF reset THEN PocLsb(parsed) ELSE parsed
           anchor   == IF IsAnchor(n) THEN poc ELSE dec.prevTid0POC
           recovers == IF Nut = "GDR" /\ dec.prevGDRPOC = -MAX_INT
                         THEN parsed + n.recovery ELSE dec.prevGDRRecoveryPOC
           kept     == noPrior /\ ~discard
           last     == IF reset THEN poc
                       ELSE IF IsRecoveryPoint /\ n.noPrior THEN parsed
                       ELSE dec.lastPOCNoOutputPriorPics
           shown    == n.output /\ ~(Nut = "RASL" /\ lastFlag)
<1>1. dec' = [dec EXCEPT
            !.poc = poc, !.prevTid0POC = anchor, !.prevGDRRecoveryPOC = recovers,
            !.noOutputBeforeRecovery = flag, !.lastNoOutputBeforeRecovery = lastFlag,
            !.isNoOutputPriorPics = kept, !.lastPOCNoOutputPriorPics = last,
            !.picOutputFlag = shown]
  BY DEF DecodeHeader
<1>2. reset <=> Nut \in {"CRA", "GDR"} /\ StartsDecoding OBVIOUS
<1>3. Nut \in {"CRA", "GDR"} => flag = StartsDecoding BY DEF IsRecoveryPoint
<1> HIDE DEF parsed, lastFlag, flag, noPrior, discard, reset, recovers, kept, last, shown
<1>4. dec'.poc = poc /\ dec'.prevTid0POC = anchor /\ dec'.noOutputBeforeRecovery = flag
  BY <1>1 DEF Dec, Typed, TypeOK
<1> QED BY <1>2, <1>3, <1>4 DEF parsed

\* Only these steps change them.
LEMMA CountedFields ==
  ASSUME Typed, [Next]_vars, ~DecodeHeader
  PROVE  /\ UNCHANGED <<dec.poc, dec.noOutputBeforeRecovery>>
         /\ InsertUnavailable \/ UNCHANGED dec.prevTid0POC
<1> USE DEF Typed, TypeOK
<1>1. dec \in Dec OBVIOUS
<1>2. CASE \/ NewPicture \/ ReadNal \/ FlushOne \/ FlushEnd \/ LoseReference \/ Returned \/ ReadEnd
           \/ FilterFreed \/ NoOutput \/ WriteOne \/ WriteEnd \/ EndOfStream \/ Ended \/ UNCHANGED vars
  BY <1>2 DEF NewPicture, ReadNal, FlushOne, FlushEnd, LoseReference, Returned, ReadEnd, FilterFreed, NoOutput,
     WriteOne, WriteEnd, EndOfStream, Ended, vars
<1>3. CASE Drop BY <1>1, <1>3 DEF Drop, Dec
<1>4. CASE DecodeNonVcl BY <1>1, <1>4 DEF DecodeNonVcl, AfterEos, Dec
<1>5. CASE SkipSlice BY <1>1, <1>5 DEF SkipSlice, Dec
<1>6. CASE AccessSlice BY <1>1, <1>6 DEF AccessSlice, Dec
<1>7. CASE ActivatePicture BY <1>1, <1>7 DEF ActivatePicture, Dec
<1>8. CASE ContinuePicture BY <1>1, <1>8 DEF ContinuePicture, Dec
<1>9. CASE InsertUnavailable BY <1>1, <1>9 DEF InsertUnavailable, Dec
<1>10. CASE NoPicture BY <1>1, <1>10 DEF NoPicture, Dec
<1>11. CASE PrepareOutput BY <1>1, <1>11 DEF PrepareOutput, Dec
<1>12. ASSUME NEW a, NEW d \in Dec, AfterPicture(a, d)
       PROVE  dec'.poc = d.poc /\ dec'.prevTid0POC = d.prevTid0POC
              /\ dec'.noOutputBeforeRecovery = d.noOutputBeforeRecovery
  <2>1. \E p : dec' = [d EXCEPT !.firstSliceInSequence = @ \/ Nut = "EOS", !.prevGDRPOC = p]
    BY <1>12 DEF AfterPicture
  <2> QED BY <2>1 DEF Dec
<1>13. CASE LeaveUnfinished
  <2>1. AfterPicture(app, dec) BY <1>13 DEF LeaveUnfinished
  <2> QED BY <1>1, <1>12, <2>1
<1>14. CASE FinishPicture
  <2> DEFINE d == [dec EXCEPT !.firstSliceInPicture = TRUE, !.filterable = FALSE]
  <2>1. /\ d \in Dec /\ d.poc = dec.poc /\ d.prevTid0POC = dec.prevTid0POC
        /\ d.noOutputBeforeRecovery = dec.noOutputBeforeRecovery
    BY <1>1 DEF Dec
  <2>2. \E a : AfterPicture(a, d) BY <1>14 DEF FinishPicture
  <2> HIDE DEF d
  <2> QED BY <1>12, <2>1, <2>2
<1> QED BY <1>2, <1>3, <1>4, <1>5, <1>6, <1>7, <1>8, <1>9, <1>10, <1>11, <1>13, <1>14 DEF Next

\* A header is parsed, or a NAL unit without a slice header passed over.
LEMMA ParsedNext ==
  ASSUME Typed, [Next]_vars
  PROVE  /\ UNCHANGED stream /\ Parsed \in Nat /\ Bound \in Nat /\ Bound <= Parsed
         /\ IF Drop \/ DecodeNonVcl \/ DecodeHeader
              THEN nal \in DOMAIN stream /\ Parsed = nal /\ Parsed' = nal + 1 /\ UNCHANGED nal
              ELSE Parsed' = Parsed
         /\ pc' \in {"access", "refs"} /\ ~DecodeHeader => pc \in {"access", "refs"} /\ UNCHANGED nal
         /\ pc \in {"access", "refs", "returned", "read"} => Parsed = nal + 1 /\ nal \in DOMAIN stream
<1>1. /\ nal \in Nat /\ pos \in Nat
      /\ pc \in {"flush", "decode", "access", "refs", "returned", "read"} => nal \in DOMAIN stream /\ pos = nal + 1
  BY DEF Typed, TypeOK, NalRead
<1>2. UNCHANGED stream BY BoundNext
<1>3. CASE Drop \/ DecodeNonVcl \/ DecodeHeader
  BY <1>1, <1>2, <1>3 DEF Bound, Parsed, Drop, DecodeNonVcl, DecodeHeader
<1>4. CASE NewPicture \/ ReadNal \/ FlushOne \/ FlushEnd
  BY <1>1, <1>2, <1>4 DEF Bound, Parsed, NewPicture, ReadNal, FlushOne, FlushEnd, Drop, DecodeNonVcl, DecodeHeader
<1>5. CASE SkipSlice \/ LoseReference \/ ActivatePicture \/ ContinuePicture
  BY <1>1, <1>2, <1>5 DEF Bound, Parsed, SkipSlice, LoseReference, ActivatePicture, ContinuePicture, AfterRefPicList,
     Drop, DecodeNonVcl, DecodeHeader
<1>6. CASE AccessSlice \/ InsertUnavailable
  BY <1>1, <1>2, <1>6 DEF Bound, Parsed, AccessSlice, InsertUnavailable, Drop, DecodeNonVcl, DecodeHeader
<1>7. CASE Returned \/ ReadEnd \/ FinishPicture \/ LeaveUnfinished \/ FilterFreed \/ NoPicture
  BY <1>1, <1>2, <1>7 DEF Bound, Parsed, Returned, ReadEnd, FinishPicture, LeaveUnfinished, FilterFreed, NoPicture,
     Drop, DecodeNonVcl, DecodeHeader
<1>8. CASE PrepareOutput \/ NoOutput \/ WriteOne \/ WriteEnd \/ EndOfStream
  <2>1. /\ pc \in {"output", "write", "loop"} /\ pc' \in {"write", "loop", "finalFlush", "aborted"}
        /\ UNCHANGED <<nal, pos>>
    BY <1>8 DEF PrepareOutput, NoOutput, WriteOne, WriteEnd, EndOfStream
  <2>2. ~(Drop \/ DecodeNonVcl \/ DecodeHeader) BY <2>1 DEF Drop, DecodeNonVcl, DecodeHeader
  <2> QED BY <1>1, <1>2, <2>1, <2>2 DEF Bound, Parsed
<1>9. CASE UNCHANGED vars /\ ~(Drop \/ DecodeNonVcl \/ DecodeHeader)
  BY <1>1, <1>2, <1>9 DEF Bound, Parsed, vars
<1> QED BY <1>3, <1>4, <1>5, <1>6, <1>7, <1>8, <1>9 DEF Next, Ended

\* A buffer with this picture and POC was there.
Had(pic, poc) == \E j \in DOMAIN listPic : listPic[j].pic = pic /\ listPic[j].poc = poc

\* A buffer that is stored is in the list.
LEMMA StoreHolds ==
  ASSUME NEW list \in Seq(Buffer), NEW buf \in Buffer
  PROVE  \E k \in DOMAIN Store(list, buf) : Store(list, buf)[k] = buf
<1> DEFINE free == {i \in DOMAIN list : IsFree(list[i])}
           first == CHOOSE i \in free : \A j \in free : i <= j
<1>1. CASE free = {}
  <2>1. Store(list, buf) = Append(list, buf) BY <1>1 DEF Store
  <2>2. Len(list) + 1 \in DOMAIN Append(list, buf) /\ Append(list, buf)[Len(list) + 1] = buf
    OBVIOUS
  <2> QED BY <2>1, <2>2
<1>2. CASE free # {}
  <2>1. free \in SUBSET Nat
    <3>1. DOMAIN list \subseteq Nat OBVIOUS
    <3> QED BY <3>1
  <2>2. \E i \in free : \A j \in free : i <= j BY <1>2, <2>1, Numbers!LeastOf
  <2>3. first \in free BY <2>2
  <2>4. Store(list, buf) = [list EXCEPT ![first] = buf] BY <1>2 DEF Store
  <2>5. first \in DOMAIN list BY <2>3
  <2> HIDE DEF first
  <2>6. first \in DOMAIN Store(list, buf) /\ Store(list, buf)[first] = buf BY <2>4, <2>5, ExceptType
  <2> QED BY <2>6
<1> QED BY <1>1, <1>2

\* What the steps do to the pictures and POCs of the list.
LEMMA ListNext ==
  ASSUME Typed, [Next]_vars
  PROVE  /\ ActivatePicture =>
              /\ \A i \in DOMAIN listPic' :
                   \/ listPic'[i].pic = nal /\ listPic'[i].poc = dec.poc
                   \/ Had(listPic'[i].pic, listPic'[i].poc)
              /\ Holds(listPic', nal)
         /\ ContinuePicture =>
              /\ DOMAIN listPic' = DOMAIN listPic
              /\ \A i \in DOMAIN listPic :
                   /\ listPic'[i].pic = listPic[i].pic
                   /\ listPic'[i].poc = IF i = IndexOf(listPic, dec.curPic) THEN dec.poc ELSE listPic[i].poc
         /\ ~ActivatePicture /\ ~ContinuePicture =>
              \A i \in DOMAIN listPic' : listPic'[i].pic = 0 \/ Had(listPic'[i].pic, listPic'[i].poc)
         /\ \/ FlushEnd \/ InsertUnavailable \/ ActivatePicture \/ FinishPicture
            \/ \A p : Holds(listPic, p) => Holds(listPic', p)
<1> DEFINE Kept ==
      /\ DOMAIN listPic' = DOMAIN listPic
      /\ \A i \in DOMAIN listPic : listPic'[i].pic = listPic[i].pic /\ listPic'[i].poc = listPic[i].poc
    Goal ==
      /\ ~ActivatePicture /\ ~ContinuePicture =>
           \A i \in DOMAIN listPic' : listPic'[i].pic = 0 \/ Had(listPic'[i].pic, listPic'[i].poc)
      /\ \/ FlushEnd \/ InsertUnavailable \/ ActivatePicture \/ FinishPicture
         \/ \A p : Holds(listPic, p) => Holds(listPic', p)
<1>1. /\ listPic \in Seq(Buffer) /\ dec \in Dec /\ dec.poc \in Int
      /\ \A i \in DOMAIN listPic : listPic[i] \in Buffer /\ listPic[i].pic \in Nat /\ listPic[i].poc \in Int
  <2>1. \A i \in DOMAIN listPic : listPic[i] \in Buffer BY DEF Typed, TypeOK
  <2> QED BY <2>1 DEF Buffer, Dec, Typed, TypeOK
<1>2. ASSUME Kept PROVE Goal BY <1>2 DEF Had, Holds
<1>3. ActivatePicture =>
        /\ \A i \in DOMAIN listPic' :
             \/ listPic'[i].pic = nal /\ listPic'[i].poc = dec.poc
             \/ Had(listPic'[i].pic, listPic'[i].poc)
        /\ Holds(listPic', nal)
  <2> SUFFICES ASSUME ActivatePicture
               PROVE  /\ \A i \in DOMAIN listPic' :
                           \/ listPic'[i].pic = nal /\ listPic'[i].poc = dec.poc
                           \/ Had(listPic'[i].pic, listPic'[i].poc)
                      /\ Holds(listPic', nal)
    OBVIOUS
  <2> DEFINE buf == [pic |-> nal, poc |-> dec.poc, referenced |-> TRUE,
                     neededForOutput |-> FALSE, reconstructed |-> FALSE]
             idr == Nut = "IDR"
             marked == Marked(listPic, dec.poc, stream[nal].rpl, idr)
  <2>1. nal \in Nat BY DEF Typed, TypeOK
  <2>2. buf \in Buffer /\ buf.pic = nal /\ buf.poc = dec.poc BY <1>1, <2>1 DEF Buffer
  <2>3. idr \in BOOLEAN OBVIOUS
  <2>4. listPic' = Store(marked, buf) BY DEF ActivatePicture
  <2> HIDE DEF buf, idr
  <2>5. marked \in Seq(Buffer) /\ DOMAIN marked = DOMAIN listPic BY <1>1, <2>3, MarkedSpec
  <2>6. \A i \in DOMAIN listPic : marked[i].pic = listPic[i].pic /\ marked[i].poc = listPic[i].poc
    BY ONLY <1>1, <2>3, MarkedSpec
  <2> HIDE DEF marked
  <2>7. PICK k : \A i \in DOMAIN Store(marked, buf) :
                   IF i = k THEN Store(marked, buf)[i] = buf
                   ELSE i \in DOMAIN marked /\ Store(marked, buf)[i] = marked[i]
    BY <2>2, <2>5, StoreSpec
  <2>8. Holds(listPic', nal) BY <2>2, <2>4, <2>5, StoreHolds DEF Holds
  <2> QED BY <2>2, <2>4, <2>5, <2>6, <2>7, <2>8 DEF Had
<1>4. ContinuePicture =>
        /\ DOMAIN listPic' = DOMAIN listPic
        /\ \A i \in DOMAIN listPic :
             /\ listPic'[i].pic = listPic[i].pic
             /\ listPic'[i].poc = IF i = IndexOf(listPic, dec.curPic) THEN dec.poc ELSE listPic[i].poc
  <2> SUFFICES ASSUME ContinuePicture
               PROVE  /\ DOMAIN listPic' = DOMAIN listPic
                      /\ \A i \in DOMAIN listPic :
                           /\ listPic'[i].pic = listPic[i].pic
                           /\ listPic'[i].poc = IF i = IndexOf(listPic, dec.curPic) THEN dec.poc ELSE listPic[i].poc
    OBVIOUS
  <2> DEFINE k == IndexOf(listPic, dec.curPic)
             buf == [listPic[k] EXCEPT !.poc = dec.poc, !.referenced = TRUE]
  <2>1. listPic' = [listPic EXCEPT ![k] = buf] BY DEF ContinuePicture
  <2>2. k \in DOMAIN listPic => buf \in Buffer /\ buf.pic = listPic[k].pic /\ buf.poc = dec.poc
    <3> HIDE DEF k
    <3> QED BY <1>1 DEF Buffer
  <2> HIDE DEF buf, k
  <2> QED BY <1>1, <2>1, <2>2, ExceptType DEF k
<1>5. CASE FlushOne \/ WriteOne
  <2>1. PICK i \in DOMAIN listPic : listPic' = [listPic EXCEPT ![i] = Written(listPic[i])]
    BY <1>5 DEF FlushOne, WriteOne, ToWrite, Waiting
  <2>2. Kept BY <1>1, <2>1, WrittenSpec, ExceptType
  <2> QED BY <1>2, <1>3, <1>4, <2>2
<1>6. CASE FlushEnd
  BY <1>3, <1>4, <1>6 DEF FlushEnd, Had
<1>7. CASE DecodeHeader
  <2>1. /\ stream[nal] \in NalUnit
        /\ listPic' = listPic \/ listPic' = WithoutPriorOutput(listPic, SlicePoc(stream[nal]))
    BY <1>7 DEF DecodeHeader, Typed, TypeOK, NalRead
  <2>2. SlicePoc(stream[nal]) \in Int BY <1>1, <2>1, SlicePocType
  <2>3. Kept
    <3> DEFINE poc == SlicePoc(stream[nal])
               l   == WithoutPriorOutput(listPic, poc)
    <3>1. poc \in Int BY <2>2
    <3> HIDE DEF poc
    <3>2. l \in {WithoutOutput(listPic), WithoutPriorOutput(listPic, poc)} OBVIOUS
    <3>3. /\ DOMAIN l = DOMAIN listPic
          /\ \A i \in DOMAIN listPic : l[i].pic = listPic[i].pic /\ l[i].poc = listPic[i].poc
      BY ONLY <1>1, <3>1, <3>2, WithoutOutputSpec
    <3>4. listPic' = listPic \/ listPic' = l BY <2>1 DEF poc
    <3> HIDE DEF l
    <3> QED BY <3>3, <3>4
  <2> QED BY <1>2, <1>3, <1>4, <2>3
<1>8. CASE PrepareOutput
  <2>1. listPic' = listPic \/ listPic' = WithoutOutput(listPic) BY <1>8 DEF PrepareOutput
  <2>2. Kept BY <1>1, <2>1, WithoutOutputSpec
  <2> QED BY <1>2, <1>3, <1>4, <2>2
<1>9. CASE InsertUnavailable
  <2>1. PICK p \in Noticed :
          listPic' = Store(listPic, [pic |-> 0, poc |-> p, referenced |-> TRUE,
                                     neededForOutput |-> FALSE, reconstructed |-> TRUE])
    BY <1>9 DEF InsertUnavailable
  <2>2. p \in Int
    <3>1. stream[nal] \in NalUnit BY <1>9 DEF InsertUnavailable, Typed, TypeOK, NalRead
    <3>2. stream[nal].active \subseteq Int BY <3>1 DEF NalUnit
    <3> QED BY <1>1, <2>1, <3>2 DEF Noticed, Missing
  <2> DEFINE buf == [pic |-> 0, poc |-> p, referenced |-> TRUE, neededForOutput |-> FALSE, reconstructed |-> TRUE]
  <2>3. buf \in Buffer /\ buf.pic = 0 /\ listPic' = Store(listPic, buf) BY <2>1, <2>2 DEF Buffer
  <2> HIDE DEF buf
  <2>4. PICK k : \A i \in DOMAIN Store(listPic, buf) :
                   IF i = k THEN Store(listPic, buf)[i] = buf
                   ELSE i \in DOMAIN listPic /\ Store(listPic, buf)[i] = listPic[i]
    BY <1>1, <2>3, StoreSpec
  <2> QED BY <1>3, <1>4, <1>9, <2>3, <2>4 DEF Had
<1>10. CASE FinishPicture
  <2> DEFINE k == IndexOf(listPic, dec.curPic)
             buf == [listPic[k] EXCEPT !.neededForOutput = IsOutput, !.reconstructed = TRUE]
             finished == [listPic EXCEPT ![k] = buf]
             perm == SortOrder(finished)
  <2>1. listPic' = [i \in DOMAIN listPic |-> finished[perm[i]]] /\ Holds(listPic, dec.curPic)
    BY <1>10 DEF FinishPicture
  <2>2. k \in DOMAIN listPic BY <2>1, IndexOfType DEF Typed, TypeOK
  <2>3. buf \in Buffer /\ buf.pic = listPic[k].pic /\ buf.poc = listPic[k].poc
    <3>1. IsOutput \in BOOLEAN BY DEF IsOutput
    <3> HIDE DEF k
    <3> QED BY <1>1, <2>2, <3>1 DEF Buffer
  <2> HIDE DEF buf, k
  <2>4. finished \in Seq(Buffer) /\ DOMAIN finished = DOMAIN listPic BY <1>1, <2>2, <2>3, ExceptType
  <2>5. \A i \in DOMAIN listPic : finished[i].pic = listPic[i].pic /\ finished[i].poc = listPic[i].poc
    BY <1>1, <2>2, <2>3, ExceptType
  <2> HIDE DEF finished
  <2>6. perm \in [DOMAIN listPic -> DOMAIN listPic] BY <2>4, SortOrderSpec
  <2> HIDE DEF perm
  <2> QED BY <1>3, <1>4, <1>10, <2>1, <2>5, <2>6 DEF Had
<1>11. CASE \/ NewPicture \/ ReadNal \/ Drop \/ DecodeNonVcl \/ SkipSlice \/ AccessSlice \/ LoseReference \/ Returned
            \/ ReadEnd \/ LeaveUnfinished \/ FilterFreed \/ NoPicture \/ NoOutput \/ WriteEnd \/ EndOfStream \/ Ended
            \/ UNCHANGED vars
  <2>1. UNCHANGED listPic
    BY <1>11 DEF NewPicture, ReadNal, Drop, DecodeNonVcl, SkipSlice, AccessSlice, LoseReference, Returned, ReadEnd,
       LeaveUnfinished, FilterFreed, NoPicture, NoOutput, WriteEnd, EndOfStream, Ended, vars
  <2> QED BY <1>2, <1>3, <1>4, <2>1
<1>12. CASE ActivatePicture BY <1>3, <1>4, <1>12
<1>13. CASE ContinuePicture
  <2>1. \A p : Holds(listPic, p) => Holds(listPic', p) BY <1>4, <1>13 DEF Holds
  <2> QED BY <1>3, <1>4, <1>13, <2>1
<1> QED BY <1>5, <1>6, <1>7, <1>8, <1>9, <1>10, <1>11, <1>12, <1>13 DEF Next

-----------------------------------------------------------------------------
(* The parts of the invariant. *)

\* The fields of the current picture change when it is activated.
LEMMA CurrentFields ==
  ASSUME Typed, [Next]_vars
  PROVE  /\ ActivatePicture => /\ dec'.curPic = nal /\ ~dec'.firstSliceInSequence /\ ~dec'.firstSliceInPicture
                               /\ app'.eosPresentInPu = app.eosPresentInPu
         /\ ~ActivatePicture => dec'.curPic = dec.curPic
         /\ dec'.firstSliceInSequence => \/ dec.firstSliceInSequence
                                         \/ (FinishPicture \/ LeaveUnfinished) /\ Nut = "EOS"
         /\ ~ActivatePicture /\ ~ContinuePicture /\ dec.firstSliceInSequence => dec'.firstSliceInSequence
<1>1. ActivatePicture => /\ dec'.curPic = nal /\ ~dec'.firstSliceInSequence /\ ~dec'.firstSliceInPicture
                         /\ app'.eosPresentInPu = app.eosPresentInPu
  BY DecodedFields
<1>2. CASE ActivatePicture BY <1>1, <1>2
<1>3. CASE FinishPicture \/ LeaveUnfinished
  <2>1. /\ dec'.curPic = dec.curPic
        /\ dec'.firstSliceInSequence = (dec.firstSliceInSequence \/ Nut = "EOS")
    BY <1>3, FinishFields
  <2>2. ~ActivatePicture BY <1>3 DEF FinishPicture, LeaveUnfinished, ActivatePicture
  <2> QED BY <1>3, <2>1, <2>2
<1>4. CASE ContinuePicture \/ Returned
  <2>1. /\ dec'.curPic = dec.curPic
        /\ dec'.firstSliceInSequence => dec.firstSliceInSequence
        /\ Returned => dec'.firstSliceInSequence = dec.firstSliceInSequence
    BY <1>4, DecodedFields DEF Picture
  <2> QED BY <1>1, <1>4, <2>1
<1>5. CASE DecodeHeader \/ SkipSlice \/ AccessSlice
  <2>1. UNCHANGED <<dec.curPic, dec.firstSliceInSequence>> BY <1>5, SliceFields DEF Picture
  <2> QED BY <1>1, <2>1
<1>6. CASE Drop \/ ReadEnd \/ NoPicture \/ PrepareOutput \/ NoOutput
  <2>1. UNCHANGED <<dec.curPic, dec.firstSliceInSequence>> BY <1>6, ReadingFields, FinishFields DEF Picture
  <2> QED BY <1>1, <2>1
<1>7. CASE \/ NewPicture \/ ReadNal \/ FlushOne \/ FlushEnd \/ DecodeNonVcl \/ InsertUnavailable
           \/ LoseReference \/ FilterFreed \/ WriteOne \/ WriteEnd \/ EndOfStream \/ Ended \/ UNCHANGED vars
  <2>1. UNCHANGED <<dec.curPic, dec.firstSliceInSequence>> BY <1>7, QuietFields DEF Picture
  <2> QED BY <1>1, <2>1
<1> QED BY <1>2, <1>3, <1>4, <1>5, <1>6, <1>7 DEF Next

\* Where nal and pos point, and when buffers are flushed.
LEMMA PlacesNext ==
  ASSUME Typed, nal = 0 \/ nal = pos - 1, pc = "flush" => dec.firstSliceInPicture, [Next]_vars
  PROVE  /\ nal' = 0 \/ nal' = pos' - 1
         /\ pc' = "flush" => dec'.firstSliceInPicture
<1>1. nal \in Nat /\ pos \in Nat BY StreamTypes
<1>2. CASE ReadNal
  <2>1. nal' = pos /\ pos' = pos + 1 /\ dec' = dec /\ (pc' = "flush" => dec.firstSliceInPicture) BY <1>2 DEF ReadNal
  <2> QED BY <1>1, <2>1
<1>3. CASE NewPicture BY <1>3 DEF NewPicture
<1>4. CASE ~ReadNal /\ ~NewPicture
  <2>1. UNCHANGED <<nal, pos>> /\ (pc' = "flush" => pc = "flush" /\ UNCHANGED dec)
    BY <1>4 DEF Next, FlushOne, FlushEnd, Drop, DecodeNonVcl, InsertUnavailable, LoseReference, DecodeHeader,
       SkipSlice, AccessSlice, ActivatePicture, ContinuePicture, AfterRefPicList, Returned, ReadEnd, FinishPicture,
       LeaveUnfinished, NoPicture, FilterFreed, PrepareOutput, NoOutput, WriteOne, WriteEnd, EndOfStream, Ended, vars
  <2> QED BY <2>1
<1> QED BY <1>2, <1>3, <1>4

\* No buffer holds a later picture than the one that was activated last.
LEMMA CurrentIsLastNext ==
  ASSUME Typed, Once, CurrentIsLast, [Next]_vars
  PROVE  CurrentIsLast'
<1>1. /\ DOMAIN stream \subseteq Nat \ {0} /\ nal \in Nat /\ pos \in Nat
      /\ UNCHANGED <<stream, options>> /\ Bound \in Nat
  BY StreamTypes, BoundNext
<1>2. Bound' \in Nat /\ Bound <= Bound' BY <1>1, BoundNext
<1>3. dec.curPic \in Nat /\ \A i \in DOMAIN listPic : listPic[i].pic \in Nat /\ listPic[i].pic <= dec.curPic
  <2>1. \A i \in DOMAIN listPic : listPic[i] \in Buffer BY DEF Typed, TypeOK
  <2> QED BY <2>1 DEF Buffer, Dec, Typed, TypeOK, CurrentIsLast
<1>4. /\ nal' = 0 \/ nal' = pos' - 1
      /\ pc' = "flush" => dec'.firstSliceInPicture
  BY PlacesNext DEF CurrentIsLast
<1>5. CASE ActivatePicture
  <2>1. dec'.curPic = nal BY <1>5, CurrentFields
  <2>2. Slice(nal) /\ Bound = nal /\ Bound' = nal + 1
    <3>1. pc = "refs" /\ pc' \in {"returned", "aborted"} BY <1>5, SlicePlace
    <3>2. Slice(nal) BY <3>1 DEF Once, SliceDecoded
    <3>3. Bound = nal /\ Bound' = pos' /\ pos' = pos /\ pos = nal + 1
      BY <1>1, <1>5, <3>1, SlicePlace DEF Bound, Typed, NalRead
    <3> QED BY <3>2, <3>3, <1>1
  <2>3. \A i \in DOMAIN listPic' : listPic'[i].pic <= nal
    <3>1. \A j \in DOMAIN listPic : listPic[j].pic <= nal
      BY <1>1, <1>3, <2>2 DEF Once, BuffersHoldSlices
    <3> QED BY <1>1, <1>5, <3>1, ListNext DEF Had
  <2>4. /\ dec'.curPic \in DOMAIN stream' /\ stream'[dec'.curPic].nut \in SliceTypes
        /\ stream'[dec'.curPic].tid <= options'.maxTid /\ dec'.curPic < Bound'
    BY <1>1, <2>1, <2>2 DEF Slice
  <2> QED BY <1>4, <2>1, <2>3, <2>4 DEF CurrentIsLast, Slice
<1>6. CASE ~ActivatePicture
  <2>1. dec'.curPic = dec.curPic BY <1>6, CurrentFields
  <2>2. \A i \in DOMAIN listPic' : listPic'[i].pic = 0 \/ listPic'[i].pic <= dec.curPic
    <3>1. CASE ContinuePicture BY <1>3, <3>1, ListNext
    <3>2. CASE ~ContinuePicture BY <1>3, <1>6, <3>2, ListNext DEF Had
    <3> QED BY <3>1, <3>2
  <2>3. dec.curPic # 0 => dec.curPic < Bound' BY <1>1, <1>2, <1>3 DEF CurrentIsLast
  <2> QED BY <1>1, <1>3, <1>4, <2>1, <2>2, <2>3 DEF CurrentIsLast, Slice
<1> QED BY <1>5, <1>6

\* After an EOS only a slice, which stops the decoder, or a header ends the wait.
LEMMA WaitsAfterEosNext ==
  ASSUME Typed, Once, UnitEnds, InsidePicture, CurrentIsLast, WaitsAfterEos, [Next]_vars
  PROVE  WaitsAfterEos'
<1>1. /\ DOMAIN stream \subseteq Nat \ {0} /\ nal \in Nat /\ pos \in Nat
      /\ UNCHANGED <<stream, options>> /\ Bound \in Nat
  BY StreamTypes, BoundNext
<1> DEFINE Waits(b) == \E e \in DOMAIN stream :
             /\ e < b /\ stream[e].nut = "EOS"
             /\ \A r \in e + 1 .. b - 1 : ~IsHeader(stream[r])
<1> HIDE DEF Waits
<1>2. ASSUME app.eosPresentInPu, ~dec.firstSliceInPicture, pc # "aborted", ~(pc \in {"returned", "read"} /\ IsSlice)
      PROVE  Waits(Bound)
  BY <1>2 DEF WaitsAfterEos, Waits
<1>3. Waits(Bound') => WaitsAfterEos'
  BY <1>1 DEF WaitsAfterEos, Waits
<1>4. ASSUME ~dec.firstSliceInPicture, Waits(Bound) PROVE Waits(Bound')
  <2>1. CASE Bound' = Bound BY <1>4, <2>1
  <2>2. CASE Bound' # Bound
    <3>1. /\ nal \in DOMAIN stream /\ Bound = nal /\ Bound' = nal + 1
          /\ pc \in {"decode", "access", "refs"}
      <4>1. Drop \/ DecodeNonVcl \/ SkipSlice \/ LoseReference \/ ActivatePicture \/ ContinuePicture
        BY <2>2, BoundNext
      <4> QED BY <2>2, <4>1, BoundNext DEF Drop, DecodeNonVcl, SkipSlice, LoseReference, ActivatePicture, ContinuePicture
    <3>2. ~IsHeader(stream[nal]) BY <1>4, <3>1 DEF InsidePicture
    <3>3. PICK f \in DOMAIN stream : /\ f < nal /\ stream[f].nut = "EOS"
                                     /\ \A r \in f + 1 .. nal - 1 : ~IsHeader(stream[r])
      BY <1>4, <3>1 DEF Waits
    <3>4. f < Bound' BY <1>1, <3>1, <3>3
    <3>5. \A r \in f + 1 .. Bound' - 1 : ~IsHeader(stream[r])
      <4>1. \A r \in f + 1 .. Bound' - 1 : r = nal \/ r \in f + 1 .. nal - 1 BY <1>1, <3>1, <3>3
      <4> QED BY <3>2, <3>3, <4>1
    <3>6. Waits(Bound')
      BY <3>3, <3>4, <3>5 DEF Waits
    <3> QED BY <3>6
  <2> QED BY <2>1, <2>2
\* An EOS that was just read.
<1>5. ASSUME Nut = "EOS", pc \in {"read", "finish", "output"}
      PROVE  Waits(Bound)
  <2>1. nal \in DOMAIN stream /\ stream[nal].nut = "EOS" /\ nal = pos - 1 /\ Bound = pos
    <3>1. nal # 0 /\ nal = pos - 1 BY <1>5 DEF Nut, CurrentIsLast
    <3>2. nal \in DOMAIN stream BY <3>1 DEF Typed, TypeOK
    <3> QED BY <1>5, <3>1, <3>2 DEF Nut, Bound
  <2>2. nal < Bound /\ nal + 1 .. Bound - 1 = {} BY <1>1, <2>1
  <2> QED BY <2>1, <2>2 DEF Waits
<1>6. CASE ReadEnd
  <2>1. /\ UNCHANGED dec.firstSliceInPicture /\ app'.eosPresentInPu = (app.eosPresentInPu \/ Nut = "EOS")
        /\ pc = "read" /\ Bound' = Bound
        /\ pc' # "aborted" => (app.eosPresentInPu => Nut \in {"EOS", "EOB"})
    BY <1>6, ReadingFields, BoundNext DEF ReadEnd, Bound, LegalAfterEos
  <2>2. CASE Nut = "EOS" BY <1>3, <1>5, <2>1, <2>2
  <2>3. CASE Nut # "EOS"
    <3>1. pc' # "aborted" /\ app.eosPresentInPu => ~IsSlice BY <2>1 DEF IsSlice, SliceTypes
    <3>2. pc' # "aborted" /\ app'.eosPresentInPu /\ ~dec'.firstSliceInPicture => Waits(Bound')
      BY <1>2, <2>1, <2>3, <3>1
    <3> QED BY <1>1, <3>2 DEF WaitsAfterEos, Waits
  <2> QED BY <2>2, <2>3
<1>7. CASE PrepareOutput \/ NoOutput
  <2>1. /\ app'.eosPresentInPu => app.eosPresentInPu
        /\ ~dec'.firstSliceInPicture => ~dec.firstSliceInPicture \/ Nut = "EOS"
        /\ pc = "output" /\ Bound' = Bound
    <3>1. pc = "output" BY <1>7 DEF PrepareOutput, NoOutput
    <3>2. Bound' = Bound
      BY <3>1, BoundNext DEF Drop, DecodeNonVcl, SkipSlice, LoseReference, ActivatePicture, ContinuePicture
    <3> QED BY <1>7, <3>1, <3>2, FinishFields
  <2>2. app'.eosPresentInPu /\ ~dec'.firstSliceInPicture => Waits(Bound')
    BY <1>2, <1>5, <2>1
  <2> QED BY <1>1, <2>2 DEF WaitsAfterEos, Waits
<1>8. CASE FinishPicture \/ NoPicture \/ LeaveUnfinished
  <2>1. /\ app'.eosPresentInPu = app.eosPresentInPu
        /\ ~dec'.firstSliceInPicture => ~dec.firstSliceInPicture
        /\ pc = "finish" /\ Bound' = Bound
    <3>1. pc = "finish" BY <1>8 DEF FinishPicture, NoPicture, LeaveUnfinished
    <3>2. Bound' = Bound
      BY <3>1, BoundNext DEF Drop, DecodeNonVcl, SkipSlice, LoseReference, ActivatePicture, ContinuePicture
    <3> QED BY <1>8, <3>1, <3>2, FinishFields DEF Place
  <2>2. app'.eosPresentInPu /\ ~dec'.firstSliceInPicture => Waits(Bound')
    BY <1>2, <1>5, <2>1
  <2> QED BY <1>1, <2>2 DEF WaitsAfterEos, Waits
<1>9. CASE Drop \/ SkipSlice \/ ActivatePicture \/ ContinuePicture \/ Returned
  <2>1. CASE IsSlice
    <3>1. /\ UNCHANGED nal /\ pc' \in {"returned", "read", "aborted"}
      BY <1>9, SlicePlace DEF Drop
    <3>2. IsSlice' BY <1>1, <2>1, <3>1 DEF IsSlice, Nut
    <3> QED BY <3>1, <3>2 DEF WaitsAfterEos
  <2>2. CASE ~IsSlice
    <3>1. pc \in {"access", "refs"} => IsSlice
      BY DEF Once, SliceDecoded, Slice, IsSlice, Nut, Typed, TypeOK, NalRead
    <3>2. Drop \/ Returned BY <1>9, <2>2, <3>1, SlicePlace
    <3>3. app'.eosPresentInPu = app.eosPresentInPu /\ dec'.firstSliceInPicture = dec.firstSliceInPicture
      <4>1. dec.firstSliceInPicture \in BOOLEAN BY DEF Dec, Typed, TypeOK
      <4> QED BY <2>2, <3>2, <4>1, ReadingFields, DecodedFields DEF Place
    <3>4. pc # "aborted" BY <3>2 DEF Drop, Returned
    <3>5. app'.eosPresentInPu /\ ~dec'.firstSliceInPicture => Waits(Bound')
      BY <1>2, <1>4, <2>2, <3>3, <3>4
    <3> QED BY <1>1, <3>5 DEF WaitsAfterEos, Waits
  <2> QED BY <2>1, <2>2
<1>10. CASE DecodeHeader \/ AccessSlice
  <2>1. /\ UNCHANGED Place /\ pc \notin {"aborted", "returned", "read"} BY <1>10, SliceFields, SlicePlace
  <2>2. app'.eosPresentInPu /\ ~dec'.firstSliceInPicture => Waits(Bound')
    BY <1>2, <1>4, <2>1 DEF Place
  <2> QED BY <1>1, <2>2 DEF WaitsAfterEos, Waits
<1>11. CASE \/ NewPicture \/ ReadNal \/ FlushOne \/ FlushEnd \/ DecodeNonVcl \/ InsertUnavailable
            \/ LoseReference \/ FilterFreed \/ WriteOne \/ WriteEnd \/ EndOfStream
  <2>1. UNCHANGED Place BY <1>11, QuietFields
  <2>2. pc \notin {"aborted", "returned", "read"}
    BY <1>11 DEF NewPicture, ReadNal, FlushOne, FlushEnd, DecodeNonVcl, InsertUnavailable, LoseReference, FilterFreed,
       WriteOne, WriteEnd, EndOfStream
  <2>3. app'.eosPresentInPu /\ ~dec'.firstSliceInPicture => Waits(Bound')
    BY <1>2, <1>4, <2>1, <2>2 DEF Place
  <2> QED BY <1>1, <2>3 DEF WaitsAfterEos, Waits
<1>12. CASE Ended \/ UNCHANGED vars
  <2>1. UNCHANGED <<app, dec, pc, nal, pos, stream>> BY <1>12 DEF Ended, vars
  <2> QED BY <2>1 DEF WaitsAfterEos, Bound, IsSlice, Nut
<1> QED BY <1>6, <1>7, <1>8, <1>9, <1>10, <1>11, <1>12 DEF Next

\* A slice that does not start a picture belongs to the current one, which has
\* its buffer.
LEMMA ContinuesSame ==
  ASSUME Typed, Once, InsidePicture, WaitsAfterEos, CurrentIsLast, CurrentIsHeld, Derivable,
         pc \in {"access", "refs"}, ~dec.firstSliceInPicture
  PROVE  /\ ~app.eosPresentInPu /\ dec.curPic \in DOMAIN stream /\ dec.curPic < nal
         /\ SamePicture(stream, dec.curPic, nal) /\ OneSequence(stream, dec.curPic, nal)
         /\ Holds(listPic, dec.curPic) /\ ~dec.firstSliceInSequence
<1>1. /\ nal \in DOMAIN stream /\ Bound = nal
      /\ DOMAIN stream \subseteq Nat \ {0}
      /\ stream[nal].nut \in SliceTypes /\ stream[nal].tid <= options.maxTid
  BY DEF Bound, Typed, TypeOK, NalRead, Once, SliceDecoded, Slice
<1>2. ~IsHeader(stream[nal]) BY <1>1 DEF InsidePicture
<1>3. ASSUME NEW e \in DOMAIN stream, e < nal, stream[e].nut = "EOS"
      PROVE  \E r \in e + 1 .. nal - 1 : IsHeader(stream[r])
  <2>1. PICK r \in e + 1 .. nal : IsHeader(stream[r]) BY <1>1, <1>3 DEF Derivable, PocsAreDerivable
  <2>2. r # nal BY <1>2, <2>1
  <2>3. r \in e + 1 .. nal - 1 BY <1>1, <2>1, <2>2
  <2> QED BY <2>1, <2>3
<1>4. ~app.eosPresentInPu
  <2>1. pc # "aborted" /\ pc \notin {"returned", "read"} OBVIOUS
  <2> QED BY <1>1, <1>3, <2>1 DEF WaitsAfterEos
<1>5. PICK q \in DOMAIN stream :
        /\ q < nal /\ stream[q].nut \in SliceTypes
        /\ \A r \in q + 1 .. nal - 1 : ~IsHeader(stream[r])
        /\ stream[q].tid > options.maxTid \/ q = dec.curPic
  BY <1>1, <1>4 DEF InsidePicture
<1>6. ASSUME NEW r \in DOMAIN stream, q < r, r <= nal, stream[r].nut \in SliceTypes PROVE SamePicture(stream, q, r)
  <2>1. \A p \in q + 1 .. r : p = nal \/ p \in q + 1 .. nal - 1 BY <1>1, <1>6
  <2> QED BY <1>1, <1>2, <1>5, <1>6, <2>1 DEF SamePicture
<1>7. q = dec.curPic
  <2>1. stream[q].tid = stream[nal].tid BY <1>1, <1>5, <1>6 DEF Derivable, PicturesAreWhole
  <2> QED BY <1>1, <1>5, <2>1, TidTypes
<1>8. OneSequence(stream, q, nal)
  <2> SUFFICES ASSUME NEW r \in q + 1 .. nal PROVE ~BeginsSequence(stream[r])
    BY DEF OneSequence
  <2>1. r \in DOMAIN stream /\ q < r /\ r <= nal BY <1>1, StreamTypes
  <2>2. stream[r].nut # "EOS"
    <3>1. CASE r = nal BY <1>1, <3>1 DEF SliceTypes
    <3>2. CASE r < nal
      <4>1. ASSUME stream[r].nut = "EOS" PROVE \E p \in q + 1 .. nal - 1 : IsHeader(stream[p])
        <5>1. PICK p \in r + 1 .. nal - 1 : IsHeader(stream[p]) BY <1>3, <2>1, <3>2, <4>1
        <5>2. p \in q + 1 .. nal - 1 BY <1>1, <2>1
        <5> QED BY <5>1, <5>2
      <4> QED BY <1>5, <4>1
    <3> QED BY <1>1, <2>1, <3>1, <3>2
  <2>3. stream[r].nut = "IDR" => ~stream[r].start
    BY <1>6, <2>1 DEF Derivable, PocsAreDerivable, SliceTypes
  <2> QED BY <2>2, <2>3 DEF BeginsSequence
<1>9. Holds(listPic, dec.curPic) /\ ~dec.firstSliceInSequence
  <2>1. dec.curPic # 0 /\ \A r \in dec.curPic + 1 .. Bound - 1 : ~IsHeader(stream[r]) BY <1>1, <1>5, <1>7
  <2>2. pc \notin {"finalFlush", "done", "aborted"} OBVIOUS
  <2> QED BY <1>4, <2>1, <2>2 DEF CurrentIsHeld
<1> QED BY <1>1, <1>4, <1>5, <1>6, <1>7, <1>8, <1>9

\* A picture is opened when it is activated, or when its first slice is dropped.
LEMMA OpenNext ==
  ASSUME Typed, UnitEnds, [Next]_vars, ~dec'.firstSliceInPicture, ~app'.eosPresentInPu
  PROVE  \/ ActivatePicture
         \/ Drop /\ IsSlice /\ ~app.eosPresentInPu
         \/ ~dec.firstSliceInPicture /\ ~app.eosPresentInPu
<1>1. CASE PrepareOutput \/ NoOutput
  <2>1. pc = "output" BY <1>1 DEF PrepareOutput, NoOutput
  <2>2. newPicture => Nut # "EOS" /\ dec.firstSliceInPicture BY <2>1 DEF UnitEnds, Nut
  <2>3. Nut = "EOS" => app.eosPresentInPu BY <2>1 DEF UnitEnds
  <2>4. /\ app'.eosPresentInPu = (app.eosPresentInPu /\ ~newPicture)
        /\ \/ dec'.firstSliceInPicture = (dec.firstSliceInPicture /\ Nut # "EOS")
           \/ dec'.firstSliceInPicture = dec.firstSliceInPicture
    BY <1>1, FinishFields
  <2> QED BY <2>2, <2>3, <2>4
<1>2. CASE ReadEnd
  <2>1. /\ dec'.firstSliceInPicture = dec.firstSliceInPicture
        /\ app'.eosPresentInPu = (app.eosPresentInPu \/ Nut = "EOS")
    BY <1>2, ReadingFields
  <2> QED BY <2>1
<1>3. CASE Drop
  <2>1. /\ app'.eosPresentInPu = app.eosPresentInPu
        /\ dec'.firstSliceInPicture = (dec.firstSliceInPicture /\ ~IsSlice)
    BY <1>3, ReadingFields
  <2> QED BY <1>3, <2>1
<1>4. CASE FinishPicture BY <1>4, FinishFields
<1>5. CASE NoPicture
  <2>1. /\ app'.eosPresentInPu = app.eosPresentInPu
        /\ dec'.firstSliceInPicture = (dec.firstSliceInPicture \/ EndsPicture)
    BY <1>5, FinishFields
  <2> QED BY <2>1
<1>6. CASE LeaveUnfinished \/ DecodeHeader \/ SkipSlice \/ AccessSlice \/ ContinuePicture \/ Returned
  <2>1. UNCHANGED Place BY <1>6, FinishFields, SliceFields, DecodedFields
  <2> QED BY <2>1 DEF Place
<1>7. CASE \/ NewPicture \/ ReadNal \/ FlushOne \/ FlushEnd \/ DecodeNonVcl \/ InsertUnavailable
           \/ LoseReference \/ FilterFreed \/ WriteOne \/ WriteEnd \/ EndOfStream \/ Ended \/ UNCHANGED vars
  <2>1. UNCHANGED Place BY <1>7, QuietFields
  <2> QED BY <2>1 DEF Place
<1> QED BY <1>1, <1>2, <1>3, <1>4, <1>5, <1>6, <1>7 DEF Next

\* Buffers are deleted only between pictures, and pictures made up only where
\* decoding begins, when there is no current one.
LEMMA CurrentIsHeldNext ==
  ASSUME Typed, Once, UnitEnds, CurrentIsLast, CurrentIsHeld, GeneratesAtStart, Derivable, [Next]_vars
  PROVE  CurrentIsHeld'
<1>1. /\ DOMAIN stream \subseteq Nat \ {0} /\ nal \in Nat /\ UNCHANGED <<stream, options>>
      /\ Bound \in Nat /\ Bound' \in Nat /\ Bound <= Bound' /\ dec.curPic \in Nat
  <2>1. dec.curPic \in Nat BY DEF Dec, Typed, TypeOK
  <2> QED BY <2>1, StreamTypes, BoundNext
<1> SUFFICES ASSUME dec'.curPic # 0, ~dec'.firstSliceInPicture, ~app'.eosPresentInPu,
                    \A r \in dec'.curPic + 1 .. Bound' - 1 : ~IsHeader(stream[r]),
                    pc' \notin {"finalFlush", "done", "aborted"}
             PROVE  Holds(listPic', dec'.curPic) /\ ~dec'.firstSliceInSequence
  BY <1>1 DEF CurrentIsHeld
<1>2. CASE ActivatePicture BY <1>2, CurrentFields, ListNext
<1>3. CASE ~ActivatePicture
  <2>1. dec'.curPic = dec.curPic BY <1>3, CurrentFields
  <2>2. \A r \in dec.curPic + 1 .. Bound - 1 : ~IsHeader(stream[r])
    <3>1. ASSUME NEW b \in Nat, NEW c \in Nat, b <= c
          PROVE  \A r \in dec.curPic + 1 .. b - 1 : r \in dec.curPic + 1 .. c - 1
      BY <1>1, <3>1
    <3>2. \A r \in dec.curPic + 1 .. Bound - 1 : r \in dec'.curPic + 1 .. Bound' - 1 BY <1>1, <2>1, <3>1
    <3> QED BY <3>2
  <2>3. ~(Drop /\ IsSlice)
    <3> SUFFICES ASSUME Drop, IsSlice PROVE FALSE OBVIOUS
    <3>1. /\ nal \in DOMAIN stream /\ Bound = nal /\ Bound' = nal + 1
          /\ stream[nal].nut \in SliceTypes /\ stream[nal].tid > options.maxTid
      BY DEF Drop, IsSlice, Nut, Bound, Typed, TypeOK, NalRead
    <3>2. Slice(dec.curPic) /\ dec.curPic < nal BY <2>1, <3>1 DEF CurrentIsLast
    <3>3. SamePicture(stream, dec.curPic, nal)
      <4>1. \A r \in dec.curPic + 1 .. nal : r \in dec'.curPic + 1 .. Bound' - 1 BY <1>1, <2>1, <3>1
      <4> QED BY <1>1, <3>1, <3>2, <4>1 DEF SamePicture, Slice
    <3>4. stream[dec.curPic].tid = stream[nal].tid BY <3>1, <3>2, <3>3 DEF Derivable, PicturesAreWhole, Slice
    <3> QED BY <3>1, <3>2, <3>4, TidTypes DEF Slice
  <2>4. ~dec.firstSliceInPicture /\ ~app.eosPresentInPu BY <1>3, <2>3, OpenNext
  <2>5. pc \notin {"finalFlush", "done", "aborted"}
    BY DEF Next, NewPicture, ReadNal, FlushOne, FlushEnd, Drop, DecodeNonVcl, InsertUnavailable, LoseReference, DecodeHeader,
       SkipSlice, AccessSlice, ActivatePicture, ContinuePicture, Returned, ReadEnd, FinishPicture,
       LeaveUnfinished, NoPicture, FilterFreed, PrepareOutput, NoOutput, WriteOne, WriteEnd, EndOfStream, Ended, vars
  <2>6. Holds(listPic, dec.curPic) /\ ~dec.firstSliceInSequence
    BY <2>1, <2>2, <2>4, <2>5 DEF CurrentIsHeld
  <2>7. ~FlushEnd BY <2>4, <2>5 DEF CurrentIsLast, FlushEnd
  <2>8. ~InsertUnavailable BY <2>6 DEF GeneratesAtStart, InsertUnavailable
  <2>9. ~FinishPicture BY FinishFields
  <2>10. Holds(listPic', dec.curPic) BY <1>3, <2>6, <2>7, <2>8, <2>9, ListNext
  <2>11. ~dec'.firstSliceInSequence
    <3>1. LeaveUnfinished /\ Nut = "EOS" => app.eosPresentInPu BY DEF LeaveUnfinished, UnitEnds
    <3> QED BY <2>4, <2>6, <2>9, <3>1, CurrentFields
  <2> QED BY <2>1, <2>10, <2>11
<1> QED BY <1>2, <1>3

\* Pictures are made up for a CRA or GDR picture where decoding begins.
LEMMA GeneratesAtStartNext ==
  ASSUME Typed, GeneratesAtStart, [Next]_vars
  PROVE  GeneratesAtStart'
<1> SUFFICES ASSUME pc' \in {"access", "refs"}, MayGenerate' PROVE dec'.firstSliceInSequence
  BY DEF GeneratesAtStart
<1>1. UNCHANGED stream BY BoundNext
<1>2. CASE DecodeHeader
  <2>1. Nut' = Nut BY <1>1, <1>2 DEF DecodeHeader, Nut
  <2>2. Nut \in {"CRA", "GDR"} /\ StartsDecoding BY <1>2, <2>1, HeaderPoc DEF MayGenerate
  <2>3. dec'.firstSliceInSequence = dec.firstSliceInSequence BY <1>2, SliceFields
  <2> QED BY <2>2, <2>3 DEF StartsDecoding
<1>3. CASE ~DecodeHeader
  <2>1. pc \in {"access", "refs"} /\ UNCHANGED <<nal, dec.noOutputBeforeRecovery>>
    BY <1>3, ParsedNext, CountedFields
  <2>2. MayGenerate BY <1>1, <2>1 DEF MayGenerate, Nut
  <2>3. ~ActivatePicture /\ ~ContinuePicture BY SlicePlace
  <2> QED BY <2>1, <2>2, <2>3, CurrentFields DEF GeneratesAtStart
<1> QED BY <1>2, <1>3

\* With the end of a sequence, its pictures are behind.
LEMMA StartsAfterEosNext ==
  ASSUME Typed, Once, CurrentIsLast, StartsAfterEos, [Next]_vars
  PROVE  StartsAfterEos'
<1> SUFFICES ASSUME dec'.firstSliceInSequence, NEW i \in DOMAIN listPic', listPic'[i].pic # 0
             PROVE  \E e \in listPic'[i].pic + 1 .. Parsed' - 1 : stream'[e].nut = "EOS"
  BY DEF StartsAfterEos
<1>1. ~ActivatePicture /\ ~ContinuePicture BY CurrentFields, DecodedFields
<1>2. PICK j \in DOMAIN listPic : listPic[j].pic = listPic'[i].pic BY <1>1, ListNext DEF Had
<1>3. /\ DOMAIN stream \subseteq Nat \ {0} /\ nal \in Nat /\ pos \in Nat /\ UNCHANGED stream
      /\ Parsed \in Nat /\ Parsed' \in Nat /\ Parsed <= Parsed' /\ listPic[j].pic \in Nat
  <2>1. listPic[j] \in Buffer BY DEF Typed, TypeOK
  <2> QED BY <2>1, StreamTypes, ParsedNext DEF Buffer
<1>4. CASE dec.firstSliceInSequence
  <2>1. PICK e \in listPic[j].pic + 1 .. Parsed - 1 : stream[e].nut = "EOS" BY <1>2, <1>4 DEF StartsAfterEos
  <2>2. e \in listPic[j].pic + 1 .. Parsed' - 1
    <3>1. ASSUME NEW b \in Nat, NEW c \in Nat, b <= c, e \in listPic[j].pic + 1 .. b - 1
          PROVE  e \in listPic[j].pic + 1 .. c - 1
      BY <1>3, <3>1
    <3> QED BY <1>3, <2>1, <3>1
  <2> QED BY <1>2, <1>3, <2>1, <2>2
<1>5. CASE ~dec.firstSliceInSequence
  <2>1. (FinishPicture \/ LeaveUnfinished) /\ Nut = "EOS" BY <1>5, CurrentFields
  <2>2. /\ pc = "finish" /\ pc' = "output" /\ UNCHANGED pos /\ nal = pos - 1 /\ stream[nal].nut = "EOS"
    BY <2>1 DEF FinishPicture, LeaveUnfinished, CurrentIsLast, Nut
  <2>3. Parsed' = pos /\ Bound = pos BY <2>2 DEF Parsed, Bound
  <2>4. Slice(listPic[j].pic) /\ listPic[j].pic < pos BY <1>2, <2>3 DEF Once, BuffersHoldSlices
  <2>5. listPic[j].pic # nal BY <2>2, <2>4 DEF Slice, SliceTypes
  <2>6. nal \in listPic[j].pic + 1 .. pos - 1 BY <1>3, <2>2, <2>4, <2>5
  <2> QED BY <1>2, <1>3, <2>2, <2>3, <2>6
<1> QED BY <1>4, <1>5

-----------------------------------------------------------------------------
(* The number by which the POCs differ. *)

\* The types of the POCs that are kept.
LEMMA CountTypes ==
  ASSUME Typed
  PROVE  /\ dec.poc \in Int /\ dec.prevTid0POC \in Int /\ dec.curPic \in Nat
         /\ \A i \in DOMAIN listPic : listPic[i].pic \in Nat /\ listPic[i].poc \in Int
<1>1. \A i \in DOMAIN listPic : listPic[i] \in Buffer BY DEF Typed, TypeOK
<1> QED BY <1>1 DEF Buffer, Dec, Typed, TypeOK

\* A new buffer gets the POC of the slice, and so does that of the current
\* picture from its other slices.
LEMMA BuffersCountNext ==
  ASSUME Typed, Once, InsidePicture, WaitsAfterEos, CurrentIsLast, CurrentIsHeld, Derivable,
         NEW k, BuffersCountFrom(k), SliceCountsFrom(k), [Next]_vars
  PROVE  BuffersCountFrom(k)'
<1> SUFFICES ASSUME NEW i \in DOMAIN listPic', listPic'[i].pic # 0,
                    OneSequence(stream', listPic'[i].pic, Parsed' - 1)
             PROVE  listPic'[i].poc = stream'[listPic'[i].pic].poc + k
  BY DEF BuffersCountFrom
<1>1. UNCHANGED stream /\ Parsed \in Nat /\ Parsed' \in Nat /\ Parsed <= Parsed' /\ Bound <= Parsed /\ Bound \in Nat
  BY StreamTypes, ParsedNext
<1>2. ASSUME NEW p \in Nat, p < Parsed, OneSequence(stream', p, Parsed' - 1) PROVE OneSequence(stream, p, Parsed - 1)
  <2>1. ASSUME NEW b \in Nat, NEW c \in Nat, p < b, b <= c, OneSequence(stream, p, c - 1)
        PROVE  OneSequence(stream, p, b - 1)
    BY <2>1, OneSequenceParts
  <2> QED BY <1>1, <1>2, <2>1
<1>3. ASSUME NEW j \in DOMAIN listPic, listPic[j].pic = listPic'[i].pic
      PROVE  listPic[j].poc = stream'[listPic'[i].pic].poc + k
  <2>1. listPic[j].pic \in Nat BY CountTypes
  <2>2. listPic[j].pic < Bound BY <1>3 DEF Once, BuffersHoldSlices
  <2>3. listPic[j].pic < Parsed BY <1>1, <2>1, <2>2
  <2> QED BY <1>1, <1>2, <1>3, <2>1, <2>3 DEF BuffersCountFrom
<1>4. CASE ActivatePicture
  <2>1. pc = "refs" BY <1>4, SlicePlace
  <2>2. dec.poc = stream[nal].poc + k BY <2>1 DEF SliceCountsFrom
  <2> QED BY <1>1, <1>3, <1>4, <2>2, ListNext DEF Had
<1>5. CASE ContinuePicture
  <2>1. pc = "refs" /\ ~dec.firstSliceInPicture BY <1>5 DEF ContinuePicture
  <2>2. /\ dec.poc = stream[nal].poc + k
        /\ dec.curPic \in DOMAIN stream /\ dec.curPic < nal /\ nal \in DOMAIN stream
        /\ SamePicture(stream, dec.curPic, nal) /\ Holds(listPic, dec.curPic)
    BY <2>1, ContinuesSame DEF SliceCountsFrom, Typed, NalRead
  <2>3. stream[dec.curPic].poc = stream[nal].poc BY <2>2 DEF Derivable, PocsAreDerivable
  <2>4. listPic[IndexOf(listPic, dec.curPic)].pic = dec.curPic BY <2>2, IndexOfType
  <2>5. /\ i \in DOMAIN listPic /\ listPic'[i].pic = listPic[i].pic
        /\ listPic'[i].poc = IF i = IndexOf(listPic, dec.curPic) THEN dec.poc ELSE listPic[i].poc
    BY <1>5, ListNext
  <2> QED BY <1>1, <1>3, <2>2, <2>3, <2>4, <2>5
<1>6. CASE ~ActivatePicture /\ ~ContinuePicture
  BY <1>3, <1>6, ListNext DEF Had
<1> QED BY <1>4, <1>5, <1>6

\* A slice in the buffers is one of the stream, before the one that is read.
LEMMA BuffersAreBefore ==
  ASSUME Typed, Once, pc = "decode", NEW i \in DOMAIN listPic, listPic[i].pic # 0
  PROVE  IsSliceAt(listPic[i].pic) /\ listPic[i].pic < nal /\ listPic[i].pic \in Nat
BY CountTypes DEF Once, BuffersHoldSlices, Slice, IsSliceAt, Bound

\* The pictures in the buffers are of other sequences than the slice: their
\* POCs do not matter any more.
LEMMA BuffersAreBehind ==
  ASSUME Typed, Once, DecodeHeader, NEW k,
         \A i \in DOMAIN listPic : listPic[i].pic # 0 => ~OneSequence(stream, listPic[i].pic, nal)
  PROVE  BuffersCountFrom(k)'
<1>1. [Next]_vars /\ ~ActivatePicture /\ ~ContinuePicture BY SlicePlace DEF Next
<1>2. Parsed' - 1 = nal /\ UNCHANGED stream
  <2>1. Parsed' = nal + 1 /\ UNCHANGED stream BY <1>1, ParsedNext
  <2> QED BY <2>1, StreamTypes
<1> QED BY <1>1, <1>2, ListNext DEF BuffersCountFrom, Had

\* The slices of an IDR picture share their POC.
LEMMA IdrCountsHeader ==
  ASSUME Typed, Derivable, DecodeHeader, NEW k,
         Nut = "IDR" => k = PocLsb(stream[nal].poc) - stream[nal].poc
  PROVE  IdrCountsFrom(k)'
<1>1. [Next]_vars BY DEF Next
<1>2. /\ nal \in DOMAIN stream /\ UNCHANGED stream /\ Parsed' = nal + 1
      /\ stream[nal].nut = Nut /\ Nut \in SliceTypes /\ nal \in Nat
      /\ DOMAIN stream \subseteq Nat \ {0}
  BY <1>1, ParsedNext, StreamTypes DEF DecodeHeader, IsSlice, Nut
<1> SUFFICES ASSUME NEW p \in DOMAIN stream, p < nal + 1, stream[p].nut = "IDR",
                    \A r \in p + 1 .. nal + 1 - 1 : ~IsHeader(stream[r])
             PROVE  k = PocLsb(stream[p].poc) - stream[p].poc
  BY <1>2 DEF IdrCountsFrom, IsSliceAt
<1>3. CASE p = nal BY <1>2, <1>3
<1>4. CASE p < nal
  <2>1. \A r \in p + 1 .. nal : r \in p + 1 .. nal + 1 - 1 BY <1>2
  <2>2. SamePicture(stream, p, nal) BY <1>2, <1>4, <2>1 DEF SamePicture, SliceTypes
  <2>3. stream[nal].nut = "IDR" /\ stream[nal].poc = stream[p].poc
    BY <1>2, <1>4, <2>2 DEF Derivable, PicturesAreWhole, PocsAreDerivable
  <2> QED BY <1>2, <2>3
<1> QED BY <1>2, <1>3, <1>4

\* What is left to show when a header has been parsed.
LEMMA OriginAfterHeader ==
  ASSUME Typed, Derivable, DecodeHeader,
         NEW k, Cycle(k), dec'.poc = stream[nal].poc + k,
         BuffersCountFrom(k)', IdrCountsFrom(k)',
         IsAnchor(stream[nal]) \/ AnchorsFrom(dec.prevTid0POC - k, nal)
  PROVE  HasOrigin'
<1>1. [Next]_vars BY DEF Next
<1>2. nal \in DOMAIN stream /\ UNCHANGED <<stream, nal>> /\ Parsed' = nal + 1 /\ IsSliceAt(nal)
  BY <1>1, ParsedNext, StreamTypes DEF DecodeHeader, IsSlice, Nut, IsSliceAt
<1>3. k \in Int /\ stream[nal].poc \in Int BY <1>2, CycleFacts, StreamTypes
<1>4. AnchorsFrom(dec'.prevTid0POC - k, nal + 1)
  <2>1. CASE IsAnchor(stream[nal])
    <3>1. dec'.prevTid0POC - k = stream[nal].poc BY <1>3, <2>1, HeaderPoc
    <3>2. stream[nal].poc \in Anchors(stream[nal]) BY <2>1 DEF Anchors
    <3> QED BY <1>2, <3>1, <3>2, AnchorsAfterSlice
  <2>2. CASE ~IsAnchor(stream[nal])
    <3>1. dec'.prevTid0POC = dec.prevTid0POC BY <2>2, HeaderPoc
    <3> QED BY <1>2, <2>2, <3>1, AnchorsAfterOther
  <2> QED BY <2>1, <2>2
<1>5. AnchorsFrom(dec.prevTid0POC - k, Parsed)'
  BY <1>2, <1>4 DEF AnchorsFrom, IsSliceAt
<1>6. SliceCountsFrom(k)' BY <1>2 DEF SliceCountsFrom
<1>7. CountsFrom(k)' BY <1>5, <1>6 DEF CountsFrom
<1>8. Cycle(k)' BY DEF Cycle
<1> QED BY <1>7, <1>8 DEF HasOrigin

\* The number after a slice header: another one at an IDR picture, and where
\* decoding or the sequence begins; otherwise the anchor is near enough.
LEMMA HeaderOrigin ==
  ASSUME Typed, Once, InsidePicture, StartsAfterEos, WaitsAfterEos, CurrentIsLast, CurrentIsHeld,
         Derivable, HasOrigin, DecodeHeader
  PROVE  HasOrigin'
<1>1. [Next]_vars /\ pc = "decode" /\ pc' = "access" BY SlicePlace DEF Next
<1>2. PICK k : Cycle(k) /\ CountsFrom(k) BY DEF HasOrigin
<1> DEFINE n == stream[nal]
<1>3. /\ nal \in DOMAIN stream /\ Parsed = nal /\ IsSliceAt(nal) /\ nal \in Nat /\ n.nut = Nut
      /\ n.poc \in Int /\ k \in Int /\ dec.prevTid0POC \in Int /\ DOMAIN stream \subseteq Nat \ {0}
  BY <1>1, <1>2, ParsedNext, StreamTypes, CountTypes, CycleFacts DEF DecodeHeader, IsSlice, Nut, IsSliceAt
<1>4. BuffersCountFrom(k) /\ SliceCountsFrom(k) /\ IdrCountsFrom(k) /\ AnchorsFrom(dec.prevTid0POC - k, nal)
  BY <1>2, <1>3 DEF CountsFrom
<1>5. BuffersCountFrom(k)' BY <1>1, <1>4, BuffersCountNext
<1>6. Nut \in {"IDR", "CRA", "GDR"} => IsAnchor(n)
  BY <1>3 DEF Derivable, PocsAreDerivable, AnchorsComeFirst, IsSliceAt
<1>7. PICK z : z = PocLsb(n.poc) - n.poc OBVIOUS
<1>8. Cycle(z) /\ PocLsb(n.poc) \in Int /\ z \in Int BY <1>3, <1>7, CycleFacts
<1>9. CASE Nut = "IDR"
  <2>1. dec'.poc = PocLsb(n.poc) BY <1>3, <1>9, HeaderPoc DEF SlicePoc, IdrPoc
  <2>2. dec'.poc = n.poc + z BY <1>3, <1>7, <1>8, <2>1
  <2>3. BuffersCountFrom(z)'
    <3>1. CASE n.start
      <4>1. ASSUME NEW i \in DOMAIN listPic, listPic[i].pic # 0 PROVE ~OneSequence(stream, listPic[i].pic, nal)
        <5>1. listPic[i].pic < nal /\ listPic[i].pic \in Nat BY <1>1, <4>1, BuffersAreBefore
        <5>2. nal \in listPic[i].pic + 1 .. nal BY <1>3, <5>1
        <5> QED BY <1>3, <1>9, <3>1, <5>2 DEF OneSequence, BeginsSequence
      <4> QED BY <4>1, BuffersAreBehind
    <3>2. CASE ~n.start
      <4>1. PICK p \in DOMAIN stream : p < nal /\ SamePicture(stream, p, nal)
        BY <1>3, <3>2 DEF Derivable, PicturesAreWhole, IsSliceAt
      <4>2. stream[p].nut = "IDR" /\ stream[p].poc = n.poc
        BY <1>3, <1>9, <4>1 DEF Derivable, PicturesAreWhole, PocsAreDerivable
      <4>3. \A r \in p + 1 .. nal - 1 : ~IsHeader(stream[r])
        <5>1. \A r \in p + 1 .. nal - 1 : r \in p + 1 .. nal BY <1>3
        <5> QED BY <4>1, <5>1 DEF SamePicture
      <4>4. IsSliceAt(p) BY <4>2 DEF IsSliceAt, SliceTypes
      <4>5. k = z BY <1>3, <1>4, <1>7, <4>1, <4>2, <4>3, <4>4 DEF IdrCountsFrom
      <4> QED BY <1>5, <4>5
    <3>3. n.start \in BOOLEAN
      <4>1. stream[nal] \in NalUnit BY <1>3 DEF Typed, TypeOK
      <4> QED BY <4>1 DEF NalUnit
    <3> QED BY <3>1, <3>2, <3>3
  <2>4. IdrCountsFrom(z)' BY <1>7, IdrCountsHeader
  <2> QED BY <1>6, <1>8, <1>9, <2>2, <2>3, <2>4, OriginAfterHeader
<1>10. CASE Nut \in {"CRA", "GDR"} /\ StartsDecoding
  <2>1. SlicePoc(n) = DerivedPoc(PocLsb(n.poc), dec.prevTid0POC) BY <1>3, <1>10 DEF SlicePoc
  <2>2. PocLsb(SlicePoc(n)) = PocLsb(n.poc)
    <3> DEFINE c == SlicePoc(n) - n.poc
    <3>1. Cycle(c) /\ SlicePoc(n) \in Int BY <1>3, <2>1, CycleFacts
    <3>2. SlicePoc(n) = n.poc + c BY <1>3, <3>1
    <3> HIDE DEF c
    <3> QED BY <1>3, <3>1, <3>2, CycleFacts
  <2>3. dec'.poc = PocLsb(n.poc) BY <1>10, <2>2, HeaderPoc
  <2>4. dec'.poc = n.poc + z BY <1>3, <1>7, <1>8, <2>3
  <2>5. BuffersCountFrom(z)'
    <3>1. ASSUME NEW i \in DOMAIN listPic, listPic[i].pic # 0 PROVE ~OneSequence(stream, listPic[i].pic, nal)
      <4>1. listPic[i].pic < nal /\ listPic[i].pic \in Nat BY <1>1, <3>1, BuffersAreBefore
      <4>2. dec.firstSliceInSequence BY <1>10 DEF StartsDecoding
      <4>3. PICK e \in listPic[i].pic + 1 .. nal - 1 : stream[e].nut = "EOS" BY <1>3, <3>1, <4>2 DEF StartsAfterEos
      <4>4. e \in listPic[i].pic + 1 .. nal BY <1>3, <4>1, <4>3
      <4> QED BY <4>3, <4>4 DEF OneSequence, BeginsSequence
    <3> QED BY <3>1, BuffersAreBehind
  <2>6. IdrCountsFrom(z)' BY <1>10, IdrCountsHeader
  <2> QED BY <1>6, <1>8, <1>10, <2>4, <2>5, <2>6, OriginAfterHeader
<1>11. CASE Nut # "IDR" /\ ~(Nut \in {"CRA", "GDR"} /\ StartsDecoding)
  <2>1. dec'.poc = DerivedPoc(PocLsb(n.poc), dec.prevTid0POC) BY <1>3, <1>11, HeaderPoc DEF SlicePoc
  <2>2. CASE /\ IsAnchor(n)
             /\ \A p : IsSliceAt(p) /\ p < nal => ~OneSequence(stream, p, nal)
    <3>0. PICK c : c = dec'.poc - n.poc OBVIOUS
    <3>1. Cycle(c) /\ dec'.poc \in Int BY <1>3, <2>1, <3>0, CycleFacts
    <3>2. dec'.poc = n.poc + c BY <1>3, <3>0, <3>1
    <3>3. BuffersCountFrom(c)' BY <1>1, <2>2, BuffersAreBefore, BuffersAreBehind
    <3>4. IdrCountsFrom(c)' BY <1>11, IdrCountsHeader
    <3> QED BY <2>2, <3>1, <3>2, <3>3, <3>4, OriginAfterHeader
  <2>3. CASE IsNear(n.poc, dec.prevTid0POC - k)
    <3> DEFINE y == n.poc + k
    <3>1. y \in Int /\ PocLsb(y) = PocLsb(n.poc)
      <4>1. \A x \in Int : PocLsb(x + k) = PocLsb(x) BY <1>2, CycleFacts
      <4> QED BY <1>3, <4>1
    <3>2. MaxPocLsb \div 2 \in Int BY StreamTypes
    <3>3. dec.prevTid0POC - MaxPocLsb \div 2 < y /\ y <= dec.prevTid0POC + MaxPocLsb \div 2
      BY <1>3, <2>3, <3>2 DEF IsNear
    <3> HIDE DEF y
    <3>4. DerivedPoc(PocLsb(y), dec.prevTid0POC) = y BY <1>3, <3>1, <3>3, DerivedPocExact
    <3>5. dec'.poc = n.poc + k BY <2>1, <3>1, <3>4 DEF y
    <3>6. IdrCountsFrom(k)' BY <1>11, IdrCountsHeader
    <3> QED BY <1>2, <1>4, <1>5, <3>5, <3>6, OriginAfterHeader
  <2> QED BY <1>3, <1>4, <2>2, <2>3, SliceIsNear
<1> QED BY <1>9, <1>10, <1>11

\* The number stays while no slice header is parsed.
LEMMA HasOriginNext ==
  ASSUME Typed, Once, InsidePicture, StartsAfterEos, WaitsAfterEos, CurrentIsLast, CurrentIsHeld,
         Derivable, HasOrigin, [Next]_vars
  PROVE  HasOrigin'
<1>1. CASE DecodeHeader BY <1>1, HeaderOrigin
<1>2. CASE ~DecodeHeader
  <2>1. PICK k : Cycle(k) /\ CountsFrom(k) BY DEF HasOrigin
  <2>2. /\ BuffersCountFrom(k) /\ SliceCountsFrom(k) /\ IdrCountsFrom(k)
        /\ AnchorsFrom(dec.prevTid0POC - k, Parsed)
    BY <2>1 DEF CountsFrom
  <2>3. BuffersCountFrom(k)' BY <2>2, BuffersCountNext
  <2>4. UNCHANGED <<stream, dec.poc>> BY <1>2, ParsedNext, CountedFields
  <2>5. SliceCountsFrom(k)'
    BY <1>2, <2>2, <2>4, ParsedNext DEF SliceCountsFrom
  <2>6. /\ DOMAIN stream \subseteq Nat \ {0} /\ nal \in Nat /\ Parsed \in Nat /\ k \in Int
        /\ dec.poc \in Int
        /\ \A q \in DOMAIN stream : stream[q].poc \in Int /\ stream[q].tid \in Nat /\ stream[q].active \subseteq Int
    BY <2>1, StreamTypes, ParsedNext, CountTypes, CycleFacts
  <2>7. CASE Drop \/ DecodeNonVcl
    <3>1. nal \in DOMAIN stream /\ Parsed = nal /\ Parsed' = nal + 1 BY <2>7, ParsedNext
    <3>2. IsSliceAt(nal) => stream[nal].tid > options.maxTid
      BY <2>6, <2>7, <3>1 DEF Drop, DecodeNonVcl, IsSlice, Nut, IsSliceAt
    <3>3. IsSliceAt(nal) => ~IsAnchor(stream[nal]) BY <2>6, <3>1, <3>2, TidTypes DEF IsAnchor
    <3>4. stream[nal].nut # "IDR"
      BY <3>1, <3>3 DEF Derivable, PocsAreDerivable, AnchorsComeFirst, IsSliceAt, SliceTypes
    <3>5. AnchorsFrom(dec.prevTid0POC - k, nal + 1) BY <2>2, <3>1, <3>3, AnchorsAfterOther
    <3>6. dec'.prevTid0POC = dec.prevTid0POC
      <4>1. ~InsertUnavailable BY <2>7 DEF Drop, DecodeNonVcl, InsertUnavailable
      <4> QED BY <1>2, <4>1, CountedFields
    <3>7. AnchorsFrom(dec.prevTid0POC - k, Parsed)' BY <2>4, <3>1, <3>5, <3>6 DEF AnchorsFrom, IsSliceAt
    <3>8. IdrCountsFrom(k)'
      <4>0. stream' = stream /\ Parsed' = nal + 1 BY <2>4, <3>1
      <4> SUFFICES ASSUME NEW p \in DOMAIN stream, p < nal + 1, stream[p].nut = "IDR",
                          \A r \in p + 1 .. nal + 1 - 1 : ~IsHeader(stream[r])
                   PROVE  k = PocLsb(stream[p].poc) - stream[p].poc
        BY <2>6, <4>0 DEF IdrCountsFrom, IsSliceAt
      <4>1. p < nal BY <2>6, <3>4
      <4>2. \A r \in p + 1 .. nal - 1 : r \in p + 1 .. nal + 1 - 1 BY <2>6
      <4>3. \A r \in p + 1 .. nal - 1 : ~IsHeader(stream[r]) BY <4>2
      <4>4. IsSliceAt(p) BY DEF IsSliceAt, SliceTypes
      <4> QED BY <2>2, <3>1, <4>1, <4>3, <4>4 DEF IdrCountsFrom
    <3>9. CountsFrom(k)' BY <2>3, <2>5, <3>7, <3>8 DEF CountsFrom
    <3> QED BY <2>1, <3>9 DEF HasOrigin, Cycle
  <2>8. CASE ~(Drop \/ DecodeNonVcl)
    <3>1. Parsed' = Parsed BY <1>2, <2>8, ParsedNext
    <3>2. IdrCountsFrom(k)' BY <2>2, <2>4, <3>1 DEF IdrCountsFrom, IsSliceAt
    <3>3. AnchorsFrom(dec'.prevTid0POC - k, Parsed)
      <4>1. CASE InsertUnavailable
        <5>1. pc = "refs" /\ MayGenerate BY <4>1 DEF InsertUnavailable
        <5>2. Parsed = nal + 1 /\ nal \in DOMAIN stream BY <5>1, ParsedNext
        <5>3. PICK p \in Noticed : dec' = [dec EXCEPT !.prevTid0POC = p] BY <4>1 DEF InsertUnavailable
        <5>4. dec'.prevTid0POC = p BY <5>3 DEF Dec, Typed, TypeOK
        <5>5. Nut = stream[nal].nut /\ Nut \in {"CRA", "GDR"} BY <2>6, <5>1, <5>2 DEF MayGenerate, Nut
        <5>6. PICK d \in stream[nal].active : p = dec.poc + d BY <5>3, <5>5 DEF Noticed, Missing
        <5>7. dec.poc = stream[nal].poc + k BY <2>2, <5>1 DEF SliceCountsFrom
        <5>8. p - k = stream[nal].poc + d
          <6>1. d \in Int /\ stream[nal].poc \in Int BY <2>6, <5>2, <5>6
          <6> QED BY <2>6, <5>6, <5>7, <6>1
        <5>9. p - k \in Anchors(stream[nal]) BY <5>5, <5>6, <5>8 DEF Anchors
        <5>10. IsSliceAt(nal) BY <5>2, <5>5 DEF IsSliceAt, SliceTypes
        <5> QED BY <5>2, <5>4, <5>9, <5>10, AnchorsAfterSlice
      <4>2. CASE ~InsertUnavailable BY <1>2, <2>2, <4>2, CountedFields
      <4> QED BY <4>1, <4>2
    <3>4. AnchorsFrom(dec.prevTid0POC - k, Parsed)' BY <2>4, <3>1, <3>3 DEF AnchorsFrom, IsSliceAt
    <3>5. CountsFrom(k)' BY <2>3, <2>5, <3>2, <3>4 DEF CountsFrom
    <3> QED BY <2>1, <3>5 DEF HasOrigin, Cycle
  <2> QED BY <2>7, <2>8
<1> QED BY <1>1, <1>2

\* A POC that is set agrees with those of its sequence, which count from the
\* same origin.
LEMMA PocsAgreeNext ==
  ASSUME Typed, Once, InsidePicture, WaitsAfterEos, CurrentIsLast, CurrentIsHeld,
         Derivable, HasOrigin, PocsAgree, [Next]_vars
  PROVE  PocsAgree'
<1>1. PICK k : Cycle(k) /\ CountsFrom(k) BY DEF HasOrigin
<1>2. BuffersCountFrom(k)' BY <1>1, BuffersCountNext DEF CountsFrom
<1>3. UNCHANGED stream /\ k \in Int BY <1>1, ParsedNext, CycleFacts
<1>4. /\ \A i \in DOMAIN listPic : /\ listPic[i].pic \in Nat /\ listPic[i].poc \in Int
                                   /\ listPic[i].pic # 0 => listPic[i].pic \in DOMAIN stream
      /\ \A i \in DOMAIN listPic' : /\ listPic'[i].pic \in Nat /\ listPic'[i].poc \in Int
                                    /\ listPic'[i].pic # 0 => listPic'[i].pic \in DOMAIN stream
      /\ \A q \in DOMAIN stream : stream[q].poc \in Int
      /\ DOMAIN stream \subseteq Nat \ {0}
  <2>1. Typed' /\ Once' BY TypedNext, OnceNext
  <2>2. \A i \in DOMAIN listPic' : listPic'[i] \in Buffer BY <2>1 DEF Typed, TypeOK
  <2>3. \A i \in DOMAIN listPic' : listPic'[i].pic # 0 => listPic'[i].pic \in DOMAIN stream
    BY <1>3, <2>1 DEF Once, BuffersHoldSlices, Slice
  <2> QED BY <2>2, <2>3, CountTypes, StreamTypes DEF Once, BuffersHoldSlices, Slice, Buffer
<1> DEFINE Pic(i) == listPic'[i].pic
           Poc(i) == listPic'[i].poc
           Was(i) == Had(Pic(i), Poc(i))
<1> SUFFICES ASSUME NEW i \in DOMAIN listPic', NEW j \in DOMAIN listPic', Pic(i) # 0, Pic(j) # 0,
                    SameSequence(Pic(i), Pic(j))
             PROVE  Poc(i) - Poc(j) = stream[Pic(i)].poc - stream[Pic(j)].poc
  BY <1>3 DEF PocsAgree, SameSequence
<1>5. CASE Was(i) /\ Was(j)
  BY <1>5 DEF PocsAgree, Had
<1>6. ASSUME pc = "refs", Parsed' = nal + 1, Parsed' - 1 = nal,
             NEW c \in Int, c <= nal, OneSequence(stream, c, nal),
             NEW m \in DOMAIN listPic', Pic(m) # 0, Pic(m) <= c, OneSequence(stream, Pic(m), c)
      PROVE  Poc(m) = stream[Pic(m)].poc + k
  <2>1. Pic(m) \in Int /\ nal \in Int BY <1>4, <1>6, StreamTypes
  <2>2. OneSequence(stream, Pic(m), nal) BY <1>6, <2>1, OneSequenceParts
  <2> QED BY <1>2, <1>3, <1>6, <2>2 DEF BuffersCountFrom, OneSequence
<1>7. ASSUME Pic(i) \in DOMAIN stream, Pic(j) \in DOMAIN stream,
             Poc(i) = stream[Pic(i)].poc + k, Poc(j) = stream[Pic(j)].poc + k
      PROVE  Poc(i) - Poc(j) = stream[Pic(i)].poc - stream[Pic(j)].poc
  <2>1. stream[Pic(i)].poc \in Int /\ stream[Pic(j)].poc \in Int BY <1>4, <1>7
  <2> HIDE DEF Pic, Poc
  <2> QED BY <1>3, <1>7, <2>1
<1>8. CASE ActivatePicture \/ ContinuePicture
  <2> DEFINE c == dec'.curPic
  <2>1. pc = "refs" /\ nal \in Nat /\ Parsed' = nal + 1 /\ Parsed' - 1 = nal
    <3>1. pc = "refs" BY <1>8, SlicePlace
    <3>2. ~(Drop \/ DecodeNonVcl \/ DecodeHeader) BY <3>1 DEF Drop, DecodeNonVcl, DecodeHeader
    <3>3. Parsed' = nal + 1 BY <3>1, <3>2, ParsedNext
    <3> QED BY <3>1, <3>3, StreamTypes
  <2>2. c \in Int /\ c <= nal /\ OneSequence(stream, c, nal) /\ OneSequence(stream, c, c)
    <3>1. CASE ActivatePicture
      <4>1. c = nal BY <3>1, CurrentFields
      <4> QED BY <2>1, <4>1 DEF OneSequence
    <3>2. CASE ContinuePicture /\ ~ActivatePicture
      <4>1. ~dec.firstSliceInPicture /\ c = dec.curPic BY <3>2, CurrentFields DEF ContinuePicture
      <4>2. dec.curPic \in Int /\ dec.curPic < nal /\ OneSequence(stream, dec.curPic, nal)
        BY <2>1, <4>1, ContinuesSame, CountTypes
      <4> QED BY <2>1, <4>1, <4>2 DEF OneSequence
    <3> QED BY <1>8, <3>1, <3>2
  <2>3. \A m \in DOMAIN listPic' : Pic(m) <= c
    <3>1. CurrentIsLast' BY CurrentIsLastNext
    <3> QED BY <3>1 DEF CurrentIsLast
  <2>4. \A m \in DOMAIN listPic' : Pic(m) = c \/ Was(m)
    <3>1. CASE ActivatePicture
      <4>1. c = nal BY <3>1, CurrentFields
      <4> QED BY <3>1, <4>1, ListNext
    <3>2. CASE ContinuePicture /\ ~ActivatePicture
      <4>1. ~dec.firstSliceInPicture /\ c = dec.curPic BY <3>2, CurrentFields DEF ContinuePicture
      <4>2. Holds(listPic, dec.curPic) BY <2>1, <4>1, ContinuesSame
      <4>3. listPic[IndexOf(listPic, dec.curPic)].pic = dec.curPic BY <4>2, IndexOfType
      <4> QED BY <3>2, <4>1, <4>3, ListNext DEF Had
    <3> QED BY <1>8, <3>1, <3>2
  <2>5. ASSUME Pic(i) = c \/ Pic(j) = c
        PROVE  OneSequence(stream, Pic(i), c) /\ OneSequence(stream, Pic(j), c)
    BY <2>2, <2>5 DEF SameSequence
  <2>6. CASE Pic(i) = c \/ Pic(j) = c
    <3>1. Poc(i) = stream[Pic(i)].poc + k /\ Poc(j) = stream[Pic(j)].poc + k
      BY <1>6, <2>1, <2>2, <2>3, <2>5, <2>6
    <3> QED BY <1>4, <1>7, <3>1
  <2>7. CASE ~(Pic(i) = c \/ Pic(j) = c) BY <1>5, <2>4, <2>7
  <2> QED BY <2>6, <2>7
<1>9. CASE ~(ActivatePicture \/ ContinuePicture)
  BY <1>5, <1>9, ListNext
<1> QED BY <1>8, <1>9

\* The invariant holds at the start ...
LEMMA DerivedInit == Init => Derived
<1> SUFFICES ASSUME Init PROVE Derived
  OBVIOUS
<1>1. /\ listPic = <<>> /\ pc = "loop" /\ pos = 1 /\ nal = 0
      /\ dec.curPic = 0 /\ dec.firstSliceInPicture /\ dec.firstSliceInSequence
  BY DEF Init, Ready
<1>2. Parsed = 1 /\ DOMAIN stream \subseteq Nat \ {0}
  BY <1>1, TypedInit, StreamTypes DEF Parsed
<1>3. HasOrigin
  <2>1. AnchorsFrom(dec.prevTid0POC - 0, Parsed)
    BY <1>2 DEF AnchorsFrom, IsSliceAt
  <2>2. IdrCountsFrom(0) BY <1>2 DEF IdrCountsFrom, IsSliceAt
  <2>3. CountsFrom(0) BY <1>1, <2>1, <2>2 DEF CountsFrom, BuffersCountFrom, SliceCountsFrom
  <2> QED BY <2>3, CycleFacts DEF HasOrigin
<1>4. /\ StartsAfterEos /\ GeneratesAtStart /\ CurrentIsLast /\ WaitsAfterEos
      /\ CurrentIsHeld /\ PocsAgree
  BY <1>1 DEF StartsAfterEos, GeneratesAtStart, CurrentIsLast, WaitsAfterEos, CurrentIsHeld, PocsAgree
<1> QED BY <1>3, <1>4 DEF Derived

\* ... and after every step.
LEMMA DerivedNext ==
  ASSUME Typed, Once, UnitEnds, InsidePicture, Derivable, Derived, [Next]_vars
  PROVE  Derived'
BY HasOriginNext, StartsAfterEosNext, GeneratesAtStartNext, CurrentIsLastNext, WaitsAfterEosNext,
   CurrentIsHeldNext, PocsAgreeNext DEF Derived

\* While a conforming stream is decoded, the POCs that the decoder rebuilds from
\* their low-order bits differ from each other as those of the encoder do.
THEOREM PocsAgreeAlways ==
  ASSUME \A s \in Streams : PicturesAreWhole(s) /\ PocsAreDerivable(s)
  PROVE  Spec => []PocsAgree
<1> DEFINE Inv == Typed /\ Once /\ UnitEnds /\ InsidePicture /\ Derivable /\ Derived
<1>1. Init => Inv
  BY TypedInit, OnceInit, ShownInit, DerivedInit DEF Init, Shown, Derivable
<1>2. Inv /\ [Next]_vars => Inv'
  <2> SUFFICES ASSUME Inv, [Next]_vars PROVE Inv'
    OBVIOUS
  <2>1. Derivable'
    <3>1. stream' = stream BY BoundNext
    <3> QED BY <3>1 DEF Derivable
  <2> QED BY <2>1, TypedNext, OnceNext, UnitEndsNext, InsidePictureNext, DerivedNext
<1>3. Inv => PocsAgree BY DEF Derived
<1> QED BY <1>1, <1>2, <1>3, PTL DEF Spec
=============================================================================
