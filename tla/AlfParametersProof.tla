-------------------------- MODULE AlfParametersProof --------------------------
(***************************************************************************)
(* The two invariants of AlfParameters hold for every number of sets, all  *)
(* temporal layers and every length of the stream.  Both follow from one   *)
(* inductive invariant, whose heart is Agrees: a decoder that has started  *)
(* holds, part by part, whatever a picture of its temporal layers may use  *)
(* of the encoder's sets.                                                  *)
(***************************************************************************)
EXTENDS AlfParameters, Arithmetic
-----------------------------------------------------------------------------
(* The inductive invariant.                                                *)

\* The fields of the decoder's record.
DecFields ==
  {"sps", "pps", "alf", "lmcs", "suffixApsNalus", "accessUnitApsNals", "pictureUnitNals",
   "prevSliceSkipped", "firstSliceInPicture", "firstSliceInSequence", "decodedSliceInAU",
   "slices", "failed", "active", "last"}

IsRecord(r, fields) == r = [f \in fields |-> r[f]]

\* A set of the encoder while a picture is coded, and one that is sent.
EncSet == [tid : TLayers, changed : BOOLEAN, parts : [Parts -> {Off, Current, New}]]
Nalu == [type : {"prefix"}, tid : TLayers, content : [Parts -> {Off, Current, Old, New}]]

\* The sets of a decoder.
IsAlf(alf) ==
  /\ DOMAIN alf \subseteq ApsIds
  /\ alf \in [DOMAIN alf -> [changed : BOOLEAN, nalu : Nalu]]

\* Between two pictures nothing of the encoder waits to be sent.
AllSent(e) ==
  /\ e = [aps |-> e.aps, apsIdStart |-> e.apsIdStart]
  /\ e.apsIdStart \in 0 .. NumAps
  /\ e.aps \in [ApsIds -> [tid : TLayers, changed : {FALSE}, parts : [Parts -> {Off, Current}]]]

\* Between two access units the decoder has no picture in progress.
Idle(d) ==
  /\ IsRecord(d, DecFields) /\ IsAlf(d.alf)
  /\ d.sps = StartedDec.sps /\ d.pps = StartedDec.pps
  /\ d.suffixApsNalus = <<>> /\ d.slices = <<>> /\ d.pictureUnitNals = <<>>
  /\ d.accessUnitApsNals = [t \in ApsTypes |-> <<>>]
  /\ d.firstSliceInPicture = TRUE /\ d.failed = FALSE

\* A decoder has what a picture of the temporal layers up to tid may use of the
\* encoder's sets.
Agrees(e, d, tid) ==
  \A id \in ApsIds, part \in Parts :
    e.aps[id].tid <= tid /\ e.aps[id].parts[part] # Off =>
      /\ Known(d.alf, id)
      /\ GetPS(d.alf, id).tid = e.aps[id].tid
      /\ GetPS(d.alf, id).content[part] = e.aps[id].parts[part]

\* The decoder has started, and no RASL picture may come that it skips and whose sets
\* it has not.
InStep ==
  \/ starting = "started"
  \/ starting = "atCRA" /\ (craApsReset \/ lastRas # "CRA")

IInv ==
  /\ craApsReset \in BOOLEAN /\ highestTid \in Nat
  /\ lastRas \in {"first", "IDR", "CRA", "none"} /\ starting \in {"waits", "atCRA", "started"}
  /\ AllSent(enc)
  /\ dec.failed \in BOOLEAN
  /\ dec.failed => starting = "atCRA" /\ ~craApsReset
  /\ ~dec.failed => Idle(dec)
  /\ ~dec.failed /\ InStep => Agrees(enc, dec, highestTid)
  /\ filtersAlike

-----------------------------------------------------------------------------
(* The elements of a sequence that are in a set.                           *)

\* The rounds of Among, which exist.
AmongRounds(among, s, S, n) ==
  among = [k \in 0 .. n |-> IF k = 0 THEN <<>>
                            ELSE IF s[k] \in S THEN Append(among[k - 1], s[k]) ELSE among[k - 1]]

\* The recursive function of Among exists.
LEMMA AmongRoundsExist ==
  ASSUME NEW s, NEW S
  PROVE  \A n \in Nat : \E among : AmongRounds(among, s, S, n)
<1> DEFINE N == {n \in Nat : \E among : AmongRounds(among, s, S, n)}
<1>1. 0 \in N
  <2>1. AmongRounds([k \in 0 .. 0 |-> <<>>], s, S, 0)
    BY DEF AmongRounds
  <2> QED BY <2>1
<1>2. ASSUME NEW n \in N PROVE n + 1 \in N
  <2>1. PICK before : AmongRounds(before, s, S, n) OBVIOUS
  <2> DEFINE last == IF s[n + 1] \in S THEN Append(before[n], s[n + 1]) ELSE before[n]
             among == [k \in 0 .. n + 1 |-> IF k = n + 1 THEN last ELSE before[k]]
  <2>2. ASSUME NEW k \in 0 .. n + 1
        PROVE  among[k] = IF k = 0 THEN <<>>
                          ELSE IF s[k] \in S THEN Append(among[k - 1], s[k]) ELSE among[k - 1]
    <3>1. CASE k = 0 BY <2>1, <3>1 DEF AmongRounds
    <3>2. CASE k = n + 1 BY <3>2
    <3>3. CASE k # 0 /\ k # n + 1
      <4>1. k \in 0 .. n /\ k - 1 \in 0 .. n /\ k - 1 # n + 1 BY <3>3
      <4>2. among[k] = before[k] /\ among[k - 1] = before[k - 1] BY <4>1, <3>3
      <4> HIDE DEF among
      <4> QED BY <4>1, <4>2, <2>1, <3>3 DEF AmongRounds
    <3> QED BY <3>1, <3>2, <3>3
  <2>3. among = [k \in 0 .. n + 1 |-> among[k]] OBVIOUS
  <2>4. AmongRounds(among, s, S, n + 1)
    <3> HIDE DEF among
    <3> QED BY <2>2, <2>3 DEF AmongRounds
  <2> QED BY <2>4
<1>3. N = Nat
  <2> HIDE DEF N
  <2>1. N \in SUBSET Nat BY DEF N
  <2> QED BY <1>1, <1>2, <2>1, NatSetInduction
<1> QED BY <1>3

\* Among is the last of these rounds.
LEMMA AmongIsLast ==
  ASSUME NEW s, NEW S, Len(s) \in Nat
  PROVE  \E among : AmongRounds(among, s, S, Len(s)) /\ Among(s, S) = among[Len(s)]
<1> DEFINE among == CHOOSE among : AmongRounds(among, s, S, Len(s))
<1>1. Among(s, S) = among[Len(s)]
  BY DEF Among, AmongRounds
<1>2. AmongRounds(among, s, S, Len(s))
  BY AmongRoundsExist
<1> QED BY <1>1, <1>2

\* The first n elements of s that are in S.
AmongFirst(t, s, S, n) ==
  /\ t \in Seq(S)
  /\ \A k \in 1 .. n : s[k] \in S => \E i \in DOMAIN t : t[i] = s[k]

\* Among leaves elements of S only, and all of them.
LEMMA AmongTakes ==
  ASSUME NEW s, NEW S, Len(s) \in Nat
  PROVE  AmongFirst(Among(s, S), s, S, Len(s))
<1>1. PICK among : AmongRounds(among, s, S, Len(s)) /\ Among(s, S) = among[Len(s)]
  BY AmongIsLast
<1> DEFINE N == {n \in Nat : n <= Len(s) => AmongFirst(among[n], s, S, n)}
<1>2. 0 \in N
  <2>1. among[0] = <<>> BY <1>1 DEF AmongRounds
  <2>2. AmongFirst(<<>>, s, S, 0) BY DEF AmongFirst
  <2> QED BY <2>1, <2>2
<1>3. ASSUME NEW n \in N PROVE n + 1 \in N
  <2> SUFFICES ASSUME n + 1 <= Len(s) PROVE AmongFirst(among[n + 1], s, S, n + 1)
    OBVIOUS
  <2>1. among[n] \in Seq(S) /\ \A k \in 1 .. n : s[k] \in S => \E i \in DOMAIN among[n] : among[n][i] = s[k]
    BY DEF AmongFirst
  <2>2. among[n + 1] = IF s[n + 1] \in S THEN Append(among[n], s[n + 1]) ELSE among[n]
    <3>1. n + 1 \in 0 .. Len(s) /\ n + 1 # 0 /\ (n + 1) - 1 = n OBVIOUS
    <3> QED BY <3>1, <1>1 DEF AmongRounds
  <2> DEFINE t == among[n]
             x == s[n + 1]
  <2>3. CASE x \in S
    <3>1. /\ Append(t, x) \in Seq(S) /\ Len(t) + 1 \in DOMAIN Append(t, x)
          /\ Append(t, x)[Len(t) + 1] = x
          /\ \A i \in DOMAIN t : i \in DOMAIN Append(t, x) /\ Append(t, x)[i] = t[i]
      <4> HIDE DEF t, x
      <4> QED BY <2>1, <2>3 DEF t
    <3>2. among[n + 1] = Append(t, x) BY <2>2, <2>3
    <3> HIDE DEF t
    <3>3. ASSUME NEW k \in 1 .. n + 1, s[k] \in S PROVE \E i \in DOMAIN among[n + 1] : among[n + 1][i] = s[k]
      <4>1. CASE k = n + 1 BY <3>1, <3>2, <4>1
      <4>2. CASE k # n + 1
        <5>1. PICK i \in DOMAIN t : t[i] = s[k] BY <2>1, <3>3, <4>2 DEF t
        <5> QED BY <5>1, <3>1, <3>2
      <4> QED BY <4>1, <4>2
    <3> QED BY <3>1, <3>2, <3>3 DEF AmongFirst
  <2>4. CASE x \notin S
    <3>1. among[n + 1] = t BY <2>2, <2>4
    <3>2. \A k \in 1 .. n + 1 : s[k] \in S => k \in 1 .. n
      <4>1. \A k \in 1 .. n + 1 : k = n + 1 \/ k \in 1 .. n OBVIOUS
      <4> QED BY <4>1, <2>4
    <3> QED BY <2>1, <3>1, <3>2 DEF AmongFirst
  <2> QED BY <2>3, <2>4
<1>4. N = Nat
  <2> HIDE DEF N
  <2>1. N \in SUBSET Nat BY DEF N
  <2> QED BY <1>2, <1>3, <2>1, NatSetInduction
<1> QED BY <1>1, <1>4

\* The length of a sequence that is given element by element.
LEMMA LenOfFunction ==
  ASSUME NEW n \in Nat, NEW s, s = [i \in 1 .. n |-> s[i]]
  PROVE  Len(s) = n
<1> DEFINE S == {s[i] : i \in 1 .. n}
<1>1. s \in [1 .. n -> S] OBVIOUS
<1> HIDE DEF S
<1> QED BY <1>1

-----------------------------------------------------------------------------
(* What the encoder does to its sets when it codes a picture.              *)

EncType(e) ==
  /\ e = [aps |-> e.aps, apsIdStart |-> e.apsIdStart]
  /\ e.apsIdStart \in 0 .. NumAps
  /\ e.aps \in [ApsIds -> EncSet]

\* The sets of e0 that the picture did not change are in e as they were; the others
\* have its temporal layer.
CodedFrom(e0, e, tid) ==
  /\ EncType(e)
  /\ \A id \in ApsIds : IF e.aps[id].changed THEN e.aps[id].tid = tid
                        ELSE e.aps[id] = e0.aps[id]

\* The picture may use the part of the set: it is there, of no higher temporal layer,
\* and not from before a random access point.
InUse(e, pic, id, part) ==
  /\ id \in ApsIds /\ e.aps[id].parts[part] # Off /\ e.aps[id].tid <= pic.tid
  /\ StartsAnew(pic) => e.aps[id].changed

\* One set is written: one that may be transmitted or not.
Writes(e, f, pic, id) ==
  /\ EncType(f)
  /\ f.aps[id].changed /\ f.aps[id].tid = pic.tid
  /\ \A other \in ApsIds : other # id => f.aps[other] = e.aps[other]

\* The constants.
LEMMA Constants ==
  /\ NumAps \in Nat /\ NumAps > 0 /\ TLayers \subseteq Nat /\ 0 \in TLayers
  /\ CcComponents \subseteq {"cb", "cr"} /\ CcComponents \subseteq Parts
  /\ "luma" \in Parts /\ "chroma" \in Parts
  /\ "luma" \notin CcComponents /\ "chroma" \notin CcComponents
  BY AlfEncoderAssumption DEF Parts

\* The set written next.
LEMMA BeforeIsId ==
  ASSUME NEW id \in 0 .. NumAps
  PROVE  Before(id) \in ApsIds
  BY Constants DEF Before, ApsIds

\* A set that is written anew.
LEMMA RenewedWrites ==
  ASSUME NEW e, EncType(e), NEW pic, pic.tid \in TLayers, NEW id \in ApsIds,
         NEW parts \in [Parts -> {Off, Current, New}]
  PROVE  /\ Writes(e, Renewed(e, pic, id, parts), pic, id)
         /\ Renewed(e, pic, id, parts).aps[id].parts = parts
         /\ Renewed(e, pic, id, parts).apsIdStart = id
<1> DEFINE set == [tid |-> pic.tid, changed |-> TRUE, parts |-> parts]
           f == Renewed(e, pic, id, parts)
<1>1. set \in EncSet BY DEF EncSet
<1>2. e.aps \in [ApsIds -> EncSet] /\ id \in 0 .. NumAps BY Constants DEF EncType, ApsIds
<1>3. /\ f = [aps |-> f.aps, apsIdStart |-> f.apsIdStart] /\ f.apsIdStart = id
      /\ f.aps = [e.aps EXCEPT ![id] = set]
  BY DEF Renewed
<1>4. set.changed /\ set.tid = pic.tid /\ set.parts = parts OBVIOUS
<1> HIDE DEF set, f
<1>5. f.aps \in [ApsIds -> EncSet] /\ f.aps[id] = set
      /\ \A other \in ApsIds : other # id => f.aps[other] = e.aps[other]
  BY <1>1, <1>2, <1>3
<1>6. Writes(e, f, pic, id)
  BY <1>2, <1>3, <1>4, <1>5 DEF Writes, EncType
<1> QED BY <1>3, <1>4, <1>5, <1>6 DEF f

\* Luma.
LEMMA LumaWrites ==
  ASSUME NEW e, EncType(e), NEW pic, pic.tid \in TLayers, NEW luma, luma.new
  PROVE  /\ Writes(e, AfterLuma(e, pic, luma), pic, Before(e.apsIdStart))
         /\ AfterLuma(e, pic, luma).apsIdStart = Before(e.apsIdStart)
         /\ AfterLuma(e, pic, luma).aps[Before(e.apsIdStart)].parts["luma"] = New
<1> DEFINE id == Before(e.apsIdStart)
           parts == [e.aps[id].parts EXCEPT !["luma"] = New, !["chroma"] = Off]
<1>1. id \in ApsIds BY BeforeIsId DEF EncType
<1>2. e.aps[id].parts \in [Parts -> {Off, Current, New}]
  BY <1>1 DEF EncType, EncSet
<1>3. parts \in [Parts -> {Off, Current, New}] /\ parts["luma"] = New
  BY <1>2, Constants
<1>4. AfterLuma(e, pic, luma) = Renewed(e, pic, id, parts)
  BY DEF AfterLuma
<1> HIDE DEF id, parts
<1> QED BY <1>1, <1>3, <1>4, RenewedWrites DEF id

\* Chroma.  The luma part stays if the picture wrote one.
LEMMA ChromaWrites ==
  ASSUME NEW e, EncType(e), NEW pic, pic.tid \in TLayers, NEW luma, NEW chroma, chroma.new,
         chroma.id \in ApsIds
  PROVE  /\ Writes(e, AfterChroma(e, pic, luma, chroma), pic, chroma.id)
         /\ AfterChroma(e, pic, luma, chroma).aps[chroma.id].parts["chroma"] = New
         /\ luma.new => AfterChroma(e, pic, luma, chroma).aps[chroma.id].parts["luma"]
                          = e.aps[chroma.id].parts["luma"]
<1> DEFINE id == chroma.id
           parts == [e.aps[id].parts EXCEPT !["chroma"] = New,
                                            !["luma"] = IF luma.new THEN @ ELSE Off]
<1>1. id \in ApsIds OBVIOUS
<1>2. e.aps[id].parts \in [Parts -> {Off, Current, New}]
  BY <1>1 DEF EncType, EncSet
<1>3. /\ parts \in [Parts -> {Off, Current, New}] /\ parts["chroma"] = New
      /\ luma.new => parts["luma"] = e.aps[id].parts["luma"]
  BY <1>2, Constants
<1>4. AfterChroma(e, pic, luma, chroma) = Renewed(e, pic, id, parts)
  BY DEF AfterChroma
<1> HIDE DEF id, parts
<1> QED BY <1>1, <1>3, <1>4, RenewedWrites DEF id

\* What is coded from e0 stays so when one set more is written.
LEMMA WritesCodedFrom ==
  ASSUME NEW e0, NEW e, NEW f, NEW pic, CodedFrom(e0, e, pic.tid), NEW id \in ApsIds, Writes(e, f, pic, id)
  PROVE  CodedFrom(e0, f, pic.tid)
  BY DEF Writes, CodedFrom

\* A use that stays: of another set, or of a part that the writing kept.
LEMMA WritesKeepsUse ==
  ASSUME NEW e, NEW f, NEW pic, pic.tid \in TLayers, NEW id \in ApsIds, Writes(e, f, pic, id),
         NEW other, NEW part, InUse(e, pic, other, part),
         other = id => f.aps[id].parts[part] # Off
  PROVE  InUse(f, pic, other, part)
<1>1. pic.tid \in Nat BY Constants
<1>2. CASE other = id BY <1>1, <1>2 DEF InUse, Writes
<1>3. CASE other # id BY <1>3 DEF InUse, Writes
<1> QED BY <1>2, <1>3

\* A part that was written may be used.
LEMMA WrittenInUse ==
  ASSUME NEW e, NEW f, NEW pic, pic.tid \in TLayers, NEW id \in ApsIds, Writes(e, f, pic, id),
         NEW part, f.aps[id].parts[part] # Off
  PROVE  InUse(f, pic, id, part)
<1>1. pic.tid \in Nat BY Constants
<1>2. f.aps[id].tid = pic.tid /\ f.aps[id].changed BY DEF Writes
<1> QED BY <1>1, <1>2 DEF InUse

\* The sets that a picture may reuse, it may use.
LEMMA AvailableInUse ==
  ASSUME NEW e, EncType(e), NEW pic, NEW part
  PROVE  /\ Len(Available(e, pic, part)) \in Nat
         /\ DOMAIN Available(e, pic, part) = 1 .. Len(Available(e, pic, part))
         /\ \A i \in DOMAIN Available(e, pic, part) : InUse(e, pic, Available(e, pic, part)[i], part)
<1> DEFINE S == {id \in ApsIds : e.aps[id].tid <= pic.tid /\ e.aps[id].parts[part] # Off}
           ids == Available(e, pic, part)
<1>1. CASE e.apsIdStart = NumAps \/ StartsAnew(pic)
  <2>1. ids = <<>> BY <1>1 DEF Available
  <2>2. DOMAIN <<>> = 1 .. Len(<<>>) /\ Len(<<>>) = 0 /\ DOMAIN <<>> = {} OBVIOUS
  <2> HIDE DEF ids
  <2>3. Len(ids) \in Nat /\ DOMAIN ids = 1 .. Len(ids) /\ \A i \in DOMAIN ids : InUse(e, pic, ids[i], part)
    BY <2>1, <2>2
  <2> QED BY <2>3 DEF ids
<1>2. CASE ~(e.apsIdStart = NumAps \/ StartsAnew(pic))
  <2>1. ids = Among(Ring(e), S) BY <1>2 DEF Available
  <2>2. Len(Ring(e)) \in Nat
    <3>1. Ring(e) = [i \in 1 .. NumAps |-> Ring(e)[i]] BY DEF Ring
    <3> QED BY <3>1, LenOfFunction, Constants
  <2>3. ids \in Seq(S) BY <2>1, <2>2, AmongTakes DEF AmongFirst
  <2>4. \A id \in S : InUse(e, pic, id, part) BY <1>2 DEF InUse
  <2> HIDE DEF ids, S
  <2>5. Len(ids) \in Nat /\ DOMAIN ids = 1 .. Len(ids) /\ \A i \in DOMAIN ids : InUse(e, pic, ids[i], part)
    BY <2>3, <2>4
  <2> QED BY <2>5 DEF ids
<1> QED BY <1>1, <1>2

\* Luma: the new set and the reused ones.
LEMMA LumaInUse ==
  ASSUME NEW e, EncType(e), \A id \in ApsIds : ~e.aps[id].changed,
         NEW pic, pic.tid \in TLayers, NEW luma \in LumaChoices(e, pic)
  PROVE  /\ CodedFrom(e, AfterLuma(e, pic, luma), pic.tid)
         /\ \A id \in LumaIds(e, pic, luma) : InUse(AfterLuma(e, pic, luma), pic, id, "luma")
<1> DEFINE f == AfterLuma(e, pic, luma)
           ids == Available(e, pic, "luma")
           n == Before(e.apsIdStart)
           reused == {ids[i] : i \in 1 .. luma.n}
<1>1. CodedFrom(e, e, pic.tid) BY DEF CodedFrom
<1>2. luma.n \in 0 .. NumAps /\ luma.n <= Len(ids) BY DEF LumaChoices
<1>3. \A id \in reused : InUse(e, pic, id, "luma")
  <2>1. /\ Len(ids) \in Nat /\ DOMAIN ids = 1 .. Len(ids)
        /\ \A i \in DOMAIN ids : InUse(e, pic, ids[i], "luma")
    BY AvailableInUse
  <2> HIDE DEF ids
  <2> QED BY <1>2, <2>1, Constants
<1>4. n \in ApsIds BY BeforeIsId DEF EncType
<1>5. CASE luma.new
  <2>1. Writes(e, f, pic, n) /\ f.aps[n].parts["luma"] = New BY <1>5, LumaWrites
  <2>2. LumaIds(e, pic, luma) = {n} \union reused BY <1>5 DEF LumaIds
  <2> HIDE DEF f, n, reused
  <2>3. New # Off BY DEF New, Off
  <2>4. InUse(f, pic, n, "luma") BY <1>4, <2>1, <2>3, WrittenInUse
  <2>5. ASSUME NEW id \in reused PROVE InUse(f, pic, id, "luma")
    <3>1. InUse(e, pic, id, "luma") BY <1>3
    <3> QED BY <3>1, <1>4, <2>1, <2>3, WritesKeepsUse
  <2>6. CodedFrom(e, f, pic.tid) BY <1>1, <1>4, <2>1, WritesCodedFrom
  <2> QED BY <2>2, <2>4, <2>5, <2>6 DEF f
<1>6. CASE ~luma.new
  <2>1. f = e BY <1>6 DEF AfterLuma
  <2>2. LumaIds(e, pic, luma) = reused BY <1>6 DEF LumaIds
  <2> HIDE DEF f, reused
  <2> QED BY <1>1, <1>3, <2>1, <2>2 DEF f
<1> QED BY <1>5, <1>6

\* The set for new chroma and CC filters.
LEMMA NewApsIdChromaFree ==
  ASSUME NEW e, EncType(e), NEW luma, NEW lumaIds,
         luma.new => e.apsIdStart \in ApsIds
  PROVE  LET id == NewApsIdChroma(e, luma, lumaIds)
         IN id # -1 => id \in ApsIds /\ (luma.new \/ id \notin lumaIds)
<1> DEFINE back == [i \in 1 .. NumAps |-> (e.apsIdStart - i) % NumAps]
           free == Among(back, ApsIds \ lumaIds)
<1>1. CASE luma.new BY <1>1 DEF NewApsIdChroma
<1>2. CASE ~luma.new
  <2>1. NewApsIdChroma(e, luma, lumaIds) = IF free = <<>> THEN -1 ELSE free[1]
    BY <1>2 DEF NewApsIdChroma
  <2>2. Len(back) \in Nat
    <3>1. back = [i \in 1 .. NumAps |-> back[i]] OBVIOUS
    <3> HIDE DEF back
    <3> QED BY <3>1, LenOfFunction, Constants
  <2>3. free \in Seq(ApsIds \ lumaIds) BY <2>2, AmongTakes DEF AmongFirst
  <2> HIDE DEF free
  <2> QED BY <1>2, <2>1, <2>3
<1> QED BY <1>1, <1>2

\* Chroma: the luma part of a set in use is not lost.
LEMMA ChromaInUse ==
  ASSUME NEW e0, NEW e, NEW pic, pic.tid \in TLayers, CodedFrom(e0, e, pic.tid),
         NEW luma, luma.new => e.apsIdStart \in ApsIds, NEW newApsId \in ApsIds,
         NEW lumaIds, \A id \in lumaIds : InUse(e, pic, id, "luma"),
         NEW chroma \in ChromaChoices(e, pic, luma, lumaIds, newApsId)
  PROVE  LET f == AfterChroma(e, pic, luma, chroma)
         IN /\ CodedFrom(e0, f, pic.tid)
            /\ \A id \in lumaIds : InUse(f, pic, id, "luma")
            /\ chroma.id # -1 => InUse(f, pic, chroma.id, "chroma")
            /\ chroma.ccApsIds \subseteq ApsIds
<1> DEFINE f == AfterChroma(e, pic, luma, chroma)
           newId == NewApsIdChroma(e, luma, lumaIds)
           derived == IF newId = -1 THEN {} ELSE {newId}
<1>1. EncType(e) BY DEF CodedFrom
<1>2. \A id \in derived : id \in ApsIds /\ (luma.new \/ id \notin lumaIds)
  BY <1>1, NewApsIdChromaFree
<1> HIDE DEF derived
<1>3. \/ \E id \in derived : chroma = [new |-> TRUE, id |-> id, ccApsIds |-> {id}]
      \/ \E id \in {-1} \union ChromaReusable(e, pic) :
           chroma = [new |-> FALSE, id |-> id, ccApsIds |-> {newApsId} \union (derived \ {id})]
  BY DEF ChromaChoices, derived
<1>4. chroma.ccApsIds \subseteq ApsIds BY <1>2, <1>3
<1>5. CASE chroma.new
  <2>1. chroma.id \in derived BY <1>3, <1>5
  <2>2. chroma.id \in ApsIds /\ (luma.new \/ chroma.id \notin lumaIds) BY <1>2, <2>1
  <2>3. /\ Writes(e, f, pic, chroma.id) /\ f.aps[chroma.id].parts["chroma"] = New
        /\ luma.new => f.aps[chroma.id].parts["luma"] = e.aps[chroma.id].parts["luma"]
    BY <1>1, <1>5, <2>2, ChromaWrites
  <2> HIDE DEF f
  <2>4. New # Off BY DEF New, Off
  <2>5. InUse(f, pic, chroma.id, "chroma") BY <2>2, <2>3, <2>4, WrittenInUse
  <2>6. ASSUME NEW id \in lumaIds PROVE InUse(f, pic, id, "luma")
    <3>1. InUse(e, pic, id, "luma") OBVIOUS
    <3>2. id = chroma.id => f.aps[chroma.id].parts["luma"] # Off
      BY <2>2, <2>3, <3>1 DEF InUse
    <3> QED BY <3>1, <3>2, <2>2, <2>3, WritesKeepsUse
  <2>7. CodedFrom(e0, f, pic.tid) BY <2>2, <2>3, WritesCodedFrom
  <2> QED BY <1>4, <2>5, <2>6, <2>7 DEF f
<1>6. CASE ~chroma.new
  <2>1. f = e BY <1>6 DEF AfterChroma
  <2>2. chroma.id # -1 => chroma.id \in ChromaReusable(e, pic) BY <1>3, <1>6
  <2>3. chroma.id # -1 => InUse(e, pic, chroma.id, "chroma")
    BY <2>2 DEF ChromaReusable, InUse
  <2> HIDE DEF f
  <2> QED BY <1>4, <2>1, <2>3 DEF f
<1> QED BY <1>5, <1>6

\* The CC filters that are dropped are of sets that are sent.
LEMMA WithoutOldCcKeeps ==
  ASSUME NEW e0, NEW e, NEW pic, CodedFrom(e0, e, pic.tid), NEW used
  PROVE  LET f == WithoutOldCc(e, used)
         IN /\ CodedFrom(e0, f, pic.tid)
            /\ \A id, part : part \in Parts \ CcComponents /\ InUse(e, pic, id, part) => InUse(f, pic, id, part)
<1> DEFINE f == WithoutOldCc(e, used)
           dropped(id) == [p \in Parts |-> IF p \in CcComponents THEN Off ELSE e.aps[id].parts[p]]
<1>1. EncType(e) /\ e = [aps |-> e.aps, apsIdStart |-> e.apsIdStart] /\ e.aps \in [ApsIds -> EncSet]
  BY DEF CodedFrom, EncType
<1> DEFINE sets == [id \in ApsIds |-> IF id \in used /\ e.aps[id].changed
                                      THEN [e.aps[id] EXCEPT !.parts = dropped(id)]
                                      ELSE e.aps[id]]
<1>10. f = [e EXCEPT !.aps = sets]
  BY DEF WithoutOldCc
<1>11. f = [aps |-> sets, apsIdStart |-> e.apsIdStart]
  <2> HIDE DEF sets, f
  <2> QED BY <1>1, <1>10
<1>2. /\ f = [aps |-> f.aps, apsIdStart |-> e.apsIdStart] /\ DOMAIN f.aps = ApsIds
      /\ f.aps = [id \in ApsIds |-> f.aps[id]]
      /\ \A id \in ApsIds : f.aps[id] = IF id \in used /\ e.aps[id].changed
                                        THEN [e.aps[id] EXCEPT !.parts = dropped(id)]
                                        ELSE e.aps[id]
  <2> HIDE DEF f, dropped
  <2> QED BY <1>11
<1>3. ASSUME NEW id \in ApsIds
      PROVE  /\ f.aps[id] \in EncSet /\ f.aps[id].tid = e.aps[id].tid
             /\ f.aps[id].changed = e.aps[id].changed
             /\ ~e.aps[id].changed => f.aps[id] = e.aps[id]
             /\ \A part \in Parts \ CcComponents : f.aps[id].parts[part] = e.aps[id].parts[part]
  <2>1. e.aps[id] \in EncSet BY <1>1
  <2>2. CASE id \in used /\ e.aps[id].changed
    <3>1. dropped(id) \in [Parts -> {Off, Current, New}] BY <2>1 DEF EncSet
    <3>2. \A part \in Parts \ CcComponents : dropped(id)[part] = e.aps[id].parts[part] OBVIOUS
    <3>3. f.aps[id] = [e.aps[id] EXCEPT !.parts = dropped(id)] BY <1>2, <2>2
    <3> HIDE DEF dropped, f
    <3>4. /\ f.aps[id] \in EncSet /\ f.aps[id].tid = e.aps[id].tid
          /\ f.aps[id].changed = e.aps[id].changed /\ f.aps[id].parts = dropped(id)
      BY <2>1, <3>1, <3>3 DEF EncSet
    <3> QED BY <2>2, <3>2, <3>4
  <2>3. CASE ~(id \in used /\ e.aps[id].changed)
    <3>1. f.aps[id] = e.aps[id] BY <1>2, <2>3
    <3> HIDE DEF f
    <3> QED BY <2>1, <3>1
  <2> QED BY <2>2, <2>3
<1> HIDE DEF f
<1>4. f.apsIdStart = e.apsIdStart /\ f = [aps |-> f.aps, apsIdStart |-> f.apsIdStart]
  BY <1>2
<1>5. f.aps \in [ApsIds -> EncSet] BY <1>2, <1>3
<1>6. EncType(f) BY <1>1, <1>4, <1>5 DEF EncType
<1>7. CodedFrom(e0, f, pic.tid)
  <2>1. \A id \in ApsIds : IF e.aps[id].changed THEN e.aps[id].tid = pic.tid ELSE e.aps[id] = e0.aps[id]
    BY DEF CodedFrom
  <2> QED BY <1>3, <1>6, <2>1 DEF CodedFrom
<1>8. ASSUME NEW id, NEW part, part \in Parts \ CcComponents, InUse(e, pic, id, part) PROVE InUse(f, pic, id, part)
  <2>1. id \in ApsIds BY <1>8 DEF InUse
  <2> QED BY <1>3, <1>8, <2>1 DEF InUse
<1> QED BY <1>7, <1>8 DEF f

\* CC filters: those in use are there, and the other parts stay.
LEMMA CcInUse ==
  ASSUME NEW e0, NEW e, NEW pic, pic.tid \in TLayers, CodedFrom(e0, e, pic.tid),
         NEW ccApsIds, ccApsIds \subseteq ApsIds, NEW cc \in CcChoices(e, pic, ccApsIds)
  PROVE  LET f == AfterCc(e, pic, cc)
         IN /\ CodedFrom(e0, f, pic.tid)
            /\ \A id, part : part \in Parts /\ InUse(e, pic, id, part) => InUse(f, pic, id, part)
            /\ \A c \in CcComponents : cc[c].id # -1 => InUse(f, pic, cc[c].id, c)
<1> DEFINE f == AfterCc(e, pic, cc)
           new == {c \in CcComponents : cc[c].new}
           Kept(id) == \A c \in new : cc[c].id # id
           parts(id) == [p \in Parts |-> IF p \in new THEN New ELSE e.aps[id].parts[p]]
           sets == [id \in ApsIds |-> IF Kept(id) THEN e.aps[id]
                                      ELSE [tid |-> pic.tid, changed |-> TRUE, parts |-> parts(id)]]
<1>1. EncType(e) /\ e = [aps |-> e.aps, apsIdStart |-> e.apsIdStart] /\ e.aps \in [ApsIds -> EncSet]
  BY DEF CodedFrom, EncType
<1>2. ASSUME NEW c \in CcComponents
      PROVE  /\ cc[c].new => cc[c].id \in ccApsIds
             /\ ~cc[c].new => cc[c].id = -1 \/ InUse(e, pic, cc[c].id, c)
  <2> DEFINE ids == Available(e, pic, c)
  <2>1. cc[c] \in [new : {TRUE}, id : ccApsIds] \union [new : {FALSE}, id : {-1} \union Range(ids)]
    BY DEF CcChoices
  <2>2. \A id \in Range(ids) : InUse(e, pic, id, c)
    <3>1. \A i \in DOMAIN ids : InUse(e, pic, ids[i], c) BY <1>1, AvailableInUse
    <3> HIDE DEF ids
    <3> QED BY <3>1 DEF Range
  <2> HIDE DEF ids
  <2> QED BY <2>1, <2>2
<1>3. f = [e EXCEPT !.aps = sets] BY DEF AfterCc
<1>4. f = [aps |-> sets, apsIdStart |-> e.apsIdStart]
  <2> HIDE DEF sets, f
  <2> QED BY <1>1, <1>3
<1>5. ASSUME NEW id \in ApsIds
      PROVE  /\ f.aps[id] \in EncSet
             /\ Kept(id) => f.aps[id] = e.aps[id]
             /\ ~Kept(id) => f.aps[id].changed /\ f.aps[id].tid = pic.tid
             /\ \A p \in Parts : f.aps[id].parts[p] # e.aps[id].parts[p] => f.aps[id].parts[p] # Off
             /\ \A p \in new : ~Kept(id) => f.aps[id].parts[p] # Off
  <2>1. e.aps[id] \in EncSet BY <1>1
  <2>2. parts(id) \in [Parts -> {Off, Current, New}] BY <2>1 DEF EncSet
  <2>3. f.aps[id] = IF Kept(id) THEN e.aps[id]
                    ELSE [tid |-> pic.tid, changed |-> TRUE, parts |-> parts(id)]
    <3> HIDE DEF Kept, parts, f
    <3> QED BY <1>4
  <2>7. \A p \in Parts : parts(id)[p] = IF p \in new THEN New ELSE e.aps[id].parts[p]
    <3> HIDE DEF new
    <3> QED OBVIOUS
  <2>8. new \subseteq Parts BY Constants
  <2>9. New # Off BY DEF New, Off
  <2> HIDE DEF Kept, parts, f, new
  <2>5. CASE Kept(id) BY <2>1, <2>3, <2>5
  <2>6. CASE ~Kept(id)
    <3>1. /\ f.aps[id].tid = pic.tid /\ f.aps[id].changed /\ f.aps[id].parts = parts(id)
          /\ f.aps[id] = [tid |-> pic.tid, changed |-> TRUE, parts |-> parts(id)]
      BY <2>3, <2>6
    <3>2. f.aps[id] \in EncSet BY <2>2, <3>1 DEF EncSet
    <3> QED BY <2>6, <2>7, <2>8, <2>9, <3>1, <3>2
  <2> QED BY <2>5, <2>6
<1>6. DOMAIN f.aps = ApsIds /\ f.aps = [id \in ApsIds |-> f.aps[id]]
  <2> HIDE DEF f
  <2> QED BY <1>4
<1>7. f = [aps |-> f.aps, apsIdStart |-> f.apsIdStart] /\ f.apsIdStart = e.apsIdStart
  <2> HIDE DEF f, sets
  <2> QED BY <1>4
<1>8. \A c \in new : cc[c].id \in ApsIds /\ ~Kept(cc[c].id) BY <1>2
<1>9. new \subseteq CcComponents /\ \A c \in CcComponents : c \in new <=> cc[c].new OBVIOUS
<1> HIDE DEF f, Kept, new
<1>10. EncType(f)
  <2>1. f.aps \in [ApsIds -> EncSet] BY <1>5, <1>6
  <2> QED BY <1>1, <1>7, <2>1 DEF EncType
<1>11. CodedFrom(e0, f, pic.tid)
  <2>1. \A id \in ApsIds : IF e.aps[id].changed THEN e.aps[id].tid = pic.tid ELSE e.aps[id] = e0.aps[id]
    BY DEF CodedFrom
  <2>2. ASSUME NEW id \in ApsIds
        PROVE  IF f.aps[id].changed THEN f.aps[id].tid = pic.tid ELSE f.aps[id] = e0.aps[id]
    BY <1>5, <2>1
  <2> QED BY <1>10, <2>2 DEF CodedFrom
<1>12. ASSUME NEW id, NEW part, part \in Parts, InUse(e, pic, id, part) PROVE InUse(f, pic, id, part)
  <2>1. id \in ApsIds /\ e.aps[id].parts[part] # Off /\ e.aps[id].tid <= pic.tid
        /\ (StartsAnew(pic) => e.aps[id].changed)
    BY <1>12 DEF InUse
  <2>2. f.aps[id].parts[part] # Off BY <1>5, <1>12, <2>1
  <2>3. pic.tid \in Nat BY Constants
  <2>4. CASE Kept(id) BY <1>5, <2>1, <2>4 DEF InUse
  <2>5. CASE ~Kept(id) BY <1>5, <2>1, <2>2, <2>3, <2>5 DEF InUse
  <2> QED BY <2>4, <2>5
<1>13. ASSUME NEW c \in CcComponents, cc[c].id # -1 PROVE InUse(f, pic, cc[c].id, c)
  <2>1. CASE c \in new
    <3>1. cc[c].id \in ApsIds /\ ~Kept(cc[c].id) BY <1>8, <2>1
    <3>2. pic.tid \in Nat BY Constants
    <3>3. /\ f.aps[cc[c].id].changed /\ f.aps[cc[c].id].tid = pic.tid
          /\ f.aps[cc[c].id].parts[c] # Off
      BY <1>5, <2>1, <3>1
    <3> QED BY <3>1, <3>2, <3>3 DEF InUse
  <2>2. CASE c \notin new
    <3>1. InUse(e, pic, cc[c].id, c) BY <1>2, <1>9, <1>13, <2>2
    <3>2. c \in Parts BY Constants
    <3> QED BY <3>1, <3>2, <1>12
  <2> QED BY <2>1, <2>2
<1> QED BY <1>11, <1>12, <1>13 DEF f

\* The unit of a set.
UnitOf(e, id) ==
  [id |-> id, aps |-> "alf",
   nalu |-> [type |-> "prefix", tid |-> e.aps[id].tid, content |-> e.aps[id].parts]]

\* These units are those of the sets that changed.
IsWritten(e, units) ==
  /\ Len(units) \in Nat /\ DOMAIN units = 1 .. Len(units)
  /\ \A i \in 1 .. Len(units) : \E id \in ApsIds : e.aps[id].changed /\ units[i] = UnitOf(e, id)
  /\ \A id \in ApsIds : e.aps[id].changed => \E i \in 1 .. Len(units) : units[i] = UnitOf(e, id)

\* EncGOP writes the sets that changed.
LEMMA WrittenUnits ==
  ASSUME NEW e
  PROVE  IsWritten(e, Written(e))
<1> DEFINE all == [i \in 1 .. NumAps |-> i - 1]
           S == {id \in ApsIds : e.aps[id].changed}
           ids == Among(all, S)
           units == Written(e)
<1>1. Len(all) = NumAps /\ NumAps \in Nat
  <2>1. all = [i \in 1 .. NumAps |-> all[i]] OBVIOUS
  <2> HIDE DEF all
  <2> QED BY <2>1, LenOfFunction, Constants
<1>2. ids \in Seq(S) /\ \A k \in 1 .. NumAps : all[k] \in S => \E i \in DOMAIN ids : ids[i] = all[k]
  <2>1. AmongFirst(ids, all, S, Len(all))
    <3> HIDE DEF all, S
    <3> QED BY <1>1, AmongTakes
  <2> HIDE DEF ids, all, S
  <2> QED BY <1>1, <2>1 DEF AmongFirst
<1>3. \A id \in S : \E i \in DOMAIN ids : ids[i] = id
  <2> SUFFICES ASSUME NEW id \in S PROVE \E i \in DOMAIN ids : ids[i] = id OBVIOUS
  <2>1. id + 1 \in 1 .. NumAps /\ all[id + 1] = id BY Constants DEF ApsIds
  <2> HIDE DEF ids, all, S
  <2> QED BY <1>2, <2>1
<1>4. units = [i \in DOMAIN ids |-> UnitOf(e, ids[i])]
  BY DEF Written, UnitOf
<1>5. \A id \in S : id \in ApsIds /\ e.aps[id].changed OBVIOUS
<1>6. \A id \in ApsIds : e.aps[id].changed => id \in S OBVIOUS
<1> HIDE DEF ids, units, S
<1>7. Len(ids) \in Nat /\ DOMAIN ids = 1 .. Len(ids) /\ \A i \in DOMAIN ids : ids[i] \in S BY <1>2
<1>8. Len(units) = Len(ids) /\ DOMAIN units = DOMAIN ids
      /\ \A i \in DOMAIN ids : units[i] = UnitOf(e, ids[i])
  <2>1. units = [i \in 1 .. Len(ids) |-> units[i]] BY <1>4, <1>7
  <2>2. Len(units) = Len(ids) BY <1>7, <2>1, LenOfFunction
  <2> QED BY <1>4, <2>2
<1>9. IsWritten(e, units)
  <2>1. \A i \in 1 .. Len(units) : \E id \in ApsIds : e.aps[id].changed /\ units[i] = UnitOf(e, id)
    BY <1>5, <1>7, <1>8
  <2>2. \A id \in ApsIds : e.aps[id].changed => \E i \in 1 .. Len(units) : units[i] = UnitOf(e, id)
    BY <1>3, <1>6, <1>7, <1>8
  <2> QED BY <1>7, <1>8, <2>1, <2>2 DEF IsWritten
<1> QED BY <1>9 DEF units

-----------------------------------------------------------------------------
(* The decoder receives the sets.                                          *)

HasFields(d) ==
  /\ IsRecord(d, DecFields)
  /\ d.accessUnitApsNals = [t \in ApsTypes |-> d.accessUnitApsNals[t]]

\* What a prefix APS changes.
ApsFields == {"alf", "accessUnitApsNals", "failed", "last", "pictureUnitNals"}

IsUnit(u) ==
  u.aps = "alf" /\ u.id \in ApsIds /\ u.nalu \in Nalu

\* The map with the new unit under its id, the others as they were.
Stored(before, after, id, nalu) ==
  /\ IsAlf(after) /\ DOMAIN after = DOMAIN before \union {id}
  /\ after[id].nalu = nalu
  /\ \A other \in DOMAIN before : other # id => after[other] = before[other]

\* StorePS leaves the new unit in the map, also where it keeps the map: then the
\* unit was there before.
LEMMA StorePSStores ==
  ASSUME NEW map, IsAlf(map), NEW id \in ApsIds, NEW nalu \in Nalu
  PROVE  Stored(map, StorePS(map, id, nalu), id, nalu)
<1>1. ASSUME NEW changed \in BOOLEAN
      PROVE  Stored(map, Put(map, id, changed, nalu), id, nalu)
  <2> DEFINE f == Put(map, id, changed, nalu)
             entry == [changed |-> changed, nalu |-> nalu]
  <2>1. entry \in [changed : BOOLEAN, nalu : Nalu] /\ entry.nalu = nalu BY <1>1
  <2>2. f = [other \in DOMAIN map \union {id} |-> IF other = id THEN entry ELSE map[other]]
    BY DEF Put, With
  <2> HIDE DEF f, entry
  <2>3. /\ DOMAIN f = DOMAIN map \union {id} /\ f[id] = entry
        /\ \A other \in DOMAIN map : other # id => f[other] = map[other]
    BY <2>2
  <2>4. f \in [DOMAIN f -> [changed : BOOLEAN, nalu : Nalu]]
    BY <2>1, <2>2, <2>3 DEF IsAlf
  <2>5. DOMAIN f \subseteq ApsIds BY <2>3 DEF IsAlf
  <2>6. Stored(map, f, id, nalu) BY <2>1, <2>3, <2>4, <2>5 DEF Stored, IsAlf
  <2> QED BY <2>6 DEF f
<1>2. CASE StorePS(map, id, nalu) = map
  <2>1. id \in DOMAIN map /\ map[id].nalu = nalu
    <3>1. CASE ~Known(map, id)
      <4>1. StorePS(map, id, nalu) = Put(map, id, FALSE, nalu) BY <3>1 DEF StorePS
      <4>2. Stored(map, map, id, nalu) BY <4>1, <1>1, <1>2
      <4> QED BY <4>2 DEF Stored
    <3>2. CASE Known(map, id) /\ Replaces(map, id, nalu)
      <4>1. StorePS(map, id, nalu) = Put(map, id, TRUE, nalu) BY <3>2 DEF StorePS
      <4>2. Stored(map, map, id, nalu) BY <4>1, <1>1, <1>2
      <4> QED BY <4>2 DEF Stored
    <3>3. CASE Known(map, id) /\ ~Replaces(map, id, nalu)
      BY <3>3 DEF Known, Replaces
    <3> QED BY <3>1, <3>2, <3>3
  <2> QED BY <1>2, <2>1 DEF Stored
<1>3. \/ StorePS(map, id, nalu) = map
      \/ \E changed \in BOOLEAN : StorePS(map, id, nalu) = Put(map, id, changed, nalu)
  BY DEF StorePS
<1> QED BY <1>1, <1>2, <1>3

\* The fields that a prefix APS changes, and how.
LEMMA DecodePrefixAPSFields ==
  ASSUME NEW d, HasFields(d), NEW u, IsUnit(u), u.nalu.type = "prefix"
  PROVE  LET f == DecodePrefixAPS(d, u)
             ids == d.accessUnitApsNals["alf"]
         IN /\ HasFields(f)
            /\ \A field \in DecFields \ ApsFields : f[field] = d[field]
            /\ f.alf = StorePS(d.alf, u.id, u.nalu)
            /\ f.pictureUnitNals = Append(d.pictureUnitNals, "prefix")
            /\ f.accessUnitApsNals["alf"] = IF u.id \in Range(ids) THEN ids ELSE Append(ids, u.id)
            /\ f.failed = (d.failed \/ ~ApsContentAgrees(d.alf, u.id, u.nalu, ids))
<1> DEFINE n == Noted(d, "prefix")
           f == DecodeAPS(n, u)
           ids == d.accessUnitApsNals["alf"]
           after == IF u.id \in Range(ids) THEN ids ELSE Append(ids, u.id)
<1>1. /\ n = [d EXCEPT !.pictureUnitNals = Append(d.pictureUnitNals, "prefix")]
  BY DEF Noted
<1>2. d = [field \in DecFields |-> d[field]] BY DEF HasFields, IsRecord
<1>3. n = [field \in DecFields |-> IF field = "pictureUnitNals" THEN Append(d.pictureUnitNals, "prefix")
                                   ELSE d[field]]
  <2> HIDE DEF n
  <2> QED BY <1>1, <1>2 DEF DecFields
<1>4. n = [field \in DecFields |-> n[field]] /\ n.accessUnitApsNals = d.accessUnitApsNals
      /\ n.pictureUnitNals = Append(d.pictureUnitNals, "prefix") /\ n.alf = d.alf
      /\ n.failed = d.failed
      /\ \A field \in DecFields \ ApsFields : n[field] = d[field]
  <2> HIDE DEF n
  <2> QED BY <1>3 DEF DecFields, ApsFields
<1> HIDE DEF n
<1>5. ApsIdsAfter(n, u) = after
  BY <1>4 DEF ApsIdsAfter, IsUnit
<1>6. HasFields(n) BY <1>4 DEF HasFields, IsRecord
<1>7. u.aps = "alf" /\ u.aps \in ApsTypes BY DEF IsUnit, ApsTypes
<1>8. /\ HasFields(f)
      /\ \A field \in DecFields \ ApsFields : f[field] = n[field]
      /\ f.alf = StorePS(n.alf, u.id, u.nalu)
      /\ f.pictureUnitNals = n.pictureUnitNals
      /\ f.accessUnitApsNals["alf"] = ApsIdsAfter(n, u)
      /\ f.failed = (n.failed \/ ~ApsContentAgrees(n.alf, u.id, u.nalu, n.accessUnitApsNals["alf"]))
  BY <1>6, <1>7 DEF HasFields, IsRecord, DecFields, ApsFields, DecodeAPS, Fail, ApsTypes
<1>9. DecodePrefixAPS(d, u) = f BY DEF DecodePrefixAPS, n
<1> HIDE DEF f, after
<1> QED BY <1>4, <1>5, <1>8, <1>9 DEF after

\* The states between the rounds of DecodePrefixApss.
Rounds(after, d, units, n) ==
  after = [k \in 0 .. n |-> IF k = 0 THEN d ELSE DecodePrefixAPS(after[k - 1], units[k])]

\* The recursive function of DecodePrefixApss exists.
LEMMA RoundsExist ==
  ASSUME NEW d, NEW units
  PROVE  \A n \in Nat : \E after : Rounds(after, d, units, n)
<1> DEFINE S == {n \in Nat : \E after : Rounds(after, d, units, n)}
<1>1. 0 \in S
  <2>1. Rounds([k \in 0 .. 0 |-> d], d, units, 0)
    BY DEF Rounds
  <2> QED BY <2>1
<1>2. ASSUME NEW n \in S PROVE n + 1 \in S
  <2>1. PICK before : Rounds(before, d, units, n) OBVIOUS
  <2> DEFINE after ==
        [k \in 0 .. n + 1 |-> IF k = n + 1 THEN DecodePrefixAPS(before[n], units[n + 1]) ELSE before[k]]
  <2>2. ASSUME NEW k \in 0 .. n + 1
        PROVE  after[k] = IF k = 0 THEN d ELSE DecodePrefixAPS(after[k - 1], units[k])
    <3>1. CASE k = 0 BY <2>1, <3>1 DEF Rounds
    <3>2. CASE k = n + 1 BY <3>2
    <3>3. CASE k # 0 /\ k # n + 1
      <4>1. k \in 0 .. n /\ k - 1 \in 0 .. n BY <3>3
      <4> QED BY <4>1, <2>1, <3>3 DEF Rounds
    <3> QED BY <3>1, <3>2, <3>3
  <2>3. after = [k \in 0 .. n + 1 |-> after[k]] OBVIOUS
  <2>4. Rounds(after, d, units, n + 1)
    <3> HIDE DEF after
    <3> QED BY <2>2, <2>3 DEF Rounds
  <2> QED BY <2>4
<1>3. S = Nat
  <2> HIDE DEF S
  <2>1. S \in SUBSET Nat BY DEF S
  <2> QED BY <1>1, <1>2, <2>1, NatSetInduction
<1> QED BY <1>3

\* DecodePrefixApss is the last of these rounds.
LEMMA DecodePrefixApssRounds ==
  ASSUME NEW units, Len(units) \in Nat
  PROVE  \E after : Rounds(after, dec, units, Len(units)) /\ DecodePrefixApss(units) = after[Len(units)]
<1> DEFINE after == CHOOSE after : Rounds(after, dec, units, Len(units))
<1>1. DecodePrefixApss(units) = after[Len(units)]
  BY DEF DecodePrefixApss, Rounds
<1>2. Rounds(after, dec, units, Len(units))
  BY RoundsExist
<1> QED BY <1>1, <1>2

\* The ids of the first n units.
Sent(units, n) == {units[k].id : k \in 1 .. n}

\* What decoder d has become once it has received the first n units: it has the sets
\* of the units, the other sets are as they were, and no check has failed.
Received(d, f, units, n) ==
  /\ HasFields(f) /\ IsAlf(f.alf) /\ f.failed = FALSE
  /\ \A field \in DecFields \ ApsFields : f[field] = d[field]
  /\ f.accessUnitApsNals["alf"] \in Seq(ApsIds)
  /\ Range(f.accessUnitApsNals["alf"]) \subseteq Sent(units, n)
  /\ f.pictureUnitNals \in Seq({"prefix"})
  /\ \A k \in 1 .. n : units[k].id \in DOMAIN f.alf /\ f.alf[units[k].id].nalu = units[k].nalu
  /\ DOMAIN d.alf \subseteq DOMAIN f.alf
  /\ \A id \in DOMAIN d.alf : id \in Sent(units, n) \/ f.alf[id].nalu = d.alf[id].nalu

\* Units with the same id are the same.
Distinct(units) ==
  \A j, k \in 1 .. Len(units) : units[j].id = units[k].id => units[j] = units[k]

\* Append, and what is in the sequence.
LEMMA AppendRange ==
  ASSUME NEW T, NEW s \in Seq(T), NEW x \in T
  PROVE  Append(s, x) \in Seq(T) /\ Range(Append(s, x)) = Range(s) \union {x}
<1> DEFINE t == Append(s, x)
<1>1. /\ t \in Seq(T) /\ Len(s) \in Nat /\ DOMAIN s = 1 .. Len(s) /\ DOMAIN t = 1 .. Len(s) + 1
      /\ \A i \in 1 .. Len(s) : t[i] = s[i]
      /\ t[Len(s) + 1] = x
  OBVIOUS
<1> HIDE DEF t
<1>2. Range(t) = Range(s) \union {x} BY <1>1 DEF Range
<1> QED BY <1>1, <1>2 DEF t

\* One unit more.
LEMMA ReceivedOneMore ==
  ASSUME NEW d, NEW f, NEW units, Len(units) \in Nat, NEW n \in Nat, n + 1 <= Len(units),
         Received(d, f, units, n), Distinct(units),
         IsUnit(units[n + 1]), units[n + 1].nalu.type = "prefix"
  PROVE  Received(d, DecodePrefixAPS(f, units[n + 1]), units, n + 1)
<1> DEFINE u == units[n + 1]
           g == DecodePrefixAPS(f, u)
           ids == f.accessUnitApsNals["alf"]
<1>1. /\ HasFields(f) /\ IsAlf(f.alf) /\ f.failed = FALSE
      /\ \A field \in DecFields \ ApsFields : f[field] = d[field]
      /\ ids \in Seq(ApsIds) /\ Range(ids) \subseteq Sent(units, n)
      /\ f.pictureUnitNals \in Seq({"prefix"})
      /\ \A k \in 1 .. n : units[k].id \in DOMAIN f.alf /\ f.alf[units[k].id].nalu = units[k].nalu
      /\ DOMAIN d.alf \subseteq DOMAIN f.alf
      /\ \A id \in DOMAIN d.alf : id \in Sent(units, n) \/ f.alf[id].nalu = d.alf[id].nalu
  BY DEF Received
<1>2. u.id \in ApsIds /\ u.nalu \in Nalu /\ IsUnit(u) BY DEF IsUnit
<1>3. /\ HasFields(g)
      /\ \A field \in DecFields \ ApsFields : g[field] = f[field]
      /\ g.alf = StorePS(f.alf, u.id, u.nalu)
      /\ g.pictureUnitNals = Append(f.pictureUnitNals, "prefix")
      /\ g.accessUnitApsNals["alf"] = IF u.id \in Range(ids) THEN ids ELSE Append(ids, u.id)
      /\ g.failed = (f.failed \/ ~ApsContentAgrees(f.alf, u.id, u.nalu, ids))
  <2> HIDE DEF u
  <2>1. u.nalu.type = "prefix" BY DEF u
  <2> QED BY <1>1, <1>2, <2>1, DecodePrefixAPSFields
<1>4. /\ IsAlf(g.alf) /\ DOMAIN g.alf = DOMAIN f.alf \union {u.id}
      /\ g.alf[u.id].nalu = u.nalu
      /\ \A other \in DOMAIN f.alf : other # u.id => g.alf[other] = f.alf[other]
  <2>1. Stored(f.alf, StorePS(f.alf, u.id, u.nalu), u.id, u.nalu)
    <3> HIDE DEF u
    <3> QED BY <1>1, <1>2, StorePSStores
  <2> HIDE DEF u, g
  <2> QED BY <1>3, <2>1 DEF Stored
<1>5. \A k \in 1 .. n : units[k].id = u.id => units[k] = u
  BY DEF Distinct
<1>6. Sent(units, n + 1) = Sent(units, n) \union {u.id}
  BY DEF Sent
<1>7. n + 1 \in 1 .. n + 1 /\ \A k \in 1 .. n + 1 : k \in 1 .. n \/ k = n + 1 OBVIOUS
<1> HIDE DEF g, u
<1>8. g.failed = FALSE
  <2>1. ApsContentAgrees(f.alf, u.id, u.nalu, ids)
    <3> SUFFICES ASSUME u.id \in Range(ids)
                 PROVE  Known(f.alf, u.id) /\ GetPS(f.alf, u.id).content = u.nalu.content
      BY DEF ApsContentAgrees
    <3>1. PICK k \in 1 .. n : units[k].id = u.id BY <1>1 DEF Sent
    <3>2. units[k] = u BY <1>5, <3>1
    <3> QED BY <1>1, <3>2 DEF Known, GetPS
  <2> QED BY <1>1, <1>3, <2>1
<1>9. g.accessUnitApsNals["alf"] \in Seq(ApsIds) /\ Range(g.accessUnitApsNals["alf"]) \subseteq Sent(units, n + 1)
  <2> HIDE DEF ids
  <2>1. CASE u.id \in Range(ids) BY <1>1, <1>3, <1>6, <2>1
  <2>2. CASE u.id \notin Range(ids)
    <3>1. Append(ids, u.id) \in Seq(ApsIds) /\ Range(Append(ids, u.id)) = Range(ids) \union {u.id}
      BY <1>1, <1>2, AppendRange DEF ids
    <3> QED BY <1>1, <1>3, <1>6, <2>2, <3>1
  <2> QED BY <2>1, <2>2
<1>10. g.pictureUnitNals \in Seq({"prefix"}) BY <1>1, <1>3
<1>11. ASSUME NEW k \in 1 .. n + 1
       PROVE  units[k].id \in DOMAIN g.alf /\ g.alf[units[k].id].nalu = units[k].nalu
  <2>1. CASE k = n + 1 BY <1>4, <2>1 DEF u
  <2>2. CASE k \in 1 .. n
    <3>1. CASE units[k].id = u.id BY <1>4, <1>5, <2>2, <3>1
    <3>2. CASE units[k].id # u.id BY <1>1, <1>4, <2>2, <3>2
    <3> QED BY <3>1, <3>2
  <2> QED BY <1>7, <2>1, <2>2
<1>12. \A id \in DOMAIN d.alf : id \in Sent(units, n + 1) \/ g.alf[id].nalu = d.alf[id].nalu
  BY <1>1, <1>4, <1>6
<1>13. DOMAIN d.alf \subseteq DOMAIN g.alf BY <1>1, <1>4
<1>14. \A field \in DecFields \ ApsFields : g[field] = d[field] BY <1>1, <1>3
<1>15. Received(d, g, units, n + 1)
  BY <1>3, <1>4, <1>8, <1>9, <1>10, <1>11, <1>12, <1>13, <1>14 DEF Received
<1> QED BY <1>15 DEF g, u

\* All the units of an access unit.
LEMMA ReceivedAll ==
  ASSUME Idle(dec), NEW units, Len(units) \in Nat, Distinct(units),
         \A k \in 1 .. Len(units) : IsUnit(units[k]) /\ units[k].nalu.type = "prefix"
  PROVE  Received(dec, DecodePrefixApss(units), units, Len(units))
<1>1. PICK after : Rounds(after, dec, units, Len(units)) /\ DecodePrefixApss(units) = after[Len(units)]
  BY DecodePrefixApssRounds
<1> DEFINE S == {n \in Nat : n <= Len(units) => Received(dec, after[n], units, n)}
<1>2. 0 \in S
  <2>1. after[0] = dec BY <1>1 DEF Rounds
  <2>2. HasFields(dec) /\ dec.accessUnitApsNals["alf"] = <<>> /\ dec.pictureUnitNals = <<>>
        /\ IsAlf(dec.alf) /\ dec.failed = FALSE
    BY DEF Idle, HasFields, ApsTypes
  <2>3. <<>> \in Seq(ApsIds) /\ Range(<<>>) = {} /\ <<>> \in Seq({"prefix"}) BY DEF Range
  <2>4. Received(dec, dec, units, 0)
    BY <2>2, <2>3 DEF Received
  <2> QED BY <2>1, <2>4
<1>3. ASSUME NEW n \in S PROVE n + 1 \in S
  <2> SUFFICES ASSUME n + 1 <= Len(units) PROVE Received(dec, after[n + 1], units, n + 1)
    OBVIOUS
  <2>1. Received(dec, after[n], units, n) OBVIOUS
  <2>2. after[n + 1] = DecodePrefixAPS(after[n], units[n + 1])
    <3>1. n + 1 \in 0 .. Len(units) /\ n + 1 # 0 /\ (n + 1) - 1 = n OBVIOUS
    <3> QED BY <3>1, <1>1 DEF Rounds
  <2>3. IsUnit(units[n + 1]) /\ units[n + 1].nalu.type = "prefix" OBVIOUS
  <2> QED BY <2>1, <2>2, <2>3, ReceivedOneMore
<1>4. S = Nat
  <2> HIDE DEF S
  <2>1. S \in SUBSET Nat BY DEF S
  <2> QED BY <1>2, <1>3, <2>1, NatSetInduction
<1> QED BY <1>1, <1>4

-----------------------------------------------------------------------------
(* The slice, and the end of its picture.                                  *)

\* A decoder that has received the sets of the access unit.
InAccessUnit(f) ==
  /\ HasFields(f) /\ IsAlf(f.alf) /\ f.failed = FALSE
  /\ f.sps = StartedDec.sps /\ f.pps = StartedDec.pps
  /\ f.suffixApsNalus = <<>> /\ f.slices = <<>> /\ f.firstSliceInPicture = TRUE
  /\ f.pictureUnitNals \in Seq({"prefix"})

SliceWith(ids) == [pps |-> 0, alf |-> ids, lmcs |-> {}]

\* The same sets, whatever their flags are.
SameAlf(a, b) ==
  IsAlf(b) /\ DOMAIN a = DOMAIN b /\ \A id \in DOMAIN a : a[id].nalu = b[id].nalu

\* The decoder behind the APSs of an access unit, in front of its slice.
LEMMA ReceivedInAccessUnit ==
  ASSUME NEW d, Idle(d), NEW f, NEW units, NEW n, Received(d, f, units, n)
  PROVE  InAccessUnit(f)
<1>1. \A field \in DecFields \ ApsFields : f[field] = d[field] BY DEF Received
<1>2. /\ f.sps = d.sps /\ f.pps = d.pps /\ f.suffixApsNalus = d.suffixApsNalus
      /\ f.slices = d.slices /\ f.firstSliceInPicture = d.firstSliceInPicture
  BY <1>1 DEF DecFields, ApsFields
<1> QED BY <1>2 DEF Received, Idle, InAccessUnit

\* The SPS and the PPS are there, and their flags are down.
LEMMA StartedSets ==
  /\ Known(StartedDec.pps, 0) /\ Known(StartedDec.sps, 0) /\ GetPS(StartedDec.pps, 0).sps = 0
  /\ \A ids : /\ ClearChangedFlags(StartedDec.pps, ids) = StartedDec.pps
              /\ ClearChangedFlags(StartedDec.sps, ids) = StartedDec.sps
<1> DEFINE p == [type |-> "pps", content |-> 1, sps |-> 0]
           s == [type |-> "sps", content |-> 1]
<1>1. StartedDec.pps = Put(NoSets, 0, FALSE, p) /\ StartedDec.sps = Put(NoSets, 0, FALSE, s)
  BY DEF StartedDec, InitDec
<1>2. p.sps = 0 OBVIOUS
<1> HIDE DEF p, s
<1>3. ASSUME NEW nalu, NEW ids
      PROVE  LET map == Put(NoSets, 0, FALSE, nalu)
             IN Known(map, 0) /\ GetPS(map, 0) = nalu /\ ClearChangedFlags(map, ids) = map
  <2> DEFINE map == Put(NoSets, 0, FALSE, nalu)
             entry == [changed |-> FALSE, nalu |-> nalu]
             cleared == ClearChangedFlags(map, ids)
  <2>1. map = [id \in {0} |-> entry] BY DEF Put, With, NoSets
  <2>2. cleared = [id \in {0} |-> [map[id] EXCEPT !.changed = @ /\ id \notin ids]]
    BY <2>1 DEF ClearChangedFlags
  <2>3. \A id \in {0} : [map[id] EXCEPT !.changed = @ /\ id \notin ids] = entry
    <3>1. map[0] = entry BY <2>1
    <3>2. entry.changed = FALSE OBVIOUS
    <3>3. (map[0].changed /\ 0 \notin ids) = FALSE BY <3>1, <3>2
    <3>4. entry = [changed |-> entry.changed, nalu |-> entry.nalu] OBVIOUS
    <3> HIDE DEF map, entry
    <3>5. [entry EXCEPT !.changed = FALSE] = entry BY <3>2, <3>4
    <3> QED BY <3>1, <3>3, <3>5
  <2>4. entry.nalu = nalu OBVIOUS
  <2> HIDE DEF map, entry, cleared
  <2>5. cleared = map BY <2>1, <2>2, <2>3
  <2>6. Known(map, 0) /\ GetPS(map, 0) = nalu BY <2>1, <2>4 DEF Known, GetPS
  <2> QED BY <2>5, <2>6 DEF map, cleared
<1> QED BY <1>1, <1>2, <1>3

\* ClearChangedFlags keeps the sets.
LEMMA ClearChangedFlagsKeeps ==
  ASSUME NEW map, IsAlf(map), NEW ids
  PROVE  SameAlf(map, ClearChangedFlags(map, ids))
<1> DEFINE f == ClearChangedFlags(map, ids)
<1>1. f = [id \in DOMAIN map |-> [map[id] EXCEPT !.changed = @ /\ id \notin ids]]
  BY DEF ClearChangedFlags
<1>2. ASSUME NEW id \in DOMAIN map
      PROVE  /\ f[id] \in [changed : BOOLEAN, nalu : Nalu] /\ f[id].nalu = map[id].nalu
  <2>1. map[id] \in [changed : BOOLEAN, nalu : Nalu] BY DEF IsAlf
  <2>2. f[id] = [map[id] EXCEPT !.changed = map[id].changed /\ id \notin ids] BY <1>1
  <2> HIDE DEF f
  <2> QED BY <2>1, <2>2
<1>3. DOMAIN f = DOMAIN map /\ f = [id \in DOMAIN map |-> f[id]] BY <1>1
<1> HIDE DEF f
<1>4. IsAlf(f) BY <1>2, <1>3 DEF IsAlf
<1> QED BY <1>2, <1>3, <1>4 DEF SameAlf, f

\* Whether the slice can be parsed depends on the sets it refers to.
LEMMA ParsedIfKnown ==
  ASSUME NEW f, InAccessUnit(f), NEW ids
  PROVE  CanBeParsed(f, SliceWith(ids)) <=> ids \subseteq DOMAIN f.alf
  BY StartedSets DEF CanBeParsed, SliceWith, InAccessUnit, Known

\* A slice that cannot be parsed.
LEMMA NotParsed ==
  ASSUME NEW f, InAccessUnit(f), NEW ids, NEW skipped, ~ (ids \subseteq DOMAIN f.alf)
  PROVE  LET g == DecodeSlice(f, SliceWith(ids), skipped)
         IN HasFields(g) /\ g.failed = TRUE /\ g.slices = <<>> /\ g.firstSliceInPicture = TRUE
<1> DEFINE g == DecodeSlice(f, SliceWith(ids), skipped)
<1>1. g = Fail(Noted(f, "slice"), FALSE) BY ParsedIfKnown DEF DecodeSlice
<1>2. f = [field \in DecFields |-> f[field]] /\ f.slices = <<>> /\ f.firstSliceInPicture = TRUE
      /\ f.accessUnitApsNals = [t \in ApsTypes |-> f.accessUnitApsNals[t]]
  BY DEF InAccessUnit, HasFields, IsRecord
<1>3. g = [[f EXCEPT !.pictureUnitNals = Append(f.pictureUnitNals, "slice")] EXCEPT !.failed = TRUE]
  BY <1>1, <1>2 DEF Fail, Noted, DecFields
<1>4. /\ g = [field \in DecFields |-> g[field]] /\ g.failed = TRUE
      /\ g.slices = f.slices /\ g.firstSliceInPicture = f.firstSliceInPicture
      /\ g.accessUnitApsNals = f.accessUnitApsNals
  <2> HIDE DEF g
  <2> QED BY <1>2, <1>3 DEF DecFields
<1> HIDE DEF g
<1> QED BY <1>2, <1>4 DEF HasFields, IsRecord, g

\* A slice that is parsed and skipped.
LEMMA Skipped ==
  ASSUME NEW f, InAccessUnit(f), NEW ids, ids \subseteq DOMAIN f.alf
  PROVE  LET g == DecodeSlice(f, SliceWith(ids), TRUE)
         IN Idle(g) /\ g.alf = f.alf
<1> DEFINE g == DecodeSlice(f, SliceWith(ids), TRUE)
<1>1. g = SkipSlice(f) BY ParsedIfKnown DEF DecodeSlice
<1>2. f = [field \in DecFields |-> f[field]]
  BY DEF InAccessUnit, HasFields, IsRecord
<1>3. /\ g = [field \in DecFields |-> g[field]] /\ g.failed = f.failed
      /\ g.slices = f.slices /\ g.firstSliceInPicture = f.firstSliceInPicture
      /\ g.accessUnitApsNals = [t \in ApsTypes |-> <<>>] /\ g.alf = f.alf
      /\ g.pictureUnitNals = <<>> /\ g.sps = f.sps /\ g.pps = f.pps
      /\ g.suffixApsNalus = f.suffixApsNalus
  BY <1>1, <1>2 DEF SkipSlice, ResetAccessUnit, DecFields
<1> HIDE DEF g
<1>4. Idle(g) BY <1>3 DEF Idle, InAccessUnit, IsRecord
<1> QED BY <1>3, <1>4 DEF g

\* The decoder behind a slice that uses these sets.
BehindSlice(f, ids, g) ==
  /\ HasFields(g) /\ SameAlf(f.alf, g.alf) /\ g.failed = FALSE
  /\ g.sps = StartedDec.sps /\ g.pps = StartedDec.pps
  /\ g.suffixApsNalus = <<>> /\ g.pictureUnitNals = Append(f.pictureUnitNals, "slice")
  /\ g.firstSliceInPicture = FALSE /\ g.firstSliceInSequence = FALSE /\ g.decodedSliceInAU = TRUE
  /\ \A id \in ids : g.slices[1].alf[id] = f.alf[id].nalu

\* The slice is decoded: it uses the sets that the decoder has.
LEMMA SliceDecoded ==
  ASSUME NEW f, InAccessUnit(f), NEW ids, ids \subseteq DOMAIN f.alf
  PROVE  BehindSlice(f, ids, DecodeSlice(f, SliceWith(ids), FALSE))
<1> DEFINE slice == SliceWith(ids)
           a == Activated(f, slice)
           g == DecodeSlice(f, slice, FALSE)
           bound == Bound(a, slice)
<1>1. /\ f = [field \in DecFields |-> f[field]] /\ f.slices = <<>> /\ f.firstSliceInPicture = TRUE
      /\ f.accessUnitApsNals = [t \in ApsTypes |-> f.accessUnitApsNals[t]] /\ IsAlf(f.alf)
      /\ f.suffixApsNalus = <<>> /\ f.sps = StartedDec.sps /\ f.pps = StartedDec.pps /\ f.failed = FALSE
  BY DEF InAccessUnit, HasFields, IsRecord
<1>2. slice.pps = 0 /\ slice.alf = ids /\ slice.lmcs = {} BY DEF SliceWith
<1>3. [f EXCEPT !.slices = <<>>] = f BY <1>1 DEF DecFields
<1>4. a = [f EXCEPT !.sps = f.sps, !.pps = f.pps,
                    !.alf = ClearChangedFlags(f.alf, DOMAIN f.alf),
                    !.lmcs = ClearChangedFlags(f.lmcs, slice.lmcs)]
  <2>1. \A s : ClearChangedFlags(f.sps, s) = f.sps /\ ClearChangedFlags(f.pps, s) = f.pps
    BY <1>1, StartedSets
  <2>2. f.alf = f["alf"] /\ f.sps = f["sps"] OBVIOUS
  <2> HIDE DEF slice
  <2> QED BY <2>1 DEF Activated
<1> HIDE DEF slice
<1>5. /\ a = [field \in DecFields |-> a[field]]
      /\ \A field \in DecFields \ {"alf", "lmcs"} : a[field] = f[field]
      /\ a.alf = ClearChangedFlags(f.alf, DOMAIN f.alf)
  <2> HIDE DEF a
  <2> QED BY <1>1, <1>4 DEF DecFields
<1>6. SameAlf(f.alf, a.alf) BY <1>1, <1>5, ClearChangedFlagsKeeps
<1> HIDE DEF a, bound
<1>7. /\ a.slices = <<>> /\ a.pictureUnitNals = f.pictureUnitNals /\ a.suffixApsNalus = <<>>
      /\ a.sps = StartedDec.sps /\ a.pps = StartedDec.pps /\ a.failed = FALSE
      /\ a.accessUnitApsNals = [t \in ApsTypes |-> a.accessUnitApsNals[t]]
  BY <1>1, <1>5 DEF DecFields
<1>8. \A id \in ids : bound.alf[id] = f.alf[id].nalu
  <2>1. bound.alf = AlfApss(a, slice) BY DEF bound, Bound
  <2>2. \A id \in ids : bound.alf[id] = GetPS(a.alf, id) BY <1>2, <2>1 DEF AlfApss
  <2>3. \A id \in ids : GetPS(a.alf, id) = f.alf[id].nalu BY <1>6 DEF SameAlf, GetPS
  <2> QED BY <2>2, <2>3
<1>9. g = [Noted(a, "slice") EXCEPT
             !.slices = Append(<<>>, bound),
             !.active = [alf |-> a.active.alf \union slice.alf, lmcs |-> a.active.lmcs \union slice.lmcs],
             !.prevSliceSkipped = FALSE, !.firstSliceInPicture = FALSE,
             !.firstSliceInSequence = FALSE, !.decodedSliceInAU = TRUE]
  <2>1. CanBeParsed(f, slice) BY ParsedIfKnown DEF slice
  <2>2. Noted(a, "slice") = [a EXCEPT !.pictureUnitNals = Append(a.pictureUnitNals, "slice")]
    BY DEF Noted
  <2> DEFINE n == Noted(a, "slice")
  <2>3. n.slices = <<>> /\ n.active = a.active
    <3> HIDE DEF n
    <3> QED BY <1>5, <1>7, <2>2 DEF DecFields, n
  <2>4. g = [n EXCEPT
             !.slices = Append(n.slices, bound),
             !.active = [alf |-> n.active.alf \union slice.alf, lmcs |-> n.active.lmcs \union slice.lmcs],
             !.prevSliceSkipped = FALSE, !.firstSliceInPicture = FALSE,
             !.firstSliceInSequence = FALSE, !.decodedSliceInAU = TRUE]
    BY <1>1, <1>3, <2>1 DEF DecodeSlice, a, bound
  <2> HIDE DEF n, g
  <2>5. Append(n.slices, bound) = Append(<<>>, bound) BY <2>3
  <2> QED BY <2>3, <2>4, <2>5 DEF n
<1> DEFINE list == Append(<<>>, bound)
<1>10. list[1] = bound
  BY DEF bound
<1> HIDE DEF g, list
<1>11. Noted(a, "slice") = [a EXCEPT !.pictureUnitNals = Append(a.pictureUnitNals, "slice")]
  BY DEF Noted
<1>12. /\ g = [field \in DecFields |-> g[field]]
       /\ g.slices = list /\ g.alf = a.alf /\ g.failed = a.failed /\ g.sps = a.sps /\ g.pps = a.pps
       /\ g.suffixApsNalus = a.suffixApsNalus
       /\ g.pictureUnitNals = Append(a.pictureUnitNals, "slice")
       /\ g.firstSliceInPicture = FALSE /\ g.firstSliceInSequence = FALSE /\ g.decodedSliceInAU = TRUE
       /\ g.accessUnitApsNals = a.accessUnitApsNals
  BY <1>5, <1>9, <1>11 DEF DecFields, list
<1>13. HasFields(g) BY <1>7, <1>12 DEF HasFields, IsRecord
<1>14. BehindSlice(f, ids, g)
  BY <1>6, <1>7, <1>8, <1>10, <1>12, <1>13 DEF BehindSlice
<1> QED BY <1>14 DEF g, slice

\* No APS waits, so the end of the picture decodes none.
LEMMA DecodeApssNone ==
  ASSUME NEW d PROVE DecodeApss(d, <<>>) = d
<1> DEFINE IsAfter(after) ==
      after = [n \in 0 .. Len(<<>>) |-> IF n = 0 THEN d ELSE DecodeAPS(after[n - 1], <<>>[n])]
           after == CHOOSE after : IsAfter(after)
<1>1. Len(<<>>) = 0 OBVIOUS
<1>2. IsAfter([n \in 0 .. 0 |-> d]) BY <1>1
<1>3. IsAfter(after)
  <2> HIDE DEF IsAfter
  <2> QED BY <1>2
<1>4. after[0] = d BY <1>1, <1>3
<1>5. DecodeApss(d, <<>>) = after[Len(<<>>)] BY DEF DecodeApss
<1> QED BY <1>1, <1>4, <1>5

\* The picture is finished.
LEMMA PictureFinished ==
  ASSUME NEW f0, InAccessUnit(f0), NEW ids, NEW g, BehindSlice(f0, ids, g)
  PROVE  Idle(NewPicture(g)) /\ NewPicture(g).alf = g.alf
<1> DEFINE p == ProcessSuffixApsNalus(g)
           f == FinishPicture(g)
           c == CheckPictureUnit(f)
           h == NewPicture(g)
           nals == f0.pictureUnitNals
<1>1. /\ g = [field \in DecFields |-> g[field]] /\ IsAlf(g.alf) /\ g.failed = FALSE
      /\ g.sps = StartedDec.sps /\ g.pps = StartedDec.pps /\ g.suffixApsNalus = <<>>
      /\ nals \in Seq({"prefix"}) /\ g.pictureUnitNals = Append(nals, "slice")
      /\ g.firstSliceInSequence = FALSE /\ g.decodedSliceInAU = TRUE
  BY DEF InAccessUnit, BehindSlice, HasFields, IsRecord, SameAlf
<1> HIDE DEF nals
<1>2. p = [g EXCEPT !.suffixApsNalus = <<>>]
  BY <1>1, DecodeApssNone DEF ProcessSuffixApsNalus
<1>3. f = [p EXCEPT !.firstSliceInPicture = TRUE, !.slices = <<>>,
                    !.active["alf"] = {}, !.last = [t \in ApsTypes |-> {}]]
  BY DEF FinishPicture
<1> HIDE DEF p, f
<1>4. /\ f = [field \in DecFields |-> f[field]] /\ f.alf = g.alf /\ f.failed = FALSE
      /\ f.sps = g.sps /\ f.pps = g.pps /\ f.suffixApsNalus = <<>> /\ f.slices = <<>>
      /\ f.pictureUnitNals = g.pictureUnitNals /\ f.firstSliceInPicture = TRUE
      /\ f.decodedSliceInAU = TRUE
  <2>1. /\ p = [field \in DecFields |-> p[field]] /\ p.suffixApsNalus = <<>>
        /\ \A field \in DecFields \ {"suffixApsNalus"} : p[field] = g[field]
    BY <1>1, <1>2 DEF DecFields
  <2> QED BY <1>1, <1>3, <2>1 DEF DecFields
<1>5. ApsInOrder(g.pictureUnitNals)
  <2> DEFINE s == Append(nals, "slice")
  <2>1. /\ Len(nals) \in Nat /\ DOMAIN s = 1 .. Len(nals) + 1
        /\ \A i \in 1 .. Len(nals) : s[i] = "prefix"
        /\ s[Len(nals) + 1] = "slice"
    BY <1>1
  <2> HIDE DEF s
  <2>2. ApsInOrder(s) BY <2>1 DEF ApsInOrder
  <2> QED BY <1>1, <2>2 DEF s
<1>6. c = [[f EXCEPT !.pictureUnitNals = <<>>] EXCEPT !.failed = FALSE]
  BY <1>4, <1>5 DEF CheckPictureUnit, Fail, DecFields
<1> HIDE DEF c
<1>7. /\ c = [field \in DecFields |-> c[field]] /\ c.alf = g.alf /\ c.failed = FALSE
      /\ c.sps = g.sps /\ c.pps = g.pps /\ c.suffixApsNalus = <<>> /\ c.slices = <<>>
      /\ c.pictureUnitNals = <<>> /\ c.firstSliceInPicture = TRUE
  BY <1>4, <1>6 DEF DecFields
<1>8. h = [[c EXCEPT !.accessUnitApsNals = [t \in ApsTypes |-> <<>>]] EXCEPT !.decodedSliceInAU = FALSE]
  BY <1>1 DEF NewPicture, ResetAccessUnit, c, f
<1> HIDE DEF h
<1>9. /\ h = [field \in DecFields |-> h[field]] /\ h.alf = g.alf /\ h.failed = FALSE
      /\ h.sps = g.sps /\ h.pps = g.pps /\ h.suffixApsNalus = <<>> /\ h.slices = <<>>
      /\ h.pictureUnitNals = <<>> /\ h.firstSliceInPicture = TRUE
      /\ h.accessUnitApsNals = [t \in ApsTypes |-> <<>>]
  BY <1>7, <1>8 DEF DecFields
<1>10. Idle(h) BY <1>1, <1>9 DEF Idle, IsRecord
<1> QED BY <1>9, <1>10 DEF h

-----------------------------------------------------------------------------
(* A picture, from the encoder to the decoder.                             *)

\* The decoder has the part of the set as the encoder has it.
Has(e, f, id, part) ==
  /\ id \in DOMAIN f.alf
  /\ f.alf[id].nalu.tid = e.aps[id].tid
  /\ f.alf[id].nalu.content[part] = e.aps[id].parts[part]

\* What was received agrees with the encoder: the sets that changed were sent whole, and
\* the others are as they were.
LEMMA ReceivedAgrees ==
  ASSUME NEW e0, NEW e, NEW tid, CodedFrom(e0, e, tid), NEW units, IsWritten(e, units),
         NEW d, NEW f, IsAlf(d.alf), Received(d, f, units, Len(units)), NEW top,
         NEW id \in ApsIds, NEW part \in Parts,
         e.aps[id].changed \/ (Agrees(e0, d, top) /\ e.aps[id].tid <= top /\ e.aps[id].parts[part] # Off)
  PROVE  Has(e, f, id, part)
<1>1. CASE e.aps[id].changed
  <2>1. PICK i \in 1 .. Len(units) : units[i] = UnitOf(e, id) BY <1>1 DEF IsWritten
  <2>2. /\ UnitOf(e, id).id = id /\ UnitOf(e, id).nalu.tid = e.aps[id].tid
        /\ UnitOf(e, id).nalu.content = e.aps[id].parts
    BY DEF UnitOf
  <2>3. units[i].id \in DOMAIN f.alf /\ f.alf[units[i].id].nalu = units[i].nalu
    BY DEF Received
  <2> QED BY <2>1, <2>2, <2>3 DEF Has
<1>2. CASE ~e.aps[id].changed
  <2>1. e.aps[id] = e0.aps[id] BY <1>2 DEF CodedFrom
  <2>2. /\ id \in DOMAIN d.alf /\ d.alf[id].nalu.tid = e.aps[id].tid
        /\ d.alf[id].nalu.content[part] = e.aps[id].parts[part]
    BY <1>2, <2>1 DEF Agrees, Known, GetPS
  <2>3. id \notin Sent(units, Len(units))
    <3> SUFFICES ASSUME NEW k \in 1 .. Len(units), units[k].id = id PROVE FALSE
      BY DEF Sent
    <3>1. PICK other \in ApsIds : e.aps[other].changed /\ units[k] = UnitOf(e, other)
      BY DEF IsWritten
    <3>2. UnitOf(e, other).id = other BY DEF UnitOf
    <3> QED BY <1>2, <3>1, <3>2
  <2>4. id \in DOMAIN f.alf /\ f.alf[id].nalu = d.alf[id].nalu
    BY <2>2, <2>3 DEF Received
  <2> QED BY <2>2, <2>4 DEF Has
<1> QED BY <1>1, <1>2

\* The units of an access unit.
LEMMA WrittenAreUnits ==
  ASSUME NEW e, EncType(e), NEW units, IsWritten(e, units)
  PROVE  /\ Len(units) \in Nat /\ Distinct(units)
         /\ \A k \in 1 .. Len(units) : IsUnit(units[k]) /\ units[k].nalu.type = "prefix"
<1>1. ASSUME NEW id \in ApsIds
      PROVE  IsUnit(UnitOf(e, id)) /\ UnitOf(e, id).nalu.type = "prefix" /\ UnitOf(e, id).id = id
  <2>1. e.aps[id] \in EncSet BY DEF EncType
  <2>2. e.aps[id].tid \in TLayers /\ e.aps[id].parts \in [Parts -> {Off, Current, New}]
    BY <2>1 DEF EncSet
  <2>3. e.aps[id].parts \in [Parts -> {Off, Current, Old, New}]
    <3> HIDE DEF Off, Current, Old, New
    <3> QED BY <2>2
  <2> QED BY <2>2, <2>3 DEF UnitOf, IsUnit, Nalu
<1>2. \A k \in 1 .. Len(units) : \E id \in ApsIds : units[k] = UnitOf(e, id) BY DEF IsWritten
<1>3. Distinct(units)
  <2> SUFFICES ASSUME NEW j \in 1 .. Len(units), NEW k \in 1 .. Len(units), units[j].id = units[k].id
               PROVE  units[j] = units[k]
    BY DEF Distinct
  <2>1. PICK a \in ApsIds, b \in ApsIds : units[j] = UnitOf(e, a) /\ units[k] = UnitOf(e, b) BY <1>2
  <2>2. a = b BY <1>1, <2>1
  <2> QED BY <2>1, <2>2
<1>4. Len(units) \in Nat BY DEF IsWritten
<1> QED BY <1>1, <1>2, <1>3, <1>4

\* After the picture the encoder has no changed set, and its content is called Current.
LEMMA RenamedSets ==
  ASSUME NEW e, EncType(e)
  PROVE  LET r == Renamed(AfterWriting(e))
         IN /\ AllSent(r)
            /\ \A id \in ApsIds : r.aps[id].tid = e.aps[id].tid
            /\ \A id \in ApsIds, part \in Parts :
                 r.aps[id].parts[part] = IF e.aps[id].parts[part] = Off THEN Off ELSE Current
<1> DEFINE w == AfterWriting(e)
           r == Renamed(w)
<1>1. e = [aps |-> e.aps, apsIdStart |-> e.apsIdStart] /\ e.aps \in [ApsIds -> EncSet]
      /\ e.apsIdStart \in 0 .. NumAps
  BY DEF EncType
<1>2. w = [aps |-> [id \in ApsIds |-> [e.aps[id] EXCEPT !.changed = FALSE]], apsIdStart |-> e.apsIdStart]
  <2> DEFINE sets == [id \in ApsIds |-> [e.aps[id] EXCEPT !.changed = FALSE]]
  <2>1. w = [e EXCEPT !.aps = sets] BY DEF AfterWriting
  <2> HIDE DEF w, sets
  <2>2. w = [aps |-> sets, apsIdStart |-> e.apsIdStart] BY <1>1, <2>1
  <2> QED BY <2>2 DEF sets
<1>3. ASSUME NEW id \in ApsIds
      PROVE  /\ w.aps[id] \in [tid : TLayers, changed : {FALSE}, parts : [Parts -> {Off, Current, New}]]
             /\ w.aps[id].tid = e.aps[id].tid /\ w.aps[id].parts = e.aps[id].parts
  <2>1. e.aps[id] \in EncSet BY <1>1
  <2>2. w.aps[id] = [e.aps[id] EXCEPT !.changed = FALSE] BY <1>2
  <2> HIDE DEF w
  <2> QED BY <2>1, <2>2 DEF EncSet
<1>4. w = [aps |-> w.aps, apsIdStart |-> e.apsIdStart] BY <1>2
<1> HIDE DEF w
<1> DEFINE content(id) == [p \in Parts |-> Content(w, id, p)]
<1>5. r = [aps |-> [id \in ApsIds |-> [w.aps[id] EXCEPT !.parts = content(id)]], apsIdStart |-> e.apsIdStart]
  BY <1>4 DEF Renamed
<1>6. ASSUME NEW id \in ApsIds
      PROVE  /\ r.aps[id] \in [tid : TLayers, changed : {FALSE}, parts : [Parts -> {Off, Current}]]
             /\ r.aps[id].tid = e.aps[id].tid
             /\ \A part \in Parts : r.aps[id].parts[part] = IF e.aps[id].parts[part] = Off THEN Off ELSE Current
  <2>1. content(id) \in [Parts -> {Off, Current}]
        /\ \A p \in Parts : content(id)[p] = IF e.aps[id].parts[p] = Off THEN Off ELSE Current
    BY <1>3 DEF Content
  <2>2. r.aps[id] = [w.aps[id] EXCEPT !.parts = content(id)]
    <3> HIDE DEF content, r
    <3> QED BY <1>5
  <2> HIDE DEF r, content
  <2>3. r.aps[id].parts = content(id) BY <1>3, <2>2
  <2> QED BY <1>3, <2>1, <2>2, <2>3
<1>7. DOMAIN r.aps = ApsIds /\ r.aps = [id \in ApsIds |-> r.aps[id]]
      /\ r = [aps |-> r.aps, apsIdStart |-> r.apsIdStart] /\ r.apsIdStart = e.apsIdStart
  <2> HIDE DEF r, content
  <2> QED BY <1>5
<1> HIDE DEF r
<1>8. r.aps \in [ApsIds -> [tid : TLayers, changed : {FALSE}, parts : [Parts -> {Off, Current}]]]
  BY <1>6, <1>7
<1>9. AllSent(r) BY <1>1, <1>7, <1>8 DEF AllSent
<1> QED BY <1>6, <1>9 DEF r, w

\* What Compared leaves: the decoder as it is, with its content named by the encoder's.
LEMMA ComparedSets ==
  ASSUME NEW e, NEW d, Idle(d)
  PROVE  LET c == Compared(e, d)
         IN /\ Idle(c) /\ DOMAIN c.alf = DOMAIN d.alf
            /\ \A id \in DOMAIN d.alf : c.alf[id].nalu.tid = d.alf[id].nalu.tid
            /\ \A id \in DOMAIN d.alf, part \in Parts : c.alf[id].nalu.content[part] = Copy(e, d, id, part)
<1> DEFINE c == Compared(e, d)
           copies(id) == [p \in Parts |-> Copy(e, d, id, p)]
           sets == [id \in DOMAIN d.alf |-> [d.alf[id] EXCEPT !.nalu.content = copies(id)]]
<1>1. d = [field \in DecFields |-> d[field]] /\ IsAlf(d.alf) BY DEF Idle, IsRecord
<1>2. c = [d EXCEPT !.alf = sets] BY DEF Compared
<1>3. /\ c = [field \in DecFields |-> c[field]] /\ c.alf = sets
      /\ \A field \in DecFields \ {"alf"} : c[field] = d[field]
  <2> HIDE DEF c, sets
  <2> QED BY <1>1, <1>2 DEF DecFields
<1>4. ASSUME NEW id \in DOMAIN d.alf
      PROVE  /\ c.alf[id] \in [changed : BOOLEAN, nalu : Nalu]
             /\ c.alf[id].nalu.tid = d.alf[id].nalu.tid
             /\ \A part \in Parts : c.alf[id].nalu.content[part] = Copy(e, d, id, part)
  <2>1. d.alf[id] \in [changed : BOOLEAN, nalu : Nalu] BY <1>1 DEF IsAlf
  <2>2. copies(id) \in [Parts -> {Off, Current, Old, New}] /\ \A p \in Parts : copies(id)[p] = Copy(e, d, id, p)
    <3>1. \A p \in Parts : Copy(e, d, id, p) \in {Off, Current, Old, New} BY DEF Copy
    <3> QED BY <3>1
  <2>3. c.alf[id] = [d.alf[id] EXCEPT !.nalu.content = copies(id)]
    <3> HIDE DEF c, copies
    <3> QED BY <1>3
  <2> HIDE DEF c, copies
  <2>4. /\ c.alf[id] \in [changed : BOOLEAN, nalu : Nalu] /\ c.alf[id].nalu.tid = d.alf[id].nalu.tid
        /\ c.alf[id].nalu.content = copies(id)
    BY <2>1, <2>2, <2>3 DEF Nalu
  <2> QED BY <2>2, <2>4
<1>5. DOMAIN c.alf = DOMAIN d.alf /\ c.alf = [id \in DOMAIN d.alf |-> c.alf[id]]
  <2> HIDE DEF c
  <2> QED BY <1>3
<1> HIDE DEF c
<1>6. IsAlf(c.alf) BY <1>1, <1>4, <1>5 DEF IsAlf
<1>7. Idle(c)
  <2>1. /\ c.sps = d.sps /\ c.pps = d.pps /\ c.suffixApsNalus = d.suffixApsNalus /\ c.slices = d.slices
        /\ c.pictureUnitNals = d.pictureUnitNals /\ c.accessUnitApsNals = d.accessUnitApsNals
        /\ c.firstSliceInPicture = d.firstSliceInPicture /\ c.failed = d.failed
    BY <1>3 DEF DecFields
  <2>2. IsRecord(c, DecFields) BY <1>3 DEF IsRecord
  <2> QED BY <1>6, <2>1, <2>2 DEF Idle
<1> QED BY <1>4, <1>5, <1>7 DEF c

\* Agreement lasts: the encoder's content and the same content of the decoder get the same name.
LEMMA RenamedAgree ==
  ASSUME NEW e, EncType(e), NEW d, Idle(d), NEW top,
         \A id \in ApsIds, part \in Parts :
           e.aps[id].tid <= top /\ e.aps[id].parts[part] # Off => Has(e, d, id, part)
  PROVE  Agrees(Renamed(AfterWriting(e)), Compared(e, d), top)
<1> DEFINE r == Renamed(AfterWriting(e))
           c == Compared(e, d)
<1>1. /\ \A id \in ApsIds : r.aps[id].tid = e.aps[id].tid
      /\ \A id \in ApsIds, part \in Parts :
           r.aps[id].parts[part] = IF e.aps[id].parts[part] = Off THEN Off ELSE Current
  BY RenamedSets
<1>2. /\ DOMAIN c.alf = DOMAIN d.alf
      /\ \A id \in DOMAIN d.alf : c.alf[id].nalu.tid = d.alf[id].nalu.tid
      /\ \A id \in DOMAIN d.alf, part \in Parts : c.alf[id].nalu.content[part] = Copy(e, d, id, part)
  BY ComparedSets
<1> HIDE DEF r, c
<1>3. ASSUME NEW id \in ApsIds, NEW part \in Parts, r.aps[id].tid <= top, r.aps[id].parts[part] # Off
      PROVE  /\ id \in DOMAIN c.alf /\ c.alf[id].nalu.tid = r.aps[id].tid
             /\ c.alf[id].nalu.content[part] = r.aps[id].parts[part]
  <2>1. e.aps[id].tid <= top /\ e.aps[id].parts[part] # Off BY <1>1, <1>3
  <2>2. /\ id \in DOMAIN d.alf /\ d.alf[id].nalu.tid = e.aps[id].tid
        /\ d.alf[id].nalu.content[part] = e.aps[id].parts[part]
    BY <2>1 DEF Has
  <2>3. Copy(e, d, id, part) = Current BY <2>1, <2>2 DEF Copy, GetPS
  <2>4. r.aps[id].parts[part] = Current BY <1>1, <2>1
  <2> QED BY <1>1, <1>2, <2>2, <2>3, <2>4
<1>4. Agrees(r, c, top) BY <1>3 DEF Agrees, Known, GetPS
<1> QED BY <1>4 DEF r, c

\* The uses of a picture: what its slice header refers to.
Uses(e, pic, uses) ==
  \A use \in uses : use.part \in Parts /\ InUse(e, pic, use.id, use.part)

\* A decoder that has, of the temporal layers up to top, what the encoder has.
HasAll(e, f, top) ==
  \A id \in ApsIds, part \in Parts :
    e.aps[id].tid <= top /\ e.aps[id].parts[part] # Off => Has(e, f, id, part)

\* What is coded from e0 and sent.
IsSent(e0, e, pic, units, uses) ==
  /\ EncType(e) /\ CodedFrom(e0, e, pic.tid) /\ IsWritten(e, units) /\ Uses(e, pic, uses)
  /\ pic.tid \in TLayers

\* The decoder has received the sets of the access unit.
LEMMA SetsArrive ==
  ASSUME Idle(dec), NEW e0, NEW e, NEW pic, NEW units, NEW uses, IsSent(e0, e, pic, units, uses),
         NEW top \in Nat, pic.tid <= top
  PROVE  LET f == DecodePrefixApss(units)
         IN /\ InAccessUnit(f)
            /\ Agrees(e0, dec, top) => HasAll(e, f, top)
            /\ Agrees(e0, dec, top) \/ StartsAnew(pic) =>
                 \A use \in uses : Has(e, f, use.id, use.part)
<1> DEFINE f == DecodePrefixApss(units)
<1>1. /\ Len(units) \in Nat /\ Distinct(units)
      /\ \A k \in 1 .. Len(units) : IsUnit(units[k]) /\ units[k].nalu.type = "prefix"
  BY WrittenAreUnits DEF IsSent
<1>2. Received(dec, f, units, Len(units)) BY <1>1, ReceivedAll
<1> HIDE DEF f
<1>3. InAccessUnit(f) BY <1>2, ReceivedInAccessUnit
<1>4. CodedFrom(e0, e, pic.tid) /\ IsWritten(e, units) /\ IsAlf(dec.alf) BY DEF IsSent, Idle
<1>5. ASSUME Agrees(e0, dec, top) PROVE HasAll(e, f, top)
  BY <1>2, <1>4, <1>5, ReceivedAgrees DEF HasAll
<1>6. ASSUME Agrees(e0, dec, top) \/ StartsAnew(pic), NEW use \in uses PROVE Has(e, f, use.id, use.part)
  <2>1. use.part \in Parts /\ InUse(e, pic, use.id, use.part) BY DEF IsSent, Uses
  <2>2. use.id \in ApsIds /\ e.aps[use.id].parts[use.part] # Off /\ e.aps[use.id].tid <= top
        /\ (StartsAnew(pic) => e.aps[use.id].changed)
    <3>1. use.id \in ApsIds /\ e.aps[use.id].parts[use.part] # Off /\ e.aps[use.id].tid <= pic.tid
          /\ (StartsAnew(pic) => e.aps[use.id].changed)
      BY <2>1 DEF InUse
    <3>2. e.aps[use.id].tid \in Nat /\ pic.tid \in Nat
      <4>1. e.aps[use.id] \in EncSet BY <3>1 DEF IsSent, EncType
      <4> QED BY <4>1, Constants DEF EncSet, IsSent
    <3> QED BY <3>1, <3>2
  <2>3. e.aps[use.id].changed \/ (Agrees(e0, dec, top) /\ e.aps[use.id].tid <= top
                                  /\ e.aps[use.id].parts[use.part] # Off)
    BY <1>6, <2>2
  <2> QED BY <1>2, <1>4, <2>1, <2>2, <2>3, ReceivedAgrees
<1> QED BY <1>3, <1>5, <1>6 DEF f

\* A decoder with the same sets has what the encoder has.
LEMMA HasAllSame ==
  ASSUME NEW e, NEW f, NEW g, SameAlf(f.alf, g.alf), NEW top, HasAll(e, f, top)
  PROVE  HasAll(e, g, top)
  BY DEF HasAll, Has, SameAlf

\* What decoding a picture does to a decoder that has the sets, and what skipping it does.
IsDecoded(e0, e, pic, units, uses, top) ==
  LET d == Decoded(units, SliceWith({use.id : use \in uses}), FALSE)
  IN /\ d.firstSliceInPicture = FALSE
     /\ FiltersAlike(e, d, pic, uses)
     /\ Idle(NewPicture(d))
     /\ Agrees(e0, dec, top) => HasAll(e, NewPicture(d), top)

IsSkipped(e0, e, units, uses, top) ==
  LET d == Decoded(units, SliceWith({use.id : use \in uses}), TRUE)
  IN /\ HasFields(d) /\ d.firstSliceInPicture = TRUE /\ d.slices = <<>>
     /\ IF d.failed THEN d.failed = TRUE /\ ~Agrees(e0, dec, top)
        ELSE Idle(d) /\ (Agrees(e0, dec, top) => HasAll(e, d, top))

\* A picture is decoded with the content of the encoder.
LEMMA PictureDecoded ==
  ASSUME Idle(dec), NEW e0, NEW e, NEW pic, NEW units, NEW uses, IsSent(e0, e, pic, units, uses),
         NEW top \in Nat, pic.tid <= top, Agrees(e0, dec, top) \/ StartsAnew(pic)
  PROVE  IsDecoded(e0, e, pic, units, uses, top)
<1> DEFINE f == DecodePrefixApss(units)
           ids == {use.id : use \in uses}
           d == DecodeSlice(f, SliceWith(ids), FALSE)
<1>1. /\ InAccessUnit(f)
      /\ Agrees(e0, dec, top) => HasAll(e, f, top)
      /\ \A use \in uses : Has(e, f, use.id, use.part)
  BY SetsArrive
<1>2. Decoded(units, SliceWith(ids), FALSE) = d BY DEF Decoded
<1> HIDE DEF f
<1>3. ids \subseteq DOMAIN f.alf BY <1>1 DEF Has
<1>4. \A use \in uses : use.id \in ids OBVIOUS
<1> HIDE DEF ids
<1>5. BehindSlice(f, ids, d) BY <1>1, <1>3, SliceDecoded
<1> HIDE DEF d
<1>6. Idle(NewPicture(d)) /\ NewPicture(d).alf = d.alf BY <1>1, <1>5, PictureFinished
<1>7. Agrees(e0, dec, top) => HasAll(e, NewPicture(d), top)
  <2>1. SameAlf(f.alf, NewPicture(d).alf) BY <1>5, <1>6 DEF BehindSlice
  <2> QED BY <1>1, <2>1, HasAllSame
<1>8. FiltersAlike(e, d, pic, uses)
  <2> SUFFICES ASSUME NEW use \in uses
               PROVE  LET aps == d.slices[1].alf[use.id]
                      IN /\ aps.content[use.part] = e.aps[use.id].parts[use.part]
                         /\ aps.content[use.part] # Off /\ aps.tid <= pic.tid
    BY DEF FiltersAlike
  <2>1. d.slices[1].alf[use.id] = f.alf[use.id].nalu BY <1>4, <1>5 DEF BehindSlice
  <2>2. Has(e, f, use.id, use.part) BY <1>1
  <2>3. e.aps[use.id].parts[use.part] # Off /\ e.aps[use.id].tid <= pic.tid
    BY DEF IsSent, Uses, InUse
  <2> QED BY <2>1, <2>2, <2>3 DEF Has
<1>9. d.firstSliceInPicture = FALSE BY <1>5 DEF BehindSlice
<1> QED BY <1>2, <1>6, <1>7, <1>8, <1>9 DEF d, ids, IsDecoded

\* A picture is skipped.  If its header cannot be parsed, the decoder did not agree
\* with the encoder.
LEMMA PictureSkipped ==
  ASSUME Idle(dec), NEW e0, NEW e, NEW pic, NEW units, NEW uses, IsSent(e0, e, pic, units, uses),
         NEW top \in Nat, pic.tid <= top
  PROVE  IsSkipped(e0, e, units, uses, top)
<1> DEFINE f == DecodePrefixApss(units)
           ids == {use.id : use \in uses}
           d == DecodeSlice(f, SliceWith(ids), TRUE)
<1>1. /\ InAccessUnit(f)
      /\ Agrees(e0, dec, top) => HasAll(e, f, top)
      /\ Agrees(e0, dec, top) => \A use \in uses : Has(e, f, use.id, use.part)
  BY SetsArrive
<1>2. Decoded(units, SliceWith(ids), TRUE) = d BY DEF Decoded
<1> HIDE DEF f
<1>3. Agrees(e0, dec, top) => ids \subseteq DOMAIN f.alf BY <1>1 DEF Has
<1> HIDE DEF ids
<1>4. CASE ids \subseteq DOMAIN f.alf
  <2>1. Idle(d) /\ d.alf = f.alf BY <1>1, <1>4, Skipped
  <2> HIDE DEF d
  <2>2. HasFields(d) /\ d.firstSliceInPicture = TRUE /\ d.slices = <<>> /\ d.failed = FALSE
    BY <2>1 DEF Idle, HasFields, IsRecord
  <2>3. Agrees(e0, dec, top) => HasAll(e, d, top) BY <1>1, <2>1 DEF HasAll, Has
  <2> QED BY <1>2, <2>1, <2>2, <2>3 DEF d, ids, IsSkipped
<1>5. CASE ~ (ids \subseteq DOMAIN f.alf)
  <2>1. HasFields(d) /\ d.failed = TRUE /\ d.slices = <<>> /\ d.firstSliceInPicture = TRUE
    BY <1>1, <1>5, NotParsed
  <2> HIDE DEF d
  <2> QED BY <1>2, <1>3, <1>5, <2>1 DEF d, ids, IsSkipped
<1> QED BY <1>4, <1>5

-----------------------------------------------------------------------------
(* The invariant.                                                          *)

\* When the stream is read from here, the decoder starts at this picture.
MayStart(pic, start) == start \in IF starting = "waits" /\ IsIRAP(pic) THEN BOOLEAN ELSE {FALSE}

\* Where the decoder is behind the picture.
Moves(pic, start) ==
  /\ starting' = IF start THEN IF pic.type = "CRA" THEN "atCRA" ELSE "started"
                 ELSE IF IsIRAP(pic) /\ starting = "atCRA" THEN "started"
                 ELSE starting
  /\ Ended(pic)

\* The decoder is in step with the sets that the picture is coded from.
IsInStep(pic) == ResetsSets(pic) \/ InStep

SkipsPicture(pic) == pic.type = "RASL" /\ starting = "atCRA"

\* The decoder only gets in step where the encoder's sets are reset; it decodes a picture
\* out of step if that refers to nothing from before it; and it skips one out of step
\* only when the encoder did not reset its sets at the CRA picture.
LEMMA InStepWhereNeeded ==
  ASSUME IInv, NEW pic \in Pictures, NEW start, MayStart(pic, start), Moves(pic, start)
  PROVE  /\ InStep' => IsInStep(pic)
         /\ InStep' /\ ~Reads(pic, start) => ~(pic.tid <= highestTid)
         /\ Reads(pic, start) /\ ~SkipsPicture(pic) => IsInStep(pic) \/ StartsAnew(pic)
         /\ SkipsPicture(pic) /\ ~IsInStep(pic) => starting' = "atCRA" /\ ~craApsReset'
         /\ lastRas' \in {"first", "IDR", "CRA", "none"} /\ starting' \in {"waits", "atCRA", "started"}
         /\ craApsReset' = craApsReset /\ highestTid' = highestTid
<1> USE DEF IsInStep, ResetsSets, StartsAnew, IsIRAP, InStep, SkipsPicture, Reads
<1>1. /\ pic.type \in {"IDR", "CRA", "RASL", "RADL", "TRAIL"} /\ pic.tid \in Nat
      /\ pic.pendingRasInit \in BOOLEAN
      /\ IsIRAP(pic) => pic.tid = 0
      /\ pic.type = "RASL" => lastRas = "CRA" /\ pic.tid \in LeadingTLayers
      /\ pic.type = "RADL" => lastRas = "IDR" /\ pic.tid \in LeadingTLayers
      /\ pic.pendingRasInit <=> pic.type \in {"TRAIL", "CRA"} /\ lastRas \in {"IDR", "CRA"}
      /\ lastRas = "first" => pic.type = "IDR"
  BY Constants DEF Pictures
<1>2. /\ craApsReset \in BOOLEAN /\ highestTid \in Nat
      /\ lastRas \in {"first", "IDR", "CRA", "none"} /\ starting \in {"waits", "atCRA", "started"}
  BY DEF IInv
<1>3. /\ start \in BOOLEAN /\ (start => starting = "waits" /\ IsIRAP(pic))
      /\ starting' = IF start THEN IF pic.type = "CRA" THEN "atCRA" ELSE "started"
                     ELSE IF IsIRAP(pic) /\ starting = "atCRA" THEN "started"
                     ELSE starting
  BY DEF MayStart, Moves
<1>4. /\ lastRas' = IF IsIRAP(pic) THEN pic.type
                    ELSE IF pic.type = "TRAIL" THEN "none" ELSE lastRas
      /\ craApsReset' = craApsReset /\ highestTid' = highestTid
  BY DEF Moves, Ended
<1>5. InStep' => IsInStep(pic) BY <1>1, <1>2, <1>3, <1>4
<1>6. InStep' /\ ~Reads(pic, start) => ~(pic.tid <= highestTid) BY <1>1, <1>2, <1>3, <1>4
<1>7. Reads(pic, start) /\ ~SkipsPicture(pic) => IsInStep(pic) \/ StartsAnew(pic)
  BY <1>1, <1>2, <1>3, <1>4
<1>8. SkipsPicture(pic) /\ ~IsInStep(pic) => starting' = "atCRA" /\ ~craApsReset'
  BY <1>1, <1>2, <1>3, <1>4
<1>9. lastRas' \in {"first", "IDR", "CRA", "none"} /\ starting' \in {"waits", "atCRA", "started"}
  BY <1>1, <1>2, <1>3, <1>4
<1> QED BY <1>4, <1>5, <1>6, <1>7, <1>8, <1>9

\* The sets that a picture is coded from.
From(pic) == IF ResetsSets(pic) THEN Reset(enc) ELSE enc

\* They were sent, and a decoder in step has them.
LEMMA FromAgrees ==
  ASSUME IInv, ~dec.failed, NEW pic \in Pictures
  PROVE  /\ EncType(From(pic)) /\ (\A id \in ApsIds : ~From(pic).aps[id].changed)
         /\ IsInStep(pic) => Agrees(From(pic), dec, highestTid)
<1>1. AllSent(InitEnc)
  <2>1. NoParts \in [Parts -> {Off, Current}] BY DEF NoParts
  <2> QED BY <2>1, Constants DEF AllSent, InitEnc
<1>2. AllSent(From(pic)) BY <1>1 DEF From, Reset, IInv
<1>3. EncType(From(pic))
  <2> DEFINE e == From(pic)
  <2>1. /\ e = [aps |-> e.aps, apsIdStart |-> e.apsIdStart] /\ e.apsIdStart \in 0 .. NumAps
        /\ e.aps \in [ApsIds -> [tid : TLayers, changed : {FALSE}, parts : [Parts -> {Off, Current}]]]
    BY <1>2 DEF AllSent
  <2> HIDE DEF e
  <2>2. ASSUME NEW id \in ApsIds PROVE e.aps[id] \in EncSet
    <3>1. e.aps[id] \in [tid : TLayers, changed : {FALSE}, parts : [Parts -> {Off, Current}]] BY <2>1
    <3>2. e.aps[id].parts \in [Parts -> {Off, Current, New}]
      <4>1. e.aps[id].parts \in [Parts -> {Off, Current}] BY <3>1
      <4> HIDE DEF Off, Current, New
      <4> QED BY <4>1
    <3> QED BY <3>1, <3>2 DEF EncSet
  <2>3. e.aps \in [ApsIds -> EncSet] BY <2>1, <2>2
  <2>4. EncType(e) BY <2>1, <2>3 DEF EncType
  <2> QED BY <2>4 DEF e
<1>4. \A id \in ApsIds : ~From(pic).aps[id].changed BY <1>2 DEF AllSent
<1>5. ASSUME IsInStep(pic) PROVE Agrees(From(pic), dec, highestTid)
  <2>1. CASE ResetsSets(pic)
    <3>1. \A id \in ApsIds, part \in Parts : InitEnc.aps[id].parts[part] = Off BY DEF InitEnc, NoParts
    <3> QED BY <2>1, <3>1 DEF From, Reset, Agrees
  <2>2. CASE ~ResetsSets(pic) BY <1>5, <2>2 DEF IsInStep, From, IInv
  <2> QED BY <2>1, <2>2
<1> QED BY <1>3, <1>4, <1>5

\* Nothing is read: the sets that changed are of a temporal layer that is dropped.
LEMMA DroppedAgrees ==
  ASSUME NEW e0, NEW e, NEW pic, CodedFrom(e0, e, pic.tid), NEW d, NEW top,
         ~(pic.tid <= top), Agrees(e0, d, top)
  PROVE  HasAll(e, d, top)
<1> SUFFICES ASSUME NEW id \in ApsIds, NEW part \in Parts,
                    e.aps[id].tid <= top, e.aps[id].parts[part] # Off
             PROVE  Has(e, d, id, part)
  BY DEF HasAll
<1>1. e.aps[id] = e0.aps[id] BY DEF CodedFrom
<1> QED BY <1>1 DEF Agrees, Has, Known, GetPS

\* The decoder in front of the next picture.
Behind(d) == IF d.firstSliceInPicture THEN d ELSE NewPicture(d)

\* How a picture leaves the decoder: d is the decoder behind its slice.
Leaves(e0, e, d, pic, uses) ==
  /\ d.slices = <<>> \/ FiltersAlike(e, d, pic, uses)
  /\ HasFields(Behind(d)) /\ Behind(d).failed \in BOOLEAN
  /\ Behind(d).failed => SkipsPicture(pic) /\ ~IsInStep(pic)
  /\ ~Behind(d).failed =>
       /\ Idle(Behind(d))
       /\ InStep' => HasAll(e, Behind(d), highestTid)

\* Whether a picture is read, skipped or dropped.
LEMMA PictureLeaves ==
  ASSUME IInv, ~dec.failed, NEW pic \in Pictures, NEW start, MayStart(pic, start), Moves(pic, start),
         NEW e, NEW units, NEW uses, IsSent(From(pic), e, pic, units, uses)
  PROVE  Leaves(From(pic), e,
                IF Reads(pic, start)
                THEN Decoded(units, SliceWith({use.id : use \in uses}), SkipsPicture(pic)) ELSE dec,
                pic, uses)
<1> DEFINE e0 == From(pic)
           d == Decoded(units, SliceWith({use.id : use \in uses}), SkipsPicture(pic))
<1>1. /\ Idle(dec) /\ highestTid \in Nat BY DEF IInv
<1>2. /\ InStep' => IsInStep(pic)
      /\ InStep' /\ ~Reads(pic, start) => ~(pic.tid <= highestTid)
      /\ Reads(pic, start) /\ ~SkipsPicture(pic) => IsInStep(pic) \/ StartsAnew(pic)
  BY InStepWhereNeeded
<1>3. IsInStep(pic) => Agrees(e0, dec, highestTid) BY FromAgrees
<1>4. IsSent(e0, e, pic, units, uses) OBVIOUS
<1>5. Reads(pic, start) => pic.tid <= highestTid BY DEF Reads
<1> HIDE DEF e0
<1>6. CASE ~Reads(pic, start)
  <2>1. /\ dec.slices = <<>> /\ Behind(dec) = dec /\ HasFields(dec) /\ dec.failed = FALSE
    BY <1>1 DEF Idle, Behind, HasFields, IsRecord
  <2>2. CodedFrom(e0, e, pic.tid) BY <1>4 DEF IsSent
  <2>3. InStep' => HasAll(e, dec, highestTid) BY <1>2, <1>3, <1>6, <2>2, DroppedAgrees
  <2>4. Leaves(e0, e, dec, pic, uses) BY <1>1, <2>1, <2>3 DEF Leaves
  <2> QED BY <1>6, <2>4 DEF e0
<1>7. CASE Reads(pic, start) /\ ~SkipsPicture(pic)
  <2>1. SkipsPicture(pic) = FALSE BY <1>7 DEF SkipsPicture
  <2>2. Agrees(e0, dec, highestTid) \/ StartsAnew(pic) BY <1>2, <1>3, <1>7
  <2>3. /\ d.firstSliceInPicture = FALSE /\ FiltersAlike(e, d, pic, uses)
        /\ Idle(NewPicture(d))
        /\ Agrees(e0, dec, highestTid) => HasAll(e, NewPicture(d), highestTid)
    <3>1. IsDecoded(e0, e, pic, units, uses, highestTid)
      BY <1>1, <1>4, <1>5, <1>7, <2>2, PictureDecoded
    <3> QED BY <2>1, <3>1 DEF IsDecoded
  <2> HIDE DEF d
  <2>4. Behind(d) = NewPicture(d) BY <2>3 DEF Behind
  <2>5. HasFields(Behind(d)) /\ Behind(d).failed = FALSE
    BY <2>3, <2>4 DEF Idle, HasFields, IsRecord
  <2>6. Leaves(e0, e, d, pic, uses) BY <1>2, <1>3, <2>3, <2>4, <2>5 DEF Leaves
  <2> QED BY <1>7, <2>6 DEF e0, d
<1>8. CASE Reads(pic, start) /\ SkipsPicture(pic)
  <2>1. SkipsPicture(pic) = TRUE BY <1>8 DEF SkipsPicture
  <2>2. /\ HasFields(d) /\ d.firstSliceInPicture = TRUE /\ d.slices = <<>>
        /\ IF d.failed THEN d.failed = TRUE /\ ~Agrees(e0, dec, highestTid)
           ELSE Idle(d) /\ (Agrees(e0, dec, highestTid) => HasAll(e, d, highestTid))
    <3>1. IsSkipped(e0, e, units, uses, highestTid)
      BY <1>1, <1>4, <1>5, <1>8, PictureSkipped
    <3> QED BY <2>1, <3>1 DEF IsSkipped
  <2> HIDE DEF d
  <2>3. Behind(d) = d BY <2>2 DEF Behind
  <2>4. d.failed \in BOOLEAN BY <2>2 DEF Idle
  <2>5. Leaves(e0, e, d, pic, uses) BY <1>2, <1>3, <1>8, <2>2, <2>3, <2>4 DEF Leaves
  <2> QED BY <1>8, <2>5 DEF e0, d
<1> QED BY <1>6, <1>7, <1>8

\* A picture that is coded and sent keeps the invariant.
LEMMA SendKeeps ==
  ASSUME IInv, ~dec.failed, NEW pic \in Pictures, NEW e, NEW units, NEW uses,
         IsSent(From(pic), e, pic, units, uses), Send(e, pic, units, uses), Ended(pic)
  PROVE  IInv'
<1> DEFINE slice == SliceWith({use.id : use \in uses})
<1>1. PICK start : 
        /\ start \in IF starting = "waits" /\ IsIRAP(pic) THEN BOOLEAN ELSE {FALSE}
        /\ \E d \in {IF Reads(pic, start)
                     THEN Decoded(units, slice, pic.type = "RASL" /\ starting = "atCRA") ELSE dec} :
             /\ enc' = Renamed(AfterWriting(e))
             /\ dec' = Compared(e, IF d.firstSliceInPicture THEN d ELSE NewPicture(d))
             /\ filtersAlike' = (d.slices = <<>> \/ FiltersAlike(e, d, pic, uses))
             /\ starting' = IF start THEN IF pic.type = "CRA" THEN "atCRA" ELSE "started"
                            ELSE IF IsIRAP(pic) /\ starting = "atCRA" THEN "started"
                            ELSE starting
  BY DEF Send, SliceWith
<1>2. PICK d :
        /\ d = IF Reads(pic, start) THEN Decoded(units, slice, SkipsPicture(pic)) ELSE dec
        /\ enc' = Renamed(AfterWriting(e))
        /\ dec' = Compared(e, Behind(d))
        /\ filtersAlike' = (d.slices = <<>> \/ FiltersAlike(e, d, pic, uses))
  BY <1>1 DEF Behind, SkipsPicture
<1>3. MayStart(pic, start) /\ Moves(pic, start) BY <1>1 DEF MayStart, Moves
<1>4. Leaves(From(pic), e, d, pic, uses) BY <1>2, <1>3, PictureLeaves
<1> HIDE DEF slice
<1>5. EncType(e) BY DEF IsSent
<1>6. AllSent(enc') BY <1>2, <1>5, RenamedSets
<1>7. /\ SkipsPicture(pic) /\ ~IsInStep(pic) => starting' = "atCRA" /\ ~craApsReset'
      /\ lastRas' \in {"first", "IDR", "CRA", "none"} /\ starting' \in {"waits", "atCRA", "started"}
      /\ craApsReset' = craApsReset /\ highestTid' = highestTid
  BY <1>3, InStepWhereNeeded
<1>8. filtersAlike' = TRUE BY <1>2, <1>4 DEF Leaves
<1>9. dec'.failed = Behind(d).failed
  <2> DEFINE b == Behind(d)
             sets == [id \in DOMAIN b.alf |-> [b.alf[id] EXCEPT !.nalu.content = [p \in Parts |-> Copy(e, b, id, p)]]]
  <2>1. b = [field \in DecFields |-> b[field]] BY <1>4 DEF Leaves, HasFields, IsRecord
  <2>2. dec' = [b EXCEPT !.alf = sets] BY <1>2 DEF Compared
  <2> HIDE DEF b, sets
  <2>3. dec'.failed = b.failed BY <2>1, <2>2 DEF DecFields
  <2> QED BY <2>3 DEF b
<1>10. dec'.failed \in BOOLEAN /\ (dec'.failed => starting' = "atCRA" /\ ~craApsReset')
  BY <1>4, <1>7, <1>9 DEF Leaves
<1>11. ~dec'.failed => Idle(dec') BY <1>2, <1>4, <1>9, ComparedSets DEF Leaves
<1>12. ~dec'.failed /\ InStep' => Agrees(enc', dec', highestTid')
  <2> SUFFICES ASSUME ~dec'.failed, InStep' PROVE Agrees(enc', dec', highestTid)
    BY <1>7
  <2>1. Idle(Behind(d)) /\ HasAll(e, Behind(d), highestTid) BY <1>4, <1>9 DEF Leaves
  <2>2. \A id \in ApsIds, part \in Parts :
          e.aps[id].tid <= highestTid /\ e.aps[id].parts[part] # Off => Has(e, Behind(d), id, part)
    BY <2>1 DEF HasAll
  <2> QED BY <1>2, <1>5, <2>1, <2>2, RenamedAgree
<1>13. craApsReset' \in BOOLEAN /\ highestTid' \in Nat BY <1>7 DEF IInv
<1> QED BY <1>6, <1>7, <1>8, <1>10, <1>11, <1>12, <1>13 DEF IInv

\* What the slice header of a picture with ALF refers to.
UsesOf(lumaIds, chroma, cc) ==
  {[part |-> "luma", id |-> id] : id \in lumaIds}
  \union {[part |-> "chroma", id |-> id] : id \in {chroma.id} \ {-1}}
  \union {[part |-> c, id |-> cc[c].id] : c \in {k \in CcComponents : cc[k].id # -1}}

\* The sets that luma, chroma and the CC filters of a picture use are there when it is
\* sent: none of the four steps takes from a later one or gives up what an earlier one uses.
LEMMA AlfIsSent ==
  ASSUME NEW e0, EncType(e0), \A id \in ApsIds : ~e0.aps[id].changed,
         NEW pic, pic.tid \in TLayers,
         NEW luma \in LumaChoices(e0, pic), NEW lumaIds, lumaIds = LumaIds(e0, pic, luma),
         NEW newApsId, newApsId = Before(e0.apsIdStart), NEW e1, e1 = AfterLuma(e0, pic, luma),
         NEW chroma \in ChromaChoices(e1, pic, luma, lumaIds, newApsId),
         NEW e2, e2 = AfterChroma(e1, pic, luma, chroma),
         NEW used, NEW e3, e3 = WithoutOldCc(e2, used),
         NEW cc \in CcChoices(e3, pic, chroma.ccApsIds), NEW e4, e4 = AfterCc(e3, pic, cc)
  PROVE  IsSent(e0, e4, pic, Written(e4), UsesOf(lumaIds, chroma, cc))
<1>1. newApsId \in ApsIds BY BeforeIsId DEF EncType
<1>2. CodedFrom(e0, e1, pic.tid) /\ \A id \in lumaIds : InUse(e1, pic, id, "luma")
  BY LumaInUse
<1>3. luma.new => e1.apsIdStart \in ApsIds BY <1>1, LumaWrites
<1>4. /\ CodedFrom(e0, e2, pic.tid)
      /\ \A id \in lumaIds : InUse(e2, pic, id, "luma")
      /\ chroma.id # -1 => InUse(e2, pic, chroma.id, "chroma")
      /\ chroma.ccApsIds \subseteq ApsIds
  BY <1>1, <1>2, <1>3, ChromaInUse
<1>5. /\ CodedFrom(e0, e3, pic.tid)
      /\ \A id, part : part \in Parts \ CcComponents /\ InUse(e2, pic, id, part) => InUse(e3, pic, id, part)
  BY <1>4, WithoutOldCcKeeps
<1>6. /\ CodedFrom(e0, e4, pic.tid)
      /\ \A id, part : part \in Parts /\ InUse(e3, pic, id, part) => InUse(e4, pic, id, part)
      /\ \A c \in CcComponents : cc[c].id # -1 => InUse(e4, pic, cc[c].id, c)
  BY <1>4, <1>5, CcInUse
<1>7. \A id \in lumaIds : InUse(e4, pic, id, "luma") BY <1>4, <1>5, <1>6, Constants
<1>8. chroma.id # -1 => InUse(e4, pic, chroma.id, "chroma") BY <1>4, <1>5, <1>6, Constants
<1>9. Uses(e4, pic, UsesOf(lumaIds, chroma, cc))
  <2> SUFFICES ASSUME NEW use \in UsesOf(lumaIds, chroma, cc)
               PROVE  use.part \in Parts /\ InUse(e4, pic, use.id, use.part)
    BY DEF Uses
  <2>1. CASE \E id \in lumaIds : use = [part |-> "luma", id |-> id] BY <1>7, <2>1, Constants
  <2>2. CASE \E id \in {chroma.id} \ {-1} : use = [part |-> "chroma", id |-> id] BY <1>8, <2>2, Constants
  <2>3. CASE \E c \in {k \in CcComponents : cc[k].id # -1} : use = [part |-> c, id |-> cc[c].id]
    BY <1>6, <2>3, Constants
  <2> QED BY <2>1, <2>2, <2>3 DEF UsesOf
<1>10. IsWritten(e4, Written(e4)) BY WrittenUnits
<1>11. EncType(e4) BY <1>6 DEF CodedFrom
<1> QED BY <1>6, <1>9, <1>10, <1>11 DEF IsSent

\* A picture is coded from the sets e0.
CodesWithAlf(e0, pic) ==
  \E luma \in LumaChoices(e0, pic) :
  \E lumaIds \in {LumaIds(e0, pic, luma)}, newApsId \in {Before(e0.apsIdStart)} :
  \E e1 \in {AfterLuma(e0, pic, luma)} :
  \E chroma \in ChromaChoices(e1, pic, luma, lumaIds, newApsId) :
  \E e2 \in {AfterChroma(e1, pic, luma, chroma)} :
  \E e3 \in {WithoutOldCc(e2, lumaIds \union {chroma.id})} :
  \E cc \in CcChoices(e3, pic, chroma.ccApsIds) :
  \E e4 \in {AfterCc(e3, pic, cc)} :
    /\ Send(e4, pic, Written(e4), UsesOf(lumaIds, chroma, cc))
    /\ Ended(pic)

\* A picture with ALF keeps the invariant.
LEMMA WithAlfKeeps ==
  ASSUME IInv, CodePictureWithAlf
  PROVE  IInv'
<1>1. ~dec.failed BY DEF CodePictureWithAlf
<1>2. PICK pic \in Pictures : CodesWithAlf(From(pic), pic)
  <2>1. \E pic \in Pictures : \E e0 \in {From(pic)} : CodesWithAlf(e0, pic)
    BY DEF CodePictureWithAlf, CodesWithAlf, From, UsesOf
  <2> QED BY <2>1
<1> DEFINE e0 == From(pic)
<1>3. EncType(e0) /\ (\A id \in ApsIds : ~e0.aps[id].changed) BY <1>1, FromAgrees
<1>4. pic.tid \in TLayers BY DEF Pictures
<1> HIDE DEF e0
<1>5. PICK luma \in LumaChoices(e0, pic) :
        \E lumaIds \in {LumaIds(e0, pic, luma)}, newApsId \in {Before(e0.apsIdStart)} :
        \E e1 \in {AfterLuma(e0, pic, luma)} :
        \E chroma \in ChromaChoices(e1, pic, luma, lumaIds, newApsId) :
        \E e2 \in {AfterChroma(e1, pic, luma, chroma)} :
        \E e3 \in {WithoutOldCc(e2, lumaIds \union {chroma.id})} :
        \E cc \in CcChoices(e3, pic, chroma.ccApsIds) :
        \E e4 \in {AfterCc(e3, pic, cc)} :
          /\ Send(e4, pic, Written(e4), UsesOf(lumaIds, chroma, cc))
          /\ Ended(pic)
  BY <1>2 DEF e0, CodesWithAlf
<1> DEFINE lumaIds == LumaIds(e0, pic, luma)
           newApsId == Before(e0.apsIdStart)
           e1 == AfterLuma(e0, pic, luma)
<1>6. PICK chroma \in ChromaChoices(e1, pic, luma, lumaIds, newApsId) :
        \E e2 \in {AfterChroma(e1, pic, luma, chroma)} :
        \E e3 \in {WithoutOldCc(e2, lumaIds \union {chroma.id})} :
        \E cc \in CcChoices(e3, pic, chroma.ccApsIds) :
        \E e4 \in {AfterCc(e3, pic, cc)} :
          /\ Send(e4, pic, Written(e4), UsesOf(lumaIds, chroma, cc))
          /\ Ended(pic)
  BY <1>5
<1> DEFINE e2 == AfterChroma(e1, pic, luma, chroma)
           e3 == WithoutOldCc(e2, lumaIds \union {chroma.id})
<1>7. PICK cc \in CcChoices(e3, pic, chroma.ccApsIds) :
        Send(AfterCc(e3, pic, cc), pic, Written(AfterCc(e3, pic, cc)), UsesOf(lumaIds, chroma, cc))
        /\ Ended(pic)
  BY <1>6
<1> DEFINE e4 == AfterCc(e3, pic, cc)
<1>8. IsSent(e0, e4, pic, Written(e4), UsesOf(lumaIds, chroma, cc))
  BY <1>3, <1>4, AlfIsSent
<1>9. IsSent(From(pic), e4, pic, Written(e4), UsesOf(lumaIds, chroma, cc)) BY <1>8 DEF e0
<1> HIDE DEF e4
<1> DEFINE units == Written(e4)
           uses == UsesOf(lumaIds, chroma, cc)
<1>10. IsSent(From(pic), e4, pic, units, uses) /\ Send(e4, pic, units, uses) /\ Ended(pic)
  BY <1>7, <1>9 DEF e4
<1> HIDE DEF units, uses
<1> QED BY <1>1, <1>10, SendKeeps

\* A picture without ALF changes no set of the encoder.
LEMMA WithoutAlfKeeps ==
  ASSUME IInv, CodePictureWithoutAlf
  PROVE  IInv'
<1>1. ~dec.failed BY DEF CodePictureWithoutAlf
<1>2. PICK pic \in Pictures : Send(From(pic), pic, <<>>, {}) /\ Ended(pic)
  BY DEF CodePictureWithoutAlf, From
<1> DEFINE e == From(pic)
<1>3. EncType(e) /\ (\A id \in ApsIds : ~e.aps[id].changed) BY <1>1, FromAgrees
<1>4. pic.tid \in TLayers BY DEF Pictures
<1> HIDE DEF e
<1>5. IsWritten(e, <<>>) BY <1>3 DEF IsWritten
<1>6. CodedFrom(e, e, pic.tid) BY <1>3 DEF CodedFrom
<1>7. IsSent(e, e, pic, <<>>, {}) BY <1>3, <1>4, <1>5, <1>6 DEF IsSent, Uses
<1>8. IsSent(From(pic), From(pic), pic, <<>>, {}) BY <1>7 DEF e
<1> QED BY <1>1, <1>2, <1>8, SendKeeps

\* The decoder starts with the parameter sets of a sequence and no picture.
LEMMA InitIsIdle == Idle(StartedDec) /\ AllSent(InitEnc)
<1>1. AllSent(InitEnc)
  <2>1. NoParts \in [Parts -> {Off, Current}] BY DEF NoParts
  <2> QED BY <2>1, Constants DEF AllSent, InitEnc
<1>2. /\ StartedDec = [field \in DecFields |-> StartedDec[field]]
      /\ StartedDec.alf = NoSets /\ StartedDec.suffixApsNalus = <<>> /\ StartedDec.slices = <<>>
      /\ StartedDec.pictureUnitNals = <<>> /\ StartedDec.firstSliceInPicture = TRUE
      /\ StartedDec.accessUnitApsNals = [t \in ApsTypes |-> <<>>] /\ StartedDec.failed = FALSE
  BY DEF StartedDec, InitDec, DecFields
<1>3. IsAlf(NoSets) BY DEF IsAlf, NoSets
<1> QED BY <1>1, <1>2, <1>3 DEF Idle, IsRecord

\* The invariant holds always.
THEOREM InvariantHolds == Spec => []IInv
<1>1. Init => IInv
  <2> SUFFICES ASSUME Init PROVE IInv OBVIOUS
  <2>1. Idle(dec) /\ AllSent(enc) BY InitIsIdle DEF Init
  <2>2. dec.failed = FALSE BY <2>1 DEF Idle
  <2>3. ~InStep BY DEF InStep, Init
  <2>4. craApsReset \in BOOLEAN /\ highestTid \in Nat BY AlfParametersAssumption DEF Init
  <2> QED BY <2>1, <2>2, <2>3, <2>4 DEF IInv, Init
<1>2. IInv /\ [Next]_vars => IInv'
  <2> SUFFICES ASSUME IInv, [Next]_vars PROVE IInv' OBVIOUS
  <2>1. CASE CodePictureWithoutAlf BY <2>1, WithoutAlfKeeps
  <2>2. CASE CodePictureWithAlf BY <2>2, WithAlfKeeps
  <2>3. CASE UNCHANGED vars BY <2>3 DEF vars, IInv, InStep
  <2> QED BY <2>1, <2>2, <2>3 DEF Next
<1> QED BY <1>1, <1>2, PTL DEF Spec

\* The stream of the encoder's sets is decodable by every decoder that may start or
\* drop temporal layers anywhere.
THEOREM StreamIsDecodableAlways == Spec => []StreamIsDecodable
<1>1. IInv => StreamIsDecodable BY DEF IInv, StreamIsDecodable
<1> QED BY <1>1, InvariantHolds, PTL

\* Every decoder filters its pictures with the coefficients of the encoder.
THEOREM FiltersAsTheEncoderAlways == Spec => []FiltersAsTheEncoder
<1>1. IInv => FiltersAsTheEncoder BY DEF IInv, FiltersAsTheEncoder
<1> QED BY <1>1, InvariantHolds, PTL
=============================================================================
