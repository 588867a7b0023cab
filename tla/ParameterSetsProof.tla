-------------------------- MODULE ParameterSetsProof --------------------------
(***************************************************************************)
(* The three invariants of ParameterSets hold for every set of ids and     *)
(* contents and for picture units of any length.  All follow from one      *)
(* inductive invariant, whose heart is SetsInv: the maps of the decoder,   *)
(* once the suffix APSs that wait have been decoded, are the sets as they  *)
(* stand for the next picture unit.                                        *)
(***************************************************************************)
EXTENDS ParameterSets, Arithmetic
-----------------------------------------------------------------------------
(* The inductive invariant.                                                *)

DecFields ==
  {"sps", "pps", "alf", "lmcs", "suffixApsNalus", "accessUnitApsNals", "pictureUnitNals",
   "prevSliceSkipped", "firstSliceInPicture", "firstSliceInSequence", "decodedSliceInAU",
   "slices", "failed", "active", "last"}
UnitFields == {"phase", "skipped", "apss", "apsCount", "slices", "slice"}
Kinds == {"sps", "pps", "alf", "lmcs"}

\* The elements of a sequence and the sets of a map are of no particular set.
IsRecord(r, fields) == r = [f \in fields |-> r[f]]
IsSeq(s) == s \in Seq(Range(s))
IsMap(map) ==
  /\ map = [id \in DOMAIN map |-> [changed |-> map[id].changed, nalu |-> map[id].nalu]]
  /\ \A id \in DOMAIN map : map[id].changed \in BOOLEAN

\* An APS unit as the stream sends it.
IsApsUnit(u) == u = [id |-> u.id, aps |-> u.aps, nalu |-> u.nalu] /\ u.aps \in ApsTypes
                /\ u.nalu = [type |-> u.nalu.type, content |-> u.nalu.content]

HasFields(d) ==
  /\ IsRecord(d, DecFields)
  /\ d.accessUnitApsNals = [t \in ApsTypes |-> d.accessUnitApsNals[t]]

\* The maps of parameter sets, and no check has failed.
MapsOK(d) ==
  /\ HasFields(d)
  /\ \A kind \in Kinds : IsMap(d[kind])
  /\ \A t \in ApsTypes : IsSeq(d.accessUnitApsNals[t])
  /\ d.failed = FALSE

TypeOK ==
  /\ MapsOK(dec)
  /\ dec.pictureUnitNals \in Seq({"prefix", "slice", "suffix"})
  /\ IsSeq(dec.suffixApsNalus) /\ IsSeq(dec.slices)
  /\ dec.prevSliceSkipped \in BOOLEAN /\ dec.firstSliceInPicture \in BOOLEAN
  /\ dec.firstSliceInSequence \in BOOLEAN /\ dec.decodedSliceInAU \in BOOLEAN
  /\ IsRecord(unit, UnitFields)
  /\ unit.phase \in {"prefix", "slices", "suffix"} /\ unit.skipped \in BOOLEAN
  /\ \A u \in unit.apss : IsApsUnit(u)
  /\ IsRecord(inEffect, Kinds) /\ IsRecord(upcoming, Kinds)
  /\ IsSeq(expected)

\* The maps of the decoder hold these sets.
SameSets(d, sets) ==
  \A kind \in Kinds : /\ DOMAIN d[kind] = DOMAIN sets[kind]
                      /\ \A id \in DOMAIN sets[kind] : d[kind][id].nalu = sets[kind][id]

\* The ids that checkAuApsContent knows are those of APSs of the picture unit, and
\* the maps hold one that was sent under each.
NotedAreSent(d, apss) ==
  \A t \in ApsTypes : \A id \in Range(d.accessUnitApsNals[t]) :
    \E u \in apss : u.aps = t /\ u.id = id /\ id \in DOMAIN d[t] /\ d[t][id].nalu = u.nalu

\* Where the picture unit is, and whether the decoder has started on it.
InSlices == unit.phase \in {"slices", "suffix"}
Decoded == InSlices /\ ~unit.skipped
Skipped == InSlices /\ unit.skipped
Started == InSlices \/ dec.firstSliceInPicture

\* The stream is legal.
PpsHaveSps(sets) == \A id \in DOMAIN sets.pps : sets.pps[id].sps \in DOMAIN sets.sps

\* APSs of a picture unit agree, PPSs have their SPS, and only a suffix APS makes the
\* upcoming sets differ.
StreamInv ==
  /\ \A u, v \in unit.apss : u.aps = v.aps /\ u.id = v.id /\ u.nalu.type = v.nalu.type => u = v
  /\ PpsHaveSps(inEffect) /\ PpsHaveSps(upcoming)
  /\ unit.phase # "suffix" => upcoming = inEffect

\* The flags of the decoder tell where the picture unit is.
FlagsInv ==
  /\ InSlices => /\ dec.prevSliceSkipped = unit.skipped
                 /\ dec.firstSliceInPicture = unit.skipped
                 /\ dec.decodedSliceInAU
  /\ Decoded => ~dec.firstSliceInSequence
  /\ unit.phase = "prefix" /\ ~dec.firstSliceInPicture =>
       unit = StartedUnit /\ dec.firstSliceInSequence /\ dec.decodedSliceInAU

\* The noted units are those sent in this phase, in order.
OrderInv ==
  /\ ApsInOrder(dec.pictureUnitNals)
  /\ unit.phase = "prefix" => \A i \in DOMAIN dec.pictureUnitNals : dec.pictureUnitNals[i] = "prefix"
  /\ unit.phase = "slices" => \A i \in DOMAIN dec.pictureUnitNals : dec.pictureUnitNals[i] # "suffix"

\* Which APSs wait; a skipped picture leaves nothing noted.
SuffixInv ==
  /\ unit.phase # "suffix" \/ unit.skipped => dec.suffixApsNalus = <<>>
  /\ \A i \in DOMAIN dec.suffixApsNalus :
       dec.suffixApsNalus[i] \in unit.apss /\ dec.suffixApsNalus[i].nalu.type = "suffix"
  /\ Skipped => /\ dec.accessUnitApsNals = [t \in ApsTypes |-> <<>>]
                /\ dec.pictureUnitNals = <<>>

\* The decoder after the APSs that wait.
Finished == DecodeApss(dec, dec.suffixApsNalus)

\* Both sides have the same sets: those in effect now, and those upcoming once the
\* APSs that wait are decoded.
SetsInv ==
  /\ ~Skipped => SameSets(dec, inEffect)
  /\ MapsOK(Finished) /\ SameSets(Finished, upcoming)
  /\ Started => NotedAreSent(Finished, unit.apss)

\* The slices of a picture point to sets of the maps, the first one's PPS, SPS and
\* LMCS set are shared by all, and none of them was replaced since.
SlicesInv ==
  /\ ~Decoded => dec.slices = <<>>
  /\ Decoded =>
       LET first == unit.slice[1] IN
       /\ dec.slices # <<>>
       /\ first.pps \in DOMAIN dec.pps /\ first.lmcs \subseteq DOMAIN dec.lmcs
       /\ dec.slices[1].pps = dec.pps[first.pps].nalu
       /\ dec.slices[1].sps = dec.sps[dec.slices[1].pps.sps].nalu
       /\ dec.slices[1].lmcs = [id \in first.lmcs |-> dec.lmcs[id].nalu]
       /\ ~dec.pps[first.pps].changed /\ ~dec.sps[dec.slices[1].pps.sps].changed
       /\ \A id \in DOMAIN dec.alf : ~dec.alf[id].changed
       /\ \A id \in first.lmcs : ~dec.lmcs[id].changed
  /\ \A i \in DOMAIN dec.slices, t \in ApsTypes : \A id \in DOMAIN dec.slices[i][t] :
       id \in DOMAIN dec[t] /\ dec.slices[i][t][id] = dec[t][id].nalu
  /\ DecodesWithTheSetsInEffect

IInv == TypeOK /\ StreamInv /\ FlagsInv /\ OrderInv /\ SuffixInv /\ SetsInv /\ SlicesInv
-----------------------------------------------------------------------------
(* Sequences and maps.                                                     *)

\* Append, for a sequence whose elements are of no particular set.
LEMMA AppendIsSeq ==
  ASSUME NEW s, IsSeq(s), NEW e
  PROVE  /\ IsSeq(Append(s, e)) /\ DOMAIN s = 1 .. Len(s) /\ Len(s) \in Nat
         /\ Len(Append(s, e)) = Len(s) + 1
         /\ DOMAIN Append(s, e) = 1 .. Len(s) + 1
         /\ \A i \in 1 .. Len(s) : Append(s, e)[i] = s[i]
         /\ Append(s, e)[Len(s) + 1] = e
         /\ Range(Append(s, e)) = Range(s) \union {e}
<1> DEFINE S == Range(s) \union {e}
           t == Append(s, e)
<1>1. s \in Seq(S) /\ e \in S /\ Len(s) \in Nat /\ DOMAIN s = 1 .. Len(s)
  BY DEF IsSeq
<1>2. /\ t \in Seq(S) /\ Len(t) = Len(s) + 1 /\ DOMAIN t = 1 .. Len(s) + 1
      /\ \A i \in 1 .. Len(s) : t[i] = s[i]
      /\ t[Len(s) + 1] = e
  BY <1>1
<1>3. Range(t) = S
  BY <1>1, <1>2 DEF Range
<1> QED BY <1>1, <1>2, <1>3 DEF IsSeq

\* The empty sequence.
LEMMA EmptyIsSeq ==
  IsSeq(<<>>) /\ Len(<<>>) = 0 /\ DOMAIN <<>> = {} /\ Range(<<>>) = {}
  BY DEF IsSeq, Range

\* What storePS leaves in the map: the new unit under its id, the others as they were.
Stored(before, after, id, nalu) ==
  /\ IsMap(after) /\ DOMAIN after = DOMAIN before \union {id}
  /\ after[id].nalu = nalu
  /\ \A other \in DOMAIN before : other # id => after[other] = before[other]

\* StorePS leaves the new unit in the map, also where it keeps the map: then the
\* unit was there before.
LEMMA StorePSStores ==
  ASSUME NEW map, IsMap(map), NEW id, NEW nalu
  PROVE  Stored(map, StorePS(map, id, nalu), id, nalu)
<1>1. ASSUME NEW changed \in BOOLEAN
      PROVE  Stored(map, Put(map, id, changed, nalu), id, nalu)
  BY <1>1 DEF IsMap, Put, With, Stored
<1>2. CASE StorePS(map, id, nalu) = map
  <2>1. id \in DOMAIN map /\ map[id].nalu = nalu
    BY <1>2 DEF StorePS, Replaces, Known, Put, With, IsMap
  <2> QED BY <1>2, <2>1 DEF Stored
<1> QED BY <1>1, <1>2 DEF StorePS

\* What ClearChangedFlags leaves.
Cleared(map, cleared, ids) ==
  /\ IsMap(cleared) /\ DOMAIN cleared = DOMAIN map
  /\ \A id \in DOMAIN map : /\ cleared[id].nalu = map[id].nalu
                            /\ id \in ids => ~cleared[id].changed

\* ClearChangedFlags keeps the sets and takes the flags of the ids down.
LEMMA ClearChangedFlagsClears ==
  ASSUME NEW map, IsMap(map), NEW ids
  PROVE  Cleared(map, ClearChangedFlags(map, ids), ids)
<1> DEFINE cleared == ClearChangedFlags(map, ids)
<1>1. /\ cleared = [id \in DOMAIN map |-> cleared[id]] /\ DOMAIN cleared = DOMAIN map
  BY DEF ClearChangedFlags
<1>2. ASSUME NEW id \in DOMAIN map
      PROVE  /\ cleared[id] = [changed |-> cleared[id].changed, nalu |-> cleared[id].nalu]
             /\ cleared[id].nalu = map[id].nalu
             /\ cleared[id].changed = (map[id].changed /\ id \notin ids)
  <2>1. cleared[id] = [map[id] EXCEPT !.changed = @ /\ id \notin ids]
    BY DEF ClearChangedFlags
  <2>2. map[id] = [changed |-> map[id].changed, nalu |-> map[id].nalu]
    BY DEF IsMap
  <2> QED BY <2>1, <2>2
<1>3. \A id \in DOMAIN map : map[id].changed \in BOOLEAN
  BY DEF IsMap
<1>4. \A id \in DOMAIN map : cleared[id].changed \in BOOLEAN
  BY <1>2, Zenon
<1>5. \A id \in DOMAIN map : cleared[id] = [changed |-> cleared[id].changed, nalu |-> cleared[id].nalu]
  BY <1>2
<1>6. IsMap(cleared)
  BY <1>1, <1>4, <1>5 DEF IsMap
<1>7. \A id \in DOMAIN map : cleared[id].nalu = map[id].nalu
  BY <1>2
<1>8. \A id \in DOMAIN map : id \in ids => ~cleared[id].changed
  BY <1>2, Zenon
<1> QED BY <1>1, <1>6, <1>7, <1>8 DEF Cleared

-----------------------------------------------------------------------------
(* One APS.                                                                *)

\* The fields that an APS may change, and those that it depends on.
ApsFields == {"alf", "lmcs", "accessUnitApsNals", "failed", "last"}
\* What DecodeAPS depends on.
AgreedFields == {"sps", "pps", "alf", "lmcs", "accessUnitApsNals", "prevSliceSkipped", "failed"}

Agree(d, e) == \A f \in AgreedFields : d[f] = e[f]

\* The fields that DecodeAPS writes, and what it writes there.
LEMMA DecodeAPSFields ==
  ASSUME NEW d, HasFields(d), NEW u, u.aps \in ApsTypes
  PROVE  /\ HasFields(DecodeAPS(d, u))
         /\ \A f \in DecFields \ ApsFields : DecodeAPS(d, u)[f] = d[f]
         /\ \A t \in ApsTypes :
              DecodeAPS(d, u)[t] = IF t = u.aps THEN StorePS(d[t], u.id, u.nalu) ELSE d[t]
         /\ DecodeAPS(d, u).accessUnitApsNals =
              [t \in ApsTypes |-> IF t = u.aps THEN ApsIdsAfter(d, u) ELSE d.accessUnitApsNals[t]]
         /\ DecodeAPS(d, u).failed =
              (d.failed \/ ~ApsContentAgrees(d[u.aps], u.id, u.nalu, d.accessUnitApsNals[u.aps]))
  BY DEF HasFields, IsRecord, DecFields, ApsFields, DecodeAPS, Fail, ApsTypes

\* The ids of the access unit gain that of the APS; behind a skipped slice there
\* are none and none is added.
LEMMA ApsIdsAfterAdds ==
  ASSUME NEW d, NEW u, IsSeq(d.accessUnitApsNals[u.aps])
  PROVE  /\ ~(u.nalu.type = "suffix" /\ d.prevSliceSkipped) =>
              /\ IsSeq(ApsIdsAfter(d, u))
              /\ Range(ApsIdsAfter(d, u)) = Range(d.accessUnitApsNals[u.aps]) \union {u.id}
         /\ u.nalu.type = "suffix" /\ d.prevSliceSkipped /\ d.accessUnitApsNals[u.aps] = <<>> =>
              ApsIdsAfter(d, u) = <<>>
<1> DEFINE ids == d.accessUnitApsNals[u.aps]
<1>1. ASSUME ~(u.nalu.type = "suffix" /\ d.prevSliceSkipped)
      PROVE  IsSeq(ApsIdsAfter(d, u)) /\ Range(ApsIdsAfter(d, u)) = Range(ids) \union {u.id}
  <2>1. CASE u.id \in Range(ids)
    BY <1>1, <2>1 DEF ApsIdsAfter
  <2>2. CASE u.id \notin Range(ids)
    BY <1>1, <2>2, AppendIsSeq DEF ApsIdsAfter
  <2> QED BY <2>1, <2>2
<1>2. ASSUME u.nalu.type = "suffix", d.prevSliceSkipped, ids = <<>>
      PROVE  ApsIdsAfter(d, u) = <<>>
  <2>1. ApsIdsAfter(d, u) = Front(<<u.id>>)
    BY <1>2, EmptyIsSeq DEF ApsIdsAfter
  <2> QED BY <2>1 DEF Front
<1> QED BY <1>1, <1>2

\* What DecodeAPS does to the fields it depends on, these fields determine.
LEMMA DecodeAPSAgrees ==
  ASSUME NEW d, HasFields(d), NEW e, HasFields(e), Agree(d, e), NEW u, u.aps \in ApsTypes
  PROVE  Agree(DecodeAPS(d, u), DecodeAPS(e, u))
<1> DEFINE d1 == DecodeAPS(d, u)
           e1 == DecodeAPS(e, u)
<1>1. /\ \A t \in ApsTypes : d[t] = e[t]
      /\ d.accessUnitApsNals = e.accessUnitApsNals
      /\ d.prevSliceSkipped = e.prevSliceSkipped /\ d.failed = e.failed
      /\ d.sps = e.sps /\ d.pps = e.pps
  BY DEF Agree, AgreedFields, ApsTypes
<1>2. ApsIdsAfter(d, u) = ApsIdsAfter(e, u)
  BY <1>1 DEF ApsIdsAfter
<1>3. /\ \A t \in ApsTypes : d1[t] = IF t = u.aps THEN StorePS(d[t], u.id, u.nalu) ELSE d[t]
      /\ \A t \in ApsTypes : e1[t] = IF t = u.aps THEN StorePS(e[t], u.id, u.nalu) ELSE e[t]
      /\ d1.accessUnitApsNals =
           [t \in ApsTypes |-> IF t = u.aps THEN ApsIdsAfter(d, u) ELSE d.accessUnitApsNals[t]]
      /\ e1.accessUnitApsNals =
           [t \in ApsTypes |-> IF t = u.aps THEN ApsIdsAfter(e, u) ELSE e.accessUnitApsNals[t]]
      /\ d1.failed = (d.failed \/ ~ApsContentAgrees(d[u.aps], u.id, u.nalu, d.accessUnitApsNals[u.aps]))
      /\ e1.failed = (e.failed \/ ~ApsContentAgrees(e[u.aps], u.id, u.nalu, e.accessUnitApsNals[u.aps]))
  BY DecodeAPSFields
<1>4. /\ \A t \in ApsTypes : d1[t] = e1[t]
      /\ d1.accessUnitApsNals = e1.accessUnitApsNals
      /\ d1.failed = e1.failed
  <2> HIDE DEF d1, e1
  <2> QED BY <1>1, <1>2, <1>3
<1>5. /\ d1.prevSliceSkipped = d.prevSliceSkipped /\ d1.sps = d.sps /\ d1.pps = d.pps
      /\ e1.prevSliceSkipped = e.prevSliceSkipped /\ e1.sps = e.sps /\ e1.pps = e.pps
  <2>1. \A f \in DecFields \ ApsFields : d1[f] = d[f] /\ e1[f] = e[f]
    BY DecodeAPSFields
  <2> HIDE DEF d1, e1
  <2> QED BY <2>1 DEF DecFields, ApsFields
<1> HIDE DEF d1, e1
<1>6. d1["alf"] = e1["alf"] /\ d1["lmcs"] = e1["lmcs"]
  BY <1>4 DEF ApsTypes
<1>7. Agree(d1, e1)
  BY <1>1, <1>4, <1>5, <1>6 DEF Agree, AgreedFields
<1> QED BY <1>7 DEF d1, e1

-----------------------------------------------------------------------------
(* Several APSs: the loop of processSuffixApsNalus.                        *)

\* The states between the rounds of DecodeApss.
Rounds(after, d, units, n) ==
  after = [k \in 0 .. n |-> IF k = 0 THEN d ELSE DecodeAPS(after[k - 1], units[k])]

\* The recursive function of DecodeApss exists.
LEMMA RoundsExist ==
  ASSUME NEW d, NEW units
  PROVE  \A n \in Nat : \E after : Rounds(after, d, units, n)
<1> DEFINE S == {n \in Nat : \E after : Rounds(after, d, units, n)}
<1>1. 0 \in S
  <2>1. Rounds([k \in 0 .. 0 |-> d], d, units, 0)
    BY DEF Rounds
  <2> QED BY <2>1
<1>2. ASSUME NEW n \in S PROVE n + 1 \in S
  <2>1. PICK before : Rounds(before, d, units, n) OBVIOUS
  <2> DEFINE after ==
        [k \in 0 .. n + 1 |-> IF k = n + 1 THEN DecodeAPS(before[n], units[n + 1]) ELSE before[k]]
  <2>2. ASSUME NEW k \in 0 .. n + 1
        PROVE  after[k] = IF k = 0 THEN d ELSE DecodeAPS(after[k - 1], units[k])
    <3>1. CASE k = 0 BY <2>1, <3>1 DEF Rounds
    <3>2. CASE k = n + 1 BY <3>2
    <3>3. CASE k # 0 /\ k # n + 1
      <4>1. k \in 0 .. n /\ k - 1 \in 0 .. n BY <3>3
      <4> QED BY <4>1, <2>1, <3>3 DEF Rounds
    <3> QED BY <3>1, <3>2, <3>3
  <2>3. after = [k \in 0 .. n + 1 |-> after[k]] OBVIOUS
  <2>4. Rounds(after, d, units, n + 1)
    <3> HIDE DEF after
    <3> QED BY <2>2, <2>3 DEF Rounds
  <2> QED BY <2>4
<1>3. S = Nat
  <2> HIDE DEF S
  <2>1. S \in SUBSET Nat BY DEF S
  <2> QED BY <1>1, <1>2, <2>1, NatSetInduction
<1> QED BY <1>3

\* DecodeApss is the last of these rounds.
LEMMA DecodeApssRounds ==
  ASSUME NEW d, NEW units, Len(units) \in Nat
  PROVE  \E after : Rounds(after, d, units, Len(units)) /\ DecodeApss(d, units) = after[Len(units)]
<1> DEFINE after == CHOOSE after : Rounds(after, d, units, Len(units))
<1>1. DecodeApss(d, units) = after[Len(units)]
  BY DEF DecodeApss, Rounds
<1>2. Rounds(after, d, units, Len(units))
  BY RoundsExist
<1> QED BY <1>1, <1>2

\* Two decoders that agree still agree after rounds with the same units, and the
\* other fields are left alone.
SameRound(d, e, d1, e1) ==
  /\ HasFields(d1) /\ HasFields(e1) /\ Agree(d1, e1)
  /\ \A field \in DecFields \ ApsFields : d1[field] = d[field] /\ e1[field] = e[field]

\* Induction over the rounds: two decoders that agree, fed with the same units,
\* agree after every round, and fields that are not of an APS stay as they were.
LEMMA RoundsAgree ==
  ASSUME NEW d, HasFields(d), NEW e, HasFields(e), Agree(d, e),
         NEW us, NEW vs, NEW n \in Nat,
         \A i \in 1 .. n : us[i] = vs[i], \A i \in 1 .. n : us[i].aps \in ApsTypes,
         NEW f, Rounds(f, d, us, n), NEW g, NEW m \in Nat, n <= m, Rounds(g, e, vs, m)
  PROVE  SameRound(d, e, f[n], g[n])
<1> DEFINE S == {k \in Nat : k <= n => SameRound(d, e, f[k], g[k])}
<1>1. 0 \in S
  <2>1. f[0] = d /\ g[0] = e BY DEF Rounds
  <2> QED BY <2>1 DEF SameRound
<1>2. ASSUME NEW k \in S PROVE k + 1 \in S
  <2> SUFFICES ASSUME k + 1 <= n PROVE SameRound(d, e, f[k + 1], g[k + 1])
    OBVIOUS
  <2>1. /\ HasFields(f[k]) /\ HasFields(g[k]) /\ Agree(f[k], g[k])
        /\ \A field \in DecFields \ ApsFields : f[k][field] = d[field] /\ g[k][field] = e[field]
    BY DEF SameRound
  <2>2. /\ f[k + 1] = DecodeAPS(f[k], us[k + 1]) /\ g[k + 1] = DecodeAPS(g[k], us[k + 1])
        /\ us[k + 1].aps \in ApsTypes
    <3>1. k + 1 \in 0 .. n /\ k + 1 \in 0 .. m /\ k + 1 # 0 /\ (k + 1) - 1 = k OBVIOUS
    <3>2. f[k + 1] = DecodeAPS(f[k], us[k + 1])
      BY <3>1 DEF Rounds
    <3>3. g[k + 1] = DecodeAPS(g[k], vs[k + 1])
      BY <3>1 DEF Rounds
    <3> QED BY <3>1, <3>2, <3>3
  <2>3. Agree(f[k + 1], g[k + 1])
    BY <2>1, <2>2, DecodeAPSAgrees
  <2>4. /\ HasFields(f[k + 1]) /\ HasFields(g[k + 1])
        /\ \A field \in DecFields \ ApsFields : f[k + 1][field] = f[k][field] /\ g[k + 1][field] = g[k][field]
    <3>1. /\ HasFields(DecodeAPS(f[k], us[k + 1])) /\ HasFields(DecodeAPS(g[k], us[k + 1]))
          /\ \A field \in DecFields \ ApsFields : DecodeAPS(f[k], us[k + 1])[field] = f[k][field]
          /\ \A field \in DecFields \ ApsFields : DecodeAPS(g[k], us[k + 1])[field] = g[k][field]
      BY <2>1, <2>2, DecodeAPSFields
    <3> QED BY <2>2, <3>1
  <2> QED BY <2>1, <2>3, <2>4 DEF SameRound
<1>3. S = Nat
  <2> HIDE DEF S
  <2>1. S \in SUBSET Nat BY DEF S
  <2> QED BY <1>1, <1>2, <2>1, NatSetInduction
<1> QED BY <1>3

\* No waiting unit, no change.
LEMMA DecodeApssNone ==
  ASSUME NEW d PROVE DecodeApss(d, <<>>) = d
<1>1. Len(<<>>) = 0 OBVIOUS
<1>2. PICK after : Rounds(after, d, <<>>, 0) /\ DecodeApss(d, <<>>) = after[0]
  BY <1>1, DecodeApssRounds
<1>3. after[0] = d BY <1>2 DEF Rounds
<1> QED BY <1>2, <1>3

\* APSs do not touch the other fields, and what they do depends on the agreed ones.
LEMMA DecodeApssAgree ==
  ASSUME NEW d, HasFields(d), NEW e, HasFields(e), Agree(d, e),
         NEW units, IsSeq(units), \A i \in DOMAIN units : units[i].aps \in ApsTypes
  PROVE  SameRound(d, e, DecodeApss(d, units), DecodeApss(e, units))
<1> DEFINE n == Len(units)
<1>1. n \in Nat /\ DOMAIN units = 1 .. n
  BY AppendIsSeq
<1>2. PICK f : Rounds(f, d, units, n) /\ DecodeApss(d, units) = f[n]
  BY <1>1, DecodeApssRounds
<1>3. PICK g : Rounds(g, e, units, n) /\ DecodeApss(e, units) = g[n]
  BY <1>1, DecodeApssRounds
<1> HIDE DEF n
<1>4. \A i \in 1 .. n : units[i].aps \in ApsTypes
  BY <1>1
<1>5. SameRound(d, e, f[n], g[n])
  BY <1>1, <1>2, <1>3, <1>4, RoundsAgree
<1> QED BY <1>2, <1>3, <1>5

\* One more unit is one more round.
LEMMA DecodeApssAppend ==
  ASSUME NEW d, HasFields(d), NEW e, HasFields(e), Agree(d, e),
         NEW units, IsSeq(units), \A i \in DOMAIN units : units[i].aps \in ApsTypes,
         NEW u, u.aps \in ApsTypes
  PROVE  \E h : /\ HasFields(h) /\ Agree(DecodeApss(d, units), h)
                /\ DecodeApss(e, Append(units, u)) = DecodeAPS(h, u)
<1> DEFINE n == Len(units)
           more == Append(units, u)
<1>1. /\ n \in Nat /\ DOMAIN units = 1 .. n /\ Len(more) = n + 1
      /\ \A i \in 1 .. n : more[i] = units[i]
      /\ more[n + 1] = u
  BY AppendIsSeq
<1> HIDE DEF n, more
<1>2. PICK f : Rounds(f, d, units, n) /\ DecodeApss(d, units) = f[n]
  BY <1>1, DecodeApssRounds DEF n
<1>3. PICK g : Rounds(g, e, more, n + 1) /\ DecodeApss(e, more) = g[n + 1]
  <2>1. Len(more) \in Nat BY <1>1
  <2> QED BY <1>1, <2>1, DecodeApssRounds
<1>4. HasFields(g[n]) /\ Agree(f[n], g[n])
  <2>1. n <= n + 1 /\ n + 1 \in Nat BY <1>1
  <2>2. /\ \A i \in 1 .. n : units[i] = more[i]
        /\ \A i \in 1 .. n : units[i].aps \in ApsTypes
    BY <1>1
  <2>3. SameRound(d, e, f[n], g[n])
    BY <1>1, <1>2, <1>3, <2>1, <2>2, RoundsAgree
  <2> QED BY <2>3 DEF SameRound
<1>5. g[n + 1] = DecodeAPS(g[n], u)
  <2>1. n + 1 \in 0 .. n + 1 /\ n + 1 # 0 /\ (n + 1) - 1 = n BY <1>1
  <2> QED BY <1>1, <1>3, <2>1 DEF Rounds
<1> QED BY <1>2, <1>3, <1>4, <1>5 DEF more

-----------------------------------------------------------------------------
(* What one more set does to the invariant.                                *)

\* One more set, on the side of the stream.
LEMMA InEffectIsRecord ==
  ASSUME NEW sets, IsRecord(sets, Kinds), NEW kind \in Kinds, NEW id, NEW nalu
  PROVE  /\ IsRecord(InEffect(sets, kind, id, nalu), Kinds)
         /\ InEffect(sets, kind, id, nalu)[kind] = With(sets[kind], id, nalu)
         /\ \A other \in Kinds : other # kind => InEffect(sets, kind, id, nalu)[other] = sets[other]
  BY DEF IsRecord, InEffect

\* A set that the stream puts in effect and the decoder stores leaves both with the
\* same sets.
LEMMA StoreKeepsSameSets ==
  ASSUME NEW d, NEW sets, SameSets(d, sets), IsRecord(sets, Kinds),
         NEW kind \in Kinds, IsMap(d[kind]), NEW id, NEW nalu,
         NEW e, e[kind] = StorePS(d[kind], id, nalu),
         \A other \in Kinds : other # kind => e[other] = d[other]
  PROVE  SameSets(e, InEffect(sets, kind, id, nalu))
<1> DEFINE after == InEffect(sets, kind, id, nalu)
<1>1. /\ after[kind] = With(sets[kind], id, nalu)
      /\ \A other \in Kinds : other # kind => after[other] = sets[other]
  BY InEffectIsRecord
<1>2. /\ DOMAIN e[kind] = DOMAIN d[kind] \union {id}
      /\ e[kind][id].nalu = nalu
      /\ \A other \in DOMAIN d[kind] : other # id => e[kind][other] = d[kind][other]
  <2>1. Stored(d[kind], e[kind], id, nalu) BY StorePSStores
  <2> QED BY <2>1 DEF Stored
<1> HIDE DEF after
<1>3. /\ DOMAIN after[kind] = DOMAIN sets[kind] \union {id}
      /\ after[kind][id] = nalu
      /\ \A other \in DOMAIN sets[kind] : other # id => after[kind][other] = sets[kind][other]
  BY <1>1 DEF With
<1>4. ASSUME NEW k \in Kinds
      PROVE  /\ DOMAIN e[k] = DOMAIN after[k]
             /\ \A i \in DOMAIN after[k] : e[k][i].nalu = after[k][i]
  <2>1. /\ DOMAIN d[k] = DOMAIN sets[k]
        /\ \A i \in DOMAIN sets[k] : d[k][i].nalu = sets[k][i]
    BY DEF SameSets
  <2>2. CASE k = kind BY <1>2, <1>3, <2>1, <2>2
  <2>3. CASE k # kind BY <1>1, <2>1, <2>3
  <2> QED BY <2>2, <2>3
<1> QED BY <1>4 DEF SameSets, after

\* An APS that shares unit type, APS type and id with one sent is that one.
AgreeWith(apss, u) ==
  \A v \in apss : v.aps = u.aps /\ v.id = u.id /\ v.nalu.type = u.nalu.type => v = u

\* checkAuApsContent does not fail, and the ids of the access unit stay those of
\* APSs that were sent.
LEMMA DecodeAPSKeeps ==
  ASSUME NEW d, MapsOK(d), NEW sets, IsRecord(sets, Kinds), SameSets(d, sets),
         NEW apss, NotedAreSent(d, apss), NEW u, IsApsUnit(u),
         AgreeWith(apss, u),
         u.nalu.type = "suffix" /\ d.prevSliceSkipped => d.accessUnitApsNals[u.aps] = <<>>
  PROVE  /\ MapsOK(DecodeAPS(d, u))
         /\ SameSets(DecodeAPS(d, u), InEffect(sets, u.aps, u.id, u.nalu))
         /\ NotedAreSent(DecodeAPS(d, u), apss \union {u})
<1> DEFINE e == DecodeAPS(d, u)
<1>1. /\ HasFields(d) /\ u.aps \in ApsTypes /\ u.aps \in Kinds /\ IsMap(d[u.aps])
      /\ IsSeq(d.accessUnitApsNals[u.aps]) /\ d.failed = FALSE
      /\ \A kind \in Kinds : IsMap(d[kind])
      /\ \A t \in ApsTypes : IsSeq(d.accessUnitApsNals[t])
  BY DEF MapsOK, IsApsUnit, ApsTypes, Kinds
<1>2. /\ HasFields(e)
      /\ \A f \in DecFields \ ApsFields : e[f] = d[f]
      /\ \A t \in ApsTypes : e[t] = IF t = u.aps THEN StorePS(d[t], u.id, u.nalu) ELSE d[t]
      /\ e.accessUnitApsNals =
           [t \in ApsTypes |-> IF t = u.aps THEN ApsIdsAfter(d, u) ELSE d.accessUnitApsNals[t]]
      /\ e.failed = (d.failed \/ ~ApsContentAgrees(d[u.aps], u.id, u.nalu, d.accessUnitApsNals[u.aps]))
  BY <1>1, DecodeAPSFields
<1> HIDE DEF e
<1>3. /\ e[u.aps] = StorePS(d[u.aps], u.id, u.nalu)
      /\ \A kind \in Kinds : kind # u.aps => e[kind] = d[kind]
  <2>1. e["sps"] = d["sps"] /\ e["pps"] = d["pps"]
    BY <1>2 DEF DecFields, ApsFields
  <2> QED BY <1>1, <1>2, <2>1 DEF Kinds, ApsTypes
<1>4. SameSets(e, InEffect(sets, u.aps, u.id, u.nalu))
  BY <1>1, <1>3, StoreKeepsSameSets
<1>5. ApsContentAgrees(d[u.aps], u.id, u.nalu, d.accessUnitApsNals[u.aps])
  <2> SUFFICES ASSUME u.id \in Range(d.accessUnitApsNals[u.aps])
               PROVE  /\ u.id \in DOMAIN d[u.aps]
                      /\ d[u.aps][u.id].nalu.type = u.nalu.type =>
                           d[u.aps][u.id].nalu.content = u.nalu.content
    BY DEF ApsContentAgrees, Known, GetPS
  <2>1. PICK v \in apss : /\ v.aps = u.aps /\ v.id = u.id /\ u.id \in DOMAIN d[u.aps]
                          /\ d[u.aps][u.id].nalu = v.nalu
    BY <1>1 DEF NotedAreSent
  <2> QED BY <2>1 DEF AgreeWith
<1>6. /\ IsSeq(e.accessUnitApsNals[u.aps])
      /\ Range(e.accessUnitApsNals[u.aps]) \subseteq Range(d.accessUnitApsNals[u.aps]) \union {u.id}
  <2>1. e.accessUnitApsNals[u.aps] = ApsIdsAfter(d, u)
    BY <1>1, <1>2
  <2>2. CASE u.nalu.type = "suffix" /\ d.prevSliceSkipped
    BY <1>1, <2>1, <2>2, ApsIdsAfterAdds, EmptyIsSeq
  <2>3. CASE ~(u.nalu.type = "suffix" /\ d.prevSliceSkipped)
    BY <1>1, <2>1, <2>3, ApsIdsAfterAdds
  <2> QED BY <2>2, <2>3
<1>7. MapsOK(e)
  <2>1. e.failed = FALSE BY <1>1, <1>2, <1>5
  <2>2. IsMap(e[u.aps])
    <3>1. Stored(d[u.aps], e[u.aps], u.id, u.nalu) BY <1>1, <1>3, StorePSStores
    <3> QED BY <3>1 DEF Stored
  <2>3. \A kind \in Kinds : IsMap(e[kind]) BY <1>1, <1>3, <2>2
  <2>4. \A t \in ApsTypes : IsSeq(e.accessUnitApsNals[t]) BY <1>1, <1>2, <1>6
  <2> QED BY <1>2, <2>1, <2>3, <2>4 DEF MapsOK
<1>8. NotedAreSent(e, apss \union {u})
  <2> SUFFICES ASSUME NEW t \in ApsTypes, NEW id \in Range(e.accessUnitApsNals[t])
               PROVE  \E v \in apss \union {u} :
                        v.aps = t /\ v.id = id /\ id \in DOMAIN e[t] /\ e[t][id].nalu = v.nalu
    BY DEF NotedAreSent
  <2>1. /\ DOMAIN e[u.aps] = DOMAIN d[u.aps] \union {u.id} /\ e[u.aps][u.id].nalu = u.nalu
        /\ \A other \in DOMAIN d[u.aps] : other # u.id => e[u.aps][other] = d[u.aps][other]
    <3>1. Stored(d[u.aps], e[u.aps], u.id, u.nalu) BY <1>1, <1>3, StorePSStores
    <3> QED BY <3>1 DEF Stored
  <2>2. CASE t = u.aps /\ id = u.id
    BY <2>1, <2>2
  <2>3. CASE t # u.aps \/ id # u.id
    <3>1. id \in Range(d.accessUnitApsNals[t])
      BY <1>2, <1>6, <2>3
    <3>2. PICK v \in apss : v.aps = t /\ v.id = id /\ id \in DOMAIN d[t] /\ d[t][id].nalu = v.nalu
      BY <3>1 DEF NotedAreSent
    <3>3. id \in DOMAIN e[t] /\ e[t][id] = d[t][id]
      BY <1>2, <2>1, <2>3, <3>2
    <3> QED BY <3>2, <3>3
  <2> QED BY <2>2, <2>3
<1> QED BY <1>4, <1>7, <1>8 DEF e

\* What the invariant says of maps and noted ids depends on the agreed fields only.
LEMMA AgreeKeeps ==
  ASSUME NEW d, MapsOK(d), NEW e, HasFields(e), Agree(d, e)
  PROVE  /\ MapsOK(e)
         /\ \A sets : SameSets(d, sets) => SameSets(e, sets)
         /\ \A apss : NotedAreSent(d, apss) => NotedAreSent(e, apss)
<1>1. /\ \A kind \in Kinds : e[kind] = d[kind]
      /\ \A t \in ApsTypes : e[t] = d[t]
      /\ e.accessUnitApsNals = d.accessUnitApsNals /\ e.failed = d.failed
  BY DEF Agree, AgreedFields, Kinds, ApsTypes
<1>2. MapsOK(e)
  BY <1>1 DEF MapsOK
<1>3. ASSUME NEW sets, SameSets(d, sets) PROVE SameSets(e, sets)
  BY <1>1, <1>3 DEF SameSets
<1>4. ASSUME NEW apss, NotedAreSent(d, apss) PROVE NotedAreSent(e, apss)
  BY <1>1, <1>4 DEF NotedAreSent
<1> QED BY <1>2, <1>3, <1>4

\* Every PPS of the stream refers to an SPS of the stream, one more set or not.
LEMMA PpsHaveSpsKept ==
  ASSUME NEW sets, IsRecord(sets, Kinds), PpsHaveSps(sets), NEW kind \in Kinds, NEW id, NEW nalu,
         kind = "pps" => nalu.sps \in DOMAIN sets.sps
  PROVE  PpsHaveSps(InEffect(sets, kind, id, nalu))
<1> DEFINE after == InEffect(sets, kind, id, nalu)
<1>1. /\ after[kind] = With(sets[kind], id, nalu)
      /\ \A other \in Kinds : other # kind => after[other] = sets[other]
  BY InEffectIsRecord
<1> HIDE DEF after
<1>2. DOMAIN sets.sps \subseteq DOMAIN after.sps
  <2>1. CASE kind = "sps" BY <1>1, <2>1 DEF With
  <2>2. CASE kind # "sps" BY <1>1, <2>2 DEF Kinds
  <2> QED BY <2>1, <2>2
<1>3. ASSUME NEW i \in DOMAIN after.pps PROVE after.pps[i].sps \in DOMAIN sets.sps
  <2>1. CASE kind = "pps" BY <1>1, <2>1 DEF With, PpsHaveSps
  <2>2. CASE kind # "pps" BY <1>1, <2>2 DEF Kinds, PpsHaveSps
  <2> QED BY <2>1, <2>2
<1>4. PpsHaveSps(after) BY <1>2, <1>3 DEF PpsHaveSps
<1> QED BY <1>4 DEF after

-----------------------------------------------------------------------------
(* Sets in front of the slices.                                            *)

\* In front of the slices nothing waits, and both sides have the same sets.
LEMMA InPrefixFacts ==
  ASSUME IInv, unit.phase = "prefix"
  PROVE  /\ ~InSlices /\ ~Decoded /\ ~Skipped
         /\ dec.suffixApsNalus = <<>> /\ Finished = dec /\ upcoming = inEffect
         /\ SameSets(dec, inEffect)
         /\ dec.firstSliceInPicture => NotedAreSent(dec, unit.apss)
         /\ dec.slices = <<>>
<1>1. ~InSlices /\ ~Decoded /\ ~Skipped BY DEF InSlices, Decoded, Skipped
<1>2. dec.suffixApsNalus = <<>> /\ Finished = dec
  BY DecodeApssNone DEF IInv, SuffixInv, Finished
<1> QED BY <1>1, <1>2 DEF IInv, StreamInv, SetsInv, SlicesInv, Started

\* An SPS or a PPS.
LEMMA StoreStep ==
  ASSUME IInv, InPrefix, NEW kind \in {"sps", "pps"}, NEW id, NEW nalu,
         HasFields(dec'), dec'[kind] = StorePS(dec[kind], id, nalu),
         \A f \in DecFields : f # kind => dec'[f] = dec[f],
         inEffect' = InEffect(inEffect, kind, id, nalu), upcoming' = inEffect',
         kind = "pps" => nalu.sps \in DOMAIN inEffect.sps,
         unit' = unit, expected' = expected
  PROVE  IInv'
<1>1. unit.phase = "prefix" /\ dec.firstSliceInPicture BY DEF InPrefix
<1>2. /\ ~InSlices /\ ~Decoded /\ ~Skipped
      /\ dec.suffixApsNalus = <<>> /\ upcoming = inEffect
      /\ SameSets(dec, inEffect) /\ NotedAreSent(dec, unit.apss) /\ dec.slices = <<>>
  BY <1>1, InPrefixFacts
<1>3. TypeOK BY DEF IInv
<1>4. kind \in Kinds /\ kind \in DecFields BY DEF Kinds, DecFields
<1>5. /\ \A other \in Kinds : other # kind => dec'[other] = dec[other]
      /\ \A t \in ApsTypes : dec'[t] = dec[t]
      /\ dec'.accessUnitApsNals = dec.accessUnitApsNals /\ dec'.failed = dec.failed
      /\ dec'.suffixApsNalus = dec.suffixApsNalus /\ dec'.pictureUnitNals = dec.pictureUnitNals
      /\ dec'.prevSliceSkipped = dec.prevSliceSkipped
      /\ dec'.firstSliceInPicture = dec.firstSliceInPicture
      /\ dec'.firstSliceInSequence = dec.firstSliceInSequence
      /\ dec'.decodedSliceInAU = dec.decodedSliceInAU /\ dec'.slices = dec.slices
  BY DEF Kinds, DecFields, ApsTypes
<1>6. /\ \A k \in Kinds : IsMap(dec[k])
      /\ \A t \in ApsTypes : IsSeq(dec.accessUnitApsNals[t])
      /\ dec.failed = FALSE
      /\ IsRecord(inEffect, Kinds)
  BY <1>3 DEF TypeOK, MapsOK, ApsTypes
<1>7. IsMap(dec'[kind])
  <2>1. Stored(dec[kind], dec'[kind], id, nalu) BY <1>4, <1>6, StorePSStores
  <2> QED BY <2>1 DEF Stored
<1>8. MapsOK(dec')
  <2>1. \A k \in Kinds : IsMap(dec'[k]) BY <1>5, <1>6, <1>7
  <2>2. \A t \in ApsTypes : IsSeq(dec'.accessUnitApsNals[t]) BY <1>5, <1>6
  <2>3. dec'.failed = FALSE BY <1>5, <1>6
  <2> QED BY <2>1, <2>2, <2>3 DEF MapsOK
<1>9. IsRecord(inEffect', Kinds) BY <1>4, <1>6, InEffectIsRecord
<1>10. SameSets(dec', inEffect')
  BY <1>2, <1>4, <1>5, <1>6, StoreKeepsSameSets
<1>11. NotedAreSent(dec', unit.apss)
  BY <1>2, <1>5 DEF NotedAreSent
<1>12. TypeOK'
  BY <1>3, <1>5, <1>8, <1>9 DEF TypeOK
<1>13. StreamInv'
  <2>1. PpsHaveSps(inEffect') BY <1>4, <1>6, PpsHaveSpsKept DEF IInv, StreamInv
  <2> QED BY <2>1 DEF IInv, StreamInv
<1>14. FlagsInv' /\ OrderInv' /\ SuffixInv'
  BY <1>1, <1>2, <1>5 DEF IInv, FlagsInv, OrderInv, SuffixInv, InSlices, Decoded, Skipped
<1>15. SetsInv'
  <2>1. Finished' = dec'
    BY <1>2, <1>5, DecodeApssNone DEF Finished
  <2> QED BY <1>8, <1>10, <1>11, <2>1 DEF SetsInv
<1>16. SlicesInv'
  <2>1. ~Decoded' BY <1>1 DEF Decoded, InSlices
  <2>2. DecodesWithTheSetsInEffect'
    BY <1>5 DEF IInv, SlicesInv, DecodesWithTheSetsInEffect
  <2> QED BY <1>2, <1>5, <2>1, <2>2, EmptyIsSeq DEF SlicesInv
<1> QED BY <1>12, <1>13, <1>14, <1>15, <1>16 DEF IInv

\* An SPS arrives in front of the slices.
LEMMA ReceiveSPSStep ==
  ASSUME IInv, ReceiveSPS PROVE IInv'
<1>1. PICK content \in SpsContents :
        LET nalu == [type |-> "sps", content |-> content] IN
        /\ dec' = DecodeSPS(dec, [id |-> SpsId, nalu |-> nalu])
        /\ inEffect' = InEffect(inEffect, "sps", SpsId, nalu)
        /\ upcoming' = inEffect'
  BY DEF ReceiveSPS
<1> DEFINE nalu == [type |-> "sps", content |-> content]
<1>2. dec' = [dec EXCEPT !.sps = StorePS(@, SpsId, nalu)]
  BY <1>1 DEF DecodeSPS
<1>3. HasFields(dec) BY DEF IInv, TypeOK, MapsOK
<1> HIDE DEF nalu
<1>4. /\ HasFields(dec') /\ dec'["sps"] = StorePS(dec["sps"], SpsId, nalu)
      /\ \A f \in DecFields : f # "sps" => dec'[f] = dec[f]
  BY <1>2, <1>3 DEF HasFields, IsRecord, DecFields
<1>5. InPrefix /\ unit' = unit /\ expected' = expected BY DEF ReceiveSPS
<1>6. inEffect' = InEffect(inEffect, "sps", SpsId, nalu) /\ upcoming' = inEffect'
  BY <1>1 DEF nalu
<1> QED BY <1>4, <1>5, <1>6, StoreStep

\* A PPS arrives in front of the slices; its SPS is in effect.
LEMMA ReceivePPSStep ==
  ASSUME IInv, ReceivePPS PROVE IInv'
<1>1. PICK id \in PpsIds, content \in PpsContents :
        LET nalu == [type |-> "pps", content |-> content, sps |-> SpsId] IN
        /\ dec' = DecodePPS(dec, [id |-> id, nalu |-> nalu])
        /\ inEffect' = InEffect(inEffect, "pps", id, nalu)
        /\ upcoming' = inEffect'
  BY DEF ReceivePPS
<1> DEFINE nalu == [type |-> "pps", content |-> content, sps |-> SpsId]
<1>2. dec' = [dec EXCEPT !.pps = StorePS(@, id, nalu)]
  BY <1>1 DEF DecodePPS
<1>3. HasFields(dec) BY DEF IInv, TypeOK, MapsOK
<1>4. nalu.sps \in DOMAIN inEffect.sps BY DEF ReceivePPS, Known
<1> HIDE DEF nalu
<1>5. /\ HasFields(dec') /\ dec'["pps"] = StorePS(dec["pps"], id, nalu)
      /\ \A f \in DecFields : f # "pps" => dec'[f] = dec[f]
  BY <1>2, <1>3 DEF HasFields, IsRecord, DecFields
<1>6. InPrefix /\ unit' = unit /\ expected' = expected BY DEF ReceivePPS
<1>7. inEffect' = InEffect(inEffect, "pps", id, nalu) /\ upcoming' = inEffect'
  BY <1>1 DEF nalu
<1> QED BY <1>4, <1>5, <1>6, <1>7, StoreStep

-----------------------------------------------------------------------------
(* APSs.                                                                   *)

\* An APS of a legal stream agrees with those sent before in the picture unit.
LEMMA ApsUnitsFacts ==
  ASSUME TypeOK, StreamInv, NEW type, NEW u \in ApsUnits(type)
  PROVE  /\ IsApsUnit(u) /\ u.nalu.type = type /\ u.aps \in ApsTypes /\ u.aps \in Kinds
         /\ AgreeWith(unit.apss, u)
         /\ \A v, w \in unit.apss \union {u} :
              v.aps = w.aps /\ v.id = w.id /\ v.nalu.type = w.nalu.type => v = w
         /\ \A v \in unit.apss \union {u} : IsApsUnit(v)
<1>1. IsApsUnit(u) /\ u.nalu.type = type /\ u.aps \in ApsTypes
  BY DEF ApsUnits, IsApsUnit
<1>2. Agrees(u) BY DEF ApsUnits
<1>3. \A v \in unit.apss :
        v.aps = u.aps /\ v.id = u.id /\ v.nalu.type = u.nalu.type => v = u
  BY <1>2 DEF Agrees
<1>4. \A v, w \in unit.apss \union {u} :
        v.aps = w.aps /\ v.id = w.id /\ v.nalu.type = w.nalu.type => v = w
  BY <1>3 DEF StreamInv
<1>5. \A v \in unit.apss \union {u} : IsApsUnit(v)
  BY <1>1 DEF TypeOK
<1>6. u.aps \in Kinds BY <1>1 DEF ApsTypes, Kinds
<1> QED BY <1>1, <1>3, <1>4, <1>5, <1>6 DEF AgreeWith

\* The head of decode notes the unit and changes nothing else.
LEMMA NotedFields ==
  ASSUME NEW d, HasFields(d), NEW type, type = "suffix" => ~d.prevSliceSkipped
  PROVE  /\ HasFields(Noted(d, type)) /\ Agree(d, Noted(d, type))
         /\ Noted(d, type).pictureUnitNals = Append(d.pictureUnitNals, type)
         /\ \A f \in DecFields : f # "pictureUnitNals" => Noted(d, type)[f] = d[f]
<1> DEFINE e == Noted(d, type)
<1>1. e = [d EXCEPT !.pictureUnitNals = Append(@, type)]
  BY DEF Noted
<1>2. /\ HasFields(e) /\ e.pictureUnitNals = Append(d.pictureUnitNals, type)
      /\ \A f \in DecFields : f # "pictureUnitNals" => e[f] = d[f]
  BY <1>1 DEF HasFields, IsRecord, DecFields
<1> HIDE DEF e
<1>3. Agree(d, e)
  BY <1>2 DEF Agree, AgreedFields, DecFields
<1> QED BY <1>2, <1>3 DEF e

\* A prefix APS arrives. No unit waits then, and it is decoded like a set of the
\* other kinds but for checkAuApsContent.
LEMMA ReceivePrefixAPSStep ==
  ASSUME IInv, ReceivePrefixAPS PROVE IInv'
<1>1. unit.phase = "prefix" /\ dec.firstSliceInPicture /\ TypeOK /\ StreamInv
  BY DEF ReceivePrefixAPS, InPrefix, IInv
<1>2. /\ ~InSlices /\ ~Decoded /\ ~Skipped
      /\ dec.suffixApsNalus = <<>> /\ upcoming = inEffect
      /\ SameSets(dec, inEffect) /\ NotedAreSent(dec, unit.apss) /\ dec.slices = <<>>
  BY <1>1, InPrefixFacts
<1>3. PICK u \in ApsUnits("prefix") :
        /\ dec' = DecodePrefixAPS(dec, u)
        /\ inEffect' = InEffect(inEffect, u.aps, u.id, u.nalu)
        /\ upcoming' = inEffect'
        /\ unit' = [unit EXCEPT !.apsCount = @ + 1, !.apss = @ \union {u}]
  BY DEF ReceivePrefixAPS
<1>4. /\ IsApsUnit(u) /\ u.nalu.type = "prefix" /\ u.aps \in ApsTypes /\ u.aps \in Kinds
      /\ AgreeWith(unit.apss, u)
      /\ \A v, w \in unit.apss \union {u} :
           v.aps = w.aps /\ v.id = w.id /\ v.nalu.type = w.nalu.type => v = w
      /\ \A v \in unit.apss \union {u} : IsApsUnit(v)
  BY <1>1, ApsUnitsFacts
<1>5. /\ IsRecord(unit', UnitFields) /\ unit'.apss = unit.apss \union {u}
      /\ unit'.phase = unit.phase /\ unit'.skipped = unit.skipped
  BY <1>1, <1>3 DEF TypeOK, IsRecord, UnitFields
<1> DEFINE d == Noted(dec, "prefix")
<1>6. HasFields(dec) /\ MapsOK(dec) /\ IsRecord(inEffect, Kinds)
  BY <1>1 DEF TypeOK, MapsOK
<1>7. /\ HasFields(d) /\ Agree(dec, d) /\ d.pictureUnitNals = Append(dec.pictureUnitNals, "prefix")
      /\ \A f \in DecFields : f # "pictureUnitNals" => d[f] = dec[f]
  BY <1>6, NotedFields
<1>8. dec' = DecodeAPS(d, u) BY <1>3 DEF DecodePrefixAPS
<1> HIDE DEF d
<1>9. MapsOK(d) /\ SameSets(d, inEffect) /\ NotedAreSent(d, unit.apss)
  BY <1>2, <1>6, <1>7, AgreeKeeps
<1>10. /\ MapsOK(dec') /\ SameSets(dec', inEffect')
       /\ NotedAreSent(dec', unit.apss \union {u})
  BY <1>3, <1>4, <1>6, <1>8, <1>9, DecodeAPSKeeps
<1>11. /\ dec'.pictureUnitNals = Append(dec.pictureUnitNals, "prefix")
       /\ dec'.suffixApsNalus = dec.suffixApsNalus /\ dec'.slices = dec.slices
       /\ dec'.prevSliceSkipped = dec.prevSliceSkipped
       /\ dec'.firstSliceInPicture = dec.firstSliceInPicture
       /\ dec'.firstSliceInSequence = dec.firstSliceInSequence
       /\ dec'.decodedSliceInAU = dec.decodedSliceInAU
  <2>1. \A f \in DecFields \ ApsFields : dec'[f] = d[f]
    BY <1>4, <1>7, <1>8, DecodeAPSFields
  <2> QED BY <1>7, <2>1 DEF DecFields, ApsFields
<1>12. IsRecord(inEffect', Kinds) BY <1>3, <1>4, <1>6, InEffectIsRecord
<1>13. TypeOK'
  <2>1. dec'.pictureUnitNals \in Seq({"prefix", "slice", "suffix"})
    BY <1>1, <1>11 DEF TypeOK
  <2>2. expected' = expected BY DEF ReceivePrefixAPS
  <2> QED BY <1>1, <1>3, <1>4, <1>5, <1>10, <1>11, <1>12, <2>1, <2>2 DEF TypeOK
<1>14. StreamInv'
  <2>1. PpsHaveSps(inEffect')
    BY <1>1, <1>3, <1>4, <1>6, PpsHaveSpsKept DEF StreamInv, ApsTypes
  <2> QED BY <1>3, <1>4, <1>5, <2>1 DEF StreamInv
<1>15. FlagsInv' /\ SuffixInv'
  BY <1>1, <1>2, <1>5, <1>11, EmptyIsSeq DEF FlagsInv, SuffixInv, InSlices, Decoded, Skipped
<1>16. OrderInv'
  <2> DEFINE nals == dec.pictureUnitNals
  <2>1. \A i \in DOMAIN nals : nals[i] = "prefix"
    BY <1>1 DEF IInv, OrderInv
  <2>2. nals \in Seq({"prefix", "slice", "suffix"}) BY <1>1 DEF TypeOK
  <2>3. \A i \in DOMAIN Append(nals, "prefix") : Append(nals, "prefix")[i] = "prefix"
    <3> HIDE DEF nals
    <3> QED BY <2>1, <2>2
  <2> QED BY <1>1, <1>5, <1>11, <2>3 DEF OrderInv, ApsInOrder
<1>17. SetsInv'
  <2>1. Finished' = dec'
    BY <1>2, <1>11, DecodeApssNone DEF Finished
  <2> QED BY <1>3, <1>5, <1>10, <2>1 DEF SetsInv
<1>18. SlicesInv'
  <2>1. ~Decoded' BY <1>1, <1>5 DEF Decoded, InSlices
  <2>2. DecodesWithTheSetsInEffect'
    BY <1>11 DEF IInv, SlicesInv, DecodesWithTheSetsInEffect, ReceivePrefixAPS
  <2> QED BY <1>2, <1>11, <2>1, <2>2, EmptyIsSeq DEF SlicesInv
<1> QED BY <1>13, <1>14, <1>15, <1>16, <1>17, <1>18 DEF IInv

\* Behind a skipped slice an APS is stored at once.
LEMMA SuffixOfSkippedStep ==
  ASSUME IInv, ReceiveSuffixAPS, unit.skipped PROVE IInv'
<1>1. /\ InSlices /\ Skipped /\ ~Decoded /\ TypeOK /\ StreamInv /\ MapsOK(dec) /\ HasFields(dec)
      /\ unit.skipped = TRUE
  BY DEF ReceiveSuffixAPS, InSlices, Skipped, Decoded, IInv, TypeOK, MapsOK
<1>2. /\ dec.suffixApsNalus = <<>> /\ dec.slices = <<>> /\ dec.prevSliceSkipped = TRUE
      /\ dec.accessUnitApsNals = [t \in ApsTypes |-> <<>>]
  BY <1>1 DEF IInv, SuffixInv, SlicesInv, FlagsInv
<1>3. /\ SameSets(dec, upcoming) /\ NotedAreSent(dec, unit.apss)
      /\ IsRecord(upcoming, Kinds) /\ PpsHaveSps(upcoming)
  <2>1. Finished = dec BY <1>2, DecodeApssNone DEF Finished
  <2> QED BY <1>1, <2>1 DEF IInv, SetsInv, Started, TypeOK, StreamInv
<1>4. PICK u \in ApsUnits("suffix") :
        /\ dec' = DecodeSuffixAPS(dec, u)
        /\ unit' = [unit EXCEPT !.phase = "suffix", !.apsCount = @ + 1, !.apss = @ \union {u}]
        /\ upcoming' = InEffect(upcoming, u.aps, u.id, u.nalu)
  BY DEF ReceiveSuffixAPS
<1>5. /\ IsApsUnit(u) /\ u.nalu.type = "suffix" /\ u.aps \in ApsTypes /\ u.aps \in Kinds
      /\ AgreeWith(unit.apss, u)
      /\ \A v, w \in unit.apss \union {u} :
           v.aps = w.aps /\ v.id = w.id /\ v.nalu.type = w.nalu.type => v = w
      /\ \A v \in unit.apss \union {u} : IsApsUnit(v)
  BY <1>1, ApsUnitsFacts
<1>6. /\ IsRecord(unit', UnitFields) /\ unit'.apss = unit.apss \union {u}
      /\ unit'.phase = "suffix" /\ unit'.skipped = unit.skipped
  BY <1>1, <1>4 DEF TypeOK, IsRecord, UnitFields
<1>7. dec' = DecodeAPS(dec, u)
  BY <1>2, <1>4 DEF DecodeSuffixAPS, Noted
<1>8. dec.accessUnitApsNals[u.aps] = <<>> BY <1>2, <1>5
<1>9. /\ MapsOK(dec') /\ SameSets(dec', upcoming')
      /\ NotedAreSent(dec', unit.apss \union {u})
  BY <1>1, <1>3, <1>4, <1>5, <1>7, <1>8, DecodeAPSKeeps
<1>10. /\ dec'.pictureUnitNals = dec.pictureUnitNals
       /\ dec'.suffixApsNalus = dec.suffixApsNalus /\ dec'.slices = dec.slices
       /\ dec'.prevSliceSkipped = dec.prevSliceSkipped
       /\ dec'.firstSliceInPicture = dec.firstSliceInPicture
       /\ dec'.firstSliceInSequence = dec.firstSliceInSequence
       /\ dec'.decodedSliceInAU = dec.decodedSliceInAU
  <2>1. \A f \in DecFields \ ApsFields : dec'[f] = dec[f]
    BY <1>1, <1>5, <1>7, DecodeAPSFields
  <2> QED BY <2>1 DEF DecFields, ApsFields
<1>11. dec'.accessUnitApsNals = [t \in ApsTypes |-> <<>>]
  <2>1. dec'.accessUnitApsNals =
          [t \in ApsTypes |-> IF t = u.aps THEN ApsIdsAfter(dec, u) ELSE dec.accessUnitApsNals[t]]
    BY <1>1, <1>5, <1>7, DecodeAPSFields
  <2>2. ApsIdsAfter(dec, u) = <<>>
    BY <1>2, <1>5, <1>8, ApsIdsAfterAdds, EmptyIsSeq
  <2> QED BY <1>2, <2>1, <2>2
<1>12. inEffect' = inEffect /\ expected' = expected BY DEF ReceiveSuffixAPS
<1>13. TypeOK'
  <2>1. IsRecord(upcoming', Kinds) BY <1>3, <1>4, <1>5, InEffectIsRecord
  <2> QED BY <1>1, <1>5, <1>6, <1>9, <1>10, <1>12, <2>1 DEF TypeOK
<1>14. StreamInv'
  <2>1. PpsHaveSps(upcoming')
    BY <1>3, <1>4, <1>5, PpsHaveSpsKept DEF ApsTypes
  <2> QED BY <1>1, <1>5, <1>6, <1>12, <2>1 DEF StreamInv
<1>15. InSlices' /\ Skipped' /\ ~Decoded'
  BY <1>1, <1>6 DEF InSlices, Skipped, Decoded
<1>16. FlagsInv' /\ SuffixInv' /\ OrderInv'
  BY <1>1, <1>2, <1>6, <1>10, <1>11, <1>15, EmptyIsSeq DEF IInv, FlagsInv, SuffixInv, OrderInv
<1>17. SetsInv'
  <2>1. Finished' = dec'
    BY <1>2, <1>10, DecodeApssNone DEF Finished
  <2> QED BY <1>6, <1>9, <1>15, <2>1 DEF SetsInv
<1>18. SlicesInv'
  <2>1. DecodesWithTheSetsInEffect'
    BY <1>10, <1>12 DEF IInv, SlicesInv, DecodesWithTheSetsInEffect
  <2> QED BY <1>2, <1>10, <1>15, <2>1, EmptyIsSeq DEF SlicesInv
<1> QED BY <1>13, <1>14, <1>16, <1>17, <1>18 DEF IInv

\* Behind a decoded slice it waits.
LEMMA SuffixOfDecodedStep ==
  ASSUME IInv, ReceiveSuffixAPS, ~unit.skipped PROVE IInv'
<1>1. /\ InSlices /\ ~Skipped /\ Decoded /\ TypeOK /\ StreamInv /\ MapsOK(dec) /\ HasFields(dec)
      /\ unit.skipped = FALSE
  BY DEF ReceiveSuffixAPS, InSlices, Skipped, Decoded, IInv, TypeOK, MapsOK
<1>2. /\ dec.prevSliceSkipped = FALSE
      /\ IsSeq(dec.suffixApsNalus)
      /\ \A i \in DOMAIN dec.suffixApsNalus :
           dec.suffixApsNalus[i] \in unit.apss /\ dec.suffixApsNalus[i].nalu.type = "suffix"
  BY <1>1 DEF IInv, SuffixInv, FlagsInv, TypeOK
<1>3. /\ SameSets(Finished, upcoming) /\ NotedAreSent(Finished, unit.apss) /\ MapsOK(Finished)
      /\ SameSets(dec, inEffect)
      /\ IsRecord(upcoming, Kinds) /\ PpsHaveSps(upcoming)
  BY <1>1 DEF IInv, SetsInv, Started, TypeOK, StreamInv
<1>4. PICK u \in ApsUnits("suffix") :
        /\ dec' = DecodeSuffixAPS(dec, u)
        /\ unit' = [unit EXCEPT !.phase = "suffix", !.apsCount = @ + 1, !.apss = @ \union {u}]
        /\ upcoming' = InEffect(upcoming, u.aps, u.id, u.nalu)
  BY DEF ReceiveSuffixAPS
<1>5. /\ IsApsUnit(u) /\ u.nalu.type = "suffix" /\ u.aps \in ApsTypes /\ u.aps \in Kinds
      /\ AgreeWith(unit.apss, u)
      /\ \A v, w \in unit.apss \union {u} :
           v.aps = w.aps /\ v.id = w.id /\ v.nalu.type = w.nalu.type => v = w
      /\ \A v \in unit.apss \union {u} : IsApsUnit(v)
  BY <1>1, ApsUnitsFacts
<1>6. /\ IsRecord(unit', UnitFields) /\ unit'.apss = unit.apss \union {u}
      /\ unit'.phase = "suffix" /\ unit'.skipped = unit.skipped /\ unit'.slice = unit.slice
  BY <1>1, <1>4 DEF TypeOK, IsRecord, UnitFields
<1> DEFINE d == Noted(dec, "suffix")
<1>7. dec' = [d EXCEPT !.suffixApsNalus = Append(@, u)]
  BY <1>2, <1>4 DEF DecodeSuffixAPS
<1>8. /\ HasFields(d) /\ Agree(dec, d) /\ d.pictureUnitNals = Append(dec.pictureUnitNals, "suffix")
      /\ \A f \in DecFields : f # "pictureUnitNals" => d[f] = dec[f]
  BY <1>1, <1>2, NotedFields
<1> HIDE DEF d
<1>9. /\ HasFields(dec')
      /\ dec'.suffixApsNalus = Append(dec.suffixApsNalus, u)
      /\ dec'.pictureUnitNals = Append(dec.pictureUnitNals, "suffix")
      /\ \A f \in DecFields : f \notin {"pictureUnitNals", "suffixApsNalus"} => dec'[f] = dec[f]
  BY <1>7, <1>8 DEF HasFields, IsRecord, DecFields
<1>10. Agree(dec, dec')
  BY <1>9 DEF Agree, AgreedFields, DecFields
<1>11. \A i \in DOMAIN dec.suffixApsNalus : dec.suffixApsNalus[i].aps \in ApsTypes
  BY <1>1, <1>2 DEF TypeOK, IsApsUnit
<1>12. PICK h : /\ HasFields(h) /\ Agree(Finished, h)
                /\ DecodeApss(dec', Append(dec.suffixApsNalus, u)) = DecodeAPS(h, u)
  BY <1>1, <1>2, <1>5, <1>9, <1>10, <1>11, DecodeApssAppend DEF Finished
<1>13. Finished' = DecodeAPS(h, u)
  BY <1>9, <1>12 DEF Finished
<1>14. h.prevSliceSkipped = FALSE
  <2>1. Agree(dec, dec) BY DEF Agree
  <2>2. SameRound(dec, dec, Finished, Finished)
    BY <1>1, <1>2, <1>11, <2>1, DecodeApssAgree DEF Finished
  <2>3. Finished["prevSliceSkipped"] = dec["prevSliceSkipped"]
    BY <2>2 DEF SameRound, DecFields, ApsFields
  <2>4. h["prevSliceSkipped"] = Finished["prevSliceSkipped"]
    BY <1>12 DEF Agree, AgreedFields
  <2> QED BY <1>2, <2>3, <2>4
<1>15. MapsOK(h) /\ SameSets(h, upcoming) /\ NotedAreSent(h, unit.apss)
  BY <1>3, <1>12, AgreeKeeps
<1>16. /\ MapsOK(Finished') /\ SameSets(Finished', upcoming')
       /\ NotedAreSent(Finished', unit.apss \union {u})
  BY <1>3, <1>4, <1>5, <1>13, <1>14, <1>15, DecodeAPSKeeps
<1>17. MapsOK(dec') /\ SameSets(dec', inEffect)
  BY <1>1, <1>3, <1>9, <1>10, AgreeKeeps
<1>18. inEffect' = inEffect /\ expected' = expected BY DEF ReceiveSuffixAPS
<1>19. /\ dec'.prevSliceSkipped = dec.prevSliceSkipped /\ dec'.slices = dec.slices
       /\ dec'.firstSliceInPicture = dec.firstSliceInPicture
       /\ dec'.firstSliceInSequence = dec.firstSliceInSequence
       /\ dec'.decodedSliceInAU = dec.decodedSliceInAU
       /\ dec'.sps = dec.sps /\ dec'.pps = dec.pps /\ dec'.alf = dec.alf /\ dec'.lmcs = dec.lmcs
       /\ \A t \in ApsTypes : dec'[t] = dec[t]
  BY <1>9 DEF DecFields, ApsTypes
<1>20. /\ IsSeq(dec'.suffixApsNalus)
       /\ \A i \in DOMAIN dec'.suffixApsNalus :
            dec'.suffixApsNalus[i] \in unit'.apss /\ dec'.suffixApsNalus[i].nalu.type = "suffix"
  <2> DEFINE units == dec.suffixApsNalus
  <2>1. /\ IsSeq(Append(units, u)) /\ DOMAIN units = 1 .. Len(units) /\ Len(units) \in Nat
        /\ DOMAIN Append(units, u) = 1 .. Len(units) + 1
        /\ \A i \in 1 .. Len(units) : Append(units, u)[i] = units[i]
        /\ Append(units, u)[Len(units) + 1] = u
    BY <1>2, AppendIsSeq
  <2> HIDE DEF units
  <2>2. \A i \in DOMAIN units : units[i] \in unit.apss /\ units[i].nalu.type = "suffix"
    BY <1>2 DEF units
  <2>3. \A i \in DOMAIN Append(units, u) :
          Append(units, u)[i] \in unit.apss \union {u} /\ Append(units, u)[i].nalu.type = "suffix"
    BY <1>5, <2>1, <2>2
  <2> QED BY <1>6, <1>9, <2>1, <2>3 DEF units
<1>21. dec'.pictureUnitNals \in Seq({"prefix", "slice", "suffix"}) /\ ApsInOrder(dec'.pictureUnitNals)
  <2> DEFINE nals == dec.pictureUnitNals
  <2>1. nals \in Seq({"prefix", "slice", "suffix"}) /\ ApsInOrder(nals)
    BY <1>1 DEF TypeOK, IInv, OrderInv
  <2> HIDE DEF nals
  <2>2. /\ Append(nals, "suffix") \in Seq({"prefix", "slice", "suffix"})
        /\ DOMAIN Append(nals, "suffix") = 1 .. Len(nals) + 1 /\ DOMAIN nals = 1 .. Len(nals)
        /\ \A i \in 1 .. Len(nals) : Append(nals, "suffix")[i] = nals[i]
        /\ Append(nals, "suffix")[Len(nals) + 1] = "suffix" /\ Len(nals) \in Nat
    BY <2>1
  <2>3. ApsInOrder(Append(nals, "suffix"))
    BY <2>1, <2>2 DEF ApsInOrder
  <2> QED BY <1>9, <2>2, <2>3 DEF nals
<1>22. TypeOK'
  <2>1. IsRecord(upcoming', Kinds) BY <1>3, <1>4, <1>5, InEffectIsRecord
  <2> QED BY <1>1, <1>5, <1>6, <1>17, <1>18, <1>19, <1>20, <1>21, <2>1 DEF TypeOK
<1>23. StreamInv'
  <2>1. PpsHaveSps(upcoming')
    BY <1>3, <1>4, <1>5, PpsHaveSpsKept DEF ApsTypes
  <2> QED BY <1>1, <1>5, <1>6, <1>18, <2>1 DEF StreamInv
<1>24. InSlices' /\ ~Skipped' /\ Decoded' /\ Started'
  BY <1>1, <1>6 DEF InSlices, Skipped, Decoded, Started
<1>25. FlagsInv' /\ SuffixInv' /\ OrderInv'
  BY <1>1, <1>6, <1>19, <1>20, <1>21, <1>24 DEF IInv, FlagsInv, SuffixInv, OrderInv
<1>26. SetsInv'
  BY <1>6, <1>16, <1>17, <1>18, <1>24 DEF SetsInv
<1>27. SlicesInv'
  <2>1. DecodesWithTheSetsInEffect'
    BY <1>18, <1>19 DEF IInv, SlicesInv, DecodesWithTheSetsInEffect
  <2> QED BY <1>1, <1>6, <1>19, <1>24, <2>1 DEF IInv, SlicesInv
<1> QED BY <1>22, <1>23, <1>25, <1>26, <1>27 DEF IInv

-----------------------------------------------------------------------------
(* Slices.                                                                 *)

\* In front of the suffix APSs both sides have the same sets, and a slice that was
\* coded can be parsed.
LEMMA SliceFacts ==
  ASSUME IInv, unit.phase \in {"prefix", "slices"}, NEW slice \in SlicesInEffect
  PROVE  /\ dec.suffixApsNalus = <<>> /\ Finished = dec /\ upcoming = inEffect
         /\ SameSets(dec, inEffect)
         /\ slice.pps \in DOMAIN dec.pps /\ inEffect.pps[slice.pps].sps \in DOMAIN dec.sps
         /\ slice.alf \subseteq DOMAIN dec.alf /\ slice.lmcs \subseteq DOMAIN dec.lmcs
         /\ dec.pps[slice.pps].nalu = inEffect.pps[slice.pps]
         /\ CanBeParsed(dec, slice)
         /\ unit.phase = "slices" =>
              slice.pps = unit.slice[1].pps /\ slice.lmcs = unit.slice[1].lmcs
<1>1. dec.suffixApsNalus = <<>> /\ Finished = dec /\ upcoming = inEffect
  BY DecodeApssNone DEF IInv, SuffixInv, StreamInv, Finished
<1>2. SameSets(dec, inEffect)
  BY <1>1 DEF IInv, SetsInv
<1>3. /\ \A kind \in Kinds : DOMAIN dec[kind] = DOMAIN inEffect[kind]
      /\ \A kind \in Kinds : \A id \in DOMAIN inEffect[kind] : dec[kind][id].nalu = inEffect[kind][id]
  BY <1>2 DEF SameSets
<1>4. /\ DOMAIN dec.sps = DOMAIN inEffect.sps /\ DOMAIN dec.pps = DOMAIN inEffect.pps
      /\ DOMAIN dec.alf = DOMAIN inEffect.alf /\ DOMAIN dec.lmcs = DOMAIN inEffect.lmcs
      /\ \A id \in DOMAIN inEffect.pps : dec.pps[id].nalu = inEffect.pps[id]
  BY <1>3 DEF Kinds
<1>5. /\ slice.pps \in DOMAIN inEffect.pps /\ slice.alf \subseteq DOMAIN inEffect.alf
      /\ slice.lmcs \subseteq DOMAIN inEffect.lmcs
      /\ unit.phase = "slices" =>
           slice.pps = unit.slice[1].pps /\ slice.lmcs = unit.slice[1].lmcs
  BY DEF SlicesInEffect
<1>6. inEffect.pps[slice.pps].sps \in DOMAIN inEffect.sps
  BY <1>5 DEF IInv, StreamInv, PpsHaveSps
<1>7. CanBeParsed(dec, slice)
  BY <1>4, <1>5, <1>6 DEF CanBeParsed, Known, GetPS
<1> QED BY <1>1, <1>2, <1>4, <1>5, <1>6, <1>7

\* A slice of a skipped picture: parsed, then the ids of the access unit are reset.
LEMMA SkippedSliceStep ==
  ASSUME IInv, unit.phase \in {"prefix", "slices"}, NEW slice \in SlicesInEffect,
         unit.phase = "prefix" => dec.firstSliceInPicture,
         unit.phase = "slices" => unit.skipped,
         dec' = DecodeSlice(dec, slice, TRUE),
         unit' = [unit EXCEPT !.phase = "slices", !.slices = @ + 1, !.skipped = TRUE,
                              !.slice = <<[pps |-> slice.pps, lmcs |-> slice.lmcs]>>],
         inEffect' = inEffect, upcoming' = upcoming, expected' = expected
  PROVE  IInv'
<1>1. /\ dec.suffixApsNalus = <<>> /\ Finished = dec /\ upcoming = inEffect
      /\ SameSets(dec, inEffect) /\ CanBeParsed(dec, slice)
  BY SliceFacts
<1>2. TypeOK /\ HasFields(dec) /\ MapsOK(dec) BY DEF IInv, TypeOK, MapsOK
<1>3. /\ IsRecord(unit', UnitFields) /\ unit'.apss = unit.apss
      /\ unit'.phase = "slices" /\ unit'.skipped = TRUE
  BY <1>2 DEF TypeOK, IsRecord, UnitFields
<1>4. dec' = SkipSlice(dec) BY <1>1 DEF DecodeSlice
<1>5. /\ HasFields(dec')
      /\ dec'.accessUnitApsNals = [t \in ApsTypes |-> <<>>]
      /\ dec'.prevSliceSkipped = TRUE /\ dec'.pictureUnitNals = <<>> /\ dec'.decodedSliceInAU = TRUE
      /\ \A f \in DecFields : f \notin {"accessUnitApsNals", "prevSliceSkipped", "pictureUnitNals",
                                       "decodedSliceInAU"} => dec'[f] = dec[f]
  BY <1>2, <1>4 DEF SkipSlice, ResetAccessUnit, HasFields, IsRecord, DecFields
<1>6. /\ dec'.sps = dec.sps /\ dec'.pps = dec.pps /\ dec'.alf = dec.alf /\ dec'.lmcs = dec.lmcs
      /\ \A kind \in Kinds : dec'[kind] = dec[kind]
      /\ dec'.failed = dec.failed /\ dec'.slices = dec.slices
      /\ dec'.suffixApsNalus = dec.suffixApsNalus
      /\ dec'.firstSliceInPicture = dec.firstSliceInPicture
      /\ dec'.firstSliceInSequence = dec.firstSliceInSequence
  BY <1>5 DEF DecFields, Kinds
<1>7. MapsOK(dec')
  BY <1>2, <1>5, <1>6, EmptyIsSeq DEF MapsOK
<1>8. SameSets(dec', inEffect) BY <1>1, <1>6 DEF SameSets
<1>9. NotedAreSent(dec', unit.apss)
  BY <1>5, EmptyIsSeq DEF NotedAreSent
<1>10. dec.firstSliceInPicture = TRUE /\ dec.slices = <<>>
  BY <1>2 DEF IInv, FlagsInv, SlicesInv, TypeOK, Decoded, InSlices
<1>11. InSlices' /\ Skipped' /\ ~Decoded' BY <1>3 DEF InSlices, Skipped, Decoded
<1>12. TypeOK'
  <2>1. <<>> \in Seq({"prefix", "slice", "suffix"}) OBVIOUS
  <2> QED BY <1>2, <1>3, <1>5, <1>6, <1>7, <2>1 DEF TypeOK
<1>13. StreamInv' BY <1>1, <1>3 DEF IInv, StreamInv
<1>14. FlagsInv' BY <1>3, <1>5, <1>6, <1>10, <1>11 DEF FlagsInv
<1>15. OrderInv' BY <1>5, EmptyIsSeq DEF OrderInv, ApsInOrder
<1>16. SuffixInv' BY <1>1, <1>5, <1>6, EmptyIsSeq DEF SuffixInv
<1>17. SetsInv'
  <2>1. Finished' = dec' BY <1>1, <1>6, DecodeApssNone DEF Finished
  <2> QED BY <1>1, <1>3, <1>7, <1>8, <1>9, <1>11, <2>1 DEF SetsInv
<1>18. SlicesInv'
  <2>1. DecodesWithTheSetsInEffect'
    BY <1>6 DEF IInv, SlicesInv, DecodesWithTheSetsInEffect
  <2> QED BY <1>6, <1>10, <1>11, <2>1, EmptyIsSeq DEF SlicesInv
<1> QED BY <1>12, <1>13, <1>14, <1>15, <1>16, <1>17, <1>18 DEF IInv

\* The decoder when the sets of a slice are activated: none of them is marked as
\* changed, by xActivateParameterSets or because no set was stored since.
ActivatedFor(a, slice) ==
  /\ MapsOK(a) /\ SameSets(a, inEffect)
  /\ \A f \in DecFields : f \notin Kinds => a[f] = dec[f]
  /\ ~a.pps[slice.pps].changed /\ ~a.sps[inEffect.pps[slice.pps].sps].changed
  /\ \A id \in DOMAIN a.alf : ~a.alf[id].changed
  /\ \A id \in slice.lmcs : ~a.lmcs[id].changed
  /\ \A kind \in Kinds : /\ DOMAIN a[kind] = DOMAIN dec[kind]
                         /\ \A id \in DOMAIN dec[kind] : a[kind][id].nalu = dec[kind][id].nalu

\* The first slice of a picture takes the flags down.
LEMMA FirstSliceActivates ==
  ASSUME IInv, unit.phase = "prefix", NEW slice \in SlicesInEffect
  PROVE  ActivatedFor(Activated([dec EXCEPT !.slices = <<>>], slice), slice)
<1> DEFINE a == Activated([dec EXCEPT !.slices = <<>>], slice)
<1>1. /\ SameSets(dec, inEffect)
      /\ slice.pps \in DOMAIN dec.pps /\ inEffect.pps[slice.pps].sps \in DOMAIN dec.sps
      /\ slice.alf \subseteq DOMAIN dec.alf /\ slice.lmcs \subseteq DOMAIN dec.lmcs
      /\ dec.pps[slice.pps].nalu = inEffect.pps[slice.pps]
  BY SliceFacts
<1>2. /\ HasFields(dec) /\ MapsOK(dec)
      /\ IsMap(dec.sps) /\ IsMap(dec.pps) /\ IsMap(dec.alf) /\ IsMap(dec.lmcs)
  BY DEF IInv, TypeOK, MapsOK, Kinds
<1>3. dec.slices = <<>> BY InPrefixFacts
<1>4. /\ HasFields(a)
      /\ a.sps = ClearChangedFlags(dec.sps, {inEffect.pps[slice.pps].sps})
      /\ a.pps = ClearChangedFlags(dec.pps, {slice.pps})
      /\ a.alf = ClearChangedFlags(dec.alf, DOMAIN dec.alf)
      /\ a.lmcs = ClearChangedFlags(dec.lmcs, slice.lmcs)
      /\ \A f \in DecFields : f \notin Kinds => a[f] = dec[f]
  BY <1>1, <1>2, <1>3 DEF Activated, GetPS, HasFields, IsRecord, DecFields, Kinds
<1> HIDE DEF a
<1>5. /\ IsMap(a.sps) /\ DOMAIN a.sps = DOMAIN dec.sps
      /\ \A id \in DOMAIN dec.sps : a.sps[id].nalu = dec.sps[id].nalu
      /\ ~a.sps[inEffect.pps[slice.pps].sps].changed
  <2>1. Cleared(dec.sps, a.sps, {inEffect.pps[slice.pps].sps}) BY <1>2, <1>4, ClearChangedFlagsClears
  <2> QED BY <1>1, <2>1 DEF Cleared
<1>6. /\ IsMap(a.pps) /\ DOMAIN a.pps = DOMAIN dec.pps
      /\ \A id \in DOMAIN dec.pps : a.pps[id].nalu = dec.pps[id].nalu
      /\ ~a.pps[slice.pps].changed
  <2>1. Cleared(dec.pps, a.pps, {slice.pps}) BY <1>2, <1>4, ClearChangedFlagsClears
  <2> QED BY <1>1, <2>1 DEF Cleared
<1>7. /\ IsMap(a.alf) /\ DOMAIN a.alf = DOMAIN dec.alf
      /\ \A id \in DOMAIN dec.alf : a.alf[id].nalu = dec.alf[id].nalu
      /\ \A id \in DOMAIN dec.alf : ~a.alf[id].changed
  <2>1. Cleared(dec.alf, a.alf, DOMAIN dec.alf) BY <1>2, <1>4, ClearChangedFlagsClears
  <2> QED BY <1>1, <2>1 DEF Cleared
<1>8. /\ IsMap(a.lmcs) /\ DOMAIN a.lmcs = DOMAIN dec.lmcs
      /\ \A id \in DOMAIN dec.lmcs : a.lmcs[id].nalu = dec.lmcs[id].nalu
      /\ \A id \in slice.lmcs : ~a.lmcs[id].changed
  <2>1. Cleared(dec.lmcs, a.lmcs, slice.lmcs) BY <1>2, <1>4, ClearChangedFlagsClears
  <2> QED BY <1>1, <2>1 DEF Cleared
<1>9. \A kind \in Kinds : /\ IsMap(a[kind]) /\ DOMAIN a[kind] = DOMAIN dec[kind]
                          /\ \A id \in DOMAIN dec[kind] : a[kind][id].nalu = dec[kind][id].nalu
  BY <1>5, <1>6, <1>7, <1>8 DEF Kinds
<1>10. SameSets(a, inEffect) BY <1>1, <1>9 DEF SameSets
<1>11. MapsOK(a)
  <2>1. a.failed = dec.failed /\ a.accessUnitApsNals = dec.accessUnitApsNals
    BY <1>4 DEF DecFields, Kinds
  <2> QED BY <1>2, <1>4, <1>9, <2>1 DEF MapsOK
<1>12. ActivatedFor(a, slice)
  BY <1>4, <1>5, <1>6, <1>7, <1>8, <1>9, <1>10, <1>11 DEF ActivatedFor
<1> QED BY <1>12 DEF a

\* The others find them down, for sets only come in front of the first slice or wait.
LEMMA OtherSliceFindsActivated ==
  ASSUME IInv, unit.phase = "slices", ~unit.skipped, NEW slice \in SlicesInEffect
  PROVE  ActivatedFor(Fail(dec, NoneChanged(dec, slice)), slice)
<1> DEFINE a == Fail(dec, NoneChanged(dec, slice))
           first == unit.slice[1]
<1>1. /\ SameSets(dec, inEffect)
      /\ slice.pps \in DOMAIN dec.pps /\ inEffect.pps[slice.pps].sps \in DOMAIN dec.sps
      /\ slice.alf \subseteq DOMAIN dec.alf /\ slice.lmcs \subseteq DOMAIN dec.lmcs
      /\ dec.pps[slice.pps].nalu = inEffect.pps[slice.pps]
      /\ slice.pps = first.pps /\ slice.lmcs = first.lmcs
  BY SliceFacts
<1>2. HasFields(dec) /\ MapsOK(dec) /\ dec.failed = FALSE BY DEF IInv, TypeOK, MapsOK
<1>3. /\ dec.slices[1].pps = dec.pps[first.pps].nalu
      /\ ~dec.pps[first.pps].changed /\ ~dec.sps[dec.slices[1].pps.sps].changed
      /\ \A id \in DOMAIN dec.alf : ~dec.alf[id].changed
      /\ \A id \in first.lmcs : ~dec.lmcs[id].changed
  BY DEF IInv, SlicesInv, Decoded, InSlices
<1>4. NoneChanged(dec, slice) = TRUE
  BY <1>1, <1>3 DEF NoneChanged, ChangedFlag
<1>5. a = [dec EXCEPT !.failed = FALSE]
  BY <1>2, <1>4 DEF Fail
<1>6. a = dec
  BY <1>2, <1>5 DEF HasFields, IsRecord, DecFields
<1>7. ActivatedFor(dec, slice)
  BY <1>1, <1>2, <1>3 DEF ActivatedFor
<1> QED BY <1>6, <1>7

\* What a slice is bound to: the sets in effect, for its PPS, SPS and LMCS set those
\* of the first slice of the picture, which are the same.
LEMMA BoundFacts ==
  ASSUME IInv, unit.phase = "prefix" \/ (unit.phase = "slices" /\ ~unit.skipped),
         NEW slice \in SlicesInEffect, NEW a, ActivatedFor(a, slice), NEW b, b = Bound(a, slice)
  PROVE  /\ b.pps = a.pps[slice.pps].nalu /\ b.pps = inEffect.pps[slice.pps]
         /\ b.sps = a.sps[b.pps.sps].nalu /\ b.sps = inEffect.sps[b.pps.sps]
         /\ b.lmcs = [id \in slice.lmcs |-> a.lmcs[id].nalu]
         /\ b.lmcs = [id \in slice.lmcs |-> inEffect.lmcs[id]]
         /\ slice.alf \subseteq DOMAIN b.alf
         /\ \A id \in slice.alf : b.alf[id] = inEffect.alf[id]
         /\ \A id \in DOMAIN b.alf : id \in DOMAIN a.alf /\ b.alf[id] = a.alf[id].nalu
         /\ dec.slices # <<>> =>
              b.pps = dec.slices[1].pps /\ b.sps = dec.slices[1].sps /\ b.lmcs = dec.slices[1].lmcs
<1> DEFINE first == unit.slice[1]
<1>1. /\ slice.pps \in DOMAIN dec.pps /\ inEffect.pps[slice.pps].sps \in DOMAIN dec.sps
      /\ slice.alf \subseteq DOMAIN dec.alf /\ slice.lmcs \subseteq DOMAIN dec.lmcs
      /\ dec.pps[slice.pps].nalu = inEffect.pps[slice.pps]
      /\ unit.phase = "slices" => slice.pps = first.pps /\ slice.lmcs = first.lmcs
      /\ SameSets(dec, inEffect)
  BY SliceFacts
<1>2. /\ \A kind \in Kinds : DOMAIN dec[kind] = DOMAIN inEffect[kind] /\ DOMAIN a[kind] = DOMAIN dec[kind]
      /\ \A kind \in Kinds : \A id \in DOMAIN dec[kind] : a[kind][id].nalu = dec[kind][id].nalu
      /\ \A kind \in Kinds : \A id \in DOMAIN dec[kind] : dec[kind][id].nalu = inEffect[kind][id]
  BY <1>1 DEF ActivatedFor, SameSets
<1>3. /\ DOMAIN a.alf = DOMAIN dec.alf
      /\ \A id \in DOMAIN dec.sps : a.sps[id].nalu = dec.sps[id].nalu /\ dec.sps[id].nalu = inEffect.sps[id]
      /\ \A id \in DOMAIN dec.pps : a.pps[id].nalu = dec.pps[id].nalu
      /\ \A id \in DOMAIN dec.alf : a.alf[id].nalu = dec.alf[id].nalu /\ dec.alf[id].nalu = inEffect.alf[id]
      /\ \A id \in DOMAIN dec.lmcs : a.lmcs[id].nalu = dec.lmcs[id].nalu /\ dec.lmcs[id].nalu = inEffect.lmcs[id]
  BY <1>2 DEF Kinds
<1>4. a.slices = dec.slices BY DEF ActivatedFor, DecFields, Kinds
<1>5. IsSeq(dec.slices) BY DEF IInv, TypeOK
<1>6. /\ b.pps = inEffect.pps[slice.pps] /\ b.sps = inEffect.sps[b.pps.sps]
      /\ b.lmcs = [id \in slice.lmcs |-> inEffect.lmcs[id]]
      /\ b.alf = AlfApss(a, slice)
      /\ dec.slices # <<>> =>
           b.pps = dec.slices[1].pps /\ b.sps = dec.slices[1].sps /\ b.lmcs = dec.slices[1].lmcs
  <2>1. CASE dec.slices = <<>>
    <3>1. /\ b.pps = a.pps[slice.pps].nalu /\ b.sps = a.sps[b.pps.sps].nalu
          /\ b.lmcs = [id \in slice.lmcs |-> a.lmcs[id].nalu]
          /\ b.alf = AlfApss(a, slice)
      BY <1>4, <2>1 DEF Bound, GetPS, LmcsApss
    <3>2. [id \in slice.lmcs |-> a.lmcs[id].nalu] = [id \in slice.lmcs |-> inEffect.lmcs[id]]
      BY <1>1, <1>3
    <3> QED BY <1>1, <1>3, <2>1, <3>1, <3>2
  <2>2. CASE dec.slices # <<>>
    <3>1. Decoded /\ unit.phase = "slices"
      BY <2>2 DEF IInv, SlicesInv, Decoded, InSlices
    <3>2. /\ b.pps = dec.slices[1].pps /\ b.sps = dec.slices[1].sps /\ b.lmcs = dec.slices[1].lmcs
          /\ b.alf = AlfApss(a, slice)
      BY <1>4, <2>2 DEF Bound
    <3>3. /\ dec.slices[1].pps = dec.pps[first.pps].nalu
          /\ dec.slices[1].sps = dec.sps[dec.slices[1].pps.sps].nalu
          /\ dec.slices[1].lmcs = [id \in first.lmcs |-> dec.lmcs[id].nalu]
      BY <3>1 DEF IInv, SlicesInv
    <3>4. [id \in first.lmcs |-> dec.lmcs[id].nalu] = [id \in slice.lmcs |-> inEffect.lmcs[id]]
      BY <1>1, <1>3, <3>1
    <3>5. dec.slices[1].pps = inEffect.pps[slice.pps]
      BY <1>1, <3>1, <3>3
    <3>6. dec.slices[1].sps = inEffect.sps[dec.slices[1].pps.sps]
      BY <1>1, <1>3, <3>3, <3>5
    <3> HIDE DEF first
    <3> QED BY <2>2, <3>2, <3>3, <3>4, <3>5, <3>6
  <2> QED BY <2>1, <2>2
<1>7. /\ b.pps = a.pps[slice.pps].nalu /\ b.sps = a.sps[b.pps.sps].nalu
      /\ b.lmcs = [id \in slice.lmcs |-> a.lmcs[id].nalu]
  BY <1>1, <1>3, <1>6
<1> DEFINE before == IF dec.slices = <<>> THEN NoSets ELSE Last(dec.slices).alf
<1>8. b.alf = [id \in DOMAIN before \union slice.alf |->
                 IF id \in slice.alf THEN a.alf[id].nalu ELSE before[id]]
  BY <1>4, <1>6 DEF AlfApss, GetPS
<1>9. \A id \in DOMAIN before : id \in DOMAIN a.alf /\ before[id] = a.alf[id].nalu
  <2>1. CASE dec.slices = <<>>
    BY <2>1, EmptyIsSeq DEF NoSets
  <2>2. CASE dec.slices # <<>>
    <3>1. /\ Len(dec.slices) \in DOMAIN dec.slices
          /\ before = dec.slices[Len(dec.slices)].alf
      BY <1>5, <2>2 DEF IsSeq, Last
    <3>2. \A i \in DOMAIN dec.slices : \A id \in DOMAIN dec.slices[i]["alf"] :
            id \in DOMAIN dec["alf"] /\ dec.slices[i]["alf"][id] = dec["alf"][id].nalu
      BY DEF IInv, SlicesInv, ApsTypes
    <3> HIDE DEF before
    <3> QED BY <1>3, <3>1, <3>2
  <2> QED BY <2>1, <2>2
<1> HIDE DEF before
<1>10. /\ slice.alf \subseteq DOMAIN b.alf
       /\ \A id \in slice.alf : b.alf[id] = inEffect.alf[id]
       /\ \A id \in DOMAIN b.alf : id \in DOMAIN a.alf /\ b.alf[id] = a.alf[id].nalu
  BY <1>1, <1>3, <1>8, <1>9
<1> QED BY <1>6, <1>7, <1>10

\* A slice that is decoded, once its sets are activated.
LEMMA DecodedSliceStep ==
  ASSUME IInv, unit.phase = "prefix" \/ (unit.phase = "slices" /\ ~unit.skipped),
         NEW slice \in SlicesInEffect, NEW a, ActivatedFor(a, slice),
         dec' = [Noted(a, "slice") EXCEPT
             !.slices = Append(@, Bound(a, slice)),
             !.active = [alf |-> @.alf \union slice.alf, lmcs |-> @.lmcs \union slice.lmcs],
             !.prevSliceSkipped = FALSE, !.firstSliceInPicture = FALSE,
             !.firstSliceInSequence = FALSE, !.decodedSliceInAU = TRUE],
         unit.phase = "prefix" => dec.firstSliceInPicture,
         unit' = [unit EXCEPT !.phase = "slices", !.slices = @ + 1, !.skipped = FALSE,
                              !.slice = <<[pps |-> slice.pps, lmcs |-> slice.lmcs]>>],
         expected' = Append(expected, CodedWith(slice)),
         inEffect' = inEffect, upcoming' = upcoming
  PROVE  IInv'
<1> DEFINE b == Bound(a, slice)
<1>1. /\ dec.suffixApsNalus = <<>> /\ Finished = dec /\ upcoming = inEffect
      /\ slice.pps \in DOMAIN dec.pps /\ inEffect.pps[slice.pps].sps \in DOMAIN dec.sps
      /\ slice.alf \subseteq DOMAIN dec.alf /\ slice.lmcs \subseteq DOMAIN dec.lmcs
  BY SliceFacts
<1>2. /\ b.pps = a.pps[slice.pps].nalu /\ b.pps = inEffect.pps[slice.pps]
      /\ b.sps = a.sps[b.pps.sps].nalu /\ b.sps = inEffect.sps[b.pps.sps]
      /\ b.lmcs = [id \in slice.lmcs |-> a.lmcs[id].nalu]
      /\ b.lmcs = [id \in slice.lmcs |-> inEffect.lmcs[id]]
      /\ slice.alf \subseteq DOMAIN b.alf
      /\ \A id \in slice.alf : b.alf[id] = inEffect.alf[id]
      /\ \A id \in DOMAIN b.alf : id \in DOMAIN a.alf /\ b.alf[id] = a.alf[id].nalu
      /\ dec.slices # <<>> =>
           b.pps = dec.slices[1].pps /\ b.sps = dec.slices[1].sps /\ b.lmcs = dec.slices[1].lmcs
  BY BoundFacts
<1> HIDE DEF b
<1>3. TypeOK /\ HasFields(a) /\ MapsOK(a) /\ SameSets(a, inEffect)
  BY DEF IInv, ActivatedFor, MapsOK
<1>4. /\ a.pictureUnitNals = dec.pictureUnitNals /\ a.slices = dec.slices
      /\ a.accessUnitApsNals = dec.accessUnitApsNals /\ a.suffixApsNalus = dec.suffixApsNalus
  BY DEF ActivatedFor, DecFields, Kinds
<1>5. /\ HasFields(Noted(a, "slice")) /\ Agree(a, Noted(a, "slice"))
      /\ Noted(a, "slice").pictureUnitNals = Append(a.pictureUnitNals, "slice")
      /\ \A f \in DecFields : f # "pictureUnitNals" => Noted(a, "slice")[f] = a[f]
  BY <1>3, NotedFields
<1>6. /\ HasFields(dec')
      /\ dec'.pictureUnitNals = Append(dec.pictureUnitNals, "slice")
      /\ dec'.slices = Append(dec.slices, b)
      /\ dec'.prevSliceSkipped = FALSE /\ dec'.firstSliceInPicture = FALSE
      /\ dec'.firstSliceInSequence = FALSE /\ dec'.decodedSliceInAU = TRUE
      /\ \A f \in DecFields : f \notin {"pictureUnitNals", "slices", "active", "prevSliceSkipped",
            "firstSliceInPicture", "firstSliceInSequence", "decodedSliceInAU"} => dec'[f] = a[f]
  BY <1>4, <1>5 DEF HasFields, IsRecord, DecFields, b
<1>7. /\ \A kind \in Kinds : dec'[kind] = a[kind]
      /\ dec'.sps = a.sps /\ dec'.pps = a.pps /\ dec'.alf = a.alf /\ dec'.lmcs = a.lmcs
      /\ dec'.failed = a.failed /\ dec'.accessUnitApsNals = dec.accessUnitApsNals
      /\ dec'.suffixApsNalus = dec.suffixApsNalus
  BY <1>4, <1>6 DEF DecFields, Kinds
<1>8. MapsOK(dec') /\ SameSets(dec', inEffect)
  <2>1. MapsOK(dec') BY <1>3, <1>4, <1>6, <1>7 DEF MapsOK
  <2>2. SameSets(dec', inEffect) BY <1>3, <1>7 DEF SameSets
  <2> QED BY <2>1, <2>2
<1>9. /\ IsRecord(unit', UnitFields) /\ unit'.apss = unit.apss
      /\ unit'.phase = "slices" /\ unit'.skipped = FALSE
      /\ unit'.slice[1] = [pps |-> slice.pps, lmcs |-> slice.lmcs]
  BY <1>3 DEF TypeOK, IsRecord, UnitFields
<1>10. InSlices' /\ ~Skipped' /\ Decoded' BY <1>9 DEF InSlices, Skipped, Decoded
<1>11. /\ IsSeq(dec'.slices) /\ DOMAIN dec.slices = 1 .. Len(dec.slices) /\ Len(dec.slices) \in Nat
       /\ DOMAIN dec'.slices = 1 .. Len(dec.slices) + 1 /\ Len(dec'.slices) = Len(dec.slices) + 1
       /\ \A i \in 1 .. Len(dec.slices) : dec'.slices[i] = dec.slices[i]
       /\ dec'.slices[Len(dec.slices) + 1] = b
  <2>1. IsSeq(dec.slices) BY <1>3 DEF TypeOK
  <2> DEFINE t == Append(dec.slices, b)
  <2>2. /\ IsSeq(t) /\ DOMAIN dec.slices = 1 .. Len(dec.slices) /\ Len(dec.slices) \in Nat
        /\ DOMAIN t = 1 .. Len(dec.slices) + 1 /\ Len(t) = Len(dec.slices) + 1
        /\ \A i \in 1 .. Len(dec.slices) : t[i] = dec.slices[i]
        /\ t[Len(dec.slices) + 1] = b
    BY <2>1, AppendIsSeq
  <2>3. dec'.slices = t BY <1>6
  <2> HIDE DEF t
  <2> QED BY <2>2, <2>3
<1>12. /\ IsSeq(expected') /\ DOMAIN expected = 1 .. Len(expected) /\ Len(expected) \in Nat
       /\ DOMAIN expected' = 1 .. Len(expected) + 1 /\ Len(expected') = Len(expected) + 1
       /\ \A i \in 1 .. Len(expected) : expected'[i] = expected[i]
       /\ expected'[Len(expected) + 1] = CodedWith(slice)
  BY <1>3, AppendIsSeq DEF TypeOK
<1>13. /\ dec'.pictureUnitNals \in Seq({"prefix", "slice", "suffix"})
       /\ ApsInOrder(dec'.pictureUnitNals)
       /\ \A i \in DOMAIN dec'.pictureUnitNals : dec'.pictureUnitNals[i] # "suffix"
  <2> DEFINE nals == dec.pictureUnitNals
  <2>1. /\ nals \in Seq({"prefix", "slice", "suffix"}) /\ ApsInOrder(nals)
        /\ \A i \in DOMAIN nals : nals[i] # "suffix"
    BY <1>3 DEF TypeOK, IInv, OrderInv
  <2> HIDE DEF nals
  <2>2. /\ Append(nals, "slice") \in Seq({"prefix", "slice", "suffix"})
        /\ DOMAIN Append(nals, "slice") = 1 .. Len(nals) + 1 /\ DOMAIN nals = 1 .. Len(nals)
        /\ \A i \in 1 .. Len(nals) : Append(nals, "slice")[i] = nals[i]
        /\ Append(nals, "slice")[Len(nals) + 1] = "slice" /\ Len(nals) \in Nat
    BY <2>1
  <2>3. ApsInOrder(Append(nals, "slice"))
    BY <2>1, <2>2 DEF ApsInOrder
  <2>4. \A i \in DOMAIN Append(nals, "slice") : Append(nals, "slice")[i] # "suffix"
    BY <2>1, <2>2
  <2> QED BY <1>6, <2>2, <2>3, <2>4 DEF nals
<1>14. TypeOK'
  <2>1. IsSeq(dec'.suffixApsNalus) /\ \A u \in unit'.apss : IsApsUnit(u)
    BY <1>3, <1>7, <1>9 DEF TypeOK
  <2>2. IsRecord(inEffect', Kinds) /\ IsRecord(upcoming', Kinds)
    BY <1>3 DEF TypeOK
  <2>3. /\ dec'.prevSliceSkipped \in BOOLEAN /\ dec'.firstSliceInPicture \in BOOLEAN
        /\ dec'.firstSliceInSequence \in BOOLEAN /\ dec'.decodedSliceInAU \in BOOLEAN
    BY <1>6
  <2>4. unit'.phase \in {"prefix", "slices", "suffix"} /\ unit'.skipped \in BOOLEAN
    BY <1>9
  <2> QED BY <1>8, <1>9, <1>11, <1>12, <1>13, <2>1, <2>2, <2>3, <2>4 DEF TypeOK
<1>15. StreamInv' BY <1>1, <1>9 DEF IInv, StreamInv
<1>16. FlagsInv' BY <1>6, <1>9, <1>10 DEF FlagsInv
<1>17. OrderInv' BY <1>9, <1>13 DEF OrderInv
<1>18. SuffixInv' BY <1>1, <1>7, <1>10, EmptyIsSeq DEF SuffixInv
<1>19. SetsInv'
  <2>1. Finished' = dec' BY <1>1, <1>7, DecodeApssNone DEF Finished
  <2>2. NotedAreSent(dec, unit.apss)
    BY <1>1 DEF IInv, SetsInv, Started, InSlices
  <2>3. /\ \A t \in ApsTypes : DOMAIN dec'[t] = DOMAIN dec[t]
        /\ \A t \in ApsTypes : \A id \in DOMAIN dec[t] : dec'[t][id].nalu = dec[t][id].nalu
    BY <1>7 DEF ActivatedFor, ApsTypes, Kinds
  <2>4. NotedAreSent(dec', unit.apss)
    BY <1>7, <2>2, <2>3 DEF NotedAreSent
  <2> QED BY <1>1, <1>8, <1>9, <1>10, <2>1, <2>4 DEF SetsInv
<1>20. DecodesWithTheSetsInEffect'
  <2>1. /\ Len(dec.slices) = Len(expected)
        /\ \A i \in DOMAIN expected :
             /\ dec.slices[i].sps = expected[i].sps /\ dec.slices[i].pps = expected[i].pps
             /\ dec.slices[i].lmcs = expected[i].lmcs
             /\ Restrict(dec.slices[i].alf, DOMAIN expected[i].alf) = expected[i].alf
    BY DEF IInv, SlicesInv, DecodesWithTheSetsInEffect
  <2> DEFINE was == CodedWith(slice)
  <2>2. /\ b.sps = was.sps /\ b.pps = was.pps /\ b.lmcs = was.lmcs
        /\ was.alf = [id \in slice.alf |-> inEffect.alf[id]]
    BY <1>2 DEF CodedWith
  <2>3. Restrict(b.alf, DOMAIN was.alf) = was.alf
    <3> HIDE DEF was
    <3> QED BY <1>2, <2>2 DEF Restrict
  <2> HIDE DEF was
  <2>4. ASSUME NEW i \in DOMAIN expected'
        PROVE  /\ dec'.slices[i].sps = expected'[i].sps /\ dec'.slices[i].pps = expected'[i].pps
               /\ dec'.slices[i].lmcs = expected'[i].lmcs
               /\ Restrict(dec'.slices[i].alf, DOMAIN expected'[i].alf) = expected'[i].alf
    <3>1. CASE i \in DOMAIN expected
      <4>1. dec'.slices[i] = dec.slices[i] /\ expected'[i] = expected[i]
        BY <1>11, <1>12, <2>1, <3>1
      <4> QED BY <2>1, <3>1, <4>1
    <3>2. CASE i \notin DOMAIN expected
      <4>1. dec'.slices[i] = b /\ expected'[i] = was
        BY <1>11, <1>12, <2>1, <3>2 DEF was
      <4> QED BY <2>2, <2>3, <4>1
    <3> QED BY <3>1, <3>2
  <2> QED BY <1>11, <1>12, <2>1, <2>4 DEF DecodesWithTheSetsInEffect
<1>21. \A i \in DOMAIN dec'.slices, t \in ApsTypes : \A id \in DOMAIN dec'.slices[i][t] :
         id \in DOMAIN dec'[t] /\ dec'.slices[i][t][id] = dec'[t][id].nalu
  <2> SUFFICES ASSUME NEW i \in DOMAIN dec'.slices, NEW t \in ApsTypes,
                      NEW id \in DOMAIN dec'.slices[i][t]
               PROVE  id \in DOMAIN dec'[t] /\ dec'.slices[i][t][id] = dec'[t][id].nalu
    OBVIOUS
  <2>1. CASE i \in DOMAIN dec.slices
    <3>1. dec'.slices[i] = dec.slices[i] BY <1>11, <2>1
    <3>2. id \in DOMAIN dec[t] /\ dec.slices[i][t][id] = dec[t][id].nalu
      BY <2>1, <3>1 DEF IInv, SlicesInv
    <3>3. t \in Kinds BY DEF ApsTypes, Kinds
    <3>4. DOMAIN a[t] = DOMAIN dec[t] /\ a[t][id].nalu = dec[t][id].nalu
      BY <3>2, <3>3 DEF ActivatedFor
    <3> QED BY <1>7, <3>1, <3>2, <3>3, <3>4
  <2>2. CASE i \notin DOMAIN dec.slices
    <3> HIDE DEF b
    <3>0. i = Len(dec.slices) + 1
      BY <1>11, <2>2
    <3>1. dec'.slices[i] = b BY <1>11, <3>0
    <3>2. /\ dec'["alf"] = a["alf"] /\ dec'["lmcs"] = a["lmcs"]
          /\ slice.lmcs \subseteq DOMAIN a["lmcs"]
      BY <1>1, <1>7 DEF ActivatedFor, Kinds
    <3>3. CASE t = "alf" BY <1>2, <3>1, <3>2, <3>3
    <3>4. CASE t = "lmcs" BY <1>2, <3>1, <3>2, <3>4
    <3> QED BY <3>3, <3>4 DEF ApsTypes
  <2> QED BY <2>1, <2>2
<1>22. SlicesInv'
  <2>1. /\ dec'.slices # <<>> /\ dec'.slices[1].pps = b.pps /\ dec'.slices[1].sps = b.sps
        /\ dec'.slices[1].lmcs = b.lmcs
    <3>1. CASE dec.slices = <<>>
      <4>1. Len(dec.slices) = 0 BY <3>1
      <4> QED BY <1>11, <4>1, EmptyIsSeq
    <3>2. CASE dec.slices # <<>>
      <4>1. 1 \in 1 .. Len(dec.slices)
        BY <1>3, <3>2 DEF TypeOK, IsSeq
      <4> QED BY <1>2, <1>11, <3>2, <4>1, EmptyIsSeq
    <3> QED BY <3>1, <3>2
  <2>2. /\ DOMAIN a.pps = DOMAIN dec.pps /\ DOMAIN a.lmcs = DOMAIN dec.lmcs
        /\ ~a.pps[slice.pps].changed /\ ~a.sps[b.pps.sps].changed
        /\ \A id \in DOMAIN a.alf : ~a.alf[id].changed
        /\ \A id \in slice.lmcs : ~a.lmcs[id].changed
    BY <1>2 DEF ActivatedFor, Kinds
  <2>3. /\ slice.pps \in DOMAIN dec'.pps /\ slice.lmcs \subseteq DOMAIN dec'.lmcs
        /\ dec'.slices[1].pps = dec'.pps[slice.pps].nalu
        /\ dec'.slices[1].sps = dec'.sps[dec'.slices[1].pps.sps].nalu
        /\ dec'.slices[1].lmcs = [id \in slice.lmcs |-> dec'.lmcs[id].nalu]
        /\ ~dec'.pps[slice.pps].changed /\ ~dec'.sps[dec'.slices[1].pps.sps].changed
        /\ \A id \in DOMAIN dec'.alf : ~dec'.alf[id].changed
        /\ \A id \in slice.lmcs : ~dec'.lmcs[id].changed
    BY <1>1, <1>2, <1>7, <2>1, <2>2
  <2>4. unit'.slice[1].pps = slice.pps /\ unit'.slice[1].lmcs = slice.lmcs
    BY <1>9
  <2> QED BY <1>10, <1>20, <1>21, <2>1, <2>3, <2>4 DEF SlicesInv
<1> QED BY <1>14, <1>15, <1>16, <1>17, <1>18, <1>19, <1>22 DEF IInv

\* The three cases of a slice.
LEMMA ReceiveSliceStep ==
  ASSUME IInv, ReceiveSlice PROVE IInv'
<1>1. PICK slice \in SlicesInEffect, skipped \in BOOLEAN :
        /\ unit.phase = "slices" => skipped = unit.skipped
        /\ dec' = DecodeSlice(dec, slice, skipped)
        /\ unit' = [unit EXCEPT !.phase = "slices", !.slices = @ + 1, !.skipped = skipped,
                               !.slice = <<[pps |-> slice.pps, lmcs |-> slice.lmcs]>>]
        /\ expected' = IF skipped THEN expected ELSE Append(expected, CodedWith(slice))
  BY DEF ReceiveSlice
<1>2. /\ unit.phase \in {"prefix", "slices"}
      /\ unit.phase = "prefix" => dec.firstSliceInPicture
      /\ inEffect' = inEffect /\ upcoming' = upcoming
  BY DEF ReceiveSlice
<1>3. CASE skipped = TRUE
  BY <1>1, <1>2, <1>3, SkippedSliceStep
<1>4. CASE skipped = FALSE
  <2> DEFINE a == IF dec.firstSliceInPicture THEN Activated([dec EXCEPT !.slices = <<>>], slice)
                  ELSE Fail(dec, NoneChanged(dec, slice))
  <2>1. CanBeParsed(dec, slice) BY <1>2, SliceFacts
  <2>2. unit.phase = "prefix" \/ (unit.phase = "slices" /\ ~unit.skipped)
    BY <1>1, <1>2, <1>4
  <2>3. dec.firstSliceInPicture <=> unit.phase = "prefix"
    BY <1>2, <2>2 DEF IInv, FlagsInv, InSlices
  <2>4. ActivatedFor(a, slice)
    BY <2>2, <2>3, FirstSliceActivates, OtherSliceFindsActivated
  <2>5. dec' = [Noted(a, "slice") EXCEPT
             !.slices = Append(@, Bound(a, slice)),
             !.active = [alf |-> @.alf \union slice.alf, lmcs |-> @.lmcs \union slice.lmcs],
             !.prevSliceSkipped = FALSE, !.firstSliceInPicture = FALSE,
             !.firstSliceInSequence = FALSE, !.decodedSliceInAU = TRUE]
    BY <1>1, <1>4, <2>1 DEF DecodeSlice
  <2> HIDE DEF a
  <2> QED BY <1>1, <1>2, <1>4, <2>2, <2>4, <2>5, DecodedSliceStep
<1> QED BY <1>3, <1>4

-----------------------------------------------------------------------------
(* The end of a picture unit.                                              *)

\* finishPicture decodes the waiting APSs and forgets the slices.
LEMMA FinishPictureFields ==
  ASSUME NEW d, HasFields(d), IsSeq(d.suffixApsNalus),
         \A i \in DOMAIN d.suffixApsNalus : d.suffixApsNalus[i].aps \in ApsTypes
  PROVE  /\ HasFields(FinishPicture(d))
         /\ Agree(DecodeApss(d, d.suffixApsNalus), FinishPicture(d))
         /\ FinishPicture(d).suffixApsNalus = <<>> /\ FinishPicture(d).slices = <<>>
         /\ FinishPicture(d).firstSliceInPicture = TRUE
         /\ FinishPicture(d).pictureUnitNals = d.pictureUnitNals
         /\ FinishPicture(d).prevSliceSkipped = d.prevSliceSkipped
         /\ FinishPicture(d).firstSliceInSequence = d.firstSliceInSequence
         /\ FinishPicture(d).decodedSliceInAU = d.decodedSliceInAU
<1> DEFINE f == DecodeApss(d, d.suffixApsNalus)
           e == FinishPicture(d)
<1>1. SameRound(d, d, f, f)
  <2>1. Agree(d, d) BY DEF Agree
  <2> QED BY <2>1, DecodeApssAgree
<1>2. /\ HasFields(f)
      /\ f.pictureUnitNals = d.pictureUnitNals /\ f.prevSliceSkipped = d.prevSliceSkipped
      /\ f.firstSliceInSequence = d.firstSliceInSequence
      /\ f.decodedSliceInAU = d.decodedSliceInAU
  <2> HIDE DEF f
  <2> QED BY <1>1 DEF SameRound, DecFields, ApsFields
<1>3. e = [[f EXCEPT !.suffixApsNalus = <<>>] EXCEPT !.firstSliceInPicture = TRUE, !.slices = <<>>,
                         !.active["alf"] = {}, !.last = [t \in ApsTypes |-> {}]]
  BY DEF FinishPicture, ProcessSuffixApsNalus
<1> HIDE DEF e, f
<1>4. /\ HasFields(e)
      /\ e.suffixApsNalus = <<>> /\ e.slices = <<>> /\ e.firstSliceInPicture = TRUE
      /\ \A x \in DecFields : x \notin {"suffixApsNalus", "firstSliceInPicture", "slices", "active", "last"} =>
           e[x] = f[x]
  BY <1>2, <1>3 DEF HasFields, IsRecord, DecFields
<1>5. Agree(f, e) BY <1>4 DEF Agree, AgreedFields, DecFields
<1>6. /\ e.pictureUnitNals = f.pictureUnitNals /\ e.prevSliceSkipped = f.prevSliceSkipped
      /\ e.firstSliceInSequence = f.firstSliceInSequence /\ e.decodedSliceInAU = f.decodedSliceInAU
  BY <1>4 DEF DecFields
<1> QED BY <1>2, <1>4, <1>5, <1>6 DEF e, f

\* checkAPSInPictureUnit finds nothing.
LEMMA CheckPictureUnitFields ==
  ASSUME NEW d, HasFields(d), d.failed = FALSE, ApsInOrder(d.pictureUnitNals)
  PROVE  /\ HasFields(CheckPictureUnit(d)) /\ Agree(d, CheckPictureUnit(d))
         /\ CheckPictureUnit(d).pictureUnitNals = <<>>
         /\ \A f \in DecFields : f # "pictureUnitNals" => CheckPictureUnit(d)[f] = d[f]
<1> DEFINE e == CheckPictureUnit(d)
<1>1. e = [[d EXCEPT !.pictureUnitNals = <<>>] EXCEPT !.failed = FALSE]
  <2>1. e = [[d EXCEPT !.pictureUnitNals = <<>>] EXCEPT !.failed = @ \/ FALSE]
    BY DEF CheckPictureUnit, Fail
  <2>2. [d EXCEPT !.pictureUnitNals = <<>>].failed = FALSE
    BY DEF HasFields, IsRecord, DecFields
  <2> QED BY <2>1, <2>2
<1> HIDE DEF e
<1>2. /\ HasFields(e) /\ e.pictureUnitNals = <<>>
      /\ \A f \in DecFields : f # "pictureUnitNals" => e[f] = d[f]
  BY <1>1 DEF HasFields, IsRecord, DecFields
<1>3. Agree(d, e) BY <1>2 DEF Agree, AgreedFields, DecFields
<1> QED BY <1>2, <1>3 DEF e

\* Behind a picture unit the decoder has the upcoming sets, no slices and no
\* suffix APSs.  What is left to say is about its flags and its access unit.
LEMMA UnitEnds ==
  ASSUME IInv, EndOfUnit,
         MapsOK(dec'), SameSets(dec', upcoming), dec'.slices = <<>>, dec'.suffixApsNalus = <<>>,
         \A i \in DOMAIN dec'.pictureUnitNals : dec'.pictureUnitNals[i] = "prefix",
         dec'.pictureUnitNals \in Seq({"prefix", "slice", "suffix"}),
         dec'.prevSliceSkipped \in BOOLEAN, dec'.firstSliceInPicture \in BOOLEAN,
         dec'.firstSliceInSequence \in BOOLEAN, dec'.decodedSliceInAU \in BOOLEAN,
         IF dec'.firstSliceInPicture THEN dec'.accessUnitApsNals = [t \in ApsTypes |-> <<>>]
         ELSE dec'.firstSliceInSequence /\ dec'.decodedSliceInAU
  PROVE  IInv'
<1>1. /\ unit' = StartedUnit /\ inEffect' = upcoming /\ upcoming' = upcoming /\ expected' = <<>>
  BY DEF EndOfUnit
<1>2. /\ IsRecord(unit', UnitFields) /\ unit'.phase = "prefix" /\ unit'.skipped = FALSE
      /\ unit'.apss = {}
  BY <1>1 DEF StartedUnit, IsRecord, UnitFields
<1>3. ~InSlices' /\ ~Skipped' /\ ~Decoded' BY <1>2 DEF InSlices, Skipped, Decoded
<1>4. IsRecord(upcoming, Kinds) /\ PpsHaveSps(upcoming) BY DEF IInv, TypeOK, StreamInv
<1>5. TypeOK' BY <1>1, <1>2, <1>4, EmptyIsSeq DEF TypeOK
<1>6. StreamInv' BY <1>1, <1>2, <1>4 DEF StreamInv
<1>7. FlagsInv' BY <1>1, <1>2, <1>3 DEF FlagsInv
<1>8. OrderInv' BY <1>2 DEF OrderInv, ApsInOrder
<1>9. SuffixInv' BY <1>2, <1>3, EmptyIsSeq DEF SuffixInv
<1>10. SetsInv'
  <2>1. Finished' = dec' BY DecodeApssNone DEF Finished
  <2>2. dec'.firstSliceInPicture => NotedAreSent(dec', {})
    BY EmptyIsSeq DEF NotedAreSent
  <2> QED BY <1>1, <1>2, <1>3, <2>1, <2>2 DEF SetsInv, Started
<1>11. SlicesInv'
  BY <1>1, <1>3, EmptyIsSeq DEF SlicesInv, DecodesWithTheSetsInEffect
<1> QED BY <1>5, <1>6, <1>7, <1>8, <1>9, <1>10, <1>11 DEF IInv

\* The reset of the access unit.
LEMMA ResetFields ==
  ASSUME NEW d, HasFields(d)
  PROVE  LET e == [ResetAccessUnit(d) EXCEPT !.decodedSliceInAU = FALSE] IN
         /\ HasFields(e) /\ e.accessUnitApsNals = [t \in ApsTypes |-> <<>>]
         /\ e.decodedSliceInAU = FALSE
         /\ \A f \in DecFields : f \notin {"accessUnitApsNals", "decodedSliceInAU"} => e[f] = d[f]
  BY DEF ResetAccessUnit, HasFields, IsRecord, DecFields

\* A picture unit with decoded slices: what FinishPicture and CheckPictureUnit leave.
LEMMA DecodedUnitFinished ==
  ASSUME IInv, Decoded
  PROVE  LET e == CheckPictureUnit(FinishPicture(dec)) IN
         /\ HasFields(e) /\ MapsOK(e) /\ SameSets(e, upcoming)
         /\ e.slices = <<>> /\ e.suffixApsNalus = <<>> /\ e.pictureUnitNals = <<>>
         /\ e.firstSliceInPicture = TRUE /\ e.prevSliceSkipped = FALSE
         /\ e.firstSliceInSequence = FALSE /\ e.decodedSliceInAU = TRUE
<1> DEFINE p == FinishPicture(dec)
           e == CheckPictureUnit(p)
<1>1. /\ HasFields(dec) /\ IsSeq(dec.suffixApsNalus) /\ MapsOK(Finished)
      /\ SameSets(Finished, upcoming) /\ ApsInOrder(dec.pictureUnitNals)
      /\ \A i \in DOMAIN dec.suffixApsNalus : dec.suffixApsNalus[i].aps \in ApsTypes
  BY DEF IInv, TypeOK, MapsOK, SetsInv, OrderInv, SuffixInv, IsApsUnit
<1>2. /\ dec.prevSliceSkipped = FALSE /\ dec.firstSliceInSequence = FALSE
      /\ dec.decodedSliceInAU = TRUE
  BY DEF IInv, TypeOK, FlagsInv, Decoded
<1>3. /\ HasFields(p) /\ Agree(Finished, p) /\ p.suffixApsNalus = <<>> /\ p.slices = <<>>
      /\ p.firstSliceInPicture = TRUE /\ p.pictureUnitNals = dec.pictureUnitNals
      /\ p.prevSliceSkipped = dec.prevSliceSkipped
      /\ p.firstSliceInSequence = dec.firstSliceInSequence
      /\ p.decodedSliceInAU = dec.decodedSliceInAU
  BY <1>1, FinishPictureFields DEF Finished
<1> HIDE DEF p
<1>4. MapsOK(p) /\ SameSets(p, upcoming)
  BY <1>1, <1>3, AgreeKeeps
<1>5. /\ HasFields(e) /\ Agree(p, e) /\ e.pictureUnitNals = <<>>
      /\ \A x \in DecFields : x # "pictureUnitNals" => e[x] = p[x]
  <2>1. p.failed = FALSE BY <1>4 DEF MapsOK
  <2> QED BY <1>1, <1>3, <2>1, CheckPictureUnitFields
<1> HIDE DEF e
<1>6. MapsOK(e) /\ SameSets(e, upcoming) BY <1>4, <1>5, AgreeKeeps
<1>7. /\ e.slices = <<>> /\ e.suffixApsNalus = <<>> /\ e.firstSliceInPicture = TRUE
      /\ e.prevSliceSkipped = FALSE /\ e.firstSliceInSequence = FALSE
      /\ e.decodedSliceInAU = TRUE
  BY <1>2, <1>3, <1>5 DEF DecFields
<1> QED BY <1>5, <1>6, <1>7 DEF e, p

\* The unit ahead starts a picture.  Behind an EOS the picture unit goes on.
LEMMA StartPictureStep ==
  ASSUME IInv, StartPicture PROVE IInv'
<1>1. /\ TypeOK /\ MapsOK(dec) /\ HasFields(dec)
      /\ dec.firstSliceInPicture = FALSE /\ dec' = NewPicture(dec)
  BY DEF StartPicture, IInv, TypeOK, MapsOK
<1>2. CASE InSlices /\ EndOfUnit
  <2>1. Decoded
    BY <1>1, <1>2 DEF IInv, TypeOK, FlagsInv, Decoded
  <2> DEFINE e == CheckPictureUnit(FinishPicture(dec))
  <2>2. /\ HasFields(e) /\ MapsOK(e) /\ SameSets(e, upcoming)
        /\ e.slices = <<>> /\ e.suffixApsNalus = <<>> /\ e.pictureUnitNals = <<>>
        /\ e.firstSliceInPicture = TRUE /\ e.prevSliceSkipped = FALSE
        /\ e.firstSliceInSequence = FALSE
    BY <2>1, DecodedUnitFinished
  <2>3. dec.firstSliceInSequence = FALSE /\ dec.decodedSliceInAU = TRUE
    BY <2>1 DEF IInv, FlagsInv, Decoded, TypeOK
  <2>4. dec' = [ResetAccessUnit(e) EXCEPT !.decodedSliceInAU = FALSE]
    BY <1>1, <2>3 DEF NewPicture
  <2> HIDE DEF e
  <2>5. /\ HasFields(dec') /\ dec'.accessUnitApsNals = [t \in ApsTypes |-> <<>>]
        /\ dec'.decodedSliceInAU = FALSE
        /\ \A f \in DecFields : f \notin {"accessUnitApsNals", "decodedSliceInAU"} => dec'[f] = e[f]
    BY <2>2, <2>4, ResetFields
  <2>6. /\ \A kind \in Kinds : dec'[kind] = e[kind]
        /\ dec'.failed = e.failed /\ dec'.slices = <<>> /\ dec'.suffixApsNalus = <<>>
        /\ dec'.pictureUnitNals = <<>> /\ dec'.firstSliceInPicture = TRUE
        /\ dec'.prevSliceSkipped = FALSE /\ dec'.firstSliceInSequence = FALSE
    BY <2>2, <2>5 DEF DecFields, Kinds
  <2>7. MapsOK(dec') BY <2>2, <2>5, <2>6, EmptyIsSeq DEF MapsOK
  <2>8. SameSets(dec', upcoming) BY <2>2, <2>6 DEF SameSets
  <2>9. /\ <<>> \in Seq({"prefix", "slice", "suffix"}) OBVIOUS
  <2>10. \A i \in DOMAIN dec'.pictureUnitNals : dec'.pictureUnitNals[i] = "prefix"
    BY <2>6, EmptyIsSeq
  <2> QED BY <1>2, <2>5, <2>6, <2>7, <2>8, <2>9, <2>10, UnitEnds
<1>3. CASE unit.phase = "prefix" /\ UNCHANGED <<unit, inEffect, upcoming, expected>>
  <2>1. /\ ~InSlices /\ ~Skipped /\ ~Decoded /\ unit = StartedUnit
        /\ dec.firstSliceInSequence = TRUE /\ dec.decodedSliceInAU = TRUE
    BY <1>1, <1>3 DEF IInv, TypeOK, FlagsInv, InSlices, Skipped, Decoded
  <2>2. /\ ~InSlices' /\ ~Skipped' /\ ~Decoded' /\ unit'.phase = "prefix"
    BY <1>3 DEF InSlices, Skipped, Decoded
  <2> DEFINE s == [dec EXCEPT !.firstSliceInPicture = TRUE]
             e == CheckPictureUnit(s)
  <2>3. dec' = [ResetAccessUnit(e) EXCEPT !.decodedSliceInAU = FALSE]
    BY <1>1, <2>1 DEF NewPicture
  <2>4. /\ HasFields(s) /\ s.firstSliceInPicture = TRUE
        /\ \A f \in DecFields : f # "firstSliceInPicture" => s[f] = dec[f]
    BY <1>1 DEF HasFields, IsRecord, DecFields
  <2> HIDE DEF s
  <2>5. s.failed = FALSE /\ ApsInOrder(s.pictureUnitNals)
    BY <1>1, <2>4 DEF DecFields, MapsOK, IInv, OrderInv
  <2>6. /\ HasFields(e) /\ e.pictureUnitNals = <<>>
        /\ \A f \in DecFields : f # "pictureUnitNals" => e[f] = s[f]
    BY <2>4, <2>5, CheckPictureUnitFields
  <2> HIDE DEF e
  <2>7. /\ HasFields(dec') /\ dec'.accessUnitApsNals = [t \in ApsTypes |-> <<>>]
        /\ dec'.decodedSliceInAU = FALSE
        /\ \A f \in DecFields : f \notin {"accessUnitApsNals", "decodedSliceInAU"} => dec'[f] = e[f]
    BY <2>3, <2>6, ResetFields
  <2>8. /\ \A f \in DecFields : f \notin {"accessUnitApsNals", "decodedSliceInAU",
                                         "pictureUnitNals", "firstSliceInPicture"} => dec'[f] = dec[f]
        /\ dec'.pictureUnitNals = <<>> /\ dec'.firstSliceInPicture = TRUE
    BY <2>4, <2>6, <2>7 DEF DecFields
  <2>9. /\ \A kind \in Kinds : dec'[kind] = dec[kind]
        /\ dec'.failed = dec.failed /\ dec'.slices = dec.slices
        /\ dec'.suffixApsNalus = dec.suffixApsNalus
        /\ dec'.prevSliceSkipped = dec.prevSliceSkipped
        /\ dec'.firstSliceInSequence = TRUE
    BY <2>1, <2>8 DEF DecFields, Kinds
  <2>10. MapsOK(dec') BY <1>1, <2>7, <2>9, EmptyIsSeq DEF MapsOK
  <2>11. dec.slices = <<>> /\ dec.suffixApsNalus = <<>> /\ expected = <<>>
    <3>1. dec.slices = <<>> /\ dec.suffixApsNalus = <<>>
      BY <1>3, <2>1 DEF IInv, SlicesInv, SuffixInv
    <3>2. Len(expected) = 0 /\ IsSeq(expected)
      BY <3>1, EmptyIsSeq DEF IInv, TypeOK, SlicesInv, DecodesWithTheSetsInEffect
    <3> QED BY <3>1, <3>2 DEF IsSeq
  <2>12. TypeOK'
    <3>1. <<>> \in Seq({"prefix", "slice", "suffix"}) OBVIOUS
    <3> QED BY <1>1, <1>3, <2>7, <2>8, <2>9, <2>10, <3>1 DEF TypeOK
  <2>13. StreamInv' BY <1>3 DEF IInv, StreamInv
  <2>14. FlagsInv' BY <2>2, <2>8 DEF FlagsInv
  <2>15. OrderInv' BY <2>8, EmptyIsSeq DEF OrderInv, ApsInOrder
  <2>16. SuffixInv' BY <1>3, <2>2, <2>9, <2>11, EmptyIsSeq DEF SuffixInv
  <2>17. SetsInv'
    <3>1. Finished = dec /\ Finished' = dec'
      BY <2>9, <2>11, DecodeApssNone DEF Finished
    <3>2. SameSets(dec, inEffect) /\ SameSets(dec, upcoming)
      BY <2>1, <3>1 DEF IInv, SetsInv
    <3>3. SameSets(dec', inEffect) /\ SameSets(dec', upcoming)
      BY <2>9, <3>2 DEF SameSets
    <3>4. NotedAreSent(dec', unit.apss)
      BY <2>7, EmptyIsSeq DEF NotedAreSent
    <3> QED BY <1>3, <2>10, <3>1, <3>3, <3>4 DEF SetsInv
  <2>18. SlicesInv'
    BY <1>3, <2>2, <2>9, <2>11, EmptyIsSeq DEF SlicesInv, DecodesWithTheSetsInEffect
  <2> QED BY <2>12, <2>13, <2>14, <2>15, <2>16, <2>17, <2>18 DEF IInv
<1> QED BY <1>2, <1>3 DEF StartPicture, InSlices

\* The sets of a skipped picture count; its suffix APSs are in the maps already.
LEMMA SkippedUnitFacts ==
  ASSUME IInv, Skipped
  PROVE  /\ MapsOK(dec) /\ SameSets(dec, upcoming)
         /\ dec.slices = <<>> /\ dec.suffixApsNalus = <<>> /\ dec.pictureUnitNals = <<>>
         /\ dec.accessUnitApsNals = [t \in ApsTypes |-> <<>>]
         /\ dec.firstSliceInPicture = TRUE /\ dec.prevSliceSkipped = TRUE
         /\ dec.decodedSliceInAU = TRUE /\ dec.firstSliceInSequence \in BOOLEAN
<1>1. /\ dec.suffixApsNalus = <<>> /\ dec.slices = <<>> /\ dec.pictureUnitNals = <<>>
      /\ dec.accessUnitApsNals = [t \in ApsTypes |-> <<>>]
  BY DEF IInv, SuffixInv, SlicesInv, Decoded, Skipped
<1>2. Finished = dec BY <1>1, DecodeApssNone DEF Finished
<1>3. MapsOK(dec) /\ SameSets(dec, upcoming) BY <1>2 DEF IInv, SetsInv
<1>4. /\ dec.firstSliceInPicture = TRUE /\ dec.prevSliceSkipped = TRUE
      /\ dec.decodedSliceInAU = TRUE /\ dec.firstSliceInSequence \in BOOLEAN
  BY DEF IInv, FlagsInv, TypeOK, Skipped
<1> QED BY <1>1, <1>3, <1>4

\* Behind a skipped picture the decoder goes on without looking ahead.
LEMMA SkippedPictureEndsStep ==
  ASSUME IInv, SkippedPictureEnds PROVE IInv'
<1>1. Skipped /\ EndOfUnit /\ dec' = dec
  BY DEF SkippedPictureEnds, IInv, FlagsInv, TypeOK, InSlices, Skipped
<1>2. /\ MapsOK(dec) /\ SameSets(dec, upcoming)
      /\ dec.slices = <<>> /\ dec.suffixApsNalus = <<>> /\ dec.pictureUnitNals = <<>>
      /\ dec.accessUnitApsNals = [t \in ApsTypes |-> <<>>]
      /\ dec.firstSliceInPicture = TRUE /\ dec.prevSliceSkipped = TRUE
      /\ dec.decodedSliceInAU = TRUE /\ dec.firstSliceInSequence \in BOOLEAN
  BY <1>1, SkippedUnitFacts
<1>3. \A i \in DOMAIN dec.pictureUnitNals : dec.pictureUnitNals[i] = "prefix"
  BY <1>2, EmptyIsSeq
<1>4. <<>> \in Seq({"prefix", "slice", "suffix"}) OBVIOUS
<1> QED BY <1>1, <1>2, <1>3, <1>4, UnitEnds

\* An EOS finishes the picture, or finds it skipped.
LEMMA ReceiveEOSStep ==
  ASSUME IInv, ReceiveEOS PROVE IInv'
<1>1. InSlices /\ EndOfUnit /\ dec' = DecodeEOS(dec) /\ MapsOK(dec) /\ HasFields(dec)
  BY DEF ReceiveEOS, InSlices, IInv, TypeOK, MapsOK
<1> DEFINE cleared == [dec EXCEPT !.prevSliceSkipped = FALSE]
           finished == IF dec.firstSliceInSequence THEN cleared ELSE FinishPicture(cleared)
           e == CheckPictureUnit(finished)
<1>2. dec' = [e EXCEPT !.firstSliceInSequence = TRUE, !.firstSliceInPicture = FALSE]
  BY <1>1 DEF DecodeEOS
<1>3. /\ HasFields(cleared) /\ cleared.prevSliceSkipped = FALSE
      /\ \A f \in DecFields : f # "prevSliceSkipped" => cleared[f] = dec[f]
  BY <1>1 DEF HasFields, IsRecord, DecFields
<1>4. /\ HasFields(e) /\ MapsOK(e) /\ SameSets(e, upcoming)
      /\ e.slices = <<>> /\ e.suffixApsNalus = <<>> /\ e.pictureUnitNals = <<>>
      /\ e.prevSliceSkipped = FALSE /\ e.decodedSliceInAU = TRUE
  <2>1. CASE Decoded
    <3>1. dec.firstSliceInSequence = FALSE /\ dec.prevSliceSkipped = FALSE
      BY <2>1 DEF IInv, FlagsInv, TypeOK, Decoded
    <3>2. cleared = dec
      BY <1>1, <3>1 DEF HasFields, IsRecord, DecFields
    <3>3. e = CheckPictureUnit(FinishPicture(dec)) BY <3>1, <3>2
    <3> HIDE DEF e
    <3> QED BY <2>1, <3>3, DecodedUnitFinished
  <2>2. CASE Skipped
    <3>1. /\ SameSets(dec, upcoming)
          /\ dec.slices = <<>> /\ dec.suffixApsNalus = <<>> /\ dec.pictureUnitNals = <<>>
          /\ dec.decodedSliceInAU = TRUE /\ dec.firstSliceInSequence \in BOOLEAN
      BY <2>2, SkippedUnitFacts
    <3> HIDE DEF cleared
    <3>2. /\ \A kind \in Kinds : cleared[kind] = dec[kind]
          /\ cleared.accessUnitApsNals = dec.accessUnitApsNals
          /\ cleared.failed = dec.failed /\ cleared.slices = <<>>
          /\ cleared.suffixApsNalus = <<>> /\ cleared.pictureUnitNals = <<>>
          /\ cleared.decodedSliceInAU = TRUE
      BY <1>3, <3>1 DEF DecFields, Kinds
    <3>3. MapsOK(cleared) BY <1>1, <1>3, <3>2 DEF MapsOK
    <3>4. SameSets(cleared, upcoming) BY <3>1, <3>2 DEF SameSets
    <3>5. /\ HasFields(finished) /\ Agree(cleared, finished)
          /\ finished.slices = <<>> /\ finished.suffixApsNalus = <<>>
          /\ finished.pictureUnitNals = <<>>
          /\ finished.prevSliceSkipped = FALSE /\ finished.decodedSliceInAU = TRUE
      <4>1. CASE dec.firstSliceInSequence
        BY <1>3, <3>2, <4>1 DEF Agree
      <4>2. CASE ~dec.firstSliceInSequence
        <5>1. finished = FinishPicture(cleared) BY <4>2
        <5> HIDE DEF finished
        <5>2. IsSeq(cleared.suffixApsNalus) /\ DOMAIN cleared.suffixApsNalus = {}
          BY <3>2, EmptyIsSeq
        <5>3. DecodeApss(cleared, cleared.suffixApsNalus) = cleared
          BY <3>2, DecodeApssNone
        <5> QED BY <1>3, <3>2, <5>1, <5>2, <5>3, FinishPictureFields
      <4> QED BY <4>1, <4>2
    <3> HIDE DEF finished
    <3>6. MapsOK(finished) /\ SameSets(finished, upcoming)
      BY <3>3, <3>4, <3>5, AgreeKeeps
    <3>7. /\ HasFields(e) /\ Agree(finished, e) /\ e.pictureUnitNals = <<>>
          /\ \A x \in DecFields : x # "pictureUnitNals" => e[x] = finished[x]
      <4>1. finished.failed = FALSE BY <3>6 DEF MapsOK
      <4>2. ApsInOrder(finished.pictureUnitNals) BY <3>5, EmptyIsSeq DEF ApsInOrder
      <4> QED BY <3>5, <4>1, <4>2, CheckPictureUnitFields
    <3> HIDE DEF e
    <3>8. MapsOK(e) /\ SameSets(e, upcoming) BY <3>6, <3>7, AgreeKeeps
    <3>9. /\ e.slices = <<>> /\ e.suffixApsNalus = <<>>
          /\ e.prevSliceSkipped = FALSE /\ e.decodedSliceInAU = TRUE
      BY <3>5, <3>7 DEF DecFields
    <3> QED BY <3>7, <3>8, <3>9
  <2> QED BY <1>1, <2>1, <2>2 DEF Decoded, Skipped
<1> HIDE DEF e
<1>5. /\ HasFields(dec') /\ dec'.firstSliceInSequence = TRUE /\ dec'.firstSliceInPicture = FALSE
      /\ \A f \in DecFields : f \notin {"firstSliceInSequence", "firstSliceInPicture"} =>
           dec'[f] = e[f]
  BY <1>2, <1>4 DEF HasFields, IsRecord, DecFields
<1>6. /\ \A kind \in Kinds : dec'[kind] = e[kind]
      /\ dec'.accessUnitApsNals = e.accessUnitApsNals
      /\ dec'.failed = e.failed /\ dec'.slices = <<>> /\ dec'.suffixApsNalus = <<>>
      /\ dec'.pictureUnitNals = <<>> /\ dec'.prevSliceSkipped = FALSE
      /\ dec'.decodedSliceInAU = TRUE
  BY <1>4, <1>5 DEF DecFields, Kinds
<1>7. MapsOK(dec') BY <1>4, <1>5, <1>6 DEF MapsOK
<1>8. SameSets(dec', upcoming) BY <1>4, <1>6 DEF SameSets
<1>9. \A i \in DOMAIN dec'.pictureUnitNals : dec'.pictureUnitNals[i] = "prefix"
  BY <1>6, EmptyIsSeq
<1>10. <<>> \in Seq({"prefix", "slice", "suffix"}) OBVIOUS
<1> QED BY <1>1, <1>5, <1>6, <1>7, <1>8, <1>9, <1>10, UnitEnds
-----------------------------------------------------------------------------
(* The theorems.                                                           *)

\* The initial state satisfies the invariant.
LEMMA InitInv == Init => IInv
<1> SUFFICES ASSUME Init PROVE IInv OBVIOUS
<1>1. dec = InitDec /\ unit = StartedUnit /\ expected = <<>> /\ upcoming = inEffect
      /\ inEffect = [sps |-> NoSets, pps |-> NoSets, alf |-> NoSets, lmcs |-> NoSets]
  BY DEF Init
<1>2. /\ HasFields(dec)
      /\ \A kind \in Kinds : dec[kind] = <<>>
      /\ dec.suffixApsNalus = <<>> /\ dec.accessUnitApsNals = [t \in ApsTypes |-> <<>>]
      /\ dec.pictureUnitNals = <<>> /\ dec.prevSliceSkipped = FALSE
      /\ dec.firstSliceInPicture = TRUE /\ dec.firstSliceInSequence = TRUE
      /\ dec.decodedSliceInAU = FALSE /\ dec.slices = <<>> /\ dec.failed = FALSE
  <2>1. /\ HasFields(dec)
    <3>1. dec = [f \in DecFields |-> dec[f]] BY <1>1 DEF InitDec, DecFields
    <3>2. dec.accessUnitApsNals = [t \in ApsTypes |-> <<>>] BY <1>1 DEF InitDec
    <3> QED BY <3>1, <3>2 DEF HasFields, IsRecord
  <2>2. \A kind \in Kinds : dec[kind] = <<>> BY <1>1 DEF InitDec, Kinds, NoSets
  <2> QED BY <1>1, <2>1, <2>2 DEF InitDec
<1>3. /\ IsRecord(inEffect, Kinds) /\ IsRecord(upcoming, Kinds)
      /\ \A kind \in Kinds : inEffect[kind] = <<>>
      /\ inEffect.pps = <<>>
  BY <1>1 DEF IsRecord, Kinds, NoSets
<1>4. /\ IsRecord(unit, UnitFields) /\ unit.phase = "prefix" /\ unit.skipped = FALSE
      /\ unit.apss = {}
  BY <1>1 DEF StartedUnit, IsRecord, UnitFields
<1>5. ~InSlices /\ ~Skipped /\ ~Decoded BY <1>4 DEF InSlices, Skipped, Decoded
<1>6. IsMap(<<>>)
  <2>1. <<>> = [id \in {} |-> [changed |-> <<>>[id].changed, nalu |-> <<>>[id].nalu]]
    OBVIOUS
  <2> QED BY <2>1, EmptyIsSeq DEF IsMap
<1>7. MapsOK(dec) BY <1>2, <1>6, EmptyIsSeq DEF MapsOK
<1>8. TypeOK
  <2>1. <<>> \in Seq({"prefix", "slice", "suffix"}) OBVIOUS
  <2> QED BY <1>1, <1>2, <1>3, <1>4, <1>7, <2>1, EmptyIsSeq DEF TypeOK
<1>9. SameSets(dec, inEffect) BY <1>2, <1>3, EmptyIsSeq DEF SameSets
<1>10. StreamInv BY <1>1, <1>3, <1>4, EmptyIsSeq DEF StreamInv, PpsHaveSps
<1>11. FlagsInv BY <1>2, <1>5 DEF FlagsInv
<1>12. OrderInv BY <1>2, EmptyIsSeq DEF OrderInv, ApsInOrder
<1>13. SuffixInv BY <1>2, <1>5, EmptyIsSeq DEF SuffixInv
<1>14. SetsInv
  <2>1. Finished = dec BY <1>2, DecodeApssNone DEF Finished
  <2>2. NotedAreSent(dec, unit.apss) BY <1>2, EmptyIsSeq DEF NotedAreSent
  <2> QED BY <1>1, <1>7, <1>9, <2>1, <2>2 DEF SetsInv
<1>15. SlicesInv
  BY <1>1, <1>2, <1>5, EmptyIsSeq DEF SlicesInv, DecodesWithTheSetsInEffect
<1> QED BY <1>8, <1>10, <1>11, <1>12, <1>13, <1>14, <1>15 DEF IInv

\* Every step keeps it.
LEMMA NextInv == IInv /\ [Next]_vars => IInv'
<1> SUFFICES ASSUME IInv, [Next]_vars PROVE IInv' OBVIOUS
<1>1. CASE ReceiveSPS BY <1>1, ReceiveSPSStep
<1>2. CASE ReceivePPS BY <1>2, ReceivePPSStep
<1>3. CASE ReceivePrefixAPS BY <1>3, ReceivePrefixAPSStep
<1>4. CASE ReceiveSuffixAPS
  <2>1. CASE unit.skipped BY <1>4, <2>1, SuffixOfSkippedStep
  <2>2. CASE ~unit.skipped BY <1>4, <2>2, SuffixOfDecodedStep
  <2> QED BY <2>1, <2>2
<1>5. CASE ReceiveSlice BY <1>5, ReceiveSliceStep
<1>6. CASE StartPicture BY <1>6, StartPictureStep
<1>7. CASE SkippedPictureEnds BY <1>7, SkippedPictureEndsStep
<1>8. CASE ReceiveEOS BY <1>8, ReceiveEOSStep
<1>9. CASE UNCHANGED vars
  BY <1>9 DEF vars, IInv, TypeOK, StreamInv, FlagsInv, OrderInv, SuffixInv, SetsInv, SlicesInv,
              Finished, InSlices, Skipped, Decoded, Started, DecodesWithTheSetsInEffect
<1> QED BY <1>1, <1>2, <1>3, <1>4, <1>5, <1>6, <1>7, <1>8, <1>9 DEF Next

\* The invariant holds for any number of ids, of contents, of APSs and of slices.
THEOREM InvariantHolds == Spec => []IInv
BY InitInv, NextInv, PTL DEF Spec

\* No legal stream makes a CHECK or an EXIT of the parameter set code fire.
THEOREM NeverFailsAlways == Spec => []NeverFails
<1>1. IInv => NeverFails BY DEF IInv, TypeOK, MapsOK, NeverFails
<1> QED BY <1>1, InvariantHolds, PTL

\* Every slice is decoded with the sets that were in effect when it was coded.
THEOREM DecodesWithTheSetsInEffectAlways == Spec => []DecodesWithTheSetsInEffect
<1>1. IInv => DecodesWithTheSetsInEffect BY DEF IInv, SlicesInv
<1> QED BY <1>1, InvariantHolds, PTL

\* No APS is deleted while a slice of the picture in progress points to it.
THEOREM UsedApssExistAlways == Spec => []UsedApssExist
<1>1. IInv => UsedApssExist BY DEF IInv, SlicesInv, UsedApssExist, GetPS
<1> QED BY <1>1, InvariantHolds, PTL
=============================================================================
