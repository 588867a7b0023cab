------------------------------ MODULE AlfEncoder ------------------------------
(***************************************************************************)
(* How the encoder manages the adaptation parameter sets of the adaptive   *)
(* loop filter: EncAdaptiveLoopFilter and the part of EncGOP that writes   *)
(* them.  The ids 0 .. NumAps-1 form a ring; apsIdStart is the set written *)
(* last, and the one before it on the ring is written next.  A set has     *)
(* parts - luma, chroma and cross-component (CC) filters - that pictures   *)
(* reuse separately.  Which filters pay off is a choice.  The content of a *)
(* part is Off when its signal flag is off, New when this picture wrote    *)
(* it, else Current.  No GDR, one layer.                                   *)
(***************************************************************************)
EXTENDS Integers, SequencesExt

CONSTANTS
  NumAps,         \* MaxNumALFAPS
  CcComponents,   \* the chroma components that have CC filters
  TLayers         \* the temporal layers

ASSUME AlfEncoderAssumption ==
  /\ NumAps \in Nat \ {0} /\ CcComponents \subseteq {"cb", "cr"}
  /\ 0 \in TLayers /\ TLayers \subseteq Nat

ApsIds == 0 .. NumAps - 1
Parts == {"luma", "chroma"} \union CcComponents

Off == 0
Current == 1
Old == 2     \* only a decoder has old content
New == 3

NoParts == [p \in Parts |-> Off]

InitEnc ==
  [aps |-> [id \in ApsIds |-> [tid |-> 0, changed |-> FALSE, parts |-> NoParts]],
   apsIdStart |-> NumAps]

IsIRAP(pic) == pic.type \in {"IDR", "CRA"}

\* Pictures that may not refer to sets from before.
StartsAnew(pic) == IsIRAP(pic) \/ pic.pendingRasInit

\* Mutant of the next: only the ring starts again.
ResetStartOnly(enc) == [enc EXCEPT !.apsIdStart = NumAps]

\* The head of ALFProcess.  All flags go down; what a decoder has stays there.
Reset(enc) == InitEnc

Before(id) == IF id = 0 THEN NumAps - 1 ELSE id - 1

Ring(enc) == [i \in 1 .. NumAps |-> (enc.apsIdStart + i - 1) % NumAps]

\* The elements of a sequence that are in S, in its order: the loops over the sets.
Among(s, S) ==
  LET among[n \in 0 .. Len(s)] ==
        IF n = 0 THEN <<>>
        ELSE IF s[n] \in S THEN Append(among[n - 1], s[n]) ELSE among[n - 1]
  IN among[Len(s)]

\* Mutant of the next: the temporal layer of the set does not matter.
AvailableOfAnyLayer(enc, pic, part) ==
  IF enc.apsIdStart = NumAps \/ StartsAnew(pic) THEN <<>>
  ELSE Among(Ring(enc), {id \in ApsIds : enc.aps[id].parts[part] # Off})

\* The sets whose part the picture may reuse, in the order of the ring.
Available(enc, pic, part) ==
  IF enc.apsIdStart = NumAps \/ StartsAnew(pic) THEN <<>>
  ELSE Among(Ring(enc), {id \in ApsIds : /\ enc.aps[id].tid <= pic.tid
                                          /\ enc.aps[id].parts[part] # Off})

-----------------------------------------------------------------------------
\* Luma: some of the available sets, newest first, and a new one in front of them.
\* A new set may take the place of the last of them.  At most 7 fit the syntax.
LumaChoices(enc, pic) ==
  LET apsIds == Available(enc, pic, "luma")
      newApsId == Before(enc.apsIdStart)
  IN {choice \in [new : BOOLEAN, n : 0 .. NumAps] :
        /\ choice.n <= Len(apsIds)
        /\ choice.n + (IF choice.new THEN 1 ELSE 0) <= Min({7, NumAps})
        /\ ~ /\ choice.new /\ choice.n = Len(apsIds) /\ choice.n > 0
             /\ apsIds[choice.n] = newApsId}

LumaIds(enc, pic, luma) ==
  (IF luma.new THEN {Before(enc.apsIdStart)} ELSE {}) \union
  {Available(enc, pic, "luma")[i] : i \in 1 .. luma.n}

\* A set is written anew, with these parts and the temporal layer of the picture.
Renewed(enc, pic, id, parts) ==
  [aps |-> [enc.aps EXCEPT ![id] = [tid |-> pic.tid, changed |-> TRUE, parts |-> parts]],
   apsIdStart |-> id]

AfterLuma(enc, pic, luma) ==
  LET id == Before(enc.apsIdStart)
  IN IF ~luma.new THEN enc
     ELSE Renewed(enc, pic, id,
                  [enc.aps[id].parts EXCEPT !["luma"] = New, !["chroma"] = Off])

\* newApsIdChroma, -1 when there is none: the new luma set, or else the next set on
\* the ring that luma does not use.
NewApsIdChroma(enc, luma, lumaIds) ==
  IF luma.new THEN enc.apsIdStart
  ELSE LET back == [i \in 1 .. NumAps |-> (enc.apsIdStart - i) % NumAps]
           free == Among(back, ApsIds \ lumaIds)
       IN IF free = <<>> THEN -1 ELSE free[1]

ChromaReusable(enc, pic) ==
  IF StartsAnew(pic) THEN {}
  ELSE {id \in ApsIds : enc.aps[id].tid <= pic.tid /\ enc.aps[id].parts["chroma"] # Off}

\* Chroma: off, a part that is there, or a new one.  A new part is derived first;
\* when there is none, newApsIdChroma stays -1.  ccApsIds: where new CC filters go,
\* to newApsIdChroma or, without it, to newApsId.
ChromaChoices(enc, pic, luma, lumaIds, newApsId) ==
  LET newId == NewApsIdChroma(enc, luma, lumaIds)
      derived == IF newId = -1 THEN {} ELSE {newId}
  IN {[new |-> TRUE, id |-> id, ccApsIds |-> {id}] : id \in derived} \union
     {[new |-> FALSE, id |-> id, ccApsIds |-> {newApsId} \union (derived \ {id})] :
        id \in {-1} \union ChromaReusable(enc, pic)}

\* A new chroma part.  Without a new luma part the one of the set is dropped.
AfterChroma(enc, pic, luma, chroma) ==
  IF ~chroma.new THEN enc
  ELSE Renewed(enc, pic, chroma.id,
               [enc.aps[chroma.id].parts EXCEPT !["chroma"] = New,
                                                !["luma"] = IF luma.new THEN @ ELSE Off])

\* "Do not transmit CC ALF if it is unchanged."
WithoutOldCc(enc, used) ==
  LET WithoutCc(set) ==
        [set EXCEPT !.parts = [p \in Parts |-> IF p \in CcComponents THEN Off ELSE set.parts[p]]]
  IN [enc EXCEPT !.aps = [id \in ApsIds |-> IF id \in used /\ enc.aps[id].changed
                                            THEN WithoutCc(enc.aps[id]) ELSE enc.aps[id]]]

\* CC filters: per component off, a filter that is there, or a new one.
CcChoices(enc, pic, ccApsIds) ==
  LET choices == [c \in CcComponents |->
        [new : {TRUE}, id : ccApsIds] \union
        [new : {FALSE}, id : {-1} \union Range(Available(enc, pic, c))]]
  IN {cc \in [CcComponents -> UNION {choices[c] : c \in CcComponents}] :
        /\ \A c \in CcComponents : cc[c] \in choices[c]
        /\ \A c, d \in CcComponents : cc[c].new /\ cc[d].new => cc[c].id = cc[d].id}

\* Mutant of the next: a set is written anew without saying so.
AfterCcUnchanged(enc, pic, cc) ==
  [enc EXCEPT !.aps = [id \in ApsIds |->
     [@[id] EXCEPT !.parts = [p \in Parts |->
        IF p \in CcComponents /\ cc[p].new /\ cc[p].id = id THEN New ELSE @[p]]]]]

\* xSetupCcAlfAPS: all new CC filters go to one set.
AfterCc(enc, pic, cc) ==
  LET new == {c \in CcComponents : cc[c].new}
  IN [enc EXCEPT !.aps = [id \in ApsIds |->
       IF \A c \in new : cc[c].id # id THEN @[id]
       ELSE [tid |-> pic.tid, changed |-> TRUE,
             parts |-> [p \in Parts |-> IF p \in new THEN New ELSE @[id].parts[p]]]]]

-----------------------------------------------------------------------------
\* The prefix APSs of an access unit (EncGOP): every set that changed.
Written(enc) ==
  LET ids == Among([i \in 1 .. NumAps |-> i - 1], {id \in ApsIds : enc.aps[id].changed})
  IN [i \in DOMAIN ids |->
        [id |-> ids[i], aps |-> "alf",
         nalu |-> [type |-> "prefix", tid |-> enc.aps[ids[i]].tid,
                   content |-> enc.aps[ids[i]].parts]]]

AfterWriting(enc) ==
  [enc EXCEPT !.aps = [id \in ApsIds |-> [@[id] EXCEPT !.changed = FALSE]]]
=============================================================================
