------------------------- MODULE ParameterSetManager -------------------------
(***************************************************************************)
(* ParameterSetMap of ParameterSetManager.h: the parameter sets of one     *)
(* kind by their id.  A set is the NAL unit it came in, header included,   *)
(* for that is what storePS compares; "changed" tells that the set was     *)
(* replaced since a picture last activated it.  Slices keep pointers to    *)
(* the sets they use, so a set that is replaced while it is active is kept *)
(* in m_lastActiveParameterSet, and the one kept before is deleted.        *)
(***************************************************************************)
EXTENDS Sequences, Functions

NoSets == <<>>

Known(map, id) == id \in DOMAIN map

GetPS(map, id) == map[id].nalu

ChangedFlag(map, id) == Known(map, id) /\ map[id].changed

\* The map with the entry of id put in or replaced.
With(map, id, entry) ==
  [other \in DOMAIN map \union {id} |-> IF other = id THEN entry ELSE map[other]]

Put(map, id, changed, nalu) == With(map, id, [changed |-> changed, nalu |-> nalu])

\* Whether storePS puts the new unit in the place of an old one.
Replaces(map, id, nalu) == Known(map, id) /\ (map[id].changed \/ map[id].nalu # nalu)

\* Mutant of the next: a change that no picture has seen is not replaced again.
StorePSOnce(map, id, nalu) ==
  IF ~Known(map, id) THEN Put(map, id, FALSE, nalu)
  ELSE IF ~map[id].changed /\ map[id].nalu # nalu THEN Put(map, id, TRUE, nalu)
  ELSE map

\* A set that is neither new nor changed is kept.  The flag stays up until it is
\* cleared, and a new set does not raise it.
StorePS(map, id, nalu) ==
  IF ~Known(map, id) THEN Put(map, id, FALSE, nalu)
  ELSE IF Replaces(map, id, nalu) THEN Put(map, id, TRUE, nalu)
  ELSE map

\* The other half of storePS: the set kept for the slices that still point to it.
LastActiveParameterSet(last, active, map, id, nalu) ==
  IF Replaces(map, id, nalu) /\ id \in active THEN {<<id, GetPS(map, id)>>} ELSE last

\* clearChangedFlag for some ids.
ClearChangedFlags(map, ids) ==
  [id \in DOMAIN map |-> [map[id] EXCEPT !.changed = @ /\ id \notin ids]]

\* checkAuApsContent: a second APS of the access unit with this id has the
\* content of the first when it is of the same NAL unit type.
ApsContentAgrees(map, id, nalu, accessUnitApsNals) ==
  id \in Range(accessUnitApsNals) =>
    /\ Known(map, id)
    /\ GetPS(map, id).type = nalu.type => GetPS(map, id).content = nalu.content
=============================================================================
