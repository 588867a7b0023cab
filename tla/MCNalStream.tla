----------------------------- MODULE MCNalStream -----------------------------
EXTENDS NalStream, TLC

U(value, bits) == [kind |-> "u", value |-> value, bits |-> bits]
Ue(value) == [kind |-> "ue", value |-> value, bits |-> 0]
Se(value) == [kind |-> "se", value |-> value, bits |-> 0]

Other(type, layer, tid, symbols) ==
  [type |-> type, layer |-> layer, tid |-> tid, symbols |-> symbols, substreams |-> <<>>,
   zeroWords |-> 0]

Slice(type, symbols, substreams, zeroWords) ==
  [type |-> type, layer |-> 0, tid |-> 0, symbols |-> symbols, substreams |-> substreams,
   zeroWords |-> zeroWords]

\* Slice headers: the first bit says whether the picture header is inside.  The
\* second and the third have bytes that need protection, the third in front of
\* entry points.
Header1 == <<U(1, 1), U(9, 4)>>
Header2 == <<U(0, 1), U(0, 11), U(0, 11)>>
Header3 == <<U(1, 1), U(0, 15), U(0, 16), U(0, 16), Se(-3)>>

MCUnits == {
  Other("SPS", 0, 0, <<U(0, 8), Ue(32767), Se(5), Ue(0)>>),
  Other("PREFIX_SEI", 0, 6, <<U(0, 16), U(3, 8), Se(-64)>>),
  Other("SUFFIX_SEI", 55, 0, <<Ue(6)>>),
  Other("EOS", 0, 0, <<>>),
  Slice("IDR", Header1, <<<<0, 0, 1>>, <<0, 0, 0, 0, 3>>, <<0, 0, 4, 0, 2>>>>, 0),
  Slice("TRAIL", Header2, <<<<0, 0, 0, 0, 0, 0, 1>>>>, 2),
  Slice("TRAIL", Header3, <<<<5, 0, 0, 3, 0, 0, 2>>, <<7>>>>, 1)}
=============================================================================
