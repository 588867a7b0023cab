---------------------------- MODULE MCCodingTree ----------------------------
EXTENDS CodingTree

Lim(minQt, maxBt, maxTt, mttDepth) ==
  [minQt |-> minQt, maxBt |-> maxBt, maxTt |-> maxTt, mttDepth |-> mttDepth]
Both(lim) == [ch \in Channels |-> lim]


\* The unit at (size, 0) of a picture that ends w to the right of it and h below.
Unit(size, w, h, minCb, kind, limits, qpSubdiv) ==
  [ctuX |-> size, ctuY |-> 0, ctu |-> size, width |-> size + w, height |-> h, minCb |-> minCb,
   intra |-> kind # "inter", dual |-> kind = "dual", limits |-> limits, qpSubdiv |-> qpSubdiv]

Kinds == {"inter", "intra", "dual"}

\* Inner units of 32 x 32 with three levels of binary and ternary splits; units
\* that cross one or two borders of the picture; units without such splits, or
\* with binary ones only; trees of chroma that are limited more than luma.
SmallUnits ==
  {Unit(32, 32, 32, 4, k, Both(Lim(8, 32, 32, 3)), q) : k \in Kinds, q \in {0, 3}}
  \cup {Unit(32, 24, h, 4, k, Both(Lim(8, 16, 32, 3)), 4) : h \in {24, 32}, k \in Kinds}
  \cup {Unit(32, w, h, 4, k, Both(Lim(8, bt, 16, 2)), 4) :
          w \in {8, 24}, h \in {8, 16, 24, 32}, k \in Kinds, bt \in {8, 16, 32}}
  \cup {Unit(32, w, 24, 8, k, Both(Lim(8, 8, 8, 0)), 5) : w \in {24, 32}, k \in Kinds}
  \cup {Unit(32, 24, 24, 4, k, Both(Lim(4, 32, 4, 1)), 2) : k \in {"inter", "intra"}}
  \cup {Unit(32, 24, 32, 4, "dual", [Both(Lim(4, 16, 16, 2)) EXCEPT !["CHROMA"] = Lim(16, 16, 16, mtt)], 2) :
          mtt \in {0, 1}}

\* Units of 64 and 128: blocks above the size of transforms, and, with separate
\* trees, luma and chroma in turn.
LargeUnits ==
  {Unit(64, w, 40, 8, k, Both(Lim(32, 64, 32, 1)), 3) : w \in {24, 64}, k \in Kinds}
  \cup {Unit(128, w, h, 16, "dual", Both(Lim(64, 64, 64, 1)), 3) : w \in {48, 128}, h \in {80, 128}}
  \cup {Unit(128, w, 128, 16, k, Both(Lim(64, 128, 64, 1)), 2) : w \in {80, 128}, k \in {"inter", "intra"}}

MCConfigs == SmallUnits \cup LargeUnits
=============================================================================
