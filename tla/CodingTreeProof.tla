--------------------------- MODULE CodingTreeProof ---------------------------
(***************************************************************************)
(* Properties of CodingTree, for coding tree units of every configuration: *)
(* the bins of a split are read back, the partitioner's counters match its *)
(* stack, the units of a quantisation group share their QP, and every unit *)
(* is large enough for the prediction it may have.                         *)
(***************************************************************************)
EXTENDS CodingTree, Arithmetic
-----------------------------------------------------------------------------
(* The bins of a split.                                                    *)

\* The elements of a sequence are of no particular set.
IsSeq(s) == s \in Seq(Range(s))

\* A bin in front of others reads back, and the others are left.
LEMMA BinReadsBack ==
  ASSUME NEW isCoded \in BOOLEAN, NEW value \in BOOLEAN, NEW inferred \in BOOLEAN,
         isCoded \/ inferred = value, NEW bins \in Seq(BOOLEAN)
  PROVE  /\ Bin(isCoded, value) \o bins \in Seq(BOOLEAN)
         /\ ReadBin(isCoded, inferred, Bin(isCoded, value) \o bins) = value
         /\ Rest(isCoded, Bin(isCoded, value) \o bins) = bins
<1>1. CASE isCoded
  <2> DEFINE all == <<value>> \o bins
  <2>1. /\ all \in Seq(BOOLEAN) /\ Len(all) = Len(bins) + 1 /\ all[1] = value
        /\ all # <<>>
        /\ \A i \in 1 .. Len(bins) : all[i + 1] = bins[i]
    OBVIOUS
  <2>2. Head(all) = value BY <2>1
  <2>3. Tail(all) = bins
    <3>1. Tail(all) \in Seq(BOOLEAN) /\ Len(Tail(all)) = Len(bins) BY <2>1
    <3>2. \A i \in 1 .. Len(bins) : Tail(all)[i] = bins[i] BY <2>1
    <3> QED BY <3>1, <3>2
  <2>4. Bin(isCoded, value) \o bins = all BY <1>1 DEF Bin
  <2> HIDE DEF all
  <2> QED BY <1>1, <2>1, <2>2, <2>3, <2>4 DEF ReadBin, Rest
<1>2. CASE ~isCoded
  <2>1. Bin(isCoded, value) \o bins = bins BY <1>2 DEF Bin
  <2> QED BY <1>2, <2>1 DEF ReadBin, Rest
<1> QED BY <1>1, <1>2

\* The same for the last bin.
LEMMA LastBinReadsBack ==
  ASSUME NEW isCoded \in BOOLEAN, NEW value \in BOOLEAN, NEW inferred \in BOOLEAN,
         isCoded \/ inferred = value
  PROVE  /\ Bin(isCoded, value) \in Seq(BOOLEAN)
         /\ ReadBin(isCoded, inferred, Bin(isCoded, value)) = value
         /\ Rest(isCoded, Bin(isCoded, value)) = <<>>
<1>1. Bin(isCoded, value) \in Seq(BOOLEAN)
  <2>1. <<value>> \in Seq(BOOLEAN) /\ <<>> \in Seq(BOOLEAN) OBVIOUS
  <2> QED BY <2>1 DEF Bin
<1>2. Bin(isCoded, value) \o <<>> = Bin(isCoded, value) BY <1>1
<1>3. <<>> \in Seq(BOOLEAN) OBVIOUS
<1>4. /\ ReadBin(isCoded, inferred, Bin(isCoded, value) \o <<>>) = value
      /\ Rest(isCoded, Bin(isCoded, value) \o <<>>) = <<>>
  BY <1>3, BinReadsBack
<1> QED BY <1>1, <1>2, <1>4

\* The direction and the kind of a binary or ternary split.
LEMMA MtReadsBack ==
  ASSUME NEW can, NEW split \in can, split \in MtSplits
  PROVE  /\ BinsOfMt(can, split) \in Seq(BOOLEAN)
         /\ ReadMt(can, BinsOfMt(can, split)) = [split |-> split, left |-> <<>>]
<1> DEFINE hv == Meets(can, Ver) /\ Meets(can, Hor)
           isVer == split \in Ver
           bt == Along(split) \cap BtSplits
           tt == Along(split) \cap TtSplits
           both == Meets(can, bt) /\ Meets(can, tt)
           isBt == split \in BtSplits
           bins == BinsOfMt(can, split)
<1>1. /\ hv \in BOOLEAN /\ isVer \in BOOLEAN /\ both \in BOOLEAN /\ isBt \in BOOLEAN
      /\ Meets(can, Ver) \in BOOLEAN /\ Meets(can, bt) \in BOOLEAN
  BY DEF Meets
<1>2. hv \/ Meets(can, Ver) = isVer
  BY DEF Meets, Ver, Hor, MtSplits, BtSplits, TtSplits
<1>3. both \/ Meets(can, bt) = isBt
  BY DEF Meets, Along, Ver, Hor, MtSplits, BtSplits, TtSplits
<1>4. /\ IF isVer THEN Along(split) = Ver ELSE Along(split) = Hor
      /\ isBt => bt = {split}
      /\ ~isBt => tt = {split}
  BY DEF Along, Ver, Hor, MtSplits, BtSplits, TtSplits
<1>5. bins = Bin(hv, isVer) \o Bin(both, isBt)
  BY DEF BinsOfMt
<1> HIDE DEF hv, both, isBt, isVer, bins
<1>6. /\ Bin(both, isBt) \in Seq(BOOLEAN)
      /\ ReadBin(both, Meets(can, bt), Bin(both, isBt)) = isBt
      /\ Rest(both, Bin(both, isBt)) = <<>>
  BY <1>1, <1>3, LastBinReadsBack
<1>7. /\ bins \in Seq(BOOLEAN)
      /\ ReadBin(hv, Meets(can, Ver), bins) = isVer
      /\ Rest(hv, bins) = Bin(both, isBt)
  BY <1>1, <1>2, <1>5, <1>6, BinReadsBack
<1>8. ReadMt(can, bins) = [split |-> CHOOSE s \in (IF isBt THEN bt ELSE tt) : TRUE, left |-> <<>>]
  <2>1. (IF isVer THEN Ver ELSE Hor) = Along(split) BY <1>1, <1>4
  <2> QED BY <1>6, <1>7, <2>1 DEF ReadMt, hv, both
<1>9. (CHOOSE s \in (IF isBt THEN bt ELSE tt) : TRUE) = split
  <2>1. (IF isBt THEN bt ELSE tt) = {split} BY <1>1, <1>4
  <2> QED BY <2>1
<1> QED BY <1>7, <1>8, <1>9 DEF bins

\* Every split of whatever set is permitted reads back.
LEMMA SplitReadsBack ==
  ASSUME NEW can, can \subseteq Splits \cup {"NO"}, NEW split \in can
  PROVE  ReadSplit(can, SplitBins(can, split)) = [split |-> split, left |-> <<>>]
<1> DEFINE c1 == "NO" \in can /\ Meets(can, Splits)
           c2 == "QUAD" \in can /\ Meets(can, MtSplits)
           isSplit == split # "NO"
           more == CASE split = "NO" -> <<>>
                     [] split = "QUAD" -> Bin(Meets(can, MtSplits), TRUE)
                     [] OTHER -> Bin("QUAD" \in can, FALSE) \o BinsOfMt(can, split)
           bins == SplitBins(can, split)
<1>1. /\ c1 \in BOOLEAN /\ c2 \in BOOLEAN /\ isSplit \in BOOLEAN
      /\ Meets(can, Splits) \in BOOLEAN /\ Meets(can, MtSplits) \in BOOLEAN
      /\ ("QUAD" \in can) \in BOOLEAN
  BY DEF Meets
<1>2. c1 \/ Meets(can, Splits) = isSplit
  BY DEF Meets, Splits, MtSplits, BtSplits, TtSplits
<1>3. bins = Bin(c1, isSplit) \o more BY DEF SplitBins
<1> HIDE DEF bins
<1>4. CASE split = "NO"
  <2>1. more = <<>> /\ more \in Seq(BOOLEAN) /\ isSplit = FALSE BY <1>4
  <2> HIDE DEF more, c1
  <2>2. ReadBin(c1, Meets(can, Splits), bins) = FALSE /\ Rest(c1, bins) = <<>>
    BY <1>1, <1>2, <1>3, <2>1, BinReadsBack
  <2> QED BY <1>4, <2>2 DEF ReadSplit, bins, c1
<1>5. CASE split = "QUAD"
  <2>1. /\ more = Bin(c2, TRUE) /\ isSplit = TRUE
        /\ c2 \/ ("QUAD" \in can) = TRUE
    <3>1. isSplit = TRUE /\ ("QUAD" \in can) = TRUE BY <1>5
    <3>2. more = Bin(Meets(can, MtSplits), TRUE) BY <1>5
    <3>3. Meets(can, MtSplits) = c2 BY <1>1, <1>5
    <3> QED BY <3>1, <3>2, <3>3
  <2> HIDE DEF more, c1, c2
  <2>2. /\ more \in Seq(BOOLEAN) /\ ReadBin(c2, "QUAD" \in can, more) = TRUE
        /\ Rest(c2, more) = <<>>
    BY <1>1, <2>1, LastBinReadsBack
  <2>3. ReadBin(c1, Meets(can, Splits), bins) = TRUE /\ Rest(c1, bins) = more
    BY <1>1, <1>2, <1>3, <2>1, <2>2, BinReadsBack
  <2> QED BY <1>5, <2>2, <2>3 DEF ReadSplit, bins, c1, c2
<1>6. CASE split \in MtSplits
  <2>1. split # "NO" /\ split # "QUAD" /\ Meets(can, MtSplits)
    BY <1>6 DEF Meets, MtSplits, BtSplits, TtSplits
  <2>2. /\ more = Bin(c2, FALSE) \o BinsOfMt(can, split) /\ isSplit = TRUE
        /\ c2 \/ ("QUAD" \in can) = FALSE
    BY <2>1 DEF Bin
  <2>3. /\ BinsOfMt(can, split) \in Seq(BOOLEAN)
        /\ ReadMt(can, BinsOfMt(can, split)) = [split |-> split, left |-> <<>>]
    BY <1>6, MtReadsBack
  <2> HIDE DEF more, c1, c2
  <2>4. /\ more \in Seq(BOOLEAN) /\ ReadBin(c2, "QUAD" \in can, more) = FALSE
        /\ Rest(c2, more) = BinsOfMt(can, split)
    BY <1>1, <2>2, <2>3, BinReadsBack
  <2>5. ReadBin(c1, Meets(can, Splits), bins) = TRUE /\ Rest(c1, bins) = more
    BY <1>1, <1>2, <1>3, <2>2, <2>4, BinReadsBack
  <2> QED BY <2>3, <2>4, <2>5 DEF ReadSplit, bins, c1, c2
<1> QED BY <1>4, <1>5, <1>6 DEF Splits, MtSplits, BtSplits, TtSplits

\* canSplit permits splits and the end of splitting.
LEMMA CanSplitGivesSplits ==
  ASSUME NEW c, NEW p
  PROVE  CanSplit(c, p) \subseteq Splits \cup {"NO"}
BY DEF CanSplit, ForcedSplits, Splits, MtSplits, BtSplits, TtSplits

\* coding_tree reads back every split the writer may choose, and all its bins.
THEOREM ReadsTheSplitsAlways == Spec => []ReadsTheSplits
<1>1. ReadsTheSplits
  <2> SUFFICES ASSUME NEW split \in permitted
               PROVE  ReadSplit(permitted, SplitBins(permitted, split)) = [split |-> split, left |-> <<>>]
    BY DEF ReadsTheSplits
  <2>1. permitted \subseteq Splits \cup {"NO"}
    BY CanSplitGivesSplits DEF permitted
  <2> HIDE DEF permitted
  <2> QED BY <2>1, SplitReadsBack
<1> QED BY <1>1, PTL
-----------------------------------------------------------------------------
(* Stacks grow and shrink at their end.                                    *)

\* A walk that has not split anything yet.
LEMMA EmptyIsSeq ==
  IsSeq(<<>>) /\ Len(<<>>) = 0 /\ DOMAIN <<>> = {} /\ Range(<<>>) = {}
  BY DEF IsSeq, Range

\* A sequence with one more element.
LEMMA AppendIsSeq ==
  ASSUME NEW s, IsSeq(s), NEW e
  PROVE  /\ IsSeq(Append(s, e)) /\ DOMAIN s = 1 .. Len(s) /\ Len(s) \in Nat
         /\ Len(Append(s, e)) = Len(s) + 1
         /\ DOMAIN Append(s, e) = 1 .. Len(s) + 1
         /\ \A i \in 1 .. Len(s) : Append(s, e)[i] = s[i]
         /\ Append(s, e)[Len(s) + 1] = e
         /\ Last(Append(s, e)) = e /\ Append(s, e) # <<>>
         /\ Front(Append(s, e)) = s
         /\ \A d : [Append(s, e) EXCEPT ![Len(s) + 1] = d] = Append(s, d)
<1> DEFINE S == Range(s) \union {e}
           t == Append(s, e)
<1>1. s \in Seq(S) /\ e \in S /\ Len(s) \in Nat /\ DOMAIN s = 1 .. Len(s)
  BY DEF IsSeq
<1>2. /\ t \in Seq(S) /\ Len(t) = Len(s) + 1 /\ DOMAIN t = 1 .. Len(s) + 1
      /\ \A i \in 1 .. Len(s) : t[i] = s[i]
      /\ t[Len(s) + 1] = e
  BY <1>1
<1>3. Range(t) = S
  BY <1>1, <1>2 DEF Range
<1>4. Front(t) = s
  <2>1. Len(t) - 1 = Len(s) BY <1>1, <1>2
  <2>2. Front(t) = SubSeq(t, 1, Len(s)) BY <2>1 DEF Front
  <2>3. /\ Front(t) \in Seq(S) /\ Len(Front(t)) = Len(s)
        /\ \A i \in 1 .. Len(s) : Front(t)[i] = t[i]
    BY <1>1, <1>2, <2>2
  <2> QED BY <1>1, <1>2, <2>3
<1>5. ASSUME NEW d PROVE [t EXCEPT ![Len(s) + 1] = d] = Append(s, d)
  <2> DEFINE u == Append(s, d)
             v == [t EXCEPT ![Len(s) + 1] = d]
             D == Range(s) \union {d, e}
  <2>1. s \in Seq(D) /\ d \in D /\ e \in D BY DEF IsSeq
  <2>2. /\ u \in Seq(D) /\ Len(u) = Len(s) + 1
        /\ \A i \in 1 .. Len(s) : u[i] = s[i]
        /\ u[Len(s) + 1] = d
    BY <2>1
  <2>3. /\ DOMAIN v = 1 .. Len(s) + 1 /\ v = [i \in 1 .. Len(s) + 1 |-> v[i]]
        /\ \A i \in 1 .. Len(s) : v[i] = s[i]
        /\ v[Len(s) + 1] = d
    <3> HIDE DEF t
    <3>1. \A q \in Seq(S) : q = [i \in 1 .. Len(q) |-> q[i]] OBVIOUS
    <3>2. t = [i \in 1 .. Len(s) + 1 |-> t[i]] BY <1>2, <3>1
    <3>3. v = [i \in 1 .. Len(s) + 1 |-> IF i = Len(s) + 1 THEN d ELSE t[i]]
      BY <1>1, <3>2
    <3> HIDE DEF v
    <3>4. DOMAIN v = 1 .. Len(s) + 1 BY <3>3
    <3>5. v = [i \in 1 .. Len(s) + 1 |-> v[i]] BY <3>3
    <3>6. Len(s) + 1 \in 1 .. Len(s) + 1 /\ \A i \in 1 .. Len(s) : i \in 1 .. Len(s) + 1 /\ i # Len(s) + 1
      BY <1>1
    <3>7. \A i \in 1 .. Len(s) : v[i] = t[i] BY <3>3, <3>6
    <3>8. v[Len(s) + 1] = d BY <3>3, <3>6
    <3> QED BY <1>2, <3>4, <3>5, <3>7, <3>8
  <2>4. u = [i \in 1 .. Len(s) + 1 |-> u[i]]
    <3>1. \A q \in Seq(D) : q = [i \in 1 .. Len(q) |-> q[i]] OBVIOUS
    <3> QED BY <2>2, <3>1
  <2>5. \A i \in 1 .. Len(s) + 1 : u[i] = v[i] BY <1>1, <2>2, <2>3
  <2> HIDE DEF u, v
  <2>6. u = v BY <2>3, <2>4, <2>5
  <2> QED BY <2>6 DEF u, v
<1>6. Last(t) = e BY <1>2 DEF Last
<1>7. t # <<>> BY <1>1, <1>2, EmptyIsSeq
<1> QED BY <1>1, <1>2, <1>3, <1>4, <1>5, <1>6, <1>7 DEF IsSeq

\* A stack is its levels below the top, and the top.
LEMMA FrontAndLast ==
  ASSUME NEW s, IsSeq(s), s # <<>>
  PROVE  /\ s = Append(Front(s), Last(s)) /\ IsSeq(Front(s))
         /\ Len(s) = Len(Front(s)) + 1 /\ Len(Front(s)) \in Nat
<1> DEFINE f == Front(s)
           n == Len(s)
<1>1. s \in Seq(Range(s)) /\ n \in Nat /\ n > 0 /\ DOMAIN s = 1 .. n
  BY DEF IsSeq
<1>2. f = SubSeq(s, 1, n - 1) BY DEF Front
<1>3. /\ f \in Seq(Range(s)) /\ Len(f) = n - 1 /\ DOMAIN f = 1 .. n - 1
      /\ \A i \in 1 .. n - 1 : f[i] = s[i]
  BY <1>1, <1>2
<1>4. IsSeq(f)
  <2>1. \A i \in 1 .. n - 1 : f[i] \in Range(f) BY <1>3 DEF Range
  <2> HIDE DEF f, n
  <2> QED BY <1>1, <1>3, <2>1 DEF IsSeq
<1>5. Last(s) = s[n] /\ s[n] \in Range(s) BY <1>1 DEF Last, Range
<1>6. s = Append(f, Last(s))
  <2> HIDE DEF f, n
  <2>1. /\ Append(f, Last(s)) \in Seq(Range(s)) /\ Len(Append(f, Last(s))) = n
        /\ \A i \in 1 .. n - 1 : Append(f, Last(s))[i] = f[i]
        /\ Append(f, Last(s))[n] = Last(s)
    BY <1>1, <1>3, <1>5
  <2>2. \A i \in 1 .. n : Append(f, Last(s))[i] = s[i]
    BY <1>1, <1>3, <1>5, <2>1
  <2>3. \A q, r \in Seq(Range(s)) :
          Len(q) = Len(r) /\ (\A i \in 1 .. Len(q) : q[i] = r[i]) => q = r
    OBVIOUS
  <2>4. Len(s) = n BY DEF n
  <2> QED BY <1>1, <2>1, <2>2, <2>3, <2>4
<1> HIDE DEF f
<1>7. Len(s) = Len(f) + 1 /\ Len(f) \in Nat BY <1>1, <1>3
<1> QED BY <1>4, <1>6, <1>7 DEF f
-----------------------------------------------------------------------------
(* What the counters count, on a stack with one more level.                *)

\* The partial sums of SumOver.
Sums(sum, stack, kinds, n) ==
  sum = [k \in 0 .. n |-> IF k = 0 THEN 0 ELSE sum[k - 1] + Halved(stack[k], kinds)]

\* A level halves its first part no times or more.
LEMMA HalvedIsNat ==
  ASSUME NEW level, NEW kinds
  PROVE  Halved(level, kinds) \in Nat
BY DEF Halved, Halvings

\* The recursive function of SumOver exists.
LEMMA SumsExist ==
  ASSUME NEW stack, NEW kinds
  PROVE  \A n \in Nat : \E sum : Sums(sum, stack, kinds, n)
<1> DEFINE S == {n \in Nat : \E sum : Sums(sum, stack, kinds, n)}
<1>1. 0 \in S
  <2>1. Sums([k \in 0 .. 0 |-> 0], stack, kinds, 0)
    BY DEF Sums
  <2> QED BY <2>1
<1>2. ASSUME NEW n \in S PROVE n + 1 \in S
  <2>1. PICK before : Sums(before, stack, kinds, n) OBVIOUS
  <2> DEFINE after ==
        [k \in 0 .. n + 1 |-> IF k = n + 1 THEN before[n] + Halved(stack[n + 1], kinds) ELSE before[k]]
  <2>2. ASSUME NEW k \in 0 .. n + 1
        PROVE  after[k] = IF k = 0 THEN 0 ELSE after[k - 1] + Halved(stack[k], kinds)
    <3>1. CASE k = 0 BY <2>1, <3>1 DEF Sums
    <3>2. CASE k = n + 1 BY <3>2
    <3>3. CASE k # 0 /\ k # n + 1
      <4>1. k \in 0 .. n /\ k - 1 \in 0 .. n BY <3>3
      <4> QED BY <4>1, <2>1, <3>3 DEF Sums
    <3> QED BY <3>1, <3>2, <3>3
  <2>3. after = [k \in 0 .. n + 1 |-> after[k]] OBVIOUS
  <2>4. Sums(after, stack, kinds, n + 1)
    <3> HIDE DEF after
    <3> QED BY <2>2, <2>3 DEF Sums
  <2> QED BY <2>4
<1>3. S = Nat
  <2> HIDE DEF S
  <2>1. S \in SUBSET Nat BY DEF S
  <2> QED BY <1>1, <1>2, <2>1, NatSetInduction
<1> QED BY <1>3

\* SumOver is the last of them.
LEMMA SumOverSums ==
  ASSUME NEW stack, NEW kinds, Len(stack) \in Nat
  PROVE  \E sum : /\ Sums(sum, stack, kinds, Len(stack))
                  /\ SumOver(stack, kinds) = sum[Len(stack)]
<1> DEFINE sum == CHOOSE sum : Sums(sum, stack, kinds, Len(stack))
<1>1. SumOver(stack, kinds) = sum[Len(stack)]
  BY DEF SumOver, Sums
<1>2. Sums(sum, stack, kinds, Len(stack))
  BY SumsExist
<1> QED BY <1>1, <1>2

\* Stacks that are alike have the same sums as far as they are alike.
LEMMA SumsAgree ==
  ASSUME NEW s, NEW t, NEW kinds, NEW n \in Nat, NEW m \in Nat, n <= m,
         \A i \in 1 .. n : s[i] = t[i],
         NEW f, Sums(f, s, kinds, n), NEW g, Sums(g, t, kinds, m)
  PROVE  f[n] = g[n] /\ f[n] \in Nat
<1> DEFINE S == {k \in Nat : k <= n => f[k] = g[k] /\ f[k] \in Nat}
<1>1. 0 \in S BY DEF Sums
<1>2. ASSUME NEW k \in S PROVE k + 1 \in S
  <2> SUFFICES ASSUME k + 1 <= n PROVE f[k + 1] = g[k + 1] /\ f[k + 1] \in Nat
    OBVIOUS
  <2>1. k + 1 \in 0 .. n /\ k + 1 \in 0 .. m /\ k + 1 # 0 /\ (k + 1) - 1 = k OBVIOUS
  <2>2. f[k + 1] = f[k] + Halved(s[k + 1], kinds)
    BY <2>1 DEF Sums
  <2>3. g[k + 1] = g[k] + Halved(t[k + 1], kinds)
    BY <2>1 DEF Sums
  <2>4. s[k + 1] = t[k + 1] BY <2>1
  <2>5. Halved(s[k + 1], kinds) \in Nat BY HalvedIsNat
  <2> QED BY <2>2, <2>3, <2>4, <2>5
<1>3. S = Nat
  <2> HIDE DEF S
  <2>1. S \in SUBSET Nat BY DEF S
  <2> QED BY <1>1, <1>2, <2>1, NatSetInduction
<1> QED BY <1>3

\* A level more on the stack adds what it halves.
LEMMA SumOverAppend ==
  ASSUME NEW s, IsSeq(s), NEW e, NEW kinds
  PROVE  /\ SumOver(s, kinds) \in Nat
         /\ SumOver(Append(s, e), kinds) = SumOver(s, kinds) + Halved(e, kinds)
<1> DEFINE n == Len(s)
           t == Append(s, e)
<1>1. /\ n \in Nat /\ Len(t) = n + 1 /\ t[n + 1] = e
      /\ \A i \in 1 .. n : s[i] = t[i]
  BY AppendIsSeq
<1> HIDE DEF t
<1>2. PICK f : Sums(f, s, kinds, n) /\ SumOver(s, kinds) = f[n]
  BY <1>1, SumOverSums
<1>3. PICK g : Sums(g, t, kinds, n + 1) /\ SumOver(t, kinds) = g[n + 1]
  <2>1. Len(t) \in Nat BY <1>1
  <2> QED BY <1>1, <2>1, SumOverSums
<1> HIDE DEF n
<1>4. f[n] = g[n] /\ f[n] \in Nat
  <2>1. n + 1 \in Nat /\ n <= n + 1 BY <1>1
  <2> QED BY <1>1, <1>2, <1>3, <2>1, SumsAgree
<1>5. g[n + 1] = g[n] + Halved(t[n + 1], kinds)
  <2>1. n + 1 \in 0 .. n + 1 /\ n + 1 # 0 /\ (n + 1) - 1 = n BY <1>1
  <2> QED BY <1>3, <2>1 DEF Sums
<1> QED BY <1>1, <1>2, <1>3, <1>4, <1>5 DEF t

\* The levels of some kinds, with the new one if it is of these.
LEMMA LevelsOfAppend ==
  ASSUME NEW s, IsSeq(s), NEW e, NEW kinds
  PROVE  /\ Cardinality(LevelsOf(s, kinds)) \in Nat
         /\ Cardinality(LevelsOf(Append(s, e), kinds)) =
              Cardinality(LevelsOf(s, kinds)) + (IF e.split \in kinds THEN 1 ELSE 0)
<1> DEFINE n == Len(s)
           t == Append(s, e)
           L == LevelsOf(s, kinds)
<1>1. /\ n \in Nat /\ DOMAIN s = 1 .. n /\ DOMAIN t = 1 .. n + 1 /\ t[n + 1] = e
      /\ \A i \in 1 .. n : t[i] = s[i]
  BY AppendIsSeq
<1>2. L \subseteq 1 .. n BY <1>1 DEF LevelsOf
<1>3. IsFiniteSet(L) /\ n + 1 \notin L
  <2>1. IsFiniteSet(1 .. n) BY <1>1, FS_Interval
  <2>2. n + 1 \notin 1 .. n BY <1>1
  <2> HIDE DEF n, L
  <2>3. IsFiniteSet(L) BY <1>2, <2>1, FS_Subset
  <2> QED BY <1>2, <2>2, <2>3
<1>4. LevelsOf(t, kinds) = IF e.split \in kinds THEN L \cup {n + 1} ELSE L
  <2> HIDE DEF t
  <2> QED BY <1>1 DEF LevelsOf
<1>5. Cardinality(L) \in Nat BY <1>3, FS_CardinalityType
<1>6. Cardinality(L \cup {n + 1}) = Cardinality(L) + 1
  BY <1>3, FS_AddElement
<1> HIDE DEF t, L
<1> QED BY <1>4, <1>5, <1>6 DEF t, L

\* The splits that the border forced, with the new one if it did.
LEMMA ForcedLevelsAppend ==
  ASSUME NEW s, IsSeq(s), s # <<>>, NEW e
  PROVE  /\ Cardinality(ForcedLevels(s)) \in Nat
         /\ Cardinality(ForcedLevels(Append(s, e))) =
              Cardinality(ForcedLevels(s))
                + (IF e.split \in MtSplits /\ Last(s).implicit = e.split THEN 1 ELSE 0)
<1> DEFINE n == Len(s)
           t == Append(s, e)
           L == ForcedLevels(s)
           isForced == e.split \in MtSplits /\ Last(s).implicit = e.split
<1>1. /\ n \in Nat /\ DOMAIN s = 1 .. n /\ DOMAIN t = 1 .. n + 1 /\ t[n + 1] = e
      /\ \A i \in 1 .. n : t[i] = s[i]
  BY AppendIsSeq
<1>2. n > 0 /\ Last(s) = t[n]
  <2>1. n # 0 BY FrontAndLast
  <2>2. n > 0 /\ n \in 1 .. n BY <1>1, <2>1
  <2>3. t[n] = s[n] BY <1>1, <2>2
  <2> QED BY <2>2, <2>3 DEF Last
<1>3. L \subseteq 1 .. n BY <1>1 DEF LevelsOf, ForcedLevels
<1>4. IsFiniteSet(L) /\ n + 1 \notin L
  <2>1. IsFiniteSet(1 .. n) BY <1>1, FS_Interval
  <2>2. n + 1 \notin 1 .. n BY <1>1
  <2> HIDE DEF n, L
  <2>3. IsFiniteSet(L) BY <1>3, <2>1, FS_Subset
  <2> QED BY <1>3, <2>2, <2>3
<1>5. ForcedLevels(t) = IF isForced THEN L \cup {n + 1} ELSE L
  <2> HIDE DEF t, n
  <2>1. LevelsOf(t, MtSplits) = LevelsOf(s, MtSplits) \cup {i \in {n + 1} : e.split \in MtSplits}
    BY <1>1 DEF LevelsOf
  <2>2. \A i \in LevelsOf(s, MtSplits) : /\ i \in 1 .. n
                                         /\ i > 1 => s[i - 1] = t[i - 1] /\ s[i] = t[i]
    BY <1>1 DEF LevelsOf
  <2>3. (n + 1) - 1 = n /\ n + 1 > 1 BY <1>1, <1>2
  <2> QED BY <1>1, <1>2, <2>1, <2>2, <2>3 DEF ForcedLevels
<1>6. Cardinality(L) \in Nat BY <1>4, FS_CardinalityType
<1>7. Cardinality(L \cup {n + 1}) = Cardinality(L) + 1
  BY <1>4, FS_AddElement
<1> HIDE DEF t, L, isForced
<1> QED BY <1>5, <1>6, <1>7 DEF t, L, isForced

\* The group begins at the top level if that may begin one, or else where it did.
LEMMA GroupBeginsAppend ==
  ASSUME NEW s, IsSeq(s), NEW e, NEW at
  PROVE  GroupBegins(Append(s, e), at) <=>
           IF e.qgEnable THEN at = Position(e) ELSE GroupBegins(s, at)
<1> DEFINE n == Len(s)
           t == Append(s, e)
<1>1. /\ n \in Nat /\ DOMAIN s = 1 .. n /\ DOMAIN t = 1 .. n + 1 /\ t[n + 1] = e
      /\ \A i \in 1 .. n : t[i] = s[i]
      /\ 1 .. n + 1 = (1 .. n) \cup {n + 1} /\ n + 1 \notin 1 .. n
      /\ \A i \in 1 .. n + 1 : i <= n + 1
  BY AppendIsSeq
<1> HIDE DEF t, n
<1>2. CASE e.qgEnable
  <2>1. ASSUME GroupBegins(t, at) PROVE at = Position(e)
    <3>1. PICK d \in 1 .. n + 1 : /\ \A i \in 1 .. n + 1 : t[i].qgEnable => i <= d
                                  /\ at = Position(t[d])
      BY <1>1, <2>1 DEF GroupBegins
    <3>2. n + 1 <= d BY <1>1, <1>2, <3>1
    <3>3. d = n + 1 BY <1>1, <3>2
    <3> QED BY <1>1, <3>1, <3>3
  <2>2. ASSUME at = Position(e) PROVE GroupBegins(t, at)
    <3>1. n + 1 \in DOMAIN t BY <1>1
    <3> QED BY <1>1, <1>2, <2>2, <3>1 DEF GroupBegins
  <2> QED BY <1>2, <2>1, <2>2 DEF t
<1>3. CASE ~e.qgEnable
  <2>1. ASSUME GroupBegins(t, at) PROVE GroupBegins(s, at)
    <3>1. PICK d \in 1 .. n + 1 : /\ t[d].qgEnable
                                  /\ \A i \in 1 .. n + 1 : t[i].qgEnable => i <= d
                                  /\ at = Position(t[d])
      BY <1>1, <2>1 DEF GroupBegins
    <3>2. d \in 1 .. n BY <1>1, <1>3, <3>1
    <3> QED BY <1>1, <3>1, <3>2 DEF GroupBegins
  <2>2. ASSUME GroupBegins(s, at) PROVE GroupBegins(t, at)
    <3>1. PICK d \in 1 .. n : /\ s[d].qgEnable
                              /\ \A i \in 1 .. n : s[i].qgEnable => i <= d
                              /\ at = Position(s[d])
      BY <1>1, <2>2 DEF GroupBegins
    <3>2. \A i \in 1 .. n + 1 : t[i].qgEnable => i <= d
      BY <1>1, <1>3, <3>1
    <3>3. d \in DOMAIN t /\ t[d] = s[d] BY <1>1
    <3> QED BY <1>1, <3>1, <3>2, <3>3 DEF GroupBegins
  <2> QED BY <1>3, <2>1, <2>2 DEF t
<1> QED BY <1>2, <1>3
-----------------------------------------------------------------------------
(* The invariant of one partitioner.                                       *)

PartFields ==
  {"stack", "qtDepth", "btDepth", "mtDepth", "subdiv", "implicitBtDepth", "qgPos",
   "chType", "treeType", "modeType"}
LevelFields == {"split", "parts", "idx", "qgEnable", "implicit"}

IsRecord(r, fields) == r = [f \in fields |-> r[f]]

LevelOK(level) ==
  /\ IsRecord(level, LevelFields)
  /\ level.split \in Splits \cup {"CTU_LEVEL"} /\ level.qgEnable \in BOOLEAN
  /\ Len(level.parts) \in Nat /\ level.idx \in 0 .. Len(level.parts) - 1
  /\ level.split \in TtSplits => Len(level.parts) = 3

\* A level of the stack and the one below it: only a level that may begin a group
\* holds one that may, and a split that the border does not force is one where it
\* forces none.
Fits(below, level) ==
  /\ level.split \in Splits
  /\ level.qgEnable => below.qgEnable
  /\ level.split \in MtSplits => below.implicit \in {"NO", level.split}

StackOK(stack) ==
  /\ IsSeq(stack) /\ stack # <<>>
  /\ \A i \in DOMAIN stack : LevelOK(stack[i])
  /\ stack[1].split = "CTU_LEVEL" /\ stack[1].qgEnable
  /\ \A i \in DOMAIN stack : i > 1 => Fits(stack[i - 1], stack[i])

PartOK(p) == IsRecord(p, PartFields) /\ StackOK(p.stack) /\ MatchesItsStack(p)

Top(p) == Last(p.stack)

\* StackOK, from the top.
LEMMA StackOKAppend ==
  ASSUME NEW s, IsSeq(s), NEW e
  PROVE  StackOK(Append(s, e)) <=>
           /\ LevelOK(e)
           /\ s = <<>> => e.split = "CTU_LEVEL" /\ e.qgEnable
           /\ s # <<>> => StackOK(s) /\ Fits(Last(s), e)
<1> DEFINE n == Len(s)
           t == Append(s, e)
<1>1. /\ n \in Nat /\ DOMAIN s = 1 .. n /\ DOMAIN t = 1 .. n + 1 /\ t[n + 1] = e
      /\ \A i \in 1 .. n : t[i] = s[i]
      /\ 1 .. n + 1 = (1 .. n) \cup {n + 1}
      /\ IsSeq(t) /\ t # <<>>
  BY AppendIsSeq
<1>2. Last(s) = s[n] BY DEF Last
<1>3. s = <<>> <=> n = 0
  BY FrontAndLast, EmptyIsSeq, <1>1
<1> HIDE DEF t, n
<1>4. CASE s = <<>>
  <2>1. n = 0 /\ DOMAIN t = {1} /\ t[1] = e BY <1>1, <1>3, <1>4
  <2>2. \A i \in DOMAIN t : ~(i > 1) BY <2>1
  <2> QED BY <1>1, <1>4, <2>1, <2>2 DEF StackOK, t
<1>5. CASE s # <<>>
  <2>1. n > 0 /\ 1 \in 1 .. n /\ n \in 1 .. n /\ (n + 1) - 1 = n /\ n + 1 > 1
    BY <1>1, <1>3, <1>5
  <2>2. \A i \in 1 .. n : i > 1 => i - 1 \in 1 .. n BY <1>1
  <2>3. t[1] = s[1] /\ t[n] = s[n] BY <1>1, <2>1
  <2>4. (\A i \in DOMAIN t : LevelOK(t[i])) <=> LevelOK(e) /\ \A i \in DOMAIN s : LevelOK(s[i])
    BY <1>1
  <2>5. (\A i \in DOMAIN t : i > 1 => Fits(t[i - 1], t[i])) <=>
          Fits(s[n], e) /\ \A i \in DOMAIN s : i > 1 => Fits(s[i - 1], s[i])
    <3>1. \A i \in 1 .. n : i > 1 => Fits(t[i - 1], t[i]) = Fits(s[i - 1], s[i])
      BY <1>1, <2>2
    <3>2. Fits(t[(n + 1) - 1], t[n + 1]) = Fits(s[n], e)
      BY <1>1, <2>1, <2>3
    <3> QED BY <1>1, <2>1, <3>1, <3>2
  <2> QED BY <1>1, <1>2, <1>5, <2>3, <2>4, <2>5 DEF StackOK, t
<1> QED BY <1>4, <1>5

\* Another level of the same split on the top: the numbers of levels stay, and the
\* sums change by what the levels differ.
LEMMA TopReplaced ==
  ASSUME NEW f, IsSeq(f), NEW e, StackOK(Append(f, e)), NEW d, LevelOK(d),
         d.split = e.split, d.qgEnable = e.qgEnable
  PROVE  /\ StackOK(Append(f, d)) /\ Len(Append(f, d)) = Len(Append(f, e))
         /\ \A kinds :
              /\ Cardinality(LevelsOf(Append(f, d), kinds)) = Cardinality(LevelsOf(Append(f, e), kinds))
              /\ SumOver(Append(f, e), kinds) \in Nat
              /\ SumOver(Append(f, d), kinds) =
                   SumOver(Append(f, e), kinds) - Halved(e, kinds) + Halved(d, kinds)
         /\ Cardinality(ForcedLevels(Append(f, d))) = Cardinality(ForcedLevels(Append(f, e)))
<1>1. StackOK(Append(f, d))
  <2>1. ASSUME f # <<>>, Fits(Last(f), e) PROVE Fits(Last(f), d)
    BY <2>1 DEF Fits
  <2> QED BY <2>1, StackOKAppend
<1>2. Len(Append(f, d)) = Len(Append(f, e)) BY AppendIsSeq
<1>3. ASSUME NEW kinds
      PROVE  Cardinality(LevelsOf(Append(f, d), kinds)) = Cardinality(LevelsOf(Append(f, e), kinds))
  BY LevelsOfAppend
<1>4. ASSUME NEW kinds
      PROVE  /\ SumOver(Append(f, e), kinds) \in Nat
             /\ SumOver(Append(f, d), kinds) =
                  SumOver(Append(f, e), kinds) - Halved(e, kinds) + Halved(d, kinds)
  <2>1. /\ SumOver(f, kinds) \in Nat
        /\ SumOver(Append(f, e), kinds) = SumOver(f, kinds) + Halved(e, kinds)
        /\ SumOver(Append(f, d), kinds) = SumOver(f, kinds) + Halved(d, kinds)
    BY SumOverAppend
  <2>2. Halved(e, kinds) \in Nat /\ Halved(d, kinds) \in Nat BY HalvedIsNat
  <2> QED BY <2>1, <2>2
<1>5. Cardinality(ForcedLevels(Append(f, d))) = Cardinality(ForcedLevels(Append(f, e)))
  <2>1. CASE f # <<>> BY <2>1, ForcedLevelsAppend
  <2>2. CASE f = <<>>
    <3>1. e.split = "CTU_LEVEL" BY <2>2, StackOKAppend
    <3>2. \A level : level.split = "CTU_LEVEL" => ForcedLevels(Append(f, level)) = {}
      <4> SUFFICES ASSUME NEW level, level.split = "CTU_LEVEL", NEW i \in ForcedLevels(Append(f, level))
                   PROVE  FALSE
        OBVIOUS
      <4>1. DOMAIN Append(f, level) = {1} /\ Append(f, level)[1] = level
        <5>1. Len(f) = 0 BY <2>2, EmptyIsSeq
        <5>2. DOMAIN Append(f, level) = 1 .. 1 /\ Append(f, level)[1] = level
          BY <5>1, AppendIsSeq
        <5> QED BY <5>2
      <4> QED BY <4>1 DEF ForcedLevels, LevelsOf
    <3> QED BY <3>1, <3>2
  <2> QED BY <2>1, <2>2
<1> QED BY <1>1, <1>2, <1>3, <1>4, <1>5

\* The levels below the top.
LEMMA StackParts ==
  ASSUME NEW p, PartOK(p)
  PROVE  /\ p.stack = Append(Front(p.stack), Top(p)) /\ IsSeq(Front(p.stack))
         /\ Len(p.stack) = Len(Front(p.stack)) + 1 /\ Len(Front(p.stack)) \in Nat
         /\ LevelOK(Top(p))
         /\ Len(p.stack) > 1 => /\ Front(p.stack) # <<>> /\ StackOK(Front(p.stack))
                                /\ Fits(Last(Front(p.stack)), Top(p))
         /\ Top(p).qgEnable => p.qgPos = Position(Top(p))
<1> DEFINE f == Front(p.stack)
           e == Top(p)
<1>1. /\ p.stack = Append(f, e) /\ IsSeq(f)
      /\ Len(p.stack) = Len(f) + 1 /\ Len(f) \in Nat
  BY FrontAndLast DEF PartOK, StackOK, Top
<1>2. StackOK(Append(f, e)) /\ GroupBegins(Append(f, e), p.qgPos)
  BY <1>1 DEF PartOK, MatchesItsStack
<1> HIDE DEF f, e
<1>3. /\ LevelOK(e)
      /\ f # <<>> => StackOK(f) /\ Fits(Last(f), e)
  BY <1>1, <1>2, StackOKAppend
<1>4. Len(f) > 0 => f # <<>> BY EmptyIsSeq
<1>5. e.qgEnable => p.qgPos = Position(e)
  BY <1>1, <1>2, GroupBeginsAppend
<1> QED BY <1>1, <1>3, <1>4, <1>5 DEF f, e

\* WithTop puts another level on the top.
LEMMA WithTopFields ==
  ASSUME NEW p, PartOK(p), NEW level
  PROVE  /\ IsRecord(WithTop(p, level), PartFields)
         /\ WithTop(p, level).stack = Append(Front(p.stack), level)
         /\ Top(WithTop(p, level)) = level /\ Len(WithTop(p, level).stack) = Len(p.stack)
         /\ \A f \in PartFields : f # "stack" => WithTop(p, level)[f] = p[f]
<1> DEFINE q == WithTop(p, level)
<1>1. /\ p.stack = Append(Front(p.stack), Top(p)) /\ IsSeq(Front(p.stack))
      /\ Len(p.stack) = Len(Front(p.stack)) + 1
  BY StackParts
<1>2. /\ [p.stack EXCEPT ![Len(p.stack)] = level] = Append(Front(p.stack), level)
      /\ Last(Append(Front(p.stack), level)) = level
      /\ Len(Append(Front(p.stack), level)) = Len(p.stack)
  BY <1>1, AppendIsSeq
<1>3. q = [p EXCEPT !.stack = [p.stack EXCEPT ![Len(p.stack)] = level]]
  BY DEF WithTop
<1>4. /\ IsRecord(q, PartFields) /\ q.stack = Append(Front(p.stack), level)
      /\ \A f \in PartFields : f # "stack" => q[f] = p[f]
  BY <1>2, <1>3 DEF PartOK, IsRecord, PartFields
<1> HIDE DEF q
<1> QED BY <1>2, <1>4 DEF q, Top

\* The splits of a stack, as far as another one goes.
SameSplits(stack, part1) == \A i \in 1 .. Len(part1) : stack[i].split = part1[i].split

\* A top level of the same split leaves the splits as they are.
LEMMA TopsSplits ==
  ASSUME NEW f, IsSeq(f), NEW e, NEW d, d.split = e.split
  PROVE  SameSplits(Append(f, d), Append(f, e))
<1>1. \A x : /\ Len(f) \in Nat /\ Len(Append(f, x)) = Len(f) + 1
             /\ \A i \in 1 .. Len(f) : Append(f, x)[i] = f[i]
             /\ Append(f, x)[Len(f) + 1] = x
  BY AppendIsSeq
<1> QED BY <1>1 DEF SameSplits

\* getImplicitSplit keeps its answer on the top level.
LEMMA CheckedOK ==
  ASSUME NEW c, NEW p, PartOK(p)
  PROVE  /\ PartOK(Checked(c, p)) /\ Len(Checked(c, p).stack) = Len(p.stack)
         /\ Top(Checked(c, p)).implicit # "UNCHECKED"
         /\ \A f \in LevelFields : f # "implicit" => Top(Checked(c, p))[f] = Top(p)[f]
         /\ \A f \in PartFields : f # "stack" => Checked(c, p)[f] = p[f]
         /\ SameSplits(Checked(c, p).stack, p.stack)
         /\ Top(p).implicit # "UNCHECKED" => Checked(c, p) = p
         /\ Position(Top(Checked(c, p))) = Position(Top(p))
<1> DEFINE top == Top(p)
           d == [top EXCEPT !.implicit = ImplicitSplit(c, p)]
           q == WithTop(p, d)
           f == Front(p.stack)
<1>1. CASE top.implicit # "UNCHECKED"
  <2>1. Checked(c, p) = p BY <1>1 DEF Checked, Top
  <2> QED BY <1>1, <2>1 DEF SameSplits
<1>2. CASE top.implicit = "UNCHECKED"
  <2>1. Checked(c, p) = q BY <1>2 DEF Checked, Top
  <2>2. /\ IsRecord(q, PartFields) /\ q.stack = Append(f, d)
        /\ Top(q) = d /\ Len(q.stack) = Len(p.stack)
        /\ \A x \in PartFields : x # "stack" => q[x] = p[x]
    BY WithTopFields
  <2>3. /\ p.stack = Append(f, top) /\ IsSeq(f) /\ LevelOK(top)
        /\ StackOK(p.stack) /\ MatchesItsStack(p)
    BY StackParts DEF PartOK
  <2>4. ImplicitSplit(c, p) # "UNCHECKED" BY DEF ImplicitSplit
  <2>5. /\ IsRecord(d, LevelFields) /\ d.implicit = ImplicitSplit(c, p)
        /\ \A x \in LevelFields : x # "implicit" => d[x] = top[x]
    BY <2>3 DEF LevelOK, IsRecord, LevelFields
  <2>6. d.split = top.split /\ d.parts = top.parts /\ d.idx = top.idx /\ d.qgEnable = top.qgEnable
    BY <2>5 DEF LevelFields
  <2>7. LevelOK(d) BY <2>3, <2>5, <2>6 DEF LevelOK
  <2>8. Position(d) = Position(top) BY <2>6 DEF Position, CurrentPart
  <2> HIDE DEF d, q, top, f
  <2>9. /\ StackOK(q.stack)
        /\ \A kinds :
             /\ Cardinality(LevelsOf(q.stack, kinds)) = Cardinality(LevelsOf(p.stack, kinds))
             /\ SumOver(q.stack, kinds) = SumOver(p.stack, kinds)
        /\ Cardinality(ForcedLevels(q.stack)) = Cardinality(ForcedLevels(p.stack))
    <3>1. \A kinds : Halved(d, kinds) = Halved(top, kinds) /\ Halved(d, kinds) \in Nat
      BY <2>6, HalvedIsNat DEF Halved
    <3>2. StackOK(Append(f, top)) BY <2>3
    <3>3. /\ StackOK(Append(f, d))
          /\ \A kinds :
               /\ Cardinality(LevelsOf(Append(f, d), kinds)) = Cardinality(LevelsOf(Append(f, top), kinds))
               /\ SumOver(Append(f, top), kinds) \in Nat
               /\ SumOver(Append(f, d), kinds) =
                    SumOver(Append(f, top), kinds) - Halved(top, kinds) + Halved(d, kinds)
          /\ Cardinality(ForcedLevels(Append(f, d))) = Cardinality(ForcedLevels(Append(f, top)))
      BY <2>3, <2>6, <2>7, <3>2, TopReplaced
    <3> QED BY <2>2, <2>3, <3>1, <3>3
  <2>10. GroupBegins(q.stack, p.qgPos)
    <3>1. GroupBegins(Append(f, top), p.qgPos) BY <2>3 DEF MatchesItsStack
    <3> QED BY <2>2, <2>3, <2>6, <2>8, <3>1, GroupBeginsAppend
  <2>11. MatchesItsStack(q)
    BY <2>2, <2>3, <2>9, <2>10 DEF MatchesItsStack, PartFields
  <2>12. PartOK(q) BY <2>2, <2>9, <2>11 DEF PartOK
  <2>13. SameSplits(q.stack, p.stack) BY <2>2, <2>3, <2>6, TopsSplits
  <2> QED BY <1>2, <2>1, <2>2, <2>4, <2>5, <2>8, <2>12, <2>13 DEF top
<1> QED BY <1>1, <1>2

\* AtGroup lets the group begin at the current part if the top level may begin one.
LEMMA AtGroupOK ==
  ASSUME NEW q, IsRecord(q, PartFields), StackOK(q.stack),
         q.qtDepth = Cardinality(LevelsOf(q.stack, {"QUAD"})),
         q.mtDepth = Cardinality(LevelsOf(q.stack, MtSplits)),
         q.btDepth = SumOver(q.stack, MtSplits), q.subdiv = SumOver(q.stack, Splits),
         q.implicitBtDepth = Cardinality(ForcedLevels(q.stack)),
         ~Top(q).qgEnable => GroupBegins(q.stack, q.qgPos)
  PROVE  /\ PartOK(AtGroup(q))
         /\ \A f \in PartFields : f # "qgPos" => AtGroup(q)[f] = q[f]
         /\ ~Top(q).qgEnable => AtGroup(q) = q
         /\ Top(q).qgEnable => AtGroup(q).qgPos = Position(Top(q))
<1>1. CASE Top(q).qgEnable
  <2> DEFINE r == [q EXCEPT !.qgPos = Position(Last(q.stack))]
  <2>1. AtGroup(q) = r BY <1>1 DEF AtGroup, Top
  <2>2. /\ IsRecord(r, PartFields) /\ r.qgPos = Position(Last(q.stack))
        /\ \A f \in PartFields : f # "qgPos" => r[f] = q[f]
    BY DEF IsRecord, PartFields
  <2> HIDE DEF r
  <2>3. /\ r.stack = q.stack /\ r.qtDepth = q.qtDepth /\ r.mtDepth = q.mtDepth
        /\ r.btDepth = q.btDepth /\ r.subdiv = q.subdiv /\ r.implicitBtDepth = q.implicitBtDepth
    BY <2>2 DEF PartFields
  <2>4. GroupBegins(q.stack, Position(Last(q.stack)))
    <3>1. q.stack = Append(Front(q.stack), Last(q.stack)) /\ IsSeq(Front(q.stack))
      BY FrontAndLast DEF StackOK
    <3>2. GroupBegins(Append(Front(q.stack), Last(q.stack)), Position(Last(q.stack)))
      BY <1>1, <3>1, GroupBeginsAppend DEF Top
    <3> QED BY <3>1, <3>2
  <2>5. PartOK(r) BY <2>2, <2>3, <2>4 DEF PartOK, MatchesItsStack
  <2> QED BY <1>1, <2>1, <2>2, <2>5 DEF Top
<1>2. CASE ~Top(q).qgEnable
  <2>1. AtGroup(q) = q BY <1>2 DEF AtGroup, Top
  <2> QED BY <1>2, <2>1 DEF PartOK, MatchesItsStack
<1> QED BY <1>1, <1>2

\* The first part of a split begins where the block does, and a ternary split has
\* three parts.
LEMMA SubAreasFacts ==
  ASSUME NEW a, NEW split \in Splits
  PROVE  /\ Len(SubAreas(a, split)) \in Nat /\ Len(SubAreas(a, split)) > 0
         /\ split \in TtSplits => Len(SubAreas(a, split)) = 3
         /\ SubAreas(a, split)[1].x = a.x /\ SubAreas(a, split)[1].y = a.y
<1> DEFINE xs == CASE split \in {"QUAD", "VERT"} -> Halves(a.x, a.w)
                   [] split = "TRIV" -> Thirds(a.x, a.w)
                   [] OTHER -> Whole(a.x, a.w)
           ys == CASE split \in {"QUAD", "HORZ"} -> Halves(a.y, a.h)
                   [] split = "TRIH" -> Thirds(a.y, a.h)
                   [] OTHER -> Whole(a.y, a.h)
           areas == SubAreas(a, split)
           n == Len(xs) * Len(ys)
<1>1. /\ Len(xs) = IF split \in {"QUAD", "VERT"} THEN 2 ELSE IF split = "TRIV" THEN 3 ELSE 1
      /\ xs[1].at = a.x
  BY DEF Halves, Thirds, Whole
<1>2. /\ Len(ys) = IF split \in {"QUAD", "HORZ"} THEN 2 ELSE IF split = "TRIH" THEN 3 ELSE 1
      /\ ys[1].at = a.y
  BY DEF Halves, Thirds, Whole
<1> HIDE DEF xs, ys
<1>3. areas = [i \in 1 .. n |-> [x |-> xs[((i - 1) % Len(xs)) + 1].at,
                                 y |-> ys[((i - 1) \div Len(xs)) + 1].at,
                                 w |-> xs[((i - 1) % Len(xs)) + 1].size,
                                 h |-> ys[((i - 1) \div Len(xs)) + 1].size]]
  BY DEF SubAreas, xs, ys
<1>4. n \in Nat /\ n > 0 /\ (split \in TtSplits => n = 3)
  BY <1>1, <1>2 DEF TtSplits
<1>5. Len(areas) = n
  <2> DEFINE S == {areas[i] : i \in 1 .. n}
  <2>2. DOMAIN areas = 1 .. n /\ areas = [i \in 1 .. n |-> areas[i]] BY <1>3
  <2> HIDE DEF areas, n
  <2>3. areas \in [1 .. n -> S] BY <2>2
  <2> HIDE DEF S
  <2>1. areas \in Seq(S) BY <1>4, <2>3
  <2> QED BY <1>4, <2>1, <2>2
<1>6. areas[1].x = a.x /\ areas[1].y = a.y
  <2>1. 1 \in 1 .. n BY <1>4
  <2>2. ((1 - 1) % Len(xs)) + 1 = 1 /\ ((1 - 1) \div Len(xs)) + 1 = 1 BY <1>1
  <2>3. /\ areas[1].x = xs[((1 - 1) % Len(xs)) + 1].at
        /\ areas[1].y = ys[((1 - 1) \div Len(xs)) + 1].at
    BY <1>3, <2>1
  <2> QED BY <1>1, <1>2, <2>2, <2>3
<1> HIDE DEF areas, n
<1> QED BY <1>4, <1>5, <1>6 DEF areas

\* splitCurrArea.  Where its CHECK passes, there is nothing to reset for a quadtree.
LEMMA SplitOK ==
  ASSUME NEW c, c.qpSubdiv \in Nat, NEW p, PartOK(p), NEW split \in Splits, ~SplitFails(p, split),
         split \in MtSplits => Top(Checked(c, p)).implicit \in {"NO", split}
  PROVE  LET q == SplitCurrArea(c, p, split) IN
         /\ PartOK(q) /\ Len(q.stack) = Len(p.stack) + 1
         /\ q.qgPos = p.qgPos /\ q.chType = p.chType
         /\ Top(q).qgEnable => Top(p).qgEnable
         /\ Position(Top(q)) = Position(Top(p))
         /\ SameSplits(q.stack, p.stack) /\ Top(q).split = split
<1> DEFINE k == Checked(c, p)
           subdiv == p.subdiv + Halvings(split)
           areas == SubAreas(Area(p), split)
           level == Level(split, areas, Last(p.stack).qgEnable /\ subdiv <= c.qpSubdiv)
           pushed == [k EXCEPT !.stack = Append(@, level), !.subdiv = subdiv]
           implicitBtDepth == IF split = Last(k.stack).implicit THEN k.implicitBtDepth + 1
                              ELSE k.implicitBtDepth
           q == IF split = "QUAD"
                THEN [pushed EXCEPT !.mtDepth = 0, !.btDepth = 0, !.qtDepth = @ + 1]
                ELSE [pushed EXCEPT !.btDepth = @ + Halvings(split), !.mtDepth = @ + 1,
                                    !.implicitBtDepth = implicitBtDepth]
<1>1. SplitCurrArea(c, p, split) = AtGroup(q)
  BY DEF SplitCurrArea
<1>2. /\ PartOK(k) /\ Len(k.stack) = Len(p.stack)
      /\ \A f \in LevelFields : f # "implicit" => Top(k)[f] = Top(p)[f]
      /\ \A f \in PartFields : f # "stack" => k[f] = p[f]
      /\ Position(Top(k)) = Position(Top(p)) /\ SameSplits(k.stack, p.stack)
  BY CheckedOK
<1>3. split \in MtSplits => Top(k).implicit \in {"NO", split} OBVIOUS
<1> HIDE DEF k
<1>4. Top(k).qgEnable = Top(p).qgEnable BY <1>2 DEF LevelFields
<1>5. /\ k.qtDepth = p.qtDepth /\ k.mtDepth = p.mtDepth /\ k.btDepth = p.btDepth
      /\ k.subdiv = p.subdiv /\ k.qgPos = p.qgPos /\ k.chType = p.chType
  BY <1>2 DEF PartFields
<1>6. /\ IsRecord(k, PartFields) /\ StackOK(k.stack) /\ IsSeq(k.stack) /\ k.stack # <<>>
      /\ MatchesItsStack(k) /\ LevelOK(Top(k))
  BY <1>2, StackParts DEF PartOK, StackOK
<1>7. /\ level = [split |-> split, parts |-> areas, idx |-> 0,
                  qgEnable |-> Last(p.stack).qgEnable /\ subdiv <= c.qpSubdiv,
                  implicit |-> "UNCHECKED"]
      /\ Len(areas) \in Nat /\ Len(areas) > 0 /\ (split \in TtSplits => Len(areas) = 3)
      /\ areas[1].x = Area(p).x /\ areas[1].y = Area(p).y
  BY SubAreasFacts DEF Level
<1> HIDE DEF level, areas
<1>8. /\ IsRecord(level, LevelFields) /\ level.split = split /\ level.parts = areas
      /\ level.idx = 0 /\ level.qgEnable = (Top(p).qgEnable /\ subdiv <= c.qpSubdiv)
  BY <1>7 DEF IsRecord, LevelFields, Top
<1>9. subdiv \in Nat /\ Halvings(split) \in Nat
  <2>1. k.subdiv \in Nat BY <1>6, SumOverAppend DEF MatchesItsStack
  <2> QED BY <1>5, <2>1 DEF Halvings
<1> HIDE DEF subdiv
<1>10. LevelOK(level)
  <2>1. level.qgEnable \in BOOLEAN BY <1>8
  <2> QED BY <1>7, <1>8, <2>1 DEF LevelOK
<1>11. Fits(Top(k), level)
  <2>1. level.qgEnable => Top(k).qgEnable BY <1>4, <1>8
  <2> QED BY <1>3, <1>8, <2>1 DEF Fits
<1>12. /\ StackOK(Append(k.stack, level)) /\ Len(Append(k.stack, level)) = Len(k.stack) + 1
       /\ Last(Append(k.stack, level)) = level
  BY <1>6, <1>10, <1>11, StackOKAppend, AppendIsSeq DEF Top
<1>13. Position(level) = Position(Top(p))
  BY <1>7, <1>8 DEF Position, CurrentPart, Area, Top
<1>14. /\ k.mtDepth \in Nat /\ k.btDepth \in Nat /\ k.qtDepth \in Nat /\ k.implicitBtDepth \in Nat
       /\ split = "QUAD" => k.mtDepth = 0 /\ k.btDepth = 0
  <2>1. /\ k.mtDepth \in Nat /\ k.btDepth \in Nat /\ k.qtDepth \in Nat /\ k.implicitBtDepth \in Nat
    <3>1. \A kinds : Cardinality(LevelsOf(k.stack, kinds)) \in Nat /\ SumOver(k.stack, kinds) \in Nat
      BY <1>6, LevelsOfAppend, SumOverAppend
    <3>2. Cardinality(ForcedLevels(k.stack)) \in Nat
      BY <1>6, ForcedLevelsAppend
    <3> QED BY <1>6, <3>1, <3>2 DEF MatchesItsStack
  <2>2. split = "QUAD" => ~(p.btDepth > 0 \/ p.mtDepth > 0) BY DEF SplitFails
  <2> QED BY <1>5, <2>1, <2>2
<1>15. /\ Halved(level, Splits) = Halvings(split)
       /\ Halved(level, MtSplits) = IF split = "QUAD" THEN 0 ELSE Halvings(split)
       /\ split \in MtSplits <=> split # "QUAD"
  BY <1>8 DEF Halved, Splits, MtSplits, BtSplits, TtSplits
<1>16. /\ SumOver(Append(k.stack, level), Splits) = k.subdiv + Halvings(split)
       /\ SumOver(Append(k.stack, level), MtSplits) =
            k.btDepth + (IF split = "QUAD" THEN 0 ELSE Halvings(split))
       /\ Cardinality(LevelsOf(Append(k.stack, level), {"QUAD"})) =
            k.qtDepth + (IF split = "QUAD" THEN 1 ELSE 0)
       /\ Cardinality(LevelsOf(Append(k.stack, level), MtSplits)) =
            k.mtDepth + (IF split = "QUAD" THEN 0 ELSE 1)
       /\ Cardinality(ForcedLevels(Append(k.stack, level))) =
            k.implicitBtDepth + (IF split # "QUAD" /\ Last(k.stack).implicit = split THEN 1 ELSE 0)
  BY <1>6, <1>8, <1>15, LevelsOfAppend, SumOverAppend, ForcedLevelsAppend DEF MatchesItsStack
<1>17. /\ IsRecord(q, PartFields) /\ q.stack = Append(k.stack, level) /\ q.subdiv = subdiv
       /\ q.qgPos = k.qgPos /\ q.chType = k.chType
       /\ split = "QUAD" => /\ q.mtDepth = 0 /\ q.btDepth = 0 /\ q.qtDepth = k.qtDepth + 1
                            /\ q.implicitBtDepth = k.implicitBtDepth
       /\ split # "QUAD" => /\ q.mtDepth = k.mtDepth + 1 /\ q.btDepth = k.btDepth + Halvings(split)
                            /\ q.qtDepth = k.qtDepth
                            /\ q.implicitBtDepth = implicitBtDepth
  <2> HIDE DEF implicitBtDepth
  <2>1. /\ IsRecord(pushed, PartFields) /\ pushed.stack = Append(k.stack, level)
        /\ pushed.subdiv = subdiv
        /\ \A f \in PartFields : f \notin {"stack", "subdiv"} => pushed[f] = k[f]
    BY <1>6 DEF IsRecord, PartFields
  <2> HIDE DEF pushed
  <2>2. CASE split = "QUAD"
    <3>1. q = [pushed EXCEPT !.mtDepth = 0, !.btDepth = 0, !.qtDepth = @ + 1] BY <2>2
    <3> HIDE DEF q
    <3>2. /\ IsRecord(q, PartFields) /\ q.mtDepth = 0 /\ q.btDepth = 0
          /\ q.qtDepth = pushed.qtDepth + 1
          /\ \A f \in PartFields : f \notin {"mtDepth", "btDepth", "qtDepth"} => q[f] = pushed[f]
      BY <2>1, <3>1 DEF IsRecord, PartFields
    <3> QED BY <2>1, <2>2, <3>2 DEF PartFields
  <2>3. CASE split # "QUAD"
    <3>1. q = [pushed EXCEPT !.btDepth = @ + Halvings(split), !.mtDepth = @ + 1,
                             !.implicitBtDepth = implicitBtDepth]
      BY <2>3
    <3> HIDE DEF q
    <3>2. /\ IsRecord(q, PartFields) /\ q.btDepth = pushed.btDepth + Halvings(split)
          /\ q.mtDepth = pushed.mtDepth + 1 /\ q.implicitBtDepth = implicitBtDepth
          /\ \A f \in PartFields : f \notin {"mtDepth", "btDepth", "implicitBtDepth"} => q[f] = pushed[f]
      BY <2>1, <3>1 DEF IsRecord, PartFields
    <3> QED BY <2>1, <2>3, <3>2 DEF PartFields
  <2> QED BY <2>2, <2>3
<1> HIDE DEF q
<1>18. /\ q.qtDepth = Cardinality(LevelsOf(q.stack, {"QUAD"}))
       /\ q.mtDepth = Cardinality(LevelsOf(q.stack, MtSplits))
       /\ q.btDepth = SumOver(q.stack, MtSplits) /\ q.subdiv = SumOver(q.stack, Splits)
       /\ q.implicitBtDepth = Cardinality(ForcedLevels(q.stack))
  <2>1. CASE split = "QUAD"
    <3>1. k.btDepth + 0 = 0 /\ k.mtDepth + 0 = 0 /\ k.implicitBtDepth + 0 = k.implicitBtDepth
      BY <1>14, <2>1
    <3> QED BY <1>5, <1>16, <1>17, <2>1, <3>1 DEF subdiv
  <2>2. CASE split # "QUAD"
    BY <1>5, <1>14, <1>16, <1>17, <2>2 DEF subdiv
  <2> QED BY <2>1, <2>2
<1>19. Top(q) = level BY <1>12, <1>17 DEF Top
<1>20. ~level.qgEnable => GroupBegins(q.stack, q.qgPos)
  <2>1. GroupBegins(k.stack, k.qgPos) BY <1>6 DEF MatchesItsStack
  <2> QED BY <1>6, <1>17, <2>1, GroupBeginsAppend
<1> DEFINE r == AtGroup(q)
<1>21. /\ PartOK(r)
       /\ \A f \in PartFields : f # "qgPos" => r[f] = q[f]
       /\ ~level.qgEnable => r = q
       /\ level.qgEnable => r.qgPos = Position(level)
  BY <1>12, <1>17, <1>18, <1>19, <1>20, AtGroupOK
<1> HIDE DEF r
<1>22. r.stack = q.stack /\ r.chType = q.chType BY <1>21 DEF PartFields
<1>23. level.qgEnable => Position(level) = p.qgPos
  BY <1>8, <1>13, StackParts
<1>24. r.qgPos = p.qgPos BY <1>5, <1>10, <1>17, <1>21, <1>23 DEF LevelOK
<1>25. Top(r) = level BY <1>19, <1>22 DEF Top
<1>26. SameSplits(r.stack, p.stack)
  <2>1. \A i \in 1 .. Len(k.stack) : Append(k.stack, level)[i] = k.stack[i]
    BY <1>6, AppendIsSeq
  <2> QED BY <1>2, <1>17, <1>22, <2>1 DEF SameSplits
<1> QED BY <1>1, <1>2, <1>5, <1>8, <1>12, <1>13, <1>17, <1>21, <1>22, <1>24, <1>25, <1>26 DEF r

\* nextPart.
LEMMA NextPartOK ==
  ASSUME NEW p, PartOK(p), HasNextPart(p)
  PROVE  LET q == NextPart(p) IN
         /\ PartOK(q) /\ Len(q.stack) = Len(p.stack) /\ q.chType = p.chType
         /\ Top(q).qgEnable = Top(p).qgEnable
         /\ ~Top(p).qgEnable => q.qgPos = p.qgPos
         /\ SameSplits(q.stack, p.stack)
<1> DEFINE top == Top(p)
           d == [top EXCEPT !.idx = @ + 1, !.implicit = "UNCHECKED"]
           next == WithTop(p, d)
           q == [next EXCEPT !.btDepth = @ + Deeper(top), !.subdiv = @ + Deeper(top)]
           f == Front(p.stack)
           r == AtGroup(q)
<1>1. NextPart(p) = r BY DEF NextPart, Top
<1>2. /\ p.stack = Append(f, top) /\ IsSeq(f) /\ LevelOK(top)
      /\ StackOK(p.stack) /\ MatchesItsStack(p)
  BY StackParts DEF PartOK
<1>3. top.idx + 1 < Len(top.parts) BY DEF HasNextPart, Top
<1>4. /\ IsRecord(next, PartFields) /\ next.stack = Append(f, d)
      /\ Top(next) = d /\ Len(next.stack) = Len(p.stack)
      /\ \A x \in PartFields : x # "stack" => next[x] = p[x]
  BY WithTopFields
<1> HIDE DEF next, r, f
<1>5. /\ IsRecord(d, LevelFields) /\ d.idx = top.idx + 1
      /\ d.split = top.split /\ d.parts = top.parts /\ d.qgEnable = top.qgEnable
  BY <1>2 DEF LevelOK, IsRecord, LevelFields
<1> HIDE DEF d, top
<1>6. LevelOK(d)
  <2>1. d.idx \in 0 .. Len(d.parts) - 1 BY <1>2, <1>3, <1>5 DEF LevelOK
  <2> QED BY <1>2, <1>5, <2>1 DEF LevelOK
<1>7. StackOK(Append(f, top)) BY <1>2
<1>8. /\ StackOK(Append(f, d))
      /\ \A kinds :
           /\ Cardinality(LevelsOf(Append(f, d), kinds)) = Cardinality(LevelsOf(Append(f, top), kinds))
           /\ SumOver(Append(f, top), kinds) \in Nat
           /\ SumOver(Append(f, d), kinds) =
                SumOver(Append(f, top), kinds) - Halved(top, kinds) + Halved(d, kinds)
      /\ Cardinality(ForcedLevels(Append(f, d))) = Cardinality(ForcedLevels(Append(f, top)))
  BY <1>2, <1>5, <1>6, <1>7, TopReplaced
<1>9. ASSUME NEW kinds, TtSplits \subseteq kinds
      PROVE  Halved(d, kinds) = Halved(top, kinds) + Deeper(top)
  <2>1. CASE top.split \in TtSplits
    <3>1. top.idx \in {0, 1}
      <4>1. top.idx \in 0 .. Len(top.parts) - 1 /\ Len(top.parts) = 3
        BY <1>2, <2>1 DEF LevelOK
      <4> QED BY <1>3, <4>1
    <3>2. Halvings(top.split) = 2 BY <2>1 DEF Halvings, TtSplits, BtSplits
    <3> QED BY <1>5, <1>9, <2>1, <3>1, <3>2 DEF Halved, Deeper
  <2>2. CASE top.split \notin TtSplits
    <3>1. Deeper(top) = 0 BY <2>2 DEF Deeper
    <3>2. Halved(d, kinds) = Halved(top, kinds) BY <1>5, <2>2 DEF Halved
    <3>3. Halved(top, kinds) \in Nat BY HalvedIsNat
    <3> QED BY <3>1, <3>2, <3>3
  <2> QED BY <2>1, <2>2
<1>10. Deeper(top) \in Int BY DEF Deeper
<1>11. /\ IsRecord(q, PartFields) /\ q.btDepth = next.btDepth + Deeper(top)
       /\ q.subdiv = next.subdiv + Deeper(top)
       /\ \A x \in PartFields : x \notin {"btDepth", "subdiv"} => q[x] = next[x]
  BY <1>4 DEF IsRecord, PartFields
<1> HIDE DEF q
<1>12. /\ q.stack = Append(f, d) /\ q.qtDepth = p.qtDepth /\ q.mtDepth = p.mtDepth
       /\ q.btDepth = p.btDepth + Deeper(top) /\ q.subdiv = p.subdiv + Deeper(top)
       /\ q.implicitBtDepth = p.implicitBtDepth /\ q.qgPos = p.qgPos /\ q.chType = p.chType
  BY <1>4, <1>11 DEF PartFields
<1>13. Top(q) = d BY <1>4, <1>12 DEF Top
<1>14. /\ q.qtDepth = Cardinality(LevelsOf(q.stack, {"QUAD"}))
       /\ q.mtDepth = Cardinality(LevelsOf(q.stack, MtSplits))
       /\ q.implicitBtDepth = Cardinality(ForcedLevels(q.stack))
  BY <1>2, <1>8, <1>12 DEF MatchesItsStack
<1>15. q.btDepth = SumOver(q.stack, MtSplits) /\ q.subdiv = SumOver(q.stack, Splits)
  <2>1. TtSplits \subseteq MtSplits /\ TtSplits \subseteq Splits BY DEF Splits, MtSplits
  <2>2. /\ Halved(d, MtSplits) = Halved(top, MtSplits) + Deeper(top)
        /\ Halved(d, Splits) = Halved(top, Splits) + Deeper(top)
    BY <1>9, <2>1
  <2>3. Halved(top, MtSplits) \in Nat /\ Halved(top, Splits) \in Nat BY HalvedIsNat
  <2>4. /\ SumOver(q.stack, MtSplits) = SumOver(p.stack, MtSplits) + Deeper(top)
        /\ SumOver(q.stack, Splits) = SumOver(p.stack, Splits) + Deeper(top)
    BY <1>2, <1>8, <1>10, <1>12, <2>2, <2>3
  <2> QED BY <1>2, <1>12, <2>4 DEF MatchesItsStack
<1>16. ~Top(q).qgEnable => GroupBegins(q.stack, q.qgPos)
  <2>1. GroupBegins(Append(f, top), p.qgPos) BY <1>2 DEF MatchesItsStack
  <2> QED BY <1>2, <1>5, <1>12, <1>13, <2>1, GroupBeginsAppend
<1>17. /\ PartOK(r)
       /\ \A x \in PartFields : x # "qgPos" => r[x] = q[x]
       /\ ~Top(q).qgEnable => r = q
  <2>1. StackOK(q.stack) BY <1>8, <1>12
  <2> QED BY <1>11, <1>14, <1>15, <1>16, <2>1, AtGroupOK DEF r
<1>18. r.stack = q.stack /\ r.chType = q.chType BY <1>17 DEF PartFields
<1>19. Top(r) = d BY <1>13, <1>18 DEF Top
<1>20. Top(r).qgEnable = Top(p).qgEnable BY <1>5, <1>19 DEF top
<1>21. ~Top(p).qgEnable => r.qgPos = p.qgPos BY <1>5, <1>12, <1>13, <1>17 DEF top
<1>22. Len(r.stack) = Len(p.stack) BY <1>4, <1>12, <1>18
<1>23. SameSplits(r.stack, p.stack) BY <1>2, <1>5, <1>12, <1>18, TopsSplits
<1> QED BY <1>1, <1>12, <1>17, <1>18, <1>20, <1>21, <1>22, <1>23

\* exitCurrSplit, from the last part of a split; the way out of a quadtree split is
\* the same from each of its parts.
LEMMA ExitOK ==
  ASSUME NEW p, PartOK(p), ~HasNextPart(p) \/ Top(p).split = "QUAD", Len(p.stack) > 1
  PROVE  LET q == ExitCurrSplit(p) IN
         /\ PartOK(q) /\ Len(q.stack) = Len(p.stack) - 1 /\ q.chType = p.chType
         /\ Top(p).qgEnable => Top(q).qgEnable
         /\ ~Top(q).qgEnable => q.qgPos = p.qgPos
         /\ SameSplits(p.stack, q.stack) /\ ~ExitFails(p)
<1> DEFINE top == Top(p)
           f == Front(p.stack)
           split == Last(p.stack).split
           q1 == [p EXCEPT !.stack = Front(@), !.subdiv = @ - Halvings(split)]
           implicitBtDepth == IF IsImplicit(Last(q1.stack)) THEN q1.implicitBtDepth - 1
                              ELSE q1.implicitBtDepth
           q == Popped(p)
           r == AtGroup(q)
<1>1. ExitCurrSplit(p) = r BY DEF ExitCurrSplit
<1>2. /\ p.stack = Append(f, top) /\ IsSeq(f) /\ LevelOK(top)
      /\ Len(p.stack) = Len(f) + 1 /\ Len(f) \in Nat
      /\ StackOK(p.stack) /\ MatchesItsStack(p) /\ f # <<>> /\ StackOK(f)
      /\ Fits(Last(f), top)
  BY StackParts DEF PartOK
<1>3. split = top.split /\ split \in Splits BY <1>2 DEF Top, Fits
<1>4. top.split # "QUAD" => ~(top.idx + 1 < Len(top.parts)) BY DEF HasNextPart, Top
<1>5. /\ IsRecord(q1, PartFields) /\ q1.stack = f /\ q1.subdiv = p.subdiv - Halvings(split)
      /\ \A x \in PartFields : x \notin {"stack", "subdiv"} => q1[x] = p[x]
  BY DEF PartOK, IsRecord, PartFields
<1>6. q = IF split = "QUAD" THEN [q1 EXCEPT !.qtDepth = @ - 1]
          ELSE [q1 EXCEPT !.mtDepth = @ - 1, !.btDepth = @ - Halvings(split),
                          !.implicitBtDepth = implicitBtDepth]
  BY DEF Popped
<1>7. implicitBtDepth = IF IsImplicit(Last(f)) THEN p.implicitBtDepth - 1 ELSE p.implicitBtDepth
  BY <1>5 DEF PartFields
<1> HIDE DEF q, q1, r, f, top, split, implicitBtDepth
<1>8. /\ IsRecord(q, PartFields) /\ q.stack = f /\ q.subdiv = p.subdiv - Halvings(split)
      /\ q.qgPos = p.qgPos /\ q.chType = p.chType
      /\ split = "QUAD" => /\ q.qtDepth = p.qtDepth - 1 /\ q.mtDepth = p.mtDepth
                           /\ q.btDepth = p.btDepth /\ q.implicitBtDepth = p.implicitBtDepth
      /\ split # "QUAD" => /\ q.qtDepth = p.qtDepth /\ q.mtDepth = p.mtDepth - 1
                           /\ q.btDepth = p.btDepth - Halvings(split)
                           /\ q.implicitBtDepth = implicitBtDepth
  <2>1. CASE split = "QUAD"
    <3>1. q = [q1 EXCEPT !.qtDepth = @ - 1] BY <1>6, <2>1
    <3>2. /\ IsRecord(q, PartFields) /\ q.qtDepth = q1.qtDepth - 1
          /\ \A x \in PartFields : x # "qtDepth" => q[x] = q1[x]
      BY <1>5, <3>1 DEF IsRecord, PartFields
    <3> QED BY <1>5, <2>1, <3>2 DEF PartFields
  <2>2. CASE split # "QUAD"
    <3>1. q = [q1 EXCEPT !.mtDepth = @ - 1, !.btDepth = @ - Halvings(split),
                         !.implicitBtDepth = implicitBtDepth]
      BY <1>6, <2>2
    <3>2. /\ IsRecord(q, PartFields) /\ q.mtDepth = q1.mtDepth - 1
          /\ q.btDepth = q1.btDepth - Halvings(split) /\ q.implicitBtDepth = implicitBtDepth
          /\ \A x \in PartFields : x \notin {"mtDepth", "btDepth", "implicitBtDepth"} => q[x] = q1[x]
      BY <1>5, <3>1 DEF IsRecord, PartFields
    <3> QED BY <1>5, <2>2, <3>2 DEF PartFields
  <2> QED BY <2>1, <2>2
<1>9. Halved(top, Splits) = Halvings(split) /\ Halvings(split) \in Nat
  <2>1. ASSUME top.split \in TtSplits PROVE top.idx = 2
    <3>1. top.idx \in 0 .. Len(top.parts) - 1 /\ Len(top.parts) = 3
      BY <1>2, <2>1 DEF LevelOK
    <3> QED BY <1>4, <2>1, <3>1 DEF TtSplits
  <2> QED BY <1>3, <2>1 DEF Halved, Halvings
<1>10. Halved(top, MtSplits) = IF split = "QUAD" THEN 0 ELSE Halvings(split)
  <2>1. split \in MtSplits <=> split # "QUAD"
    BY <1>3 DEF Splits, MtSplits, BtSplits, TtSplits
  <2> QED BY <1>3, <1>9, <2>1 DEF Halved
<1>11. split # "QUAD" => (IsImplicit(Last(f)) <=> Last(f).implicit = split)
  <2>1. ASSUME split # "QUAD" PROVE split \in MtSplits /\ split # "NO"
    BY <1>3, <2>1 DEF Splits, MtSplits, BtSplits, TtSplits
  <2> QED BY <1>2, <1>3, <2>1 DEF Fits, IsImplicit
<1>12. /\ p.subdiv = SumOver(f, Splits) + Halvings(split)
       /\ p.btDepth = SumOver(f, MtSplits) + (IF split = "QUAD" THEN 0 ELSE Halvings(split))
       /\ p.qtDepth = Cardinality(LevelsOf(f, {"QUAD"})) + (IF split = "QUAD" THEN 1 ELSE 0)
       /\ p.mtDepth = Cardinality(LevelsOf(f, MtSplits)) + (IF split = "QUAD" THEN 0 ELSE 1)
       /\ p.implicitBtDepth = Cardinality(ForcedLevels(f))
            + (IF split # "QUAD" /\ Last(f).implicit = split THEN 1 ELSE 0)
  <2>1. split \in MtSplits <=> split # "QUAD"
    BY <1>3 DEF Splits, MtSplits, BtSplits, TtSplits
  <2> QED BY <1>2, <1>3, <1>9, <1>10, <2>1, LevelsOfAppend, SumOverAppend, ForcedLevelsAppend
          DEF MatchesItsStack
<1>13. /\ SumOver(f, Splits) \in Nat /\ SumOver(f, MtSplits) \in Nat
       /\ Cardinality(LevelsOf(f, {"QUAD"})) \in Nat /\ Cardinality(LevelsOf(f, MtSplits)) \in Nat
       /\ Cardinality(ForcedLevels(f)) \in Nat
  BY <1>2, LevelsOfAppend, SumOverAppend, ForcedLevelsAppend
<1>14. /\ q.qtDepth = Cardinality(LevelsOf(f, {"QUAD"}))
       /\ q.mtDepth = Cardinality(LevelsOf(f, MtSplits))
       /\ q.btDepth = SumOver(f, MtSplits) /\ q.subdiv = SumOver(f, Splits)
       /\ q.implicitBtDepth = Cardinality(ForcedLevels(f))
  <2>1. CASE split = "QUAD" BY <1>8, <1>9, <1>12, <1>13, <2>1
  <2>2. CASE split # "QUAD" BY <1>7, <1>8, <1>9, <1>11, <1>12, <1>13, <2>2
  <2> QED BY <2>1, <2>2
<1>15. Top(q) = Last(f) BY <1>8 DEF Top
<1>16. top.qgEnable => Last(f).qgEnable BY <1>2 DEF Fits
<1>17. ~Top(q).qgEnable => GroupBegins(q.stack, q.qgPos)
  <2>1. GroupBegins(Append(f, top), p.qgPos) BY <1>2 DEF MatchesItsStack
  <2> QED BY <1>2, <1>8, <1>15, <1>16, <2>1, GroupBeginsAppend
<1>18. /\ PartOK(r)
       /\ \A x \in PartFields : x # "qgPos" => r[x] = q[x]
       /\ ~Top(q).qgEnable => r = q
  BY <1>2, <1>8, <1>14, <1>17, AtGroupOK DEF r
<1>19. r.stack = q.stack /\ r.chType = q.chType BY <1>18 DEF PartFields
<1>20. Top(r) = Last(f) BY <1>15, <1>19 DEF Top
<1>21. Top(p).qgEnable => Top(r).qgEnable BY <1>16, <1>20 DEF top
<1>22. ~Top(r).qgEnable => r.qgPos = p.qgPos BY <1>8, <1>15, <1>18, <1>20
<1>23. Len(r.stack) = Len(p.stack) - 1 BY <1>2, <1>8, <1>19
<1>24. SameSplits(p.stack, r.stack)
  <2>1. \A i \in 1 .. Len(f) : Append(f, top)[i] = f[i] BY <1>2, AppendIsSeq
  <2> QED BY <1>2, <1>8, <1>19, <2>1 DEF SameSplits
<1>25. ~ExitFails(p)
  <2>1. /\ split = "QUAD" => p.qtDepth # 0
        /\ split # "QUAD" => p.mtDepth # 0 /\ ~(p.btDepth < Halvings(split))
    BY <1>9, <1>12, <1>13
  <2>2. ASSUME split # "QUAD" PROVE Last(f).implicit # "UNCHECKED"
    <3>1. split \in MtSplits /\ split # "UNCHECKED"
      BY <1>3, <2>2 DEF Splits, MtSplits, BtSplits, TtSplits
    <3> QED BY <1>2, <1>3, <3>1 DEF Fits
  <2> QED BY <2>1, <2>2 DEF ExitFails, split, f
<1> QED BY <1>1, <1>8, <1>18, <1>19, <1>21, <1>22, <1>23, <1>24, <1>25
-----------------------------------------------------------------------------
(* The invariant of the walk.                                              *)

CallFields == {"kind", "modeTypeParent", "chromaNotSplit"}

\* The calls of coding_tree that wait; ch is the partitioner they were given.
CallOK(call, ch) ==
  /\ call.kind \in {"joint", "node", "chroma"}
  /\ call.kind # "joint" => IsRecord(call, CallFields)
  /\ ch = "CHROMA" /\ call.kind # "joint" => call.kind = "node" /\ ~call.chromaNotSplit

CallsOK(stack, ch) ==
  /\ IsSeq(stack)
  /\ \A i \in DOMAIN stack : /\ CallOK(stack[i], ch)
                             /\ stack[i].kind = "joint" => i = 1
                             /\ stack[i].kind = "chroma" => i = Len(stack)

\* The chroma of a block whose luma alone was split is next.
InItsChroma(stack) == stack # <<>> /\ Last(stack).kind = "chroma"
\* Luma and chroma alternate.
Alternates(stack) == stack # <<>> /\ stack[1].kind = "joint"

\* Each call that has split its block has its level on the stack.
LengthInv ==
  /\ Len(parts[cur].stack) = 1 + Len(calls) - (IF InItsChroma(calls) THEN 1 ELSE 0)
  /\ \A ch \in Channels \ {cur} : Len(parts[ch].stack) = IF Alternates(calls) THEN 2 ELSE 1
  /\ Alternates(calls) => \A ch \in Channels : parts[ch].stack[2].split = "QUAD"
  /\ pc = "done" => calls = <<>>
  /\ InItsChroma(calls) /\ pc = "tree" => parts[cur].treeType = "TREE_C"
  /\ calls = <<>> /\ IsJoint(cfg) /\ pc = "tree" => cur = "LUMA"

\* The QP was predicted where the group begins, or is about to be.
GroupInv ==
  LET luma == parts["LUMA"] IN
  /\ group = [ch \in Channels |-> group[ch]] /\ qgStart \in [Channels -> BOOLEAN]
  /\ parts["CHROMA"].chType = "CHROMA"
  /\ luma.chType = IF cur = "LUMA" /\ InItsChroma(calls) THEN "CHROMA" ELSE "LUMA"
  /\ qgStart["LUMA"] => /\ pc \in {"tree", "aborted"} /\ cur = "LUMA" /\ luma.chType = "LUMA"
                        /\ Position(Top(luma)) = luma.qgPos
  /\ ~qgStart["LUMA"] /\ ~Top(luma).qgEnable => group["LUMA"] = luma.qgPos

PartsOK == parts = [ch \in Channels |-> parts[ch]] /\ \A ch \in Channels : PartOK(parts[ch])

IInv == cfg \in Configs /\ cur \in Channels /\ PartsOK /\ CallsOK(calls, cur) /\ LengthInv /\ GroupInv

\* The last call, and those before it.
LEMMA CallsAppend ==
  ASSUME NEW s, IsSeq(s), NEW e, NEW ch
  PROVE  /\ CallsOK(Append(s, e), ch) <=> /\ CallsOK(s, ch) /\ CallOK(e, ch) /\ ~InItsChroma(s)
                                          /\ e.kind = "joint" => s = <<>>
         /\ InItsChroma(Append(s, e)) <=> e.kind = "chroma"
         /\ Alternates(Append(s, e)) <=> IF s = <<>> THEN e.kind = "joint" ELSE Alternates(s)
<1> DEFINE n == Len(s)
           t == Append(s, e)
<1>1. /\ n \in Nat /\ DOMAIN s = 1 .. n /\ DOMAIN t = 1 .. n + 1 /\ t[n + 1] = e
      /\ \A i \in 1 .. n : t[i] = s[i]
      /\ 1 .. n + 1 = (1 .. n) \cup {n + 1} /\ n + 1 \notin 1 .. n
      /\ IsSeq(t) /\ t # <<>> /\ Last(t) = e /\ Len(t) = n + 1
  BY AppendIsSeq
<1>2. Last(s) = s[n] /\ (s = <<>> <=> n = 0)
  BY FrontAndLast, EmptyIsSeq, <1>1 DEF Last
<1>3. s # <<>> => t[1] = s[1] /\ n \in 1 .. n
  <2>1. s # <<>> => 1 \in 1 .. n /\ n \in 1 .. n BY <1>1, <1>2
  <2> QED BY <1>1, <2>1
<1> HIDE DEF t, n
<1>4. InItsChroma(t) <=> e.kind = "chroma" BY <1>1 DEF InItsChroma
<1>5. Alternates(t) <=> IF s = <<>> THEN e.kind = "joint" ELSE Alternates(s)
  <2>1. s = <<>> => t[1] = e BY <1>1, <1>2
  <2> QED BY <1>1, <1>3, <2>1 DEF Alternates
<1>6. CallsOK(t, ch) <=> /\ CallsOK(s, ch) /\ CallOK(e, ch) /\ ~InItsChroma(s)
                         /\ e.kind = "joint" => s = <<>>
  <2>1. ASSUME CallsOK(t, ch)
        PROVE  /\ CallsOK(s, ch) /\ CallOK(e, ch) /\ ~InItsChroma(s)
               /\ e.kind = "joint" => s = <<>>
    <3>1. \A i \in 1 .. n : /\ CallOK(s[i], ch) /\ s[i].kind # "chroma"
                            /\ s[i].kind = "joint" => i = 1
      BY <1>1, <2>1 DEF CallsOK
    <3>2. CallOK(e, ch) /\ (e.kind = "joint" => n + 1 = 1) BY <1>1, <2>1 DEF CallsOK
    <3>3. ~InItsChroma(s) BY <1>2, <1>3, <3>1 DEF InItsChroma
    <3>4. CallsOK(s, ch) BY <1>1, <3>1 DEF CallsOK
    <3> QED BY <1>1, <1>2, <3>2, <3>3, <3>4
  <2>2. ASSUME CallsOK(s, ch), CallOK(e, ch), ~InItsChroma(s), e.kind = "joint" => s = <<>>
        PROVE  CallsOK(t, ch)
    <3>1. \A i \in 1 .. n : /\ CallOK(t[i], ch)
                            /\ t[i].kind = "joint" => i = 1
                            /\ t[i].kind = "chroma" => i = n
      BY <1>1, <2>2 DEF CallsOK, n
    <3>2. ASSUME NEW i \in 1 .. n PROVE t[i].kind # "chroma"
      <4>1. i = n => s[n].kind # "chroma"
        BY <1>1, <1>2, <2>2 DEF InItsChroma
      <4> QED BY <1>1, <3>1, <4>1
    <3>3. /\ CallOK(t[n + 1], ch)
          /\ t[n + 1].kind = "joint" => n + 1 = 1
          /\ t[n + 1].kind = "chroma" => n + 1 = Len(t)
      BY <1>1, <1>2, <2>2
    <3>4. \A i \in DOMAIN t : i \in 1 .. n \/ i = n + 1 BY <1>1
    <3>5. CallOK(t[n + 1], ch) /\ n + 1 = Len(t) BY <1>1, <2>2
    <3>6. ASSUME NEW i \in DOMAIN t
          PROVE  /\ CallOK(t[i], ch)
                 /\ t[i].kind = "joint" => i = 1
                 /\ t[i].kind = "chroma" => i = Len(t)
      <4>1. CASE i \in 1 .. n BY <3>1, <3>2, <4>1
      <4>2. CASE i = n + 1 BY <3>3, <3>5, <4>2
      <4> QED BY <3>4, <4>1, <4>2
    <3> QED BY <1>1, <3>6 DEF CallsOK
  <2> QED BY <2>1, <2>2
<1> QED BY <1>4, <1>5, <1>6 DEF t

\* The kinds of tree and of prediction do not matter to the stack.
LEMMA Relabelled ==
  ASSUME NEW p, PartOK(p), NEW q, IsRecord(q, PartFields),
         \A f \in PartFields \ {"chType", "treeType", "modeType"} : q[f] = p[f]
  PROVE  PartOK(q) /\ q.stack = p.stack /\ q.qgPos = p.qgPos /\ q.btDepth = p.btDepth
         /\ q.mtDepth = p.mtDepth
<1>1. /\ q.stack = p.stack /\ q.qgPos = p.qgPos /\ q.qtDepth = p.qtDepth /\ q.mtDepth = p.mtDepth
      /\ q.btDepth = p.btDepth /\ q.subdiv = p.subdiv /\ q.implicitBtDepth = p.implicitBtDepth
  BY DEF PartFields
<1> QED BY <1>1 DEF PartOK, MatchesItsStack

\* What is known of a partitioner before and after its current part was Checked.
LEMMA PartFacts ==
  ASSUME IInv
  PROVE  /\ PartOK(part) /\ Len(part.stack) = Len(parts[cur].stack)
         /\ Top(part).implicit # "UNCHECKED" /\ Top(part).qgEnable = Top(parts[cur]).qgEnable
         /\ SameSplits(part.stack, parts[cur].stack)
         /\ Position(Top(part)) = Position(Top(parts[cur]))
         /\ part.qgPos = parts[cur].qgPos /\ part.chType = parts[cur].chType
         /\ part.treeType = parts[cur].treeType
         /\ area.x = Position(Top(part))[1] /\ area.y = Position(Top(part))[2]
         /\ <<area.x, area.y>> = Position(Top(part))
<1> DEFINE p == parts[cur]
           q == Checked(cfg, p)
<1>1. PartOK(p) BY DEF IInv, PartsOK
<1>2. /\ PartOK(q) /\ Len(q.stack) = Len(p.stack)
      /\ Top(q).implicit # "UNCHECKED"
      /\ \A f \in LevelFields : f # "implicit" => Top(q)[f] = Top(p)[f]
      /\ \A f \in PartFields : f # "stack" => q[f] = p[f]
      /\ SameSplits(q.stack, p.stack)
      /\ Position(Top(q)) = Position(Top(p))
  BY <1>1, CheckedOK
<1>3. part = q BY DEF part
<1> HIDE DEF q
<1>4. /\ Top(q).qgEnable = Top(p).qgEnable
      /\ q.qgPos = p.qgPos /\ q.chType = p.chType /\ q.treeType = p.treeType
  BY <1>2 DEF LevelFields, PartFields
<1>5. Area(q) = CurrentPart(Top(q)) BY DEF Area, Top
<1> HIDE DEF p
<1> QED BY <1>2, <1>3, <1>4, <1>5 DEF area, Position, p

\* A group of luma begins with a prediction at its position; within it the QP that
\* was predicted is the one of the group.
LEMMA StartsFacts ==
  ASSUME IInv
  PROVE  LET luma == parts["LUMA"] IN
         /\ Starts \in [Channels -> BOOLEAN]
         /\ Starts["LUMA"] => /\ cur = "LUMA" /\ luma.chType = "LUMA"
                              /\ Position(Top(luma)) = luma.qgPos
         /\ cur = "LUMA" /\ luma.chType = "LUMA" /\ ~Starts["LUMA"] =>
              ~Top(luma).qgEnable /\ group["LUMA"] = luma.qgPos
         /\ cur # "LUMA" \/ luma.chType # "LUMA" => Starts["LUMA"] = qgStart["LUMA"]
<1> DEFINE luma == parts["LUMA"]
<1>1. PartOK(luma) BY DEF IInv, PartsOK, Channels
<1>2. LevelOK(Top(luma)) /\ (Top(luma).qgEnable => luma.qgPos = Position(Top(luma)))
  BY <1>1, StackParts
<1>3. cur = "LUMA" => part.chType = luma.chType /\ Top(part).qgEnable = Top(luma).qgEnable
  BY PartFacts
<1>4. "LUMA" \in Channels /\ "LUMA" # "CHROMA" BY DEF Channels
<1>5. Starts["LUMA"] <=> qgStart["LUMA"] \/ (cur = "LUMA" /\ luma.chType = "LUMA" /\ Top(luma).qgEnable)
  BY <1>3, <1>4 DEF Starts, Top
<1>6. /\ qgStart["LUMA"] => /\ cur = "LUMA" /\ luma.chType = "LUMA"
                            /\ Position(Top(luma)) = luma.qgPos
      /\ ~qgStart["LUMA"] /\ ~Top(luma).qgEnable => group["LUMA"] = luma.qgPos
      /\ qgStart["LUMA"] \in BOOLEAN
  BY <1>4 DEF IInv, GroupInv
<1>7. Top(luma).qgEnable \in BOOLEAN BY <1>2 DEF LevelOK
<1>8. Starts \in [Channels -> BOOLEAN]
  <2>1. Starts = [ch \in Channels |-> Starts[ch]] /\ \A ch \in Channels : Starts[ch] \in BOOLEAN
    <3>1. \A ch \in Channels : qgStart[ch] \in BOOLEAN BY DEF IInv, GroupInv
    <3> QED BY <3>1 DEF Starts
  <2> QED BY <2>1
<1> HIDE DEF luma
<1>9. Starts["LUMA"] \in BOOLEAN BY <1>4, <1>8
<1>10. cur # "LUMA" \/ luma.chType # "LUMA" => Starts["LUMA"] = qgStart["LUMA"]
  BY <1>5, <1>6, <1>9
<1> QED BY <1>2, <1>5, <1>6, <1>8, <1>10 DEF luma

\* An action changes one partitioner.
LEMMA OnePartChanges ==
  ASSUME IInv, NEW q, PartOK(q), parts' = [parts EXCEPT ![cur] = q]
  PROVE  PartsOK' /\ parts'[cur] = q /\ \A ch \in Channels \ {cur} : parts'[ch] = parts[ch]
<1>1. /\ parts = [ch \in Channels |-> parts[ch]] /\ cur \in Channels
      /\ \A ch \in Channels : PartOK(parts[ch])
  BY DEF IInv, PartsOK
<1>2. /\ parts' = [ch \in Channels |-> IF ch = cur THEN q ELSE parts[ch]]
  BY <1>1
<1>3. /\ parts' = [ch \in Channels |-> parts'[ch]] /\ parts'[cur] = q
      /\ \A ch \in Channels \ {cur} : parts'[ch] = parts[ch]
  BY <1>1, <1>2
<1>4. \A ch \in Channels : PartOK(parts'[ch])
  BY <1>1, <1>3
<1> QED BY <1>3, <1>4 DEF PartsOK

\* The depth up to which blocks form groups is a number in every configuration.
LEMMA ConfigIsValid ==
  ASSUME IInv
  PROVE  cfg.qpSubdiv \in Nat
BY ConfigAssumption DEF IInv, ValidConfig
-----------------------------------------------------------------------------
(* The steps of the walk.                                                  *)

\* coding_tree_unit starts both partitioners at the unit (initCtu).
LEMMA InitKeeps == Init => IInv
<1> SUFFICES ASSUME Init PROVE IInv
  OBVIOUS
<1>1. cfg \in Configs /\ cur = "LUMA" /\ calls = <<>> /\ pc = "tree"
  BY DEF Init
<1>2. ASSUME NEW ch \in Channels
      PROVE  /\ PartOK(parts[ch]) /\ Len(parts[ch].stack) = 1 /\ parts[ch].chType = ch
             /\ Top(parts[ch]).qgEnable
  <2> DEFINE ctuArea == [x |-> cfg.ctuX, y |-> cfg.ctuY, w |-> cfg.ctu, h |-> cfg.ctu]
             level == Level("CTU_LEVEL", <<ctuArea>>, TRUE)
             p == parts[ch]
  <2>1. /\ p = [stack |-> <<level>>, qtDepth |-> 0, btDepth |-> 0, mtDepth |-> 0, subdiv |-> 0,
                implicitBtDepth |-> 0, qgPos |-> <<cfg.ctuX, cfg.ctuY>>, chType |-> ch,
                treeType |-> "TREE_D", modeType |-> "ALL"]
    BY DEF Init, InitCtu
  <2>2. /\ level.split = "CTU_LEVEL" /\ level.parts = <<ctuArea>> /\ level.idx = 0 /\ level.qgEnable
        /\ IsRecord(level, LevelFields)
    BY DEF Level, IsRecord, LevelFields
  <2>3. Position(level) = <<cfg.ctuX, cfg.ctuY>>
    <3> HIDE DEF level
    <3>1. CurrentPart(level) = ctuArea
      <4>1. 0 + 1 = 1 /\ level.parts[1] = ctuArea BY <2>2
      <4> QED BY <2>2, <4>1 DEF CurrentPart
    <3> QED BY <3>1 DEF Position
  <2>4. Len(level.parts) = 1 BY <2>2
  <2>5. "CTU_LEVEL" \notin Splits /\ "CTU_LEVEL" \notin MtSplits /\ "CTU_LEVEL" \notin TtSplits
        /\ "CTU_LEVEL" \notin {"QUAD"}
    BY DEF Splits, MtSplits, BtSplits, TtSplits
  <2> HIDE DEF level, p
  <2>6. /\ IsRecord(p, PartFields) /\ p.stack = <<level>> /\ p.qtDepth = 0 /\ p.btDepth = 0
        /\ p.mtDepth = 0 /\ p.subdiv = 0 /\ p.implicitBtDepth = 0
        /\ p.qgPos = Position(level) /\ p.chType = ch
    BY <2>1, <2>3 DEF IsRecord, PartFields
  <2>7. LevelOK(level) BY <2>2, <2>4, <2>5 DEF LevelOK
  <2> DEFINE none == <<>>
  <2>8. <<level>> = Append(none, level) /\ IsSeq(none) /\ Len(none) = 0 /\ DOMAIN none = {}
    BY EmptyIsSeq
  <2>9. StackOK(p.stack)
    <3>1. none = <<>> OBVIOUS
    <3> HIDE DEF none
    <3>2. StackOK(Append(none, level)) BY <2>2, <2>7, <2>8, <3>1, StackOKAppend
    <3> QED BY <2>6, <2>8, <3>2
  <2>10. /\ Last(<<level>>) = level /\ Len(<<level>>) = 1
         /\ DOMAIN <<level>> = {1} /\ <<level>>[1] = level
    BY DEF Last
  <2>11. \A kinds : "CTU_LEVEL" \notin kinds =>
           LevelsOf(<<level>>, kinds) = {} /\ SumOver(<<level>>, kinds) = 0
    <3> SUFFICES ASSUME NEW kinds, "CTU_LEVEL" \notin kinds
                 PROVE  LevelsOf(<<level>>, kinds) = {} /\ SumOver(<<level>>, kinds) = 0
      OBVIOUS
    <3>1. LevelsOf(<<level>>, kinds) = {} BY <2>2, <2>10 DEF LevelsOf
    <3>2. PICK sum : Sums(sum, <<level>>, kinds, 1) /\ SumOver(<<level>>, kinds) = sum[1]
      <4>1. Len(<<level>>) \in Nat BY <2>10
      <4> QED BY <2>10, <4>1, SumOverSums
    <3>3. Halved(<<level>>[1], kinds) = 0 BY <2>2, <2>10 DEF Halved
    <3>4. sum[0] = 0 /\ sum[1] = sum[1 - 1] + Halved(<<level>>[1], kinds)
      BY <3>2 DEF Sums
    <3>5. sum[1] = 0 BY <3>3, <3>4
    <3> QED BY <3>1, <3>2, <3>5
  <2>12. ForcedLevels(<<level>>) = {} BY <2>5, <2>11 DEF ForcedLevels
  <2>13. GroupBegins(<<level>>, Position(level)) BY <2>2, <2>10 DEF GroupBegins
  <2>14. Cardinality({}) = 0 BY FS_EmptySet
  <2>15. MatchesItsStack(p)
    BY <2>5, <2>6, <2>11, <2>12, <2>13, <2>14 DEF MatchesItsStack
  <2> QED BY <2>2, <2>6, <2>9, <2>10, <2>15 DEF PartOK, Top, p
<1>3. parts = [ch \in Channels |-> parts[ch]] BY DEF Init
<1>4. CallsOK(calls, cur) BY <1>1, EmptyIsSeq DEF CallsOK
<1>5. LengthInv
  BY <1>1, <1>2, EmptyIsSeq DEF LengthInv, InItsChroma, Alternates, Channels
<1>6. GroupInv
  <2>1. /\ group = [ch \in Channels |-> group[ch]] /\ qgStart \in [Channels -> BOOLEAN]
        /\ ~qgStart["LUMA"]
    BY DEF Init, Channels
  <2> QED BY <1>1, <1>2, <2>1 DEF GroupInv, InItsChroma, Channels
<1> QED BY <1>1, <1>2, <1>3, <1>4, <1>5, <1>6 DEF IInv, PartsOK, Channels

\* A CHECK that fails leaves everything as it is.
LEMMA AbortKeeps ==
  ASSUME IInv, Abort
  PROVE  IInv'
<1>1. /\ cfg' = cfg /\ parts' = parts /\ cur' = cur /\ calls' = calls /\ qgStart' = qgStart
      /\ group' = group /\ pc' = "aborted"
  BY DEF Abort
<1>2. LengthInv' BY <1>1 DEF IInv, LengthInv
<1>3. GroupInv' BY <1>1 DEF IInv, GroupInv
<1> QED BY <1>1, <1>2, <1>3 DEF IInv, PartsOK

\* Nothing else happens.
LEMMA StutteringKeeps ==
  ASSUME IInv, UNCHANGED vars
  PROVE  IInv'
BY DEF IInv, PartsOK, LengthInv, GroupInv, vars, Top

\* coding_tree: the quadtree split of luma and chroma at once.
LEMMA SplitJointlyKeeps ==
  ASSUME IInv, SplitJointly
  PROVE  IInv'
<1> DEFINE call == [kind |-> "joint"]
           Q(ch) == SplitCurrArea(cfg, parts[ch], "QUAD")
<1>1. pc = "tree" /\ IsJoint(cfg) /\ calls = <<>> BY DEF SplitJointly, WithChroma
<1>2. CASE \E ch \in Channels : SplitFails(parts[ch], "QUAD")
  BY <1>2, AbortKeeps DEF SplitJointly
<1>3. CASE \A ch \in Channels : ~SplitFails(parts[ch], "QUAD")
  <2>1. /\ parts' = [ch \in Channels |-> Q(ch)] /\ calls' = <<call>> /\ qgStart' = Starts
        /\ cfg' = cfg /\ cur' = cur /\ pc' = pc /\ group' = group
    BY <1>3 DEF SplitJointly
  <2>2. cur = "LUMA" /\ "LUMA" \in Channels /\ "CHROMA" \in Channels
    BY <1>1 DEF IInv, LengthInv, Channels
  <2>3. ASSUME NEW ch \in Channels PROVE PartOK(parts[ch]) /\ Len(parts[ch].stack) = 1
    <3>1. ~InItsChroma(calls) /\ ~Alternates(calls) /\ Len(calls) = 0
      BY <1>1, EmptyIsSeq DEF InItsChroma, Alternates
    <3> QED BY <3>1 DEF IInv, PartsOK, LengthInv
  <2>4. ASSUME NEW ch \in Channels
        PROVE  /\ PartOK(Q(ch)) /\ Len(Q(ch).stack) = 2 /\ Q(ch).qgPos = parts[ch].qgPos
               /\ Q(ch).chType = parts[ch].chType
               /\ Top(Q(ch)).qgEnable => Top(parts[ch]).qgEnable
               /\ Position(Top(Q(ch))) = Position(Top(parts[ch])) /\ Top(Q(ch)).split = "QUAD"
    <3>1. "QUAD" \in Splits /\ "QUAD" \notin MtSplits
      BY DEF Splits, MtSplits, BtSplits, TtSplits
    <3>2. PartOK(parts[ch]) /\ Len(parts[ch].stack) = 1 /\ ~SplitFails(parts[ch], "QUAD")
          /\ cfg.qpSubdiv \in Nat
      BY <1>3, <2>3, ConfigIsValid
    <3> DEFINE p == parts[ch]
    <3> HIDE DEF p
    <3>3. PartOK(p) /\ ~SplitFails(p, "QUAD") BY <3>2 DEF p
    <3> DEFINE q == SplitCurrArea(cfg, p, "QUAD")
    <3>4. /\ PartOK(q) /\ Len(q.stack) = Len(p.stack) + 1
          /\ q.qgPos = p.qgPos /\ q.chType = p.chType
          /\ Top(q).qgEnable => Top(p).qgEnable
          /\ Position(Top(q)) = Position(Top(p)) /\ Top(q).split = "QUAD"
      BY <3>1, <3>2, <3>3, SplitOK
    <3> QED BY <3>2, <3>4 DEF p
  <2> HIDE DEF Q
  <2>5. parts' = [ch \in Channels |-> parts'[ch]] /\ \A ch \in Channels : parts'[ch] = Q(ch)
    BY <2>1
  <2>6. PartsOK' BY <2>4, <2>5 DEF PartsOK
  <2> DEFINE none == <<>>
  <2>7. calls' = Append(none, call) /\ IsSeq(none) /\ Len(calls') = 1 /\ calls' # <<>>
    BY <2>1, EmptyIsSeq
  <2>8. /\ InItsChroma(calls') <=> call.kind = "chroma"
        /\ Alternates(calls') <=> call.kind = "joint"
    BY <2>7, CallsAppend
  <2>9. CallsOK(calls', cur')
    <3>1. CallOK(call, cur) BY DEF CallOK
    <3>2. CallsOK(none, cur) /\ ~InItsChroma(none) BY EmptyIsSeq DEF CallsOK, InItsChroma
    <3>3. none = <<>> OBVIOUS
    <3> HIDE DEF none, call
    <3>4. CallsOK(Append(none, call), cur) BY <2>7, <3>1, <3>2, <3>3, CallsAppend
    <3>5. calls' = Append(none, call) BY <2>7
    <3> QED BY <2>1, <3>4, <3>5
  <2>10. LengthInv'
    <3>1. \A ch \in Channels : parts'[ch].stack[2].split = "QUAD"
      BY <2>4, <2>5 DEF Top, Last
    <3> QED BY <1>1, <2>1, <2>2, <2>4, <2>5, <2>7, <2>8, <3>1 DEF LengthInv
  <2>11. GroupInv'
    <3>1. parts["CHROMA"].chType = "CHROMA" /\ parts["LUMA"].chType = "LUMA"
          /\ group = [ch \in Channels |-> group[ch]]
      BY <1>1, <2>2 DEF IInv, GroupInv, InItsChroma
    <3>2. /\ Starts \in [Channels -> BOOLEAN]
          /\ Starts["LUMA"] => Position(Top(parts["LUMA"])) = parts["LUMA"].qgPos
          /\ ~Starts["LUMA"] => ~Top(parts["LUMA"]).qgEnable /\ group["LUMA"] = parts["LUMA"].qgPos
      BY <2>2, <3>1, StartsFacts
    <3> QED BY <1>1, <2>1, <2>2, <2>4, <2>5, <2>8, <3>1, <3>2 DEF GroupInv
  <2> QED BY <2>1, <2>6, <2>9, <2>10, <2>11 DEF IInv
<1> QED BY <1>2, <1>3

\* The call that is back in its loop, and the calls before it.
LEMMA LastCall ==
  ASSUME IInv, calls # <<>>
  PROVE  LET last == Last(calls)
             before == Front(calls)
         IN /\ calls = Append(before, last) /\ IsSeq(before)
            /\ Len(calls) = Len(before) + 1 /\ Len(before) \in Nat
            /\ before # <<>> => Len(before) > 0
            /\ CallsOK(before, cur) /\ CallOK(last, cur) /\ ~InItsChroma(before)
            /\ last.kind = "joint" => before = <<>>
            /\ InItsChroma(calls) <=> last.kind = "chroma"
            /\ Alternates(calls) <=> IF before = <<>> THEN last.kind = "joint" ELSE Alternates(before)
<1> DEFINE last == Last(calls)
           before == Front(calls)
<1>1. /\ calls = Append(before, last) /\ IsSeq(before)
      /\ Len(calls) = Len(before) + 1 /\ Len(before) \in Nat
  BY FrontAndLast DEF IInv, CallsOK
<1>2. CallsOK(calls, cur) BY DEF IInv
<1>3. before # <<>> => Len(before) > 0 BY <1>1, FrontAndLast
<1> HIDE DEF last, before
<1>4. CallsOK(Append(before, last), cur) BY <1>1, <1>2
<1>5. /\ CallsOK(before, cur) /\ CallOK(last, cur) /\ ~InItsChroma(before)
      /\ last.kind = "joint" => before = <<>>
  BY <1>1, <1>4, CallsAppend
<1>6. /\ InItsChroma(Append(before, last)) <=> last.kind = "chroma"
      /\ Alternates(Append(before, last)) <=>
           IF before = <<>> THEN last.kind = "joint" ELSE Alternates(before)
  BY <1>1, CallsAppend
<1> QED BY <1>1, <1>3, <1>5, <1>6 DEF last, before

\* The split into blocks of 64 x 64 stays the second level of a stack.
LEMMA SecondLevel ==
  ASSUME IInv, Alternates(calls), NEW ch \in Channels, NEW q,
         \/ SameSplits(q.stack, parts[ch].stack) /\ Len(parts[ch].stack) \in {n \in Nat : n >= 2}
         \/ SameSplits(parts[ch].stack, q.stack) /\ Len(q.stack) \in {n \in Nat : n >= 2}
  PROVE  q.stack[2].split = "QUAD"
<1>1. parts[ch].stack[2].split = "QUAD" BY DEF IInv, LengthInv
<1>2. \A n \in Nat : n >= 2 => 2 \in 1 .. n OBVIOUS
<1> QED BY <1>1, <1>2 DEF SameSplits

\* coding_tree: a split of one tree, whether or not chroma is split along.
LEMMA SplitNodeKeeps ==
  ASSUME IInv, NEW split \in Splits, SplitNode(split)
  PROVE  IInv'
<1>1. /\ pc = "tree" /\ split \in permitted \ {"NO"}
      /\ \E modeType \in ModeTypes(cfg, part, split) :
           LET chromaNotSplit == part.modeType = "ALL" /\ modeType = "INTRA"
               node == [part EXCEPT !.modeType = modeType,
                          !.treeType = IF chromaNotSplit /\ @ = "TREE_D" THEN "TREE_L" ELSE @]
           IN IF SplitFails(node, split) \/ (chromaNotSplit /\ part.chType # "LUMA") THEN Abort
              ELSE /\ parts' = [parts EXCEPT ![cur] = SplitCurrArea(cfg, node, split)]
                   /\ calls' = Append(calls, [kind |-> "node", modeTypeParent |-> part.modeType,
                                              chromaNotSplit |-> chromaNotSplit])
                   /\ qgStart' = Starts
                   /\ UNCHANGED <<cfg, cur, pc, group, coded>>
  BY DEF SplitNode
<1>2. PICK modeType \in ModeTypes(cfg, part, split) :
        LET chromaNotSplit == part.modeType = "ALL" /\ modeType = "INTRA"
            node == [part EXCEPT !.modeType = modeType,
                       !.treeType = IF chromaNotSplit /\ @ = "TREE_D" THEN "TREE_L" ELSE @]
        IN IF SplitFails(node, split) \/ (chromaNotSplit /\ part.chType # "LUMA") THEN Abort
           ELSE /\ parts' = [parts EXCEPT ![cur] = SplitCurrArea(cfg, node, split)]
                /\ calls' = Append(calls, [kind |-> "node", modeTypeParent |-> part.modeType,
                                           chromaNotSplit |-> chromaNotSplit])
                /\ qgStart' = Starts
                /\ UNCHANGED <<cfg, cur, pc, group, coded>>
  BY <1>1
<1> DEFINE p == parts[cur]
           chromaNotSplit == part.modeType = "ALL" /\ modeType = "INTRA"
           node1 == [part EXCEPT !.modeType = modeType]
           treeType == IF chromaNotSplit /\ node1.treeType = "TREE_D" THEN "TREE_L" ELSE node1.treeType
           node == [node1 EXCEPT !.treeType = treeType]
           q == SplitCurrArea(cfg, node, split)
           call == [kind |-> "node", modeTypeParent |-> part.modeType,
                    chromaNotSplit |-> chromaNotSplit]
           fails == SplitFails(node, split) \/ (chromaNotSplit /\ part.chType # "LUMA")
<1>3. IF fails THEN Abort
      ELSE /\ parts' = [parts EXCEPT ![cur] = q] /\ calls' = Append(calls, call)
           /\ qgStart' = Starts /\ UNCHANGED <<cfg, cur, pc, group, coded>>
  BY <1>2
<1>4. CASE fails BY <1>3, <1>4, AbortKeeps
<1>5. CASE ~fails
  <2>1. /\ parts' = [parts EXCEPT ![cur] = q] /\ calls' = Append(calls, call) /\ qgStart' = Starts
        /\ cfg' = cfg /\ cur' = cur /\ pc' = pc /\ group' = group
    BY <1>3, <1>5
  <2>2. /\ PartOK(part) /\ Len(part.stack) = Len(p.stack)
        /\ Top(part).implicit # "UNCHECKED" /\ Top(part).qgEnable = Top(p).qgEnable
        /\ SameSplits(part.stack, p.stack)
        /\ Position(Top(part)) = Position(Top(p))
        /\ part.qgPos = p.qgPos /\ part.chType = p.chType /\ part.treeType = p.treeType
    BY PartFacts
  <2>3. /\ IsSeq(calls) /\ Len(calls) \in Nat /\ CallsOK(calls, cur) /\ cur \in Channels
    BY AppendIsSeq DEF IInv, CallsOK
  <2>4. part.treeType # "TREE_C" /\ ~InItsChroma(calls)
    <3>1. part.treeType # "TREE_C" BY <1>1 DEF permitted, CanSplit
    <3> QED BY <1>1, <2>2, <3>1 DEF IInv, LengthInv
  <2>5. split \in MtSplits => Top(part).implicit \in {"NO", split}
    <3>1. ASSUME split \in MtSplits, Top(part).implicit # "NO" PROVE split = Top(part).implicit
      <4>1. split \in ForcedSplits(cfg, part) BY <1>1, <2>4, <3>1 DEF permitted, CanSplit, Top
      <4>2. split # "QUAD" BY <3>1 DEF MtSplits, BtSplits, TtSplits
      <4> QED BY <4>1, <4>2 DEF ForcedSplits, Top
    <3> QED BY <3>1
  <2> HIDE DEF p
  <2>6. /\ PartOK(node) /\ node.stack = part.stack /\ node.qgPos = part.qgPos
        /\ node.chType = part.chType
    <3> HIDE DEF treeType, chromaNotSplit
    <3>1. /\ IsRecord(node1, PartFields) /\ \A f \in PartFields : f # "modeType" => node1[f] = part[f]
      BY <2>2 DEF PartOK, IsRecord, PartFields
    <3> HIDE DEF node1
    <3>2. /\ IsRecord(node, PartFields) /\ \A f \in PartFields : f # "treeType" => node[f] = node1[f]
      BY <3>1 DEF IsRecord, PartFields
    <3> HIDE DEF node
    <3>3. \A f \in PartFields \ {"chType", "treeType", "modeType"} : node[f] = part[f]
      BY <3>1, <3>2
    <3>4. node.chType = part.chType BY <3>1, <3>2 DEF PartFields
    <3> QED BY <2>2, <3>2, <3>3, <3>4, Relabelled
  <2>7. ~SplitFails(node, split) /\ (chromaNotSplit => part.chType = "LUMA")
    BY <1>5
  <2>8. /\ IsRecord(call, CallFields) /\ call.kind = "node" /\ call.chromaNotSplit = chromaNotSplit
    BY DEF IsRecord, CallFields
  <2> HIDE DEF node, chromaNotSplit, call, q
  <2>9. Checked(cfg, node) = node /\ Top(node) = Top(part)
    <3>1. Top(node) = Top(part) BY <2>6 DEF Top
    <3> QED BY <2>2, <2>6, <3>1, CheckedOK
  <2>10. /\ PartOK(q) /\ Len(q.stack) = Len(p.stack) + 1 /\ q.qgPos = p.qgPos /\ q.chType = p.chType
         /\ Top(q).qgEnable => Top(p).qgEnable
         /\ Position(Top(q)) = Position(Top(p)) /\ SameSplits(q.stack, p.stack)
    <3>1. /\ PartOK(q) /\ Len(q.stack) = Len(node.stack) + 1
          /\ q.qgPos = node.qgPos /\ q.chType = node.chType
          /\ Top(q).qgEnable => Top(node).qgEnable
          /\ Position(Top(q)) = Position(Top(node)) /\ SameSplits(q.stack, node.stack)
      BY <2>5, <2>6, <2>7, <2>9, ConfigIsValid, SplitOK DEF q
    <3>2. SameSplits(q.stack, p.stack)
      BY <2>2, <2>6, <3>1 DEF SameSplits
    <3> QED BY <2>2, <2>6, <2>9, <3>1, <3>2
  <2>11. PartsOK' /\ parts'[cur] = q /\ \A ch \in Channels \ {cur} : parts'[ch] = parts[ch]
    BY <2>1, <2>10, OnePartChanges
  <2>12. /\ Len(calls') = Len(calls) + 1 /\ calls' # <<>>
         /\ ~InItsChroma(calls') /\ (Alternates(calls') <=> Alternates(calls))
    <3>1. /\ InItsChroma(Append(calls, call)) <=> call.kind = "chroma"
          /\ Alternates(Append(calls, call)) <=> IF calls = <<>> THEN call.kind = "joint" ELSE Alternates(calls)
      BY <2>3, CallsAppend
    <3>2. Len(Append(calls, call)) = Len(calls) + 1 /\ Append(calls, call) # <<>>
      BY <2>3, AppendIsSeq
    <3> QED BY <2>1, <2>8, <3>1, <3>2 DEF Alternates
  <2>13. CallsOK(calls', cur')
    <3>1. cur = "CHROMA" => ~chromaNotSplit
      BY <2>2, <2>7 DEF p, IInv, GroupInv
    <3>2. CallOK(call, cur) BY <2>8, <3>1 DEF CallOK
    <3>3. CallsOK(Append(calls, call), cur) BY <2>3, <2>4, <2>8, <3>2, CallsAppend
    <3> QED BY <2>1, <3>3
  <2>14. LengthInv'
    <3>1. Len(p.stack) = 1 + Len(calls) BY <2>4 DEF IInv, LengthInv, p
    <3>2. ASSUME Alternates(calls) PROVE q.stack[2].split = "QUAD"
      <4>1. Len(calls) # 0 BY <2>3, <3>2, FrontAndLast DEF Alternates
      <4>2. Len(p.stack) \in {n \in Nat : n >= 2} BY <2>3, <3>1, <4>1
      <4> QED BY <2>3, <2>10, <3>2, <4>2, SecondLevel DEF p
    <3>3. /\ Len(q.stack) = 1 + Len(calls') - 0 BY <2>3, <2>10, <2>12, <3>1
    <3>4. /\ \A ch \in Channels \ {cur} : Len(parts[ch].stack) = IF Alternates(calls) THEN 2 ELSE 1
          /\ Alternates(calls) => \A ch \in Channels : parts[ch].stack[2].split = "QUAD"
      BY DEF IInv, LengthInv
    <3>5. Alternates(calls') => \A ch \in Channels : parts'[ch].stack[2].split = "QUAD"
      BY <2>11, <2>12, <3>2, <3>4
    <3> QED BY <1>1, <2>1, <2>11, <2>12, <3>3, <3>4, <3>5 DEF LengthInv
  <2>15. GroupInv'
    <3>1. /\ group = [ch \in Channels |-> group[ch]]
          /\ parts["CHROMA"].chType = "CHROMA" /\ parts["LUMA"].chType = "LUMA"
      BY <2>4 DEF IInv, GroupInv
    <3>2. "LUMA" \in Channels /\ "CHROMA" \in Channels BY DEF Channels
    <3>3. CASE cur = "LUMA"
      <4>1. /\ Starts \in [Channels -> BOOLEAN]
            /\ Starts["LUMA"] => Position(Top(p)) = p.qgPos
            /\ ~Starts["LUMA"] => ~Top(p).qgEnable /\ group["LUMA"] = p.qgPos
        BY <3>1, <3>3, StartsFacts DEF p
      <4>2. parts'["LUMA"] = q /\ parts'["CHROMA"] = parts["CHROMA"] /\ p = parts["LUMA"]
        BY <2>11, <3>2, <3>3 DEF p
      <4> QED BY <1>1, <2>1, <2>10, <2>12, <3>1, <3>3, <4>1, <4>2 DEF GroupInv
    <3>4. CASE cur # "LUMA"
      <4>1. cur = "CHROMA" BY <2>3, <3>4 DEF Channels
      <4>2. parts'["CHROMA"] = q /\ parts'["LUMA"] = parts["LUMA"] /\ p = parts["CHROMA"]
        BY <2>11, <3>2, <4>1 DEF p
      <4>3. Starts \in [Channels -> BOOLEAN] /\ Starts["LUMA"] = qgStart["LUMA"]
        BY <3>4, StartsFacts
      <4>4. ~qgStart["LUMA"] /\ (~Top(parts["LUMA"]).qgEnable => group["LUMA"] = parts["LUMA"].qgPos)
        BY <3>4 DEF IInv, GroupInv
      <4> QED BY <2>1, <2>10, <3>1, <4>1, <4>2, <4>3, <4>4 DEF GroupInv
    <3> QED BY <3>3, <3>4
  <2> QED BY <2>1, <2>11, <2>13, <2>14, <2>15 DEF IInv
<1> QED BY <1>4, <1>5

\* The prediction and the group, when a unit is coded.
LEMMA CodeUnitsGroup ==
  ASSUME IInv, group' = [group EXCEPT ![cur] = IF Starts[cur] THEN <<area.x, area.y>> ELSE @]
  PROVE  /\ group' = [ch \in Channels |-> group'[ch]]
         /\ part.chType = "LUMA" => cur = "LUMA" /\ group'[cur] = part.qgPos
         /\ part.chType # "LUMA" /\ cur = "LUMA" => group' = group
         /\ cur # "LUMA" => group'["LUMA"] = group["LUMA"]
<1>1. group = [ch \in Channels |-> group[ch]] /\ cur \in Channels BY DEF IInv, GroupInv
<1>2. part.chType = parts[cur].chType /\ part.qgPos = parts[cur].qgPos
      /\ <<area.x, area.y>> = Position(Top(parts[cur]))
  BY PartFacts
<1>3. parts["CHROMA"].chType = "CHROMA" BY DEF IInv, GroupInv
<1>4. part.chType = "LUMA" => cur = "LUMA" BY <1>1, <1>2, <1>3 DEF Channels
<1>5. group' = [ch \in Channels |-> IF ch # cur THEN group[ch]
                                    ELSE IF Starts[cur] THEN <<area.x, area.y>> ELSE group[ch]]
  BY <1>1
<1>6. /\ Starts \in [Channels -> BOOLEAN]
      /\ cur = "LUMA" /\ part.chType = "LUMA" =>
           group["LUMA"] = parts["LUMA"].qgPos \/ Starts["LUMA"]
      /\ Starts["LUMA"] /\ cur = "LUMA" =>
           Position(Top(parts["LUMA"])) = parts["LUMA"].qgPos /\ part.chType = "LUMA"
  BY <1>2, StartsFacts
<1>7. Starts["LUMA"] => cur = "LUMA" /\ parts["LUMA"].chType = "LUMA"
  BY StartsFacts
<1>8. group' = [ch \in Channels |-> group'[ch]] BY <1>5
<1>9. ASSUME part.chType = "LUMA" PROVE group'[cur] = part.qgPos
  <2>1. cur = "LUMA" BY <1>4, <1>9
  <2>2. group'[cur] = IF Starts[cur] THEN <<area.x, area.y>> ELSE group[cur] BY <1>1, <1>5
  <2>3. CASE Starts[cur] BY <1>2, <1>6, <2>1, <2>2, <2>3
  <2>4. CASE ~Starts[cur] BY <1>2, <1>6, <1>9, <2>1, <2>2, <2>4
  <2> QED BY <2>3, <2>4
<1>10. ASSUME part.chType # "LUMA", cur = "LUMA" PROVE group' = group
  <2>1. ~Starts["LUMA"] BY <1>2, <1>7, <1>10
  <2>2. \A ch \in Channels : group'[ch] = group[ch] BY <1>5, <1>10, <2>1
  <2> QED BY <1>1, <1>8, <2>2
<1>11. cur # "LUMA" => group'["LUMA"] = group["LUMA"]
  <2>1. "LUMA" \in Channels BY DEF Channels
  <2> QED BY <1>5, <2>1
<1> QED BY <1>4, <1>8, <1>9, <1>10, <1>11

\* coding_tree: a coding unit, and the QP its group was predicted with.
LEMMA CodeUnitKeeps ==
  ASSUME IInv, CodeUnit
  PROVE  IInv'
<1> DEFINE lost == IsSepTree(cfg, part) /\ part.chType = "CHROMA" /\ LumaRef(cfg, area) \notin coded["LUMA"]
<1>1. CASE lost BY <1>1, AbortKeeps DEF CodeUnit
<1>2. CASE ~lost
  <2>1. /\ parts' = [parts EXCEPT ![cur] = part]
        /\ group' = [group EXCEPT ![cur] = IF Starts[cur] THEN <<area.x, area.y>> ELSE @]
        /\ qgStart' = [Starts EXCEPT ![cur] = FALSE]
        /\ pc' = "return" /\ cfg' = cfg /\ cur' = cur /\ calls' = calls
    BY <1>2 DEF CodeUnit
  <2>2. /\ PartOK(part) /\ Len(part.stack) = Len(parts[cur].stack)
        /\ Top(part).qgEnable = Top(parts[cur]).qgEnable
        /\ SameSplits(part.stack, parts[cur].stack)
        /\ Position(Top(part)) = Position(Top(parts[cur]))
        /\ part.qgPos = parts[cur].qgPos /\ part.chType = parts[cur].chType
    BY PartFacts
  <2>3. PartsOK' /\ parts'[cur] = part /\ \A ch \in Channels \ {cur} : parts'[ch] = parts[ch]
    BY <2>1, <2>2, OnePartChanges
  <2>4. cur \in Channels /\ CallsOK(calls, cur) BY DEF IInv
  <2>5. LengthInv'
    <3>1. ASSUME Alternates(calls) PROVE part.stack[2].split = "QUAD"
      <4>1. calls # <<>> BY <3>1 DEF Alternates
      <4>2. Len(part.stack) \in {n \in Nat : n >= 2} /\ Len(parts[cur].stack) \in {n \in Nat : n >= 2}
        <5>1. Len(calls) \in Nat /\ Len(calls) > 0 BY <4>1, LastCall
        <5>2. PartOK(parts[cur]) BY <2>4 DEF IInv, PartsOK
        <5>3. CASE InItsChroma(calls)
          <6>1. /\ Last(calls).kind = "chroma" /\ Front(calls) # <<>>
            BY <3>1, <4>1, <5>3, LastCall DEF InItsChroma
          <6>2. Len(calls) > 1 BY <4>1, <6>1, LastCall
          <6>3. Len(parts[cur].stack) = 1 + Len(calls) - 1 BY <5>3 DEF IInv, LengthInv
          <6> QED BY <2>2, <5>1, <6>2, <6>3
        <5>4. CASE ~InItsChroma(calls)
          <6>1. Len(parts[cur].stack) = 1 + Len(calls) - 0 BY <5>4 DEF IInv, LengthInv
          <6> QED BY <2>2, <5>1, <6>1
        <5> QED BY <5>3, <5>4
      <4> QED BY <2>2, <2>4, <3>1, <4>2, SecondLevel
    <3> QED BY <2>1, <2>2, <2>3, <3>1 DEF IInv, LengthInv
  <2>6. GroupInv'
    <3>1. /\ parts["CHROMA"].chType = "CHROMA"
          /\ parts["LUMA"].chType = IF cur = "LUMA" /\ InItsChroma(calls) THEN "CHROMA" ELSE "LUMA"
          /\ ~qgStart["LUMA"] /\ ~Top(parts["LUMA"]).qgEnable => group["LUMA"] = parts["LUMA"].qgPos
      BY DEF IInv, GroupInv
    <3>2. /\ group' = [ch \in Channels |-> group'[ch]]
          /\ part.chType = "LUMA" => cur = "LUMA" /\ group'[cur] = part.qgPos
          /\ part.chType # "LUMA" /\ cur = "LUMA" => group' = group
          /\ cur # "LUMA" => group'["LUMA"] = group["LUMA"]
      BY <2>1, CodeUnitsGroup
    <3>3. "LUMA" \in Channels /\ "CHROMA" \in Channels BY DEF Channels
    <3>4. qgStart' \in [Channels -> BOOLEAN] /\ ~qgStart'["LUMA"]
      <4>1. /\ Starts \in [Channels -> BOOLEAN]
            /\ Starts["LUMA"] => cur = "LUMA"
        BY StartsFacts
      <4>2. qgStart' = [ch \in Channels |-> IF ch = cur THEN FALSE ELSE Starts[ch]]
        BY <2>1, <4>1
      <4>3. qgStart' \in [Channels -> BOOLEAN] BY <4>1, <4>2
      <4>4. qgStart'["LUMA"] = IF "LUMA" = cur THEN FALSE ELSE Starts["LUMA"]
        BY <3>3, <4>2
      <4> QED BY <4>1, <4>3, <4>4
    <3>5. /\ parts'["CHROMA"].chType = parts["CHROMA"].chType
          /\ parts'["LUMA"].chType = parts["LUMA"].chType
          /\ parts'["LUMA"].qgPos = parts["LUMA"].qgPos
          /\ Top(parts'["LUMA"]).qgEnable = Top(parts["LUMA"]).qgEnable
      BY <2>2, <2>3, <3>3
    <3>6. ~Top(parts["LUMA"]).qgEnable => group'["LUMA"] = parts["LUMA"].qgPos
      <4>1. CASE cur = "LUMA" /\ part.chType = "LUMA" BY <2>2, <3>2, <4>1
      <4>2. CASE cur = "LUMA" /\ part.chType # "LUMA"
        <5>1. ~qgStart["LUMA"] BY <2>2, <4>2 DEF IInv, GroupInv
        <5> QED BY <3>1, <3>2, <4>2, <5>1
      <4>3. CASE cur # "LUMA"
        <5>1. ~qgStart["LUMA"] BY <4>3 DEF IInv, GroupInv
        <5> QED BY <3>1, <3>2, <4>3, <5>1
      <4> QED BY <4>1, <4>2, <4>3
    <3> QED BY <2>1, <3>1, <3>2, <3>4, <3>5, <3>6 DEF GroupInv
  <2> QED BY <2>1, <2>3, <2>4, <2>5, <2>6 DEF IInv
<1> QED BY <1>1, <1>2

\* In the loop of a call the next unit of luma begins no group yet.
LEMMA LoopFacts ==
  ASSUME IInv, calls # <<>>, pc = "return"
  PROVE  /\ ~qgStart["LUMA"] /\ (~Top(parts["LUMA"]).qgEnable => group["LUMA"] = parts["LUMA"].qgPos)
         /\ PartOK(parts[cur]) /\ cur \in Channels
         /\ Last(calls).kind # "chroma" => Len(parts[cur].stack) = 1 + Len(calls)
         /\ Last(calls).kind = "chroma" => Len(parts[cur].stack) = Len(calls)
         /\ Len(calls) \in Nat /\ Len(calls) > 0
         /\ parts["CHROMA"].chType = "CHROMA"
         /\ group = [ch \in Channels |-> group[ch]] /\ qgStart \in [Channels -> BOOLEAN]
<1>1. /\ InItsChroma(calls) <=> Last(calls).kind = "chroma"
      /\ Len(calls) \in Nat /\ Len(calls) > 0
  BY LastCall
<1>2. Len(parts[cur].stack) = 1 + Len(calls) - (IF InItsChroma(calls) THEN 1 ELSE 0)
  BY DEF IInv, LengthInv
<1>3. PartOK(parts[cur]) /\ cur \in Channels BY DEF IInv, PartsOK
<1>4. /\ ~qgStart["LUMA"]
      /\ ~Top(parts["LUMA"]).qgEnable => group["LUMA"] = parts["LUMA"].qgPos
      /\ parts["CHROMA"].chType = "CHROMA"
      /\ group = [ch \in Channels |-> group[ch]] /\ qgStart \in [Channels -> BOOLEAN]
  BY DEF IInv, GroupInv
<1>5. Last(calls).kind = "chroma" => Len(parts[cur].stack) = Len(calls)
  BY <1>1, <1>2
<1>6. Last(calls).kind # "chroma" => Len(parts[cur].stack) = 1 + Len(calls)
  BY <1>1, <1>2
<1> QED BY <1>1, <1>3, <1>4, <1>5, <1>6

\* coding_tree: the next part of the block.
LEMMA NextNodePartKeeps ==
  ASSUME IInv, NextNodePart
  PROVE  IInv'
<1> DEFINE p == parts[cur]
           q == NextPart(p)
<1>1. /\ pc = "return" /\ calls # <<>> /\ Last(calls).kind = "node" /\ HasNextPart(p)
      /\ parts' = [parts EXCEPT ![cur] = q] /\ cfg' = cfg /\ cur' = cur /\ calls' = calls
      /\ qgStart' = qgStart /\ group' = group
  BY DEF NextNodePart, InLoop
<1>2. pc' \in {"tree", "return"} BY DEF NextNodePart, Called
<1>3. /\ ~qgStart["LUMA"] /\ (~Top(parts["LUMA"]).qgEnable => group["LUMA"] = parts["LUMA"].qgPos)
      /\ PartOK(p) /\ cur \in Channels /\ Len(p.stack) = 1 + Len(calls)
      /\ Len(calls) \in Nat /\ Len(calls) > 0 /\ parts["CHROMA"].chType = "CHROMA"
      /\ group = [ch \in Channels |-> group[ch]] /\ qgStart \in [Channels -> BOOLEAN]
  BY <1>1, LoopFacts
<1>4. /\ PartOK(q) /\ Len(q.stack) = Len(p.stack) /\ q.chType = p.chType
      /\ Top(q).qgEnable = Top(p).qgEnable
      /\ ~Top(p).qgEnable => q.qgPos = p.qgPos
      /\ SameSplits(q.stack, p.stack)
  BY <1>1, <1>3, NextPartOK
<1> HIDE DEF q, p
<1>5. PartsOK' /\ parts'[cur] = q /\ \A ch \in Channels \ {cur} : parts'[ch] = parts[ch]
  BY <1>1, <1>4, OnePartChanges
<1>6. LengthInv'
  <2>1. ASSUME Alternates(calls) PROVE q.stack[2].split = "QUAD"
    <3>1. Len(p.stack) \in {n \in Nat : n >= 2} BY <1>3
    <3> QED BY <1>3, <1>4, <2>1, <3>1, SecondLevel DEF p
  <2>2. ~InItsChroma(calls) BY <1>1 DEF InItsChroma
  <2> QED BY <1>1, <1>2, <1>4, <1>5, <2>1, <2>2 DEF IInv, LengthInv, p
<1>7. GroupInv'
  <2>1. ~InItsChroma(calls) BY <1>1 DEF InItsChroma
  <2>2. "LUMA" \in Channels /\ "CHROMA" \in Channels BY DEF Channels
  <2>3. /\ parts'["CHROMA"].chType = "CHROMA" /\ parts'["LUMA"].chType = parts["LUMA"].chType
        /\ Top(parts'["LUMA"]).qgEnable = Top(parts["LUMA"]).qgEnable
        /\ ~Top(parts["LUMA"]).qgEnable => parts'["LUMA"].qgPos = parts["LUMA"].qgPos
    BY <1>3, <1>4, <1>5, <2>2 DEF p
  <2>4. parts["LUMA"].chType = "LUMA" BY <2>1 DEF IInv, GroupInv
  <2> QED BY <1>1, <1>3, <2>1, <2>3, <2>4 DEF GroupInv
<1> QED BY <1>1, <1>5, <1>6, <1>7 DEF IInv

\* coding_tree: the end of the loop over the parts, with or without a chroma tree to follow.
LEMMA ExitNodeKeeps ==
  ASSUME IInv, ExitNode
  PROVE  IInv'
<1> DEFINE p == parts[cur]
           left == ExitCurrSplit(p)
           last == Last(calls)
           before == Front(calls)
           ofChroma1 == [left EXCEPT !.chType = "CHROMA"]
           ofChroma == [ofChroma1 EXCEPT !.treeType = "TREE_C"]
           joined == [left EXCEPT !.modeType = last.modeTypeParent]
           q == IF last.chromaNotSplit THEN ofChroma ELSE joined
           ch1 == IF last.chromaNotSplit THEN "CHROMA" ELSE p.chType
           chromaCall == [last EXCEPT !.kind = "chroma"]
<1>1. pc = "return" /\ calls # <<>> /\ last.kind = "node" /\ ~HasNextPart(p)
  BY DEF ExitNode, InLoop
<1>2. CASE ExitFails(p) BY <1>2, AbortKeeps DEF ExitNode
<1>3. CASE ~ExitFails(p)
  <2>1. /\ calls = Append(before, last) /\ IsSeq(before)
        /\ Len(calls) = Len(before) + 1 /\ Len(before) \in Nat
        /\ before # <<>> => Len(before) > 0
        /\ CallsOK(before, cur) /\ CallOK(last, cur) /\ ~InItsChroma(before)
        /\ ~InItsChroma(calls)
        /\ Alternates(calls) <=> before # <<>> /\ Alternates(before)
    BY <1>1, LastCall
  <2>2. /\ ~qgStart["LUMA"] /\ (~Top(parts["LUMA"]).qgEnable => group["LUMA"] = parts["LUMA"].qgPos)
        /\ PartOK(p) /\ cur \in Channels /\ Len(p.stack) = 1 + Len(calls)
        /\ Len(calls) \in Nat /\ Len(calls) > 0 /\ parts["CHROMA"].chType = "CHROMA"
        /\ group = [ch \in Channels |-> group[ch]] /\ qgStart \in [Channels -> BOOLEAN]
    BY <1>1, LoopFacts
  <2>3. /\ PartOK(left) /\ Len(left.stack) = Len(p.stack) - 1 /\ left.chType = p.chType
        /\ Top(p).qgEnable => Top(left).qgEnable
        /\ ~Top(left).qgEnable => left.qgPos = p.qgPos
        /\ SameSplits(p.stack, left.stack)
    BY <1>1, <2>2, ExitOK
  <2>4. /\ parts' = [parts EXCEPT ![cur] = q] /\ cfg' = cfg /\ cur' = cur
        /\ qgStart' = qgStart /\ group' = group /\ pc' \in {"tree", "return"}
        /\ last.chromaNotSplit => calls' = [calls EXCEPT ![Len(calls)] = chromaCall]
        /\ ~last.chromaNotSplit => calls' = before /\ pc' = "return"
    <3>1. CASE last.chromaNotSplit
      <4>1. /\ parts' = [parts EXCEPT ![cur] = [left EXCEPT !.chType = "CHROMA", !.treeType = "TREE_C"]]
            /\ calls' = [calls EXCEPT ![Len(calls)].kind = "chroma"]
            /\ pc' = Called(left) /\ UNCHANGED <<cfg, cur, qgStart, group, coded>>
        BY <1>1, <1>3, <3>1 DEF ExitNode
      <4>2. calls' = [calls EXCEPT ![Len(calls)] = chromaCall]
        BY <4>1 DEF Last
      <4>3. pc' \in {"tree", "return"} BY <4>1 DEF Called
      <4>4. parts' = [parts EXCEPT ![cur] = ofChroma] BY <4>1
      <4> QED BY <3>1, <4>1, <4>2, <4>3, <4>4
    <3>2. CASE ~last.chromaNotSplit
      BY <1>1, <1>3, <3>2 DEF ExitNode
    <3> QED BY <3>1, <3>2
  <2>5. IsRecord(last, CallFields) /\ (cur = "CHROMA" => ~last.chromaNotSplit)
    BY <1>1, <2>1 DEF CallOK
  <2>6. IsRecord(chromaCall, CallFields) /\ chromaCall.kind = "chroma"
    BY <2>5 DEF IsRecord, CallFields
  <2> HIDE DEF left, p, last, before, chromaCall
  <2>7. last.chromaNotSplit => calls' = Append(before, chromaCall)
    <3>1. \A d : [Append(before, last) EXCEPT ![Len(before) + 1] = d] = Append(before, d)
      BY <2>1, AppendIsSeq
    <3> QED BY <2>1, <2>4, <3>1
  <2>8. /\ IsRecord(q, PartFields)
        /\ \A f \in PartFields \ {"chType", "treeType", "modeType"} : q[f] = left[f]
        /\ q.chType = ch1 /\ (last.chromaNotSplit => q.treeType = "TREE_C")
    <3>1. IsRecord(left, PartFields) BY <2>3 DEF PartOK
    <3>2. /\ IsRecord(ofChroma1, PartFields) /\ ofChroma1.chType = "CHROMA"
          /\ \A f \in PartFields : f # "chType" => ofChroma1[f] = left[f]
      BY <3>1 DEF IsRecord, PartFields
    <3> HIDE DEF ofChroma1
    <3>3. /\ IsRecord(ofChroma, PartFields) /\ ofChroma.treeType = "TREE_C"
          /\ \A f \in PartFields : f # "treeType" => ofChroma[f] = ofChroma1[f]
      BY <3>2 DEF IsRecord, PartFields
    <3> HIDE DEF ofChroma
    <3>4. ofChroma.chType = "CHROMA" BY <3>2, <3>3 DEF PartFields
    <3>5. /\ IsRecord(joined, PartFields)
          /\ \A f \in PartFields : f # "modeType" => joined[f] = left[f]
      BY <3>1 DEF IsRecord, PartFields
    <3> HIDE DEF joined
    <3>6. joined.chType = p.chType BY <2>3, <3>5 DEF PartFields
    <3>7. CASE last.chromaNotSplit BY <3>2, <3>3, <3>4, <3>7
    <3>8. CASE ~last.chromaNotSplit BY <3>5, <3>6, <3>8
    <3> QED BY <3>7, <3>8
  <2> HIDE DEF q
  <2>9. PartOK(q) /\ q.stack = left.stack /\ q.qgPos = left.qgPos
    BY <2>3, <2>8, Relabelled
  <2>10. PartsOK' /\ parts'[cur] = q /\ \A ch \in Channels \ {cur} : parts'[ch] = parts[ch]
    BY <2>4, <2>9, OnePartChanges
  <2>11. /\ CallsOK(calls', cur') /\ (InItsChroma(calls') <=> last.chromaNotSplit)
         /\ Len(calls') = Len(before) + (IF last.chromaNotSplit THEN 1 ELSE 0)
         /\ Alternates(calls') <=> Alternates(calls)
    <3>1. CASE last.chromaNotSplit
      <4>1. CallOK(chromaCall, cur) BY <2>5, <2>6, <3>1 DEF CallOK
      <4>2. CallsOK(Append(before, chromaCall), cur) BY <2>1, <2>6, <4>1, CallsAppend
      <4>3. /\ InItsChroma(Append(before, chromaCall))
            /\ Alternates(Append(before, chromaCall)) <=> before # <<>> /\ Alternates(before)
        BY <2>1, <2>6, CallsAppend
      <4>4. Len(Append(before, chromaCall)) = Len(before) + 1 BY <2>1, AppendIsSeq
      <4> QED BY <2>1, <2>4, <2>7, <3>1, <4>2, <4>3, <4>4
    <3>2. CASE ~last.chromaNotSplit
      <4>1. Alternates(before) => before # <<>> BY DEF Alternates
      <4>2. Len(before) + 0 = Len(before) BY <2>1
      <4> QED BY <2>1, <2>4, <3>2, <4>1, <4>2
    <3> QED BY <3>1, <3>2
  <2>12. LengthInv'
    <3>1. Len(q.stack) = 1 + Len(calls') - (IF InItsChroma(calls') THEN 1 ELSE 0)
      <4>1. Len(q.stack) = 1 + Len(before) BY <2>1, <2>2, <2>3, <2>9
      <4>2. CASE last.chromaNotSplit BY <2>1, <2>11, <4>1, <4>2
      <4>3. CASE ~last.chromaNotSplit BY <2>1, <2>11, <4>1, <4>3
      <4> QED BY <4>2, <4>3
    <3>2. ASSUME Alternates(calls) PROVE q.stack[2].split = "QUAD"
      <4>1. Len(before) > 0 BY <2>1, <3>2
      <4>2. Len(q.stack) \in {n \in Nat : n >= 2} BY <2>1, <2>2, <2>3, <2>9, <4>1
      <4>3. SameSplits(parts[cur].stack, q.stack) BY <2>3, <2>9 DEF p
      <4> QED BY <2>2, <3>2, <4>2, <4>3, SecondLevel
    <3>3. InItsChroma(calls') /\ pc' = "tree" => parts'[cur'].treeType = "TREE_C"
      BY <2>4, <2>8, <2>10, <2>11
    <3>4. calls' = <<>> => pc' = "return"
      <4>1. Append(before, chromaCall) # <<>> BY <2>1, AppendIsSeq
      <4> QED BY <2>4, <2>7, <4>1
    <3>5. /\ \A ch \in Channels \ {cur} : Len(parts[ch].stack) = IF Alternates(calls) THEN 2 ELSE 1
          /\ Alternates(calls) => \A ch \in Channels : parts[ch].stack[2].split = "QUAD"
      BY DEF IInv, LengthInv
    <3>6. Alternates(calls') => \A ch \in Channels : parts'[ch].stack[2].split = "QUAD"
      BY <2>10, <2>11, <3>2, <3>5
    <3> QED BY <2>4, <2>10, <2>11, <3>1, <3>3, <3>4, <3>5, <3>6 DEF LengthInv
  <2>13. GroupInv'
    <3>1. "LUMA" \in Channels /\ "CHROMA" \in Channels BY DEF Channels
    <3>2. parts["LUMA"].chType = "LUMA" BY <2>1 DEF IInv, GroupInv
    <3>3. CASE cur = "LUMA"
      <4>1. parts'["LUMA"] = q /\ parts'["CHROMA"] = parts["CHROMA"] /\ p = parts["LUMA"]
        BY <2>10, <3>1, <3>3 DEF p
      <4>2. q.chType = IF InItsChroma(calls') THEN "CHROMA" ELSE "LUMA"
        BY <2>8, <2>11, <3>2, <4>1
      <4>3. Top(q) = Top(left) BY <2>9 DEF Top
      <4>4. ~Top(q).qgEnable => group["LUMA"] = q.qgPos
        BY <2>2, <2>3, <2>9, <4>1, <4>3
      <4> QED BY <2>2, <2>4, <3>3, <4>1, <4>2, <4>4 DEF GroupInv
    <3>4. CASE cur # "LUMA"
      <4>1. cur = "CHROMA" BY <2>2, <3>4 DEF Channels
      <4>2. parts'["CHROMA"] = q /\ parts'["LUMA"] = parts["LUMA"] /\ p = parts["CHROMA"]
        BY <2>10, <3>1, <4>1 DEF p
      <4>3. q.chType = "CHROMA" BY <2>2, <2>8, <4>2
      <4> QED BY <2>2, <2>4, <3>2, <4>1, <4>2, <4>3 DEF GroupInv
    <3> QED BY <3>3, <3>4
  <2> QED BY <2>4, <2>10, <2>11, <2>12, <2>13 DEF IInv
<1> QED BY <1>2, <1>3

\* coding_tree: after the chroma of a block whose luma alone was split.
LEMMA RecoverKeeps ==
  ASSUME IInv, Recover
  PROVE  IInv'
<1> DEFINE p == parts[cur]
           last == Last(calls)
           before == Front(calls)
           ofLuma1 == [p EXCEPT !.chType = "LUMA"]
           ofLuma == [ofLuma1 EXCEPT !.treeType = "TREE_D"]
           q == [ofLuma EXCEPT !.modeType = last.modeTypeParent]
<1>1. /\ pc = "return" /\ calls # <<>> /\ last.kind = "chroma" /\ calls' = before
      /\ cfg' = cfg /\ cur' = cur /\ pc' = pc /\ qgStart' = qgStart /\ group' = group
  BY DEF Recover, InLoop
<1>2. parts' = [parts EXCEPT ![cur] = q] BY DEF Recover
<1>3. /\ calls = Append(before, last) /\ IsSeq(before)
      /\ Len(calls) = Len(before) + 1 /\ Len(before) \in Nat
      /\ before # <<>> => Len(before) > 0
      /\ CallsOK(before, cur) /\ CallOK(last, cur) /\ ~InItsChroma(before)
      /\ InItsChroma(calls)
      /\ Alternates(calls) <=> before # <<>> /\ Alternates(before)
  BY <1>1, LastCall
<1>4. /\ ~qgStart["LUMA"] /\ (~Top(parts["LUMA"]).qgEnable => group["LUMA"] = parts["LUMA"].qgPos)
      /\ PartOK(p) /\ cur \in Channels /\ Len(p.stack) = Len(calls)
      /\ parts["CHROMA"].chType = "CHROMA"
      /\ group = [ch \in Channels |-> group[ch]] /\ qgStart \in [Channels -> BOOLEAN]
  BY <1>1, LoopFacts
<1>5. cur = "LUMA" BY <1>1, <1>3, <1>4 DEF CallOK, Channels
<1> HIDE DEF p, last, before
<1>6. IsRecord(p, PartFields) BY <1>4 DEF PartOK
<1>7. /\ IsRecord(ofLuma1, PartFields) /\ ofLuma1.chType = "LUMA"
      /\ \A f \in PartFields : f # "chType" => ofLuma1[f] = p[f]
  BY <1>6 DEF IsRecord, PartFields
<1> HIDE DEF ofLuma1
<1>8. /\ IsRecord(ofLuma, PartFields)
      /\ \A f \in PartFields : f # "treeType" => ofLuma[f] = ofLuma1[f]
  BY <1>7 DEF IsRecord, PartFields
<1> HIDE DEF ofLuma
<1>9. /\ IsRecord(q, PartFields)
      /\ \A f \in PartFields : f # "modeType" => q[f] = ofLuma[f]
  BY <1>8 DEF IsRecord, PartFields
<1> HIDE DEF q
<1>10. /\ q.chType = "LUMA"
       /\ \A f \in PartFields \ {"chType", "treeType", "modeType"} : q[f] = p[f]
  BY <1>7, <1>8, <1>9 DEF PartFields
<1>11. PartOK(q) /\ q.stack = p.stack /\ q.qgPos = p.qgPos
  BY <1>4, <1>9, <1>10, Relabelled
<1>12. PartsOK' /\ parts'[cur] = q /\ \A ch \in Channels \ {cur} : parts'[ch] = parts[ch]
  BY <1>2, <1>11, OnePartChanges
<1>13. Alternates(calls') <=> Alternates(calls)
  BY <1>1, <1>3 DEF Alternates
<1>14. LengthInv'
  <2>1. Len(q.stack) = 1 + Len(calls') - 0 BY <1>1, <1>3, <1>4, <1>11
  <2>2. /\ \A ch \in Channels \ {cur} : Len(parts[ch].stack) = IF Alternates(calls) THEN 2 ELSE 1
        /\ Alternates(calls) => \A ch \in Channels : parts[ch].stack[2].split = "QUAD"
    BY DEF IInv, LengthInv
  <2>3. Alternates(calls') => \A ch \in Channels : parts'[ch].stack[2].split = "QUAD"
    BY <1>4, <1>11, <1>12, <1>13, <2>2 DEF p
  <2> QED BY <1>1, <1>3, <1>12, <1>13, <2>1, <2>2, <2>3 DEF LengthInv
<1>15. GroupInv'
  <2>1. "LUMA" \in Channels /\ "CHROMA" \in Channels BY DEF Channels
  <2>2. parts'["LUMA"] = q /\ parts'["CHROMA"] = parts["CHROMA"] /\ p = parts["LUMA"]
    BY <1>5, <1>12, <2>1 DEF p
  <2>3. Top(q) = Top(p) BY <1>11 DEF Top
  <2> QED BY <1>1, <1>3, <1>4, <1>10, <1>11, <2>2, <2>3 DEF GroupInv
<1> QED BY <1>1, <1>3, <1>12, <1>14, <1>15 DEF IInv

\* Where luma and chroma alternate there is one call, of a quadtree split of both.
LEMMA AlternatingFacts ==
  ASSUME IInv, InLoop("joint")
  PROVE  /\ Len(calls) = 1 /\ Alternates(calls) /\ ~InItsChroma(calls) /\ IsSeq(calls)
         /\ \A ch \in Channels : /\ PartOK(parts[ch]) /\ Len(parts[ch].stack) = 2
                                 /\ parts[ch].stack[2].split = "QUAD" /\ parts[ch].chType = ch
         /\ \A ch \in Channels : CallsOK(calls, ch)
<1>1. pc = "return" /\ calls # <<>> /\ Last(calls).kind = "joint" BY DEF InLoop
<1>2. /\ calls = Append(Front(calls), Last(calls)) /\ Front(calls) = <<>>
      /\ Len(calls) = Len(Front(calls)) + 1
      /\ Alternates(calls) /\ ~InItsChroma(calls)
  BY <1>1, LastCall
<1>3. Len(calls) = 1 BY <1>2, EmptyIsSeq
<1>4. ASSUME NEW ch \in Channels PROVE Len(parts[ch].stack) = 2
  <2>1. CASE ch = cur
    <3>1. Len(parts[cur].stack) = 1 + Len(calls) - 0 BY <1>2 DEF IInv, LengthInv
    <3> QED BY <1>3, <2>1, <3>1
  <2>2. CASE ch # cur BY <1>2, <2>2 DEF IInv, LengthInv
  <2> QED BY <2>1, <2>2
<1>5. \A ch \in Channels : /\ PartOK(parts[ch])
                           /\ parts[ch].stack[2].split = "QUAD" /\ parts[ch].chType = ch
  BY <1>2 DEF IInv, PartsOK, LengthInv, GroupInv, Channels
<1>6. ASSUME NEW ch \in Channels PROVE CallsOK(calls, ch)
  <2>1. IsSeq(calls) /\ CallsOK(calls, cur) BY DEF IInv, CallsOK
  <2>2. DOMAIN calls = {1} /\ calls[1].kind = "joint"
    <3>1. DOMAIN calls = 1 .. Len(calls) BY <2>1, AppendIsSeq
    <3>2. Last(calls) = calls[1] BY <1>3 DEF Last
    <3> QED BY <1>1, <1>3, <3>1, <3>2
  <2> QED BY <1>3, <2>1, <2>2 DEF CallsOK, CallOK
<1> QED BY <1>2, <1>3, <1>4, <1>5, <1>6 DEF IInv, CallsOK

\* One of the partitioners goes on and the walk turns to the other one.
LEMMA TurnKeeps ==
  ASSUME IInv, InLoop("joint"), NEW ch \in Channels, NEW q,
         q = parts[ch] \/ (HasNextPart(parts[ch]) /\ q = NextPart(parts[ch])),
         parts' = [parts EXCEPT ![ch] = q], cur' \in Channels, pc' \in {"tree", "return"},
         UNCHANGED <<cfg, calls, qgStart, group, coded>>
  PROVE  IInv'
<1> DEFINE p == parts[ch]
<1>1. /\ Len(calls) = 1 /\ Alternates(calls) /\ ~InItsChroma(calls)
      /\ \A c \in Channels : /\ PartOK(parts[c]) /\ Len(parts[c].stack) = 2
                             /\ parts[c].stack[2].split = "QUAD" /\ parts[c].chType = c
      /\ \A c \in Channels : CallsOK(calls, c)
  BY AlternatingFacts
<1>2. /\ PartOK(q) /\ Len(q.stack) = 2 /\ q.chType = ch
      /\ Top(q).qgEnable = Top(p).qgEnable
      /\ ~Top(p).qgEnable => q.qgPos = p.qgPos
      /\ q.stack[2].split = "QUAD"
  <2>1. CASE q = p BY <1>1, <2>1
  <2>2. CASE HasNextPart(p) /\ q = NextPart(p)
    <3>1. /\ PartOK(q) /\ Len(q.stack) = Len(p.stack) /\ q.chType = p.chType
          /\ Top(q).qgEnable = Top(p).qgEnable
          /\ ~Top(p).qgEnable => q.qgPos = p.qgPos
          /\ SameSplits(q.stack, p.stack)
      BY <1>1, <2>2, NextPartOK
    <3>2. 2 \in 1 .. Len(p.stack) BY <1>1
    <3> QED BY <1>1, <3>1, <3>2 DEF SameSplits
  <2> QED BY <2>1, <2>2
<1>3. parts' = [c \in Channels |-> IF c = ch THEN q ELSE parts[c]]
  BY DEF IInv, PartsOK
<1>4. /\ parts' = [c \in Channels |-> parts'[c]]
      /\ \A c \in Channels : /\ PartOK(parts'[c]) /\ Len(parts'[c].stack) = 2
                             /\ parts'[c].stack[2].split = "QUAD" /\ parts'[c].chType = c
                             /\ Top(parts'[c]).qgEnable = Top(parts[c]).qgEnable
                             /\ ~Top(parts[c]).qgEnable => parts'[c].qgPos = parts[c].qgPos
  <2>1. \A c \in Channels : parts'[c] = IF c = ch THEN q ELSE parts[c] BY <1>3
  <2>2. parts' = [c \in Channels |-> parts'[c]] BY <1>3
  <2>3. parts'[ch] = q /\ \A c \in Channels \ {ch} : parts'[c] = parts[c] BY <2>1
  <2> HIDE DEF p
  <2>4. p = parts[ch] BY DEF p
  <2> QED BY <1>1, <1>2, <2>2, <2>3, <2>4
<1>5. pc = "return" /\ calls # <<>> BY DEF InLoop
<1>6. LengthInv'
  <2>1. \A c \in Channels : Len(parts'[c].stack) = 1 + Len(calls') - 0
    BY <1>1, <1>4
  <2> QED BY <1>1, <1>4, <1>5, <2>1 DEF LengthInv
<1>7. GroupInv'
  <2>1. /\ group = [c \in Channels |-> group[c]] /\ qgStart \in [Channels -> BOOLEAN]
        /\ ~qgStart["LUMA"]
        /\ ~Top(parts["LUMA"]).qgEnable => group["LUMA"] = parts["LUMA"].qgPos
    BY <1>5, LoopFacts
  <2>2. "LUMA" \in Channels /\ "CHROMA" \in Channels BY DEF Channels
  <2>3. group' = group /\ qgStart' = qgStart /\ calls' = calls OBVIOUS
  <2> QED BY <1>1, <1>4, <2>1, <2>2, <2>3 DEF GroupInv
<1> QED BY <1>1, <1>4, <1>6, <1>7 DEF IInv, PartsOK

\* coding_tree: from the luma of a block of 64 x 64 to its chroma.
LEMMA LumaThenChromaKeeps ==
  ASSUME IInv, LumaThenChroma
  PROVE  IInv'
<1> DEFINE q == Moved(parts["LUMA"])
<1>1. /\ InLoop("joint") /\ cur' = "CHROMA" /\ pc' \in {"tree", "return"}
      /\ parts' = [parts EXCEPT !["LUMA"] = q]
      /\ UNCHANGED <<cfg, calls, qgStart, group, coded>>
  <2>1. parts = [ch \in Channels |-> parts[ch]] /\ "LUMA" \in Channels
    BY DEF IInv, PartsOK, Channels
  <2> QED BY <2>1 DEF LumaThenChroma, Called
<1>2. q = parts["LUMA"] \/ (HasNextPart(parts["LUMA"]) /\ q = NextPart(parts["LUMA"]))
  BY DEF Moved
<1>3. "LUMA" \in Channels /\ "CHROMA" \in Channels BY DEF Channels
<1> HIDE DEF q
<1> QED BY <1>1, <1>2, <1>3, TurnKeeps

\* coding_tree: on to the luma of the next block of 64 x 64.
LEMMA NextJointPartKeeps ==
  ASSUME IInv, NextJointPart
  PROVE  IInv'
<1>1. /\ InLoop("joint") /\ cur' = "LUMA" /\ pc' \in {"tree", "return"}
      /\ HasNextPart(parts["CHROMA"])
      /\ parts' = [parts EXCEPT !["CHROMA"] = NextPart(parts["CHROMA"])]
      /\ UNCHANGED <<cfg, calls, qgStart, group, coded>>
  <2>1. parts = [ch \in Channels |-> parts[ch]] /\ "CHROMA" \in Channels
    BY DEF IInv, PartsOK, Channels
  <2> QED BY <2>1 DEF NextJointPart, Called
<1>2. "LUMA" \in Channels /\ "CHROMA" \in Channels BY DEF Channels
<1> QED BY <1>1, <1>2, TurnKeeps

\* coding_tree: the end of the loop over the blocks of 64 x 64.
LEMMA ExitJointlyKeeps ==
  ASSUME IInv, ExitJointly
  PROVE  IInv'
<1> DEFINE Q(ch) == ExitCurrSplit(parts[ch])
<1>1. InLoop("joint") /\ cur = "CHROMA" BY DEF ExitJointly
<1>2. CASE \E ch \in Channels : ExitFails(parts[ch])
  BY <1>2, AbortKeeps DEF ExitJointly
<1>3. CASE ~\E ch \in Channels : ExitFails(parts[ch])
  <2>1. /\ parts' = [ch \in Channels |-> Q(ch)] /\ calls' = <<>>
        /\ cfg' = cfg /\ cur' = cur /\ pc' = pc /\ qgStart' = qgStart /\ group' = group
    BY <1>3 DEF ExitJointly
  <2>2. \A ch \in Channels : /\ PartOK(parts[ch]) /\ Len(parts[ch].stack) = 2
                             /\ parts[ch].stack[2].split = "QUAD" /\ parts[ch].chType = ch
    BY <1>1, AlternatingFacts
  <2>3. ASSUME NEW ch \in Channels
        PROVE  /\ PartOK(Q(ch)) /\ Len(Q(ch).stack) = 1 /\ Q(ch).chType = ch
               /\ Top(parts[ch]).qgEnable => Top(Q(ch)).qgEnable
               /\ ~Top(Q(ch)).qgEnable => Q(ch).qgPos = parts[ch].qgPos
    <3> DEFINE p == parts[ch]
    <3>1. PartOK(p) /\ Len(p.stack) = 2 /\ Top(p).split = "QUAD" /\ p.chType = ch
      BY <2>2 DEF Top, Last
    <3> HIDE DEF p
    <3> DEFINE q == ExitCurrSplit(p)
    <3>2. /\ PartOK(q) /\ Len(q.stack) = Len(p.stack) - 1 /\ q.chType = p.chType
          /\ Top(p).qgEnable => Top(q).qgEnable
          /\ ~Top(q).qgEnable => q.qgPos = p.qgPos
      <4>1. Len(p.stack) > 1 BY <3>1
      <4> HIDE DEF p
      <4> QED BY <3>1, <4>1, ExitOK
    <3> QED BY <3>1, <3>2 DEF p
  <2> HIDE DEF Q
  <2>4. parts' = [ch \in Channels |-> parts'[ch]] /\ \A ch \in Channels : parts'[ch] = Q(ch)
    BY <2>1
  <2>5. PartsOK' BY <2>3, <2>4 DEF PartsOK
  <2>6. cur \in Channels /\ cfg \in Configs /\ pc = "return" BY <1>1 DEF IInv, InLoop
  <2>7. ~InItsChroma(calls') /\ ~Alternates(calls') /\ Len(calls') = 0
    BY <2>1, EmptyIsSeq DEF InItsChroma, Alternates
  <2>8. CallsOK(calls', cur') BY <2>1, EmptyIsSeq DEF CallsOK
  <2>9. LengthInv' BY <2>1, <2>3, <2>4, <2>6, <2>7 DEF LengthInv
  <2>10. GroupInv'
    <3>1. /\ group = [c \in Channels |-> group[c]] /\ qgStart \in [Channels -> BOOLEAN]
          /\ ~qgStart["LUMA"]
          /\ ~Top(parts["LUMA"]).qgEnable => group["LUMA"] = parts["LUMA"].qgPos
      BY <1>1, LoopFacts DEF InLoop
    <3>2. "LUMA" \in Channels /\ "CHROMA" \in Channels BY DEF Channels
    <3> QED BY <2>1, <2>3, <2>4, <2>7, <3>1, <3>2 DEF GroupInv
  <2> QED BY <2>1, <2>5, <2>6, <2>8, <2>9, <2>10 DEF IInv
<1> QED BY <1>2, <1>3

\* coding_tree_unit: the second tree, or the end.
LEMMA EndOfTreeKeeps ==
  ASSUME IInv, EndOfTree
  PROVE  IInv'
<1>1. /\ pc = "return" /\ calls = <<>> /\ parts' = parts /\ calls' = calls /\ cfg' = cfg
      /\ qgStart' = qgStart /\ group' = group
      /\ \/ ~IsJoint(cfg) /\ cur' = "CHROMA" /\ pc' = "tree"
         \/ cur' = cur /\ pc' = "done"
  BY DEF EndOfTree
<1>2. "CHROMA" \in Channels /\ "LUMA" \in Channels BY DEF Channels
<1>3. ~InItsChroma(calls) /\ ~Alternates(calls) /\ Len(calls) = 0
  BY <1>1, EmptyIsSeq DEF InItsChroma, Alternates
<1>4. \A ch \in Channels : Len(parts[ch].stack) = 1
  <2>1. Len(parts[cur].stack) = 1 + 0 - 0 BY <1>3 DEF IInv, LengthInv
  <2> QED BY <1>3, <2>1 DEF IInv, LengthInv
<1>5. CallsOK(calls', cur') BY <1>1, EmptyIsSeq DEF CallsOK
<1>6. LengthInv'
  <2>1. cur' \in Channels BY <1>1, <1>2 DEF IInv
  <2>2. \A ch \in Channels : Len(parts'[ch].stack) = 1 + Len(calls') - 0 /\ Len(parts'[ch].stack) = 1
    BY <1>1, <1>3, <1>4
  <2>3. ~InItsChroma(calls') /\ ~Alternates(calls') /\ calls' = <<>> BY <1>1, <1>3
  <2>4. calls' = <<>> /\ IsJoint(cfg') /\ pc' = "tree" => cur' = "LUMA" BY <1>1
  <2> QED BY <2>1, <2>2, <2>3, <2>4 DEF LengthInv
<1>7. GroupInv'
  <2>1. /\ group = [c \in Channels |-> group[c]] /\ qgStart \in [Channels -> BOOLEAN]
        /\ ~qgStart["LUMA"] /\ parts["CHROMA"].chType = "CHROMA" /\ parts["LUMA"].chType = "LUMA"
        /\ ~Top(parts["LUMA"]).qgEnable => group["LUMA"] = parts["LUMA"].qgPos
    BY <1>1, <1>3 DEF IInv, GroupInv
  <2> QED BY <1>1, <1>3, <2>1 DEF GroupInv
<1> QED BY <1>1, <1>2, <1>5, <1>6, <1>7 DEF IInv, PartsOK

\* Every step of the walk keeps the invariant.
LEMMA StepKeeps ==
  ASSUME IInv, [Next]_vars
  PROVE  IInv'
<1>1. CASE SplitJointly BY <1>1, SplitJointlyKeeps
<1>2. CASE CodeUnit BY <1>2, CodeUnitKeeps
<1>3. CASE \E split \in Splits : SplitNode(split) BY <1>3, SplitNodeKeeps
<1>4. CASE NextNodePart BY <1>4, NextNodePartKeeps
<1>5. CASE ExitNode BY <1>5, ExitNodeKeeps
<1>6. CASE Recover BY <1>6, RecoverKeeps
<1>7. CASE LumaThenChroma BY <1>7, LumaThenChromaKeeps
<1>8. CASE NextJointPart BY <1>8, NextJointPartKeeps
<1>9. CASE ExitJointly BY <1>9, ExitJointlyKeeps
<1>10. CASE EndOfTree BY <1>10, EndOfTreeKeeps
<1>11. CASE Finished BY <1>11, StutteringKeeps DEF Finished
<1>12. CASE UNCHANGED vars BY <1>12, StutteringKeeps
<1> QED BY <1>1, <1>2, <1>3, <1>4, <1>5, <1>6, <1>7, <1>8, <1>9, <1>10, <1>11, <1>12 DEF Next

\* The invariant holds throughout the walk.
LEMMA IInvAlways == Spec => []IInv
<1>1. Init => IInv BY InitKeeps
<1>2. IInv /\ [Next]_vars => IInv' BY StepKeeps
<1> QED BY <1>1, <1>2, PTL DEF Spec

\* Whatever splits are taken in whatever tree, the depths of a partitioner count the
\* splits on its stack, the group of QP begins where the deepest level that may begin
\* one is now, and both are back at the unit when the walk ends (splitCurrArea,
\* nextPart, exitCurrSplit).
THEOREM PartitionerMatchesItsStackAlways == Spec => []PartitionerMatchesItsStack
<1>1. IInv => PartitionerMatchesItsStack
  <2> SUFFICES ASSUME IInv, NEW ch \in Channels
               PROVE  MatchesItsStack(parts[ch]) /\ (pc = "done" => Len(parts[ch].stack) = 1)
    BY DEF PartitionerMatchesItsStack
  <2>1. MatchesItsStack(parts[ch]) BY DEF IInv, PartsOK, PartOK
  <2>2. ASSUME pc = "done" PROVE Len(parts[ch].stack) = 1
    <3>1. calls = <<>> BY <2>2 DEF IInv, LengthInv
    <3>2. ~InItsChroma(calls) /\ ~Alternates(calls) /\ Len(calls) = 0
      BY <3>1, EmptyIsSeq DEF InItsChroma, Alternates
    <3>3. Len(parts[cur].stack) = 1 + 0 - 0 BY <3>2 DEF IInv, LengthInv
    <3> QED BY <3>2, <3>3 DEF IInv, LengthInv
  <2> QED BY <2>1, <2>2
<1> QED BY <1>1, IInvAlways, PTL

\* The CHECKs of exitCurrSplit, of the depths and of the parent's implicit split, hold
\* at every way out of a split.
ExitsSucceed ==
  /\ InLoop("node") /\ ~HasNextPart(parts[cur]) => ~ExitFails(parts[cur])
  /\ InLoop("joint") => \A ch \in Channels : ~ExitFails(parts[ch])

\* The depths count the splits that are left.
LEMMA ExitsFailNever ==
  ASSUME IInv
  PROVE  ExitsSucceed
<1>1. ASSUME InLoop("node"), ~HasNextPart(parts[cur]) PROVE ~ExitFails(parts[cur])
  <2>1. PartOK(parts[cur]) /\ Len(parts[cur].stack) = 1 + Len(calls) /\ Len(calls) \in Nat
        /\ Len(calls) > 0
    BY <1>1, LoopFacts DEF InLoop
  <2>2. Len(parts[cur].stack) > 1 BY <2>1
  <2> QED BY <1>1, <2>1, <2>2, ExitOK
<1>2. ASSUME InLoop("joint"), NEW ch \in Channels PROVE ~ExitFails(parts[ch])
  <2>1. PartOK(parts[ch]) /\ Len(parts[ch].stack) = 2 /\ parts[ch].stack[2].split = "QUAD"
    BY <1>2, AlternatingFacts
  <2>2. Len(parts[ch].stack) > 1 /\ Top(parts[ch]).split = "QUAD" BY <2>1 DEF Top, Last
  <2> QED BY <2>1, <2>2, ExitOK
<1> QED BY <1>1, <1>2 DEF ExitsSucceed

\* exitCurrSplit never throws, whatever was split.
THEOREM ExitsSucceedAlways == Spec => []ExitsSucceed
<1>1. IInv => ExitsSucceed BY ExitsFailNever
<1> QED BY <1>1, IInvAlways, PTL

\* Every unit of luma has the QP predicted where its quantisation group begins, and a
\* unit of a chroma tree predicts none (coding_unit, CodingStructure::addCU).
THEOREM UnitsShareTheirGroupsQpAlways == Spec => UnitsShareTheirGroupsQp
<1>1. ASSUME IInv, CodeUnit, pc' # "aborted"
      PROVE  IF part.chType = "LUMA" THEN group'[cur] = part.qgPos
             ELSE cur = "LUMA" => group' = group
  <2>1. group' = [group EXCEPT ![cur] = IF Starts[cur] THEN <<area.x, area.y>> ELSE @]
    BY <1>1 DEF CodeUnit, Abort
  <2> QED BY <1>1, <2>1, CodeUnitsGroup
<1>2. IInv /\ [Next]_vars =>
        [CodeUnit /\ pc' # "aborted" =>
           IF part.chType = "LUMA" THEN group'[cur] = part.qgPos
           ELSE cur = "LUMA" => group' = group]_vars
  BY <1>1
<1> QED BY <1>2, IInvAlways, PTL DEF Spec, UnitsShareTheirGroupsQp
-----------------------------------------------------------------------------
(* The sizes of blocks.                                                    *)

Sizes == {4, 8, 16, 32, 64, 128}

\* Halves and quarters.
LEMMA HalfSize ==
  ASSUME NEW s \in Sizes
  PROVE  /\ s \in Nat /\ s >= 4 /\ s \div 2 \in Nat /\ s \div 4 \in Nat /\ 2 * (s \div 2) = s /\ 4 * (s \div 4) = s
         /\ s \div 2 >= 4 => s \div 2 \in Sizes /\ s >= 8
         /\ s \div 4 >= 4 => s \div 4 \in Sizes /\ s \div 2 \in Sizes /\ s >= 16
         /\ s > 4 => s >= 8
         /\ s > 8 => s >= 16
         /\ s >= 8 => s \div 2 >= 4
         /\ s >= 16 => s \div 2 >= 8
BY DEF Sizes

\* A block that crosses the border is not small: the border is at a multiple of 8.
LEMMA CrossingIsLarge ==
  ASSUME NEW x \in Nat, NEW s \in Sizes, s >= 8, x % s = 0, NEW border \in Nat, border % 8 = 0,
         x < border, x + s > border
  PROVE  s >= 16
<1>1. s = 8 => x % 8 = 0 OBVIOUS
<1>2. s # 8 => s >= 16 BY DEF Sizes
<1>3. s # 8
  <2> SUFFICES ASSUME s = 8 PROVE FALSE OBVIOUS
  <2>1. x % 8 = 0 /\ x + 8 > border BY <1>1
  <2> QED BY <2>1
<1> QED BY <1>2, <1>3

\* The halves of an aligned block are aligned.
LEMMA HalvesAlign ==
  ASSUME NEW x \in Nat, NEW s \in Sizes, x % s = 0
  PROVE  x % (s \div 2) = 0 /\ (x + s \div 2) % (s \div 2) = 0
<1>1. CASE s = 4 BY <1>1
<1>2. CASE s = 8 BY <1>2
<1>3. CASE s = 16 BY <1>3
<1>4. CASE s = 32 BY <1>4
<1>5. CASE s = 64 BY <1>5
<1>6. CASE s = 128 BY <1>6
<1> QED BY <1>1, <1>2, <1>3, <1>4, <1>5, <1>6 DEF Sizes

\* What is said of products, said of the sizes.
LEMMA Products ==
  ASSUME NEW w \in Sizes, NEW h \in Sizes
  PROVE  /\ w * h >= 32 <=> w >= 8 \/ h >= 8
         /\ w * h > 16 <=> w >= 8 \/ h >= 8
         /\ w * h = 32 <=> (w = 4 /\ h = 8) \/ (w = 8 /\ h = 4)
         /\ w * h = 64 <=> (w = 4 /\ h = 16) \/ (w = 8 /\ h = 8) \/ (w = 16 /\ h = 4)
<1>1. CASE w = 4 BY <1>1 DEF Sizes
<1>2. CASE w = 8 BY <1>2 DEF Sizes
<1>3. CASE w = 16 BY <1>3 DEF Sizes
<1>4. CASE w = 32 BY <1>4 DEF Sizes
<1>5. CASE w = 64 BY <1>5 DEF Sizes
<1>6. CASE w = 128 BY <1>6 DEF Sizes
<1> QED BY <1>1, <1>2, <1>3, <1>4, <1>5, <1>6 DEF Sizes

\* The areas signalModeCons compares, of the smallest part: for halves and quarters.
LEMMA LumaAreas ==
  ASSUME NEW w \in Sizes, NEW h \in Sizes
  PROVE  /\ ((w * h) \div 2) \div 4 >= 16 <=> w * h >= 128
         /\ ((w * h) \div 4) \div 4 >= 16 <=> w * h >= 256
         /\ (w * h) \div 2 < 32 <=> w * h < 64
         /\ (w * h) \div 4 < 32 <=> w * h < 128
<1>1. w * h \in Nat BY DEF Sizes
<1> DEFINE n == w * h
<1> HIDE DEF n
<1>2. n \in Nat BY <1>1 DEF n
<1>3. /\ (n \div 2) \div 4 >= 16 <=> n >= 128
      /\ (n \div 4) \div 4 >= 16 <=> n >= 256
      /\ n \div 2 < 32 <=> n < 64
      /\ n \div 4 < 32 <=> n < 128
  BY <1>2
<1> QED BY <1>3 DEF n

\* The same for what it compares them with.
LEMMA LargerProducts ==
  ASSUME NEW w \in Sizes, NEW h \in Sizes
  PROVE  /\ w * h >= 64 <=> w >= 16 \/ h >= 16 \/ (w >= 8 /\ h >= 8)
         /\ w * h >= 128 <=> w >= 32 \/ h >= 32 \/ (w >= 16 /\ h >= 8) \/ (w >= 8 /\ h >= 16)
         /\ w * h >= 256 <=> w >= 64 \/ h >= 64 \/ (w >= 32 /\ h >= 8) \/ (w >= 16 /\ h >= 16)
                             \/ (w >= 8 /\ h >= 32)
         /\ (w \div 2) * (h \div 2) >= 16 <=> w * h >= 64
         /\ (w \div 2) * (h \div 2) > 16 <=> w * h >= 128
         /\ (w \div 2) * (h \div 2) > 32 <=> w * h >= 256
<1>1. CASE w = 4 BY <1>1 DEF Sizes
<1>2. CASE w = 8 BY <1>2 DEF Sizes
<1>3. CASE w = 16 BY <1>3 DEF Sizes
<1>4. CASE w = 32 BY <1>4 DEF Sizes
<1>5. CASE w = 64 BY <1>5 DEF Sizes
<1>6. CASE w = 128 BY <1>6 DEF Sizes
<1> QED BY <1>1, <1>2, <1>3, <1>4, <1>5, <1>6 DEF Sizes

\* What a part of a split is: the halves or quarters along one dimension.
IsHalf(at, size, b, s) == s = size \div 2 /\ b \in {at, at + size \div 2}
IsThird(at, size, b, s) ==
  \/ s = size \div 4 /\ b \in {at, at + 3 * (size \div 4)}
  \/ s = size \div 2 /\ b = at + size \div 4

IsPart(a, split, b) ==
  /\ IF split \in {"QUAD", "VERT"} THEN IsHalf(a.x, a.w, b.x, b.w)
     ELSE IF split = "TRIV" THEN IsThird(a.x, a.w, b.x, b.w) ELSE b.x = a.x /\ b.w = a.w
  /\ IF split \in {"QUAD", "HORZ"} THEN IsHalf(a.y, a.h, b.y, b.h)
     ELSE IF split = "TRIH" THEN IsThird(a.y, a.h, b.y, b.h) ELSE b.y = a.y /\ b.h = a.h

\* getCUSubPartitions.
LEMMA SubAreasAreParts ==
  ASSUME NEW a, NEW split \in Splits
  PROVE  \A i \in 1 .. Len(SubAreas(a, split)) :
           /\ SubAreas(a, split)[i] \in Range(SubAreas(a, split))
           /\ IsPart(a, split, SubAreas(a, split)[i])
<1> DEFINE xs == CASE split \in {"QUAD", "VERT"} -> Halves(a.x, a.w)
                   [] split = "TRIV" -> Thirds(a.x, a.w)
                   [] OTHER -> Whole(a.x, a.w)
           ys == CASE split \in {"QUAD", "HORZ"} -> Halves(a.y, a.h)
                   [] split = "TRIH" -> Thirds(a.y, a.h)
                   [] OTHER -> Whole(a.y, a.h)
           areas == SubAreas(a, split)
           n == Len(xs) * Len(ys)
           XP(k) == IF split \in {"QUAD", "VERT"} THEN IsHalf(a.x, a.w, xs[k].at, xs[k].size)
                    ELSE IF split = "TRIV" THEN IsThird(a.x, a.w, xs[k].at, xs[k].size)
                    ELSE xs[k].at = a.x /\ xs[k].size = a.w
           YP(k) == IF split \in {"QUAD", "HORZ"} THEN IsHalf(a.y, a.h, ys[k].at, ys[k].size)
                    ELSE IF split = "TRIH" THEN IsThird(a.y, a.h, ys[k].at, ys[k].size)
                    ELSE ys[k].at = a.y /\ ys[k].size = a.h
<1>1. Len(xs) \in {1, 2, 3} /\ \A k \in 1 .. Len(xs) : XP(k)
  <2>1. CASE split \in {"QUAD", "VERT"}
    <3>1. xs = Halves(a.x, a.w) BY <2>1
    <3> HIDE DEF xs
    <3>2. Len(xs) = 2 /\ 1 .. 2 = {1, 2} BY <3>1 DEF Halves
    <3>3. XP(1) /\ XP(2) BY <2>1, <3>1 DEF Halves, IsHalf
    <3> HIDE DEF XP
    <3> QED BY <3>2, <3>3
  <2>2. CASE split = "TRIV"
    <3>1. xs = Thirds(a.x, a.w) BY <2>2
    <3> HIDE DEF xs
    <3>2. Len(xs) = 3 /\ 1 .. 3 = {1, 2, 3} BY <3>1 DEF Thirds
    <3>3. XP(1) /\ XP(2) /\ XP(3) BY <2>2, <3>1 DEF Thirds, IsThird
    <3> HIDE DEF XP
    <3> QED BY <3>2, <3>3
  <2>3. CASE split \notin {"QUAD", "VERT", "TRIV"}
    <3>1. xs = Whole(a.x, a.w) BY <2>3
    <3> HIDE DEF xs
    <3>2. Len(xs) = 1 /\ 1 .. 1 = {1} BY <3>1 DEF Whole
    <3>3. XP(1) BY <2>3, <3>1 DEF Whole
    <3> HIDE DEF XP
    <3> QED BY <3>2, <3>3
  <2> QED BY <2>1, <2>2, <2>3
<1>2. Len(ys) \in {1, 2, 3} /\ \A k \in 1 .. Len(ys) : YP(k)
  <2>1. CASE split \in {"QUAD", "HORZ"}
    <3>1. ys = Halves(a.y, a.h) BY <2>1
    <3> HIDE DEF ys
    <3>2. Len(ys) = 2 /\ 1 .. 2 = {1, 2} BY <3>1 DEF Halves
    <3>3. YP(1) /\ YP(2) BY <2>1, <3>1 DEF Halves, IsHalf
    <3> HIDE DEF YP
    <3> QED BY <3>2, <3>3
  <2>2. CASE split = "TRIH"
    <3>1. ys = Thirds(a.y, a.h) BY <2>2
    <3> HIDE DEF ys
    <3>2. Len(ys) = 3 /\ 1 .. 3 = {1, 2, 3} BY <3>1 DEF Thirds
    <3>3. YP(1) /\ YP(2) /\ YP(3) BY <2>2, <3>1 DEF Thirds, IsThird
    <3> HIDE DEF YP
    <3> QED BY <3>2, <3>3
  <2>3. CASE split \notin {"QUAD", "HORZ", "TRIH"}
    <3>1. ys = Whole(a.y, a.h) BY <2>3
    <3> HIDE DEF ys
    <3>2. Len(ys) = 1 /\ 1 .. 1 = {1} BY <3>1 DEF Whole
    <3>3. YP(1) BY <2>3, <3>1 DEF Whole
    <3> HIDE DEF YP
    <3> QED BY <3>2, <3>3
  <2> QED BY <2>1, <2>2, <2>3
<1> HIDE DEF xs, ys
<1>3. areas = [i \in 1 .. n |-> [x |-> xs[((i - 1) % Len(xs)) + 1].at,
                                 y |-> ys[((i - 1) \div Len(xs)) + 1].at,
                                 w |-> xs[((i - 1) % Len(xs)) + 1].size,
                                 h |-> ys[((i - 1) \div Len(xs)) + 1].size]]
  BY DEF SubAreas, xs, ys
<1>4. n \in Nat /\ \A i \in 1 .. n : /\ ((i - 1) % Len(xs)) + 1 \in 1 .. Len(xs)
                                    /\ ((i - 1) \div Len(xs)) + 1 \in 1 .. Len(ys)
  <2>1. ASSUME NEW p \in {1, 2, 3}, NEW q \in {1, 2, 3}
        PROVE  p * q \in Nat /\ \A i \in 1 .. p * q : /\ ((i - 1) % p) + 1 \in 1 .. p
                                                     /\ ((i - 1) \div p) + 1 \in 1 .. q
    <3>1. CASE p = 1 BY <3>1
    <3>2. CASE p = 2 BY <3>2
    <3>3. CASE p = 3 BY <3>3
    <3> QED BY <3>1, <3>2, <3>3
  <2> QED BY <1>1, <1>2, <2>1
<1>5. Len(areas) = n /\ DOMAIN areas = 1 .. n
  <2> DEFINE S == {areas[i] : i \in 1 .. n}
  <2>2. DOMAIN areas = 1 .. n /\ areas = [i \in 1 .. n |-> areas[i]] BY <1>3
  <2> HIDE DEF areas, n
  <2>3. areas \in [1 .. n -> S] BY <2>2
  <2> HIDE DEF S
  <2>1. areas \in Seq(S) BY <1>4, <2>3
  <2> QED BY <1>4, <2>1, <2>2
<1> HIDE DEF n
<1>6. ASSUME NEW i \in 1 .. n
      PROVE  areas[i] \in Range(areas) /\ IsPart(a, split, areas[i])
  <2> DEFINE k == ((i - 1) % Len(xs)) + 1
             l == ((i - 1) \div Len(xs)) + 1
  <2>1. XP(k) /\ YP(l)
    <3>1. k \in 1 .. Len(xs) /\ l \in 1 .. Len(ys) BY <1>4
    <3> HIDE DEF k, l, XP, YP
    <3> QED BY <1>1, <1>2, <3>1
  <2>2. areas[i].x = xs[k].at /\ areas[i].y = ys[l].at /\ areas[i].w = xs[k].size /\ areas[i].h = ys[l].size
    BY <1>3
  <2>3. areas[i] \in Range(areas) BY <1>5 DEF Range
  <2> HIDE DEF k, l, areas
  <2> QED BY <2>1, <2>2, <2>3 DEF IsPart
<1> HIDE DEF areas
<1> QED BY <1>5, <1>6 DEF areas

-----------------------------------------------------------------------------
(* The invariant of the blocks: which sizes and places they have under the   *)
(* mode of prediction that holds where they were split.                      *)

Modes == {"ALL", "INTER", "INTRA"}

CtuArea(c) == [x |-> c.ctuX, y |-> c.ctuY, w |-> c.ctu, h |-> c.ctu]

Crosses(c, a) == a.x + a.w > c.width \/ a.y + a.h > c.height

\* Only splits in halves lead to a block that crosses the border.
PlaceOK(c, a) ==
  /\ a.x \in Nat /\ a.y \in Nat /\ a.w \in Sizes /\ a.h \in Sizes
  /\ Crosses(c, a) => a.x % a.w = 0 /\ a.y % a.h = 0 /\ a.w >= 8 /\ a.h >= 8

ChromaFits(a) == ChromaWidth(a) >= 4 /\ ChromaSize(a) >= 16

\* ch is the partitioner, m the mode type: where both channels are coded, or chroma
\* in a tree of its own, the block of chroma is large enough; where all units are
\* inter, none has 4 x 4 samples.
AreaOK(c, ch, a, m) ==
  /\ PlaceOK(c, a)
  /\ m = "ALL" /\ (c.dual => ch = "CHROMA") => ChromaFits(a)
  /\ m = "INTER" => a.w * a.h >= 32

\* A level of the stack: all its parts, and what is remembered of the current one.
LevelShape(c, ch, level, m) ==
  /\ \A i \in 1 .. Len(level.parts) : AreaOK(c, ch, level.parts[i], m)
  /\ level.split \notin MtSplits =>
       m # "INTER" /\ \A i \in 1 .. Len(level.parts) : level.parts[i].w = level.parts[i].h
  /\ level.implicit \in {"UNCHECKED", "NO", "QUAD", "HORZ", "VERT"}
  /\ level.implicit = "NO" => ~Crosses(c, CurrentPart(level))
  /\ level.implicit = "QUAD" => \/ Crosses(c, CurrentPart(level))
                                \/ CurrentPart(level).w > 64 \/ CurrentPart(level).h > 64
  /\ level.implicit = "HORZ" => CurrentPart(level).y + CurrentPart(level).h > c.height
  /\ level.implicit = "VERT" => CurrentPart(level).x + CurrentPart(level).w > c.width

\* The border lies at a multiple of 8.
BorderOK(c) ==
  /\ c.width \in Nat /\ c.height \in Nat /\ c.width % 8 = 0 /\ c.height % 8 = 0

\* The splits of a block that crosses the border are those that the border forces.
BorderAllows(c, a, split) ==
  /\ split = "QUAD" => a.w = a.h
  /\ Crosses(c, a) => split \in {"QUAD", "HORZ", "VERT"}
  /\ Crosses(c, a) /\ split = "HORZ" => a.y + a.h > c.height
  /\ Crosses(c, a) /\ split = "VERT" => a.x + a.w > c.width

\* One dimension of a part.
LEMMA PartInBlock ==
  ASSUME NEW x \in Nat, NEW w \in Sizes, NEW bx, NEW bw \in Sizes,
         IsHalf(x, w, bx, bw) \/ IsThird(x, w, bx, bw) \/ (bx = x /\ bw = w)
  PROVE  bx \in Nat /\ bx + bw <= x + w
BY HalfSize DEF IsHalf, IsThird

\* The parts of a block that crosses the border.
LEMMA HalfOfCrossing ==
  ASSUME NEW x \in Nat, NEW w \in Sizes, x % w = 0, w >= 16, NEW bx, NEW bw, IsHalf(x, w, bx, bw)
  PROVE  bx % bw = 0 /\ bw >= 8
BY HalfSize, HalvesAlign DEF IsHalf

\* The place of a part.
LEMMA PlaceOfPart ==
  ASSUME NEW c, BorderOK(c), NEW a, PlaceOK(c, a), InPicture(c, a.x, a.y),
         NEW split \in Splits, BorderAllows(c, a, split),
         NEW b, IsPart(a, split, b), b.w \in Sizes, b.h \in Sizes
  PROVE  PlaceOK(c, b)
<1> DEFINE x == a.x
           y == a.y
           w == a.w
           h == a.h
           bx == b.x
           by == b.y
           bw == b.w
           bh == b.h
<1>1. x \in Nat /\ y \in Nat /\ w \in Sizes /\ h \in Sizes /\ bw \in Sizes /\ bh \in Sizes
  BY DEF PlaceOK
<1>2. /\ x + w > c.width \/ y + h > c.height => x % w = 0 /\ y % h = 0 /\ w >= 8 /\ h >= 8
      /\ x < c.width /\ y < c.height
      /\ c.width \in Nat /\ c.height \in Nat /\ c.width % 8 = 0 /\ c.height % 8 = 0
  BY DEF PlaceOK, Crosses, InPicture, BorderOK
<1>3. /\ split = "QUAD" => w = h
      /\ x + w > c.width \/ y + h > c.height => split \in {"QUAD", "HORZ", "VERT"}
      /\ (x + w > c.width \/ y + h > c.height) /\ split = "HORZ" => y + h > c.height
      /\ (x + w > c.width \/ y + h > c.height) /\ split = "VERT" => x + w > c.width
  BY DEF BorderAllows, Crosses
<1>4. /\ IsHalf(x, w, bx, bw) \/ IsThird(x, w, bx, bw) \/ (bx = x /\ bw = w)
      /\ IsHalf(y, h, by, bh) \/ IsThird(y, h, by, bh) \/ (by = y /\ bh = h)
      /\ split = "QUAD" => IsHalf(x, w, bx, bw) /\ IsHalf(y, h, by, bh)
      /\ split = "HORZ" => bx = x /\ bw = w /\ IsHalf(y, h, by, bh)
      /\ split = "VERT" => IsHalf(x, w, bx, bw) /\ by = y /\ bh = h
  BY DEF IsPart
<1> HIDE DEF x, y, w, h, bx, by, bw, bh
<1>5. bx \in Nat /\ by \in Nat /\ bx + bw <= x + w /\ by + bh <= y + h
  BY <1>1, <1>4, PartInBlock
<1>6. ASSUME bx + bw > c.width \/ by + bh > c.height
      PROVE  bx % bw = 0 /\ by % bh = 0 /\ bw >= 8 /\ bh >= 8
  <2>1. w \in Nat /\ h \in Nat /\ bw \in Nat /\ bh \in Nat BY <1>1, HalfSize
  <2>2. x + w > c.width \/ y + h > c.height BY <1>2, <1>5, <1>6, <2>1, <1>1
  <2>3. x % w = 0 /\ y % h = 0 /\ w >= 8 /\ h >= 8 BY <1>2, <2>2
  <2>4. x + w > c.width => w >= 16 BY <1>1, <1>2, <2>3, CrossingIsLarge
  <2>5. y + h > c.height => h >= 16 BY <1>1, <1>2, <2>3, CrossingIsLarge
  <2>6. CASE split = "QUAD"
    <3>1. w >= 16 /\ h >= 16 BY <1>3, <2>2, <2>4, <2>5, <2>6
    <3> QED BY <1>1, <1>4, <2>3, <2>6, <3>1, HalfOfCrossing
  <2>7. CASE split = "HORZ"
    <3>1. h >= 16 BY <1>3, <2>2, <2>5, <2>7
    <3>2. by % bh = 0 /\ bh >= 8 BY <1>1, <1>4, <2>3, <2>7, <3>1, HalfOfCrossing
    <3> QED BY <1>4, <2>3, <2>7, <3>2
  <2>8. CASE split = "VERT"
    <3>1. w >= 16 BY <1>3, <2>2, <2>4, <2>8
    <3>2. bx % bw = 0 /\ bw >= 8 BY <1>1, <1>4, <2>3, <2>8, <3>1, HalfOfCrossing
    <3> QED BY <1>4, <2>3, <2>8, <3>2
  <2> QED BY <1>3, <2>2, <2>6, <2>7, <2>8
<1> QED BY <1>1, <1>5, <1>6 DEF PlaceOK, Crosses, x, y, w, h, bx, by, bw, bh

\* Blocks of chroma that are large enough, in luma samples.
LEMMA ChromaFitsIff ==
  ASSUME NEW a, a.w \in Sizes, a.h \in Sizes
  PROVE  ChromaFits(a) <=> a.w >= 8 /\ (a.w >= 16 \/ a.h >= 8)
<1> DEFINE w == a.w
           h == a.h
<1> HIDE DEF w, h
<1>1. w \in Sizes /\ h \in Sizes BY DEF w, h
<1>2. (w \div 2) * (h \div 2) >= 16 <=> w >= 16 \/ h >= 16 \/ (w >= 8 /\ h >= 8)
  BY <1>1, LargerProducts
<1>3. w \div 2 >= 4 <=> w >= 8 BY <1>1, HalfSize
<1>4. w \in Nat /\ h \in Nat BY <1>1, HalfSize
<1>5. (w \div 2 >= 4 /\ (w \div 2) * (h \div 2) >= 16) <=> w >= 8 /\ (w >= 16 \/ h >= 8)
  BY <1>2, <1>3, <1>4
<1> QED BY <1>5 DEF ChromaFits, ChromaWidth, ChromaSize, w, h

\* A split that leaves parts of sizes there are.
LargeEnough(a, split) ==
  /\ split = "QUAD" => a.w >= 8 /\ a.h >= 8
  /\ split = "HORZ" => a.h >= 8
  /\ split = "VERT" => a.w >= 8
  /\ split = "TRIH" => a.h >= 16
  /\ split = "TRIV" => a.w >= 16

\* One that leaves parts with large enough blocks of chroma.
LargeEnoughForChroma(a, split) ==
  /\ split = "QUAD" => a.w >= 16 /\ a.h >= 16
  /\ split = "HORZ" => a.w >= 8 /\ (a.w >= 16 \/ a.h >= 16)
  /\ split = "VERT" => a.w >= 16 /\ (a.w >= 32 \/ a.h >= 8)
  /\ split = "TRIH" => a.w >= 8 /\ (a.w >= 16 \/ a.h >= 32)
  /\ split = "TRIV" => a.w >= 32 /\ (a.w >= 64 \/ a.h >= 8)

\* One that leaves no part of 4 x 4 samples.
LargeEnoughForInter(a, split) ==
  /\ split # "QUAD"
  /\ a.w * a.h >= (IF split \in BtSplits THEN 64 ELSE 128)

\* What canSplit, signalModeCons and the CHECKs of splitCurrArea leave.
SplitFits(c, ch, a, split, m) ==
  /\ BorderAllows(c, a, split) /\ LargeEnough(a, split)
  /\ m = "ALL" /\ (c.dual => ch = "CHROMA") => LargeEnoughForChroma(a, split)
  /\ m = "INTER" => LargeEnoughForInter(a, split)

\* The sizes of a part.
LEMMA PartSizes ==
  ASSUME NEW a, a.w \in Sizes, a.h \in Sizes, NEW split \in Splits, LargeEnough(a, split),
         NEW b, IsPart(a, split, b)
  PROVE  /\ b.w \in Sizes /\ b.h \in Sizes
         /\ split = "QUAD" => b.w = a.w \div 2 /\ b.h = a.h \div 2
         /\ split = "HORZ" => b.w = a.w /\ b.h = a.h \div 2
         /\ split = "VERT" => b.w = a.w \div 2 /\ b.h = a.h
         /\ split = "TRIH" => b.w = a.w /\ b.h \in {a.h \div 4, a.h \div 2}
         /\ split = "TRIV" => b.w \in {a.w \div 4, a.w \div 2} /\ b.h = a.h
<1> DEFINE w == a.w
           h == a.h
           bw == b.w
           bh == b.h
<1>1. /\ split = "QUAD" => bw = w \div 2 /\ bh = h \div 2
      /\ split = "HORZ" => bw = w /\ bh = h \div 2
      /\ split = "VERT" => bw = w \div 2 /\ bh = h
      /\ split = "TRIH" => bw = w /\ bh \in {h \div 4, h \div 2}
      /\ split = "TRIV" => bw \in {w \div 4, w \div 2} /\ bh = h
  BY DEF IsPart, IsHalf, IsThird
<1>2. w \in Sizes /\ h \in Sizes OBVIOUS
<1>3. /\ split = "QUAD" => w >= 8 /\ h >= 8
      /\ split = "HORZ" => h >= 8
      /\ split = "VERT" => w >= 8
      /\ split = "TRIH" => h >= 16
      /\ split = "TRIV" => w >= 16
  BY DEF LargeEnough
<1>4. split \in {"QUAD", "HORZ", "VERT", "TRIH", "TRIV"} BY DEF Splits, MtSplits, BtSplits, TtSplits
<1> HIDE DEF w, h, bw, bh
<1>5. ASSUME NEW s \in Sizes
      PROVE  /\ s >= 8 => s \div 2 \in Sizes
             /\ s >= 16 => s \div 4 \in Sizes /\ s \div 2 \in Sizes
  BY DEF Sizes
<1>6. bw \in Sizes /\ bh \in Sizes BY <1>1, <1>2, <1>3, <1>4, <1>5
<1> QED BY <1>1, <1>6 DEF w, h, bw, bh

\* The parts of such a split are what the mode of prediction demands.
LEMMA PartFits ==
  ASSUME NEW c, BorderOK(c), NEW ch, NEW a, PlaceOK(c, a), InPicture(c, a.x, a.y),
         NEW split \in Splits, NEW m, SplitFits(c, ch, a, split, m),
         NEW b, IsPart(a, split, b)
  PROVE  AreaOK(c, ch, b, m) /\ (split = "QUAD" => b.w = b.h)
<1> DEFINE w == a.w
           h == a.h
           bw == b.w
           bh == b.h
<1>1. w \in Sizes /\ h \in Sizes BY DEF PlaceOK
<1>2. LargeEnough(a, split) /\ BorderAllows(c, a, split) BY DEF SplitFits
<1>3. /\ bw \in Sizes /\ bh \in Sizes
      /\ split = "QUAD" => bw = w \div 2 /\ bh = h \div 2
      /\ split = "HORZ" => bw = w /\ bh = h \div 2
      /\ split = "VERT" => bw = w \div 2 /\ bh = h
      /\ split = "TRIH" => bw = w /\ bh \in {h \div 4, h \div 2}
      /\ split = "TRIV" => bw \in {w \div 4, w \div 2} /\ bh = h
  BY <1>1, <1>2, PartSizes
<1>4. PlaceOK(c, b) BY <1>2, <1>3, PlaceOfPart
<1>5. split = "QUAD" => w = h BY <1>2 DEF BorderAllows
<1>6. split \in {"QUAD", "HORZ", "VERT", "TRIH", "TRIV"} BY DEF Splits, MtSplits, BtSplits, TtSplits
<1>7. ASSUME LargeEnoughForChroma(a, split) PROVE ChromaFits(b)
  <2>1. /\ split = "QUAD" => w >= 16 /\ h >= 16
        /\ split = "HORZ" => w >= 8 /\ (w >= 16 \/ h >= 16)
        /\ split = "VERT" => w >= 16 /\ (w >= 32 \/ h >= 8)
        /\ split = "TRIH" => w >= 8 /\ (w >= 16 \/ h >= 32)
        /\ split = "TRIV" => w >= 32 /\ (w >= 64 \/ h >= 8)
    BY <1>7 DEF LargeEnoughForChroma
  <2> HIDE DEF w, h, bw, bh
  <2>2. w \in Nat /\ h \in Nat BY <1>1, HalfSize
  <2>3. bw >= 8 /\ (bw >= 16 \/ bh >= 8)
    <3>1. CASE split = "QUAD" BY <1>3, <2>1, <2>2, <3>1
    <3>2. CASE split = "HORZ" BY <1>3, <2>1, <2>2, <3>2
    <3>3. CASE split = "VERT" BY <1>3, <2>1, <2>2, <3>3
    <3>4. CASE split = "TRIH" BY <1>3, <2>1, <2>2, <3>4
    <3>5. CASE split = "TRIV" BY <1>3, <2>1, <2>2, <3>5
    <3> QED BY <1>6, <3>1, <3>2, <3>3, <3>4, <3>5
  <2>4. b.w \in Sizes /\ b.h \in Sizes /\ b.w >= 8 /\ (b.w >= 16 \/ b.h >= 8)
    BY <1>3, <2>3 DEF bw, bh
  <2> QED BY <2>4, ChromaFitsIff
<1>8. ASSUME LargeEnoughForInter(a, split) PROVE b.w * b.h >= 32
  <2>1. split # "QUAD" /\ w * h >= (IF split \in BtSplits THEN 64 ELSE 128)
    BY <1>8 DEF LargeEnoughForInter
  <2> HIDE DEF w, h, bw, bh
  <2>2. w \in Nat /\ h \in Nat BY <1>1, HalfSize
  <2>3. /\ w * h >= 64 => w >= 16 \/ h >= 16 \/ (w >= 8 /\ h >= 8)
        /\ w * h >= 128 => w >= 32 \/ h >= 32 \/ (w >= 16 /\ h >= 8) \/ (w >= 8 /\ h >= 16)
    BY <1>1, LargerProducts
  <2>4. bw >= 8 \/ bh >= 8
    <3>1. CASE split = "HORZ" BY <1>3, <2>1, <2>2, <2>3, <3>1 DEF BtSplits
    <3>2. CASE split = "VERT" BY <1>3, <2>1, <2>2, <2>3, <3>2 DEF BtSplits
    <3>3. CASE split = "TRIH" BY <1>3, <2>1, <2>2, <2>3, <3>3 DEF BtSplits
    <3>4. CASE split = "TRIV" BY <1>3, <2>1, <2>2, <2>3, <3>4 DEF BtSplits
    <3> QED BY <1>6, <2>1, <3>1, <3>2, <3>3, <3>4
  <2>5. bw * bh >= 32 BY <1>3, <2>4, Products
  <2> QED BY <2>5 DEF bw, bh
<1>9. AreaOK(c, ch, b, m) BY <1>4, <1>7, <1>8 DEF SplitFits, AreaOK
<1>10. split = "QUAD" => bw = bh
  <2> HIDE DEF w, h, bw, bh
  <2> QED BY <1>3, <1>5
<1> QED BY <1>9, <1>10

\* A block that may be split: the invariant at the top of the stack, and the split
\* chosen for it.
Splittable(c, ch, p, split) ==
  /\ c.minCb \in Nat /\ c.minCb >= 4 /\ BorderOK(c)
  /\ c.dual => p.modeType = "ALL" /\ p.chType = ch
  /\ LevelOK(Top(p)) /\ LevelShape(c, ch, Top(p), p.modeType)
  /\ Top(p).split \in MtSplits => p.mtDepth > 0
  /\ Top(p).implicit \in {"NO", "QUAD", "HORZ", "VERT"} /\ p.treeType # "TREE_C"
  /\ p.modeType \in Modes /\ InPicture(c, Area(p).x, Area(p).y)
  /\ split \in Splits /\ split \in CanSplit(c, p) /\ ~SplitFails(p, split)

\* The part at the top.
LEMMA TopsPart ==
  ASSUME NEW c, NEW ch, NEW p, NEW m, LevelOK(Top(p)), LevelShape(c, ch, Top(p), m)
  PROVE  /\ Area(p) = CurrentPart(Top(p)) /\ AreaOK(c, ch, Area(p), m)
         /\ Top(p).split \notin MtSplits => m # "INTER" /\ Area(p).w = Area(p).h
<1> DEFINE top == Top(p)
           i == top.idx + 1
<1>1. Area(p) = CurrentPart(top) BY DEF Area, Top
<1>2. CurrentPart(top) = top.parts[i] BY DEF CurrentPart
<1> HIDE DEF top
<1>3. LevelOK(top) /\ LevelShape(c, ch, top, m) BY DEF top
<1>4. i \in 1 .. Len(top.parts) BY <1>3 DEF LevelOK
<1> HIDE DEF i
<1>5. /\ AreaOK(c, ch, top.parts[i], m)
      /\ top.split \notin MtSplits => m # "INTER" /\ top.parts[i].w = top.parts[i].h
  BY <1>3, <1>4 DEF LevelShape
<1> QED BY <1>1, <1>2, <1>5 DEF top

\* What canSplit permits.
LEMMA Permits ==
  ASSUME NEW c, NEW p, NEW split \in Splits, split \in CanSplit(c, p), p.treeType # "TREE_C"
  PROVE  IF Top(p).implicit = "NO"
         THEN /\ split = "QUAD" => CanQt(c, p)
              /\ split \in BtSplits => CanBt(c, p, split)
              /\ split \in TtSplits => CanTt(c, p, split)
         ELSE split = "QUAD" \/ (split \in BtSplits /\ split = Top(p).implicit)
<1>1. CASE Top(p).implicit = "NO"
  <2>1. split \in {"NO"} \cup {s \in {"QUAD"} : CanQt(c, p)}
              \cup {s \in BtSplits : CanBtt(c, p) /\ CanBt(c, p, s)}
              \cup {s \in TtSplits : CanBtt(c, p) /\ CanTt(c, p, s)}
    BY <1>1 DEF CanSplit, Top
  <2>2. split # "NO" BY DEF Splits, MtSplits, BtSplits, TtSplits
  <2> QED BY <1>1, <2>1, <2>2 DEF BtSplits, TtSplits
<1>2. CASE Top(p).implicit # "NO"
  <2>1. split \in ForcedSplits(c, p) BY <1>2 DEF CanSplit, Top
  <2> QED BY <1>2, <2>1 DEF ForcedSplits, Top
<1> QED BY <1>1, <1>2

\* A split that the border forces, at least in one direction.
Forced(c, a, split) ==
  /\ split = "QUAD" => Crosses(c, a) \/ a.w > 64 \/ a.h > 64
  /\ split = "HORZ" => a.y + a.h > c.height
  /\ split = "VERT" => a.x + a.w > c.width
  /\ split \in {"QUAD", "HORZ", "VERT"}

\* The border, and the splits it forces.
LEMMA BorderDecides ==
  ASSUME NEW c, NEW ch, NEW p, NEW split, Splittable(c, ch, p, split)
  PROVE  /\ BorderAllows(c, Area(p), split)
         /\ split = "QUAD" => p.modeType # "INTER"
         /\ Top(p).implicit # "NO" => Forced(c, Area(p), split)
<1> DEFINE top == Top(p)
           a == Area(p)
<1>1. /\ a = CurrentPart(top) /\ AreaOK(c, ch, a, p.modeType)
      /\ top.split \notin MtSplits => p.modeType # "INTER" /\ a.w = a.h
  BY TopsPart DEF Splittable
<1>2. IF top.implicit = "NO"
      THEN /\ split = "QUAD" => CanQt(c, p)
           /\ split \in BtSplits => CanBt(c, p, split)
           /\ split \in TtSplits => CanTt(c, p, split)
      ELSE split = "QUAD" \/ (split \in BtSplits /\ split = top.implicit)
  BY Permits DEF Splittable
<1>3. split = "QUAD" => a.w = a.h /\ p.modeType # "INTER"
  <2>1. split = "QUAD" => ~(p.mtDepth > 0) BY DEF Splittable, SplitFails
  <2> QED BY <1>1, <2>1 DEF Splittable
<1>4. /\ top.implicit = "NO" => ~Crosses(c, a)
      /\ top.implicit = "QUAD" => Crosses(c, a) \/ a.w > 64 \/ a.h > 64
      /\ top.implicit = "HORZ" => a.y + a.h > c.height
      /\ top.implicit = "VERT" => a.x + a.w > c.width
      /\ top.implicit \in {"NO", "QUAD", "HORZ", "VERT"}
  BY <1>1 DEF Splittable, LevelShape
<1> HIDE DEF top, a
<1>5. top.implicit # "NO" => Forced(c, a, split)
  <2>1. top.implicit # "NO" => Crosses(c, a) \/ a.w > 64 \/ a.h > 64 BY <1>4 DEF Crosses
  <2> QED BY <1>2, <1>4, <2>1 DEF Forced, BtSplits
<1>6. BorderAllows(c, a, split)
  <2>1. Crosses(c, a) => top.implicit # "NO" BY <1>4
  <2> QED BY <1>3, <1>5, <2>1 DEF BorderAllows, Forced
<1> QED BY <1>3, <1>5, <1>6 DEF top, a

\* A block that the border forces to be split is not small.
LEMMA ForcedIsLarge ==
  ASSUME NEW c, BorderOK(c), NEW a, PlaceOK(c, a), InPicture(c, a.x, a.y),
         NEW split, Forced(c, a, split), split = "QUAD" => a.w = a.h
  PROVE  /\ split = "QUAD" => a.w >= 16 /\ a.h >= 16
         /\ split = "HORZ" => a.w >= 8 /\ a.h >= 16
         /\ split = "VERT" => a.w >= 16 /\ a.h >= 8
<1> DEFINE x == a.x
           y == a.y
           w == a.w
           h == a.h
<1>1. /\ x \in Nat /\ y \in Nat /\ w \in Sizes /\ h \in Sizes /\ x < c.width /\ y < c.height
      /\ x + w > c.width \/ y + h > c.height => x % w = 0 /\ y % h = 0 /\ w >= 8 /\ h >= 8
      /\ c.width \in Nat /\ c.height \in Nat /\ c.width % 8 = 0 /\ c.height % 8 = 0
  BY DEF PlaceOK, Crosses, InPicture, BorderOK
<1>2. /\ split = "QUAD" => (x + w > c.width \/ y + h > c.height) \/ w > 64 \/ h > 64
      /\ split = "HORZ" => y + h > c.height
      /\ split = "VERT" => x + w > c.width
      /\ split = "QUAD" => w = h
  BY DEF Forced, Crosses
<1> HIDE DEF x, y, w, h
<1>3. x + w > c.width => w >= 16 BY <1>1, CrossingIsLarge
<1>4. y + h > c.height => h >= 16 BY <1>1, CrossingIsLarge
<1>5. w \in Nat /\ h \in Nat BY <1>1, HalfSize
<1>6. /\ split = "QUAD" => w >= 16 /\ h >= 16
      /\ split = "HORZ" => w >= 8 /\ h >= 16
      /\ split = "VERT" => w >= 16 /\ h >= 8
  BY <1>1, <1>2, <1>3, <1>4, <1>5
<1> QED BY <1>6 DEF w, h

\* The CHECK of splitCurrArea, and canSplit for the ternary splits.
LEMMA SizesFit ==
  ASSUME NEW c, NEW ch, NEW p, NEW split, Splittable(c, ch, p, split)
  PROVE  LargeEnough(Area(p), split)
<1> DEFINE a == Area(p)
           w == a.w
           h == a.h
           areas == SubAreas(a, split)
           b == areas[1]
<1>1. w \in Sizes /\ h \in Sizes /\ BorderAllows(c, a, split) /\ split \in Splits
  <2>1. AreaOK(c, ch, a, p.modeType) BY TopsPart DEF Splittable
  <2>2. BorderAllows(c, a, split) BY BorderDecides
  <2> QED BY <2>1, <2>2 DEF AreaOK, PlaceOK, Splittable
<1>2. b \in Range(areas) /\ IsPart(a, split, b)
  <2> HIDE DEF a
  <2>1. Len(areas) \in Nat /\ Len(areas) > 0 BY <1>1, SubAreasFacts
  <2>2. 1 \in 1 .. Len(areas) BY <2>1
  <2> QED BY <1>1, <2>2, SubAreasAreParts
<1>3. (IF split \in {"VERT", "TRIV"} THEN b.w ELSE b.h) >= 4
  <2>1. \A d \in Range(areas) : ~((IF split \in {"VERT", "TRIV"} THEN d.w ELSE d.h) < 4)
    BY DEF Splittable, SplitFails, MIN_TB_SIZEY
  <2>2. ~((IF split \in {"VERT", "TRIV"} THEN b.w ELSE b.h) < 4)
    <3> HIDE DEF b, areas
    <3> QED BY <1>2, <2>1
  <2>3. /\ split \in {"QUAD", "HORZ"} => b.h = h \div 2
        /\ split = "VERT" => b.w = w \div 2
        /\ split = "TRIH" => b.h \in {h \div 4, h \div 2}
        /\ split = "TRIV" => b.w \in {w \div 4, w \div 2}
    BY <1>2 DEF IsPart, IsHalf, IsThird
  <2>4. split \in {"QUAD", "HORZ", "VERT", "TRIH", "TRIV"}
    BY <1>1 DEF Splits, MtSplits, BtSplits, TtSplits
  <2> HIDE DEF b, w, h
  <2>5. w \in Nat /\ h \in Nat BY <1>1, HalfSize
  <2>6. (IF split \in {"VERT", "TRIV"} THEN b.w ELSE b.h) \in Nat BY <2>3, <2>4, <2>5
  <2> DEFINE n == IF split \in {"VERT", "TRIV"} THEN b.w ELSE b.h
  <2> HIDE DEF n
  <2>7. n \in Nat /\ ~(n < 4) BY <2>2, <2>6 DEF n
  <2>8. n >= 4 BY <2>7
  <2> QED BY <2>8 DEF n
<1>4. /\ split \in {"QUAD", "HORZ"} => b.h = h \div 2
      /\ split = "VERT" => b.w = w \div 2
  BY <1>2 DEF IsPart, IsHalf
<1>5. /\ split = "TRIH" => h > 2 * c.minCb
      /\ split = "TRIV" => w > 2 * c.minCb
  <2>1. split \in TtSplits => CanTt(c, p, split)
    <3>1. split \in TtSplits => split \notin BtSplits /\ split # "QUAD" BY DEF TtSplits, BtSplits
    <3> QED BY <3>1, Permits DEF Splittable
  <2> QED BY <2>1 DEF CanTt, TtSplits
<1>6. c.minCb \in Nat /\ c.minCb >= 4 BY DEF Splittable
<1>7. split = "QUAD" => w = h BY <1>1 DEF BorderAllows
<1> HIDE DEF w, h, b
<1>8. w \in Nat /\ h \in Nat BY <1>1, HalfSize
<1>9. split \in {"QUAD", "HORZ"} => h >= 8 BY <1>3, <1>4, <1>8
<1>10. split = "VERT" => w >= 8 BY <1>3, <1>4, <1>8
<1>11. split = "TRIH" => h >= 16
  <2>1. split = "TRIH" => h > 8 BY <1>5, <1>6, <1>8
  <2> QED BY <1>1, <2>1, HalfSize
<1>12. split = "TRIV" => w >= 16
  <2>1. split = "TRIV" => w > 8 BY <1>5, <1>6, <1>8
  <2> QED BY <1>1, <2>1, HalfSize
<1>13. LargeEnough(a, split) BY <1>7, <1>9, <1>10, <1>11, <1>12 DEF LargeEnough, w, h
<1> QED BY <1>13

\* What signalModeCons leaves of a block where both modes were possible, in one tree.
LEMMA ModeDecides ==
  ASSUME NEW c, NEW p, NEW split \in Splits, Area(p).w \in Sizes, Area(p).h \in Sizes,
         NEW m \in ModeTypes(c, p, split)
  PROVE  LET w == Area(p).w
             h == Area(p).h
             narrow == (w = 8 /\ split = "VERT") \/ (w = 16 /\ split = "TRIV")
         IN /\ c.dual \/ p.modeType # "ALL" => m = p.modeType
            /\ ~c.dual /\ m = "ALL" => w * h >= (IF split \in BtSplits THEN 128 ELSE 256) /\ ~narrow
            /\ ~c.dual /\ p.modeType = "ALL" /\ m = "INTER" =>
                 /\ w * h >= (IF split \in BtSplits THEN 64 ELSE 128)
                 /\ w * h < (IF split \in BtSplits THEN 128 ELSE 256) \/ narrow
            /\ m \in {p.modeType, "INTRA", "INTER"}
<1> DEFINE w == Area(p).w
           h == Area(p).h
           narrow == (w = 8 /\ split = "VERT") \/ (w = 16 /\ split = "TRIV")
           least == (w * h) \div (IF split \in BtSplits THEN 2 ELSE 4)
           wide == (w \div 2 = 4 /\ split = "VERT") \/ (w \div 2 = 8 /\ split = "TRIV")
<1>1. IF c.dual \/ p.modeType # "ALL" \/ (least \div 4 >= 16 /\ ~wide)
      THEN m = p.modeType
      ELSE IF least < 32 \/ c.intra THEN m = "INTRA" ELSE m \in {"INTRA", "INTER"}
  BY DEF ModeTypes, ChromaWidth
<1> HIDE DEF w, h
<1>2. w \in Sizes /\ h \in Sizes BY DEF w, h
<1>3. wide <=> narrow
  <2>1. w \div 2 = 4 <=> w = 8 BY <1>2 DEF Sizes
  <2>2. w \div 2 = 8 <=> w = 16 BY <1>2 DEF Sizes
  <2> QED BY <2>1, <2>2
<1> HIDE DEF wide, narrow
<1>4. /\ least \div 4 >= 16 <=> w * h >= (IF split \in BtSplits THEN 128 ELSE 256)
      /\ least < 32 <=> w * h < (IF split \in BtSplits THEN 64 ELSE 128)
  <2>1. CASE split \in BtSplits
    <3>1. least = (w * h) \div 2 BY <2>1
    <3> QED BY <1>2, <2>1, <3>1, LumaAreas
  <2>2. CASE split \notin BtSplits
    <3>1. least = (w * h) \div 4 BY <2>2
    <3> QED BY <1>2, <2>2, <3>1, LumaAreas
  <2> QED BY <2>1, <2>2
<1> HIDE DEF least
<1> DEFINE n == w * h
           low == IF split \in BtSplits THEN 64 ELSE 128
           high == IF split \in BtSplits THEN 128 ELSE 256
<1>5. n \in Nat /\ low \in Nat /\ high \in Nat BY <1>2 DEF Sizes
<1>6. /\ least \div 4 >= 16 <=> n >= high
      /\ least < 32 <=> n < low
  BY <1>4
<1> HIDE DEF n, low, high
<1>7. /\ c.dual \/ p.modeType # "ALL" => m = p.modeType
      /\ ~c.dual /\ m = "ALL" => n >= high /\ ~narrow
      /\ ~c.dual /\ p.modeType = "ALL" /\ m = "INTER" => n >= low /\ (n < high \/ narrow)
      /\ m \in {p.modeType, "INTRA", "INTER"}
  <2>1. CASE c.dual \/ p.modeType # "ALL" \/ (n >= high /\ ~narrow)
    BY <1>1, <1>3, <1>6, <2>1
  <2>2. CASE ~(c.dual \/ p.modeType # "ALL" \/ (n >= high /\ ~narrow))
    <3>1. m \in {"INTRA", "INTER"} /\ (n < low => m = "INTRA") BY <1>1, <1>3, <1>6, <2>2
    <3> QED BY <1>5, <2>2, <3>1
  <2> QED BY <2>1, <2>2
<1> QED BY <1>7 DEF n, low, high, narrow, w, h

\* canSplit and signalModeCons leave blocks of chroma large enough.
LEMMA ChromaSplitFits ==
  ASSUME NEW c, NEW ch, NEW p, NEW split, Splittable(c, ch, p, split),
         NEW m \in ModeTypes(c, p, split), m = "ALL", c.dual => ch = "CHROMA"
  PROVE  LargeEnoughForChroma(Area(p), split)
<1> DEFINE a == Area(p)
           w == a.w
           h == a.h
           narrow == (w = 8 /\ split = "VERT") \/ (w = 16 /\ split = "TRIV")
<1>1. AreaOK(c, ch, a, p.modeType) BY TopsPart DEF Splittable
<1>2. w \in Sizes /\ h \in Sizes /\ PlaceOK(c, a) /\ split \in Splits
  BY <1>1 DEF AreaOK, PlaceOK, Splittable
<1>3. /\ c.dual \/ p.modeType # "ALL" => m = p.modeType
      /\ ~c.dual => w * h >= (IF split \in BtSplits THEN 128 ELSE 256) /\ ~narrow
      /\ m \in {p.modeType, "INTRA", "INTER"}
  BY <1>2, ModeDecides
<1>4. ChromaFits(a)
  <2>1. p.modeType = "ALL" BY <1>3
  <2> HIDE DEF a
  <2> QED BY <1>1, <2>1 DEF AreaOK
<1>5. w >= 8 /\ (w >= 16 \/ h >= 8) BY <1>2, <1>4, ChromaFitsIff
<1>6. /\ split = "QUAD" => w = h
      /\ Top(p).implicit # "NO" => Forced(c, a, split)
  BY BorderDecides DEF BorderAllows
<1>7. Top(p).implicit # "NO" => /\ split = "QUAD" => w >= 16 /\ h >= 16
                                /\ split = "HORZ" => w >= 8 /\ h >= 16
                                /\ split = "VERT" => w >= 16 /\ h >= 8
                                /\ split \in {"QUAD", "HORZ", "VERT"}
  <2>1. BorderOK(c) /\ InPicture(c, a.x, a.y) BY DEF Splittable
  <2>2. Forced(c, a, split) => split \in {"QUAD", "HORZ", "VERT"} BY DEF Forced
  <2> HIDE DEF a
  <2> QED BY <1>2, <1>6, <2>1, <2>2, ForcedIsLarge DEF w, h
<1>8. Top(p).implicit = "NO" => /\ split = "QUAD" => CanQt(c, p)
                                /\ split \in BtSplits => CanBt(c, p, split)
                                /\ split \in TtSplits => CanTt(c, p, split)
  BY Permits DEF Splittable
<1>9. c.dual => p.chType = "CHROMA" BY DEF Splittable
<1>10. Top(p).implicit = "NO" /\ c.dual =>
         /\ split = "QUAD" => w \div 2 > 4
         /\ split \in BtSplits => (w \div 2) * (h \div 2) > 16 /\ (split = "VERT" => w \div 2 # 4)
         /\ split \in TtSplits => (w \div 2) * (h \div 2) > 2 * 16 /\ (split = "TRIV" => w \div 2 # 8)
  BY <1>8, <1>9 DEF CanQt, CanBt, CanTt, ChromaWidth, ChromaSize, MIN_DUALTREE_CHROMA_WIDTH,
                    MIN_DUALTREE_CHROMA_SIZE
<1>11. LargeEnough(a, split) BY SizesFit
<1>12. split = "TRIV" => w >= 16 BY <1>11 DEF LargeEnough
<1>13. split \in {"QUAD", "HORZ", "VERT", "TRIH", "TRIV"}
       /\ BtSplits = {"HORZ", "VERT"} /\ TtSplits = {"TRIH", "TRIV"}
  BY <1>2 DEF Splits, MtSplits, BtSplits, TtSplits
<1> HIDE DEF w, h
<1>14. /\ w * h >= 64 <=> w >= 16 \/ h >= 16 \/ (w >= 8 /\ h >= 8)
       /\ w * h >= 128 <=> w >= 32 \/ h >= 32 \/ (w >= 16 /\ h >= 8) \/ (w >= 8 /\ h >= 16)
       /\ w * h >= 256 <=> w >= 64 \/ h >= 64 \/ (w >= 32 /\ h >= 8) \/ (w >= 16 /\ h >= 16)
                           \/ (w >= 8 /\ h >= 32)
       /\ (w \div 2) * (h \div 2) > 16 <=> w * h >= 128
       /\ (w \div 2) * (h \div 2) > 32 <=> w * h >= 256
  BY <1>2, LargerProducts
<1>15. /\ split \in BtSplits => w * h >= 128 \/ ((split = "HORZ" => h >= 16) /\ (split = "VERT" => w >= 16 /\ h >= 8))
       /\ split \in TtSplits => w * h >= 256
       /\ split = "QUAD" => w \div 2 > 4 \/ w * h >= 256 \/ w >= 16
       /\ split = "VERT" => w # 8
       /\ split = "TRIV" => w # 16
  <2>1. 2 * 16 = 32 OBVIOUS
  <2>2. w = 8 => w \div 2 = 4 OBVIOUS
  <2>3. w = 16 => w \div 2 = 8 OBVIOUS
  <2>4. CASE Top(p).implicit # "NO"
    <3>1. w = 8 => ~(w >= 16) OBVIOUS
    <3> QED BY <1>7, <1>13, <2>4, <3>1
  <2>5. CASE Top(p).implicit = "NO" /\ c.dual BY <1>10, <1>13, <1>14, <2>1, <2>2, <2>3, <2>5
  <2>6. CASE ~c.dual BY <1>3, <1>13, <2>6
  <2> QED BY <2>4, <2>5, <2>6
<1>16. w \in {4, 8, 16, 32, 64, 128} /\ h \in {4, 8, 16, 32, 64, 128} BY <1>2 DEF Sizes
<1> DEFINE wh == w * h
<1> HIDE DEF wh
<1>17. /\ wh >= 128 => w >= 32 \/ h >= 32 \/ (w >= 16 /\ h >= 8) \/ (w >= 8 /\ h >= 16)
       /\ wh >= 256 => w >= 64 \/ h >= 64 \/ (w >= 32 /\ h >= 8) \/ (w >= 16 /\ h >= 16)
                       \/ (w >= 8 /\ h >= 32)
       /\ split \in BtSplits => wh >= 128 \/ ((split = "HORZ" => h >= 16) /\ (split = "VERT" => w >= 16 /\ h >= 8))
       /\ split \in TtSplits => wh >= 256
       /\ split = "QUAD" => w \div 2 > 4 \/ wh >= 256 \/ w >= 16
  BY <1>14, <1>15 DEF wh
<1>18. split = "QUAD" => w >= 16 /\ h >= 16
  <2>1. w \div 2 > 4 => w >= 16 BY <1>16
  <2> QED BY <1>6, <1>16, <1>17, <2>1 DEF w, h
<1>19. split = "HORZ" => w >= 8 /\ (w >= 16 \/ h >= 16) BY <1>5, <1>13, <1>16, <1>17 DEF w, h
<1>20. split = "VERT" => w >= 16 /\ (w >= 32 \/ h >= 8) BY <1>5, <1>13, <1>15, <1>16, <1>17 DEF w, h
<1>21. split = "TRIH" => w >= 8 /\ (w >= 16 \/ h >= 32) BY <1>5, <1>13, <1>16, <1>17 DEF w, h
<1>22. split = "TRIV" => w >= 32 /\ (w >= 64 \/ h >= 8)
  BY <1>12, <1>13, <1>15, <1>16, <1>17 DEF w, h
<1> HIDE DEF a
<1>23. LargeEnoughForChroma(a, split)
  BY <1>18, <1>19, <1>20, <1>21, <1>22 DEF LargeEnoughForChroma, w, h
<1> QED BY <1>23 DEF a

\* canSplit and signalModeCons leave no block of 4 x 4 samples where all units are inter.
LEMMA InterSplitFits ==
  ASSUME NEW c, NEW ch, NEW p, NEW split, Splittable(c, ch, p, split),
         NEW m \in ModeTypes(c, p, split), m = "INTER"
  PROVE  LargeEnoughForInter(Area(p), split)
<1> DEFINE a == Area(p)
           w == a.w
           h == a.h
           low == IF split \in BtSplits THEN 64 ELSE 128
           high == IF split \in BtSplits THEN 128 ELSE 256
           narrow == (w = 8 /\ split = "VERT") \/ (w = 16 /\ split = "TRIV")
<1>1. AreaOK(c, ch, a, p.modeType) BY TopsPart DEF Splittable
<1>2. w \in Sizes /\ h \in Sizes /\ PlaceOK(c, a) /\ split \in Splits
  BY <1>1 DEF AreaOK, PlaceOK, Splittable
<1>3. /\ c.dual \/ p.modeType # "ALL" => m = p.modeType
      /\ ~c.dual /\ p.modeType = "ALL" => w * h >= low /\ (w * h < high \/ narrow)
  BY <1>2, ModeDecides
<1>4. (c.dual => p.modeType = "ALL") /\ p.modeType \in Modes BY DEF Splittable
<1>5. ~c.dual BY <1>3, <1>4
<1>6. /\ split = "QUAD" => w = h /\ p.modeType # "INTER"
      /\ Top(p).implicit # "NO" => Forced(c, a, split)
  BY BorderDecides DEF BorderAllows
<1>7. Top(p).implicit # "NO" => /\ split = "HORZ" => w >= 8 /\ h >= 16
                                /\ split = "VERT" => w >= 16 /\ h >= 8
                                /\ split \in {"QUAD", "HORZ", "VERT"}
  <2>1. BorderOK(c) /\ InPicture(c, a.x, a.y) BY DEF Splittable
  <2>2. Forced(c, a, split) => split \in {"QUAD", "HORZ", "VERT"} BY DEF Forced
  <2> HIDE DEF a
  <2> QED BY <1>2, <1>6, <2>1, <2>2, ForcedIsLarge DEF w, h
<1>8. Top(p).implicit = "NO" /\ p.modeType = "INTER" =>
        /\ split \in BtSplits => w * h # 32
        /\ split \in TtSplits => w * h # 64
  <2>1. Top(p).implicit = "NO" => /\ split \in BtSplits => CanBt(c, p, split)
                                  /\ split \in TtSplits => CanTt(c, p, split)
    BY Permits DEF Splittable
  <2> QED BY <2>1 DEF CanBt, CanTt
<1>9. split = "TRIV" => w >= 16
  <2>1. LargeEnough(a, split) BY SizesFit
  <2> QED BY <2>1 DEF LargeEnough
<1>10. split = "TRIH" => h >= 16
  <2>1. LargeEnough(a, split) BY SizesFit
  <2> QED BY <2>1 DEF LargeEnough
<1>11. split \in {"QUAD", "HORZ", "VERT", "TRIH", "TRIV"}
       /\ BtSplits = {"HORZ", "VERT"} /\ TtSplits = {"TRIH", "TRIV"}
  BY <1>2 DEF Splits, MtSplits, BtSplits, TtSplits
<1>12. p.modeType = "INTER" => w * h >= 32 BY <1>1 DEF AreaOK
<1> HIDE DEF w, h
<1>13. w \in {4, 8, 16, 32, 64, 128} /\ h \in {4, 8, 16, 32, 64, 128} BY <1>2 DEF Sizes
<1>14. /\ w * h >= 64 <=> w >= 16 \/ h >= 16 \/ (w >= 8 /\ h >= 8)
       /\ w * h >= 128 <=> w >= 32 \/ h >= 32 \/ (w >= 16 /\ h >= 8) \/ (w >= 8 /\ h >= 16)
       /\ w * h >= 256 <=> w >= 64 \/ h >= 64 \/ (w >= 32 /\ h >= 8) \/ (w >= 16 /\ h >= 16)
                           \/ (w >= 8 /\ h >= 32)
  BY <1>2, LargerProducts
<1>15. /\ w * h >= 32 <=> w >= 8 \/ h >= 8
       /\ w * h = 32 <=> (w = 4 /\ h = 8) \/ (w = 8 /\ h = 4)
       /\ w * h = 64 <=> (w = 4 /\ h = 16) \/ (w = 8 /\ h = 8) \/ (w = 16 /\ h = 4)
  BY <1>2, Products
<1>16. split # "QUAD"
  <2> SUFFICES ASSUME split = "QUAD" PROVE FALSE OBVIOUS
  <2>1. p.modeType = "ALL"
    <3>1. p.modeType \in {"ALL", "INTER", "INTRA"} BY <1>4 DEF Modes
    <3>2. p.modeType # "ALL" => m = p.modeType BY <1>3
    <3> QED BY <1>6, <3>1, <3>2
  <2>2. low = 128 /\ high = 256 /\ ~narrow BY <1>11
  <2>3. w * h >= 128 /\ w * h < 256 BY <1>3, <1>5, <2>1, <2>2
  <2>4. w * h \in Nat BY <1>13
  <2>5. ~(w * h >= 256) BY <2>3, <2>4
  <2>6. w = h BY <1>6 DEF w, h
  <2>7. w >= 16 /\ h >= 16 BY <1>13, <1>14, <2>3, <2>6
  <2> QED BY <1>14, <2>5, <2>7
<1>17. w * h >= low
  <2>1. CASE p.modeType = "ALL" BY <1>3, <1>5, <2>1
  <2>2. CASE p.modeType # "ALL"
    <3>1. p.modeType = "INTER" BY <1>3, <2>2
    <3>2. CASE Top(p).implicit # "NO"
      <4>1. split \in BtSplits BY <1>7, <1>11, <1>16, <3>2
      <4>2. w >= 16 \/ h >= 16 BY <1>7, <1>11, <3>2, <4>1 DEF w, h
      <4>3. w * h >= 64 BY <1>14, <4>2
      <4> QED BY <4>1, <4>3
    <3>3. CASE Top(p).implicit = "NO"
      <4>1. CASE split \in BtSplits
        <5>1. w >= 8 \/ h >= 8 BY <1>12, <1>15, <3>1 DEF w, h
        <5>2. ~((w = 4 /\ h = 8) \/ (w = 8 /\ h = 4)) BY <1>8, <1>15, <3>1, <3>3, <4>1 DEF w, h
        <5>3. w >= 16 \/ h >= 16 \/ (w >= 8 /\ h >= 8) BY <1>13, <5>1, <5>2
        <5>4. w * h >= 64 BY <1>14, <5>3
        <5> QED BY <4>1, <5>4
      <4>2. CASE split \notin BtSplits
        <5>1. split \in TtSplits BY <1>11, <1>16, <4>2
        <5>2. w >= 16 \/ h >= 16 BY <1>9, <1>10, <1>11, <5>1 DEF w, h
        <5>3. ~((w = 4 /\ h = 16) \/ (w = 8 /\ h = 8) \/ (w = 16 /\ h = 4))
          BY <1>8, <1>15, <3>1, <3>3, <5>1 DEF w, h
        <5>4. w >= 32 \/ h >= 32 \/ (w >= 16 /\ h >= 8) \/ (w >= 8 /\ h >= 16) BY <1>13, <5>2, <5>3
        <5>5. w * h >= 128 BY <1>14, <5>4
        <5> QED BY <4>2, <5>5
      <4> QED BY <4>1, <4>2
    <3> QED BY <3>2, <3>3
  <2> QED BY <2>1, <2>2
<1> QED BY <1>16, <1>17 DEF LargeEnoughForInter, w, h

\* All parts of a split are what the mode of prediction demands.
LEMMA PartsFit ==
  ASSUME NEW c, NEW ch, NEW p, NEW split, Splittable(c, ch, p, split),
         NEW m \in ModeTypes(c, p, split)
  PROVE  \A i \in 1 .. Len(SubAreas(Area(p), split)) :
           /\ AreaOK(c, ch, SubAreas(Area(p), split)[i], m)
           /\ split = "QUAD" => /\ m # "INTER"
                                /\ SubAreas(Area(p), split)[i].w = SubAreas(Area(p), split)[i].h
<1> DEFINE a == Area(p)
<1>1. SplitFits(c, ch, a, split, m)
  <2>1. BorderAllows(c, a, split) BY BorderDecides
  <2>2. LargeEnough(a, split) BY SizesFit
  <2>3. m = "ALL" /\ (c.dual => ch = "CHROMA") => LargeEnoughForChroma(a, split) BY ChromaSplitFits
  <2>4. m = "INTER" => LargeEnoughForInter(a, split) BY InterSplitFits
  <2> QED BY <2>1, <2>2, <2>3, <2>4 DEF SplitFits
<1>2. PlaceOK(c, a) /\ InPicture(c, a.x, a.y) /\ BorderOK(c) /\ split \in Splits
  <2>1. AreaOK(c, ch, a, p.modeType) BY TopsPart DEF Splittable
  <2> QED BY <2>1 DEF AreaOK, Splittable
<1>3. split = "QUAD" => m # "INTER" BY <1>1 DEF SplitFits, LargeEnoughForInter
<1> HIDE DEF a
<1>4. ASSUME NEW i \in 1 .. Len(SubAreas(a, split))
      PROVE  /\ AreaOK(c, ch, SubAreas(a, split)[i], m)
             /\ split = "QUAD" => SubAreas(a, split)[i].w = SubAreas(a, split)[i].h
  <2> DEFINE b == SubAreas(a, split)[i]
  <2>1. IsPart(a, split, b) BY <1>2, SubAreasAreParts
  <2> HIDE DEF b
  <2>2. AreaOK(c, ch, b, m) /\ (split = "QUAD" => b.w = b.h) BY <1>1, <1>2, <2>1, PartFits
  <2> QED BY <2>2 DEF b
<1> QED BY <1>3, <1>4 DEF a

-----------------------------------------------------------------------------
(* What the operations of a partitioner do to its stack.                    *)

\* The kinds of tree and of prediction of a partitioner.
SameKinds(p, q) == p.chType = q.chType /\ p.treeType = q.treeType /\ p.modeType = q.modeType

\* AtGroup is about groups only.
LEMMA AtGroupStack ==
  ASSUME NEW q, IsRecord(q, PartFields)
  PROVE  AtGroup(q).stack = q.stack /\ SameKinds(AtGroup(q), q)
<1> DEFINE r == [q EXCEPT !.qgPos = Position(Last(q.stack))]
<1>1. AtGroup(q) = IF Last(q.stack).qgEnable THEN r ELSE q BY DEF AtGroup
<1>2. \A f \in PartFields : f # "qgPos" => r[f] = q[f]
  BY DEF IsRecord, PartFields
<1> HIDE DEF r
<1>3. r.stack = q.stack /\ r.chType = q.chType /\ r.treeType = q.treeType /\ r.modeType = q.modeType
  BY <1>2 DEF PartFields
<1> QED BY <1>1, <1>3 DEF SameKinds

\* splitCurrArea puts the parts on the stack.
LEMMA SplitStack ==
  ASSUME NEW c, NEW p, PartOK(p), NEW split
  PROVE  \E qgEnable : /\ SplitCurrArea(c, p, split).stack =
                            Append(Checked(c, p).stack, Level(split, SubAreas(Area(p), split), qgEnable))
                       /\ SameKinds(SplitCurrArea(c, p, split), p)
<1> DEFINE k == Checked(c, p)
           subdiv == p.subdiv + Halvings(split)
           areas == SubAreas(Area(p), split)
           qgEnable == Last(p.stack).qgEnable /\ subdiv <= c.qpSubdiv
           level == Level(split, areas, qgEnable)
           pushed == [k EXCEPT !.stack = Append(@, level), !.subdiv = subdiv]
           implicitBtDepth == IF split = Last(k.stack).implicit THEN k.implicitBtDepth + 1
                              ELSE k.implicitBtDepth
           quad == [pushed EXCEPT !.mtDepth = 0, !.btDepth = 0, !.qtDepth = @ + 1]
           other == [pushed EXCEPT !.btDepth = @ + Halvings(split), !.mtDepth = @ + 1,
                                   !.implicitBtDepth = implicitBtDepth]
           q == IF split = "QUAD" THEN quad ELSE other
<1>1. SplitCurrArea(c, p, split) = AtGroup(q) BY DEF SplitCurrArea
<1>2. IsRecord(k, PartFields) /\ \A f \in PartFields : f # "stack" => k[f] = p[f]
  BY CheckedOK DEF PartOK
<1> HIDE DEF k, level, subdiv, implicitBtDepth
<1>3. /\ IsRecord(pushed, PartFields) /\ pushed.stack = Append(k.stack, level)
      /\ \A f \in PartFields : f \notin {"stack", "subdiv"} => pushed[f] = k[f]
  BY <1>2 DEF IsRecord, PartFields
<1> HIDE DEF pushed
<1>4. /\ IsRecord(quad, PartFields)
      /\ \A f \in PartFields : f \notin {"mtDepth", "btDepth", "qtDepth"} => quad[f] = pushed[f]
  BY <1>3 DEF IsRecord, PartFields
<1>5. /\ IsRecord(other, PartFields)
      /\ \A f \in PartFields : f \notin {"mtDepth", "btDepth", "implicitBtDepth"} => other[f] = pushed[f]
  BY <1>3 DEF IsRecord, PartFields
<1> HIDE DEF quad, other
<1>6. /\ IsRecord(q, PartFields)
      /\ q.stack = pushed.stack /\ q.chType = pushed.chType /\ q.treeType = pushed.treeType
      /\ q.modeType = pushed.modeType
  BY <1>4, <1>5 DEF PartFields
<1> HIDE DEF q
<1>7. q.chType = p.chType /\ q.treeType = p.treeType /\ q.modeType = p.modeType
  BY <1>2, <1>3, <1>6 DEF PartFields
<1>8. AtGroup(q).stack = q.stack /\ SameKinds(AtGroup(q), q) BY <1>6, AtGroupStack
<1>9. /\ SplitCurrArea(c, p, split).stack = Append(k.stack, level)
      /\ SameKinds(SplitCurrArea(c, p, split), p)
  BY <1>1, <1>3, <1>6, <1>7, <1>8 DEF SameKinds
<1> WITNESS qgEnable
<1> QED BY <1>9 DEF k, level

\* nextPart goes on at the top level.
LEMMA NextStack ==
  ASSUME NEW p, PartOK(p)
  PROVE  LET d == [Top(p) EXCEPT !.idx = @ + 1, !.implicit = "UNCHECKED"]
         IN /\ NextPart(p).stack = Append(Front(p.stack), d) /\ SameKinds(NextPart(p), p)
            /\ d.parts = Top(p).parts /\ d.split = Top(p).split /\ d.implicit = "UNCHECKED"
<1> DEFINE top == Top(p)
           d == [top EXCEPT !.idx = @ + 1, !.implicit = "UNCHECKED"]
           next == WithTop(p, d)
           q == [next EXCEPT !.btDepth = @ + Deeper(top), !.subdiv = @ + Deeper(top)]
<1>1. NextPart(p) = AtGroup(q) BY DEF NextPart, Top
<1>2. LevelOK(top) BY StackParts
<1>3. d.parts = top.parts /\ d.split = top.split /\ d.implicit = "UNCHECKED"
  BY <1>2 DEF LevelOK, IsRecord, LevelFields
<1> HIDE DEF top
<1> HIDE DEF d
<1>4. /\ IsRecord(next, PartFields) /\ next.stack = Append(Front(p.stack), d)
      /\ \A f \in PartFields : f # "stack" => next[f] = p[f]
  BY WithTopFields
<1> HIDE DEF next
<1>5. /\ IsRecord(q, PartFields)
      /\ \A f \in PartFields : f \notin {"btDepth", "subdiv"} => q[f] = next[f]
  BY <1>4 DEF IsRecord, PartFields
<1> HIDE DEF q
<1>6. q.stack = next.stack /\ q.chType = p.chType /\ q.treeType = p.treeType /\ q.modeType = p.modeType
  BY <1>4, <1>5 DEF PartFields
<1>7. AtGroup(q).stack = q.stack /\ SameKinds(AtGroup(q), q) BY <1>5, AtGroupStack
<1>8. NextPart(p).stack = Append(Front(p.stack), d) /\ SameKinds(NextPart(p), p)
  BY <1>1, <1>4, <1>6, <1>7 DEF SameKinds
<1> QED BY <1>3, <1>8 DEF d, top

\* exitCurrSplit takes the top level off.
LEMMA ExitStack ==
  ASSUME NEW p, PartOK(p)
  PROVE  ExitCurrSplit(p).stack = Front(p.stack) /\ SameKinds(ExitCurrSplit(p), p)
<1> DEFINE split == Last(p.stack).split
           q1 == [p EXCEPT !.stack = Front(@), !.subdiv = @ - Halvings(split)]
           implicitBtDepth == IF IsImplicit(Last(q1.stack)) THEN q1.implicitBtDepth - 1
                              ELSE q1.implicitBtDepth
           quad == [q1 EXCEPT !.qtDepth = @ - 1]
           other == [q1 EXCEPT !.mtDepth = @ - 1, !.btDepth = @ - Halvings(split),
                               !.implicitBtDepth = implicitBtDepth]
           q == Popped(p)
<1>1. ExitCurrSplit(p) = AtGroup(q) BY DEF ExitCurrSplit
<1>2. q = IF split = "QUAD" THEN quad ELSE other BY DEF Popped
<1>3. IsRecord(p, PartFields) BY DEF PartOK
<1> HIDE DEF split, implicitBtDepth, q
<1>4. /\ IsRecord(q1, PartFields) /\ q1.stack = Front(p.stack)
      /\ \A f \in PartFields : f \notin {"stack", "subdiv"} => q1[f] = p[f]
  BY <1>3 DEF IsRecord, PartFields
<1> HIDE DEF q1
<1>5. IsRecord(quad, PartFields) /\ \A f \in PartFields : f # "qtDepth" => quad[f] = q1[f]
  BY <1>4 DEF IsRecord, PartFields
<1>6. /\ IsRecord(other, PartFields)
      /\ \A f \in PartFields : f \notin {"mtDepth", "btDepth", "implicitBtDepth"} => other[f] = q1[f]
  BY <1>4 DEF IsRecord, PartFields
<1> HIDE DEF quad, other
<1>7. /\ IsRecord(q, PartFields) /\ q.stack = q1.stack /\ q.chType = q1.chType
      /\ q.treeType = q1.treeType /\ q.modeType = q1.modeType
  BY <1>2, <1>5, <1>6 DEF PartFields
<1>8. q.chType = p.chType /\ q.treeType = p.treeType /\ q.modeType = p.modeType
  BY <1>4, <1>7 DEF PartFields
<1>9. AtGroup(q).stack = q.stack /\ SameKinds(AtGroup(q), q) BY <1>7, AtGroupStack
<1> QED BY <1>1, <1>4, <1>7, <1>8, <1>9 DEF SameKinds

-----------------------------------------------------------------------------
(* The invariant of the blocks on the stacks.  Each level has the mode type  *)
(* that held when it was split off, which the calls remember.               *)

ModesOf(c) == IF c.dual THEN {"ALL"} ELSE Modes
ModeOf(call) == IF call.kind = "joint" THEN "ALL" ELSE call.modeTypeParent
ModeAt(waiting, m, i) == IF i <= Len(waiting) THEN ModeOf(waiting[i]) ELSE m

Shaped(c, ch, stack, waiting, m) ==
  /\ stack[1].parts = <<CtuArea(c)>>
  /\ \A i \in DOMAIN stack : LevelShape(c, ch, stack[i], ModeAt(waiting, m, i))

\* The mode type below a call.
Leads(c, call, m) ==
  /\ ModeOf(call) \in ModesOf(c)
  /\ call.kind = "joint" => c.dual
  /\ call.kind # "joint" => /\ call.chromaNotSplit <=> (call.modeTypeParent = "ALL" /\ m = "INTRA")
                            /\ call.modeTypeParent # "ALL" => m = call.modeTypeParent

Led(c, waiting, m) ==
  m \in ModesOf(c) /\ \A i \in DOMAIN waiting : Leads(c, waiting[i], ModeAt(waiting, m, i + 1))

\* Where all units are intra, luma has a tree of its own; its chroma is one block.
TreeOK(p, waiting) ==
  IF InItsChroma(waiting)
  THEN p.treeType = "TREE_C" /\ p.modeType = "INTRA" /\ Last(waiting).modeTypeParent = "ALL"
  ELSE p.treeType = (IF p.modeType = "INTRA" THEN "TREE_L" ELSE "TREE_D")

WaitingFor(ch) == IF ch = cur THEN calls ELSE <<>>

ShapeInv ==
  /\ \A ch \in Channels : Shaped(cfg, ch, parts[ch].stack, WaitingFor(ch), parts[ch].modeType)
  /\ \A ch \in Channels \ {cur} : parts[ch].modeType = "ALL" /\ parts[ch].treeType = "TREE_D"
  /\ Led(cfg, calls, parts[cur].modeType) /\ TreeOK(parts[cur], calls)
  /\ pc = "tree" => InPicture(cfg, Area(parts[cur]).x, Area(parts[cur]).y)
  /\ cur = "CHROMA" => cfg.dual

\* The modes of the levels, when a call is put behind those that wait.
SameModes(t, s, call, m) ==
  /\ \A i \in 1 .. Len(s) + 1 : ModeAt(t, m, i) = ModeAt(s, ModeOf(call), i)
  /\ ModeAt(t, m, Len(s) + 2) = m

\* Each level keeps its mode.
LEMMA ModeAtAppend ==
  ASSUME NEW s, IsSeq(s), NEW call, NEW m
  PROVE  SameModes(Append(s, call), s, call, m)
<1> DEFINE t == Append(s, call)
           n == Len(s)
<1>1. /\ n \in Nat /\ Len(t) = n + 1 /\ t[n + 1] = call /\ \A i \in 1 .. n : t[i] = s[i]
  BY AppendIsSeq
<1> HIDE DEF t, n
<1>2. ASSUME NEW i \in 1 .. n + 1 PROVE ModeAt(t, m, i) = ModeAt(s, ModeOf(call), i)
  <2>1. CASE i <= n
    <3>1. i \in 1 .. n /\ i <= n + 1 BY <1>1, <2>1
    <3> QED BY <1>1, <2>1, <3>1 DEF ModeAt, n
  <2>2. CASE ~(i <= n)
    <3>1. i = n + 1 /\ i <= n + 1 BY <1>1, <2>2
    <3> QED BY <1>1, <2>2, <3>1 DEF ModeAt, n
  <2> QED BY <2>1, <2>2
<1>3. ModeAt(t, m, n + 2) = m
  <2>1. ~(n + 2 <= n + 1) BY <1>1
  <2> QED BY <1>1, <2>1 DEF ModeAt
<1> QED BY <1>2, <1>3 DEF t, n, SameModes

\* Another call.
LEMMA LedAppend ==
  ASSUME NEW c, NEW s, IsSeq(s), NEW call, NEW m
  PROVE  Led(c, Append(s, call), m) <=>
           (m \in ModesOf(c) /\ Led(c, s, ModeOf(call)) /\ Leads(c, call, m))
<1> DEFINE t == Append(s, call)
           n == Len(s)
<1>1. /\ n \in Nat /\ DOMAIN s = 1 .. n /\ DOMAIN t = 1 .. n + 1 /\ t[n + 1] = call
      /\ \A i \in 1 .. n : t[i] = s[i]
  BY AppendIsSeq
<1>2. /\ \A i \in 1 .. n + 1 : ModeAt(t, m, i) = ModeAt(s, ModeOf(call), i)
      /\ ModeAt(t, m, n + 2) = m
  <2>1. SameModes(t, s, call, m) BY ModeAtAppend
  <2> QED BY <2>1 DEF SameModes
<1> HIDE DEF t, n
<1>3. \A i \in 1 .. n : i + 1 \in 1 .. n + 1 /\ i \in 1 .. n + 1 BY <1>1
<1>4. n + 1 \in 1 .. n + 1 /\ (n + 1) + 1 = n + 2 /\ \A i \in 1 .. n + 1 : (i \in 1 .. n \/ i = n + 1)
  BY <1>1
<1>5. \A i \in 1 .. n : Leads(c, t[i], ModeAt(t, m, i + 1)) <=> Leads(c, s[i], ModeAt(s, ModeOf(call), i + 1))
  BY <1>1, <1>2, <1>3
<1>6. Leads(c, t[n + 1], ModeAt(t, m, (n + 1) + 1)) <=> Leads(c, call, m)
  BY <1>1, <1>2, <1>4
<1>7. (\A i \in DOMAIN t : Leads(c, t[i], ModeAt(t, m, i + 1))) <=>
        ((\A i \in DOMAIN s : Leads(c, s[i], ModeAt(s, ModeOf(call), i + 1))) /\ Leads(c, call, m))
  BY <1>1, <1>3, <1>4, <1>5, <1>6
<1>8. Leads(c, call, m) => ModeOf(call) \in ModesOf(c) BY DEF Leads
<1>9. Led(c, t, m) <=> (m \in ModesOf(c) /\ Led(c, s, ModeOf(call)) /\ Leads(c, call, m))
  BY <1>7, <1>8 DEF Led
<1> QED BY <1>9 DEF t

\* Another call and its level.
GrowsShape(c, ch, stack, level, s, call, m) ==
  Shaped(c, ch, Append(stack, level), Append(s, call), m) <=>
    (Shaped(c, ch, stack, s, ModeOf(call)) /\ LevelShape(c, ch, level, m))

\* They leave the levels below as they are.
LEMMA ShapedAppend ==
  ASSUME NEW c, NEW ch, NEW stack, IsSeq(stack), stack # <<>>, NEW level, NEW s, IsSeq(s),
         NEW call, NEW m, Len(stack) = Len(s) + 1
  PROVE  GrowsShape(c, ch, stack, level, s, call, m)
<1> DEFINE t == Append(s, call)
           n == Len(s)
           u == Append(stack, level)
<1>1. n \in Nat BY AppendIsSeq
<1>2. /\ DOMAIN stack = 1 .. n + 1 /\ DOMAIN u = 1 .. n + 2 /\ u[n + 2] = level
      /\ \A i \in 1 .. n + 1 : u[i] = stack[i]
  <2>1. /\ DOMAIN stack = 1 .. Len(stack) /\ DOMAIN u = 1 .. Len(stack) + 1 /\ u[Len(stack) + 1] = level
        /\ \A i \in 1 .. Len(stack) : u[i] = stack[i]
    BY AppendIsSeq
  <2>2. Len(stack) = n + 1 /\ (n + 1) + 1 = n + 2 BY <1>1
  <2> HIDE DEF u, n
  <2> QED BY <2>1, <2>2
<1>3. /\ \A i \in 1 .. n + 1 : ModeAt(t, m, i) = ModeAt(s, ModeOf(call), i)
      /\ ModeAt(t, m, n + 2) = m
  <2>1. SameModes(t, s, call, m) BY ModeAtAppend
  <2> QED BY <2>1 DEF SameModes
<1> HIDE DEF t, n, u
<1>4. 1 \in 1 .. n + 1 /\ n + 2 \in 1 .. n + 2
      /\ (\A i \in 1 .. n + 2 : i \in 1 .. n + 1 \/ i = n + 2)
      /\ (\A i \in 1 .. n + 1 : i \in 1 .. n + 2)
  BY <1>1
<1>5. u[1] = stack[1] BY <1>2, <1>4
<1>6. (\A i \in DOMAIN u : LevelShape(c, ch, u[i], ModeAt(t, m, i))) <=>
        (\A i \in DOMAIN stack : LevelShape(c, ch, stack[i], ModeAt(s, ModeOf(call), i)))
        /\ LevelShape(c, ch, level, m)
  BY <1>2, <1>3, <1>4
<1>7. Shaped(c, ch, u, t, m) <=> (Shaped(c, ch, stack, s, ModeOf(call)) /\ LevelShape(c, ch, level, m))
  BY <1>5, <1>6 DEF Shaped
<1> QED BY <1>7 DEF t, u, GrowsShape

\* A call without a level of its own: the chroma of a block whose luma was split.
LEMMA ShapedShort ==
  ASSUME NEW c, NEW ch, NEW stack, IsSeq(stack), NEW s, IsSeq(s), NEW call, NEW m,
         Len(stack) = Len(s) + 1
  PROVE  Shaped(c, ch, stack, Append(s, call), m) <=> Shaped(c, ch, stack, s, ModeOf(call))
<1> DEFINE t == Append(s, call)
           n == Len(s)
<1>1. DOMAIN stack = 1 .. n + 1 BY AppendIsSeq
<1>2. \A i \in 1 .. n + 1 : ModeAt(t, m, i) = ModeAt(s, ModeOf(call), i)
  <2>1. SameModes(t, s, call, m) BY ModeAtAppend
  <2> QED BY <2>1 DEF SameModes
<1> HIDE DEF t, n
<1>3. Shaped(c, ch, stack, t, m) <=> Shaped(c, ch, stack, s, ModeOf(call))
  BY <1>1, <1>2 DEF Shaped
<1> QED BY <1>3 DEF t

\* Another top level of the same parts.
LEMMA ShapedTop ==
  ASSUME NEW c, NEW ch, NEW f, IsSeq(f), NEW e, NEW s, NEW m, Shaped(c, ch, Append(f, e), s, m)
  PROVE  /\ LevelShape(c, ch, e, ModeAt(s, m, Len(f) + 1))
         /\ \A d : d.parts = e.parts /\ LevelShape(c, ch, d, ModeAt(s, m, Len(f) + 1)) =>
              Shaped(c, ch, Append(f, d), s, m)
<1> DEFINE n == Len(f)
<1>1. \A x : /\ DOMAIN Append(f, x) = 1 .. n + 1 /\ Append(f, x)[n + 1] = x
             /\ \A i \in 1 .. n : Append(f, x)[i] = f[i]
  BY AppendIsSeq
<1>2. n \in Nat BY AppendIsSeq
<1> HIDE DEF n
<1>3. n + 1 \in 1 .. n + 1 /\ 1 \in 1 .. n + 1 /\ \A i \in 1 .. n + 1 : (i \in 1 .. n \/ i = n + 1)
  BY <1>2
<1>4. LevelShape(c, ch, e, ModeAt(s, m, n + 1)) BY <1>1, <1>3 DEF Shaped
<1>5. ASSUME NEW d, d.parts = e.parts, LevelShape(c, ch, d, ModeAt(s, m, n + 1))
      PROVE  Shaped(c, ch, Append(f, d), s, m)
  <2> DEFINE u == Append(f, d)
             v == Append(f, e)
  <2>1. /\ DOMAIN u = 1 .. n + 1 /\ u[n + 1] = d /\ DOMAIN v = 1 .. n + 1 /\ v[n + 1] = e
        /\ \A i \in 1 .. n : u[i] = v[i]
    BY <1>1
  <2>2. Shaped(c, ch, v, s, m) OBVIOUS
  <2> HIDE DEF u, v
  <2>3. u[1].parts = v[1].parts
    <3>1. CASE 1 \in 1 .. n BY <2>1, <3>1
    <3>2. CASE 1 = n + 1 BY <1>5, <2>1, <3>2
    <3> QED BY <1>3, <3>1, <3>2
  <2>4. \A i \in DOMAIN u : LevelShape(c, ch, u[i], ModeAt(s, m, i))
    BY <1>3, <1>5, <2>1, <2>2 DEF Shaped
  <2>5. Shaped(c, ch, u, s, m) BY <2>2, <2>3, <2>4 DEF Shaped
  <2> QED BY <2>5 DEF u
<1> QED BY <1>4, <1>5 DEF n

-----------------------------------------------------------------------------
(* The levels the operations make.                                          *)

\* getImplicitSplit, for a block that begins inside the picture.
LEMMA ImplicitIsForced ==
  ASSUME NEW c, NEW p, BorderOK(c), PlaceOK(c, Area(p)), InPicture(c, Area(p).x, Area(p).y)
  PROVE  LET a == Area(p)
             s == ImplicitSplit(c, p)
         IN /\ s \in {"NO", "QUAD", "HORZ", "VERT"}
            /\ s = "NO" => ~Crosses(c, a)
            /\ s = "QUAD" => Crosses(c, a) \/ a.w > 64 \/ a.h > 64
            /\ s = "HORZ" => a.y + a.h > c.height
            /\ s = "VERT" => a.x + a.w > c.width
<1> DEFINE a == Area(p)
           x == a.x
           y == a.y
           w == a.w
           h == a.h
           s == ImplicitSplit(c, p)
           low == InPicture(c, x, y + h - 1)
           right == InPicture(c, x + w - 1, y)
<1>1. /\ s \in {"NO", "QUAD", "HORZ", "VERT"}
      /\ s = "NO" => low /\ right
      /\ s = "QUAD" => (w > 64 \/ h > 64) \/ ~(low /\ right)
      /\ s = "HORZ" => ~low
      /\ s = "VERT" => ~right
  BY DEF ImplicitSplit
<1>2. /\ x \in Nat /\ y \in Nat /\ w \in Sizes /\ h \in Sizes /\ x < c.width /\ y < c.height
      /\ c.width \in Nat /\ c.height \in Nat
  BY DEF PlaceOK, InPicture, BorderOK
<1>3. low <=> (y + h - 1 < c.height) BY <1>2 DEF InPicture
<1>4. right <=> (x + w - 1 < c.width) BY <1>2 DEF InPicture
<1>5. Crosses(c, a) <=> (x + w > c.width \/ y + h > c.height) BY DEF Crosses
<1> HIDE DEF x, y, w, h, low, right, s
<1>6. w \in Nat /\ h \in Nat BY <1>2, HalfSize
<1>7. (low <=> ~(y + h > c.height)) /\ (right <=> ~(x + w > c.width))
  BY <1>2, <1>3, <1>4, <1>6
<1>8. /\ s \in {"NO", "QUAD", "HORZ", "VERT"}
      /\ s = "NO" => ~Crosses(c, a)
      /\ s = "QUAD" => Crosses(c, a) \/ w > 64 \/ h > 64
      /\ s = "HORZ" => y + h > c.height
      /\ s = "VERT" => x + w > c.width
  BY <1>1, <1>5, <1>7
<1> QED BY <1>8 DEF s, x, y, w, h

\* A level whose current part was Checked.
LEMMA CheckedLevel ==
  ASSUME NEW c, NEW ch, NEW p, NEW m, BorderOK(c), LevelOK(Top(p)), LevelShape(c, ch, Top(p), m),
         InPicture(c, Area(p).x, Area(p).y),
         NEW d, d = [Top(p) EXCEPT !.implicit = ImplicitSplit(c, p)]
  PROVE  LevelShape(c, ch, d, m) /\ d.parts = Top(p).parts /\ CurrentPart(d) = Area(p)
<1> DEFINE top == Top(p)
           a == Area(p)
           s == ImplicitSplit(c, p)
<1>1. a = CurrentPart(top) /\ PlaceOK(c, a) BY TopsPart DEF AreaOK
<1>2. /\ s \in {"NO", "QUAD", "HORZ", "VERT"}
      /\ s = "NO" => ~Crosses(c, a)
      /\ s = "QUAD" => Crosses(c, a) \/ a.w > 64 \/ a.h > 64
      /\ s = "HORZ" => a.y + a.h > c.height
      /\ s = "VERT" => a.x + a.w > c.width
  BY <1>1, ImplicitIsForced
<1> HIDE DEF top, s, a
<1>3. IsRecord(top, LevelFields) /\ d = [top EXCEPT !.implicit = s] BY DEF top, s, LevelOK
<1>4. /\ d.implicit = s /\ d.parts = top.parts /\ d.split = top.split /\ d.idx = top.idx
  BY <1>3 DEF IsRecord, LevelFields
<1>5. CurrentPart(d) = a BY <1>1, <1>4 DEF CurrentPart
<1>6. LevelShape(c, ch, top, m) BY DEF top
<1>7. LevelShape(c, ch, d, m) BY <1>2, <1>4, <1>5, <1>6 DEF LevelShape
<1> QED BY <1>4, <1>5, <1>7 DEF top, a

\* getImplicitSplit leaves the blocks as they are.
LEMMA CheckedShape ==
  ASSUME NEW c, NEW ch, NEW p, PartOK(p), NEW s, NEW m, BorderOK(c), Shaped(c, ch, p.stack, s, m),
         InPicture(c, Area(p).x, Area(p).y)
  PROVE  /\ Shaped(c, ch, Checked(c, p).stack, s, m) /\ Area(Checked(c, p)) = Area(p)
         /\ SameKinds(Checked(c, p), p)
<1> DEFINE top == Top(p)
           d == [top EXCEPT !.implicit = ImplicitSplit(c, p)]
           k == Checked(c, p)
           f == Front(p.stack)
<1>1. SameKinds(k, p)
  <2>1. \A x \in PartFields : x # "stack" => k[x] = p[x] BY CheckedOK
  <2> HIDE DEF k
  <2> QED BY <2>1 DEF SameKinds, PartFields
<1>2. p.stack = Append(f, top) /\ IsSeq(f) /\ LevelOK(top) BY StackParts
<1>3. LevelShape(c, ch, top, ModeAt(s, m, Len(f) + 1))
  <2>1. Shaped(c, ch, Append(f, top), s, m) BY <1>2
  <2> HIDE DEF f, top
  <2> QED BY <1>2, <2>1, ShapedTop
<1>4. /\ LevelShape(c, ch, d, ModeAt(s, m, Len(f) + 1)) /\ d.parts = top.parts
      /\ CurrentPart(d) = Area(p)
  <2>1. LevelOK(Top(p)) /\ LevelShape(c, ch, Top(p), ModeAt(s, m, Len(f) + 1)) BY <1>2, <1>3
  <2> HIDE DEF f
  <2> QED BY <2>1, CheckedLevel
<1>5. CASE top.implicit # "UNCHECKED"
  <2>1. k = p BY <1>5 DEF Checked, Top
  <2> QED BY <1>1, <2>1
<1>6. CASE top.implicit = "UNCHECKED"
  <2>1. k = WithTop(p, d) BY <1>6 DEF Checked, Top
  <2>2. k.stack = Append(f, d) /\ Top(k) = d
    <3> HIDE DEF d
    <3>1. WithTop(p, d).stack = Append(Front(p.stack), d) /\ Top(WithTop(p, d)) = d BY WithTopFields
    <3> QED BY <2>1, <3>1
  <2>3. Shaped(c, ch, Append(f, top), s, m) BY <1>2
  <2> HIDE DEF f, top, d, k
  <2>4. Shaped(c, ch, Append(f, d), s, m) BY <1>2, <1>4, <2>3, ShapedTop
  <2>5. Area(k) = Area(p) BY <1>4, <2>2 DEF Area, Top
  <2>6. Shaped(c, ch, k.stack, s, m) BY <2>2, <2>4
  <2> QED BY <1>1, <2>5, <2>6 DEF k
<1> QED BY <1>5, <1>6

\* What splitCurrArea puts on the stack.
LEMMA NewLevel ==
  ASSUME NEW c, NEW ch, NEW split \in Splits, NEW areas, NEW qgEnable, NEW m, Len(areas) \in Nat, Len(areas) > 0,
         \A i \in 1 .. Len(areas) : /\ AreaOK(c, ch, areas[i], m)
                                    /\ split = "QUAD" => m # "INTER" /\ areas[i].w = areas[i].h
  PROVE  LevelShape(c, ch, Level(split, areas, qgEnable), m)
<1> DEFINE level == Level(split, areas, qgEnable)
<1>1. level.split = split /\ level.parts = areas /\ level.implicit = "UNCHECKED" BY DEF Level
<1> HIDE DEF level
<1>2. 1 \in 1 .. Len(areas) OBVIOUS
<1>3. split \notin MtSplits => split = "QUAD" BY DEF Splits
<1>4. split \notin MtSplits => m # "INTER" /\ \A i \in 1 .. Len(areas) : areas[i].w = areas[i].h
  BY <1>2, <1>3
<1>5. LevelShape(c, ch, level, m) BY <1>1, <1>4 DEF LevelShape
<1> QED BY <1>5 DEF level

\* What the configuration says of the unit and of the border.
LEMMA UnitFacts ==
  ASSUME NEW c, ValidConfig(c)
  PROVE  /\ c.minCb \in Nat /\ c.minCb >= 4 /\ BorderOK(c)
         /\ InPicture(c, c.ctuX, c.ctuY) /\ c.ctu \in {32, 64, 128}
         /\ \A ch : AreaOK(c, ch, CtuArea(c), "ALL")
<1>1. c.minCb \in Nat /\ c.minCb >= 4
  <2>1. c.minCb \in {2 ^ i : i \in 0..7} BY DEF ValidConfig, IsPowerOfTwo
  <2>2. \A n \in {2 ^ i : i \in 0..7} : n \in Int OBVIOUS
  <2>3. c.minCb >= 4 BY DEF ValidConfig, MIN_TB_SIZEY
  <2> QED BY <2>1, <2>2, <2>3
<1>2. BorderOK(c) BY DEF ValidConfig, BorderOK
<1>3. /\ InPicture(c, c.ctuX, c.ctuY) /\ c.ctu \in {32, 64, 128} /\ c.ctuX \in Nat /\ c.ctuY \in Nat
      /\ c.ctuX % c.ctu = 0 /\ c.ctuY % c.ctu = 0
  BY DEF ValidConfig
<1> DEFINE a == CtuArea(c)
<1>4. a.x = c.ctuX /\ a.y = c.ctuY /\ a.w = c.ctu /\ a.h = c.ctu BY DEF CtuArea
<1> HIDE DEF a
<1>5. a.w \in Sizes /\ a.w >= 32 BY <1>3, <1>4 DEF Sizes
<1>6. PlaceOK(c, a) BY <1>3, <1>4, <1>5 DEF PlaceOK
<1>7. ChromaFits(a)
  <2>1. a.h \in Sizes /\ a.w >= 8 /\ a.w >= 16 BY <1>4, <1>5 DEF Sizes
  <2> QED BY <1>5, <2>1, ChromaFitsIff
<1>8. \A ch : AreaOK(c, ch, a, "ALL") BY <1>6, <1>7 DEF AreaOK
<1> QED BY <1>1, <1>2, <1>3, <1>8 DEF a

-----------------------------------------------------------------------------
(* The blocks through the walk.                                             *)

\* The block coding_tree is called for.
LEMMA Here ==
  ASSUME IInv, ShapeInv, pc = "tree"
  PROVE  /\ ValidConfig(cfg) /\ cur \in Channels /\ PartOK(part) /\ SameKinds(part, parts[cur])
         /\ Shaped(cfg, cur, part.stack, calls, part.modeType)
         /\ area = Area(part) /\ InPicture(cfg, area.x, area.y)
         /\ LevelOK(Top(part)) /\ Top(part).implicit \in {"NO", "QUAD", "HORZ", "VERT"}
         /\ LevelShape(cfg, cur, Top(part), IF InItsChroma(calls) THEN "ALL" ELSE part.modeType)
         /\ Led(cfg, calls, part.modeType) /\ TreeOK(part, calls) /\ IsSeq(calls)
         /\ part.modeType \in ModesOf(cfg) /\ (cfg.dual => ~InItsChroma(calls))
         /\ part.chType = IF cur = "LUMA" /\ InItsChroma(calls) THEN "CHROMA" ELSE cur
<1> DEFINE p == parts[cur]
           k == part
           f == Front(k.stack)
           n == Len(f) + 1
<1>1. /\ ValidConfig(cfg) /\ cur \in Channels /\ PartOK(p) /\ IsSeq(calls)
  BY ConfigAssumption DEF IInv, PartsOK, CallsOK
<1>2. /\ Shaped(cfg, cur, p.stack, calls, p.modeType) /\ Led(cfg, calls, p.modeType) /\ TreeOK(p, calls)
      /\ InPicture(cfg, Area(p).x, Area(p).y)
  BY <1>1 DEF ShapeInv, WaitingFor
<1>3. BorderOK(cfg) BY <1>1, UnitFacts
<1>4. k = Checked(cfg, p) BY DEF part
<1>5. /\ Shaped(cfg, cur, k.stack, calls, p.modeType) /\ Area(k) = Area(p) /\ SameKinds(k, p)
  <2> HIDE DEF k, p
  <2>1. /\ Shaped(cfg, cur, Checked(cfg, p).stack, calls, p.modeType) /\ Area(Checked(cfg, p)) = Area(p)
        /\ SameKinds(Checked(cfg, p), p)
    BY <1>1, <1>2, <1>3, CheckedShape
  <2> QED BY <1>4, <2>1
<1>6. PartOK(k) /\ Top(k).implicit # "UNCHECKED" /\ Len(k.stack) = Len(p.stack)
  BY PartFacts
<1>7. /\ k.stack = Append(f, Top(k)) /\ IsSeq(f) /\ LevelOK(Top(k)) /\ Len(k.stack) = Len(f) + 1
      /\ Len(f) \in Nat
  BY <1>6, StackParts
<1>8. ModeAt(calls, p.modeType, n) = IF InItsChroma(calls) THEN "ALL" ELSE p.modeType
  <2>1. Len(p.stack) = 1 + Len(calls) - (IF InItsChroma(calls) THEN 1 ELSE 0)
    BY DEF IInv, LengthInv
  <2>2. Len(calls) \in Nat BY <1>1, AppendIsSeq
  <2>3. CASE InItsChroma(calls)
    <3>0. Len(p.stack) = 1 + Len(calls) - 1 BY <2>1, <2>3
    <3>1. n = Len(calls) /\ n <= Len(calls)
      <4> HIDE DEF k, p, f
      <4> QED BY <1>6, <1>7, <2>2, <3>0
    <3>2. Last(calls).modeTypeParent = "ALL" /\ Last(calls).kind = "chroma"
      BY <1>2, <2>3 DEF TreeOK, InItsChroma
    <3>3. Last(calls) = calls[Len(calls)] BY DEF Last
    <3>4. ModeOf(Last(calls)) = "ALL" BY <3>2 DEF ModeOf
    <3> HIDE DEF n
    <3> QED BY <2>3, <3>1, <3>3, <3>4 DEF ModeAt
  <2>4. CASE ~InItsChroma(calls)
    <3>0. Len(p.stack) = 1 + Len(calls) - 0 BY <2>1, <2>4
    <3>1. ~(n <= Len(calls))
      <4> HIDE DEF k, p, f
      <4> QED BY <1>6, <1>7, <2>2, <3>0
    <3> HIDE DEF n
    <3> QED BY <2>4, <3>1 DEF ModeAt
  <2> QED BY <2>3, <2>4
<1>9. LevelShape(cfg, cur, Top(k), ModeAt(calls, p.modeType, n))
  <2>1. Shaped(cfg, cur, Append(f, Top(k)), calls, p.modeType) BY <1>5, <1>7
  <2> HIDE DEF f, k, p
  <2> QED BY <1>7, <2>1, ShapedTop
<1>10. /\ k.modeType = p.modeType /\ k.treeType = p.treeType /\ k.chType = p.chType
  BY <1>5 DEF SameKinds
<1>11. p.chType = IF cur = "LUMA" /\ InItsChroma(calls) THEN "CHROMA" ELSE cur
  BY <1>1 DEF IInv, GroupInv, Channels
<1>12. p.modeType \in ModesOf(cfg) BY <1>2 DEF Led
<1>13. cfg.dual => ~InItsChroma(calls) BY <1>2, <1>12 DEF TreeOK, ModesOf
<1>14. area = Area(k) BY DEF area
<1>15. TreeOK(k, calls) BY <1>2, <1>10 DEF TreeOK
<1> HIDE DEF k, p, f, n
<1>16. LevelShape(cfg, cur, Top(k), IF InItsChroma(calls) THEN "ALL" ELSE k.modeType)
  BY <1>8, <1>9, <1>10
<1>17. Top(k).implicit \in {"NO", "QUAD", "HORZ", "VERT"} BY <1>6, <1>9 DEF LevelShape
<1>18. Shaped(cfg, cur, k.stack, calls, k.modeType) /\ Led(cfg, calls, k.modeType) BY <1>2, <1>5, <1>10
<1> QED BY <1>1, <1>2, <1>5, <1>6, <1>7, <1>10, <1>11, <1>12, <1>13, <1>14, <1>15, <1>16, <1>17, <1>18 DEF k, p

\* A split that is permitted and fails no CHECK is one of those above.
LEMMA PermittedIsSplittable ==
  ASSUME IInv, ShapeInv, pc = "tree", NEW split \in Splits, split \in permitted, ~SplitFails(part, split)
  PROVE  Splittable(cfg, cur, part, split) /\ ~InItsChroma(calls)
<1>1. /\ ValidConfig(cfg) /\ cur \in Channels /\ PartOK(part)
      /\ area = Area(part) /\ InPicture(cfg, area.x, area.y)
      /\ LevelOK(Top(part)) /\ Top(part).implicit \in {"NO", "QUAD", "HORZ", "VERT"}
      /\ LevelShape(cfg, cur, Top(part), IF InItsChroma(calls) THEN "ALL" ELSE part.modeType)
      /\ TreeOK(part, calls)
      /\ part.modeType \in ModesOf(cfg)
      /\ part.chType = IF cur = "LUMA" /\ InItsChroma(calls) THEN "CHROMA" ELSE cur
  BY Here
<1>2. cfg.minCb \in Nat /\ cfg.minCb >= 4 /\ BorderOK(cfg) BY <1>1, UnitFacts
<1>3. split \in CanSplit(cfg, part) BY DEF permitted
<1>4. part.treeType # "TREE_C"
  <2>1. split # "NO" BY DEF Splits, MtSplits, BtSplits, TtSplits
  <2> HIDE DEF part
  <2> QED BY <1>3, <2>1 DEF CanSplit
<1> HIDE DEF part
<1>5. ~InItsChroma(calls) BY <1>1, <1>4 DEF TreeOK
<1>6. Top(part).split \in MtSplits => part.mtDepth > 0
  <2> DEFINE f == Front(part.stack)
  <2>1. part.stack = Append(f, Top(part)) /\ IsSeq(f) BY <1>1, StackParts
  <2>2. part.mtDepth = Cardinality(LevelsOf(part.stack, MtSplits)) BY <1>1 DEF PartOK, MatchesItsStack
  <2> HIDE DEF f
  <2>3. /\ Cardinality(LevelsOf(f, MtSplits)) \in Nat
        /\ Cardinality(LevelsOf(Append(f, Top(part)), MtSplits)) =
             Cardinality(LevelsOf(f, MtSplits)) + (IF Top(part).split \in MtSplits THEN 1 ELSE 0)
    BY <2>1, LevelsOfAppend
  <2>4. part.mtDepth = Cardinality(LevelsOf(f, MtSplits)) + (IF Top(part).split \in MtSplits THEN 1 ELSE 0)
    BY <2>1, <2>2, <2>3
  <2> QED BY <2>3, <2>4
<1>7. part.modeType \in Modes /\ (cfg.dual => part.modeType = "ALL") BY <1>1 DEF ModesOf, Modes
<1>8. part.chType = cur BY <1>1, <1>5
<1> QED BY <1>1, <1>2, <1>3, <1>4, <1>5, <1>6, <1>7, <1>8 DEF Splittable

\* The invariant, when only the partitioner coding_tree was called with changes.
LEMMA OneShape ==
  ASSUME IInv, ShapeInv, NEW q, parts' = [parts EXCEPT ![cur] = q], cfg' = cfg, cur' = cur,
         Shaped(cfg, cur, q.stack, calls', q.modeType), Led(cfg, calls', q.modeType), TreeOK(q, calls'),
         pc' = "tree" => InPicture(cfg, Area(q).x, Area(q).y)
  PROVE  ShapeInv'
<1>1. /\ cur \in Channels /\ parts'[cur] = q /\ \A ch \in Channels \ {cur} : parts'[ch] = parts[ch]
  BY DEF IInv, PartsOK
<1>2. ASSUME NEW ch \in Channels
      PROVE  Shaped(cfg', ch, parts'[ch].stack, IF ch = cur' THEN calls' ELSE <<>>, parts'[ch].modeType)
  <2>1. CASE ch = cur BY <1>1, <2>1
  <2>2. CASE ch # cur BY <1>1, <2>2 DEF ShapeInv, WaitingFor
  <2> QED BY <2>1, <2>2
<1>3. \A ch \in Channels \ {cur'} : parts'[ch].modeType = "ALL" /\ parts'[ch].treeType = "TREE_D"
  BY <1>1 DEF ShapeInv
<1> QED BY <1>1, <1>2, <1>3 DEF ShapeInv, WaitingFor

\* Below the quadtree split of luma and chroma at once, nothing changes the mode.
LEMMA JointShape ==
  ASSUME NEW c, NEW ch, NEW stack, IsSeq(stack), NEW call, call.kind = "joint"
  PROVE  Shaped(c, ch, stack, <<call>>, "ALL") <=> Shaped(c, ch, stack, <<>>, "ALL")
<1> DEFINE s == <<call>>
           none == <<>>
<1>1. s[1] = call /\ Len(s) = 1 /\ Len(none) = 0 OBVIOUS
<1>2. DOMAIN stack = 1 .. Len(stack) /\ Len(stack) \in Nat BY AppendIsSeq
<1> HIDE DEF s, none
<1>3. ASSUME NEW i \in DOMAIN stack
      PROVE  ModeAt(s, "ALL", i) = "ALL" /\ ModeAt(none, "ALL", i) = "ALL"
  <2>1. i \in Nat /\ i > 0 BY <1>2
  <2>2. i <= Len(s) => i = 1 BY <1>1, <2>1
  <2>3. ~(i <= Len(none)) BY <1>1, <2>1
  <2> QED BY <1>1, <2>2, <2>3 DEF ModeAt, ModeOf
<1>4. Shaped(c, ch, stack, s, "ALL") <=> Shaped(c, ch, stack, none, "ALL") BY <1>3 DEF Shaped
<1> QED BY <1>4 DEF s, none

\* nextPart leaves the blocks as they are.
LEMMA NextShape ==
  ASSUME NEW c, NEW ch, NEW p, PartOK(p), NEW s, NEW m, Shaped(c, ch, p.stack, s, m)
  PROVE  Shaped(c, ch, NextPart(p).stack, s, m) /\ SameKinds(NextPart(p), p)
<1> DEFINE top == Top(p)
           d == [top EXCEPT !.idx = @ + 1, !.implicit = "UNCHECKED"]
           f == Front(p.stack)
<1>1. /\ NextPart(p).stack = Append(f, d) /\ SameKinds(NextPart(p), p)
      /\ d.parts = top.parts /\ d.split = top.split /\ d.implicit = "UNCHECKED"
  BY NextStack
<1>2. p.stack = Append(f, top) /\ IsSeq(f) BY StackParts
<1> HIDE DEF top, d, f
<1>3. Shaped(c, ch, Append(f, top), s, m) BY <1>2
<1>4. LevelShape(c, ch, top, ModeAt(s, m, Len(f) + 1)) BY <1>2, <1>3, ShapedTop
<1>5. LevelShape(c, ch, d, ModeAt(s, m, Len(f) + 1)) BY <1>1, <1>4 DEF LevelShape
<1>6. Shaped(c, ch, Append(f, d), s, m) BY <1>1, <1>2, <1>3, <1>5, ShapedTop
<1> QED BY <1>1, <1>6

\* A partitioner that has not split the unit.
LEMMA WholeArea ==
  ASSUME NEW c, NEW ch, NEW p, PartOK(p), Len(p.stack) = 1, NEW s, NEW m, Shaped(c, ch, p.stack, s, m)
  PROVE  Area(p) = CtuArea(c)
<1> DEFINE level == p.stack[1]
<1>1. Last(p.stack) = level /\ LevelOK(level) BY StackParts DEF Last, Top
<1>2. level.parts = <<CtuArea(c)>> BY DEF Shaped
<1> HIDE DEF level
<1>3. Len(level.parts) = 1 /\ level.parts[1] = CtuArea(c) BY <1>2
<1>4. level.idx \in 0 .. Len(level.parts) - 1 BY <1>1 DEF LevelOK
<1>5. level.idx + 1 = 1 BY <1>3, <1>4
<1> QED BY <1>1, <1>3, <1>5 DEF Area, CurrentPart

\* The quarters of a unit.
LEMMA UnitsQuarters ==
  ASSUME NEW c, ValidConfig(c), NEW ch, NEW qgEnable
  PROVE  LevelShape(c, ch, Level("QUAD", SubAreas(CtuArea(c), "QUAD"), qgEnable), "ALL")
<1> DEFINE a == CtuArea(c)
           areas == SubAreas(a, "QUAD")
<1>1. BorderOK(c) /\ InPicture(c, c.ctuX, c.ctuY) /\ AreaOK(c, ch, a, "ALL") /\ c.ctu \in {32, 64, 128}
  BY UnitFacts
<1>2. a.x = c.ctuX /\ a.y = c.ctuY /\ a.w = c.ctu /\ a.h = c.ctu BY DEF CtuArea
<1>3. "QUAD" \in Splits BY DEF Splits
<1> HIDE DEF a
<1>4. Len(areas) \in Nat /\ Len(areas) > 0 BY <1>3, SubAreasFacts
<1>5. SplitFits(c, ch, a, "QUAD", "ALL")
  <2>1. a.w >= 16 /\ a.h >= 16 /\ a.w >= 8 /\ a.h >= 8 /\ a.w = a.h BY <1>1, <1>2
  <2> QED BY <2>1 DEF SplitFits, BorderAllows, LargeEnough, LargeEnoughForChroma
<1>6. ASSUME NEW i \in 1 .. Len(areas)
      PROVE  AreaOK(c, ch, areas[i], "ALL") /\ areas[i].w = areas[i].h
  <2> DEFINE b == areas[i]
  <2>1. IsPart(a, "QUAD", b) BY <1>3, SubAreasAreParts
  <2>2. PlaceOK(c, a) /\ InPicture(c, a.x, a.y) BY <1>1, <1>2 DEF AreaOK
  <2> HIDE DEF b
  <2>3. AreaOK(c, ch, b, "ALL") /\ ("QUAD" = "QUAD" => b.w = b.h)
    BY <1>1, <1>3, <1>5, <2>1, <2>2, PartFits
  <2> QED BY <2>3 DEF b
<1> HIDE DEF areas
<1>7. LevelShape(c, ch, Level("QUAD", areas, qgEnable), "ALL") BY <1>3, <1>4, <1>6, NewLevel
<1> QED BY <1>7 DEF areas, a

\* Both partitioners where their trees have no mode of prediction of their own.
AllModes(c, ch, p) ==
  IsSeq(p.stack) /\ Shaped(c, ch, p.stack, <<>>, "ALL") /\ p.modeType = "ALL" /\ p.treeType = "TREE_D"

\* Where luma and chroma alternate.
LEMMA JointFacts ==
  ASSUME IInv, ShapeInv, InLoop("joint")
  PROVE  /\ cfg.dual /\ calls = <<Last(calls)>> /\ Last(calls).kind = "joint"
         /\ \A ch \in Channels : AllModes(cfg, ch, parts[ch])
<1>1. /\ Len(calls) = 1 /\ ~InItsChroma(calls) /\ IsSeq(calls) BY AlternatingFacts
<1>2. Last(calls).kind = "joint" /\ calls # <<>> BY DEF InLoop
<1> DEFINE call == Last(calls)
<1>3. calls = <<call>> /\ 1 \in DOMAIN calls /\ calls[1] = call
  <2>1. calls \in Seq(Range(calls)) BY <1>1 DEF IsSeq
  <2>2. call = calls[1] BY <1>1 DEF Last
  <2> HIDE DEF call
  <2> QED BY <1>1, <2>1, <2>2
<1> HIDE DEF call
<1>4. call.kind = "joint" BY <1>2 DEF call
<1>5. /\ Led(cfg, calls, parts[cur].modeType) /\ TreeOK(parts[cur], calls) BY DEF ShapeInv
<1>6. cfg.dual /\ parts[cur].modeType = "ALL"
  <2>1. Leads(cfg, calls[1], ModeAt(calls, parts[cur].modeType, 1 + 1)) BY <1>3, <1>5 DEF Led
  <2>2. cfg.dual BY <1>3, <1>4, <2>1 DEF Leads
  <2> QED BY <1>5, <2>2 DEF Led, ModesOf
<1>7. parts[cur].treeType = "TREE_D" BY <1>1, <1>5, <1>6 DEF TreeOK
<1>8. ASSUME NEW ch \in Channels PROVE AllModes(cfg, ch, parts[ch])
  <2>1. Shaped(cfg, ch, parts[ch].stack, WaitingFor(ch), parts[ch].modeType) /\ IsSeq(parts[ch].stack)
    BY DEF ShapeInv, IInv, PartsOK, PartOK, StackOK
  <2>2. CASE ch = cur
    <3>1. Shaped(cfg, ch, parts[ch].stack, <<call>>, "ALL") BY <1>3, <1>6, <2>1, <2>2 DEF WaitingFor
    <3>2. Shaped(cfg, ch, parts[ch].stack, <<>>, "ALL") BY <1>4, <2>1, <3>1, JointShape
    <3> QED BY <1>6, <1>7, <2>1, <2>2, <3>2 DEF AllModes
  <2>3. CASE ch # cur
    <3>1. parts[ch].modeType = "ALL" /\ parts[ch].treeType = "TREE_D" BY <2>3 DEF ShapeInv
    <3> QED BY <2>1, <2>3, <3>1 DEF AllModes, WaitingFor
  <2> QED BY <2>2, <2>3
<1> QED BY <1>3, <1>4, <1>6, <1>8 DEF call

\* The invariant of such partitioners.
LEMMA AllModesKeep ==
  ASSUME cfg' = cfg, cur' \in Channels, cur' = "CHROMA" => cfg.dual, \A ch \in Channels : AllModes(cfg, ch, parts'[ch]),
         NEW call, calls' = <<>> \/ (cfg.dual /\ call.kind = "joint" /\ calls' = <<call>>),
         pc' = "tree" => InPicture(cfg, Area(parts'[cur']).x, Area(parts'[cur']).y)
  PROVE  ShapeInv'
<1>1. ~InItsChroma(calls') /\ IsSeq(<<>>) /\ DOMAIN <<>> = {}
  <2>1. IsSeq(<<>>) /\ DOMAIN <<>> = {} BY EmptyIsSeq
  <2>2. calls' = <<call>> => Last(calls') = call BY DEF Last
  <2> QED BY <2>1, <2>2 DEF InItsChroma
<1>2. Led(cfg, calls', "ALL")
  <2>1. "ALL" \in ModesOf(cfg) BY DEF ModesOf, Modes
  <2>2. CASE calls' = <<>> BY <1>1, <2>1, <2>2 DEF Led
  <2>3. CASE cfg.dual /\ call.kind = "joint" /\ calls' = <<call>>
    <3> DEFINE s == <<call>>
    <3>1. DOMAIN s = {1} /\ s[1] = call OBVIOUS
    <3> HIDE DEF s
    <3>2. \A m : Leads(cfg, call, m) BY <2>1, <2>3 DEF Leads, ModeOf
    <3>3. Led(cfg, s, "ALL") BY <2>1, <3>1, <3>2 DEF Led
    <3> QED BY <2>3, <3>3 DEF s
  <2> QED BY <2>2, <2>3
<1>3. TreeOK(parts'[cur'], calls') BY <1>1 DEF TreeOK, AllModes
<1>4. ASSUME NEW ch \in Channels
      PROVE  /\ Shaped(cfg, ch, parts'[ch].stack, IF ch = cur' THEN calls' ELSE <<>>, parts'[ch].modeType)
             /\ parts'[ch].modeType = "ALL" /\ parts'[ch].treeType = "TREE_D"
  <2>1. /\ Shaped(cfg, ch, parts'[ch].stack, <<>>, "ALL") /\ parts'[ch].modeType = "ALL"
        /\ IsSeq(parts'[ch].stack)
        /\ parts'[ch].treeType = "TREE_D"
    BY DEF AllModes
  <2>2. call.kind = "joint" => Shaped(cfg, ch, parts'[ch].stack, <<call>>, "ALL") BY <2>1, JointShape
  <2> QED BY <2>1, <2>2
<1> QED BY <1>2, <1>3, <1>4 DEF ShapeInv, WaitingFor

\* coding_tree_unit starts with the unit as a block.
LEMMA InitShape ==
  ASSUME Init, IInv
  PROVE  ShapeInv
<1>1. cfg \in Configs /\ cur = "LUMA" /\ calls = <<>> /\ pc = "tree" /\ ValidConfig(cfg)
  BY ConfigAssumption DEF Init
<1>2. ASSUME NEW ch \in Channels
      PROVE  /\ parts[ch].modeType = "ALL" /\ parts[ch].treeType = "TREE_D"
             /\ Shaped(cfg, ch, parts[ch].stack, <<>>, "ALL")
             /\ Area(parts[ch]) = CtuArea(cfg)
  <2> DEFINE p == parts[ch]
             level == Level("CTU_LEVEL", <<CtuArea(cfg)>>, TRUE)
             a == CtuArea(cfg)
             none == <<>>
  <2>1. p = InitCtu(cfg, ch) BY DEF Init
  <2>2. p.stack = <<level>> /\ p.modeType = "ALL" /\ p.treeType = "TREE_D"
    <3>1. /\ InitCtu(cfg, ch).stack = <<level>> /\ InitCtu(cfg, ch).modeType = "ALL"
          /\ InitCtu(cfg, ch).treeType = "TREE_D"
      BY DEF InitCtu, CtuArea
    <3> HIDE DEF p, level
    <3> QED BY <2>1, <3>1
  <2>3. /\ level.split = "CTU_LEVEL" /\ level.parts = <<a>> /\ level.idx = 0
        /\ level.implicit = "UNCHECKED"
    BY DEF Level
  <2>4. AreaOK(cfg, ch, a, "ALL") BY <1>1, UnitFacts
  <2>5. a.w = a.h BY DEF CtuArea
  <2> HIDE DEF a, level, p
  <2>6. Len(<<a>>) = 1 /\ <<a>>[1] = a /\ 1 .. 1 = {1} OBVIOUS
  <2>7. "CTU_LEVEL" \notin MtSplits BY DEF MtSplits, BtSplits, TtSplits
  <2>8. LevelShape(cfg, ch, level, "ALL") BY <2>3, <2>4, <2>5, <2>6 DEF LevelShape
  <2>9. Shaped(cfg, ch, p.stack, none, "ALL")
    <3>1. DOMAIN <<level>> = {1} /\ <<level>>[1] = level /\ Len(none) = 0 OBVIOUS
    <3> HIDE DEF none
    <3>2. ModeAt(none, "ALL", 1) = "ALL" BY <3>1 DEF ModeAt
    <3> QED BY <2>2, <2>3, <2>8, <3>1, <3>2 DEF Shaped, a
  <2>10. Area(p) = a
    <3>1. Last(<<level>>) = level BY DEF Last
    <3>2. 0 + 1 = 1 OBVIOUS
    <3> QED BY <2>2, <2>3, <2>6, <3>1, <3>2 DEF Area, CurrentPart
  <2> QED BY <2>2, <2>9, <2>10 DEF a, p
<1>3. Led(cfg, calls, "ALL")
  <2>1. "ALL" \in ModesOf(cfg) BY DEF ModesOf, Modes
  <2> QED BY <1>1, <2>1, EmptyIsSeq DEF Led
<1>4. TreeOK(parts[cur], calls) BY <1>1, <1>2 DEF TreeOK, InItsChroma, Channels
<1>5. InPicture(cfg, CtuArea(cfg).x, CtuArea(cfg).y) BY <1>1, UnitFacts DEF CtuArea
<1> QED BY <1>1, <1>2, <1>3, <1>4, <1>5 DEF ShapeInv, WaitingFor, Channels

\* A CHECK that fails, and nothing at all.
LEMMA NothingShape ==
  ASSUME ShapeInv, Abort \/ UNCHANGED vars
  PROVE  ShapeInv'
<1>1. /\ cfg' = cfg /\ parts' = parts /\ cur' = cur /\ calls' = calls /\ (pc' = "tree" => pc = "tree")
  BY DEF Abort, vars
<1> QED BY <1>1 DEF ShapeInv, WaitingFor

\* The quadtree split of luma and chroma at once.
LEMMA SplitJointlyShape ==
  ASSUME IInv, ShapeInv, SplitJointly
  PROVE  ShapeInv'
<1> DEFINE call == [kind |-> "joint"]
           Q(ch) == SplitCurrArea(cfg, parts[ch], "QUAD")
           none == <<>>
<1>1. CASE \E ch \in Channels : SplitFails(parts[ch], "QUAD")
  BY <1>1, NothingShape DEF SplitJointly
<1>2. CASE ~\E ch \in Channels : SplitFails(parts[ch], "QUAD")
  <2>1. /\ parts' = [ch \in Channels |-> Q(ch)] /\ calls' = <<call>>
        /\ cfg' = cfg /\ cur' = cur /\ pc' = pc /\ cur \in Channels
    BY <1>2 DEF SplitJointly, IInv
  <2>2. calls = <<>> /\ cfg.dual /\ ValidConfig(cfg) /\ cfg.ctu > 64
    BY ConfigAssumption DEF SplitJointly, WithChroma, IsJoint, IInv
  <2>3. ~InItsChroma(calls) /\ ~Alternates(calls) /\ Len(calls) = 0
    BY <2>2, EmptyIsSeq DEF InItsChroma, Alternates
  <2>4. ASSUME NEW ch \in Channels
        PROVE  /\ PartOK(parts[ch]) /\ Len(parts[ch].stack) = 1
               /\ Shaped(cfg, ch, parts[ch].stack, none, "ALL")
               /\ parts[ch].modeType = "ALL" /\ parts[ch].treeType = "TREE_D"
    <3>1. Len(parts[ch].stack) = 1 BY <2>3 DEF IInv, LengthInv
    <3>2. Shaped(cfg, ch, parts[ch].stack, none, parts[ch].modeType) BY <2>2 DEF ShapeInv, WaitingFor
    <3>3. parts[ch].modeType = "ALL" /\ parts[ch].treeType = "TREE_D"
      <4>1. CASE ch = cur
        <5>1. parts[cur].modeType \in ModesOf(cfg) /\ TreeOK(parts[cur], calls) BY DEF ShapeInv, Led
        <5> QED BY <2>2, <2>3, <4>1, <5>1 DEF TreeOK, ModesOf
      <4>2. CASE ch # cur BY <4>2 DEF ShapeInv
      <4> QED BY <4>1, <4>2
    <3>4. PartOK(parts[ch]) BY DEF IInv, PartsOK
    <3> QED BY <3>1, <3>2, <3>3, <3>4
  <2>5. BorderOK(cfg) /\ InPicture(cfg, CtuArea(cfg).x, CtuArea(cfg).y)
    BY <2>2, UnitFacts DEF CtuArea
  <2>6. ASSUME NEW ch \in Channels PROVE AllModes(cfg, ch, Q(ch)) /\ (ch = cur => Area(Q(ch)).x = cfg.ctuX /\ Area(Q(ch)).y = cfg.ctuY)
    <3> DEFINE p == parts[ch]
               k == Checked(cfg, p)
               areas == SubAreas(CtuArea(cfg), "QUAD")
               q == SplitCurrArea(cfg, p, "QUAD")
    <3>1. /\ PartOK(p) /\ Len(p.stack) = 1 /\ Shaped(cfg, ch, p.stack, none, "ALL")
          /\ p.modeType = "ALL" /\ p.treeType = "TREE_D"
      BY <2>4
    <3> HIDE DEF p, none
    <3>2. Area(p) = CtuArea(cfg) BY <3>1, WholeArea
    <3>3. Shaped(cfg, ch, k.stack, none, "ALL") BY <2>5, <3>1, <3>2, CheckedShape
    <3>4. Len(k.stack) = 1 /\ PartOK(k) BY <3>1, CheckedOK
    <3>5. PICK qgEnable : /\ q.stack = Append(k.stack, Level("QUAD", SubAreas(Area(p), "QUAD"), qgEnable))
                          /\ SameKinds(q, p)
      BY <3>1, SplitStack
    <3> DEFINE level == Level("QUAD", areas, qgEnable)
    <3>6. LevelShape(cfg, ch, level, "ALL") BY <2>2, UnitsQuarters
    <3>7. q.stack = Append(k.stack, level) BY <3>2, <3>5
    <3>8. IsSeq(k.stack) /\ k.stack # <<>> BY <3>4 DEF PartOK, StackOK
    <3>9. Last(q.stack) = level /\ IsSeq(q.stack)
      <4> HIDE DEF level, k, q
      <4> QED BY <3>7, <3>8, AppendIsSeq
    <3>10. level.parts = areas /\ level.idx = 0 BY DEF Level
    <3> HIDE DEF level, k, q
    <3>11. IsSeq(none) /\ Len(none) = 0 BY EmptyIsSeq DEF none
    <3> DEFINE joint == [kind |-> "joint"]
    <3>12. ModeOf(joint) = "ALL" /\ joint.kind = "joint" BY DEF ModeOf
    <3> HIDE DEF joint
    <3>13. Shaped(cfg, ch, Append(k.stack, level), Append(none, joint), "ALL")
      <4>1. Len(k.stack) = Len(none) + 1 BY <3>4, <3>11
      <4>2. GrowsShape(cfg, ch, k.stack, level, none, joint, "ALL") BY <3>8, <3>11, <4>1, ShapedAppend
      <4> QED BY <3>3, <3>6, <3>12, <4>2 DEF GrowsShape
    <3>14. Append(none, joint) = <<joint>> BY DEF none
    <3>15. Shaped(cfg, ch, q.stack, <<>>, "ALL") BY <3>7, <3>9, <3>12, <3>13, <3>14, JointShape
    <3>16. AllModes(cfg, ch, q) BY <3>1, <3>5, <3>9, <3>15 DEF AllModes, SameKinds
    <3>17. Area(q).x = cfg.ctuX /\ Area(q).y = cfg.ctuY
      <4>1. "QUAD" \in Splits BY DEF Splits
      <4>2. areas[1].x = CtuArea(cfg).x /\ areas[1].y = CtuArea(cfg).y BY <4>1, SubAreasFacts
      <4>3. 0 + 1 = 1 OBVIOUS
      <4> HIDE DEF areas
      <4>4. Area(q) = areas[1] BY <3>9, <3>10, <4>3 DEF Area, CurrentPart
      <4> QED BY <4>2, <4>4 DEF CtuArea
    <3> QED BY <3>16, <3>17 DEF q, p
  <2> HIDE DEF Q
  <2>7. \A ch \in Channels : parts'[ch] = Q(ch) BY <2>1
  <2>8. InPicture(cfg, Area(parts'[cur']).x, Area(parts'[cur']).y)
    BY <2>1, <2>5, <2>6, <2>7 DEF CtuArea
  <2>9. call.kind = "joint" OBVIOUS
  <2> HIDE DEF call
  <2> QED BY <2>1, <2>2, <2>6, <2>7, <2>8, <2>9, AllModesKeep
<1> QED BY <1>1, <1>2

\* A coding unit.
LEMMA CodeUnitShape ==
  ASSUME IInv, ShapeInv, CodeUnit
  PROVE  ShapeInv'
<1> DEFINE lost == IsSepTree(cfg, part) /\ part.chType = "CHROMA" /\ LumaRef(cfg, area) \notin coded["LUMA"]
<1>1. CASE lost BY <1>1, NothingShape DEF CodeUnit
<1>2. CASE ~lost
  <2>1. /\ parts' = [parts EXCEPT ![cur] = part] /\ calls' = calls /\ cfg' = cfg /\ cur' = cur
        /\ pc' = "return" /\ pc = "tree"
    BY <1>2 DEF CodeUnit
  <2>2. /\ Shaped(cfg, cur, part.stack, calls', part.modeType) /\ Led(cfg, calls', part.modeType)
        /\ TreeOK(part, calls')
    BY <2>1, Here
  <2> HIDE DEF part
  <2> QED BY <2>1, <2>2, OneShape
<1> QED BY <1>1, <1>2

\* The next part of a block.
LEMMA NextNodePartShape ==
  ASSUME IInv, ShapeInv, NextNodePart
  PROVE  ShapeInv'
<1> DEFINE p == parts[cur]
           q == NextPart(p)
<1>1. /\ parts' = [parts EXCEPT ![cur] = q] /\ cfg' = cfg /\ cur' = cur /\ calls' = calls
      /\ pc' = Called(parts'[cur])
  BY DEF NextNodePart
<1>2. PartOK(p) /\ cur \in Channels BY DEF IInv, PartsOK
<1>3. parts'[cur] = q BY <1>1 DEF IInv, PartsOK
<1>4. /\ Shaped(cfg, cur, p.stack, calls, p.modeType) /\ Led(cfg, calls, p.modeType) /\ TreeOK(p, calls)
  BY <1>2 DEF ShapeInv, WaitingFor
<1>5. pc' = "tree" => InPicture(cfg, Area(q).x, Area(q).y) BY <1>1, <1>3 DEF Called
<1> HIDE DEF q, p
<1>6. Shaped(cfg, cur, q.stack, calls, p.modeType) /\ SameKinds(q, p) BY <1>2, <1>4, NextShape DEF q
<1>7. Shaped(cfg, cur, q.stack, calls', q.modeType) /\ Led(cfg, calls', q.modeType) /\ TreeOK(q, calls')
  BY <1>1, <1>4, <1>6 DEF SameKinds, TreeOK
<1> QED BY <1>1, <1>5, <1>7, OneShape

\* A split of one tree.
LEMMA SplitNodeShape ==
  ASSUME IInv, ShapeInv, NEW split \in Splits, SplitNode(split)
  PROVE  ShapeInv'
<1>1. /\ pc = "tree" /\ split \in permitted
      /\ \E modeType \in ModeTypes(cfg, part, split) :
           LET chromaNotSplit == part.modeType = "ALL" /\ modeType = "INTRA"
               node == [part EXCEPT !.modeType = modeType,
                          !.treeType = IF chromaNotSplit /\ @ = "TREE_D" THEN "TREE_L" ELSE @]
           IN IF SplitFails(node, split) \/ (chromaNotSplit /\ part.chType # "LUMA") THEN Abort
              ELSE /\ parts' = [parts EXCEPT ![cur] = SplitCurrArea(cfg, node, split)]
                   /\ calls' = Append(calls, [kind |-> "node", modeTypeParent |-> part.modeType,
                                              chromaNotSplit |-> chromaNotSplit])
                   /\ qgStart' = Starts
                   /\ UNCHANGED <<cfg, cur, pc, group, coded>>
  BY DEF SplitNode
<1>2. PICK modeType \in ModeTypes(cfg, part, split) :
        LET chromaNotSplit == part.modeType = "ALL" /\ modeType = "INTRA"
            node == [part EXCEPT !.modeType = modeType,
                       !.treeType = IF chromaNotSplit /\ @ = "TREE_D" THEN "TREE_L" ELSE @]
        IN IF SplitFails(node, split) \/ (chromaNotSplit /\ part.chType # "LUMA") THEN Abort
           ELSE /\ parts' = [parts EXCEPT ![cur] = SplitCurrArea(cfg, node, split)]
                /\ calls' = Append(calls, [kind |-> "node", modeTypeParent |-> part.modeType,
                                           chromaNotSplit |-> chromaNotSplit])
                /\ qgStart' = Starts
                /\ UNCHANGED <<cfg, cur, pc, group, coded>>
  BY <1>1
<1> DEFINE chromaNotSplit == part.modeType = "ALL" /\ modeType = "INTRA"
           node1 == [part EXCEPT !.modeType = modeType]
           treeType == IF chromaNotSplit /\ node1.treeType = "TREE_D" THEN "TREE_L" ELSE node1.treeType
           node == [node1 EXCEPT !.treeType = treeType]
           q == SplitCurrArea(cfg, node, split)
           call == [kind |-> "node", modeTypeParent |-> part.modeType,
                    chromaNotSplit |-> chromaNotSplit]
           fails == SplitFails(node, split) \/ (chromaNotSplit /\ part.chType # "LUMA")
<1>3. IF fails THEN Abort
      ELSE /\ parts' = [parts EXCEPT ![cur] = q] /\ calls' = Append(calls, call)
           /\ qgStart' = Starts /\ UNCHANGED <<cfg, cur, pc, group, coded>>
  BY <1>2
<1>4. CASE fails BY <1>3, <1>4, NothingShape
<1>5. CASE ~fails
  <2>1. /\ parts' = [parts EXCEPT ![cur] = q] /\ calls' = Append(calls, call)
        /\ cfg' = cfg /\ cur' = cur /\ pc' = pc
    BY <1>3, <1>5
  <2>2. ~SplitFails(node, split) BY <1>5
  <2>3. /\ call.kind = "node" /\ call.modeTypeParent = part.modeType
        /\ call.chromaNotSplit = chromaNotSplit
    OBVIOUS
  <2>4. /\ ValidConfig(cfg) /\ PartOK(part) /\ area = Area(part) /\ InPicture(cfg, area.x, area.y)
        /\ Shaped(cfg, cur, part.stack, calls, part.modeType)
        /\ Led(cfg, calls, part.modeType) /\ TreeOK(part, calls) /\ IsSeq(calls)
        /\ part.modeType \in ModesOf(cfg)
    BY <1>1, Here
  <2>5. Top(part).implicit # "UNCHECKED" /\ Len(part.stack) = Len(parts[cur].stack) BY PartFacts
  <2>6. modeType \in ModeTypes(cfg, part, split) OBVIOUS
  <2> DEFINE M == part.modeType
             T == part.treeType
  <2>7. /\ PartOK(node) /\ node.stack = part.stack /\ node.btDepth = part.btDepth
        /\ node.mtDepth = part.mtDepth /\ node.modeType = modeType /\ node.treeType = treeType
        /\ node1.treeType = T
    <3> HIDE DEF treeType, chromaNotSplit, part
    <3>1. /\ IsRecord(node1, PartFields) /\ \A f \in PartFields : f # "modeType" => node1[f] = part[f]
          /\ node1.modeType = modeType
      BY <2>4 DEF PartOK, IsRecord, PartFields
    <3> HIDE DEF node1
    <3>2. /\ IsRecord(node, PartFields) /\ \A f \in PartFields : f # "treeType" => node[f] = node1[f]
          /\ node.treeType = treeType
      BY <3>1 DEF IsRecord, PartFields
    <3> HIDE DEF node
    <3>3. \A f \in PartFields \ {"chType", "treeType", "modeType"} : node[f] = part[f]
      BY <3>1, <3>2
    <3>4. node.modeType = modeType /\ node1.treeType = T BY <3>1, <3>2 DEF PartFields
    <3> QED BY <2>4, <3>2, <3>3, <3>4, Relabelled
  <2>8. treeType = IF chromaNotSplit /\ T = "TREE_D" THEN "TREE_L" ELSE T BY <2>7
  <2> HIDE DEF node, node1, treeType, call, q, part
  <2>9. ~SplitFails(part, split) BY <2>2, <2>7 DEF SplitFails, Area
  <2>10. Splittable(cfg, cur, part, split) /\ ~InItsChroma(calls)
    BY <1>1, <2>9, PermittedIsSplittable
  <2>11. Checked(cfg, node) = node
    <3>1. Top(node) = Top(part) BY <2>7 DEF Top
    <3> QED BY <2>5, <2>7, <3>1, CheckedOK
  <2> DEFINE areas == SubAreas(area, split)
  <2>12. PICK qgEnable : /\ q.stack = Append(Checked(cfg, node).stack, Level(split, SubAreas(Area(node), split), qgEnable))
                         /\ SameKinds(q, node)
    BY <2>7, SplitStack DEF q
  <2> DEFINE level == Level(split, areas, qgEnable)
  <2>13. q.stack = Append(part.stack, level)
    <3>1. Area(node) = area BY <2>4, <2>7 DEF Area
    <3> QED BY <2>7, <2>11, <2>12, <3>1
  <2>14. LevelShape(cfg, cur, level, modeType)
    <3>1. \A i \in 1 .. Len(areas) :
             /\ AreaOK(cfg, cur, areas[i], modeType)
             /\ split = "QUAD" => modeType # "INTER" /\ areas[i].w = areas[i].h
      BY <2>4, <2>6, <2>10, PartsFit
    <3>2. Len(areas) \in Nat /\ Len(areas) > 0 BY SubAreasFacts
    <3> HIDE DEF areas
    <3> QED BY <3>1, <3>2, NewLevel
  <2>15. ModeOf(call) = M BY <2>3 DEF ModeOf
  <2>16. /\ modeType \in ModesOf(cfg) /\ (M # "ALL" => modeType = M) /\ (cfg.dual => modeType = M)
    BY <2>4, <2>6 DEF ModeTypes, ModesOf, Modes
  <2>17. Shaped(cfg, cur, q.stack, calls', modeType)
    <3>1. IsSeq(part.stack) /\ part.stack # <<>> BY <2>4 DEF PartOK, StackOK
    <3>2. Len(part.stack) = Len(calls) + 1
      <4>1. Len(parts[cur].stack) = 1 + Len(calls) - 0 BY <2>10 DEF IInv, LengthInv
      <4>2. Len(calls) \in Nat BY <2>4, AppendIsSeq
      <4> QED BY <2>5, <4>1, <4>2
    <3> HIDE DEF level
    <3>3. GrowsShape(cfg, cur, part.stack, level, calls, call, modeType)
      BY <2>4, <3>1, <3>2, ShapedAppend
    <3> QED BY <2>1, <2>4, <2>13, <2>14, <2>15, <3>3 DEF GrowsShape
  <2>18. Led(cfg, calls', modeType)
    <3>1. Leads(cfg, call, modeType) BY <2>3, <2>4, <2>15, <2>16 DEF Leads
    <3>2. Led(cfg, Append(calls, call), modeType) BY <2>4, <2>15, <2>16, <3>1, LedAppend
    <3> QED BY <2>1, <3>2
  <2>19. TreeOK(q, calls')
    <3>1. ~InItsChroma(calls')
      <4>1. Last(Append(calls, call)) = call BY <2>4, AppendIsSeq
      <4> QED BY <2>1, <2>3, <4>1 DEF InItsChroma
    <3>2. T = (IF M = "INTRA" THEN "TREE_L" ELSE "TREE_D") BY <2>4, <2>10 DEF TreeOK
    <3>3. q.treeType = treeType /\ q.modeType = modeType BY <2>7, <2>12 DEF SameKinds
    <3> QED BY <2>8, <2>16, <3>1, <3>2, <3>3 DEF TreeOK
  <2>20. q.modeType = modeType BY <2>7, <2>12 DEF SameKinds
  <2>21. InPicture(cfg, Area(q).x, Area(q).y)
    <3>1. Last(q.stack) = level
      <4>1. IsSeq(part.stack) BY <2>4 DEF PartOK, StackOK
      <4> HIDE DEF level
      <4> QED BY <2>13, <4>1, AppendIsSeq
    <3>2. level.parts = areas /\ level.idx = 0 BY DEF Level
    <3>3. areas[1].x = area.x /\ areas[1].y = area.y BY SubAreasFacts
    <3>4. 0 + 1 = 1 OBVIOUS
    <3> HIDE DEF level, areas
    <3>5. Area(q) = areas[1] BY <3>1, <3>2, <3>4 DEF Area, CurrentPart
    <3> QED BY <2>4, <3>3, <3>5
  <2>22. Shaped(cfg, cur, q.stack, calls', q.modeType) /\ Led(cfg, calls', q.modeType)
    BY <2>17, <2>18, <2>20
  <2> QED BY <2>1, <2>19, <2>21, <2>22, OneShape
<1> QED BY <1>4, <1>5

-----------------------------------------------------------------------------
(* The ways out of a split.                                                 *)

\* What holds of the last call, when it is back in its loop.
LEMMA BackInLoop ==
  ASSUME IInv, ShapeInv, calls # <<>>, pc = "return"
  PROVE  LET p == parts[cur]
             last == Last(calls)
             before == Front(calls)
         IN /\ calls = Append(before, last) /\ IsSeq(before) /\ ~InItsChroma(before)
            /\ Len(calls) = Len(before) + 1 /\ Len(before) \in Nat
            /\ PartOK(p) /\ Shaped(cfg, cur, p.stack, calls, p.modeType)
            /\ Led(cfg, before, ModeOf(last)) /\ Leads(cfg, last, p.modeType)
            /\ CallOK(last, cur) /\ TreeOK(p, calls) /\ p.modeType \in ModesOf(cfg)
            /\ (InItsChroma(calls) <=> last.kind = "chroma")
<1> DEFINE p == parts[cur]
           last == Last(calls)
           before == Front(calls)
<1>1. /\ calls = Append(before, last) /\ IsSeq(before) /\ ~InItsChroma(before)
      /\ Len(calls) = Len(before) + 1 /\ Len(before) \in Nat
      /\ CallOK(last, cur) /\ (InItsChroma(calls) <=> last.kind = "chroma")
  BY LastCall
<1>2. PartOK(p) /\ cur \in Channels BY DEF IInv, PartsOK
<1>3. Shaped(cfg, cur, p.stack, calls, p.modeType) /\ Led(cfg, calls, p.modeType) /\ TreeOK(p, calls)
  BY <1>2 DEF ShapeInv, WaitingFor
<1> HIDE DEF p, last, before
<1>4. Led(cfg, Append(before, last), p.modeType) BY <1>1, <1>3
<1>5. /\ p.modeType \in ModesOf(cfg) /\ Led(cfg, before, ModeOf(last)) /\ Leads(cfg, last, p.modeType)
  BY <1>1, <1>4, LedAppend
<1> QED BY <1>1, <1>2, <1>3, <1>5 DEF p, last, before

\* Without its top level, a stack has the mode of the call that split its block.
LEMMA ShapedFront ==
  ASSUME NEW c, NEW ch, NEW p, PartOK(p), NEW s, IsSeq(s), NEW call, NEW m, Len(p.stack) = Len(s) + 2,
         Shaped(c, ch, p.stack, Append(s, call), m)
  PROVE  Shaped(c, ch, Front(p.stack), s, ModeOf(call)) /\ IsSeq(Front(p.stack)) /\ Len(Front(p.stack)) = Len(s) + 1
<1> DEFINE f == Front(p.stack)
           top == Top(p)
<1>1. p.stack = Append(f, top) /\ IsSeq(f) /\ Len(p.stack) = Len(f) + 1 /\ Len(f) \in Nat
  BY StackParts
<1>2. Len(s) \in Nat BY AppendIsSeq
<1>3. Len(f) = Len(s) + 1
  <2> HIDE DEF f
  <2> QED BY <1>1, <1>2
<1>4. f # <<>>
  <2>1. Len(f) # 0 BY <1>2, <1>3
  <2> HIDE DEF f
  <2> QED BY <2>1, EmptyIsSeq
<1>5. Shaped(c, ch, Append(f, top), Append(s, call), m) BY <1>1
<1> HIDE DEF f, top
<1>6. GrowsShape(c, ch, f, top, s, call, m) BY <1>1, <1>3, <1>4, ShapedAppend
<1>7. Shaped(c, ch, f, s, ModeOf(call)) BY <1>5, <1>6 DEF GrowsShape
<1> QED BY <1>1, <1>3, <1>7 DEF f

\* The end of the loop over the parts, with or without a chroma tree to follow.
LEMMA ExitNodeShape ==
  ASSUME IInv, ShapeInv, ExitNode
  PROVE  ShapeInv'
<1> DEFINE p == parts[cur]
           left == ExitCurrSplit(p)
           last == Last(calls)
           before == Front(calls)
           M == last.modeTypeParent
           ofChroma1 == [left EXCEPT !.chType = "CHROMA"]
           ofChroma == [ofChroma1 EXCEPT !.treeType = "TREE_C"]
           joined == [left EXCEPT !.modeType = M]
           chromaCall == [last EXCEPT !.kind = "chroma"]
<1>1. pc = "return" /\ calls # <<>> /\ last.kind = "node" /\ ~HasNextPart(p)
  BY DEF ExitNode, InLoop
<1>2. CASE ExitFails(p) BY <1>2, NothingShape DEF ExitNode
<1>3. CASE ~ExitFails(p)
  <2>1. /\ calls = Append(before, last) /\ IsSeq(before) /\ ~InItsChroma(before)
        /\ Len(calls) = Len(before) + 1 /\ Len(before) \in Nat
        /\ PartOK(p) /\ Shaped(cfg, cur, p.stack, calls, p.modeType)
        /\ Led(cfg, before, ModeOf(last)) /\ Leads(cfg, last, p.modeType)
        /\ CallOK(last, cur) /\ TreeOK(p, calls) /\ p.modeType \in ModesOf(cfg)
        /\ ~InItsChroma(calls)
    BY <1>1, BackInLoop
  <2>2. Len(p.stack) = Len(before) + 2
    <3>1. Len(p.stack) = 1 + Len(calls) BY <1>1, LoopFacts
    <3> HIDE DEF p, before
    <3> QED BY <2>1, <3>1
  <2>3. /\ left.stack = Front(p.stack) /\ SameKinds(left, p) BY <2>1, ExitStack
  <2>4. PartOK(left)
    <3>1. Len(p.stack) > 1
      <4> HIDE DEF p, before
      <4> QED BY <2>1, <2>2
    <3> QED BY <1>1, <2>1, <3>1, ExitOK
  <2>5. Shaped(cfg, cur, left.stack, before, ModeOf(last)) /\ IsSeq(left.stack) /\ Len(left.stack) = Len(before) + 1
    <3>1. Shaped(cfg, cur, p.stack, Append(before, last), p.modeType) BY <2>1
    <3> HIDE DEF p, left, before, last
    <3> QED BY <2>1, <2>2, <2>3, <3>1, ShapedFront
  <2>6. ModeOf(last) = M /\ M \in ModesOf(cfg)
    <3>1. ModeOf(last) = M BY <1>1 DEF ModeOf
    <3> QED BY <2>1, <3>1 DEF Led
  <2>7. /\ last.chromaNotSplit <=> (M = "ALL" /\ p.modeType = "INTRA")
        /\ M # "ALL" => p.modeType = M
    <3> HIDE DEF last, p
    <3> QED BY <1>1, <2>1 DEF Leads, last
  <2>8. p.treeType = (IF p.modeType = "INTRA" THEN "TREE_L" ELSE "TREE_D") BY <2>1 DEF TreeOK
  <2>9. left.modeType = p.modeType /\ left.treeType = p.treeType BY <2>3 DEF SameKinds
  <2>10. IsRecord(left, PartFields) BY <2>4 DEF PartOK
  <2>11. CASE last.chromaNotSplit
    <3>1. /\ parts' = [parts EXCEPT ![cur] = [left EXCEPT !.chType = "CHROMA", !.treeType = "TREE_C"]]
          /\ calls' = [calls EXCEPT ![Len(calls)].kind = "chroma"]
          /\ pc' = Called(left) /\ UNCHANGED <<cfg, cur, qgStart, group, coded>>
      BY <1>1, <1>3, <2>11 DEF ExitNode
    <3>2. /\ calls' = [calls EXCEPT ![Len(calls)] = chromaCall] /\ parts' = [parts EXCEPT ![cur] = ofChroma]
          /\ cfg' = cfg /\ cur' = cur
      BY <3>1 DEF Last
    <3>3. pc' = "tree" => InPicture(cfg, Area(left).x, Area(left).y) BY <3>1 DEF Called
    <3>4. IsRecord(last, CallFields) BY <1>1, <2>1 DEF CallOK
    <3>5. chromaCall.kind = "chroma" /\ \A f \in CallFields : f # "kind" => chromaCall[f] = last[f]
      BY <3>4 DEF IsRecord, CallFields
    <3>6. chromaCall.modeTypeParent = M /\ chromaCall.chromaNotSplit = last.chromaNotSplit
      <4> HIDE DEF chromaCall, last
      <4> QED BY <3>5 DEF CallFields
    <3> HIDE DEF left, p, last, before, chromaCall
    <3>7. calls' = Append(before, chromaCall)
      <4>1. \A d : [Append(before, last) EXCEPT ![Len(before) + 1] = d] = Append(before, d)
        BY <2>1, AppendIsSeq
      <4> QED BY <2>1, <3>2, <4>1
    <3>8. /\ ofChroma.stack = left.stack /\ ofChroma.modeType = left.modeType
          /\ ofChroma.treeType = "TREE_C"
      <4>1. /\ IsRecord(ofChroma1, PartFields)
            /\ \A f \in PartFields : f # "chType" => ofChroma1[f] = left[f]
        BY <2>10 DEF IsRecord, PartFields
      <4> HIDE DEF ofChroma1
      <4>2. /\ ofChroma.treeType = "TREE_C"
            /\ \A f \in PartFields : f # "treeType" => ofChroma[f] = ofChroma1[f]
        BY <4>1 DEF IsRecord, PartFields
      <4> HIDE DEF ofChroma
      <4> QED BY <4>1, <4>2 DEF PartFields
    <3> HIDE DEF ofChroma
    <3>9. ModeOf(chromaCall) = M BY <3>5, <3>6 DEF ModeOf
    <3>10. Shaped(cfg, cur, left.stack, Append(before, chromaCall), "INTRA")
      <4>1. Shaped(cfg, cur, left.stack, before, ModeOf(chromaCall)) BY <2>5, <2>6, <3>9
      <4> QED BY <2>1, <2>5, <4>1, ShapedShort
    <3>11. p.modeType = "INTRA" /\ M = "ALL" BY <2>7, <2>11
    <3>12. Led(cfg, Append(before, chromaCall), "INTRA")
      <4>1. Leads(cfg, chromaCall, "INTRA") BY <2>6, <2>11, <3>5, <3>6, <3>9, <3>11 DEF Leads
      <4>2. Led(cfg, before, ModeOf(chromaCall)) /\ "INTRA" \in ModesOf(cfg)
        BY <2>1, <2>6, <3>9, <3>11
      <4> QED BY <2>1, <4>1, <4>2, LedAppend
    <3>13. TreeOK(ofChroma, calls')
      <4>1. Last(Append(before, chromaCall)) = chromaCall /\ Append(before, chromaCall) # <<>>
        BY <2>1, AppendIsSeq
      <4>2. InItsChroma(calls') /\ Last(calls').modeTypeParent = "ALL"
        BY <3>5, <3>6, <3>7, <3>11, <4>1 DEF InItsChroma
      <4> QED BY <2>9, <3>8, <3>11, <4>2 DEF TreeOK
    <3>14. ofChroma.modeType = "INTRA" BY <2>9, <3>8, <3>11
    <3>15. Area(ofChroma) = Area(left) BY <3>8 DEF Area
    <3>16. /\ Shaped(cfg, cur, ofChroma.stack, calls', ofChroma.modeType)
           /\ Led(cfg, calls', ofChroma.modeType)
      BY <3>7, <3>8, <3>10, <3>12, <3>14
    <3> QED BY <3>2, <3>3, <3>13, <3>15, <3>16, OneShape
  <2>12. CASE ~last.chromaNotSplit
    <3>1. /\ parts' = [parts EXCEPT ![cur] = joined] /\ calls' = before
          /\ cfg' = cfg /\ cur' = cur /\ pc' = "return"
      BY <1>1, <1>3, <2>12 DEF ExitNode
    <3> HIDE DEF left, p, last, before, M
    <3>2. joined.stack = left.stack /\ joined.modeType = M /\ joined.treeType = left.treeType
      <4>1. joined.modeType = M /\ \A f \in PartFields : f # "modeType" => joined[f] = left[f]
        BY <2>10 DEF IsRecord, PartFields
      <4> HIDE DEF joined
      <4> QED BY <4>1 DEF PartFields
    <3> HIDE DEF joined
    <3>3. TreeOK(joined, calls') BY <2>1, <2>7, <2>8, <2>9, <2>12, <3>1, <3>2 DEF TreeOK
    <3>4. Shaped(cfg, cur, joined.stack, calls', joined.modeType) /\ Led(cfg, calls', joined.modeType)
      BY <2>1, <2>5, <2>6, <3>1, <3>2
    <3> QED BY <3>1, <3>3, <3>4, OneShape
  <2> QED BY <2>11, <2>12
<1> QED BY <1>2, <1>3

\* After the chroma of a block whose luma alone was split.
LEMMA RecoverShape ==
  ASSUME IInv, ShapeInv, Recover
  PROVE  ShapeInv'
<1> DEFINE p == parts[cur]
           last == Last(calls)
           before == Front(calls)
           ofLuma1 == [p EXCEPT !.chType = "LUMA"]
           ofLuma == [ofLuma1 EXCEPT !.treeType = "TREE_D"]
           q == [ofLuma EXCEPT !.modeType = last.modeTypeParent]
<1>1. /\ pc = "return" /\ calls # <<>> /\ last.kind = "chroma" /\ calls' = before
      /\ cfg' = cfg /\ cur' = cur /\ pc' = "return"
  BY DEF Recover, InLoop
<1>2. parts' = [parts EXCEPT ![cur] = q] BY DEF Recover
<1>3. /\ calls = Append(before, last) /\ IsSeq(before) /\ ~InItsChroma(before)
      /\ Len(calls) = Len(before) + 1
      /\ PartOK(p) /\ Shaped(cfg, cur, p.stack, calls, p.modeType)
      /\ Led(cfg, before, ModeOf(last)) /\ TreeOK(p, calls) /\ InItsChroma(calls)
  BY <1>1, BackInLoop
<1>4. Len(p.stack) = Len(before) + 1 BY <1>1, <1>3, LoopFacts
<1>5. last.modeTypeParent = "ALL" /\ ModeOf(last) = "ALL" BY <1>1, <1>3 DEF TreeOK, ModeOf
<1> HIDE DEF p, last, before
<1>6. q.stack = p.stack /\ q.modeType = last.modeTypeParent /\ q.treeType = "TREE_D"
  <2>1. IsRecord(p, PartFields) BY <1>3 DEF PartOK
  <2>2. IsRecord(ofLuma1, PartFields) /\ \A f \in PartFields : f # "chType" => ofLuma1[f] = p[f]
    BY <2>1 DEF IsRecord, PartFields
  <2> HIDE DEF ofLuma1
  <2>3. /\ IsRecord(ofLuma, PartFields) /\ ofLuma.treeType = "TREE_D"
        /\ \A f \in PartFields : f # "treeType" => ofLuma[f] = ofLuma1[f]
    BY <2>2 DEF IsRecord, PartFields
  <2> HIDE DEF ofLuma
  <2>4. /\ q.modeType = last.modeTypeParent
        /\ \A f \in PartFields : f # "modeType" => q[f] = ofLuma[f]
    BY <2>3 DEF IsRecord, PartFields
  <2> HIDE DEF q
  <2> QED BY <2>2, <2>3, <2>4 DEF PartFields
<1> HIDE DEF q
<1>7. Shaped(cfg, cur, p.stack, before, ModeOf(last))
  <2>1. IsSeq(p.stack) BY <1>3 DEF PartOK, StackOK
  <2>2. Shaped(cfg, cur, p.stack, Append(before, last), p.modeType) BY <1>3
  <2> QED BY <1>3, <1>4, <2>1, <2>2, ShapedShort
<1>8. TreeOK(q, calls') BY <1>1, <1>3, <1>5, <1>6 DEF TreeOK
<1>9. Shaped(cfg, cur, q.stack, calls', q.modeType) /\ Led(cfg, calls', q.modeType)
  BY <1>1, <1>3, <1>5, <1>6, <1>7
<1>10. pc' # "tree" BY <1>1
<1> QED BY <1>1, <1>2, <1>8, <1>9, <1>10, OneShape

-----------------------------------------------------------------------------
(* Luma and chroma in turn, and the end of the walk.                        *)

\* One of the partitioners goes on, or stays, and the walk turns to the other one.
LEMMA TurnShape ==
  ASSUME IInv, ShapeInv, InLoop("joint"), NEW ch \in Channels, NEW q,
         q = parts[ch] \/ q = NextPart(parts[ch]),
         parts' = [parts EXCEPT ![ch] = q], cur' \in Channels, cur' # ch,
         pc' = Called(parts[cur']), cfg' = cfg, calls' = calls
  PROVE  ShapeInv'
<1> DEFINE call == Last(calls)
           p == parts[ch]
<1>1. /\ cfg.dual /\ calls = <<call>> /\ call.kind = "joint"
      /\ \A c \in Channels : AllModes(cfg, c, parts[c])
  BY JointFacts
<1>2. parts = [c \in Channels |-> parts[c]] /\ \A c \in Channels : PartOK(parts[c])
  BY DEF IInv, PartsOK
<1>3. parts'[ch] = q /\ \A c \in Channels \ {ch} : parts'[c] = parts[c]
  <2>1. parts' = [c \in Channels |-> IF c = ch THEN q ELSE parts[c]] BY <1>2
  <2> QED BY <2>1
<1>4. AllModes(cfg, ch, q)
  <2>1. CASE q = p BY <1>1, <2>1
  <2>2. CASE q = NextPart(p)
    <3>1. PartOK(p) /\ AllModes(cfg, ch, p) BY <1>1, <1>2
    <3> DEFINE n == NextPart(p)
    <3> HIDE DEF p
    <3>2. Shaped(cfg, ch, n.stack, <<>>, "ALL") /\ SameKinds(n, p) BY <3>1, NextShape DEF AllModes
    <3>3. IsSeq(n.stack)
      <4>1. /\ n.stack = Append(Front(p.stack), [Top(p) EXCEPT !.idx = @ + 1, !.implicit = "UNCHECKED"])
            /\ IsSeq(Front(p.stack))
        BY <3>1, NextStack, StackParts
      <4> QED BY <4>1, AppendIsSeq
    <3> HIDE DEF n
    <3>4. AllModes(cfg, ch, n) BY <3>1, <3>2, <3>3 DEF AllModes, SameKinds
    <3> QED BY <2>2, <3>4 DEF n, p
  <2> QED BY <2>1, <2>2 DEF p
<1>5. \A c \in Channels : AllModes(cfg, c, parts'[c]) BY <1>1, <1>3, <1>4
<1>6. pc' = "tree" => InPicture(cfg, Area(parts'[cur']).x, Area(parts'[cur']).y)
  <2>1. parts'[cur'] = parts[cur'] BY <1>3
  <2> QED BY <2>1 DEF Called
<1> HIDE DEF call
<1>7. cur' = "CHROMA" => cfg.dual BY <1>1
<1> QED BY <1>1, <1>5, <1>6, <1>7, AllModesKeep

\* From the luma of a block of 64 x 64 to its chroma.
LEMMA LumaThenChromaShape ==
  ASSUME IInv, ShapeInv, LumaThenChroma
  PROVE  ShapeInv'
<1> DEFINE q == Moved(parts["LUMA"])
<1>1. /\ InLoop("joint") /\ cur' = "CHROMA" /\ pc' = Called(parts["CHROMA"])
      /\ parts' = [parts EXCEPT !["LUMA"] = q] /\ cfg' = cfg /\ calls' = calls
  <2>1. parts = [ch \in Channels |-> parts[ch]] /\ "LUMA" \in Channels
    BY DEF IInv, PartsOK, Channels
  <2> QED BY <2>1 DEF LumaThenChroma
<1>2. q = parts["LUMA"] \/ q = NextPart(parts["LUMA"]) BY DEF Moved
<1>3. "LUMA" \in Channels /\ "CHROMA" \in Channels BY DEF Channels
<1> HIDE DEF q
<1>4. cur' \in Channels /\ cur' # "LUMA" /\ pc' = Called(parts[cur']) BY <1>1, <1>3
<1> QED BY <1>1, <1>2, <1>3, <1>4, TurnShape

\* On to the luma of the next block of 64 x 64.
LEMMA NextJointPartShape ==
  ASSUME IInv, ShapeInv, NextJointPart
  PROVE  ShapeInv'
<1>1. /\ InLoop("joint") /\ cur' = "LUMA" /\ pc' = Called(parts["LUMA"])
      /\ parts' = [parts EXCEPT !["CHROMA"] = NextPart(parts["CHROMA"])]
      /\ cfg' = cfg /\ calls' = calls
  <2>1. parts = [ch \in Channels |-> parts[ch]] /\ "CHROMA" \in Channels
    BY DEF IInv, PartsOK, Channels
  <2> QED BY <2>1 DEF NextJointPart
<1>2. "LUMA" \in Channels /\ "CHROMA" \in Channels BY DEF Channels
<1>3. cur' \in Channels /\ cur' # "CHROMA" /\ pc' = Called(parts[cur']) BY <1>1, <1>2
<1> QED BY <1>1, <1>2, <1>3, TurnShape

\* The end of the loop over the blocks of 64 x 64.
LEMMA ExitJointlyShape ==
  ASSUME IInv, ShapeInv, ExitJointly
  PROVE  ShapeInv'
<1> DEFINE Q(ch) == ExitCurrSplit(parts[ch])
           call == Last(calls)
<1>1. InLoop("joint") /\ cur = "CHROMA" BY DEF ExitJointly
<1>2. CASE \E ch \in Channels : ExitFails(parts[ch])
  BY <1>2, NothingShape DEF ExitJointly
<1>3. CASE ~\E ch \in Channels : ExitFails(parts[ch])
  <2>1. /\ parts' = [ch \in Channels |-> Q(ch)] /\ calls' = <<>>
        /\ cfg' = cfg /\ cur' = cur /\ pc' = pc
    BY <1>3 DEF ExitJointly
  <2>2. \A ch \in Channels : PartOK(parts[ch]) /\ Len(parts[ch].stack) = 2
    BY <1>1, AlternatingFacts
  <2>3. /\ cfg.dual /\ calls = <<call>> /\ call.kind = "joint"
        /\ \A ch \in Channels : AllModes(cfg, ch, parts[ch])
    BY <1>1, JointFacts
  <2> HIDE DEF call
  <2>4. ASSUME NEW ch \in Channels PROVE AllModes(cfg, ch, Q(ch))
    <3> DEFINE p == parts[ch]
               f == Front(p.stack)
               none == <<>>
               q == ExitCurrSplit(p)
    <3>1. PartOK(p) /\ Len(p.stack) = 2 /\ AllModes(cfg, ch, p) BY <2>2, <2>3
    <3>2. q.stack = f /\ SameKinds(q, p) BY <3>1, ExitStack
    <3>3. Shaped(cfg, ch, p.stack, <<call>>, "ALL") BY <2>3, <3>1, JointShape DEF AllModes
    <3>4. IsSeq(none) /\ Len(none) = 0 BY EmptyIsSeq
    <3>5. Append(none, call) = <<call>> OBVIOUS
    <3> HIDE DEF p, none, q
    <3>6. Len(p.stack) = Len(none) + 2 BY <3>1, <3>4
    <3>7. Shaped(cfg, ch, p.stack, Append(none, call), "ALL") BY <3>3, <3>5
    <3>8. Shaped(cfg, ch, Front(p.stack), none, ModeOf(call)) /\ IsSeq(Front(p.stack))
      BY <3>1, <3>4, <3>6, <3>7, ShapedFront
    <3>9. ModeOf(call) = "ALL" BY <2>3 DEF ModeOf
    <3>10. Shaped(cfg, ch, q.stack, <<>>, "ALL") /\ IsSeq(q.stack) BY <3>2, <3>8, <3>9 DEF none
    <3>11. AllModes(cfg, ch, q) BY <3>1, <3>2, <3>10 DEF AllModes, SameKinds
    <3> QED BY <3>11 DEF q, p
  <2> HIDE DEF Q
  <2>5. \A ch \in Channels : parts'[ch] = Q(ch) BY <2>1
  <2>6. cur' \in Channels /\ pc' # "tree" BY <1>1, <2>1 DEF InLoop, IInv
  <2>7. \A ch \in Channels : AllModes(cfg, ch, parts'[ch]) BY <2>4, <2>5
  <2>8. cur' = "CHROMA" => cfg.dual BY <2>3
  <2> QED BY <2>1, <2>6, <2>7, <2>8, AllModesKeep
<1> QED BY <1>2, <1>3

\* The second tree, or the end.
LEMMA EndOfTreeShape ==
  ASSUME IInv, ShapeInv, EndOfTree
  PROVE  ShapeInv'
<1>1. /\ pc = "return" /\ calls = <<>> /\ parts' = parts /\ calls' = <<>> /\ cfg' = cfg
      /\ \/ cfg.dual /\ cur' = "CHROMA" /\ pc' = "tree"
         \/ cur' = cur /\ pc' = "done"
  BY DEF EndOfTree
<1>2. CASE cur' = cur /\ pc' = "done" BY <1>1, <1>2 DEF ShapeInv, WaitingFor
<1>3. CASE cfg.dual /\ cur' = "CHROMA" /\ pc' = "tree"
  <2>1. ~InItsChroma(calls) /\ ~Alternates(calls) /\ Len(calls) = 0
    BY <1>1, EmptyIsSeq DEF InItsChroma, Alternates
  <2>2. parts[cur].modeType = "ALL" /\ parts[cur].treeType = "TREE_D"
    BY <1>3, <2>1 DEF ShapeInv, Led, ModesOf, TreeOK
  <2>3. ASSUME NEW ch \in Channels PROVE AllModes(cfg, ch, parts[ch])
    <3>1. Shaped(cfg, ch, parts[ch].stack, <<>>, parts[ch].modeType)
      BY <1>1 DEF ShapeInv, WaitingFor
    <3>2. parts[ch].modeType = "ALL" /\ parts[ch].treeType = "TREE_D"
      <4>1. CASE ch = cur BY <2>2, <4>1
      <4>2. CASE ch # cur BY <4>2 DEF ShapeInv
      <4> QED BY <4>1, <4>2
    <3>3. IsSeq(parts[ch].stack) BY DEF IInv, PartsOK, PartOK, StackOK
    <3> QED BY <3>1, <3>2, <3>3 DEF AllModes
  <2>4. "CHROMA" \in Channels BY DEF Channels
  <2>5. InPicture(cfg, Area(parts["CHROMA"]).x, Area(parts["CHROMA"]).y)
    <3> DEFINE p == parts["CHROMA"]
    <3>1. Len(p.stack) = 1
      <4>1. Len(parts[cur].stack) = 1 + 0 - 0 BY <2>1 DEF IInv, LengthInv
      <4> QED BY <2>1, <2>4, <4>1 DEF IInv, LengthInv
    <3>2. PartOK(p) BY <2>4 DEF IInv, PartsOK
    <3>3. Shaped(cfg, "CHROMA", p.stack, <<>>, "ALL") BY <2>3, <2>4 DEF AllModes
    <3> HIDE DEF p
    <3>4. Area(p) = CtuArea(cfg) BY <3>1, <3>2, <3>3, WholeArea
    <3>5. InPicture(cfg, cfg.ctuX, cfg.ctuY) BY ConfigAssumption, UnitFacts DEF IInv
    <3> QED BY <3>4, <3>5 DEF CtuArea, p
  <2>6. /\ cur' \in Channels /\ \A ch \in Channels : AllModes(cfg, ch, parts'[ch])
        /\ InPicture(cfg, Area(parts'[cur']).x, Area(parts'[cur']).y)
    BY <1>1, <1>3, <2>3, <2>4, <2>5
  <2>7. cur' = "CHROMA" => cfg.dual BY <1>3
  <2> QED BY <1>1, <2>6, <2>7, AllModesKeep
<1> QED BY <1>1, <1>2, <1>3

\* Every step of the walk keeps the invariant of the blocks.
LEMMA StepShape ==
  ASSUME IInv, ShapeInv, [Next]_vars
  PROVE  ShapeInv'
<1>1. CASE SplitJointly BY <1>1, SplitJointlyShape
<1>2. CASE CodeUnit BY <1>2, CodeUnitShape
<1>3. CASE \E split \in Splits : SplitNode(split) BY <1>3, SplitNodeShape
<1>4. CASE NextNodePart BY <1>4, NextNodePartShape
<1>5. CASE ExitNode BY <1>5, ExitNodeShape
<1>6. CASE Recover BY <1>6, RecoverShape
<1>7. CASE LumaThenChroma BY <1>7, LumaThenChromaShape
<1>8. CASE NextJointPart BY <1>8, NextJointPartShape
<1>9. CASE ExitJointly BY <1>9, ExitJointlyShape
<1>10. CASE EndOfTree BY <1>10, EndOfTreeShape
<1>11. CASE Finished BY <1>11, NothingShape DEF Finished
<1>12. CASE UNCHANGED vars BY <1>12, NothingShape
<1> QED BY <1>1, <1>2, <1>3, <1>4, <1>5, <1>6, <1>7, <1>8, <1>9, <1>10, <1>11, <1>12 DEF Next

\* The invariant of the blocks holds throughout the walk.
LEMMA ShapeInvAlways == Spec => [](IInv /\ ShapeInv)
<1>1. Init => IInv /\ ShapeInv BY InitKeeps, InitShape
<1>2. (IInv /\ ShapeInv) /\ [Next]_vars => (IInv /\ ShapeInv)' BY StepKeeps, StepShape
<1> QED BY <1>1, <1>2, PTL DEF Spec

-----------------------------------------------------------------------------
\* Whatever splits were taken, a unit that may be predicted intra has chroma of at
\* least 16 samples in rows of at least 4, wherever it has chroma at all, and a unit
\* that may be predicted inter is larger than 4 x 4: canSplit and signalModeCons
\* keep every unit of every tree predictable.
THEOREM UnitsArePredictableAlways == Spec => []UnitsArePredictable
<1>1. IInv /\ ShapeInv => UnitsArePredictable
  <2> SUFFICES ASSUME IInv, ShapeInv, pc = "tree"
               PROVE  /\ "CHROMA" \in ChannelsOf(cfg, part) /\ part.modeType # "INTER" => ChromaFits(area)
                      /\ part.modeType = "INTER" => area.w * area.h > 16
                      /\ part.modeType = "ALL" /\ ~cfg.intra => area.w * area.h > 16
    BY DEF UnitsArePredictable, ChromaFits
  <2> DEFINE inChroma == InItsChroma(calls)
             m == IF inChroma THEN "ALL" ELSE part.modeType
  <2>1. /\ ValidConfig(cfg) /\ cur \in Channels /\ area = Area(part)
        /\ LevelOK(Top(part)) /\ LevelShape(cfg, cur, Top(part), m)
        /\ TreeOK(part, calls) /\ part.modeType \in ModesOf(cfg) /\ (cfg.dual => ~inChroma)
        /\ part.chType = IF cur = "LUMA" /\ inChroma THEN "CHROMA" ELSE cur
    BY Here
  <2>2. AreaOK(cfg, cur, area, m)
    <3> HIDE DEF m, part
    <3>1. AreaOK(cfg, cur, Area(part), m) BY <2>1, TopsPart
    <3> QED BY <2>1, <3>1
  <2> HIDE DEF part, area
  <2>3. area.w \in Sizes /\ area.h \in Sizes BY <2>2 DEF AreaOK, PlaceOK
  <2>4. ChromaFits(area) => area.w * area.h > 16 BY <2>3, ChromaFitsIff, Products
  <2>5. area.w * area.h >= 32 => area.w * area.h > 16 BY <2>3, Products
  <2>6. inChroma => part.treeType = "TREE_C" /\ part.modeType = "INTRA" BY <2>1 DEF TreeOK
  <2>7. ~inChroma => part.treeType = IF part.modeType = "INTRA" THEN "TREE_L" ELSE "TREE_D"
    BY <2>1 DEF TreeOK
  <2>8. ASSUME "CHROMA" \in ChannelsOf(cfg, part), part.modeType # "INTER" PROVE ChromaFits(area)
    <3>1. CASE cfg.dual
      <4>1. part.chType = "CHROMA" BY <2>8, <3>1 DEF ChannelsOf, IsSepTree
      <4>2. ~inChroma /\ part.modeType = "ALL" BY <2>1, <3>1 DEF ModesOf
      <4>3. cur = "CHROMA" BY <2>1, <4>1, <4>2
      <4> QED BY <2>2, <4>2, <4>3 DEF AreaOK
    <3>2. CASE ~cfg.dual
      <4>1. CASE inChroma BY <2>2, <3>2, <4>1 DEF AreaOK
      <4>2. CASE ~inChroma
        <5>1. part.treeType = "TREE_D"
          <6>1. ASSUME part.treeType # "TREE_D" PROVE FALSE
            <7>1. part.chType = "CHROMA" BY <2>8, <6>1 DEF ChannelsOf, IsSepTree
            <7>2. cur = "CHROMA" BY <2>1, <4>2, <7>1
            <7>3. cfg.dual BY <7>2 DEF ShapeInv
            <7> QED BY <3>2, <7>3
          <6> QED BY <6>1
        <5>2. part.modeType = "ALL" BY <2>1, <2>7, <2>8, <3>2, <4>2, <5>1 DEF ModesOf, Modes
        <5> QED BY <2>2, <3>2, <4>2, <5>2 DEF AreaOK
      <4> QED BY <4>1, <4>2
    <3> QED BY <3>1, <3>2
  <2>9. ASSUME part.modeType = "INTER" PROVE area.w * area.h > 16
    <3>1. m = "INTER" BY <2>6, <2>9
    <3> QED BY <2>2, <2>5, <3>1 DEF AreaOK
  <2>10. ASSUME part.modeType = "ALL", ~cfg.intra PROVE area.w * area.h > 16
    <3>1. ~cfg.dual BY <2>1, <2>10 DEF ValidConfig
    <3>2. m = "ALL" BY <2>10
    <3> QED BY <2>2, <2>4, <3>1, <3>2 DEF AreaOK
  <2> QED BY <2>8, <2>9, <2>10
<1> QED BY <1>1, ShapeInvAlways, PTL
=============================================================================
