----------------------------- MODULE CabacProof -----------------------------
(*************************************************************************)
(* The arithmetic coder gives back what was coded, for all calls,        *)
(* contexts and numbers of calls.  The decoder's value is where the      *)
(* number that was written lies in the interval of the calls answered so *)
(* far; since the last interval holds this number, so do those before,   *)
(* and each answer is the one that was coded.                            *)
(*************************************************************************)
EXTENDS Cabac, Arithmetic

-----------------------------------------------------------------------------
(* Contexts.                                                             *)

\* The words of a context are multiples of the bits that its masks clear; the rates are
\* those of the windows that the tables name.
Words0 == {x \in 0..32767 : x % 32 = 0}
Words1 == {x \in 0..32767 : x % 2 = 0}
Models == [s0 : Words0, s1 : Words1, rate : [rate0 : 2..5, rate1 : 5..11]]

\* The words of a context, spelled out for SMT.
LEMMA WordsAre ==
  /\ \A x \in Words0 : x \in Nat /\ x <= 32767 /\ x % 32 = 0
  /\ \A x \in Words1 : x \in Nat /\ x <= 32767 /\ x % 2 = 0
<1>1. \A x \in Words0 : x \in Nat /\ x <= 32767 /\ x % 32 = 0
  BY DEF Words0
<1>2. \A x \in Words1 : x \in Nat /\ x <= 32767 /\ x % 2 = 0
  BY DEF Words1
<1> QED BY <1>1, <1>2

\* What multiples of 32 and of 2 are words.
LEMMA AreWords ==
  ASSUME NEW x \in Nat, x <= 32767
  PROVE  (x % 32 = 0 => x \in Words0) /\ (x % 2 = 0 => x \in Words1)
<1>1. ASSUME x % 32 = 0 PROVE x \in Words0
  BY <1>1 DEF Words0
<1>2. ASSUME x % 2 = 0 PROVE x \in Words1
  BY <1>2 DEF Words1
<1> QED BY <1>1, <1>2

\* What the masks clear.
LEMMA Masks ==
  ASSUME NEW x \in Nat
  PROVE  /\ Mask(x, PROB_BITS_0) = 32 * (x \div 32)
         /\ Mask(x, PROB_BITS_1) = 2 * (x \div 2)
<1>1. PROB_BITS - PROB_BITS_0 = 5 /\ PROB_BITS - PROB_BITS_1 = 1
  BY DEF PROB_BITS, PROB_BITS_0, PROB_BITS_1
<1>2. x - (x % 32) = 32 * (x \div 32) /\ x - (x % 2) = 2 * (x \div 2)
  OBVIOUS
<1>3. Mask(x, PROB_BITS_0) = x - (x % 2^5) /\ Mask(x, PROB_BITS_1) = x - (x % 2^1)
  BY <1>1 DEF Mask
<1> QED BY <1>2, <1>3, SmallPowers

\* A context starts as a model.
LEMMA InitModelType ==
  ASSUME NEW qp \in 0..63, NEW initId \in 0..63, NEW log2WindowSize \in 0..15
  PROVE  InitModel(qp, initId, log2WindowSize) \in Models
<1> DEFINE p == InitState(qp, initId)
<1>1. \E clip \in 1..127 : p = clip * 256
  <2> DEFINE slope == (initId \div 8) - 4
             offset == ((initId % 8) * 18) + 1
             product == slope * (qp - 16)
             inistate == (product \div 2) + offset
  <2>1. slope \in Int /\ offset \in Int OBVIOUS
  <2> HIDE DEF slope, offset
  <2>2. product \in Int BY <2>1
  <2> HIDE DEF product
  <2>3. inistate \in Int BY <2>1, <2>2
  <2>4. p = (IF inistate < 1 THEN 1 ELSE IF inistate > 127 THEN 127 ELSE inistate) * 256
    BY DEF InitState, slope, offset, product
  <2> HIDE DEF inistate, p
  <2> QED BY <2>3, <2>4
<1> HIDE DEF p
<1>2. PICK clip \in 1..127 : p = clip * 256 BY <1>1
<1>3. /\ p \in 0..32767 /\ p % 32 = 0 /\ p % 2 = 0
      /\ 32 * (p \div 32) = p /\ 2 * (p \div 2) = p
  BY <1>2
<1>4. Mask(p, PROB_BITS_0) = p /\ Mask(p, PROB_BITS_1) = p
  <2>1. p \in Nat BY <1>3
  <2>2. Mask(p, PROB_BITS_0) = 32 * (p \div 32) /\ Mask(p, PROB_BITS_1) = 2 * (p \div 2)
    BY <2>1, Masks
  <2> QED BY <1>3, <2>2
<1>5. Rates(log2WindowSize) \in [rate0 : 2..5, rate1 : 5..11]
  <2> DEFINE a == (log2WindowSize \div 4) % 4
             b == log2WindowSize % 4
  <2>1. a \in 0..3 /\ b \in 0..3 OBVIOUS
  <2>2. Rates(log2WindowSize) = [rate0 |-> 2 + a, rate1 |-> 3 + (2 + a) + b] BY DEF Rates
  <2> HIDE DEF a, b
  <2> QED BY <2>1, <2>2
<1>6. InitModel(qp, initId, log2WindowSize)
        = [s0 |-> p, s1 |-> p, rate |-> Rates(log2WindowSize)]
  BY <1>4 DEF InitModel, p
<1>7. p \in Nat /\ p <= 32767 BY <1>3
<1>8. p \in Words0 /\ p \in Words1
  BY <1>3, <1>7, AreWords
<1> QED BY <1>5, <1>6, <1>8 DEF Models

\* A number k of units, of at most n, moves by the d-th part of its distance to an end.
LEMMA MovesInside ==
  ASSUME NEW n \in Nat, NEW k \in 0..n, NEW d \in Nat \ {0}, NEW top \in {0, n}
  PROVE  k - (k \div d) + (top \div d) \in 0..n
<1> DEFINE j == k \div d
           i == n \div d
           h == top \div d
           p == k % d
           q == n % d
<1>1. /\ j \in Nat /\ i \in Nat /\ p \in 0..d-1 /\ q \in 0..d-1
      /\ k = d * j + p /\ n = d * i + q
  BY DivFacts
<1>2. h \in {0, i}
  <2>1. 0 \div d = 0 BY DivUnique
  <2> QED BY <2>1
<1> HIDE DEF j, i, h, p, q
<1>3. j <= d * j /\ j <= k
  BY <1>1
<1>4. i - j <= n - k
  <2>1. CASE i <= j BY <1>1, <2>1
  <2>2. CASE i > j
    <3>1. PICK e \in Nat : e >= 1 /\ i = j + e
      <4>1. i - j \in Nat /\ i - j >= 1 /\ i = j + (i - j) BY <1>1, <2>2
      <4> QED BY <4>1
    <3>2. d * i = d * j + d * e BY <1>1, <3>1
    <3>3. d * e = e + (d - 1) * e /\ (d - 1) * e >= d - 1 BY <3>1
    <3> QED BY <1>1, <3>1, <3>2, <3>3
  <2> QED BY <1>1, <2>1, <2>2
<1>5. k - j + h \in 0..n
  BY <1>1, <1>2, <1>3, <1>4
<1> QED BY <1>5 DEF j, h

\* The order of two divisions does not matter.
LEMMA DivSwap ==
  ASSUME NEW x \in Nat, NEW d \in Nat \ {0}, NEW e \in Nat \ {0}
  PROVE  (x \div d) \div e = (x \div e) \div d
<1>1. (x \div d) \div e = x \div (d * e) BY DivDiv
<1>2. (x \div e) \div d = x \div (e * d) BY DivDiv
<1>3. e * d = d * e OBVIOUS
<1> QED BY <1>1, <1>2, <1>3

\* A state moves by a part of its distance to an end, in units of u.
Moved(s, up, d, u) == s - (u * ((s \div d) \div u)) + (u * ((up \div d) \div u))

\* A step toward 0 or 32767, rounded down twice, stays between them and a multiple.
LEMMA TowardInside ==
  ASSUME NEW u \in Nat \ {0}, NEW d \in Nat \ {0}, NEW s \in Nat, s <= 32767, s % u = 0,
         NEW up \in Nat, up = 0 \/ up = 32767
  PROVE  /\ Moved(s, up, d, u) \in Nat /\ Moved(s, up, d, u) <= 32767
         /\ Moved(s, up, d, u) % u = 0
<1> DEFINE k == s \div u
           n == 32767 \div u
           h == up \div u
           a == k \div d
           b == h \div d
           x == k - a + b
           t == Moved(s, up, d, u)
<1>1. (s \div d) \div u = a /\ (up \div d) \div u = b
  <2>1. (s \div d) \div u = a BY DivSwap
  <2>2. (up \div d) \div u = b BY DivSwap
  <2> HIDE DEF a, b
  <2> QED BY <2>1, <2>2
<1>2. k \in Nat /\ n \in Nat /\ h \in Nat
  BY DivFacts
<1>3. s = u * k /\ u * n <= 32767 /\ 32767 < u * (n + 1)
  BY DivFacts
<1>4. h = 0 \/ h = n
  <2>1. 0 \div u = 0 BY DivUnique
  <2> QED BY <2>1
<1> HIDE DEF k, n, h
<1>5. k <= n
  <2>1. u * k < u * (n + 1) BY <1>2, <1>3
  <2> QED BY <1>2, <2>1
<1>6. a \in Nat /\ b \in Nat
  BY <1>2, DivFacts
<1>7. x \in 0..n
  <2>1. k \in 0..n /\ h \in {0, n} BY <1>2, <1>4, <1>5
  <2> QED BY <1>2, <2>1, MovesInside
<1> HIDE DEF a, b
<1>8. t = u * x
  <2>3. t = s - (u * a) + (u * b)
    <3>1. t = s - (u * ((s \div d) \div u)) + (u * ((up \div d) \div u)) BY DEF Moved
    <3> HIDE DEF t
    <3> QED BY <1>1, <1>6, <3>1
  <2>1. t = (u * k) - (u * a) + (u * b)
    <3> HIDE DEF t
    <3> QED BY <1>2, <1>3, <1>6, <2>3
  <2>2. (u * k) - (u * a) + (u * b) = u * (k - a + b) BY <1>2, <1>6
  <2> QED BY <2>1, <2>2
<1> HIDE DEF x
<1>9. u * x <= u * n /\ u * x \in Nat
  BY <1>2, <1>7
<1>10. (u * x) % u = 0
  <2>1. u * x = u * x + 0 /\ 0 \in 0..u-1 /\ x \in Nat BY <1>7
  <2> QED BY <1>9, <2>1, DivUnique
<1> HIDE DEF t
<1>11. t \in Nat /\ t <= 32767 /\ t % u = 0 BY <1>2, <1>3, <1>8, <1>9, <1>10
<1> QED BY <1>11 DEF t

\* A word of a context moves towards an end, by the mask of its size.
LEMMA TowardType0 ==
  ASSUME NEW s \in Nat, s <= 32767, s % 32 = 0, NEW rate \in Nat, NEW bin \in {0, 1}
  PROVE  Toward(s, PROB_BITS_0, rate, bin) \in Words0
<1> DEFINE d == 2^rate
           up == IF bin = 1 THEN 32767 ELSE 0
           a == s \div d
           b == up \div d
           t == s - (32 * (a \div 32)) + (32 * (b \div 32))
<1>1. d \in Nat \ {0} BY PowPositive
<1>2. up \in Nat /\ (up = 0 \/ up = 32767) OBVIOUS
<1>4. ASSUME bin = 1 PROVE Toward(s, PROB_BITS_0, rate, bin) = t
  <2>1. b = 32767 \div d BY <1>4
  <2> HIDE DEF d, up
  <2>2. a \in Nat /\ b \in Nat BY <1>1, <1>2, DivFacts
  <2> HIDE DEF a, b
  <2>3. Mask(a, PROB_BITS_0) = 32 * (a \div 32) /\ Mask(b, PROB_BITS_0) = 32 * (b \div 32)
    BY <2>2, Masks
  <2>4. Toward(s, PROB_BITS_0, rate, bin) = s - Mask(a, PROB_BITS_0) + Mask(b, PROB_BITS_0)
    BY <1>4, <2>1 DEF Toward, a, d
  <2> QED BY <2>3, <2>4
<1>5. ASSUME bin = 0 PROVE Toward(s, PROB_BITS_0, rate, bin) = t
  <2>1. b = 0 \div d BY <1>5
  <2> HIDE DEF d, up
  <2>2. a \in Nat /\ 0 \div d = 0 BY <1>1, DivFacts, DivUnique
  <2> HIDE DEF a, b
  <2>3. Mask(a, PROB_BITS_0) = 32 * (a \div 32)
    BY <2>2, Masks
  <2>4. Toward(s, PROB_BITS_0, rate, bin) = s - Mask(a, PROB_BITS_0) + 0
    BY <1>5 DEF Toward, a, d
  <2>5. 32 * (b \div 32) = 0 BY <2>1, <2>2
  <2> QED BY <2>3, <2>4, <2>5
<1>6. Toward(s, PROB_BITS_0, rate, bin) = t
  <2> HIDE DEF t
  <2> QED BY <1>4, <1>5
<1> HIDE DEF d, up
<1>3. t \in Nat /\ t <= 32767 /\ t % 32 = 0
  <2>1. t = Moved(s, up, d, 32) BY DEF Moved
  <2> HIDE DEF t
  <2>2. 32 \in Nat \ {0} /\ 32767 \in Nat OBVIOUS
  <2>3. /\ Moved(s, up, d, 32) \in Nat /\ Moved(s, up, d, 32) <= 32767
        /\ Moved(s, up, d, 32) % 32 = 0
    BY <1>1, <1>2, <2>2, TowardInside
  <2> QED BY <2>1, <2>3
<1> HIDE DEF t
<1>7. t \in Words0 BY <1>3, AreWords
<1> QED BY <1>6, <1>7

\* The slower state of a context stays a word.
LEMMA TowardType1 ==
  ASSUME NEW s \in Nat, s <= 32767, s % 2 = 0, NEW rate \in Nat, NEW bin \in {0, 1}
  PROVE  Toward(s, PROB_BITS_1, rate, bin) \in Words1
<1> DEFINE d == 2^rate
           up == IF bin = 1 THEN 32767 ELSE 0
           a == s \div d
           b == up \div d
           t == s - (2 * (a \div 2)) + (2 * (b \div 2))
<1>1. d \in Nat \ {0} BY PowPositive
<1>2. up \in Nat /\ (up = 0 \/ up = 32767) OBVIOUS
<1>4. ASSUME bin = 1 PROVE Toward(s, PROB_BITS_1, rate, bin) = t
  <2>1. b = 32767 \div d BY <1>4
  <2> HIDE DEF d, up
  <2>2. a \in Nat /\ b \in Nat BY <1>1, <1>2, DivFacts
  <2> HIDE DEF a, b
  <2>3. Mask(a, PROB_BITS_1) = 2 * (a \div 2) /\ Mask(b, PROB_BITS_1) = 2 * (b \div 2)
    BY <2>2, Masks
  <2>4. Toward(s, PROB_BITS_1, rate, bin) = s - Mask(a, PROB_BITS_1) + Mask(b, PROB_BITS_1)
    BY <1>4, <2>1 DEF Toward, a, d
  <2> QED BY <2>3, <2>4
<1>5. ASSUME bin = 0 PROVE Toward(s, PROB_BITS_1, rate, bin) = t
  <2>1. b = 0 \div d BY <1>5
  <2> HIDE DEF d, up
  <2>2. a \in Nat /\ 0 \div d = 0 BY <1>1, DivFacts, DivUnique
  <2> HIDE DEF a, b
  <2>3. Mask(a, PROB_BITS_1) = 2 * (a \div 2)
    BY <2>2, Masks
  <2>4. Toward(s, PROB_BITS_1, rate, bin) = s - Mask(a, PROB_BITS_1) + 0
    BY <1>5 DEF Toward, a, d
  <2>5. 2 * (b \div 2) = 0 BY <2>1, <2>2
  <2> QED BY <2>3, <2>4, <2>5
<1>6. Toward(s, PROB_BITS_1, rate, bin) = t
  <2> HIDE DEF t
  <2> QED BY <1>4, <1>5
<1> HIDE DEF d, up
<1>3. t \in Nat /\ t <= 32767 /\ t % 2 = 0
  <2>1. t = Moved(s, up, d, 2) BY DEF Moved
  <2> HIDE DEF t
  <2>2. 2 \in Nat \ {0} /\ 32767 \in Nat OBVIOUS
  <2>3. /\ Moved(s, up, d, 2) \in Nat /\ Moved(s, up, d, 2) <= 32767
        /\ Moved(s, up, d, 2) % 2 = 0
    BY <1>1, <1>2, <2>2, TowardInside
  <2> QED BY <2>1, <2>3
<1> HIDE DEF t
<1>7. t \in Words1 BY <1>3, AreWords
<1> QED BY <1>6, <1>7

\* Adaptation makes a model of a model.
LEMMA UpdateType ==
  ASSUME NEW m \in Models, NEW bin \in {0, 1}
  PROVE  Update(m, bin) \in Models
<1> DEFINE t0 == Toward(m.s0, PROB_BITS_0, m.rate.rate0, bin)
           t1 == Toward(m.s1, PROB_BITS_1, m.rate.rate1, bin)
<1>1. m.s0 \in Words0 /\ m.s1 \in Words1 /\ m.rate.rate0 \in Nat /\ m.rate.rate1 \in Nat
  BY DEF Models
<1>2. /\ m.s0 \in Nat /\ m.s0 <= 32767 /\ m.s0 % 32 = 0
      /\ m.s1 \in Nat /\ m.s1 <= 32767 /\ m.s1 % 2 = 0
  BY <1>1, WordsAre
<1>4. t0 \in Words0 BY <1>1, <1>2, TowardType0
<1>5. t1 \in Words1 BY <1>1, <1>2, TowardType1
<1>3. Update(m, bin) = [m EXCEPT !.s0 = t0, !.s1 = t1]
  BY DEF Update
<1> HIDE DEF t0, t1
<1> QED BY <1>3, <1>4, <1>5 DEF Models

\* The arithmetic of getLPS, of a state st of two bytes and a sum of words.
LEMMA LpsArithmetic ==
  ASSUME NEW q \in Nat, q <= 127, NEW range \in Nat, range >= 256, range <= 510,
         NEW lps, lps = (((q \div 4) * (range \div 32)) \div 2) + 4
  PROVE  /\ lps \in Nat /\ lps >= 4 /\ lps <= 236
         /\ range - lps >= 128 /\ range - lps <= 506
<1> DEFINE a == q \div 4
           b == range \div 32
           x == a * b
<1>1. a \in Nat /\ a <= 31 /\ b \in Nat /\ b >= 8 /\ b <= 15 /\ range >= 32 * b
  OBVIOUS
<1> HIDE DEF a, b
<1>2. x \in Nat /\ x <= 31 * b
  BY <1>1
<1>3. lps = (x \div 2) + 4
  BY DEF a, b
<1> HIDE DEF x
<1>4. x \div 2 \in Nat /\ 2 * (x \div 2) <= x
  BY <1>2
<1> QED BY <1>1, <1>2, <1>3, <1>4

\* The state of a context is a byte.
LEMMA StateArithmetic ==
  ASSUME NEW a \in Nat, NEW b \in Nat, a <= 32767, b <= 32767, NEW st, st = (a + b) \div 256
  PROVE  st \in 0..255
  OBVIOUS

\* The probability has eight bits, and its top bit is the more probable symbol.
LEMMA StateType ==
  ASSUME NEW m \in Models
  PROVE  State(m) \in 0..255 /\ Mps(m) = IF State(m) < 128 THEN 0 ELSE 1
<1>1. m.s0 \in Words0 /\ m.s1 \in Words1
  BY DEF Models
<1>2. m.s0 \in Nat /\ m.s0 <= 32767 /\ m.s1 \in Nat /\ m.s1 <= 32767
  BY <1>1, WordsAre
<1>4. State(m) \in 0..255
  <2>1. State(m) = (m.s0 + m.s1) \div 256 BY DEF State
  <2> QED BY <1>2, <2>1, StateArithmetic
<1>5. \A x \in 0..255 : x \div 128 = IF x < 128 THEN 0 ELSE 1
  OBVIOUS
<1> QED BY <1>4, <1>5 DEF Mps

\* The more probable symbol is a bin.
LEMMA MpsType ==
  ASSUME NEW m \in Models
  PROVE  Mps(m) \in {0, 1}
<1>1. Mps(m) = IF State(m) < 128 THEN 0 ELSE 1 BY StateType
<1>2. CASE State(m) < 128 BY <1>1, <1>2
<1>3. CASE ~(State(m) < 128) BY <1>1, <1>3
<1> QED BY <1>2, <1>3

\* The less probable symbol gets a part of the range that is neither empty nor more
\* than the renormalisation table knows, and leaves more than a quarter to the other.
LEMMA LpsRangeType ==
  ASSUME NEW m \in Models, NEW range \in 256..510
  PROVE  LpsRange(m, range) \in 4..236 /\ range - LpsRange(m, range) \in 128..506
<1> DEFINE st == State(m)
           q == IF Mps(m) = 1 THEN 255 - st ELSE st
           lps == LpsRange(m, range)
<1>1. st \in 0..255 /\ Mps(m) = IF st < 128 THEN 0 ELSE 1
  BY StateType
<1>2. lps = (((q \div 4) * (range \div 32)) \div 2) + 4
  BY DEF LpsRange
<1> HIDE DEF st, lps
<1>3. q \in Nat /\ q <= 127
  <2>1. CASE st < 128 BY <1>1, <2>1
  <2>2. CASE ~(st < 128) BY <1>1, <2>2
  <2> QED BY <2>1, <2>2
<1> HIDE DEF q
<1>4. /\ lps \in Nat /\ lps >= 4 /\ lps <= 236
      /\ range - lps >= 128 /\ range - lps <= 506
  BY <1>2, <1>3, LpsArithmetic
<1>5. lps \in 4..236 /\ range - lps \in 128..506
  <2>1. range \in Int /\ lps \in Int BY <1>4
  <2>2. range - lps \in Int BY <2>1
  <2> QED BY <1>4, <2>1, <2>2
<1> QED BY <1>5 DEF lps

\* The bits by which the coder scales up the part of the less probable symbol.
LEMMA RenormBits ==
  ASSUME NEW lps \in 4..236
  PROVE  RenormBitsLPS(lps) \in 1..6 /\ lps * 2^RenormBitsLPS(lps) \in 256..510
<1> PICK i \in 0..29 : i = lps \div 8 /\ lps \in 8 * i .. 8 * i + 7
  <2>1. lps \div 8 \in 0..29 /\ lps \in 8 * (lps \div 8) .. 8 * (lps \div 8) + 7 OBVIOUS
  <2> QED BY <2>1
<1>1. /\ i = 0 => RenormBitsLPS(lps) = 6
      /\ i = 1 => RenormBitsLPS(lps) = 5
      /\ i \in 2..3 => RenormBitsLPS(lps) = 4
      /\ i \in 4..7 => RenormBitsLPS(lps) = 3
      /\ i \in 8..15 => RenormBitsLPS(lps) = 2
      /\ i \in 16..29 => RenormBitsLPS(lps) = 1
  BY DEF RenormBitsLPS
<1>2. /\ i = 0 => lps * 64 \in 256..510
      /\ i = 1 => lps * 32 \in 256..510
      /\ i \in 2..3 => lps * 16 \in 256..510
      /\ i \in 4..7 => lps * 8 \in 256..510
      /\ i \in 8..15 => lps * 4 \in 256..510
      /\ i \in 16..29 => lps * 2 \in 256..510
  OBVIOUS
<1>3. i = 0 \/ i = 1 \/ i \in 2..3 \/ i \in 4..7 \/ i \in 8..15 \/ i \in 16..29
  OBVIOUS
<1>4. /\ i = 0 => lps * 2^6 \in 256..510
      /\ i = 1 => lps * 2^5 \in 256..510
      /\ i \in 2..3 => lps * 2^4 \in 256..510
      /\ i \in 4..7 => lps * 2^3 \in 256..510
      /\ i \in 8..15 => lps * 2^2 \in 256..510
      /\ i \in 16..29 => lps * 2^1 \in 256..510
  BY <1>2, SmallPowers
<1>5. CASE i = 0
  <2>1. RenormBitsLPS(lps) = 6 BY <1>1, <1>5
  <2> QED BY <1>4, <1>5, <2>1
<1>6. CASE i = 1
  <2>1. RenormBitsLPS(lps) = 5 BY <1>1, <1>6
  <2> QED BY <1>4, <1>6, <2>1
<1>7. CASE i \in 2..3
  <2>1. RenormBitsLPS(lps) = 4 BY <1>1, <1>7
  <2> QED BY <1>4, <1>7, <2>1
<1>8. CASE i \in 4..7
  <2>1. RenormBitsLPS(lps) = 3 BY <1>1, <1>8
  <2> QED BY <1>4, <1>8, <2>1
<1>9. CASE i \in 8..15
  <2>1. RenormBitsLPS(lps) = 2 BY <1>1, <1>9
  <2> QED BY <1>4, <1>9, <2>1
<1>10. CASE i \in 16..29
  <2>1. RenormBitsLPS(lps) = 1 BY <1>1, <1>10
  <2> QED BY <1>4, <1>10, <2>1
<1> QED BY <1>3, <1>5, <1>6, <1>7, <1>8, <1>9, <1>10

-----------------------------------------------------------------------------
(* Bits that are written.                                                *)

\* The number that a sequence of bytes spells.
Spells(f, X) ==
  /\ f \in Seq(Byte) /\ X \in Nat /\ X < 2^(8 * Len(f))
  /\ \A i \in 1..Len(f) : f[i] = (X \div 2^(8 * (Len(f) - i))) % 256

\* A stream that holds no bits back, after no failure.
AlignedOut(f) == [fifo |-> f, heldBits |-> 0, numHeldBits |-> 0, ok |-> TRUE]

\* No bytes spell 0.
LEMMA SpellsNothing == Spells(<<>>, 0)
<1>1. <<>> \in Seq(Byte) /\ Len(<<>>) = 0 OBVIOUS
<1>2. 8 * 0 = 0 /\ 2^0 = 1 BY SmallPowers
<1>3. \A i \in 1..0 : FALSE OBVIOUS
<1> QED BY <1>1, <1>2, <1>3 DEF Spells

\* The factor of another byte.
LEMMA PowEight ==
  ASSUME NEW k \in Nat
  PROVE  2^(8 * (k + 1)) = 2^(8 * k) * 256 /\ 2^(8 * k) \in Nat \ {0}
<1> DEFINE e == 8 * k
<1>1. e \in Nat /\ 8 * (k + 1) = e + 8 OBVIOUS
<1> HIDE DEF e
<1>2. 2^(e + 8) = 2^e * 2^8 /\ 2^e \in Nat \ {0} BY <1>1, PowSum, PowPositive
<1>3. 2^(8 * (k + 1)) = 2^(e + 8) BY <1>1
<1> QED BY <1>2, <1>3, SmallPowers DEF e

\* A digit in front of a new last one.
DigitStays(Y, p) == Y \div (p * 256) = (Y \div 256) \div p

\* It is what the last digit stands on, divided.
LEMMA DigitKept ==
  ASSUME NEW Y \in Nat, NEW p \in Nat \ {0}
  PROVE  DigitStays(Y, p)
<1>1. DivCommutes(Y, p) BY DivSwapped
<1>2. DivTwice(Y, p) BY DivByByte
<1>3. (Y \div 256) \div p = (Y \div p) \div 256 BY <1>1, Zenon DEF DivCommutes
<1>4. (Y \div p) \div 256 = Y \div (p * 256) BY <1>2, Zenon DEF DivTwice
<1> QED BY <1>3, <1>4, Zenon DEF DigitStays

\* Another byte is another digit.
LEMMA SpellsAppend ==
  ASSUME NEW f, NEW X, Spells(f, X), NEW b \in Byte
  PROVE  Spells(Append(f, b), X * 256 + b) /\ Len(Append(f, b)) = Len(f) + 1
<1> DEFINE n == Len(f)
           g == Append(f, b)
           Y == X * 256 + b
<1>1. f \in Seq(Byte) /\ X \in Nat /\ X < 2^(8 * n) /\ n \in Nat
  BY DEF Spells
<1>2. \A i \in 1..n : f[i] = (X \div 2^(8 * (n - i))) % 256
  BY DEF Spells
<1>3. b \in 0..255 BY DEF Byte
<1>4. g \in Seq(Byte) /\ Len(g) = n + 1 /\ g[n + 1] = b /\ \A i \in 1..n : g[i] = f[i]
  BY <1>1
<1>5. Y \in Nat BY <1>1, <1>3
<1>6. Y < 2^(8 * (n + 1))
  <2> DEFINE p == 2^(8 * n)
  <2>1. 2^(8 * (n + 1)) = p * 256 /\ p \in Nat \ {0} BY <1>1, PowEight
  <2>2. X < p BY <1>1
  <2> HIDE DEF p
  <2>3. X * 256 + b < p * 256 BY <1>1, <1>3, <2>1, <2>2
  <2> QED BY <2>1, <2>3
<1>7. ASSUME NEW i \in 1..n PROVE g[i] = (Y \div 2^(8 * ((n + 1) - i))) % 256
  <2> DEFINE k == n - i
             p == 2^(8 * k)
  <2>1. k \in Nat /\ (n + 1) - i = k + 1 BY <1>1
  <2> HIDE DEF k
  <2>2. 2^(8 * (k + 1)) = p * 256 /\ p \in Nat \ {0} BY <2>1, PowEight
  <2> HIDE DEF p
  <2>3. Y \div (p * 256) = X \div p
    <3>1. Y \div 256 = X BY <1>1, <1>3
    <3> HIDE DEF Y
    <3>2. p \in Nat \ {0} BY <2>2
    <3>3. DigitStays(Y, p) BY <1>5, <3>2, DigitKept
    <3> QED BY <3>1, <3>3, Zenon DEF DigitStays
  <2>4. g[i] = (X \div p) % 256 BY <1>2, <1>4 DEF k, p
  <2> HIDE DEF g, Y
  <2> QED BY <2>1, <2>2, <2>3, <2>4
<1>8. g[n + 1] = (Y \div 2^(8 * ((n + 1) - (n + 1)))) % 256
  <2>1. (n + 1) - (n + 1) = 0 /\ 8 * 0 = 0 BY <1>1
  <2>2. Y \div 1 = Y /\ Y % 256 = b BY <1>1, <1>3
  <2>3. 2^(8 * ((n + 1) - (n + 1))) = 1 BY <2>1, SmallPowers
  <2> HIDE DEF Y, g, n
  <2> QED BY <1>4, <2>2, <2>3
<1> HIDE DEF g, Y, n
<1>9. \A i \in 1..n+1 : g[i] = (Y \div 2^(8 * ((n + 1) - i))) % 256
  <2> SUFFICES ASSUME NEW i \in 1..n+1 PROVE g[i] = (Y \div 2^(8 * ((n + 1) - i))) % 256
    OBVIOUS
  <2>1. CASE i \in 1..n BY <1>7, <2>1
  <2>2. CASE i = n + 1 BY <1>8, <2>2
  <2>3. i \in 1..n \/ i = n + 1 BY <1>1
  <2> QED BY <2>1, <2>2, <2>3
<1>10. Spells(g, Y)
  BY <1>4, <1>5, <1>6, <1>9 DEF Spells
<1> QED BY <1>4, <1>10 DEF g, Y, n

\* A byte that is written to an aligned stream.
LEMMA WriteByte ==
  ASSUME NEW f \in Seq(Byte), NEW b \in Byte
  PROVE  Write(AlignedOut(f), b, 8) = AlignedOut(Append(f, b))
<1>1. b \in 0..255 BY DEF Byte
<1>2. /\ LowBits(Shl(b, 8), 8) = 0
      /\ Shl(0, 8) + Shr(b, 0) = b
  BY <1>1, SmallPowers DEF LowBits, Shl, Shr
<1>3. BytesOf(b, 1) = <<b>>
  <2>1. 8 * (1 - 1) = 0 OBVIOUS
  <2>2. LowBits(Shr(b, 0), 8) = b BY <1>1, SmallPowers DEF LowBits, Shr
  <2> QED BY <2>1, <2>2 DEF BytesOf
<1>4. f \o <<b>> = Append(f, b) OBVIOUS
<1>5. /\ (8 + 0) % 8 = 0 /\ 8 - 0 = 8 /\ 8 * ((8 - 0) \div 8) = 8 /\ (8 + 0) \div 8 = 1
      /\ ~(8 > 24 \/ b >= 2^8) /\ ~(8 + 0 < 8)
  BY <1>1, SmallPowers
<1> DEFINE s == AlignedOut(f)
<1>6. s.numHeldBits = 0 /\ s.heldBits = 0 /\ s.fifo = f BY DEF AlignedOut
<1>7. Write(s, b, 8) = [s EXCEPT !.fifo = f \o <<b>>, !.heldBits = 0, !.numHeldBits = 0]
  <2> HIDE DEF s
  <2> QED BY <1>2, <1>3, <1>5, <1>6 DEF Write, MaxWordBits
<1> QED BY <1>4, <1>7 DEF AlignedOut

\* A stream that holds back the h bits of the number r.
HeldOut(f, r, h) == [fifo |-> f, heldBits |-> r * 2^(8 - h), numHeldBits |-> h, ok |-> TRUE]

\* What the held bits are.
LEMMA HeldBits ==
  ASSUME NEW r \in Nat, NEW h \in 0..7, r < 2^h
  PROVE  /\ 2^h * 2^(8 - h) = 256 /\ 2^(8 - h) = 2 * 2^(7 - h) /\ 2^(7 - h) \in Nat \ {0}
         /\ r * 2^(8 - h) + 2^(7 - h) \in 0..255
         /\ r * 2^(8 - h) + 2^(7 - h) = (r * 2 + 1) * 2^(7 - h)
<1> DEFINE p == 2^h
           i == 7 - h
           q == 2^i
           d == 2^(8 - h)
<1>1. i \in Nat /\ 8 - h = i + 1 /\ h + (i + 1) = 8 /\ h \in Nat OBVIOUS
<1>2. q \in Nat \ {0} /\ p \in Nat \ {0} /\ d \in Nat \ {0} BY <1>1, PowPositive
<1>3. d = 2 * q
  <2>1. d = 2^(i + 1) BY <1>1
  <2>2. 2^(i + 1) = 2 * 2^i BY <1>1, PowStep
  <2> QED BY <2>1, <2>2
<1>4. p * d = 256
  <2> DEFINE k == i + 1
  <2>1. k \in Nat /\ h + k = 8 /\ 8 - h = k BY <1>1
  <2> HIDE DEF k
  <2>2. 2^(h + k) = 2^h * 2^k BY <1>1, <2>1, PowSum
  <2>3. 2^(h + k) = 2^8 BY <2>1
  <2> QED BY <2>1, <2>2, <2>3, SmallPowers
<1>5. r < p OBVIOUS
<1> HIDE DEF p, i, q, d
<1>6. r * d + q \in 0..255 /\ r * d + q = (r * 2 + 1) * q
  <2>1. r * d + d <= p * d BY <1>2, <1>5
  <2>2. r * d \in Nat BY <1>2
  <2> DEFINE x == r * d
  <2>3. x + d <= 256 /\ x \in Nat BY <1>4, <2>1, <2>2
  <2> HIDE DEF x
  <2>4. x + q \in 0..255 BY <1>2, <1>3, <2>3
  <2>5. r * d + q = (r * 2 + 1) * q BY <1>2, <1>3
  <2> QED BY <2>4, <2>5 DEF x
<1> QED BY <1>2, <1>3, <1>4, <1>6 DEF p, q, d, i

\* The one of the alignment, and zeros, complete the byte.
LEMMA AlignHeld ==
  ASSUME NEW f \in Seq(Byte), NEW r \in Nat, NEW h \in 0..7, r < 2^h
  PROVE  WriteByteAlignment(HeldOut(f, r, h)) = AlignedOut(Append(f, r * 2^(8 - h) + 2^(7 - h)))
<1> DEFINE held == r * 2^(8 - h)
           one == 2^(7 - h)
           s == HeldOut(f, r, h)
<1>1. held \in Nat /\ one \in Nat \ {0} /\ held + one \in 0..255
  <2>1. one \in Nat \ {0} /\ held + one \in 0..255 BY HeldBits
  <2>2. 8 - h \in Nat BY SMT
  <2>3. 2^(8 - h) \in Nat BY <2>2, PowType
  <2> QED BY <2>1, <2>3
<1>2. s.fifo = f /\ s.heldBits = held /\ s.numHeldBits = h
  BY DEF HeldOut
<1>3. s = [fifo |-> f, heldBits |-> held, numHeldBits |-> h, ok |-> TRUE]
  BY DEF HeldOut
<1>4. ~(1 > 24 \/ 1 >= 2^1) BY SmallPowers
<1> HIDE DEF s, held
<1>5. ASSUME h < 7 PROVE WriteByteAlignment(s) = AlignedOut(Append(f, held + one))
  <2>1. (1 + h) % 8 = h + 1 /\ 8 - (h + 1) = 7 - h /\ 1 + h < 8
    BY <1>5
  <2>2. LowBits(Shl(1, 7 - h), 8) = one
    <3>1. one < 256 BY <1>1
    <3>2. 1 * one = one BY <1>1
    <3> HIDE DEF one
    <3>3. one % 256 = one BY <1>1, <3>1
    <3>4. Shl(1, 7 - h) = one BY <3>2 DEF Shl, one
    <3> QED BY <3>3, <3>4, SmallPowers DEF LowBits
  <2> HIDE DEF one
  <2>3. Write(s, 1, 1) = [s EXCEPT !.heldBits = held + one, !.numHeldBits = h + 1]
    BY <1>2, <1>4, <2>1, <2>2 DEF Write, MaxWordBits
  <2>4. Write(s, 1, 1) = [fifo |-> f, heldBits |-> held + one, numHeldBits |-> h + 1, ok |-> TRUE]
    BY <1>3, <2>3
  <2>5. h + 1 # 0 OBVIOUS
  <2>6. WriteByteAlignment(s) = WriteAlignZero(Write(s, 1, 1)) BY DEF WriteByteAlignment
  <2>7. held + one \in Nat /\ h + 1 \in Nat BY <1>1
  <2> DEFINE x == held + one
             j == h + 1
             w == [fifo |-> f, heldBits |-> x, numHeldBits |-> j, ok |-> TRUE]
  <2> HIDE DEF x, j
  <2>8. j # 0 => WriteAlignZero(w) = [fifo |-> Append(f, x), heldBits |-> 0, numHeldBits |-> 0, ok |-> TRUE]
    BY DEF WriteAlignZero
  <2> QED BY <2>4, <2>5, <2>6, <2>8 DEF AlignedOut, x, j
<1>6. ASSUME h = 7 PROVE WriteByteAlignment(s) = AlignedOut(Append(f, held + one))
  <2>1. (1 + h) % 8 = 0 /\ 8 - 0 = 8 /\ ~(1 + h < 8) /\ 8 * ((1 - 0) \div 8) = 0 /\ (1 + h) \div 8 = 1
    BY <1>6
  <2>2. LowBits(Shl(1, 8), 8) = 0 BY SmallPowers DEF LowBits, Shl
  <2>3. one = 1 BY <1>6, SmallPowers
  <2> HIDE DEF one
  <2>4. Shl(held, 0) + Shr(1, 0) = held + one BY <1>1, <2>3, SmallPowers DEF Shl, Shr
  <2>5. BytesOf(held + one, 1) = <<held + one>>
    <3>1. 8 * (1 - 1) = 0 OBVIOUS
    <3> DEFINE x == held + one
    <3>2. x \in 0..255 BY <1>1
    <3> HIDE DEF x
    <3>3. LowBits(Shr(x, 0), 8) = x BY <3>2, SmallPowers DEF LowBits, Shr
    <3>4. BytesOf(x, 1) = <<x>> BY <3>1, <3>3 DEF BytesOf
    <3> QED BY <3>4 DEF x
  <2>6. Write(s, 1, 1) = [s EXCEPT !.fifo = f \o <<held + one>>, !.heldBits = 0, !.numHeldBits = 0]
    BY <1>2, <1>4, <2>1, <2>2, <2>4, <2>5 DEF Write, MaxWordBits
  <2>7. f \o <<held + one>> = Append(f, held + one) BY <1>1
  <2>8. Write(s, 1, 1) = [fifo |-> Append(f, held + one), heldBits |-> 0, numHeldBits |-> 0, ok |-> TRUE]
    BY <1>3, <2>6, <2>7
  <2>9. WriteByteAlignment(s) = WriteAlignZero(Write(s, 1, 1)) BY DEF WriteByteAlignment
  <2> DEFINE g == Append(f, held + one)
             w == [fifo |-> g, heldBits |-> 0, numHeldBits |-> 0, ok |-> TRUE]
  <2> HIDE DEF g
  <2>10. WriteAlignZero(w) = w BY DEF WriteAlignZero
  <2> QED BY <2>8, <2>9, <2>10 DEF AlignedOut, g
<1> HIDE DEF one
<1>7. h < 7 \/ h = 7 OBVIOUS
<1> QED BY <1>5, <1>6, <1>7 DEF s, held, one

\* A word of 5 to 12 bits that is written to an aligned stream.
LEMMA WriteWord ==
  ASSUME NEW f \in Seq(Byte), NEW n \in 5..12, NEW bits \in Nat, bits < 2^n
  PROVE  /\ n < 8 => Write(AlignedOut(f), bits, n) = HeldOut(f, bits, n)
         /\ n >= 8 => Write(AlignedOut(f), bits, n)
                        = HeldOut(Append(f, bits \div 2^(n - 8)), bits % 2^(n - 8), n - 8)
<1> DEFINE s == AlignedOut(f)
<1>1. s.fifo = f /\ s.heldBits = 0 /\ s.numHeldBits = 0
  BY DEF AlignedOut
<1>2. s = [fifo |-> f, heldBits |-> 0, numHeldBits |-> 0, ok |-> TRUE]
  BY DEF AlignedOut
<1>3. ~(n > 24 \/ bits >= 2^n)
  <2>1. 2^n \in Nat BY PowType
  <2> DEFINE p == 2^n
  <2>2. bits < p /\ p \in Nat BY <2>1
  <2> HIDE DEF p
  <2>3. ~(bits >= p) BY <2>2
  <2>4. ~(n > 24) OBVIOUS
  <2> QED BY <2>3, <2>4 DEF p
<1> HIDE DEF s
<1>4. ASSUME n < 8 PROVE Write(s, bits, n) = HeldOut(f, bits, n)
  <2>1. (n + 0) % 8 = n /\ n + 0 < 8 BY <1>4
  <2>2. LowBits(Shl(bits, 8 - n), 8) = bits * 2^(8 - n)
    <3>1. n \in 0..7 BY <1>4
    <3>2. /\ 2^n * 2^(8 - n) = 256 /\ 2^(8 - n) = 2 * 2^(7 - n) /\ 2^(7 - n) \in Nat \ {0}
      BY <3>1, HeldBits
    <3> DEFINE x == bits * 2^(8 - n)
               q == 2^(7 - n)
    <3>3. x + q \in 0..255 BY <3>1, HeldBits
    <3>4. x \in Nat BY <3>2
    <3>5. q \in Nat BY <3>2
    <3> HIDE DEF x, q
    <3>6. x % 256 = x BY <3>3, <3>4, <3>5
    <3> QED BY <3>6, SmallPowers DEF LowBits, Shl, x
  <2>3. 0 + bits * 2^(8 - n) = bits * 2^(8 - n)
    <3>1. 8 - n \in Nat BY <1>4
    <3>2. 2^(8 - n) \in Nat BY <3>1, PowType
    <3> QED BY <3>2
  <2> DEFINE x == bits * 2^(8 - n)
  <2> HIDE DEF x
  <2>4. Write(s, bits, n) = [s EXCEPT !.heldBits = x, !.numHeldBits = n]
    BY <1>1, <1>3, <2>1, <2>2, <2>3 DEF Write, MaxWordBits, x
  <2> QED BY <1>2, <2>4 DEF HeldOut, x
<1>5. ASSUME n >= 8
      PROVE  Write(s, bits, n) = HeldOut(Append(f, bits \div 2^(n - 8)), bits % 2^(n - 8), n - 8)
  <2> DEFINE c == n - 8
             p == 2^c
             hi == bits \div p
             lo == bits % p
             held == lo * 2^(8 - c)
  <2>1. c \in 0..4 /\ n = c + 8 /\ c \in Nat BY <1>5
  <2>2. /\ (n + 0) % 8 = c /\ ~(n + 0 < 8) /\ 8 * ((n - c) \div 8) = 8 /\ (n + 0) \div 8 = 1
    BY <1>5
  <2> HIDE DEF c
  <2>3. 2^n = p * 256 /\ p \in Nat \ {0}
    <3>1. 2^(c + 8) = 2^c * 2^8 BY <2>1, PowSum
    <3>3. 2^c \in Nat \ {0} BY <2>1, PowPositive
    <3>2. 2^n = 2^(c + 8) BY <2>1
    <3> QED BY <3>1, <3>2, <3>3, SmallPowers
  <2>4. bits < 256 * p
    <3> DEFINE P == 2^n
    <3>1. bits < P /\ P = p * 256 BY <2>3
    <3> HIDE DEF P, p
    <3> QED BY <2>3, <3>1
  <2> DEFINE d == 2^(8 - c)
  <2>5. p * d = 256 /\ d \in Nat \ {0}
    <3>1. 8 - c \in Nat /\ c \in Nat /\ c <= 8 /\ 8 \in Nat BY <2>1
    <3>2. 2^8 = 2^c * 2^(8 - c) BY <3>1, PowSplit
    <3>3. d \in Nat \ {0} BY <3>1, PowPositive
    <3> QED BY <3>2, <3>3, SmallPowers
  <2> HIDE DEF p
  <2>6. hi \in 0..255 /\ lo \in 0..p-1 /\ bits = p * hi + lo
    <3>1. hi \in Nat /\ lo \in 0..p-1 /\ bits = p * hi + lo BY <2>3, DivFacts
    <3>2. 0 * p <= bits /\ 0 \in Nat /\ 256 \in Nat BY <2>3
    <3>3. hi < 256 BY <2>3, <2>4, <3>2, DivBetween
    <3> HIDE DEF hi, lo
    <3> QED BY <3>1, <3>3
  <2>7. LowBits(Shl(bits, 8 - c), 8) = held
    <3> HIDE DEF hi, lo, d
    <3>1. bits * d = 256 * hi + lo * d
      <4>1. (p * hi + lo) * d = (p * d) * hi + lo * d BY <2>3, <2>5, <2>6
      <4> QED BY <2>5, <2>6, <4>1
    <3>2. lo * d \in Nat /\ lo * d < 256
      <4>1. lo * d < p * d /\ lo * d \in Nat BY <2>3, <2>5, <2>6
      <4> QED BY <2>5, <4>1
    <3> DEFINE x == bits * d
               y == lo * d
    <3>3. x = 256 * hi + y BY <3>1
    <3>6. y \in Nat /\ y < 256 BY <3>2
    <3> HIDE DEF x, y
    <3>4. x % 256 = y BY <2>6, <3>3, <3>6
    <3>5. Shl(bits, 8 - c) = x BY DEF Shl, x, d
    <3> QED BY <3>4, <3>5, SmallPowers DEF LowBits, y, d
  <2>8. Shl(0, 8) + Shr(bits, c) = hi
    <3>1. Shl(0, 8) = 0 BY SmallPowers DEF Shl
    <3>2. Shr(bits, c) = hi BY DEF Shr, p
    <3> HIDE DEF hi
    <3> QED BY <2>6, <3>1, <3>2
  <2> HIDE DEF hi, held
  <2>9. BytesOf(hi, 1) = <<hi>>
    <3>1. 8 * (1 - 1) = 0 OBVIOUS
    <3>2. LowBits(Shr(hi, 0), 8) = hi BY <2>6, SmallPowers DEF LowBits, Shr
    <3> QED BY <3>1, <3>2 DEF BytesOf
  <2>10. Write(s, bits, n) = [s EXCEPT !.fifo = f \o <<hi>>, !.heldBits = held, !.numHeldBits = c]
    BY <1>1, <1>3, <2>2, <2>7, <2>8, <2>9 DEF Write, MaxWordBits
  <2>11. f \o <<hi>> = Append(f, hi) BY <2>6
  <2>12. Write(s, bits, n) = [fifo |-> Append(f, hi), heldBits |-> held, numHeldBits |-> c, ok |-> TRUE]
    BY <1>2, <2>10, <2>11
  <2> QED BY <2>12 DEF HeldOut, hi, held, p, c
<1> QED BY <1>4, <1>5 DEF s

\* writeByteAlignment of a stream that holds bits back: a one and zeros end its byte.
LEMMA EndHeld ==
  ASSUME NEW f, NEW X, Spells(f, X), NEW r \in Nat, NEW h \in 0..7, r < 2^h
  PROVE  \E g : /\ WriteByteAlignment(HeldOut(f, r, h)) = AlignedOut(g) /\ Len(g) = Len(f) + 1
               /\ Spells(g, ((X * 2^h + r) * 2 + 1) * 2^(7 - h))
<1> DEFINE b == r * 2^(8 - h) + 2^(7 - h)
           p == 2^h
           q == 2^(7 - h)
           Y == ((X * 2^h + r) * 2 + 1) * 2^(7 - h)
<1>1. f \in Seq(Byte) /\ X \in Nat BY DEF Spells
<1>2. WriteByteAlignment(HeldOut(f, r, h)) = AlignedOut(Append(f, b)) BY <1>1, AlignHeld
<1>3. b \in 0..255 /\ b = (r * 2 + 1) * q BY HeldBits
<1>4. p * (2 * q) = 256 /\ q \in Nat \ {0} /\ p \in Nat
  <2>1. 2^h * 2^(8 - h) = 256 /\ 2^(8 - h) = 2 * 2^(7 - h) /\ q \in Nat \ {0} BY HeldBits
  <2>2. p \in Nat BY PowType
  <2> QED BY <2>1, <2>2
<1>5. Y = X * 256 + b
  <2>1. Y = ((X * p + r) * 2 + 1) * q OBVIOUS
  <2> HIDE DEF Y, p, q, b
  <2>2. ((X * p + r) * 2 + 1) * q = X * (p * (2 * q)) + (r * 2 + 1) * q BY <1>1, <1>4
  <2> QED BY <1>3, <1>4, <2>1, <2>2
<1>6. b \in Byte BY <1>3 DEF Byte
<1> HIDE DEF b, Y
<1>7. Spells(Append(f, b), X * 256 + b) /\ Len(Append(f, b)) = Len(f) + 1 BY <1>6, SpellsAppend
<1>8. Spells(Append(f, b), Y) BY <1>5, <1>7
<1> QED BY <1>2, <1>7, <1>8 DEF Y

\* The number that the last bits, the one after them and some zeros make.
Closed(X, n, bits) == (X * 2^n + bits) * 2 + 1
Padded(y, a) == y * 2^a

\* The last bits of a substream, the one after them and the zeros up to the byte's end.
LEMMA WriteEnd ==
  ASSUME NEW f, NEW X, Spells(f, X), NEW n \in 5..12, NEW bits \in Nat, bits < 2^n
  PROVE  \E g : \E a \in 0..7 :
           /\ WriteByteAlignment(Write(AlignedOut(f), bits, n)) = AlignedOut(g)
           /\ 8 * Len(g) = 8 * Len(f) + n + 1 + a
           /\ Spells(g, Padded(Closed(X, n, bits), a))
<1>1. f \in Seq(Byte) /\ X \in Nat /\ Len(f) \in Nat BY DEF Spells
<1>2. ASSUME n < 8
      PROVE  \E g : \E a \in 0..7 :
               /\ WriteByteAlignment(Write(AlignedOut(f), bits, n)) = AlignedOut(g)
               /\ 8 * Len(g) = 8 * Len(f) + n + 1 + a
               /\ Spells(g, Padded(Closed(X, n, bits), a))
  <2>1. n \in 0..7 /\ 7 - n \in 0..7 BY <1>2
  <2>2. Write(AlignedOut(f), bits, n) = HeldOut(f, bits, n) BY <1>1, <1>2, WriteWord
  <2>3. PICK g : /\ WriteByteAlignment(HeldOut(f, bits, n)) = AlignedOut(g) /\ Len(g) = Len(f) + 1
                 /\ Spells(g, ((X * 2^n + bits) * 2 + 1) * 2^(7 - n))
    BY <2>1, EndHeld
  <2>4. 8 * Len(g) = 8 * Len(f) + n + 1 + (7 - n) BY <1>1, <2>1, <2>3
  <2> DEFINE a == 7 - n
  <2>5. a \in 0..7 /\ 8 * Len(g) = 8 * Len(f) + n + 1 + a /\ Spells(g, Padded(Closed(X, n, bits), a))
    BY <2>1, <2>3, <2>4 DEF Padded, Closed
  <2> HIDE DEF a
  <2> QED BY <2>2, <2>3, <2>5
<1>3. ASSUME n >= 8
      PROVE  \E g : \E a \in 0..7 :
               /\ WriteByteAlignment(Write(AlignedOut(f), bits, n)) = AlignedOut(g)
               /\ 8 * Len(g) = 8 * Len(f) + n + 1 + a
               /\ Spells(g, Padded(Closed(X, n, bits), a))
  <2> DEFINE c == n - 8
             p == 2^c
             hi == bits \div p
             lo == bits % p
             f1 == Append(f, hi)
             X1 == X * 256 + hi
  <2>1. c \in Nat /\ c \in 0..7 /\ 7 - c \in 0..7 /\ n = c + 8 BY <1>3
  <2>2. Write(AlignedOut(f), bits, n) = HeldOut(f1, lo, c) BY <1>1, <1>3, WriteWord
  <2> HIDE DEF c
  <2>3. 2^n = p * 256 /\ p \in Nat \ {0}
    <3>1. 2^(c + 8) = 2^c * 2^8 BY <2>1, PowSum
    <3>2. 2^c \in Nat \ {0} BY <2>1, PowPositive
    <3>3. 2^n = 2^(c + 8) BY <2>1
    <3> QED BY <3>1, <3>2, <3>3, SmallPowers
  <2>4. bits < 256 * p
    <3> DEFINE P == 2^n
    <3>1. bits < P /\ P = p * 256 BY <2>3
    <3> HIDE DEF P, p
    <3> QED BY <2>3, <3>1
  <2>5. hi \in 0..255 /\ lo \in Nat /\ lo < p /\ bits = p * hi + lo
    <3> HIDE DEF p
    <3>1. hi \in Nat /\ lo \in 0..p-1 /\ bits = p * hi + lo BY <2>3, DivFacts
    <3>2. 0 * p <= bits /\ 0 \in Nat /\ 256 \in Nat BY <2>3
    <3>3. hi < 256 BY <2>3, <2>4, <3>2, DivBetween
    <3> HIDE DEF hi, lo
    <3> QED BY <2>3, <3>1, <3>3
  <2> HIDE DEF hi, lo
  <2>6. hi \in Byte BY <2>5 DEF Byte
  <2>7. Spells(f1, X1) /\ Len(f1) = Len(f) + 1 BY <2>6, SpellsAppend
  <2> HIDE DEF f1, X1
  <2>8. PICK g : /\ WriteByteAlignment(HeldOut(f1, lo, c)) = AlignedOut(g) /\ Len(g) = Len(f1) + 1
                 /\ Spells(g, ((X1 * 2^c + lo) * 2 + 1) * 2^(7 - c))
    BY <2>1, <2>5, <2>7, EndHeld
  <2>9. X1 * p + lo = X * 2^n + bits
    <3> HIDE DEF p
    <3>1. (X * 256 + hi) * p + lo = X * (p * 256) + (p * hi + lo) BY <1>1, <2>3, <2>5
    <3> QED BY <2>3, <2>5, <3>1 DEF X1
  <2>10. Spells(g, ((X * 2^n + bits) * 2 + 1) * 2^(7 - c)) BY <2>8, <2>9
  <2>11. 8 * Len(g) = 8 * Len(f) + n + 1 + (7 - c) BY <1>1, <2>1, <2>7, <2>8
  <2> DEFINE a == 7 - c
  <2>12. a \in 0..7 /\ 8 * Len(g) = 8 * Len(f) + n + 1 + a /\ Spells(g, Padded(Closed(X, n, bits), a))
    BY <2>1, <2>10, <2>11 DEF Padded, Closed
  <2> HIDE DEF a
  <2> QED BY <2>2, <2>8, <2>12
<1> QED BY <1>2, <1>3

-----------------------------------------------------------------------------
(* Intervals and calls.                                                  *)

\* The models that the contexts may have.
ContextModels == [DOMAIN Contexts0 -> Models]

\* An interval of the coder: its lower end and its length, in units of the last of its n
\* bits, and the models of the contexts that go with it.
Interval == [low : Nat, range : 256..510, n : Nat, ctx : ContextModels]

Start == [low |-> 0, range |-> 510, n |-> 9, ctx |-> Contexts0]

\* The part of length r that begins at d, scaled up by m bits.
Scaled(s, d, r, m, ctx) ==
  [low |-> (s.low + d) * 2^m, range |-> r * 2^m, n |-> s.n + m, ctx |-> ctx]

\* The bins are the number of one of 2^n parts of equal length.
WithBins(s, n, bins) == [s EXCEPT !.low = @ * 2^n + bins * s.range, !.n = @ + n]

\* The interval that a call leaves.
AfterBin(s, op) ==
  LET m == s.ctx[op.ctx]
      lps == LpsRange(m, s.range)
      range == s.range - lps
      ctx == [s.ctx EXCEPT ![op.ctx] = Update(@, op.bin)]
  IN IF op.bin # Mps(m) THEN Scaled(s, range, lps, RenormBitsLPS(lps), ctx)
     ELSE Scaled(s, 0, range, IF range < 256 THEN 1 ELSE 0, ctx)

AfterTrm(s) == Scaled(s, 0, s.range - 2, IF s.range - 2 < 256 THEN 1 ELSE 0, s.ctx)

Inside(s, t) == Nested(s.low, s.range, s.n, t.low, t.range, t.n)

\* t is the part of s that begins at d when s is scaled up by m bits.
Narrowed(s, t, m, d) ==
  /\ t.low = s.low * 2^m + d /\ t.n = s.n + m
  /\ d + t.range <= s.range * 2^m

-----------------------------------------------------------------------------
\* The fields of an interval.
LEMMA IntervalFields ==
  ASSUME NEW s \in Interval
  PROVE  /\ s.low \in Nat /\ s.range \in 256..510 /\ s.range \in Nat /\ s.n \in Nat
         /\ s.ctx \in ContextModels
         /\ s = [low |-> s.low, range |-> s.range, n |-> s.n, ctx |-> s.ctx]
  BY DEF Interval

\* The coder starts with an interval.
LEMMA StartType == Contexts0 \in ContextModels /\ Start \in Interval
<1>1. \A c \in DOMAIN Contexts0 : Contexts0[c] \in Models
  <2> SUFFICES ASSUME NEW c \in DOMAIN Contexts0 PROVE Contexts0[c] \in Models
    OBVIOUS
  <2>1. PICK qp \in 0..63, initId \in 0..63, log2WindowSize \in 0..15 :
          Contexts0[c] = InitModel(qp, initId, log2WindowSize)
    BY CabacAssumption
  <2> QED BY <2>1, InitModelType
<1>2. Contexts0 = [c \in DOMAIN Contexts0 |-> Contexts0[c]]
  BY CabacAssumption
<1>3. Contexts0 \in ContextModels
  BY <1>1, <1>2 DEF ContextModels
<1> QED BY <1>3 DEF Start, Interval

\* A narrowed interval is inside of the other.
LEMMA NarrowedInside ==
  ASSUME NEW s \in Interval, NEW t \in Interval, NEW m \in Nat, NEW d \in Nat, Narrowed(s, t, m, d)
  PROVE  Inside(s, t)
<1>1. /\ s.low \in Nat /\ s.range \in Nat /\ s.n \in Nat
      /\ t.low \in Nat /\ t.range \in Nat /\ t.n \in Nat
  BY IntervalFields
<1>2. t.low = s.low * 2^m + d /\ t.n = s.n + m /\ d + t.range <= s.range * 2^m
  BY DEF Narrowed
<1>3. Nested(s.low, s.range, s.n, s.low * 2^m + d, t.range, s.n + m)
  BY <1>1, <1>2, NestedPart
<1> QED BY <1>2, <1>3 DEF Inside

\* An interval is inside of itself,
LEMMA InsideItself ==
  ASSUME NEW s \in Interval
  PROVE  Inside(s, s)
<1>1. s.low \in Nat /\ s.range \in Nat /\ s.n \in Nat BY IntervalFields
<1>2. s.n <= s.n /\ s.n - s.n = 0 BY <1>1
<1>3. 2^(s.n - s.n) = 1 BY <1>2, SmallPowers
<1>4. s.low * 1 <= s.low /\ s.low + s.range <= (s.low + s.range) * 1 BY <1>1
<1> QED BY <1>2, <1>3, <1>4 DEF Inside, Nested

\* and what is inside of an inner one is inside of the outer one.
LEMMA InsideTrans ==
  ASSUME NEW s \in Interval, NEW t \in Interval, NEW u \in Interval, Inside(s, t), Inside(t, u)
  PROVE  Inside(s, u)
<1>1. /\ s.low \in Nat /\ s.range \in Nat /\ s.n \in Nat
      /\ t.low \in Nat /\ t.range \in Nat /\ t.n \in Nat
      /\ u.low \in Nat /\ u.range \in Nat /\ u.n \in Nat
  BY IntervalFields
<1> QED BY <1>1, NestedTrans DEF Inside

\* A part of the range, scaled up, is a narrowed interval.
LEMMA ScaledNarrowed ==
  ASSUME NEW s \in Interval, NEW d \in Nat, NEW r \in Nat, NEW m \in Nat, NEW ctx \in ContextModels,
         d + r <= s.range, r * 2^m \in 256..510
  PROVE  Scaled(s, d, r, m, ctx) \in Interval /\ Narrowed(s, Scaled(s, d, r, m, ctx), m, d * 2^m)
<1> DEFINE p == 2^m
           low == s.low
           range == s.range
           n == s.n
<1>1. low \in Nat /\ range \in Nat /\ n \in Nat BY IntervalFields
<1>2. p \in Nat BY PowType
<1>3. d + r <= range /\ r * p \in 256..510 OBVIOUS
<1>4. Scaled(s, d, r, m, ctx) = [low |-> (low + d) * p, range |-> r * p, n |-> n + m, ctx |-> ctx]
  BY DEF Scaled
<1> HIDE DEF p, low, range, n
<1>5. /\ (low + d) * p \in Nat /\ (low + d) * p = low * p + d * p
      /\ d * p + r * p <= range * p /\ n + m \in Nat
  <2>1. d * p + r * p = (d + r) * p BY <1>2
  <2>2. (d + r) * p <= range * p BY <1>1, <1>2, <1>3
  <2>3. (low + d) * p \in Nat /\ (low + d) * p = low * p + d * p /\ n + m \in Nat BY <1>1, <1>2
  <2> QED BY <2>1, <2>2, <2>3
<1> DEFINE a == (low + d) * p
           b == r * p
           k == n + m
<1>6. Scaled(s, d, r, m, ctx) = [low |-> a, range |-> b, n |-> k, ctx |-> ctx] BY <1>4
<1>7. a \in Nat /\ b \in 256..510 /\ k \in Nat BY <1>3, <1>5
<1>8. a = low * p + d * p /\ d * p + b <= range * p BY <1>5
<1> HIDE DEF a, b
<1>9. Scaled(s, d, r, m, ctx) \in Interval
  <2> HIDE DEF k
  <2> QED BY <1>6, <1>7 DEF Interval
<1>10. Narrowed(s, Scaled(s, d, r, m, ctx), m, d * 2^m)
  BY <1>6, <1>8 DEF Narrowed, low, n, range, p
<1> QED BY <1>9, <1>10

\* So is one of 2^n equal parts.
LEMMA BinsNarrowed ==
  ASSUME NEW s \in Interval, NEW n \in Nat, NEW bins \in Nat, bins < 2^n
  PROVE  WithBins(s, n, bins) \in Interval /\ Narrowed(s, WithBins(s, n, bins), n, bins * s.range)
<1> DEFINE p == 2^n
           low == s.low
           range == s.range
<1>1. low \in Nat /\ range \in Nat /\ s.n \in Nat BY IntervalFields
<1>2. p \in Nat /\ bins < p BY PowType
<1>3. WithBins(s, n, bins) = [s EXCEPT !.low = low * p + bins * range, !.n = s.n + n]
  BY DEF WithBins
<1> HIDE DEF p, low, range
<1>4. low * p + bins * range \in Nat /\ bins * range + range <= range * p
  <2>1. bins + 1 <= p BY <1>2
  <2>2. (bins + 1) * range <= p * range BY <1>1, <1>2, <2>1
  <2>3. (bins + 1) * range = bins * range + range /\ p * range = range * p BY <1>1, <1>2
  <2>4. low * p + bins * range \in Nat BY <1>1, <1>2
  <2> QED BY <2>2, <2>3, <2>4
<1> DEFINE a == low * p + bins * range
           k == s.n + n
<1>5. a \in Nat /\ k \in Nat BY <1>1, <1>4
<1>6. WithBins(s, n, bins) = [s EXCEPT !.low = a, !.n = k] BY <1>3
<1>7. a = low * p + bins * range OBVIOUS
<1> HIDE DEF a
<1>8. WithBins(s, n, bins) \in Interval
  <2> HIDE DEF k
  <2> QED BY <1>5, <1>6 DEF Interval
<1>9. WithBins(s, n, bins).low = a /\ WithBins(s, n, bins).n = s.n + n /\ WithBins(s, n, bins).range = range
  <2>1. s = [low |-> s.low, range |-> s.range, n |-> s.n, ctx |-> s.ctx] BY IntervalFields
  <2> HIDE DEF k
  <2>2. WithBins(s, n, bins) = [low |-> a, range |-> range, n |-> k, ctx |-> s.ctx] BY <1>6, <2>1 DEF range
  <2> QED BY <2>2 DEF k
<1> QED BY <1>4, <1>7, <1>8, <1>9 DEF Narrowed, low, p, range

\* WithBins on a record whose fields are given.
LEMMA WithBinsIs ==
  ASSUME NEW low, NEW range, NEW k, NEW ctx, NEW n, NEW bins
  PROVE  WithBins([low |-> low, range |-> range, n |-> k, ctx |-> ctx], n, bins)
           = [low |-> low * 2^n + bins * range, range |-> range, n |-> k + n, ctx |-> ctx]
<1> DEFINE s == [low |-> low, range |-> range, n |-> k, ctx |-> ctx]
           a == low * 2^n + bins * range
           j == k + n
<1>1. s.low = low /\ s.range = range /\ s.n = k OBVIOUS
<1>2. s.low * 2^n + bins * s.range = a /\ s.n + n = j BY <1>1
<1> HIDE DEF a, j
<1>3. [s EXCEPT !.low = a, !.n = j] = [low |-> a, range |-> range, n |-> j, ctx |-> ctx]
  <2> DEFINE s2 == [low |-> a, range |-> range, n |-> k, ctx |-> ctx]
  <2>1. [s EXCEPT !.low = a] = s2 OBVIOUS
  <2>2. [s2 EXCEPT !.n = j] = [low |-> a, range |-> range, n |-> j, ctx |-> ctx] OBVIOUS
  <2> HIDE DEF s, s2
  <2>3. [s EXCEPT !.low = a, !.n = j] = [[s EXCEPT !.low = a] EXCEPT !.n = j] OBVIOUS
  <2> QED BY <2>1, <2>2, <2>3
<1> HIDE DEF s
<1>4. WithBins(s, n, bins) = [s EXCEPT !.low = a, !.n = j] BY <1>2 DEF WithBins
<1> QED BY <1>3, <1>4 DEF s, a, j

\* No bins leave the interval as it is.
LEMMA NoBins ==
  ASSUME NEW s \in Interval
  PROVE  WithBins(s, 0, 0) = s
<1>1. s.low * 2^0 + 0 * s.range = s.low /\ s.n + 0 = s.n
  <2>1. s.low \in Nat /\ s.range \in Nat /\ s.n \in Nat BY IntervalFields
  <2>2. s.low * 1 + 0 * s.range = s.low /\ s.n + 0 = s.n BY <2>1
  <2> QED BY <2>2, SmallPowers
<1>2. s = [low |-> s.low, range |-> s.range, n |-> s.n, ctx |-> s.ctx] BY IntervalFields
<1> QED BY <1>1, <1>2 DEF WithBins

\* Bins and then others are bins.
LEMMA BinsTwice ==
  ASSUME NEW s \in Interval, NEW n \in Nat, NEW m \in Nat, NEW b \in Nat, NEW c \in Nat
  PROVE  WithBins(WithBins(s, n, b), m, c) = WithBins(s, n + m, b * 2^m + c)
<1> DEFINE p == 2^n
           q == 2^m
           low == s.low
           range == s.range
<1>1. low \in Nat /\ range \in Nat /\ s.n \in Nat BY IntervalFields
<1>2. p \in Nat /\ q \in Nat BY PowType
<1>3. 2^(n + m) = p * q BY PowSum
<1>4. s = [low |-> low, range |-> range, n |-> s.n, ctx |-> s.ctx] BY IntervalFields
<1> HIDE DEF p, q, low, range
<1>5. (low * p + b * range) * q + c * range = low * (p * q) + (b * q + c) * range
  BY <1>1, <1>2
<1>6. (s.n + n) + m = s.n + (n + m) BY <1>1
<1> DEFINE u == low * p + b * range
           v == s.n + n
           w == b * q + c
<1>7. u * q + c * range = low * (p * q) + w * range /\ v + m = s.n + (n + m) BY <1>5, <1>6
<1>8. WithBins(s, n, b) = [low |-> u, range |-> range, n |-> v, ctx |-> s.ctx]
  <2>1. WithBins(s, n, b) = WithBins([low |-> low, range |-> range, n |-> s.n, ctx |-> s.ctx], n, b) BY <1>4
  <2>2. WithBins([low |-> low, range |-> range, n |-> s.n, ctx |-> s.ctx], n, b)
          = [low |-> low * 2^n + b * range, range |-> range, n |-> s.n + n, ctx |-> s.ctx]
    BY WithBinsIs
  <2> QED BY <2>1, <2>2 DEF p
<1> HIDE DEF u, v
<1>9. WithBins(WithBins(s, n, b), m, c) = [low |-> u * q + c * range, range |-> range, n |-> v + m, ctx |-> s.ctx]
  BY <1>8, WithBinsIs DEF q
<1> HIDE DEF w
<1>10. WithBins(s, n + m, w)
         = [low |-> low * 2^(n + m) + w * range, range |-> range, n |-> s.n + (n + m), ctx |-> s.ctx]
  BY <1>4, WithBinsIs
<1>11. WithBins(s, n + m, w)
         = [low |-> low * (p * q) + w * range, range |-> range, n |-> s.n + (n + m), ctx |-> s.ctx]
  BY <1>3, <1>10
<1> QED BY <1>7, <1>9, <1>11 DEF q, w

\* The fields of the calls that may be made, by CabacAssumption.
LEMMA OpFields ==
  ASSUME NEW op \in Ops
  PROVE  /\ op.kind \in {"ctx", "ep", "trm", "align", "eps", "rem"}
         /\ op.kind = "ctx" => op.ctx \in DOMAIN Contexts0 /\ op.bin \in {0, 1}
         /\ op.kind = "ep" => op.bin \in {0, 1}
         /\ op.kind = "trm" => op.bin = 0
         /\ op.kind = "eps" => op.bins \in Nat /\ op.num \in Nat /\ op.bins < 2^op.num
         /\ op.kind = "rem" => /\ op.value \in Nat /\ op.rice \in Nat /\ op.cutoff \in Nat
                              /\ op.log2Range \in 0..31 /\ MaxPrefixLength(op) \in Nat
                              /\ op.value < Shl(op.cutoff + 2^MaxPrefixLength(op) - 1, op.rice) + 2^op.log2Range
<1>1. IsOp(op) BY CabacAssumption
<1>2. CASE op \in [kind : {"ctx"}, ctx : DOMAIN Contexts0, bin : {0, 1}] BY <1>2
<1>3. CASE op \in [kind : {"ep"}, bin : {0, 1}] BY <1>3
<1>4. CASE op \in [kind : {"trm"}, bin : {0}] BY <1>4
<1>5. CASE op \in [kind : {"align"}] BY <1>5
<1>6. CASE op \in [kind : {"eps"}, bins : Nat, num : Nat] /\ op.bins < 2^op.num BY <1>6
<1>7. CASE /\ op \in [kind : {"rem"}, value : Nat, rice : Nat, cutoff : Nat, log2Range : 0..31]
           /\ MaxPrefixLength(op) \in Nat
           /\ op.value < Shl(op.cutoff + 2^MaxPrefixLength(op) - 1, op.rice) + 2^op.log2Range
  BY <1>7
<1> QED BY <1>1, <1>2, <1>3, <1>4, <1>5, <1>6, <1>7 DEF IsOp

\* A range that is not below 256, or half of one, after one bit at most.
LEMMA HalfRange ==
  ASSUME NEW r \in 128..510
  PROVE  r * 2^(IF r < 256 THEN 1 ELSE 0) \in 256..510 /\ (IF r < 256 THEN 1 ELSE 0) \in 0..1
<1>1. CASE r < 256
  <2>1. r * 2 \in 256..510 BY <1>1
  <2> QED BY <1>1, <2>1, SmallPowers
<1>2. CASE ~(r < 256)
  <2>1. r * 1 \in 256..510 BY <1>2
  <2> QED BY <1>2, <2>1, SmallPowers
<1> QED BY <1>1, <1>2

\* The parts that a context divides the range into.
LEMMA PartsOfRange ==
  ASSUME NEW s \in Interval, NEW c \in DOMAIN Contexts0
  PROVE  /\ Mps(s.ctx[c]) \in {0, 1} /\ LpsRange(s.ctx[c], s.range) \in 4..236
         /\ s.range - LpsRange(s.ctx[c], s.range) \in 128..506
<1>1. s.ctx[c] \in Models BY IntervalFields DEF ContextModels
<1>2. s.range \in 256..510 BY IntervalFields
<1>3. Mps(s.ctx[c]) \in {0, 1} BY <1>1, MpsType
<1>4. LpsRange(s.ctx[c], s.range) \in 4..236 BY <1>1, <1>2, LpsRangeType, Zenon
<1>5. s.range - LpsRange(s.ctx[c], s.range) \in 128..506 BY <1>1, <1>2, LpsRangeType, Zenon
<1> QED BY <1>3, <1>4, <1>5

\* A bin of a context leaves the part that the context gives it.
LEMMA AfterBinNarrowed ==
  ASSUME NEW s \in Interval, NEW c \in DOMAIN Contexts0, NEW bin \in {0, 1}, NEW op, op.ctx = c, op.bin = bin,
         NEW m, m = s.ctx[c], NEW lps, lps = LpsRange(m, s.range),
         NEW range, range = s.range - lps, NEW ctx, ctx = [s.ctx EXCEPT ![c] = Update(@, bin)]
  PROVE  /\ m \in Models /\ Mps(m) \in {0, 1} /\ ctx \in ContextModels
         /\ lps \in 4..236 /\ range \in 128..506
         /\ bin # Mps(m) => /\ AfterBin(s, op) = Scaled(s, range, lps, RenormBitsLPS(lps), ctx)
                            /\ RenormBitsLPS(lps) \in 1..6
                            /\ AfterBin(s, op) \in Interval
                            /\ Narrowed(s, AfterBin(s, op), RenormBitsLPS(lps), range * 2^RenormBitsLPS(lps))
         /\ bin = Mps(m) => /\ AfterBin(s, op) = Scaled(s, 0, range, IF range < 256 THEN 1 ELSE 0, ctx)
                            /\ AfterBin(s, op) \in Interval
                            /\ Narrowed(s, AfterBin(s, op), IF range < 256 THEN 1 ELSE 0, 0)
<1>1. m \in Models /\ s.ctx \in ContextModels BY IntervalFields DEF ContextModels
<1>2. s.range \in 256..510 /\ s.range \in Nat BY IntervalFields
<1>3. Mps(m) \in {0, 1} /\ lps \in 4..236 /\ range \in 128..506
  BY PartsOfRange
<1>4. ctx \in ContextModels
  <2>1. Update(m, bin) \in Models BY <1>1, UpdateType
  <2> QED BY <1>1, <2>1 DEF ContextModels
<1>5. ASSUME bin # Mps(m)
      PROVE  /\ AfterBin(s, op) = Scaled(s, range, lps, RenormBitsLPS(lps), ctx)
             /\ RenormBitsLPS(lps) \in 1..6
             /\ AfterBin(s, op) \in Interval
             /\ Narrowed(s, AfterBin(s, op), RenormBitsLPS(lps), range * 2^RenormBitsLPS(lps))
  <2>1. AfterBin(s, op) = Scaled(s, range, lps, RenormBitsLPS(lps), ctx) BY <1>5 DEF AfterBin
  <2>2. RenormBitsLPS(lps) \in 1..6 /\ lps * 2^RenormBitsLPS(lps) \in 256..510 BY <1>3, RenormBits
  <2>3. range + lps <= s.range /\ range \in Nat /\ lps \in Nat BY <1>2, <1>3
  <2>4. RenormBitsLPS(lps) \in Nat BY <2>2
  <2> DEFINE b == RenormBitsLPS(lps)
  <2>5. lps * 2^b \in 256..510 /\ b \in Nat BY <2>2, <2>4
  <2> HIDE DEF b
  <2>6. Scaled(s, range, lps, b, ctx) \in Interval /\ Narrowed(s, Scaled(s, range, lps, b, ctx), b, range * 2^b)
    BY <1>4, <2>3, <2>5, ScaledNarrowed
  <2> QED BY <2>1, <2>2, <2>6 DEF b
<1>6. ASSUME bin = Mps(m)
      PROVE  /\ AfterBin(s, op) = Scaled(s, 0, range, IF range < 256 THEN 1 ELSE 0, ctx)
             /\ AfterBin(s, op) \in Interval
             /\ Narrowed(s, AfterBin(s, op), IF range < 256 THEN 1 ELSE 0, 0)
  <2> DEFINE b == IF range < 256 THEN 1 ELSE 0
  <2>1. AfterBin(s, op) = Scaled(s, 0, range, b, ctx) BY <1>6 DEF AfterBin
  <2>2. range * 2^b \in 256..510 /\ b \in 0..1
    <3>1. range \in 128..510 BY <1>3
    <3> QED BY <3>1, HalfRange
  <2> HIDE DEF b
  <2>3. 0 + range <= s.range /\ range \in Nat /\ 0 \in Nat BY <1>2, <1>3
  <2>4. b \in Nat BY <2>2
  <2>5. Scaled(s, 0, range, b, ctx) \in Interval /\ Narrowed(s, Scaled(s, 0, range, b, ctx), b, 0 * 2^b)
    BY <1>4, <2>2, <2>3, <2>4, ScaledNarrowed
  <2>6. 0 * 2^b = 0
    <3>1. 2^b \in Nat BY <2>4, PowType
    <3> QED BY <3>1
  <2> QED BY <2>1, <2>5, <2>6 DEF b
<1> QED BY <1>1, <1>3, <1>4, <1>5, <1>6

\* A terminating zero leaves all of the range but two.
LEMMA AfterTrmNarrowed ==
  ASSUME NEW s \in Interval
  PROVE  /\ AfterTrm(s) \in Interval /\ s.range - 2 \in 254..508
         /\ Narrowed(s, AfterTrm(s), IF s.range - 2 < 256 THEN 1 ELSE 0, 0)
<1> DEFINE range == s.range - 2
           b == IF range < 256 THEN 1 ELSE 0
<1>1. s.range \in 256..510 /\ s.range \in Nat /\ s.ctx \in ContextModels BY IntervalFields
<1>2. range \in 254..508 /\ range \in 128..510 /\ range \in Nat /\ 0 + range <= s.range BY <1>1
<1>3. AfterTrm(s) = Scaled(s, 0, range, b, s.ctx) BY DEF AfterTrm
<1>5. range * 2^b \in 256..510 /\ b \in 0..1
  <2> HIDE DEF range
  <2> QED BY <1>2, HalfRange
<1> HIDE DEF range, b
<1>4. b \in Nat /\ 0 \in Nat BY <1>5
<1>6. Scaled(s, 0, range, b, s.ctx) \in Interval /\ Narrowed(s, Scaled(s, 0, range, b, s.ctx), b, 0 * 2^b)
  BY <1>1, <1>2, <1>4, <1>5, ScaledNarrowed
<1>7. 0 * 2^b = 0
  <2>1. 2^b \in Nat BY <1>4, PowType
  <2> QED BY <2>1
<1> QED BY <1>2, <1>3, <1>6, <1>7 DEF b, range

\* What the decoder makes of the number of ones in front of a remainder.
MaxOnes(op) == 32 - op.log2Range
RemOffset(op, ones) ==
  IF ones < op.cutoff THEN Shl(ones, op.rice)
  ELSE Shl(2^(ones - op.cutoff) + op.cutoff - 1, op.rice)
RemLength(op, ones) ==
  IF ones < op.cutoff THEN op.rice
  ELSE op.rice + (IF ones = MaxOnes(op) THEN op.log2Range - op.rice ELSE ones - op.cutoff)

\* The bins of a remainder: ones, a zero unless there are as many as there can be, and
\* a suffix.
IsCode(op, ones, zeros, length, suffix) ==
  /\ ones \in Nat /\ ones <= MaxOnes(op) /\ length \in Nat /\ suffix \in Nat /\ suffix < 2^length
  /\ zeros = IF ones = MaxOnes(op) THEN 0 ELSE 1
  /\ length = RemLength(op, ones)
  /\ op.value = RemOffset(op, ones) + suffix

CodeBins(ones, zeros, length, suffix) == (2^ones - 1) * 2^(zeros + length) + suffix

\* The call op leaves the part t of s.
Follows(s, op, t) ==
  \/ op.kind = "ctx" /\ t = AfterBin(s, op)
  \/ op.kind = "ep" /\ t = WithBins(s, 1, op.bin)
  \/ op.kind = "trm" /\ t = AfterTrm(s)
  \/ op.kind = "align" /\ t = [s EXCEPT !.range = 256]
  \/ op.kind = "eps" /\ t = WithBins(s, op.num, op.bins)
  \/ /\ op.kind = "rem"
     /\ \E ones, zeros, length, suffix :
          /\ IsCode(op, ones, zeros, length, suffix)
          /\ t = WithBins(s, ones + zeros + length, CodeBins(ones, zeros, length, suffix))

\* The chunks lead from s to t.
IsChunk(c) == c = [num |-> c.num, bins |-> c.bins] /\ c.num \in 1..8 /\ c.bins \in Nat /\ c.bins < 2^c.num
Path(s, chunks, t) ==
  /\ chunks \in Seq(Range(chunks)) /\ \A i \in 1..Len(chunks) : IsChunk(chunks[i])
  /\ \E st \in [1..(Len(chunks) + 1) -> Interval] :
       /\ st[1] = s /\ st[Len(chunks) + 1] = t
       /\ \A i \in 1..Len(chunks) : st[i + 1] = WithBins(st[i], chunks[i].num, chunks[i].bins)

-----------------------------------------------------------------------------
\* Chunks are what they are made from: after each of them but the last, a multiple of
\* eight bins is done.
LEMMA DigitsBelow ==
  ASSUME NEW x \in Nat, NEW p \in Nat \ {0}, NEW d \in Nat \ {0}
  PROVE  x \div p = (x \div (p * d)) * d + ((x \div p) % d)
<1> DEFINE q == x \div p
<1>1. q \in Nat BY DivFacts
<1>2. q \div d = x \div (p * d) BY DivDiv
<1> HIDE DEF q
<1>3. q = d * (q \div d) + (q % d) /\ q \div d \in Nat /\ q % d \in 0..d-1 BY <1>1, DivFacts
<1> DEFINE a == q \div d
           b == q % d
<1>4. q = d * a + b /\ a \in Nat /\ b \in 0..d-1 BY <1>3
<1> HIDE DEF a, b
<1>5. q = a * d + b BY <1>4
<1> QED BY <1>2, <1>5 DEF a, b, q

\* The chunks of n bins lead to the interval of the n bins.
LEMMA ChunksPath ==
  ASSUME NEW s \in Interval, NEW n \in Nat, NEW bins \in Nat, bins < 2^n
  PROVE  Path(s, Chunks(bins, n), WithBins(s, n, bins)) /\ WithBins(s, n, bins) \in Interval
<1> DEFINE count == (n + 7) \div 8
           c == Chunks(bins, n)
           m == n - 8 * (count - 1)
           Before(i) == IF i = count + 1 THEN n ELSE 8 * (i - 1)
           Head0(i) == bins \div 2^(n - Before(i))
           st == [i \in 1..(count + 1) |-> WithBins(s, Before(i), Head0(i))]
<1>1. count \in Nat /\ 8 * count \in n..n+7 BY DivFacts
<1>2. c = [i \in 1..count |-> IF i < count
                              THEN [num |-> 8, bins |-> LowBits(Shr(bins, n - 8 * i), 8)]
                              ELSE [num |-> m, bins |-> LowBits(bins, m)]]
  BY DEF Chunks
<1> HIDE DEF c, count
<1>3. m \in Int /\ (count > 0 => m \in 1..8) BY <1>1
<1>4. \A i \in 1..count+1 : Before(i) \in Nat /\ Before(i) <= n BY <1>1
<1>5. \A i \in 1..count+1 : Head0(i) \in Nat /\ Head0(i) < 2^Before(i)
  <2> SUFFICES ASSUME NEW i \in 1..count+1 PROVE Head0(i) \in Nat /\ Head0(i) < 2^Before(i)
    OBVIOUS
  <2> DEFINE k == Before(i)
             p == 2^(n - k)
             q == 2^k
             r == 2^n
  <2>1. k \in Nat /\ k <= n BY <1>4
  <2> HIDE DEF k
  <2>2. r = q * p /\ q \in Nat \ {0} /\ p \in Nat \ {0} BY <2>1, PowSplit
  <2>3. Head0(i) = bins \div p BY DEF k
  <2>4. bins < r OBVIOUS
  <2> HIDE DEF p, q, r
  <2>5. bins < q * p /\ 0 * p <= bins /\ 0 \in Nat /\ q \in Nat BY <2>2, <2>4
  <2>6. bins \div p < q BY <2>2, <2>5, DivBetween
  <2>7. bins \div p \in Nat BY <2>2, DivFacts
  <2> QED BY <2>3, <2>6, <2>7 DEF q, k
<1>6. \A i \in 1..count+1 : WithBins(s, Before(i), Head0(i)) \in Interval
  <2> HIDE DEF Before, Head0
  <2> QED BY <1>4, <1>5, BinsNarrowed
<1>7. st \in [1..(count + 1) -> Interval] BY <1>6
<1>8. st[1] = s
  <2>1. Before(1) = 0
    <3>1. CASE count = 0 BY <1>1, <3>1
    <3>2. CASE count # 0 BY <1>1, <3>2
    <3> QED BY <3>1, <3>2
  <2>2. Head0(1) \in Nat /\ Head0(1) < 2^Before(1) BY <1>1, <1>5
  <2>3. Head0(1) = 0
    <3> HIDE DEF Before, Head0
    <3>1. 2^Before(1) = 1 BY <2>1, SmallPowers
    <3> QED BY <2>2, <3>1
  <2>4. st[1] = WithBins(s, Before(1), Head0(1)) BY <1>1
  <2> HIDE DEF Before, Head0, st
  <2> QED BY <2>1, <2>3, <2>4, NoBins
<1>9. st[count + 1] = WithBins(s, n, bins)
  <2>1. Before(count + 1) = n OBVIOUS
  <2>2. Head0(count + 1) = bins
    <3>1. n - Before(count + 1) = 0 BY <2>1
    <3>2. 2^(n - Before(count + 1)) = 1 BY <3>1, SmallPowers
    <3> QED BY <3>2
  <2>3. st[count + 1] = WithBins(s, Before(count + 1), Head0(count + 1)) BY <1>1
  <2> HIDE DEF Before, Head0, st
  <2> QED BY <2>1, <2>2, <2>3
<1>10. ASSUME NEW i \in 1..count
       PROVE  IsChunk(c[i]) /\ st[i + 1] = WithBins(st[i], c[i].num, c[i].bins)
  <2> DEFINE k == IF i < count THEN 8 ELSE m
             d == 2^k
             p == 2^(n - Before(i + 1))
             b == (bins \div p) % d
  <2>1. k \in 1..8 /\ k \in Nat /\ Before(i + 1) = Before(i) + k /\ Before(i) \in Nat /\ Before(i + 1) \in Nat
        /\ Before(i + 1) <= n /\ Before(i) <= n
    BY <1>1, <1>3
  <2>2. c[i] = [num |-> k, bins |-> b]
    <3>1. CASE i < count
      <4>1. Before(i + 1) = 8 * i BY <1>1, <3>1
      <4>2. c[i] = [num |-> 8, bins |-> LowBits(Shr(bins, n - 8 * i), 8)] BY <1>2, <3>1
      <4> HIDE DEF Before
      <4>3. b = LowBits(Shr(bins, n - 8 * i), 8) BY <3>1, <4>1 DEF LowBits, Shr
      <4> QED BY <3>1, <4>2, <4>3
    <3>2. CASE ~(i < count)
      <4>1. Before(i + 1) = n BY <1>1, <3>2
      <4>2. c[i] = [num |-> m, bins |-> LowBits(bins, m)] BY <1>2, <3>2
      <4>3. p = 1
        <5>1. n - Before(i + 1) = 0 BY <4>1
        <5> HIDE DEF Before
        <5> QED BY <5>1, SmallPowers
      <4> HIDE DEF Before, p
      <4>4. bins \div p = bins BY <4>3
      <4>5. b = LowBits(bins, m) BY <3>2, <4>4 DEF LowBits
      <4> QED BY <3>2, <4>2, <4>5
    <3> QED BY <3>1, <3>2
  <2> DEFINE D == Before(i)
             D1 == Before(i + 1)
  <2>3. n - D = (n - D1) + k /\ n - D1 \in Nat /\ n - D \in Nat BY <2>1
  <2>4. st[i] = WithBins(s, D, bins \div 2^(n - D)) /\ st[i + 1] = WithBins(s, D1, bins \div 2^(n - D1))
    BY <1>1
  <2>5. D \in Nat /\ D1 = D + k /\ p = 2^(n - D1) BY <2>1
  <2> HIDE DEF D, D1, k, st, Before, Head0, p, b
  <2>6. p \in Nat \ {0} /\ d \in Nat \ {0} /\ 2^(n - D) = p * d
    <3>1. 2^((n - D1) + k) = 2^(n - D1) * 2^k BY <2>1, <2>3, PowSum
    <3>2. 2^(n - D) = 2^((n - D1) + k) BY <2>3
    <3>3. 2^(n - D1) \in Nat \ {0} /\ 2^k \in Nat \ {0} BY <2>1, <2>3, PowPositive
    <3> QED BY <2>5, <3>1, <3>2, <3>3
  <2> DEFINE h == bins \div (p * d)
  <2>7. bins \div p = h * d + b BY <2>6, DigitsBelow DEF b
  <2>8. h \in Nat /\ b \in Nat /\ b < d
    <3>1. bins \div p \in Nat BY <2>6, DivFacts
    <3>2. (bins \div p) % d \in 0..d-1 BY <2>6, <3>1, DivFacts
    <3>3. p * d \in Nat \ {0} BY <2>6
    <3>4. h \in Nat BY <3>3, DivFacts
    <3> QED BY <2>6, <3>2, <3>4 DEF b
  <2>9. st[i] = WithBins(s, D, h) /\ st[i + 1] = WithBins(s, D + k, h * d + b)
    BY <2>4, <2>5, <2>6, <2>7
  <2> HIDE DEF h
  <2>10. WithBins(WithBins(s, D, h), k, b) = WithBins(s, D + k, h * d + b)
    BY <2>1, <2>5, <2>8, BinsTwice
  <2>11. c[i].num = k /\ c[i].bins = b /\ c[i] = [num |-> c[i].num, bins |-> c[i].bins] BY <2>2
  <2>12. IsChunk(c[i])
    BY <2>1, <2>8, <2>11 DEF IsChunk
  <2> QED BY <2>9, <2>10, <2>11, <2>12
<1>11. Len(c) = count /\ c \in Seq(Range(c))
  <2>1. DOMAIN c = 1..count BY <1>2
  <2>2. \A i \in 1..count : c[i] \in Range(c) BY <2>1 DEF Range
  <2>3. c = [i \in 1..count |-> c[i]] BY <1>2
  <2>4. c \in [1..count -> Range(c)] BY <2>2, <2>3
  <2> QED BY <1>1, <2>1, <2>4
<1> HIDE DEF st
<1>12. Path(s, c, WithBins(s, n, bins))
  <2>1. \A i \in 1..Len(c) : IsChunk(c[i]) /\ st[i + 1] = WithBins(st[i], c[i].num, c[i].bins)
    BY <1>10, <1>11
  <2>2. st \in [1..(Len(c) + 1) -> Interval] /\ st[1] = s /\ st[Len(c) + 1] = WithBins(s, n, bins)
    BY <1>7, <1>8, <1>9, <1>11
  <2> QED BY <1>11, <2>1, <2>2 DEF Path
<1> QED BY <1>12, BinsNarrowed DEF c

\* A sequence is one of its own items.
LEMMA SeqOfItself ==
  ASSUME NEW S, NEW q \in Seq(S)
  PROVE  q \in Seq(Range(q))
<1>1. q = [i \in 1..Len(q) |-> q[i]] /\ Len(q) \in Nat /\ DOMAIN q = 1..Len(q) OBVIOUS
<1>2. \A i \in 1..Len(q) : q[i] \in Range(q) BY <1>1 DEF Range
<1>3. q \in [1..Len(q) -> Range(q)] BY <1>1, <1>2
<1> QED BY <1>1, <1>3

\* No chunk leads nowhere,
LEMMA PathNothing ==
  ASSUME NEW s \in Interval
  PROVE  Path(s, <<>>, s)
<1> DEFINE st == [i \in 1..1 |-> s]
<1>1. st \in [1..(Len(<<>>) + 1) -> Interval] /\ st[1] = s /\ st[Len(<<>>) + 1] = s OBVIOUS
<1>2. <<>> \in Seq(Range(<<>>)) /\ 1..Len(<<>>) = {} OBVIOUS
<1> HIDE DEF st
<1> QED BY <1>1, <1>2 DEF Path

\* and ends where it starts.
LEMMA PathEnds ==
  ASSUME NEW s, NEW t, Path(s, <<>>, t)
  PROVE  s = t
  BY DEF Path

\* The first chunk of a path, and the path that remains.
LEMMA PathStep ==
  ASSUME NEW s \in Interval, NEW chunks, NEW t, Path(s, chunks, t), chunks # <<>>
  PROVE  /\ IsChunk(Head(chunks))
         /\ WithBins(s, Head(chunks).num, Head(chunks).bins) \in Interval
         /\ Path(WithBins(s, Head(chunks).num, Head(chunks).bins), Tail(chunks), t)
<1> DEFINE n == Len(chunks)
           rest == Tail(chunks)
           c == Head(chunks)
           u == WithBins(s, c.num, c.bins)
<1>1. chunks \in Seq(Range(chunks)) /\ \A i \in 1..n : IsChunk(chunks[i]) BY DEF Path
<1>2. PICK st \in [1..(n + 1) -> Interval] :
         /\ st[1] = s /\ st[n + 1] = t
         /\ \A i \in 1..n : st[i + 1] = WithBins(st[i], chunks[i].num, chunks[i].bins)
  BY DEF Path
<1>3. n \in Nat \ {0} /\ c = chunks[1] /\ Len(rest) = n - 1 /\ \A i \in 1..(n - 1) : rest[i] = chunks[i + 1]
  BY <1>1
<1>4. IsChunk(c) BY <1>1, <1>3
<1>5. st[2] = u
  <2>1. st[1 + 1] = WithBins(st[1], chunks[1].num, chunks[1].bins) BY <1>2, <1>3
  <2> QED BY <1>2, <1>3, <2>1
<1>6. u \in Interval BY <1>2, <1>3, <1>5
<1>7. rest \in Seq(Range(rest))
  <2>1. rest \in Seq(Range(chunks)) BY <1>1, <1>3
  <2> HIDE DEF rest
  <2> QED BY <2>1, SeqOfItself
<1> DEFINE st2 == [i \in 1..n |-> st[i + 1]]
<1>8. st2 \in [1..(Len(rest) + 1) -> Interval] /\ st2[1] = u /\ st2[Len(rest) + 1] = t
  BY <1>2, <1>3, <1>5
<1>9. \A i \in 1..Len(rest) : /\ IsChunk(rest[i])
                              /\ st2[i + 1] = WithBins(st2[i], rest[i].num, rest[i].bins)
  <2> SUFFICES ASSUME NEW i \in 1..(n - 1)
               PROVE  IsChunk(rest[i]) /\ st2[i + 1] = WithBins(st2[i], rest[i].num, rest[i].bins)
    BY <1>3
  <2>1. rest[i] = chunks[i + 1] /\ i + 1 \in 1..n /\ i \in 1..n BY <1>3
  <2>2. st2[i] = st[i + 1] /\ st2[i + 1] = st[(i + 1) + 1] BY <2>1
  <2>3. st[(i + 1) + 1] = WithBins(st[i + 1], chunks[i + 1].num, chunks[i + 1].bins) BY <1>2, <2>1
  <2> QED BY <1>1, <2>1, <2>2, <2>3
<1> HIDE DEF st2, u, rest
<1>10. Path(u, rest, t) BY <1>7, <1>8, <1>9 DEF Path
<1> QED BY <1>4, <1>6, <1>10 DEF u, rest

\* One path after another.
LEMMA PathsJoin ==
  ASSUME NEW s, NEW a, NEW t, NEW b, NEW u, Path(s, a, t), Path(t, b, u)
  PROVE  Path(s, a \o b, u)
<1> DEFINE n == Len(a)
           m == Len(b)
           c == a \o b
<1>1. a \in Seq(Range(a)) /\ b \in Seq(Range(b)) BY DEF Path
<1>2. (\A i \in 1..n : IsChunk(a[i])) /\ (\A i \in 1..m : IsChunk(b[i])) BY DEF Path
<1>3. PICK st \in [1..(n + 1) -> Interval] :
         /\ st[1] = s /\ st[n + 1] = t
         /\ \A i \in 1..n : st[i + 1] = WithBins(st[i], a[i].num, a[i].bins)
  BY DEF Path
<1>4. PICK su \in [1..(m + 1) -> Interval] :
         /\ su[1] = t /\ su[m + 1] = u
         /\ \A i \in 1..m : su[i + 1] = WithBins(su[i], b[i].num, b[i].bins)
  BY DEF Path
<1>5. /\ n \in Nat /\ m \in Nat /\ Len(c) = n + m
      /\ \A i \in 1..(n + m) : c[i] = IF i <= n THEN a[i] ELSE b[i - n]
  BY <1>1
<1>6. c \in Seq(Range(c))
  <2>1. c \in Seq(Range(a) \cup Range(b))
    <3>1. a \in Seq(Range(a) \cup Range(b)) /\ b \in Seq(Range(a) \cup Range(b))
      BY <1>1, \A A, B : Seq(A) \subseteq Seq(A \cup B) /\ Seq(B) \subseteq Seq(A \cup B)
    <3> QED BY <3>1
  <2> HIDE DEF c
  <2> QED BY <2>1, SeqOfItself
<1> HIDE DEF c, n, m
<1> DEFINE sv == [i \in 1..(n + m + 1) |-> IF i <= n + 1 THEN st[i] ELSE su[i - n]]
<1>7. sv \in [1..(Len(c) + 1) -> Interval]
  <2>1. \A i \in 1..(n + m + 1) : i > n + 1 => i - n \in 1..(m + 1) BY <1>5
  <2>2. \A i \in 1..(n + m + 1) : i <= n + 1 => i \in 1..(n + 1) BY <1>5
  <2>3. \A i \in 1..(n + m + 1) : (IF i <= n + 1 THEN st[i] ELSE su[i - n]) \in Interval
    <3> SUFFICES ASSUME NEW i \in 1..(n + m + 1)
                 PROVE  (IF i <= n + 1 THEN st[i] ELSE su[i - n]) \in Interval
      OBVIOUS
    <3>1. CASE i <= n + 1
      <4>1. st[i] \in Interval BY <1>3, <2>2, <3>1
      <4> QED BY <3>1, <4>1
    <3>2. CASE ~(i <= n + 1)
      <4>1. i - n \in 1..(m + 1) BY <1>5, <3>2
      <4>2. su[i - n] \in Interval BY <1>4, <4>1
      <4> QED BY <3>2, <4>2
    <3> QED BY <3>1, <3>2
  <2> QED BY <1>5, <2>3
<1>8. sv[1] = s /\ sv[Len(c) + 1] = u
  <2>1. sv[1] = s BY <1>3, <1>5
  <2>2. CASE m = 0
    <3>1. sv[n + m + 1] = st[n + 1] BY <1>5, <2>2
    <3>2. u = t BY <1>4, <2>2
    <3> QED BY <1>3, <1>5, <2>1, <3>1, <3>2
  <2>3. CASE m # 0
    <3>1. sv[n + m + 1] = su[m + 1] BY <1>5, <2>3
    <3> QED BY <1>4, <1>5, <2>1, <3>1
  <2> QED BY <2>2, <2>3
<1>9. \A i \in 1..Len(c) : IsChunk(c[i]) /\ sv[i + 1] = WithBins(sv[i], c[i].num, c[i].bins)
  <2> SUFFICES ASSUME NEW i \in 1..(n + m)
               PROVE  IsChunk(c[i]) /\ sv[i + 1] = WithBins(sv[i], c[i].num, c[i].bins)
    BY <1>5
  <2>1. CASE i <= n
    <3>1. c[i] = a[i] /\ i \in 1..n BY <1>5, <2>1
    <3>2. sv[i] = st[i] /\ sv[i + 1] = st[i + 1] BY <1>5, <2>1
    <3> QED BY <1>2, <1>3, <3>1, <3>2
  <2>2. CASE i > n
    <3>1. c[i] = b[i - n] /\ i - n \in 1..m BY <1>5, <2>2
    <3>2. sv[i] = su[i - n]
      <4>1. CASE i = n + 1
        <5>1. sv[i] = st[n + 1] BY <1>5, <4>1
        <5>2. i - n = 1 BY <1>5, <4>1
        <5> QED BY <1>3, <1>4, <5>1, <5>2
      <4>2. CASE i # n + 1 BY <1>5, <2>2, <4>2
      <4> QED BY <4>1, <4>2
    <3>3. sv[i + 1] = su[(i - n) + 1]
      <4>1. ~(i + 1 <= n + 1) /\ i + 1 \in 1..(n + m + 1) /\ (i + 1) - n = (i - n) + 1 BY <1>5, <2>2
      <4> QED BY <4>1
    <3>4. su[(i - n) + 1] = WithBins(su[i - n], b[i - n].num, b[i - n].bins) BY <1>4, <3>1
    <3> QED BY <1>2, <3>1, <3>2, <3>3, <3>4
  <2> QED BY <1>5, <2>1, <2>2
<1> HIDE DEF sv
<1>10. Path(s, c, u) BY <1>6, <1>7, <1>8, <1>9 DEF Path
<1> QED BY <1>10 DEF c

\* The two ways in which the encoder divides a code.
LEMMA CodePaths ==
  ASSUME NEW s \in Interval, NEW ones \in Nat, NEW zeros \in {0, 1}, NEW length \in Nat, NEW suffix \in Nat,
         suffix < 2^length
  PROVE  LET t == WithBins(s, ones + zeros + length, CodeBins(ones, zeros, length, suffix))
         IN /\ t \in Interval
            /\ Path(s, Chunks((2^ones - 1) * 2^zeros, ones + zeros) \o Chunks(suffix, length), t)
            /\ Path(s, Chunks(2^ones - 1, ones) \o Chunks(suffix, zeros + length), t)
<1> DEFINE p == 2^ones
           z == 2^zeros
           q == 2^length
           t == WithBins(s, ones + zeros + length, CodeBins(ones, zeros, length, suffix))
<1>1. /\ p \in Nat \ {0} /\ z \in Nat \ {0} /\ q \in Nat \ {0}
      /\ 2^(ones + zeros) = p * z /\ 2^(zeros + length) = z * q
      /\ zeros \in Nat /\ ones + zeros \in Nat /\ zeros + length \in Nat
  <2>1. zeros \in Nat OBVIOUS
  <2>2. ones + zeros \in Nat /\ zeros + length \in Nat BY <2>1
  <2>3. 2^(ones + zeros) = p * z /\ 2^(zeros + length) = z * q BY <2>1, PowSum
  <2>4. p \in Nat \ {0} /\ z \in Nat \ {0} /\ q \in Nat \ {0} BY <2>1, PowPositive
  <2> QED BY <2>1, <2>2, <2>3, <2>4
<1>2. CodeBins(ones, zeros, length, suffix) = (p - 1) * (z * q) + suffix
  BY <1>1 DEF CodeBins
<1>3. suffix < q OBVIOUS
<1> HIDE DEF p, z, q
<1>4. /\ (p - 1) * z \in Nat /\ (p - 1) * z < p * z /\ p - 1 \in Nat /\ p - 1 < p /\ suffix < z * q
      /\ ((p - 1) * z) * q + suffix = (p - 1) * (z * q) + suffix
  <2>1. p - 1 \in Nat /\ p - 1 < p /\ (p - 1) * z \in Nat BY <1>1
  <2>2. (p - 1) * z = p * z - z BY <1>1
  <2>3. p * z \in Nat BY <1>1
  <2>4. 1 * q <= z * q BY <1>1
  <2>5. ((p - 1) * z) * q = (p - 1) * (z * q) BY <1>1, <2>1
  <2> QED BY <1>1, <1>3, <2>1, <2>2, <2>3, <2>4, <2>5
<1> DEFINE a == (p - 1) * z
           b == p - 1
           n == ones + zeros
           m == zeros + length
<1>5. a \in Nat /\ a < 2^n /\ b \in Nat /\ b < 2^ones /\ suffix < 2^m /\ n \in Nat /\ m \in Nat
  BY <1>1, <1>4 DEF p
<1>6. n + length = ones + zeros + length /\ ones + m = ones + zeros + length BY <1>1
<1> DEFINE t1 == WithBins(s, n, a)
           t2 == WithBins(s, ones, b)
<1>7. t = WithBins(s, n + length, a * q + suffix) /\ t = WithBins(s, ones + m, b * 2^m + suffix)
  BY <1>1, <1>2, <1>4, <1>6
<1>8. a = (2^ones - 1) * 2^zeros /\ b = 2^ones - 1 BY DEF p, z
<1>9. t1 = WithBins(s, n, a) /\ t2 = WithBins(s, ones, b) OBVIOUS
<1> HIDE DEF a, b, n, m, t1, t2, t
<1>10. /\ Path(s, Chunks(a, n), t1) /\ t1 \in Interval
       /\ Path(s, Chunks(b, ones), t2) /\ t2 \in Interval
  BY <1>5, <1>9, ChunksPath
<1>11. /\ Path(t1, Chunks(suffix, length), WithBins(t1, length, suffix)) /\ WithBins(t1, length, suffix) \in Interval
       /\ Path(t2, Chunks(suffix, m), WithBins(t2, m, suffix))
  BY <1>5, <1>10, ChunksPath
<1>12. WithBins(t1, length, suffix) = t /\ WithBins(t2, m, suffix) = t
  <2>1. WithBins(WithBins(s, n, a), length, suffix) = WithBins(s, n + length, a * 2^length + suffix)
    BY <1>5, BinsTwice
  <2>2. WithBins(WithBins(s, ones, b), m, suffix) = WithBins(s, ones + m, b * 2^m + suffix)
    BY <1>5, BinsTwice
  <2> QED BY <1>7, <1>9, <2>1, <2>2 DEF q
<1>13. /\ t \in Interval
       /\ Path(s, Chunks(a, n) \o Chunks(suffix, length), t)
       /\ Path(s, Chunks(b, ones) \o Chunks(suffix, m), t)
  BY <1>10, <1>11, <1>12, PathsJoin
<1> QED BY <1>8, <1>13 DEF t, n, m

\* Below the cutoff the ones count what the rice parameter leaves.
LEMMA RemSmall ==
  ASSUME NEW op \in Ops, op.kind = "rem", op.value < Shl(op.cutoff, op.rice)
  PROVE  LET high == Shr(op.value, op.rice)
         IN /\ high \in Nat /\ LowBits(op.value, op.rice) \in Nat
            /\ IsCode(op, high, 1, op.rice, LowBits(op.value, op.rice))
<1> DEFINE v == op.value
           r == op.rice
           p == 2^r
           co == op.cutoff
           high == v \div p
           low == v % p
<1>1. v \in Nat /\ r \in Nat /\ co \in Nat /\ op.log2Range \in 0..31 /\ co <= MaxOnes(op) /\ v < co * p
  <2>1. MaxPrefixLength(op) \in Nat /\ op.log2Range \in 0..31 /\ co \in Nat BY OpFields
  <2>2. co <= MaxOnes(op)
    <3> DEFINE l == op.log2Range
    <3>1. l \in 0..31 /\ 32 - co - l \in Nat /\ MaxOnes(op) = 32 - l BY <2>1 DEF MaxPrefixLength, MaxOnes
    <3> HIDE DEF l, co
    <3> QED BY <2>1, <3>1
  <2> QED BY <2>1, <2>2, OpFields DEF Shl
<1>2. p \in Nat \ {0} BY <1>1, PowPositive
<1>3. Shr(op.value, op.rice) = high /\ LowBits(op.value, op.rice) = low BY DEF Shr, LowBits
<1> HIDE DEF p, v, r, co
<1>4. high \in Nat /\ low \in Nat /\ low < p /\ v = p * high + low
  BY <1>1, <1>2, DivFacts
<1>5. high < co
  <2>1. 0 * p <= v /\ 0 \in Nat BY <1>1, <1>2
  <2> QED BY <1>1, <1>2, <2>1, DivBetween
<1>6. high < op.cutoff /\ RemLength(op, high) = op.rice /\ RemOffset(op, high) = high * p
  BY <1>5 DEF RemLength, RemOffset, Shl, co, p, r
<1>7. high # MaxOnes(op) /\ high <= MaxOnes(op)
  <2> DEFINE N == MaxOnes(op)
  <2>1. N \in Int BY <1>1 DEF MaxOnes
  <2>2. co <= N BY <1>1
  <2> HIDE DEF N, high
  <2>3. high # N /\ high <= N BY <1>1, <1>4, <1>5, <2>1, <2>2
  <2> QED BY <2>3 DEF N
<1> HIDE DEF high, low
<1>8. v = high * p + low BY <1>2, <1>4
<1>9. IsCode(op, high, 1, op.rice, low)
  BY <1>1, <1>4, <1>6, <1>7, <1>8 DEF IsCode, p, v, r
<1> QED BY <1>3, <1>4, <1>9

\* A value beyond the cutoff, divided into what the prefix counts and the rest.
LEMMA HighPart ==
  ASSUME NEW v \in Nat, NEW p \in Nat \ {0}, NEW co \in Nat, ~(v < co * p)
  PROVE  /\ (v \div p) - co \in Nat /\ v % p \in Nat /\ v % p < p
         /\ v = (((v \div p) - co) + co) * p + (v % p)
<1> DEFINE high == v \div p
           cv == high - co
           low == v % p
<1>1. high \in Nat /\ low \in 0..p-1 /\ v = p * high + low BY DivFacts
<1>2. cv = high - co OBVIOUS
<1> HIDE DEF high, cv, low
<1>3. high >= co
  <2> SUFFICES ASSUME high < co PROVE FALSE BY <1>1
  <2>1. (high + 1) * p <= co * p BY <1>1
  <2>2. (high + 1) * p = p * high + p BY <1>1
  <2> QED BY <1>1, <2>1, <2>2
<1>4. cv \in Nat /\ high = cv + co BY <1>1, <1>2, <1>3
<1>5. p * (cv + co) = (cv + co) * p BY <1>4
<1>6. v = (cv + co) * p + low BY <1>1, <1>4, <1>5
<1> QED BY <1>1, <1>4, <1>6 DEF cv, high, low

\* The suffix of a remainder: what is above the base of its prefix.
LEMMA SuffixOf ==
  ASSUME NEW v \in Nat, NEW p \in Nat \ {0}, NEW co \in Nat, NEW cv \in Nat, NEW low \in Nat, low < p,
         v = (cv + co) * p + low, NEW P \in Nat \ {0}, P - 1 <= cv,
         NEW suffix, suffix = (cv - (P - 1)) * p + low
  PROVE  /\ suffix \in Nat /\ v = (P + co - 1) * p + suffix
         /\ \A L \in Nat : v < (co + P - 1) * p + L => suffix < L
         /\ cv <= 2 * P - 2 => suffix < P * p
<1> DEFINE d == cv - (P - 1)
           e == P + co - 1
<1>1. d \in Nat /\ e \in Nat /\ cv + co = e + d /\ e = co + P - 1 OBVIOUS
<1>2. suffix = d * p + low OBVIOUS
<1> HIDE DEF d
<1>3. suffix \in Nat BY <1>1, <1>2
<1>4. v = e * p + suffix
  <2> HIDE DEF e
  <2>1. (e + d) * p = e * p + d * p BY <1>1
  <2>2. e * p \in Nat /\ d * p \in Nat BY <1>1
  <2> QED BY <1>1, <1>2, <2>1, <2>2
<1>5. \A L \in Nat : v < e * p + L => suffix < L
  <2>1. e * p \in Nat BY <1>1
  <2> HIDE DEF e
  <2> QED BY <1>3, <1>4, <2>1
<1>6. ASSUME cv <= 2 * P - 2 PROVE suffix < P * p
  <2>1. d + 1 <= P BY <1>6 DEF d
  <2>2. (d + 1) * p <= P * p BY <1>1, <2>1
  <2>3. (d + 1) * p = d * p + p BY <1>1
  <2>4. d * p \in Nat BY <1>1
  <2> QED BY <1>2, <2>2, <2>3, <2>4
<1> QED BY <1>1, <1>3, <1>4, <1>5, <1>6

\* Every code value below the escape has a prefix of its own.
LEMMA GolombExists ==
  ASSUME NEW M \in Nat, NEW cv \in Nat, ~(cv >= 2^M - 1)
  PROVE  \E k \in 0..M : 2^k - 1 <= cv /\ cv <= 2^(k + 1) - 2
<1> DEFINE Enough == {k \in Nat : cv + 2 <= 2^(k + 1)}
<1>1. \A k \in Nat : 2^k \in Nat /\ 2^(k + 1) = 2 * 2^k BY PowType, PowStep
<1>2. M \in Enough
  <2>1. 2^M \in Nat /\ 2^(M + 1) = 2 * 2^M BY <1>1
  <2> DEFINE p == 2^M
  <2>2. p \in Nat /\ ~(cv >= p - 1) /\ 2^(M + 1) = 2 * p BY <2>1
  <2> HIDE DEF p
  <2>3. cv + 2 <= 2 * p BY <2>2
  <2> QED BY <2>2, <2>3
<1>3. PICK k \in Enough : \A m \in Enough : k <= m
  <2>1. Enough \in SUBSET Nat /\ Enough # {} BY <1>2
  <2> HIDE DEF Enough
  <2> QED BY <2>1, LeastOf
<1>4. k \in Nat /\ cv + 2 <= 2^(k + 1) /\ k <= M BY <1>2, <1>3
<1>5. 2^k - 1 <= cv
  <2>1. CASE k = 0
    <3>1. 2^k = 1 BY <2>1, SmallPowers
    <3> QED BY <3>1
  <2>2. CASE k # 0
    <3>1. k - 1 \in Nat /\ (k - 1) + 1 = k /\ ~(k <= k - 1) BY <1>4, <2>2
    <3>2. k - 1 \notin Enough BY <1>3, <3>1
    <3>3. ~(cv + 2 <= 2^((k - 1) + 1)) BY <3>1, <3>2
    <3>4. 2^((k - 1) + 1) = 2^k BY <3>1
    <3> DEFINE p == 2^k
    <3>5. p \in Nat /\ ~(cv + 2 <= p) BY <1>1, <1>4, <3>3, <3>4
    <3> HIDE DEF p
    <3>6. p - 1 <= cv BY <3>5
    <3> QED BY <3>6 DEF p
  <2> QED BY <2>1, <2>2
<1>6. cv <= 2^(k + 1) - 2
  <2> DEFINE p == 2^(k + 1)
  <2>1. p \in Nat /\ cv + 2 <= p BY <1>4, PowType
  <2> HIDE DEF p
  <2>2. cv <= p - 2 BY <2>1
  <2> QED BY <2>2 DEF p
<1> QED BY <1>4, <1>5, <1>6

\* Beyond it there is an Exp-Golomb code of the high part, or a suffix of full length.
LEMMA RemLarge ==
  ASSUME NEW op \in Ops, op.kind = "rem", ~(op.value < Shl(op.cutoff, op.rice)),
         NEW cv, cv = Shr(op.value, op.rice) - op.cutoff,
         NEW k \in 0..MaxPrefixLength(op),
         NEW suffix, suffix = Shl(cv - (2^k - 1), op.rice) + LowBits(op.value, op.rice),
         2^k - 1 <= cv
  PROVE  /\ suffix \in Nat /\ cv \in Nat /\ k + op.cutoff \in Nat
         /\ k = MaxPrefixLength(op) => IsCode(op, k + op.cutoff, 0, op.log2Range, suffix)
         /\ k # MaxPrefixLength(op) /\ cv <= 2^(k + 1) - 2 => IsCode(op, k + op.cutoff, 1, k + op.rice, suffix)
<1> DEFINE v == op.value
           r == op.rice
           p == 2^r
           co == op.cutoff
           l == op.log2Range
           M == MaxPrefixLength(op)
           P == 2^k
           low == v % p
           ones == k + co
<1>1. /\ v \in Nat /\ r \in Nat /\ co \in Nat /\ l \in 0..31 /\ M \in Nat
      /\ v < Shl(co + 2^M - 1, r) + 2^l
  BY OpFields
<1>2. M = 32 - co - l /\ MaxOnes(op) = 32 - l BY DEF MaxPrefixLength, MaxOnes
<1>3. cv = (v \div p) - co /\ ~(v < co * p) BY DEF Shr, Shl
<1>4. suffix = (cv - (P - 1)) * p + low /\ P - 1 <= cv BY DEF Shl, LowBits
<1>5. v < (co + 2^M - 1) * p + 2^l BY <1>1 DEF Shl
<1>6. /\ RemOffset(op, ones) = IF ones < co THEN ones * p ELSE (2^(ones - co) + co - 1) * p
      /\ RemLength(op, ones) = IF ones < co THEN r ELSE r + (IF ones = MaxOnes(op) THEN l - r ELSE ones - co)
  BY DEF RemOffset, RemLength, Shl
<1>7. k \in 0..M OBVIOUS
<1> HIDE DEF v, r, co, l, M
<1>8. k \in Nat /\ ones \in Nat /\ ~(ones < co) /\ ones - co = k /\ ones <= MaxOnes(op)
      /\ (ones = MaxOnes(op) <=> k = M)
  BY <1>1, <1>2, <1>7
<1>9. p \in Nat \ {0} /\ P \in Nat \ {0} BY <1>1, <1>8, PowPositive
<1> HIDE DEF p, P
<1>10. cv \in Nat /\ low \in Nat /\ low < p /\ v = (cv + co) * p + low
  <2>1. low = v % p OBVIOUS
  <2>2. cv = (v \div p) - co /\ ~(v < co * p) BY <1>3
  <2> HIDE DEF low
  <2>3. /\ v \in Nat /\ p \in Nat \ {0} /\ co \in Nat
    BY <1>1, <1>9
  <2>5. /\ (v \div p) - co \in Nat /\ v % p \in Nat /\ v % p < p
        /\ v = (((v \div p) - co) + co) * p + (v % p)
    BY <2>2, <2>3, HighPart
  <2> QED BY <2>1, <2>2, <2>5
<1> HIDE DEF low
<1>11. /\ suffix \in Nat /\ v = (P + co - 1) * p + suffix
       /\ \A L \in Nat : v < (co + P - 1) * p + L => suffix < L
       /\ cv <= 2 * P - 2 => suffix < P * p
  BY <1>1, <1>4, <1>9, <1>10, SuffixOf
<1> HIDE DEF ones
<1>12. RemOffset(op, ones) = (P + co - 1) * p BY <1>6, <1>8 DEF P
<1>13. op.value = RemOffset(op, ones) + suffix BY <1>11, <1>12 DEF v
<1>14. ASSUME k = M PROVE IsCode(op, ones, 0, op.log2Range, suffix)
  <2>1. ones = MaxOnes(op) BY <1>8, <1>14
  <2>2. RemLength(op, ones) = l
    <3>1. RemLength(op, ones) = r + (l - r) BY <1>6, <1>8, <2>1
    <3> QED BY <1>1, <3>1
  <2>3. suffix < 2^l
    <3>1. l \in Nat BY <1>1
    <3>2. 2^l \in Nat BY <3>1, PowType
    <3>3. 2^M = P BY <1>14 DEF P
    <3>4. v < (co + P - 1) * p + 2^l BY <1>5, <3>3
    <3> QED BY <1>11, <3>2, <3>4
  <2>4. l \in Nat BY <1>1
  <2> QED BY <1>8, <1>11, <1>13, <2>1, <2>2, <2>3, <2>4 DEF IsCode, l
<1>15. ASSUME k # M, cv <= 2^(k + 1) - 2 PROVE IsCode(op, ones, 1, k + op.rice, suffix)
  <2>1. ones # MaxOnes(op) BY <1>8, <1>15
  <2>2. RemLength(op, ones) = k + r
    <3>1. RemLength(op, ones) = r + k BY <1>6, <1>8, <2>1
    <3> QED BY <1>1, <1>8, <3>1
  <2>3. suffix < 2^(k + r)
    <3>1. 2^(k + r) = P * p BY <1>1, <1>8, PowSum DEF P, p
    <3>2. 2^(k + 1) = 2 * P BY <1>8, PowStep DEF P
    <3>3. cv <= 2 * P - 2 BY <1>15, <3>2
    <3> QED BY <1>11, <3>1, <3>3
  <2>4. k + r \in Nat BY <1>1, <1>8
  <2> QED BY <1>8, <1>11, <1>13, <2>1, <2>2, <2>3, <2>4 DEF IsCode, r
<1> QED BY <1>8, <1>10, <1>11, <1>14, <1>15 DEF ones, M, co

\* The chunks of the calls that write several bins.
LEMMA BinsPath ==
  ASSUME NEW s \in Interval, NEW op \in Ops, EncodeBinsEP(op)
  PROVE  \E t \in Interval : Follows(s, op, t) /\ Path(s, todo', t)
<1>1. op.bins \in Nat /\ op.num \in Nat /\ op.bins < 2^op.num BY OpFields DEF EncodeBinsEP
<1>2. /\ Path(s, Chunks(op.bins, op.num), WithBins(s, op.num, op.bins))
      /\ WithBins(s, op.num, op.bins) \in Interval
  BY <1>1, ChunksPath
<1>3. todo' = Chunks(op.bins, op.num) /\ op.kind = "eps" BY DEF EncodeBinsEP
<1> QED BY <1>2, <1>3 DEF Follows

\* The code of a remainder is what the call leaves.
LEMMA CodeFollows ==
  ASSUME NEW s, NEW op, op.kind = "rem", NEW ones, NEW zeros, NEW length, NEW suffix,
         IsCode(op, ones, zeros, length, suffix)
  PROVE  Follows(s, op, WithBins(s, ones + zeros + length, CodeBins(ones, zeros, length, suffix)))
  BY DEF Follows

\* encodeRemAbsEP writes the code of its value.
LEMMA RemPath ==
  ASSUME NEW s \in Interval, NEW op \in Ops, EncodeRemAbsEP(op)
  PROVE  \E t \in Interval : Follows(s, op, t) /\ Path(s, todo', t)
<1> DEFINE r == op.rice
           high == Shr(op.value, r)
           cv == high - op.cutoff
           M == MaxPrefixLength(op)
           escape == cv >= 2^M - 1
           k == IF escape THEN M ELSE CHOOSE j \in 0..M : 2^j - 1 <= cv /\ cv <= 2^(j + 1) - 2
           suffixLength == IF escape THEN op.log2Range ELSE k + r + 1
           suffix == Shl(cv - (2^k - 1), r) + LowBits(op.value, r)
<1>1. /\ op.kind = "rem"
      /\ todo' = IF op.value < Shl(op.cutoff, r)
                 THEN Chunks(2^(high + 1) - 2, high + 1) \o Chunks(LowBits(op.value, r), r)
                 ELSE Chunks(2^(k + op.cutoff) - 1, k + op.cutoff) \o Chunks(suffix, suffixLength)
  BY DEF EncodeRemAbsEP
<1>2. M \in Nat /\ r \in Nat /\ op.cutoff \in Nat /\ op.log2Range \in Nat
  <2>1. M \in Nat /\ r \in Nat /\ op.cutoff \in Nat /\ op.log2Range \in 0..31 BY <1>1, OpFields
  <2> DEFINE l == op.log2Range
  <2>2. l \in 0..31 BY <2>1
  <2> HIDE DEF l
  <2>3. l \in Nat BY <2>2
  <2> QED BY <2>1, <2>3 DEF l
<1> HIDE DEF high, M
<1>3. CASE op.value < Shl(op.cutoff, r)
  <2> DEFINE low == LowBits(op.value, r)
  <2>1. high \in Nat /\ low \in Nat /\ IsCode(op, high, 1, r, low) BY <1>1, <1>3, RemSmall DEF high
  <2> HIDE DEF low
  <2>2. r \in Nat /\ low < 2^r BY <2>1 DEF IsCode
  <2> DEFINE t == WithBins(s, high + 1 + r, CodeBins(high, 1, r, low))
  <2>3. t \in Interval /\ Path(s, Chunks((2^high - 1) * 2^1, high + 1) \o Chunks(low, r), t)
    <3> HIDE DEF r
    <3> QED BY <2>1, <2>2, CodePaths
  <2>4. (2^high - 1) * 2^1 = 2^(high + 1) - 2
    <3>1. 2^high \in Nat /\ 2^(high + 1) = 2 * 2^high BY <2>1, PowType, PowStep
    <3> DEFINE p == 2^high
    <3>2. p \in Nat /\ 2^(high + 1) = 2 * p BY <3>1
    <3> HIDE DEF p
    <3>3. (p - 1) * 2 = 2 * p - 2 BY <3>2
    <3> QED BY <3>2, <3>3, SmallPowers DEF p
  <2>5. Follows(s, op, t) BY <1>1, <2>1, CodeFollows
  <2>6. todo' = Chunks(2^(high + 1) - 2, high + 1) \o Chunks(low, r) BY <1>1, <1>3 DEF low
  <2>7. Path(s, todo', t) BY <2>3, <2>4, <2>6
  <2> HIDE DEF t
  <2> QED BY <2>3, <2>5, <2>7
<1>4. CASE ~(op.value < Shl(op.cutoff, r))
  <2>1. cv \in Nat
    <3>1. op.value \in Nat BY <1>1, OpFields
    <3>2. 2^r \in Nat \ {0} BY <1>2, PowPositive
    <3>3. ~(op.value < op.cutoff * 2^r) BY <1>4 DEF Shl
    <3>4. (op.value \div 2^r) - op.cutoff \in Nat
      <4> DEFINE p == 2^r
      <4>1. p \in Nat \ {0} /\ ~(op.value < op.cutoff * p) BY <3>2, <3>3
      <4> HIDE DEF p
      <4>2. (op.value \div p) - op.cutoff \in Nat BY <1>2, <3>1, <4>1, HighPart
      <4> QED BY <4>2 DEF p
    <3> QED BY <3>4 DEF high, Shr
  <2>2. todo' = Chunks(2^(k + op.cutoff) - 1, k + op.cutoff) \o Chunks(suffix, suffixLength)
    BY <1>1, <1>4
  <2>3. cv = Shr(op.value, op.rice) - op.cutoff BY DEF high
  <2>4. suffix = Shl(cv - (2^k - 1), op.rice) + LowBits(op.value, op.rice) OBVIOUS
  <2>5. k \in 0..M /\ 2^k - 1 <= cv /\ (k = M => escape) /\ (~escape => cv <= 2^(k + 1) - 2) /\ (escape => k = M)
    <3>1. CASE escape
      <4>1. k = M BY <3>1
      <4> QED BY <1>2, <3>1, <4>1
    <3>2. CASE ~escape
      <4>1. \E j \in 0..M : 2^j - 1 <= cv /\ cv <= 2^(j + 1) - 2
        <5> HIDE DEF cv
        <5> QED BY <1>2, <2>1, <3>2, GolombExists
      <4>2. k = CHOOSE j \in 0..M : 2^j - 1 <= cv /\ cv <= 2^(j + 1) - 2 BY <3>2
      <4> HIDE DEF k, cv
      <4>3. k \in 0..M /\ 2^k - 1 <= cv /\ cv <= 2^(k + 1) - 2 BY <4>1, <4>2
      <4>4. k # M BY <3>2, <4>3
      <4> QED BY <3>2, <4>3, <4>4
    <3> QED BY <3>1, <3>2
  <2> DEFINE ones == k + op.cutoff
             zeros == IF escape THEN 0 ELSE 1
             length == IF escape THEN op.log2Range ELSE k + r
  <2>6. suffixLength = zeros + length
    <3>1. k \in Nat BY <1>2, <2>5
    <3> HIDE DEF k, escape
    <3>2. CASE escape BY <1>2, <3>2
    <3>3. CASE ~escape
      <4>1. k + r + 1 = 1 + (k + r) BY <1>2, <3>1
      <4> QED BY <3>3, <4>1
    <3> QED BY <3>2, <3>3
  <2> HIDE DEF suffix, cv, k, escape, suffixLength
  <2>7. ~(op.value < Shl(op.cutoff, op.rice)) /\ k \in 0..MaxPrefixLength(op) BY <1>4, <2>5 DEF M
  <2>8. /\ suffix \in Nat /\ k + op.cutoff \in Nat
        /\ k = M => IsCode(op, k + op.cutoff, 0, op.log2Range, suffix)
        /\ k # M /\ cv <= 2^(k + 1) - 2 => IsCode(op, k + op.cutoff, 1, k + op.rice, suffix)
    BY <1>1, <2>3, <2>4, <2>5, <2>7, RemLarge DEF M
  <2>9. IsCode(op, ones, zeros, length, suffix) /\ ones \in Nat
    <3>1. CASE escape BY <2>5, <2>8, <3>1
    <3>2. CASE ~escape BY <2>5, <2>8, <3>2
    <3> QED BY <3>1, <3>2
  <2>10. zeros \in {0, 1} /\ length \in Nat /\ suffix < 2^length BY <2>9 DEF IsCode
  <2> DEFINE t == WithBins(s, ones + zeros + length, CodeBins(ones, zeros, length, suffix))
  <2> HIDE DEF ones, zeros, length
  <2>11. t \in Interval /\ Path(s, Chunks(2^ones - 1, ones) \o Chunks(suffix, zeros + length), t)
    BY <2>8, <2>9, <2>10, CodePaths
  <2>12. Follows(s, op, t) BY <1>1, <2>9, CodeFollows
  <2>13. Path(s, todo', t) BY <2>2, <2>6, <2>11 DEF ones
  <2> HIDE DEF t
  <2> QED BY <2>11, <2>12, <2>13
<1> QED BY <1>3, <1>4

\* A call leaves a part of the interval.
LEMMA BinsInside ==
  ASSUME NEW s \in Interval, NEW n \in Nat, NEW bins \in Nat, bins < 2^n
  PROVE  WithBins(s, n, bins) \in Interval /\ Inside(s, WithBins(s, n, bins))
<1>1. WithBins(s, n, bins) \in Interval /\ Narrowed(s, WithBins(s, n, bins), n, bins * s.range)
  BY BinsNarrowed
<1>2. bins * s.range \in Nat
  <2>1. s.range \in Nat BY IntervalFields
  <2> QED BY <2>1
<1> QED BY <1>1, <1>2, NarrowedInside

\* An aligned range is inside of the range.
LEMMA AlignedInside ==
  ASSUME NEW s \in Interval
  PROVE  /\ [s EXCEPT !.range = 256] \in Interval
         /\ Narrowed(s, [s EXCEPT !.range = 256], 0, 0)
         /\ Inside(s, [s EXCEPT !.range = 256])
<1> DEFINE t == [s EXCEPT !.range = 256]
<1>1. s.low \in Nat /\ s.range \in 256..510 /\ s.range \in Nat /\ s.n \in Nat /\ s.ctx \in ContextModels
      /\ s = [low |-> s.low, range |-> s.range, n |-> s.n, ctx |-> s.ctx]
  BY IntervalFields
<1>2. t = [low |-> s.low, range |-> 256, n |-> s.n, ctx |-> s.ctx] BY <1>1
<1> HIDE DEF t
<1>3. 256 \in 256..510 OBVIOUS
<1>4. t \in Interval BY <1>1, <1>2, <1>3 DEF Interval
<1>5. t.low = s.low * 2^0 + 0 /\ t.n = s.n + 0 /\ 0 + t.range <= s.range * 2^0
  <2>1. s.low * 1 + 0 = s.low /\ s.n + 0 = s.n /\ 0 + 256 <= s.range * 1 BY <1>1
  <2>2. t.low = s.low /\ t.range = 256 /\ t.n = s.n BY <1>2
  <2> QED BY <2>1, <2>2, SmallPowers
<1>6. Narrowed(s, t, 0, 0) BY <1>5 DEF Narrowed
<1> QED BY <1>4, <1>6, NarrowedInside DEF t

\* The bins of a code.
LEMMA CodeBinsType ==
  ASSUME NEW ones \in Nat, NEW m \in Nat, NEW suffix \in Nat, suffix < 2^m
  PROVE  (2^ones - 1) * 2^m + suffix \in Nat /\ (2^ones - 1) * 2^m + suffix < 2^(ones + m)
<1> DEFINE p == 2^ones
           q == 2^m
<1>1. p \in Nat \ {0} /\ q \in Nat \ {0} /\ suffix < q /\ 2^(ones + m) = p * q
  BY PowPositive, PowSum
<1> HIDE DEF p, q
<1>2. (p - 1) * q \in Nat /\ (p - 1) * q = p * q - q /\ p * q \in Nat BY <1>1
<1>3. (p - 1) * q + suffix \in Nat /\ (p - 1) * q + suffix < p * q BY <1>1, <1>2
<1> QED BY <1>1, <1>3 DEF p, q

\* Every call leaves an interval inside of the one it found.
LEMMA FollowsInside ==
  ASSUME NEW s \in Interval, NEW op \in Ops, NEW t, Follows(s, op, t)
  PROVE  t \in Interval /\ Inside(s, t)
<1>1. CASE op.kind = "ctx" /\ t = AfterBin(s, op)
  <2> DEFINE c == op.ctx
             bin == op.bin
             m == s.ctx[c]
             lps == LpsRange(m, s.range)
             range == s.range - lps
             ctx == [s.ctx EXCEPT ![c] = Update(@, bin)]
             b == IF range < 256 THEN 1 ELSE 0
  <2>1. c \in DOMAIN Contexts0 /\ bin \in {0, 1} BY <1>1, OpFields
  <2>2. op.ctx = c /\ op.bin = bin /\ m = s.ctx[c] /\ lps = LpsRange(m, s.range) /\ range = s.range - lps
        /\ ctx = [s.ctx EXCEPT ![c] = Update(@, bin)]
    OBVIOUS
  <2> HIDE DEF c, bin, m, lps, range, ctx
  <2>3. /\ lps \in 4..236 /\ range \in 128..506
        /\ bin # Mps(m) => /\ RenormBitsLPS(lps) \in 1..6
                           /\ t \in Interval
                           /\ Narrowed(s, t, RenormBitsLPS(lps), range * 2^RenormBitsLPS(lps))
        /\ bin = Mps(m) => t \in Interval /\ Narrowed(s, t, b, 0)
    BY <1>1, <2>1, <2>2, AfterBinNarrowed
  <2>4. CASE bin # Mps(m)
    <3> DEFINE e == RenormBitsLPS(lps)
    <3>1. e \in 1..6 BY <2>3, <2>4
    <3> HIDE DEF e
    <3>2. e \in Nat BY <3>1
    <3>3. 2^e \in Nat BY <3>2, PowType
    <3>4. range * 2^e \in Nat BY <2>3, <3>3
    <3> QED BY <2>3, <2>4, <3>2, <3>4, NarrowedInside DEF e
  <2>5. CASE bin = Mps(m)
    <3>1. b \in Nat OBVIOUS
    <3> HIDE DEF b
    <3> QED BY <2>3, <2>5, <3>1, NarrowedInside
  <2> QED BY <2>4, <2>5
<1>2. CASE op.kind = "ep" /\ t = WithBins(s, 1, op.bin)
  <2>1. op.bin \in {0, 1} BY <1>2, OpFields
  <2>2. op.bin \in Nat /\ op.bin < 2^1 BY <2>1, SmallPowers
  <2>3. 1 \in Nat OBVIOUS
  <2> QED BY <1>2, <2>2, <2>3, BinsInside
<1>3. CASE op.kind = "trm" /\ t = AfterTrm(s)
  <2> DEFINE b == IF s.range - 2 < 256 THEN 1 ELSE 0
  <2>1. b \in Nat OBVIOUS
  <2>2. AfterTrm(s) \in Interval /\ Narrowed(s, AfterTrm(s), b, 0) BY AfterTrmNarrowed
  <2> HIDE DEF b
  <2> QED BY <1>3, <2>1, <2>2, NarrowedInside
<1>4. CASE op.kind = "align" /\ t = [s EXCEPT !.range = 256] BY <1>4, AlignedInside
<1>5. CASE op.kind = "eps" /\ t = WithBins(s, op.num, op.bins) BY <1>5, OpFields, BinsInside
<1>6. CASE /\ op.kind = "rem"
           /\ \E ones, zeros, length, suffix :
                /\ IsCode(op, ones, zeros, length, suffix)
                /\ t = WithBins(s, ones + zeros + length, CodeBins(ones, zeros, length, suffix))
  <2>1. PICK ones, zeros, length, suffix :
          /\ IsCode(op, ones, zeros, length, suffix)
          /\ t = WithBins(s, ones + zeros + length, CodeBins(ones, zeros, length, suffix))
    BY <1>6
  <2>2. ones \in Nat /\ zeros \in {0, 1} /\ length \in Nat /\ suffix \in Nat /\ suffix < 2^length
    BY <2>1 DEF IsCode
  <2>3. t \in Interval /\ CodeBins(ones, zeros, length, suffix) \in Nat
        /\ CodeBins(ones, zeros, length, suffix) < 2^(ones + zeros + length)
    <3>1. zeros \in Nat BY <2>2
    <3>2. suffix < 2^(zeros + length) /\ zeros + length \in Nat
      <4>1. length <= zeros + length /\ zeros + length \in Nat BY <2>2, <3>1
      <4>2. 2^length <= 2^(zeros + length) BY <2>2, <4>1, PowGrows
      <4> DEFINE p == 2^length
                 q == 2^(zeros + length)
      <4>3. p \in Nat /\ q \in Nat /\ p <= q /\ suffix < p BY <2>2, <4>1, <4>2, PowType
      <4> HIDE DEF p, q
      <4>4. suffix < q BY <2>2, <4>3
      <4> QED BY <4>1, <4>4 DEF q
    <3>3. ones + (zeros + length) = ones + zeros + length BY <2>2, <3>1
    <3>4. CodeBins(ones, zeros, length, suffix) \in Nat
          /\ CodeBins(ones, zeros, length, suffix) < 2^(ones + (zeros + length))
      <4> DEFINE m == zeros + length
      <4>1. m \in Nat /\ suffix < 2^m BY <3>2
      <4> HIDE DEF m
      <4>2. (2^ones - 1) * 2^m + suffix \in Nat /\ (2^ones - 1) * 2^m + suffix < 2^(ones + m)
        BY <2>2, <4>1, CodeBinsType
      <4> QED BY <4>2 DEF CodeBins, m
    <3>5. t \in Interval
      <4>1. WithBins(s, ones + zeros + length, CodeBins(ones, zeros, length, suffix)) \in Interval
        BY <2>2, CodePaths
      <4> QED BY <2>1, <4>1
    <3> QED BY <3>3, <3>4, <3>5
  <2>4. ones + zeros + length \in Nat
    <3>1. zeros \in Nat BY <2>2
    <3> QED BY <2>2, <3>1
  <2> DEFINE n == ones + zeros + length
             B == CodeBins(ones, zeros, length, suffix)
  <2>5. n \in Nat /\ B \in Nat /\ B < 2^n /\ t = WithBins(s, n, B) BY <2>1, <2>3, <2>4
  <2> HIDE DEF n, B
  <2> QED BY <2>5, BinsInside
<1> QED BY <1>1, <1>2, <1>3, <1>4, <1>5, <1>6 DEF Follows

-----------------------------------------------------------------------------
(* The encoder: the bytes written, those that wait and the register are  *)
(* together the lower end of the interval that the calls leave, and the  *)
(* end of the slice makes them a number that this interval holds.        *)


-----------------------------------------------------------------------------
(* Bytes that wait, and the carry.                                       *)

\* The recursive function of Fill.
Filled(filled, s, byte, n) ==
  filled = [k \in 0..n |-> IF k = 0 THEN s ELSE Write(filled[k - 1], byte, 8)]

\* The recursive function exists: byte after byte is appended.
LEMMA FilledExists ==
  ASSUME NEW f \in Seq(Byte), NEW byte \in Byte, NEW n \in Nat
  PROVE  \E filled : Filled(filled, AlignedOut(f), byte, n)
<1> DEFINE Tail0(k) == f \o [i \in 1..k |-> byte]
           filled == [k \in 0..n |-> AlignedOut(Tail0(k))]
<1>1. \A k \in 0..n : Tail0(k) \in Seq(Byte) OBVIOUS
<1>2. filled[0] = AlignedOut(f)
  <2>1. Tail0(0) = f OBVIOUS
  <2> QED BY <2>1
<1>3. ASSUME NEW k \in 0..n, k # 0 PROVE filled[k] = Write(filled[k - 1], byte, 8)
  <2>1. k - 1 \in 0..n BY <1>3
  <2>2. Append(Tail0(k - 1), byte) = Tail0(k)
    <3> DEFINE a == Append(Tail0(k - 1), byte)
               b == Tail0(k)
    <3>1. Len(a) = Len(f) + k /\ Len(b) = Len(f) + k BY <1>3
    <3>2. a \in Seq(Byte) /\ b \in Seq(Byte)
      <4>1. Tail0(k - 1) \in Seq(Byte) /\ b \in Seq(Byte) BY <1>1, <2>1
      <4> HIDE DEF b, Tail0
      <4> QED BY <4>1
    <3>3. \A i \in 1..(Len(f) + k) : a[i] = b[i] BY <1>3
    <3> DEFINE m == Len(f) + k
    <3>4. Len(a) = m /\ Len(b) = m /\ \A i \in 1..m : a[i] = b[i] BY <3>1, <3>3
    <3> HIDE DEF a, b, m
    <3>5. a = [i \in 1..m |-> a[i]] /\ b = [i \in 1..m |-> b[i]] BY <3>2, <3>4
    <3>6. a = b BY <3>4, <3>5
    <3> QED BY <3>6 DEF a, b
  <2>3. Write(AlignedOut(Tail0(k - 1)), byte, 8) = AlignedOut(Append(Tail0(k - 1), byte))
    <3> DEFINE g == Tail0(k - 1)
    <3>1. g \in Seq(Byte) BY <1>1, <2>1
    <3> HIDE DEF g
    <3>2. Write(AlignedOut(g), byte, 8) = AlignedOut(Append(g, byte)) BY <3>1, WriteByte
    <3> QED BY <3>2 DEF g
  <2> QED BY <2>1, <2>2, <2>3
<1>4. Filled(filled, AlignedOut(f), byte, n)
  <2>1. filled = [k \in 0..n |-> filled[k]] OBVIOUS
  <2> HIDE DEF filled
  <2> QED BY <1>2, <1>3, <2>1 DEF Filled
<1> QED BY <1>4

\* Bytes that are all 0 or all 255.
ByteOf(c) == 255 * c
FilledUp(X, c, n) == X * 2^(8 * n) + c * (2^(8 * n) - 1)

\* Bytes 0 or bytes 255 as digits.
LEMMA FillSpells ==
  ASSUME NEW f, NEW X, Spells(f, X), NEW c \in 0..1, NEW n \in Nat
  PROVE  \E g : /\ Fill(AlignedOut(f), ByteOf(c), n) = AlignedOut(g) /\ Len(g) = Len(f) + n
               /\ Spells(g, FilledUp(X, c, n))
<1> DEFINE byte == ByteOf(c)
<1>1. f \in Seq(Byte) /\ X \in Nat /\ Len(f) \in Nat BY DEF Spells
<1>2. byte = 255 * c /\ byte \in Byte
  <2>1. byte = 255 * c BY DEF ByteOf
  <2> HIDE DEF byte
  <2>2. byte \in 0..255 BY <2>1
  <2> QED BY <2>1, <2>2 DEF Byte
<1> HIDE DEF byte
<1> DEFINE filled == CHOOSE filled : Filled(filled, AlignedOut(f), byte, n)
<1>3. Fill(AlignedOut(f), byte, n) = filled[n] BY DEF Fill, Filled
<1>4. Filled(filled, AlignedOut(f), byte, n) BY <1>1, <1>2, FilledExists
<1> HIDE DEF filled
<1> DEFINE Good(k) == \E g : /\ filled[k] = AlignedOut(g) /\ Len(g) = Len(f) + k
                            /\ Spells(g, X * 2^(8 * k) + c * (2^(8 * k) - 1))
           S == {k \in Nat : k <= n => Good(k)}
<1>5. 0 \in S
  <2>1. filled[0] = AlignedOut(f) BY <1>4 DEF Filled
  <2>2. 2^(8 * 0) = 1 BY SmallPowers
  <2>3. X * 1 + c * (1 - 1) = X BY <1>1
  <2>4. Len(f) = Len(f) + 0 BY <1>1
  <2>5. Spells(f, X * 2^(8 * 0) + c * (2^(8 * 0) - 1)) BY <2>2, <2>3
  <2> QED BY <2>1, <2>4, <2>5
<1>6. ASSUME NEW k \in S PROVE k + 1 \in S
  <2> SUFFICES ASSUME k + 1 <= n PROVE Good(k + 1)
    OBVIOUS
  <2>1. k \in Nat /\ k <= n /\ Good(k) OBVIOUS
  <2>2. PICK g : /\ filled[k] = AlignedOut(g) /\ Len(g) = Len(f) + k
                 /\ Spells(g, X * 2^(8 * k) + c * (2^(8 * k) - 1))
    BY <2>1
  <2>3. filled[k + 1] = Write(filled[k], byte, 8)
    <3>1. k + 1 \in 0..n /\ k + 1 # 0 /\ (k + 1) - 1 = k BY <2>1
    <3> QED BY <1>4, <3>1 DEF Filled
  <2>4. Write(AlignedOut(g), byte, 8) = AlignedOut(Append(g, byte))
    <3>1. g \in Seq(Byte) BY <2>2 DEF Spells
    <3> QED BY <1>2, <3>1, WriteByte
  <2> DEFINE P == 2^(8 * k)
             Y == X * P + c * (P - 1)
  <2>5. Spells(Append(g, byte), Y * 256 + byte) /\ Len(Append(g, byte)) = Len(g) + 1
    <3>1. Spells(g, Y) BY <2>2
    <3> HIDE DEF Y
    <3> QED BY <1>2, <3>1, SpellsAppend
  <2>6. 2^(8 * (k + 1)) = P * 256 /\ P \in Nat \ {0} BY <2>1, PowEight
  <2>7. Y * 256 + byte = X * (P * 256) + c * (P * 256 - 1)
    <3> HIDE DEF P
    <3>1. X * P \in Nat /\ (X * P) * 256 = X * (P * 256) BY <1>1, <2>6
    <3>2. CASE c = 0 BY <1>1, <1>2, <2>6, <3>1, <3>2
    <3>3. CASE c = 1
      <4> DEFINE Z == X * P
      <4>1. Z \in Nat /\ Z * 256 = X * (P * 256) /\ Y = Z + c * (P - 1) BY <3>1
      <4> HIDE DEF Z, Y
      <4>2. (Z + 1 * (P - 1)) * 256 + 255 * 1 = Z * 256 + 1 * (P * 256 - 1) BY <2>6, <4>1
      <4> QED BY <1>2, <3>3, <4>1, <4>2
    <3> QED BY <3>2, <3>3
  <2>8. Spells(Append(g, byte), X * 2^(8 * (k + 1)) + c * (2^(8 * (k + 1)) - 1))
    <3> HIDE DEF Y, P
    <3> QED BY <2>5, <2>6, <2>7
  <2>9. Len(Append(g, byte)) = Len(f) + (k + 1) BY <1>1, <2>1, <2>2, <2>5
  <2>10. filled[k + 1] = AlignedOut(Append(g, byte)) BY <2>2, <2>3, <2>4
  <2> QED BY <2>8, <2>9, <2>10
<1>7. S = Nat
  <2> HIDE DEF S
  <2>1. S \in SUBSET Nat BY DEF S
  <2> QED BY <1>5, <1>6, <2>1, NatSetInduction
<1>8. Good(n)
  <2>1. n \in S /\ n <= n BY <1>7
  <2> HIDE DEF Good
  <2> QED BY <2>1
<1> QED BY <1>3, <1>8 DEF byte, FilledUp

-----------------------------------------------------------------------------
\* The bytes that wait: one byte and then bytes 255.
Waiting(bb, num) == IF num = 0 THEN 0 ELSE (bb + 1) * 2^(8 * (num - 1)) - 1

\* The bytes f, the waiting bytes and the register of w bits make up the lower end of s.
EncodedAs(s, low, bb, num, w, f, X) ==
  /\ Spells(f, X) /\ low \in Nat /\ bb \in 0..255 /\ num \in Nat /\ w \in 9..28
  /\ s.low = (X * 2^(8 * num) + Waiting(bb, num)) * 2^w + low
  /\ s.n = 8 * (Len(f) + num) + w
  /\ num = 0 => low + s.range <= 510 * 2^(w - 9)
  /\ num # 0 => bb <= 254 /\ low + s.range <= 2^w + 2^(w - 4)

Registers(low, range, bb, num, w) ==
  [low |-> low, range |-> range, bufferedByte |-> bb, numBufferedBytes |-> num, bitsLeft |-> 32 - w]

\* The fields of the registers.
LEMMA RegisterFields ==
  ASSUME NEW low, NEW range, NEW bb, NEW num, NEW w
  PROVE  LET e == Registers(low, range, bb, num, w)
         IN /\ e.low = low /\ e.range = range /\ e.bufferedByte = bb /\ e.numBufferedBytes = num
            /\ e.bitsLeft = 32 - w
  BY DEF Registers

\* Bits join the register.
LEMMA Push ==
  ASSUME NEW s \in Interval, NEW low, NEW bb, NEW num, NEW w, NEW f, NEW X,
         EncodedAs(s, low, bb, num, w, f, X), w \in 9..20,
         NEW m \in 0..8, NEW d \in Nat, NEW t \in Interval, Narrowed(s, t, m, d)
  PROVE  EncodedAs(t, low * 2^m + d, bb, num, w + m, f, X)
<1> DEFINE q == 2^m
           W == 2^w
           H == X * 2^(8 * num) + Waiting(bb, num)
           r == s.range
           u == t.range
<1>1. /\ Spells(f, X) /\ low \in Nat /\ bb \in 0..255 /\ num \in Nat
      /\ s.low = H * W + low /\ s.n = 8 * (Len(f) + num) + w
      /\ num = 0 => low + r <= 510 * 2^(w - 9)
      /\ num # 0 => bb <= 254 /\ low + r <= W + 2^(w - 4)
  BY DEF EncodedAs
<1>2. t.low = s.low * q + d /\ t.n = s.n + m /\ d + u <= r * q BY DEF Narrowed
<1>3. r \in Nat /\ u \in Nat BY IntervalFields
<1>4. w \in Nat /\ m \in Nat /\ w - 9 \in Nat /\ w - 4 \in Nat OBVIOUS
<1>5. /\ q \in Nat \ {0} /\ W \in Nat /\ 2^(w - 9) \in Nat /\ 2^(w - 4) \in Nat
      /\ 2^(w + m) = W * q /\ 2^((w - 9) + m) = 2^(w - 9) * q /\ 2^((w - 4) + m) = 2^(w - 4) * q
  BY <1>4, PowPositive, PowSum
<1>6. (w + m) - 9 = (w - 9) + m /\ (w + m) - 4 = (w - 4) + m BY <1>4
<1>7. H \in Nat
  <2>1. X \in Nat /\ 8 * num \in Nat BY <1>1 DEF Spells
  <2>2. 2^(8 * num) \in Nat BY <2>1, PowType
  <2>3. X * 2^(8 * num) \in Nat
    <3> DEFINE p == 2^(8 * num)
    <3>1. p \in Nat BY <2>2
    <3> HIDE DEF p
    <3>2. X * p \in Nat BY <2>1, <3>1
    <3> QED BY <3>2 DEF p
  <2>4. Waiting(bb, num) \in Nat
    <3>1. CASE num = 0 BY <3>1 DEF Waiting
    <3>2. CASE num # 0
      <4> DEFINE p == 2^(8 * (num - 1))
      <4>1. 8 * (num - 1) \in Nat BY <1>1, <3>2
      <4>2. p \in Nat \ {0} BY <4>1, PowPositive
      <4>3. Waiting(bb, num) = (bb + 1) * p - 1 BY <3>2 DEF Waiting
      <4> HIDE DEF p
      <4>4. 1 * p <= (bb + 1) * p /\ (bb + 1) * p \in Nat BY <1>1, <4>2
      <4>5. (bb + 1) * p - 1 \in Nat BY <4>2, <4>4
      <4> QED BY <4>3, <4>5
    <3> QED BY <3>1, <3>2
  <2> QED BY <2>3, <2>4
<1> DEFINE a == 2^(w - 9)
           b == 2^(w - 4)
           l == low * q + d
<1>8. /\ a \in Nat /\ b \in Nat
      /\ num = 0 => low + r <= 510 * a
      /\ num # 0 => low + r <= W + b
  BY <1>1, <1>5
<1> HIDE DEF q, W, H, r, u, a, b
<1>9. l \in Nat BY <1>1, <1>5
<1>10. (H * W + low) * q + d = H * (W * q) + l BY <1>1, <1>5, <1>7
<1>11. l + u <= (low + r) * q
  <2>1. (low + r) * q = low * q + r * q /\ low * q \in Nat /\ r * q \in Nat BY <1>1, <1>3, <1>5
  <2> QED BY <1>2, <1>3, <2>1
<1>12. num = 0 => l + u <= 510 * (a * q)
  <2> SUFFICES ASSUME num = 0 PROVE l + u <= 510 * (a * q) OBVIOUS
  <2>1. (low + r) * q <= (510 * a) * q BY <1>1, <1>3, <1>5, <1>8
  <2>2. (510 * a) * q = 510 * (a * q) /\ (low + r) * q \in Nat BY <1>1, <1>3, <1>5, <1>8
  <2>3. 510 * (a * q) \in Nat BY <1>5, <1>8
  <2> QED BY <1>3, <1>9, <1>11, <2>1, <2>2, <2>3
<1>13. num # 0 => l + u <= W * q + b * q
  <2> SUFFICES ASSUME num # 0 PROVE l + u <= W * q + b * q OBVIOUS
  <2>1. (low + r) * q <= (W + b) * q BY <1>1, <1>3, <1>5, <1>8
  <2>2. (W + b) * q = W * q + b * q /\ (low + r) * q \in Nat /\ W * q \in Nat /\ b * q \in Nat
    BY <1>1, <1>3, <1>5, <1>8
  <2> QED BY <1>3, <1>9, <1>11, <2>1, <2>2
<1>14. t.low = H * 2^(w + m) + l BY <1>1, <1>2, <1>5, <1>10
<1>15. t.n = 8 * (Len(f) + num) + (w + m)
  <2>1. Len(f) \in Nat BY <1>1 DEF Spells
  <2> QED BY <1>1, <1>2, <1>4, <2>1
<1>16. /\ num = 0 => l + u <= 510 * 2^((w + m) - 9)
       /\ num # 0 => l + u <= 2^(w + m) + 2^((w + m) - 4)
  BY <1>5, <1>6, <1>12, <1>13 DEF a, b
<1>17. w + m \in 9..28 OBVIOUS
<1> HIDE DEF l
<1>18. EncodedAs(t, l, bb, num, w + m, f, X)
  BY <1>1, <1>9, <1>14, <1>15, <1>16, <1>17 DEF EncodedAs, H, u
<1> QED BY <1>18 DEF l, q

\* What writeOut does to the registers.
WithLow(e, w, low) == [e EXCEPT !.bitsLeft = 32 - w, !.low = low]
WithBuffered(e, bb, num) == [e EXCEPT !.bufferedByte = bb, !.numBufferedBytes = num]
WithCount(e, num) == [e EXCEPT !.numBufferedBytes = num]

\* The register updates of WriteOut, two fields at a time ...
LEMMA TwoFields ==
  ASSUME NEW low, NEW range, NEW bb, NEW num, NEW w, NEW x, NEW y
  PROVE  /\ WithLow(Registers(low, range, bb, num, w), x, y) = Registers(y, range, bb, num, x)
         /\ WithBuffered(Registers(low, range, bb, num, w), x, y) = Registers(low, range, x, y, w)
<1> DEFINE e == Registers(low, range, bb, num, w)
           e1 == Registers(low, range, bb, num, x)
           e2 == Registers(low, range, x, num, w)
<1>1. [e EXCEPT !.bitsLeft = 32 - x] = e1 BY DEF Registers
<1>2. [e EXCEPT !.bufferedByte = x] = e2 BY DEF Registers
<1>3. [e1 EXCEPT !.low = y] = Registers(y, range, bb, num, x) BY DEF Registers
<1>4. [e2 EXCEPT !.numBufferedBytes = y] = Registers(low, range, x, y, w) BY DEF Registers
<1> HIDE DEF e, e1, e2
<1>6. [e EXCEPT !.bitsLeft = 32 - x, !.low = y] = [[e EXCEPT !.bitsLeft = 32 - x] EXCEPT !.low = y] OBVIOUS
<1>7. [e EXCEPT !.bufferedByte = x, !.numBufferedBytes = y]
        = [[e EXCEPT !.bufferedByte = x] EXCEPT !.numBufferedBytes = y] OBVIOUS
<1> QED BY <1>1, <1>2, <1>3, <1>4, <1>6, <1>7 DEF e, WithLow, WithBuffered

\* ... and the count of waiting bytes.
LEMMA OneField ==
  ASSUME NEW low, NEW range, NEW bb, NEW num, NEW w, NEW y
  PROVE  WithCount(Registers(low, range, bb, num, w), y) = Registers(low, range, bb, y, w)
  BY DEF WithCount, Registers

\* The byte that leaves a register of w bits, what stays, and the waiting bytes with a carry.
LeadOf(low, w) == low \div 2^(w - 8)
RestOf(low, w) == low % 2^(w - 8)
WaitingOut(s, bb, num, carry) == Fill(Write(s, bb + carry, 8), (255 + carry) % 256, num - 1)

\* WriteOut and WrittenOut in terms of the leading byte.
LEMMA WriteOutIs ==
  ASSUME NEW low, NEW range, NEW bb, NEW num \in Nat, NEW w \in 21..28
  PROVE  /\ WriteOut(Registers(low, range, bb, num, w))
              = IF LeadOf(low, w) = 255 THEN Registers(RestOf(low, w), range, bb, num + 1, w - 8)
                ELSE IF num > 0 THEN Registers(RestOf(low, w), range, LeadOf(low, w) % 256, 1, w - 8)
                ELSE Registers(RestOf(low, w), range, LeadOf(low, w), 1, w - 8)
         /\ \A s : WrittenOut(Registers(low, range, bb, num, w), s)
                     = IF LeadOf(low, w) = 255 \/ num = 0 THEN s
                       ELSE WaitingOut(s, bb, num, LeadOf(low, w) \div 256)
<1> DEFINE k == w - 8
           lead == LeadOf(low, w)
           rest == RestOf(low, w)
           e == Registers(low, range, bb, num, w)
           kept == [e EXCEPT !.bitsLeft = @ + 8, !.low = LowBits(@, 32 - (e.bitsLeft + 8))]
<1>1. e.low = low /\ e.bufferedByte = bb /\ e.numBufferedBytes = num /\ e.bitsLeft = 32 - w
  BY RegisterFields
<1>2. 24 - (32 - w) = k /\ 32 - ((32 - w) + 8) = k /\ (32 - w) + 8 = 32 - k
  OBVIOUS
<1>3. LeadByte(e) = lead
  <2> HIDE DEF e
  <2> QED BY <1>1, <1>2 DEF LeadByte, Shr, LeadOf
<1>4. LowBits(lead, 8) = lead % 256 /\ Shr(lead, 8) = lead \div 256
      /\ \A x : LowBits(x, 8) = x % 256
  BY SmallPowers DEF LowBits, Shr
<1>5. LowBits(low, 32 - ((32 - w) + 8)) = rest BY <1>2 DEF LowBits, RestOf
<1> HIDE DEF k, lead, rest
<1>6. kept = Registers(rest, range, bb, num, k)
  <2>1. kept = WithLow(e, k, rest)
    <3> HIDE DEF e
    <3> QED BY <1>1, <1>2, <1>5 DEF WithLow
  <2> HIDE DEF kept
  <2>2. WithLow(Registers(low, range, bb, num, w), k, rest) = Registers(rest, range, bb, num, k)
    BY TwoFields
  <2> QED BY <2>1, <2>2
<1>7. WriteOut(e) = IF lead = 255 THEN [kept EXCEPT !.numBufferedBytes = @ + 1]
                    ELSE IF num > 0 THEN [kept EXCEPT !.bufferedByte = LowBits(lead, 8), !.numBufferedBytes = 1]
                    ELSE [kept EXCEPT !.bufferedByte = lead, !.numBufferedBytes = 1]
  <2> HIDE DEF e
  <2> QED BY <1>1, <1>3 DEF WriteOut
<1>8. \A s : WrittenOut(e, s) = IF lead = 255 \/ num = 0 THEN s ELSE WaitingOut(s, bb, num, lead \div 256)
  <2> HIDE DEF e
  <2> QED BY <1>1, <1>3, <1>4 DEF WrittenOut, WaitingOut
<1> HIDE DEF kept
<1>9. [kept EXCEPT !.numBufferedBytes = @ + 1] = Registers(rest, range, bb, num + 1, k)
  <2>1. kept.numBufferedBytes = num BY <1>6, RegisterFields
  <2>2. WithCount(Registers(rest, range, bb, num, k), num + 1) = Registers(rest, range, bb, num + 1, k)
    BY OneField
  <2>3. [kept EXCEPT !.numBufferedBytes = @ + 1] = WithCount(kept, num + 1) BY <2>1 DEF WithCount
  <2> QED BY <1>6, <2>2, <2>3
<1>10. \A x : [kept EXCEPT !.bufferedByte = x, !.numBufferedBytes = 1] = Registers(rest, range, x, 1, k)
  <2> SUFFICES ASSUME NEW x
               PROVE  [kept EXCEPT !.bufferedByte = x, !.numBufferedBytes = 1] = Registers(rest, range, x, 1, k)
    OBVIOUS
  <2>1. WithBuffered(Registers(rest, range, bb, num, k), x, 1) = Registers(rest, range, x, 1, k)
    BY TwoFields
  <2> QED BY <1>6, <2>1 DEF WithBuffered
<1> HIDE DEF e
<1>11. WriteOut(e) = IF lead = 255 THEN Registers(rest, range, bb, num + 1, k)
                     ELSE IF num > 0 THEN Registers(rest, range, lead % 256, 1, k)
                     ELSE Registers(rest, range, lead, 1, k)
  BY <1>4, <1>7, <1>9, <1>10
<1> QED BY <1>8, <1>11 DEF e, k, lead, rest

\* The byte that leaves the register, and what stays.
LEMMA LeadArithmetic ==
  ASSUME NEW low \in Nat, NEW w \in 21..28
  PROVE  /\ LeadOf(low, w) \in Nat /\ RestOf(low, w) \in Nat
         /\ low = LeadOf(low, w) * 2^(w - 8) + RestOf(low, w)
         /\ RestOf(low, w) + 510 <= 2^(w - 8) + 2^((w - 8) - 4)
         /\ low < 510 * 2^(w - 9) => LeadOf(low, w) <= 254
         /\ low < 2^w + 2^(w - 4) => LeadOf(low, w) <= 271
<1> DEFINE k == w - 8
           lead == LeadOf(low, w)
           rest == RestOf(low, w)
           K == 2^k
           a == 2^(k - 4)
           h == 2^(k - 1)
<1>1. k \in 13..20 /\ k \in Nat /\ w = k + 8 /\ w - 9 = k - 1 /\ k - 1 \in Nat /\ w - 4 = k + 4 /\ k - 4 \in Nat
      /\ 9 <= k - 4 /\ k = (k - 1) + 1
  OBVIOUS
<1>2. K \in Nat \ {0} /\ a \in Nat /\ h \in Nat BY <1>1, PowPositive
<1>3. 2^w = 256 * K /\ 2^(w - 4) = 16 * K /\ K = 2 * h /\ 2^(w - 9) = h
  <2>1. 2^(k + 8) = 2^k * 2^8 /\ 2^(k + 4) = 2^k * 2^4 BY <1>1, PowSum
  <2>2. 2^((k - 1) + 1) = 2 * 2^(k - 1) BY <1>1, PowStep
  <2>3. 2^w = 2^(k + 8) /\ 2^(w - 4) = 2^(k + 4) /\ 2^(w - 9) = 2^(k - 1) BY <1>1
  <2>4. 2^k = 2^((k - 1) + 1) BY <1>1
  <2>5. 2^(k + 8) = K * 256 /\ 2^(k + 4) = K * 16 BY <2>1, SmallPowers
  <2>6. K = 2 * h BY <2>2, <2>4
  <2>7. K * 256 = 256 * K /\ K * 16 = 16 * K
    <3> HIDE DEF K
    <3> QED BY <1>2
  <2> QED BY <2>3, <2>5, <2>6, <2>7
<1>4. a >= 512
  <2>1. 2^9 <= 2^(k - 4) BY <1>1, PowGrows
  <2> HIDE DEF a
  <2> QED BY <1>2, <2>1, SmallPowers DEF a
<1>5. lead = low \div K /\ rest = low % K BY DEF LeadOf, RestOf
<1> HIDE DEF K, a, h, lead, rest
<1>6. lead \in Nat /\ rest \in 0..K-1 /\ low = K * lead + rest BY <1>2, <1>5, DivFacts
<1>7. low = lead * K + rest /\ rest \in Nat BY <1>2, <1>6
<1>8. rest + 510 <= K + a BY <1>2, <1>4, <1>6
<1>9. ASSUME low < 510 * h PROVE lead <= 254
  <2> SUFFICES ASSUME lead >= 255 PROVE FALSE BY <1>6
  <2>1. 255 * K <= lead * K BY <1>2, <1>6
  <2>2. 255 * K = 510 * h BY <1>2, <1>3
  <2>3. lead * K \in Nat BY <1>2, <1>6
  <2> QED BY <1>2, <1>7, <1>9, <2>1, <2>2, <2>3
<1>10. ASSUME low < 256 * K + 16 * K PROVE lead <= 271
  <2> SUFFICES ASSUME lead >= 272 PROVE FALSE BY <1>6
  <2>1. 272 * K <= lead * K BY <1>2, <1>6
  <2>2. 256 * K + 16 * K = 272 * K BY <1>2
  <2>3. lead * K \in Nat BY <1>2, <1>6
  <2> QED BY <1>2, <1>7, <1>10, <2>1, <2>2, <2>3
<1> QED BY <1>1, <1>3, <1>6, <1>7, <1>8, <1>9, <1>10 DEF K, a, h, lead, rest

\* What the waiting bytes are worth.
LEMMA WaitingIs ==
  ASSUME NEW bb \in Nat, NEW num \in Nat
  PROVE  /\ Waiting(bb, num) \in Nat /\ Waiting(bb, 0) = 0 /\ Waiting(bb, 1) = bb
         /\ num # 0 => /\ Waiting(bb, num + 1) = Waiting(bb, num) * 256 + 255
                       /\ Waiting(bb, num) + 1 = (bb + 1) * 2^(8 * (num - 1))
<1>1. Waiting(bb, 0) = 0 BY DEF Waiting
<1>2. Waiting(bb, 1) = bb
  <2>1. Waiting(bb, 1) = (bb + 1) * 2^(8 * (1 - 1)) - 1 BY DEF Waiting
  <2>2. 8 * (1 - 1) = 0 OBVIOUS
  <2>3. 2^(8 * (1 - 1)) = 1 BY <2>2, SmallPowers
  <2>4. (bb + 1) * 1 - 1 = bb OBVIOUS
  <2> QED BY <2>1, <2>3, <2>4
<1>3. ASSUME num # 0
      PROVE  /\ Waiting(bb, num) \in Nat /\ Waiting(bb, num + 1) = Waiting(bb, num) * 256 + 255
             /\ Waiting(bb, num) + 1 = (bb + 1) * 2^(8 * (num - 1))
  <2> DEFINE k == num - 1
             p == 2^(8 * k)
  <2>1. k \in Nat /\ num = k + 1 /\ (num + 1) - 1 = k + 1 /\ num + 1 # 0 BY <1>3
  <2>2. 2^(8 * (k + 1)) = p * 256 /\ p \in Nat \ {0} BY <2>1, PowEight
  <2>3. Waiting(bb, num) = (bb + 1) * p - 1 BY <1>3 DEF Waiting
  <2>4. Waiting(bb, num + 1) = (bb + 1) * (p * 256) - 1
    <3>1. Waiting(bb, num + 1) = (bb + 1) * 2^(8 * ((num + 1) - 1)) - 1 BY <2>1 DEF Waiting
    <3>2. 2^(8 * ((num + 1) - 1)) = p * 256 BY <2>1, <2>2
    <3> QED BY <3>1, <3>2
  <2> HIDE DEF p
  <2> DEFINE x == (bb + 1) * p
  <2>5. x \in Nat /\ x >= 1 /\ (bb + 1) * (p * 256) = x * 256
    <3>1. x \in Nat /\ 1 * p <= (bb + 1) * p BY <2>2
    <3>2. (bb + 1) * (p * 256) = x * 256 BY <2>2
    <3> QED BY <2>2, <3>1, <3>2
  <2>6. Waiting(bb, num) = x - 1 /\ Waiting(bb, num + 1) = x * 256 - 1 BY <2>3, <2>4, <2>5
  <2> HIDE DEF x
  <2>7. x - 1 \in Nat /\ x * 256 - 1 = (x - 1) * 256 + 255 /\ (x - 1) + 1 = x BY <2>5
  <2> QED BY <2>6, <2>7 DEF x, p, k
<1>4. Waiting(bb, num) \in Nat
  <2>1. CASE num = 0 BY <1>1, <2>1
  <2>2. CASE num # 0 BY <1>3, <2>2
  <2> QED BY <2>1, <2>2
<1> QED BY <1>1, <1>2, <1>3, <1>4

\* What waits, as a number of num digits.
WaitingDigits(bb, num) ==
  Waiting(bb, num) \in Nat /\ (num # 0 => Waiting(bb, num) + 1 = (bb + 1) * 2^(8 * (num - 1)))

\* The same as one fact.
LEMMA WaitingAreDigits ==
  ASSUME NEW bb \in Nat, NEW num \in Nat
  PROVE  WaitingDigits(bb, num)
<1>1. Waiting(bb, num) \in Nat BY WaitingIs
<1>2. num # 0 => Waiting(bb, num) + 1 = (bb + 1) * 2^(8 * (num - 1)) BY WaitingIs
<1> QED BY <1>1, <1>2 DEF WaitingDigits

\* What waits is written out, plus the carry.
LEMMA WaitingWritten ==
  ASSUME NEW f, NEW X, Spells(f, X), NEW bb \in 0..254, NEW num \in Nat \ {0}, NEW carry \in 0..1
  PROVE  \E g : /\ WaitingOut(AlignedOut(f), bb, num, carry) = AlignedOut(g)
               /\ Len(g) = Len(f) + num
               /\ Spells(g, X * 2^(8 * num) + Waiting(bb, num) + carry)
<1> DEFINE b == bb + carry
           c == 1 - carry
           k == num - 1
           p == 2^(8 * k)
           f1 == Append(f, b)
           X1 == X * 256 + b
           fill == (255 + carry) % 256
<1>1. b \in 0..255 /\ c \in 0..1 /\ k \in Nat /\ num = k + 1 /\ fill = ByteOf(c) BY DEF ByteOf
<1>2. f \in Seq(Byte) /\ X \in Nat /\ Len(f) \in Nat BY DEF Spells
<1>3. b \in Byte BY <1>1 DEF Byte
<1> HIDE DEF b, fill
<1>4. Write(AlignedOut(f), b, 8) = AlignedOut(f1) BY <1>2, <1>3, WriteByte
<1>5. Spells(f1, X1) /\ Len(f1) = Len(f) + 1 BY <1>3, SpellsAppend
<1> HIDE DEF f1, X1, c, k
<1>6. PICK g : /\ Fill(AlignedOut(f1), ByteOf(c), k) = AlignedOut(g) /\ Len(g) = Len(f1) + k
               /\ Spells(g, FilledUp(X1, c, k))
  BY <1>1, <1>5, FillSpells
<1>7. 2^(8 * num) = p * 256 /\ p \in Nat \ {0}
  <2>1. 2^(8 * (k + 1)) = 2^(8 * k) * 256 /\ 2^(8 * k) \in Nat \ {0} BY <1>1, PowEight
  <2> QED BY <1>1, <2>1
<1>8. Waiting(bb, num) + 1 = (bb + 1) * p /\ Waiting(bb, num) \in Nat
  <2>1. bb \in Nat /\ num \in Nat /\ num # 0 OBVIOUS
  <2>2. WaitingDigits(bb, num) BY <2>1, WaitingAreDigits
  <2>3. num - 1 = k BY DEF k
  <2> HIDE DEF p
  <2>4. p = 2^(8 * (num - 1)) BY <2>3 DEF p
  <2> QED BY <2>1, <2>2, <2>4 DEF WaitingDigits
<1> DEFINE wt == Waiting(bb, num)
<1>9. X1 * p + c * (p - 1) = X * (p * 256) + wt + carry
  <2>1. p \in Nat \ {0} /\ wt + 1 = (bb + 1) * p /\ wt \in Nat BY <1>7, <1>8
  <2> HIDE DEF p, wt
  <2>2. X1 * p = X * (p * 256) + (bb + carry) * p
    <3>1. (X * 256 + (bb + carry)) * p = X * (p * 256) + (bb + carry) * p BY <1>2, <2>1
    <3> QED BY <3>1 DEF X1, b
  <2>3. (bb + carry) * p + c * (p - 1) = wt + carry
    <3>1. (bb + 1) * p = bb * p + p /\ bb * p \in Nat BY <2>1
    <3>2. CASE carry = 0
      <4>1. (bb + 0) * p = bb * p /\ 1 * (p - 1) = p - 1 BY <2>1
      <4>2. c = 1 BY <3>2 DEF c
      <4> QED BY <2>1, <3>1, <3>2, <4>1, <4>2
    <3>3. CASE carry = 1
      <4>1. 0 * (p - 1) = 0 BY <2>1
      <4>2. c = 0 BY <3>3 DEF c
      <4> QED BY <2>1, <3>1, <3>3, <4>1, <4>2
    <3> QED BY <3>2, <3>3
  <2>4. X * (p * 256) \in Nat /\ (bb + carry) * p \in Nat /\ c * (p - 1) \in Nat BY <1>1, <1>2, <2>1
  <2> QED BY <2>1, <2>2, <2>3, <2>4
<1>10. Spells(g, X * 2^(8 * num) + Waiting(bb, num) + carry)
  BY <1>6, <1>7, <1>9 DEF FilledUp
<1>11. Len(g) = Len(f) + num BY <1>1, <1>2, <1>5, <1>6
<1>12. WaitingOut(AlignedOut(f), bb, num, carry) = AlignedOut(g)
  BY <1>1, <1>4, <1>6 DEF k, b, fill, WaitingOut
<1> QED BY <1>10, <1>11, <1>12

\* The three ways in which the lower end is divided anew.
LEMMA Redivided ==
  ASSUME NEW H \in Nat, NEW K \in Nat, NEW lead \in Nat, NEW rest \in Nat, NEW carry \in Nat, NEW byte \in Nat,
         lead = 256 * carry + byte
  PROVE  /\ H * (256 * K) + (lead * K + rest) = (H * 256 + lead) * K + rest
         /\ H * (256 * K) + (lead * K + rest) = ((H + carry) * 256 + byte) * K + rest
<1>1. H * (256 * K) + (lead * K + rest) = (H * 256 + lead) * K + rest OBVIOUS
<1>2. H * 256 + lead = (H + carry) * 256 + byte OBVIOUS
<1> QED BY <1>1, <1>2

\* The types of what bytes spell.
LEMMA SpellsFields ==
  ASSUME NEW f, NEW X, Spells(f, X)
  PROVE  f \in Seq(Byte) /\ X \in Nat /\ Len(f) \in Nat
  BY DEF Spells

\* WriteOut keeps what is encoded: a byte moves from the register to the waiting bytes, and
\* a carry to those that leave them.
LEMMA Flush ==
  ASSUME NEW s \in Interval, NEW low, NEW bb, NEW num, NEW w, NEW f, NEW X,
         EncodedAs(s, low, bb, num, w, f, X), w \in 21..28
  PROVE  \E low2, bb2, num2, f2, X2 :
           /\ EncodedAs(s, low2, bb2, num2, w - 8, f2, X2) /\ num2 # 0
           /\ WriteOut(Registers(low, s.range, bb, num, w)) = Registers(low2, s.range, bb2, num2, w - 8)
           /\ WrittenOut(Registers(low, s.range, bb, num, w), AlignedOut(f)) = AlignedOut(f2)
<1> DEFINE k == w - 8
           K == 2^k
           lead == LeadOf(low, w)
           rest == RestOf(low, w)
           r == s.range
           P == 2^(8 * num)
           wt == Waiting(bb, num)
           H == X * P + wt
           e == Registers(low, r, bb, num, w)
           carry == lead \div 256
           byte == lead % 256
<1>1. /\ Spells(f, X) /\ low \in Nat /\ bb \in 0..255 /\ num \in Nat
      /\ s.low = H * 2^w + low
      /\ s.n = 8 * (Len(f) + num) + w
      /\ num = 0 => low + r <= 510 * 2^(w - 9)
      /\ num # 0 => bb <= 254 /\ low + r <= 2^w + 2^(w - 4)
  BY DEF EncodedAs
<1>2. X \in Nat /\ Len(f) \in Nat /\ f \in Seq(Byte) BY <1>1, SpellsFields
<1>3. r \in 256..510 /\ r \in Nat BY IntervalFields
<1> HIDE DEF r, H, wt, P
<1>5. /\ k \in 13..20 /\ lead \in Nat /\ rest \in Nat
      /\ 2^w = 256 * K /\ low = lead * K + rest
      /\ rest + r <= K + 2^(k - 4)
      /\ low + r <= 510 * 2^(w - 9) => lead <= 254
      /\ low + r <= 2^w + 2^(w - 4) => lead <= 271
  <2>1. k \in 13..20 OBVIOUS
  <2>2. 2^w = 256 * K
    <3>1. w - 8 \in Nat /\ (w - 8) + 8 = w OBVIOUS
    <3>2. 2^((w - 8) + 8) = 2^(w - 8) * 2^8 BY <3>1, PowSum
    <3>3. 2^(w - 8) \in Nat BY <3>1, PowType
    <3>4. K * 256 = 256 * K
      <4>1. K \in Nat BY <3>3
      <4> HIDE DEF K
      <4> QED BY <4>1
    <3> QED BY <3>1, <3>2, <3>4, SmallPowers
  <2>3. /\ lead \in Nat /\ rest \in Nat /\ low = lead * K + rest /\ rest + 510 <= K + 2^(k - 4)
        /\ low < 510 * 2^(w - 9) => lead <= 254
        /\ low < 2^w + 2^(w - 4) => lead <= 271
    <3>1. low \in Nat BY <1>1
    <3>2. /\ LeadOf(low, w) \in Nat /\ RestOf(low, w) \in Nat
          /\ low = LeadOf(low, w) * 2^(w - 8) + RestOf(low, w)
          /\ RestOf(low, w) + 510 <= 2^(w - 8) + 2^((w - 8) - 4)
          /\ low < 510 * 2^(w - 9) => LeadOf(low, w) <= 254
          /\ low < 2^w + 2^(w - 4) => LeadOf(low, w) <= 271
      BY <3>1, LeadArithmetic
    <3> QED BY <3>2
  <2> DEFINE a == 510 * 2^(w - 9)
             b == 2^w + 2^(w - 4)
             c == K + 2^(k - 4)
  <2>4. a \in Nat /\ b \in Nat /\ c \in Nat
    <3>1. w - 9 \in Nat /\ w \in Nat /\ w - 4 \in Nat /\ k \in Nat /\ k - 4 \in Nat OBVIOUS
    <3>2. 2^(w - 9) \in Nat /\ 2^w \in Nat /\ 2^(w - 4) \in Nat /\ 2^k \in Nat /\ 2^(k - 4) \in Nat
      BY <3>1, PowType
    <3> QED BY <3>2
  <2>5. rest + 510 <= c /\ (low < a => lead <= 254) /\ (low < b => lead <= 271) BY <2>3
  <2> HIDE DEF a, b, c, lead, rest
  <2>6. /\ rest + r <= c
        /\ low + r <= a => lead <= 254
        /\ low + r <= b => lead <= 271
    BY <1>1, <1>3, <2>3, <2>4, <2>5
  <2> QED BY <2>1, <2>2, <2>3, <2>6 DEF a, b, c
<1> HIDE DEF lead, rest
<1>6. k \in 9..28 /\ k \in Nat /\ K \in Nat
  <2>1. k \in 9..28 /\ k \in Nat BY <1>5
  <2> QED BY <2>1, PowType
<1>7. P \in Nat /\ wt \in Nat /\ H \in Nat
  <2>1. 8 * num \in Nat /\ bb \in Nat BY <1>1
  <2>2. P \in Nat BY <2>1, PowType DEF P
  <2>3. wt \in Nat BY <1>1, <2>1, WaitingIs DEF wt
  <2> QED BY <1>2, <2>2, <2>3 DEF H
<1>8. carry \in Nat /\ byte \in Nat /\ byte <= 255 /\ lead = 256 * carry + byte BY <1>5
<1>9. /\ WriteOut(e) = IF lead = 255 THEN Registers(rest, r, bb, num + 1, k)
                       ELSE IF num > 0 THEN Registers(rest, r, byte, 1, k)
                       ELSE Registers(rest, r, lead, 1, k)
      /\ WrittenOut(e, AlignedOut(f))
           = IF lead = 255 \/ num = 0 THEN AlignedOut(f)
             ELSE WaitingOut(AlignedOut(f), bb, num, carry)
  <2>1. /\ WriteOut(e) = IF LeadOf(low, w) = 255 THEN Registers(RestOf(low, w), r, bb, num + 1, w - 8)
                         ELSE IF num > 0 THEN Registers(RestOf(low, w), r, LeadOf(low, w) % 256, 1, w - 8)
                         ELSE Registers(RestOf(low, w), r, LeadOf(low, w), 1, w - 8)
        /\ \A x : WrittenOut(e, x) = IF LeadOf(low, w) = 255 \/ num = 0 THEN x
                                     ELSE WaitingOut(x, bb, num, LeadOf(low, w) \div 256)
    <3>1. num \in Nat BY <1>1
    <3> QED BY <3>1, WriteOutIs
  <2> HIDE DEF e
  <2>2. WriteOut(e) = IF lead = 255 THEN Registers(rest, r, bb, num + 1, k)
                      ELSE IF num > 0 THEN Registers(rest, r, byte, 1, k)
                      ELSE Registers(rest, r, lead, 1, k)
    BY <2>1 DEF lead, rest
  <2>3. WrittenOut(e, AlignedOut(f))
          = IF lead = 255 \/ num = 0 THEN AlignedOut(f)
            ELSE WaitingOut(AlignedOut(f), bb, num, carry)
    BY <2>1 DEF lead
  <2> QED BY <2>2, <2>3
<1> HIDE DEF k, K, carry, byte, e
<1>10. s.low = (H * 256 + lead) * K + rest /\ s.low = ((H + carry) * 256 + byte) * K + rest
  <2>1. s.low = H * (256 * K) + (lead * K + rest) BY <1>1, <1>5
  <2>2. /\ H * (256 * K) + (lead * K + rest) = (H * 256 + lead) * K + rest
        /\ H * (256 * K) + (lead * K + rest) = ((H + carry) * 256 + byte) * K + rest
    BY <1>5, <1>6, <1>7, <1>8, Redivided
  <2> QED BY <2>1, <2>2
<1>11. ASSUME NEW bb2 \in 0..254, NEW num2 \in Nat, num2 # 0, NEW f2, NEW X2, Spells(f2, X2),
              X2 * 2^(8 * num2) + Waiting(bb2, num2) = H * 256 + lead,
              Len(f2) + num2 = Len(f) + num + 1,
              WriteOut(e) = Registers(rest, r, bb2, num2, k), WrittenOut(e, AlignedOut(f)) = AlignedOut(f2)
       PROVE  \E low3, bb3, num3, f3, X3 :
                /\ EncodedAs(s, low3, bb3, num3, k, f3, X3) /\ num3 # 0
                /\ WriteOut(e) = Registers(low3, r, bb3, num3, k)
                /\ WrittenOut(e, AlignedOut(f)) = AlignedOut(f3)
  <2>1. s.low = (X2 * 2^(8 * num2) + Waiting(bb2, num2)) * 2^k + rest BY <1>10, <1>11 DEF K
  <2>2. s.n = 8 * (Len(f2) + num2) + k
    <3>1. 8 * (Len(f2) + num2) = 8 * (Len(f) + num) + 8
      <4>1. Len(f2) \in Nat BY <1>11, SpellsFields
      <4>2. Len(f2) + num2 = Len(f) + num + 1 BY <1>11
      <4> DEFINE x == Len(f2)
                 y == Len(f)
      <4>3. x \in Nat /\ y \in Nat /\ num \in Nat /\ num2 \in Nat /\ x + num2 = y + num + 1
        BY <1>1, <1>2, <4>1, <4>2
      <4> HIDE DEF x, y
      <4>4. 8 * (x + num2) = 8 * (y + num) + 8 BY <4>3
      <4> QED BY <4>4 DEF x, y
    <3>2. s.n = (8 * (Len(f) + num) + 8) + k BY <1>1, <1>2, <1>5 DEF k
    <3> QED BY <3>1, <3>2
  <2>3. bb2 \in 0..255 /\ bb2 <= 254 OBVIOUS
  <2>4. rest + s.range <= 2^k + 2^(k - 4) BY <1>5 DEF K, r
  <2>5. EncodedAs(s, rest, bb2, num2, k, f2, X2)
    BY <1>5, <1>6, <1>11, <2>1, <2>2, <2>3, <2>4 DEF EncodedAs
  <2> QED BY <1>11, <2>5
<1>12. \E low3, bb3, num3, f3, X3 :
         /\ EncodedAs(s, low3, bb3, num3, k, f3, X3) /\ num3 # 0
         /\ WriteOut(e) = Registers(low3, r, bb3, num3, k)
         /\ WrittenOut(e, AlignedOut(f)) = AlignedOut(f3)
  <2>1. CASE lead = 255
    <3>1. num # 0 /\ bb \in 0..254
      <4>1. num # 0 BY <1>1, <1>5, <2>1
      <4> QED BY <1>1, <4>1
    <3>2. X * 2^(8 * (num + 1)) + Waiting(bb, num + 1) = H * 256 + lead
      <4>1. bb \in Nat BY <1>1
      <4>2. Waiting(bb, num + 1) = wt * 256 + 255 BY <1>1, <3>1, <4>1, WaitingIs DEF wt
      <4>3. 2^(8 * (num + 1)) = P * 256 BY <1>1, PowEight DEF P
      <4>4. X * (P * 256) + (wt * 256 + 255) = H * 256 + 255
        <5>1. X * P \in Nat /\ X * (P * 256) = (X * P) * 256 BY <1>2, <1>7
        <5> DEFINE Z == X * P
        <5>2. Z \in Nat /\ X * (P * 256) = Z * 256 /\ H = Z + wt BY <5>1 DEF H
        <5> HIDE DEF Z
        <5> QED BY <1>7, <5>2
      <4> QED BY <2>1, <4>2, <4>3, <4>4
    <3>3. num + 1 \in Nat /\ num + 1 # 0 /\ Len(f) + (num + 1) = Len(f) + num + 1 BY <1>1, <1>2
    <3>4. WriteOut(e) = Registers(rest, r, bb, num + 1, k) /\ WrittenOut(e, AlignedOut(f)) = AlignedOut(f)
      BY <1>9, <2>1
    <3> DEFINE m == num + 1
    <3>5. /\ m \in Nat /\ m # 0 /\ X * 2^(8 * m) + Waiting(bb, m) = H * 256 + lead
          /\ Len(f) + m = Len(f) + num + 1 /\ WriteOut(e) = Registers(rest, r, bb, m, k)
      BY <3>2, <3>3, <3>4
    <3> HIDE DEF m
    <3> QED BY <1>1, <1>11, <3>1, <3>4, <3>5
  <2>2. CASE lead # 255 /\ num = 0
    <3>1. lead \in 0..254 BY <1>1, <1>5, <2>2
    <3>2. X * 2^(8 * 1) + Waiting(lead, 1) = H * 256 + lead
      <4>1. Waiting(lead, 1) = lead BY <1>5, WaitingIs
      <4>2. H = X
        <5>1. 2^(8 * 0) = 1 BY SmallPowers
        <5>2. wt = 0 BY <2>2 DEF wt, Waiting
        <5>3. P = 1 BY <2>2, <5>1 DEF P
        <5> QED BY <1>2, <5>2, <5>3 DEF H
      <4>3. 2^(8 * 1) = 256 BY SmallPowers
      <4> QED BY <4>1, <4>2, <4>3
    <3>3. 1 \in Nat /\ 1 # 0 /\ Len(f) + 1 = Len(f) + num + 1 BY <1>2, <2>2
    <3>4. WriteOut(e) = Registers(rest, r, lead, 1, k) /\ WrittenOut(e, AlignedOut(f)) = AlignedOut(f)
      BY <1>9, <2>2
    <3> QED BY <1>1, <1>11, <3>1, <3>2, <3>3, <3>4
  <2>3. CASE lead # 255 /\ num # 0
    <3>1. num > 0 /\ num \in Nat \ {0} /\ bb \in 0..254 /\ lead <= 271 BY <1>1, <1>5, <2>3
    <3>2. carry \in 0..1 /\ byte \in 0..254 BY <1>8, <2>3, <3>1
    <3>3. PICK g : /\ WaitingOut(AlignedOut(f), bb, num, carry) = AlignedOut(g)
                   /\ Len(g) = Len(f) + num
                   /\ Spells(g, X * P + wt + carry)
      <4>1. \E g : /\ WaitingOut(AlignedOut(f), bb, num, carry) = AlignedOut(g)
                   /\ Len(g) = Len(f) + num
                   /\ Spells(g, X * 2^(8 * num) + Waiting(bb, num) + carry)
        BY <1>1, <3>1, <3>2, WaitingWritten
      <4> QED BY <4>1 DEF P, wt
    <3>4. Spells(g, H + carry) BY <3>3 DEF H
    <3>5. (H + carry) * 2^(8 * 1) + Waiting(byte, 1) = H * 256 + lead
      <4>1. Waiting(byte, 1) = byte BY <1>8, WaitingIs
      <4>2. (H + carry) * 256 + byte = H * 256 + lead BY <1>7, <1>8
      <4>3. 2^(8 * 1) = 256 BY SmallPowers
      <4> QED BY <4>1, <4>2, <4>3
    <3>6. 1 \in Nat /\ 1 # 0 /\ Len(g) + 1 = Len(f) + num + 1 BY <3>3
    <3>7. WriteOut(e) = Registers(rest, r, byte, 1, k) /\ WrittenOut(e, AlignedOut(f)) = AlignedOut(g)
      BY <1>9, <2>3, <3>1, <3>3
    <3> QED BY <1>11, <3>2, <3>4, <3>5, <3>6, <3>7
  <2> QED BY <2>1, <2>2, <2>3
<1> QED BY <1>12 DEF e, r, k

\* The encoder has coded s: no byte is due.
EncoderAt(e, o, s) ==
  \E low, bb, num, w, f, X :
    /\ w \in 9..20 /\ EncodedAs(s, low, bb, num, w, f, X)
    /\ e = Registers(low, s.range, bb, num, w) /\ o = AlignedOut(f)

\* The start of the encoder encodes the first interval.
LEMMA StartIsCoded == EncoderAt(EncStart, EmptyOutput, Start)
<1>1. Spells(<<>>, 0) BY SpellsNothing
<1>2. EncStart = Registers(0, Start.range, 255, 0, 9)
  <2>1. 32 - 9 = 23 OBVIOUS
  <2> QED BY <2>1 DEF EncStart, Registers, Start
<1>3. EmptyOutput = AlignedOut(<<>>) BY DEF EmptyOutput, AlignedOut
<1>4. EncodedAs(Start, 0, 255, 0, 9, <<>>, 0)
  <2>1. Start.low = 0 /\ Start.range = 510 /\ Start.n = 9 BY DEF Start
  <2>2. (0 * 2^(8 * 0) + Waiting(255, 0)) * 2^9 + 0 = 0
    <3>1. Waiting(255, 0) = 0 BY DEF Waiting
    <3>2. 2^(8 * 0) = 1 /\ 2^9 = 512 BY SmallPowers
    <3> QED BY <3>1, <3>2
  <2>3. 8 * (Len(<<>>) + 0) + 9 = 9 OBVIOUS
  <2>4. 0 + 510 <= 510 * 2^(9 - 9)
    <3>1. 9 - 9 = 0 OBVIOUS
    <3>2. 2^(9 - 9) = 1 BY <3>1, SmallPowers
    <3> QED BY <3>2
  <2>5. 0 \in Nat /\ 255 \in 0..255 /\ 9 \in 9..28 OBVIOUS
  <2> QED BY <1>1, <2>1, <2>2, <2>3, <2>4, <2>5 DEF EncodedAs
<1>5. 9 \in 9..20 OBVIOUS
<1> QED BY <1>2, <1>3, <1>4, <1>5 DEF EncoderAt

\* The common end of the calls.
LEMMA EncodedStep ==
  ASSUME NEW s \in Interval, NEW low, NEW bb, NEW num, NEW w, NEW f, NEW X,
         EncodedAs(s, low, bb, num, w, f, X), out = AlignedOut(f),
         Encoded(Registers(low, s.range, bb, num, w))
  PROVE  EncoderAt(enc', out', s)
<1> DEFINE e == Registers(low, s.range, bb, num, w)
<1>1. w \in 9..28 BY DEF EncodedAs
<1>2. e.bitsLeft = 32 - w BY RegisterFields
<1>3. /\ enc' = IF e.bitsLeft < 12 THEN WriteOut(e) ELSE e
      /\ out' = IF e.bitsLeft < 12 THEN WrittenOut(e, out) ELSE out
  BY DEF Encoded
<1> HIDE DEF e
<1>4. CASE w \in 9..20
  <2>1. ~(e.bitsLeft < 12) BY <1>2, <1>4
  <2>2. enc' = e /\ out' = AlignedOut(f) BY <1>3, <2>1
  <2> QED BY <1>4, <2>2 DEF EncoderAt, e
<1>5. CASE w \in 21..28
  <2>1. e.bitsLeft < 12 BY <1>2, <1>5
  <2>2. enc' = WriteOut(e) /\ out' = WrittenOut(e, AlignedOut(f)) BY <1>3, <2>1
  <2>3. PICK low2, bb2, num2, f2, X2 :
          /\ EncodedAs(s, low2, bb2, num2, w - 8, f2, X2)
          /\ WriteOut(e) = Registers(low2, s.range, bb2, num2, w - 8)
          /\ WrittenOut(e, AlignedOut(f)) = AlignedOut(f2)
    BY <1>5, Flush DEF e
  <2> DEFINE k == w - 8
  <2>4. k \in 9..20 BY <1>5
  <2>5. EncodedAs(s, low2, bb2, num2, k, f2, X2) /\ enc' = Registers(low2, s.range, bb2, num2, k)
        /\ out' = AlignedOut(f2)
    BY <2>2, <2>3
  <2> HIDE DEF k
  <2> QED BY <2>4, <2>5 DEF EncoderAt
<1> QED BY <1>1, <1>4, <1>5

\* The register after m bits that narrow the interval to the part at d.
Pushed(e, range, m, d) ==
  [low |-> e.low * 2^m + d, range |-> range, bufferedByte |-> e.bufferedByte,
   numBufferedBytes |-> e.numBufferedBytes, bitsLeft |-> e.bitsLeft - m]

\* Registers with m more bits.
LEMMA PushedIs ==
  ASSUME NEW low, NEW range, NEW bb, NEW num, NEW w \in 9..20, NEW range2, NEW m \in 0..8, NEW d
  PROVE  Pushed(Registers(low, range, bb, num, w), range2, m, d)
           = Registers(low * 2^m + d, range2, bb, num, w + m)
<1>1. (32 - w) - m = 32 - (w + m) OBVIOUS
<1> QED BY <1>1, RegisterFields DEF Pushed, Registers

\* The common end of the encoding functions encodes the narrowed interval.
LEMMA EncoderStep ==
  ASSUME NEW s \in Interval, EncoderAt(enc, out, s), NEW t \in Interval, NEW m \in 0..8, NEW d \in Nat,
         Narrowed(s, t, m, d), Encoded(Pushed(enc, t.range, m, d))
  PROVE  EncoderAt(enc', out', t)
<1>1. PICK low, bb, num, w, f, X :
        /\ w \in 9..20 /\ EncodedAs(s, low, bb, num, w, f, X)
        /\ enc = Registers(low, s.range, bb, num, w) /\ out = AlignedOut(f)
  BY DEF EncoderAt
<1>2. EncodedAs(t, low * 2^m + d, bb, num, w + m, f, X) BY <1>1, Push
<1>3. Pushed(enc, t.range, m, d) = Registers(low * 2^m + d, t.range, bb, num, w + m)
  <2>1. enc.low = low /\ enc.bufferedByte = bb /\ enc.numBufferedBytes = num /\ enc.bitsLeft = 32 - w
    BY <1>1, RegisterFields
  <2>2. enc.bitsLeft - m = 32 - (w + m)
    <3>1. w \in 9..20 BY <1>1
    <3> QED BY <2>1, <3>1
  <2> QED BY <2>1, <2>2 DEF Pushed, Registers
<1> DEFINE l == low * 2^m + d
           v == w + m
<1>4. EncodedAs(t, l, bb, num, v, f, X) /\ Encoded(Registers(l, t.range, bb, num, v)) BY <1>2, <1>3
<1> HIDE DEF l, v
<1> QED BY <1>1, <1>4, EncodedStep

-----------------------------------------------------------------------------
(* The calls.                                                            *)

\* The registers of an encoder.
LEMMA EncoderFields ==
  ASSUME NEW e, NEW o, NEW s \in Interval, EncoderAt(e, o, s)
  PROVE  /\ e.low \in Nat /\ e.range = s.range /\ e.bitsLeft \in 12..23
         /\ e = [low |-> e.low, range |-> e.range, bufferedByte |-> e.bufferedByte,
                 numBufferedBytes |-> e.numBufferedBytes, bitsLeft |-> e.bitsLeft]
<1>1. PICK low, bb, num, w, f, X :
        /\ w \in 9..20 /\ EncodedAs(s, low, bb, num, w, f, X)
        /\ e = Registers(low, s.range, bb, num, w) /\ o = AlignedOut(f)
  BY DEF EncoderAt
<1>2. low \in Nat BY <1>1 DEF EncodedAs
<1>3. e.low = low /\ e.range = s.range /\ e.bitsLeft = 32 - w BY <1>1, RegisterFields
<1>4. e.bitsLeft \in 12..23 BY <1>1, <1>3
<1>5. e = [low |-> e.low, range |-> e.range, bufferedByte |-> e.bufferedByte,
           numBufferedBytes |-> e.numBufferedBytes, bitsLeft |-> e.bitsLeft]
  <2> HIDE <1>2, <1>4
  <2> QED BY <1>1, <1>3, RegisterFields DEF Registers
<1> QED BY <1>2, <1>3, <1>4, <1>5

\* What the calls make of the registers.
Shifted(e, x, r, m) == [e EXCEPT !.low = x, !.range = r, !.bitsLeft = @ - m]
ShiftedLow(e, x, m) == [e EXCEPT !.low = x, !.bitsLeft = @ - m]

\* The register updates of the encoding functions, field by field.
LEMMA ShiftedIs ==
  ASSUME NEW a, NEW b, NEW c, NEW d, NEW f, NEW x, NEW r, NEW m
  PROVE  LET e == [low |-> a, range |-> b, bufferedByte |-> c, numBufferedBytes |-> d, bitsLeft |-> f]
         IN /\ Shifted(e, x, r, m)
                 = [low |-> x, range |-> r, bufferedByte |-> c, numBufferedBytes |-> d, bitsLeft |-> f - m]
            /\ ShiftedLow(e, x, m)
                 = [low |-> x, range |-> b, bufferedByte |-> c, numBufferedBytes |-> d, bitsLeft |-> f - m]
<1> DEFINE e == [low |-> a, range |-> b, bufferedByte |-> c, numBufferedBytes |-> d, bitsLeft |-> f]
           z == f - m
           e1 == [low |-> x, range |-> b, bufferedByte |-> c, numBufferedBytes |-> d, bitsLeft |-> f]
           e2 == [low |-> x, range |-> r, bufferedByte |-> c, numBufferedBytes |-> d, bitsLeft |-> f]
<1>1. e.bitsLeft = f OBVIOUS
<1>2. Shifted(e, x, r, m) = [e EXCEPT !.low = x, !.range = r, !.bitsLeft = z]
      /\ ShiftedLow(e, x, m) = [e EXCEPT !.low = x, !.bitsLeft = z]
  BY <1>1 DEF Shifted, ShiftedLow
<1> HIDE DEF z
<1>3. [e EXCEPT !.low = x, !.range = r, !.bitsLeft = z]
        = [[[e EXCEPT !.low = x] EXCEPT !.range = r] EXCEPT !.bitsLeft = z] OBVIOUS
<1>4. [e EXCEPT !.low = x, !.bitsLeft = z] = [[e EXCEPT !.low = x] EXCEPT !.bitsLeft = z] OBVIOUS
<1>5. [e EXCEPT !.low = x] = e1 OBVIOUS
<1>6. [e1 EXCEPT !.range = r] = e2 OBVIOUS
<1>7. [e1 EXCEPT !.bitsLeft = z] = [low |-> x, range |-> b, bufferedByte |-> c, numBufferedBytes |-> d, bitsLeft |-> z]
  OBVIOUS
<1>8. [e2 EXCEPT !.bitsLeft = z] = [low |-> x, range |-> r, bufferedByte |-> c, numBufferedBytes |-> d, bitsLeft |-> z]
  OBVIOUS
<1> HIDE DEF e, e1, e2
<1>9. /\ Shifted(e, x, r, m) = [low |-> x, range |-> r, bufferedByte |-> c, numBufferedBytes |-> d, bitsLeft |-> z]
      /\ ShiftedLow(e, x, m) = [low |-> x, range |-> b, bufferedByte |-> c, numBufferedBytes |-> d, bitsLeft |-> z]
  BY <1>2, <1>3, <1>4, <1>5, <1>6, <1>7, <1>8
<1> QED BY <1>9 DEF e, z

\* They all add bits below the register.
LEMMA RegistersPushed ==
  ASSUME NEW e, e = [low |-> e.low, range |-> e.range, bufferedByte |-> e.bufferedByte,
                     numBufferedBytes |-> e.numBufferedBytes, bitsLeft |-> e.bitsLeft],
         NEW m, NEW x, NEW d, x = e.low * 2^m + d
  PROVE  /\ \A r : Shifted(e, x, r, m) = Pushed(e, r, m, d)
         /\ ShiftedLow(e, x, m) = Pushed(e, e.range, m, d)
<1> DEFINE E(a, b, c, n, f) == [low |-> a, range |-> b, bufferedByte |-> c, numBufferedBytes |-> n, bitsLeft |-> f]
           el == e.low
           er == e.range
           eb == e.bufferedByte
           en == e.numBufferedBytes
           ef == e.bitsLeft
<1>1. e = E(el, er, eb, en, ef) OBVIOUS
<1>2. /\ \A r : Shifted(E(el, er, eb, en, ef), x, r, m) = E(x, r, eb, en, ef - m)
      /\ ShiftedLow(E(el, er, eb, en, ef), x, m) = E(x, er, eb, en, ef - m)
  <2> HIDE DEF el, er, eb, en, ef
  <2> QED BY ShiftedIs
<1>3. /\ \A r : Shifted(e, x, r, m) = E(x, r, eb, en, ef - m)
      /\ ShiftedLow(e, x, m) = E(x, er, eb, en, ef - m)
  <2> HIDE DEF E, el, er, eb, en, ef
  <2> QED BY <1>1, <1>2
<1>4. /\ \A r : Pushed(e, r, m, d) = E(x, r, eb, en, ef - m)
  BY DEF Pushed
<1> HIDE DEF E, eb, en, ef
<1> QED BY <1>3, <1>4 DEF er

\* An interval that only gets smaller moves no bits.
LEMMA EncoderKeeps ==
  ASSUME NEW e, NEW o, NEW s \in Interval, EncoderAt(e, o, s), NEW t \in Interval, Narrowed(s, t, 0, 0)
  PROVE  EncoderAt([e EXCEPT !.range = t.range], o, t)
<1>1. PICK low, bb, num, w, f, X :
        /\ w \in 9..20 /\ EncodedAs(s, low, bb, num, w, f, X)
        /\ e = Registers(low, s.range, bb, num, w) /\ o = AlignedOut(f)
  BY DEF EncoderAt
<1>2. 0 \in 0..8 /\ 0 \in Nat /\ w + 0 = w /\ low \in Nat /\ low * 2^0 + 0 = low
  <2>1. w \in 9..20 /\ low \in Nat BY <1>1 DEF EncodedAs
  <2>2. 2^0 = 1 BY SmallPowers
  <2>3. low * 1 + 0 = low BY <2>1
  <2> QED BY <2>1, <2>2, <2>3
<1>3. EncodedAs(t, low * 2^0 + 0, bb, num, w + 0, f, X) BY <1>1, <1>2, Push
<1>4. EncodedAs(t, low, bb, num, w, f, X) BY <1>2, <1>3
<1>5. [e EXCEPT !.range = t.range] = Registers(low, t.range, bb, num, w) BY <1>1 DEF Registers
<1> QED BY <1>1, <1>4, <1>5 DEF EncoderAt

-----------------------------------------------------------------------------
\* The calls of the encoder.
LEMMA CtxCoded ==
  ASSUME NEW s \in Interval, EncoderAt(enc, out, s), encCtx = s.ctx, NEW op \in Ops, EncodeBin(op)
  PROVE  LET t == AfterBin(s, op)
         IN t \in Interval /\ EncoderAt(enc', out', t) /\ encCtx' = t.ctx /\ Follows(s, op, t) /\ todo' = todo
<1> DEFINE t == AfterBin(s, op)
           c == op.ctx
           bin == op.bin
           m == s.ctx[c]
           lps == LpsRange(m, s.range)
           range == s.range - lps
           ctx == [s.ctx EXCEPT ![c] = Update(@, bin)]
           bits == IF bin # Mps(m) THEN RenormBitsLPS(lps) ELSE IF range < 256 THEN 1 ELSE 0
<1>1. op.kind = "ctx" BY DEF EncodeBin
<1>2. c \in DOMAIN Contexts0 /\ bin \in {0, 1} BY <1>1, OpFields
<1>3. enc.low \in Nat /\ enc.range = s.range BY EncoderFields
<1>4. encCtx[op.ctx] = m BY DEF c
<1>5. /\ Encoded(IF bin # Mps(m) THEN Shifted(enc, Shl(enc.low + range, bits), Shl(lps, bits), bits)
                 ELSE Shifted(enc, Shl(enc.low, bits), Shl(range, bits), bits))
      /\ encCtx' = ctx /\ todo' = todo
  BY <1>3, <1>4 DEF EncodeBin, Shifted
<1>6. enc = [low |-> enc.low, range |-> enc.range, bufferedByte |-> enc.bufferedByte,
             numBufferedBytes |-> enc.numBufferedBytes, bitsLeft |-> enc.bitsLeft]
  BY EncoderFields
<1>7. /\ m \in Models /\ Mps(m) \in {0, 1} /\ ctx \in ContextModels
      /\ lps \in 4..236 /\ range \in 128..506
      /\ bin # Mps(m) => /\ t = Scaled(s, range, lps, RenormBitsLPS(lps), ctx)
                         /\ RenormBitsLPS(lps) \in 1..6
                         /\ t \in Interval
                         /\ Narrowed(s, t, RenormBitsLPS(lps), range * 2^RenormBitsLPS(lps))
      /\ bin = Mps(m) => /\ t = Scaled(s, 0, range, IF range < 256 THEN 1 ELSE 0, ctx)
                         /\ t \in Interval
                         /\ Narrowed(s, t, IF range < 256 THEN 1 ELSE 0, 0)
  BY <1>2, AfterBinNarrowed
<1>8. Follows(s, op, t) BY <1>1 DEF Follows
<1> HIDE DEF t, c, bin, m, lps, range, ctx
<1>9. CASE bin # Mps(m)
  <2> DEFINE k == RenormBitsLPS(lps)
             d == range * 2^k
  <2>1. k \in 1..6 /\ k \in 0..8 /\ k \in Nat /\ bits = k BY <1>7, <1>9
  <2>2. t = Scaled(s, range, lps, k, ctx) /\ t \in Interval /\ Narrowed(s, t, k, d) BY <1>7, <1>9
  <2>3. t.range = lps * 2^k /\ t.ctx = ctx BY <2>2 DEF Scaled
  <2>4. Encoded(Shifted(enc, Shl(enc.low + range, k), Shl(lps, k), k)) BY <1>5, <1>9, <2>1
  <2>5. Shl(enc.low + range, k) = enc.low * 2^k + d /\ d \in Nat
    <3> DEFINE p == 2^k
               l == enc.low
    <3>1. p \in Nat BY <2>1, PowType
    <3>2. l \in Nat /\ range \in Nat BY <1>3, <1>7
    <3> HIDE DEF p, l, k
    <3>3. (l + range) * p = l * p + range * p /\ range * p \in Nat BY <3>1, <3>2
    <3> QED BY <3>3 DEF Shl, p, l
  <2> DEFINE x == Shl(enc.low + range, k)
  <2> HIDE DEF k, d
  <2>6. x = enc.low * 2^k + d BY <2>5
  <2> HIDE DEF x
  <2>7. Shifted(enc, x, t.range, k) = Pushed(enc, t.range, k, d) BY <1>6, <2>6, RegistersPushed
  <2>8. Encoded(Pushed(enc, t.range, k, d)) BY <2>3, <2>4, <2>7 DEF Shl, x
  <2>9. EncoderAt(enc', out', t) BY <2>1, <2>2, <2>5, <2>8, EncoderStep
  <2> QED BY <1>5, <1>8, <2>2, <2>3, <2>9 DEF t
<1>10. CASE bin = Mps(m)
  <2> DEFINE k == IF range < 256 THEN 1 ELSE 0
  <2>1. k \in 0..8 /\ k \in Nat /\ bits = k BY <1>7, <1>10
  <2>2. t = Scaled(s, 0, range, k, ctx) /\ t \in Interval /\ Narrowed(s, t, k, 0) BY <1>7, <1>10
  <2> HIDE DEF k
  <2>3. t.range = range * 2^k /\ t.ctx = ctx BY <2>2 DEF Scaled
  <2>4. Encoded(Shifted(enc, Shl(enc.low, k), Shl(range, k), k)) BY <1>5, <1>10, <2>1
  <2> DEFINE x == Shl(enc.low, k)
  <2>5. x = enc.low * 2^k + 0
    <3> DEFINE y == enc.low * 2^k
    <3>1. y \in Nat
      <4> DEFINE p == 2^k
                 l == enc.low
      <4>1. p \in Nat /\ l \in Nat BY <1>3, <2>1, PowType
      <4> HIDE DEF p, l
      <4>2. l * p \in Nat BY <4>1
      <4> QED BY <4>2 DEF p, l
    <3>2. x = y BY DEF Shl
    <3> HIDE DEF x, y
    <3>3. x = y + 0 BY <3>1, <3>2
    <3> QED BY <3>3 DEF y
  <2> HIDE DEF x
  <2>6. Shifted(enc, x, t.range, k) = Pushed(enc, t.range, k, 0) BY <1>6, <2>5, RegistersPushed
  <2>7. Encoded(Pushed(enc, t.range, k, 0)) BY <2>3, <2>4, <2>6 DEF Shl, x
  <2>8. 0 \in Nat OBVIOUS
  <2>9. EncoderAt(enc', out', t) BY <2>1, <2>2, <2>7, <2>8, EncoderStep
  <2> QED BY <1>5, <1>8, <2>2, <2>3, <2>9 DEF t
<1> QED BY <1>9, <1>10

\* Bins of equal probability, at most eight at once.
LEMMA BinsCoded ==
  ASSUME NEW s \in Interval, EncoderAt(enc, out, s), NEW n \in 0..8, NEW bins \in Nat, bins < 2^n,
         Encoded(ShiftedLow(enc, Shl(enc.low, n) + bins * enc.range, n))
  PROVE  WithBins(s, n, bins) \in Interval /\ EncoderAt(enc', out', WithBins(s, n, bins))
<1> DEFINE t == WithBins(s, n, bins)
           d == bins * s.range
           x == Shl(enc.low, n) + bins * enc.range
<1>1. t \in Interval /\ Narrowed(s, t, n, d) BY BinsNarrowed
<1>2. enc.range = s.range BY EncoderFields
<1>3. enc = [low |-> enc.low, range |-> enc.range, bufferedByte |-> enc.bufferedByte,
             numBufferedBytes |-> enc.numBufferedBytes, bitsLeft |-> enc.bitsLeft]
  BY EncoderFields
<1>4. t.range = s.range BY IntervalFields DEF WithBins
<1>5. d \in Nat
  <2> DEFINE r == s.range
  <2>1. r \in Nat BY IntervalFields
  <2> HIDE DEF r
  <2>2. bins * r \in Nat BY <2>1
  <2> QED BY <2>2 DEF r
<1>6. x = enc.low * 2^n + d BY <1>2 DEF Shl
<1>7. Encoded(ShiftedLow(enc, x, n)) OBVIOUS
<1> HIDE DEF t, d, x
<1>8. ShiftedLow(enc, x, n) = Pushed(enc, enc.range, n, d) BY <1>3, <1>6, RegistersPushed
<1>9. Encoded(Pushed(enc, t.range, n, d)) BY <1>2, <1>4, <1>7, <1>8
<1>10. EncoderAt(enc', out', t) BY <1>1, <1>5, <1>9, EncoderStep
<1> QED BY <1>1, <1>10 DEF t

\* encodeBinEP.
LEMMA EpCoded ==
  ASSUME NEW s \in Interval, EncoderAt(enc, out, s), encCtx = s.ctx, NEW op \in Ops, EncodeBinEP(op)
  PROVE  LET t == WithBins(s, 1, op.bin)
         IN t \in Interval /\ EncoderAt(enc', out', t) /\ encCtx' = t.ctx /\ Follows(s, op, t) /\ todo' = todo
<1> DEFINE t == WithBins(s, 1, op.bin)
<1>1. op.kind = "ep" BY DEF EncodeBinEP
<1>2. op.bin \in {0, 1} BY <1>1, OpFields
<1> DEFINE b == op.bin
<1>3. b \in Nat /\ b < 2^1
  <2>1. b \in {0, 1} BY <1>2
  <2> HIDE DEF b
  <2> QED BY <2>1, SmallPowers
<1>4. /\ Encoded(ShiftedLow(enc, Shl(enc.low, 1) + op.bin * enc.range, 1))
      /\ encCtx' = encCtx /\ todo' = todo
  BY DEF EncodeBinEP, ShiftedLow
<1>5. 1 \in 0..8 OBVIOUS
<1> HIDE DEF b
<1>6. Encoded(ShiftedLow(enc, Shl(enc.low, 1) + b * enc.range, 1)) BY <1>4 DEF b
<1>7. WithBins(s, 1, b) \in Interval /\ EncoderAt(enc', out', WithBins(s, 1, b))
  BY <1>3, <1>5, <1>6, BinsCoded
<1>8. t.ctx = s.ctx BY IntervalFields DEF WithBins
<1>9. Follows(s, op, t) BY <1>1 DEF Follows
<1> QED BY <1>4, <1>7, <1>8, <1>9 DEF b

\* encodeBinTrm of a zero.
LEMMA TrmCoded ==
  ASSUME NEW s \in Interval, EncoderAt(enc, out, s), encCtx = s.ctx, NEW op \in Ops, EncodeBinTrm(op)
  PROVE  LET t == AfterTrm(s)
         IN t \in Interval /\ EncoderAt(enc', out', t) /\ encCtx' = t.ctx /\ Follows(s, op, t) /\ todo' = todo
<1> DEFINE t == AfterTrm(s)
           range == s.range - 2
           k == IF range < 256 THEN 1 ELSE 0
<1>1. op.kind = "trm" BY DEF EncodeBinTrm
<1>2. t \in Interval /\ range \in 254..508 /\ Narrowed(s, t, k, 0) BY AfterTrmNarrowed
<1>3. t.range = range * 2^k /\ t.ctx = s.ctx BY DEF AfterTrm, Scaled
<1>4. Follows(s, op, t) BY <1>1 DEF Follows
<1>5. enc.low \in Nat /\ enc.range = s.range BY EncoderFields
<1>6. enc = [low |-> enc.low, range |-> enc.range, bufferedByte |-> enc.bufferedByte,
             numBufferedBytes |-> enc.numBufferedBytes, bitsLeft |-> enc.bitsLeft]
  BY EncoderFields
<1>7. /\ IF range >= 256 THEN enc' = [enc EXCEPT !.range = range] /\ out' = out
         ELSE Encoded(Shifted(enc, Shl(enc.low, 1), Shl(range, 1), 1))
      /\ encCtx' = encCtx /\ todo' = todo
  BY <1>5 DEF EncodeBinTrm, Shifted
<1>8. EncoderAt(enc', out', t)
  <2>1. CASE range >= 256
    <3>1. k = 0 BY <1>2, <2>1
    <3>2. range * 2^k = range
      <4>1. 2^k = 1 BY <3>1, SmallPowers
      <4> HIDE DEF k, range
      <4> QED BY <1>2, <4>1
    <3> HIDE DEF k, range, t
    <3>3. Narrowed(s, t, 0, 0) BY <1>2, <3>1
    <3>4. enc' = [enc EXCEPT !.range = t.range] /\ out' = out BY <1>3, <1>7, <2>1, <3>2
    <3> QED BY <1>2, <3>3, <3>4, EncoderKeeps
  <2>2. CASE ~(range >= 256)
    <3>1. k = 1 BY <1>2, <2>2
    <3> HIDE DEF k, range, t
    <3>2. Narrowed(s, t, 1, 0) /\ t.range = Shl(range, 1) BY <1>2, <1>3, <3>1 DEF Shl
    <3> DEFINE x == Shl(enc.low, 1)
    <3>3. x = enc.low * 2^1 + 0
      <4> DEFINE l == enc.low
      <4>1. l \in Nat /\ 2^1 = 2 BY <1>5, SmallPowers
      <4> HIDE DEF l
      <4>2. l * 2 = l * 2 + 0 BY <4>1
      <4> QED BY <4>1, <4>2 DEF l, Shl
    <3> HIDE DEF x
    <3>7. x = enc.low * 2^k + 0 BY <3>1, <3>3
    <3>8. Shifted(enc, x, t.range, k) = Pushed(enc, t.range, k, 0) BY <1>6, <3>7, RegistersPushed
    <3>4. Shifted(enc, x, t.range, 1) = Pushed(enc, t.range, 1, 0) BY <3>1, <3>8
    <3>5. Encoded(Pushed(enc, t.range, 1, 0)) BY <1>7, <2>2, <3>2, <3>4 DEF x
    <3>6. 0 \in Nat /\ 1 \in 0..8 OBVIOUS
    <3> QED BY <1>2, <3>2, <3>5, <3>6, EncoderStep
  <2> QED BY <2>1, <2>2
<1> QED BY <1>2, <1>3, <1>4, <1>7, <1>8

\* align.
LEMMA AlignCoded ==
  ASSUME NEW s \in Interval, EncoderAt(enc, out, s), encCtx = s.ctx, NEW op \in Ops, Align(op)
  PROVE  LET t == [s EXCEPT !.range = 256]
         IN t \in Interval /\ EncoderAt(enc', out', t) /\ encCtx' = t.ctx /\ Follows(s, op, t) /\ todo' = todo
<1> DEFINE t == [s EXCEPT !.range = 256]
<1>1. op.kind = "align" /\ enc' = [enc EXCEPT !.range = 256] /\ encCtx' = encCtx /\ out' = out /\ todo' = todo
  BY DEF Align
<1>2. t \in Interval /\ Narrowed(s, t, 0, 0) BY AlignedInside
<1>3. t.range = 256 /\ t.ctx = s.ctx BY IntervalFields
<1>4. Follows(s, op, t) BY <1>1 DEF Follows
<1> HIDE DEF t
<1>5. EncoderAt([enc EXCEPT !.range = t.range], out, t) BY <1>2, EncoderKeeps
<1>6. EncoderAt(enc', out', t) BY <1>1, <1>3, <1>5
<1> QED BY <1>1, <1>2, <1>3, <1>4, <1>6 DEF t

\* A chunk of a call.
LEMMA ChunkCoded ==
  ASSUME NEW s \in Interval, EncoderAt(enc, out, s), encCtx = s.ctx, NEW u, Path(s, todo, u), CodeChunk
  PROVE  \E t \in Interval : EncoderAt(enc', out', t) /\ encCtx' = t.ctx /\ Path(t, todo', u)
<1> DEFINE c == Head(todo)
           n == c.num
           b == c.bins
           t == WithBins(s, n, b)
<1>1. todo # <<>> /\ todo' = Tail(todo) /\ encCtx' = encCtx
      /\ Encoded(ShiftedLow(enc, Shl(enc.low, n) + b * enc.range, n))
  BY DEF CodeChunk, ShiftedLow
<1>2. IsChunk(c) /\ t \in Interval /\ Path(t, Tail(todo), u) BY <1>1, PathStep
<1>3. n \in 0..8 /\ b \in Nat /\ b < 2^n BY <1>2 DEF IsChunk
<1>4. t.ctx = s.ctx BY IntervalFields DEF WithBins
<1> HIDE DEF c, n, b
<1>5. EncoderAt(enc', out', WithBins(s, n, b)) BY <1>1, <1>3, BinsCoded
<1> QED BY <1>1, <1>2, <1>4, <1>5

-----------------------------------------------------------------------------
(* The end.                                                              *)

\* The carry of a register of w bits, and what is below it.
CarryOf(low, w) == low \div 2^w
BelowCarry(low, w) == low % 2^w

Finished(o, bb, num, low, w) ==
  Write(IF num > 0 THEN WaitingOut(o, bb, num, CarryOf(low, w)) ELSE o, BelowCarry(low, w) \div 256, w - 8)

\* What FinishEncoder makes of the registers.
LEMMA FinishIs ==
  ASSUME NEW low \in Nat, NEW range, NEW bb \in Nat, NEW num \in Nat, NEW w \in 13..20, NEW o,
         CarryOf(low, w) \in 0..1, CarryOf(low, w) = 1 => num > 0
  PROVE  FinishEncoder(Registers(low, range, bb, num, w), o) = Finished(o, bb, num, low, w)
<1> DEFINE e == Registers(low, range, bb, num, w)
           p == 2^w
           rest == BelowCarry(low, w)
<1>1. e.low = low /\ e.bufferedByte = bb /\ e.numBufferedBytes = num /\ e.bitsLeft = 32 - w
  BY RegisterFields
<1>2. 32 - e.bitsLeft = w /\ 24 - e.bitsLeft = w - 8 BY <1>1
<1>3. \A x : Shr(x, 8) = x \div 256 BY SmallPowers DEF Shr
<1> HIDE DEF e
<1>4. FinishEncoder(e, o)
        = LET carry == low \div p > 0
              l == IF carry THEN low - p ELSE low
              flushed == IF carry THEN Fill(Write(o, bb + 1, 8), 0, num - 1)
                         ELSE IF num > 0
                         THEN Fill(Write(o, bb, 8), 255, num - 1)
                         ELSE o
          IN Write(flushed, l \div 256, w - 8)
  BY <1>1, <1>2, <1>3 DEF FinishEncoder, Shr
<1>5. p \in Nat \ {0} BY PowPositive
<1>6. CASE CarryOf(low, w) = 1
  <2>1. low \div p = 1 BY <1>6 DEF CarryOf
  <2>2. rest = low - p
    <3>1. rest = low % p BY DEF BelowCarry
    <3> HIDE DEF p, rest
    <3>2. low = p * (low \div p) + (low % p) BY <1>5, DivFacts
    <3>3. low % p \in Nat BY <1>5, DivFacts
    <3>4. low = p * 1 + (low % p) BY <2>1, <3>2
    <3> QED BY <1>5, <3>1, <3>3, <3>4
  <2>3. num > 0 BY <1>6
  <2>4. WaitingOut(o, bb, num, 1) = Fill(Write(o, bb + 1, 8), 0, num - 1) BY DEF WaitingOut
  <2>5. FinishEncoder(e, o) = Write(Fill(Write(o, bb + 1, 8), 0, num - 1), (low - p) \div 256, w - 8)
    <3> HIDE DEF p
    <3> QED BY <1>4, <2>1
  <2> QED BY <1>6, <2>2, <2>3, <2>4, <2>5 DEF Finished, e
<1>7. CASE CarryOf(low, w) = 0
  <2>1. low \div p = 0 BY <1>7 DEF CarryOf
  <2>2. rest = low
    <3>1. rest = low % p BY DEF BelowCarry
    <3> HIDE DEF p, rest
    <3>2. low = p * (low \div p) + (low % p) BY <1>5, DivFacts
    <3>3. low % p \in Nat BY <1>5, DivFacts
    <3>4. low = p * 0 + (low % p) BY <2>1, <3>2
    <3> QED BY <1>5, <3>1, <3>3, <3>4
  <2>3. WaitingOut(o, bb, num, 0) = Fill(Write(o, bb, 8), 255, num - 1)
    <3>1. bb + 0 = bb /\ (255 + 0) % 256 = 255 OBVIOUS
    <3> QED BY <3>1 DEF WaitingOut
  <2>4. FinishEncoder(e, o) = Write(IF num > 0 THEN Fill(Write(o, bb, 8), 255, num - 1) ELSE o, low \div 256, w - 8)
    <3> HIDE DEF p
    <3> QED BY <1>4, <2>1
  <2> QED BY <1>7, <2>2, <2>3, <2>4 DEF Finished, e
<1> QED BY <1>6, <1>7

\* The carry of a register that keeps to its bounds.
LEMMA CarryArithmetic ==
  ASSUME NEW low \in Nat, NEW w \in 13..20
  PROVE  /\ BelowCarry(low, w) \in Nat
         /\ low <= 510 * 2^(w - 9) => CarryOf(low, w) = 0
         /\ low <= 2^w + 2^(w - 4) => CarryOf(low, w) \in 0..1
         /\ BelowCarry(low, w) \div 256 < 2^(w - 8) /\ BelowCarry(low, w) \div 256 \in Nat
         /\ low = CarryOf(low, w) * 2^w + BelowCarry(low, w)
<1> DEFINE p == 2^w
           a == 2^(w - 9)
           b == 2^(w - 4)
           h == 2^(w - 8)
           c == CarryOf(low, w)
           rest == BelowCarry(low, w)
<1>1. w \in Nat /\ w - 9 \in Nat /\ w - 4 \in Nat /\ w - 8 \in Nat
      /\ w = (w - 9) + 9 /\ w = (w - 4) + 4 /\ w = (w - 8) + 8
  OBVIOUS
<1>2. p \in Nat \ {0} /\ a \in Nat \ {0} /\ b \in Nat \ {0} /\ h \in Nat \ {0} BY <1>1, PowPositive
<1>3. p = a * 512
  <2>1. 2^((w - 9) + 9) = 2^(w - 9) * 2^9 BY <1>1, PowSum
  <2> QED BY <1>1, <2>1, SmallPowers
<1>4. p = b * 16
  <2>1. 2^((w - 4) + 4) = 2^(w - 4) * 2^4 BY <1>1, PowSum
  <2> QED BY <1>1, <2>1, SmallPowers
<1>5. p = h * 256
  <2>1. 2^((w - 8) + 8) = 2^(w - 8) * 2^8 BY <1>1, PowSum
  <2> QED BY <1>1, <2>1, SmallPowers
<1>6. c = low \div p /\ rest = low % p BY DEF CarryOf, BelowCarry
<1> HIDE DEF p, a, b, h, c, rest
<1>8. c \in Nat /\ rest \in 0..(p - 1) /\ low = p * c + rest BY <1>2, <1>6, DivFacts
<1>9. 0 * p <= low BY <1>2
<1>10. low <= p + b => c \in 0..1
  <2> SUFFICES ASSUME low <= p + b PROVE c \in 0..1 OBVIOUS
  <2>1. low < 2 * p BY <1>2, <1>4
  <2>2. low \div p < 2 BY <1>2, <1>9, <2>1, DivBetween
  <2> QED BY <1>6, <1>8, <2>2
<1>12. low <= 510 * a => c = 0
  <2> SUFFICES ASSUME low <= 510 * a PROVE c = 0 OBVIOUS
  <2>1. low < 1 * p BY <1>2, <1>3
  <2>3. low \div p < 1 BY <1>2, <1>9, <2>1, DivBetween
  <2> QED BY <1>6, <1>8, <2>3
<1>13. rest \div 256 < h /\ rest \div 256 \in Nat
  <2>1. rest \in Nat /\ rest < h * 256 BY <1>2, <1>5, <1>8
  <2>2. 0 * 256 <= rest BY <2>1
  <2>3. 256 \in Nat \ {0} OBVIOUS
  <2>4. rest \div 256 < h BY <1>2, <2>1, <2>2, <2>3, DivBetween
  <2> QED BY <2>1, <2>4
<1>14. low = c * p + rest BY <1>2, <1>8
<1>15. rest \in Nat BY <1>2, <1>8
<1> QED BY <1>10, <1>12, <1>13, <1>14, <1>15 DEF p, a, b, h, c, rest

\* The number that ends a substream.
LEMMA EndNumber ==
  ASSUME NEW G \in Nat, NEW h \in Nat \ {0}, NEW rest \in Nat
  PROVE  (G * (h * 256) + rest) \div 256 = G * h + (rest \div 256)
<1> DEFINE q == G * h
           k == rest \div 256
           r == rest % 256
<1>1. q \in Nat OBVIOUS
<1>2. k \in Nat /\ r \in 0..255 /\ rest = 256 * k + r OBVIOUS
<1>3. G * (h * 256) = 256 * q OBVIOUS
<1> HIDE DEF q, k, r
<1>4. 256 * q + rest = 256 * (q + k) + r /\ q + k \in Nat /\ 256 * q + rest \in Nat BY <1>1, <1>2
<1> DEFINE x == 256 * q + rest
           y == q + k
<1>5. x \in Nat /\ y \in Nat /\ x = 256 * y + r BY <1>4
<1>6. 256 \in Nat \ {0} /\ r \in 0 .. 256 - 1 BY <1>2
<1> HIDE DEF x, y
<1>7. x \div 256 = y BY <1>5, <1>6, DivUnique
<1> QED BY <1>3, <1>7 DEF x, y, q, k

\* finish and the byte alignment spell the lower end, without its last byte's bits, and a one.
LEMMA FinishWrites ==
  ASSUME NEW s \in Interval, NEW low, NEW bb, NEW num, NEW w, NEW f, NEW X,
         EncodedAs(s, low, bb, num, w, f, X), w \in 13..20
  PROVE  \E g : \E a \in 0..7 :
           /\ WriteByteAlignment(FinishEncoder(Registers(low, s.range, bb, num, w), AlignedOut(f))) = AlignedOut(g)
           /\ 8 * Len(g) + 7 = s.n + a
           /\ Spells(g, Padded((s.low \div 256) * 2 + 1, a))
<1> DEFINE c == CarryOf(low, w)
           rest == BelowCarry(low, w)
           n == w - 8
           bits == rest \div 256
           r == s.range
           wt == Waiting(bb, num)
           P == 2^(8 * num)
           H == X * P + wt
           h == 2^n
           W == 2^w
<1>1. /\ Spells(f, X) /\ low \in Nat /\ bb \in 0..255 /\ num \in Nat /\ r \in 256..510
      /\ s.low = H * W + low /\ s.n = 8 * (Len(f) + num) + w
      /\ num = 0 => low + r <= 510 * 2^(w - 9)
      /\ num # 0 => bb <= 254 /\ low + r <= W + 2^(w - 4)
  BY IntervalFields DEF EncodedAs
<1>2. f \in Seq(Byte) /\ X \in Nat /\ Len(f) \in Nat BY <1>1 DEF Spells
<1>20. low \in Nat /\ bb \in Nat /\ num \in Nat BY <1>1
<1>3. /\ num = 0 => low <= 510 * 2^(w - 9)
      /\ num # 0 => low <= W + 2^(w - 4)
  <2> DEFINE a == 2^(w - 9)
             b == 2^(w - 4)
  <2>1. a \in Nat /\ b \in Nat /\ W \in Nat
    <3>1. w \in Nat /\ w - 9 \in Nat /\ w - 4 \in Nat OBVIOUS
    <3> QED BY <3>1, PowType
  <2>2. low \in Nat /\ r \in 256..510 /\ num = 0 => low + r <= 510 * a BY <1>1
  <2>3. num # 0 => low + r <= W + b BY <1>1
  <2>4. r \in 256..510 BY <1>1
  <2> HIDE DEF a, b, W, r
  <2>5. num = 0 => low <= 510 * a BY <1>20, <2>1, <2>2, <2>4
  <2>6. num # 0 => low <= W + b BY <1>20, <2>1, <2>3, <2>4
  <2> QED BY <2>5, <2>6 DEF a, b
<1>4. /\ BelowCarry(low, w) \in Nat
      /\ low <= 510 * 2^(w - 9) => CarryOf(low, w) = 0
      /\ low <= 2^w + 2^(w - 4) => CarryOf(low, w) \in 0..1
      /\ BelowCarry(low, w) \div 256 < 2^(w - 8) /\ BelowCarry(low, w) \div 256 \in Nat
      /\ low = CarryOf(low, w) * 2^w + BelowCarry(low, w)
  BY <1>20, CarryArithmetic
<1>5. c \in 0..1 /\ (num = 0 => c = 0)
  <2>1. CASE num = 0
    <3>1. c = 0 BY <1>3, <1>4, <2>1
    <3> HIDE DEF c
    <3> QED BY <3>1
  <2>2. CASE num # 0
    <3>1. c \in 0..1 BY <1>3, <1>4, <2>2
    <3> HIDE DEF c
    <3> QED BY <2>2, <3>1
  <2> QED BY <2>1, <2>2
<1>6. n \in 5..12 /\ n \in Nat /\ w = n + 8 OBVIOUS
<1>7. h \in Nat \ {0} /\ W = h * 256
  <2>1. 2^(n + 8) = 2^n * 2^8 /\ 2^n \in Nat \ {0} BY <1>6, PowSum, PowPositive
  <2>2. w = n + 8 BY <1>6
  <2> HIDE DEF n
  <2> QED BY <2>1, <2>2, SmallPowers
<1>8. bits \in Nat /\ bits < h /\ rest \in Nat /\ low = c * W + rest BY <1>4
<1>10. wt \in Nat /\ P \in Nat \ {0}
  <2>1. 8 * num \in Nat BY <1>20
  <2> QED BY <1>20, <2>1, WaitingIs, PowPositive
<1> HIDE DEF wt, P
<1>11. H \in Nat
  <2>1. X * P \in Nat BY <1>2, <1>10
  <2> DEFINE Z == X * P
  <2>2. Z \in Nat BY <2>1
  <2> HIDE DEF Z
  <2>3. Z + wt \in Nat BY <1>10, <2>2
  <2> QED BY <2>3 DEF Z
<1> HIDE DEF H, W, h
<1>9. FinishEncoder(Registers(low, r, bb, num, w), AlignedOut(f))
        = Write(IF num > 0 THEN WaitingOut(AlignedOut(f), bb, num, c) ELSE AlignedOut(f), bits, n)
  <2>1. CarryOf(low, w) = 1 => num > 0
    <3>1. c = 1 => num > 0
      <4> HIDE DEF c
      <4> QED BY <1>5, <1>20
    <3> QED BY <3>1
  <2>2. CarryOf(low, w) \in 0..1 BY <1>5
  <2> HIDE DEF c, rest, n, bits, r
  <2>4. FinishEncoder(Registers(low, r, bb, num, w), AlignedOut(f)) = Finished(AlignedOut(f), bb, num, low, w)
    BY <1>20, <2>1, <2>2, FinishIs
  <2> QED BY <2>4 DEF Finished, c, rest, n, bits
<1> HIDE DEF c, rest, n, bits, r
<1>12. PICK f2 : /\ (IF num > 0 THEN WaitingOut(AlignedOut(f), bb, num, c) ELSE AlignedOut(f)) = AlignedOut(f2)
                 /\ Len(f2) = Len(f) + num /\ Spells(f2, H + c)
  <2>1. CASE num > 0
    <3>1. num \in Nat \ {0} /\ bb \in 0..254 /\ c \in 0..1 BY <1>1, <1>5, <2>1
    <3>2. \E g : /\ WaitingOut(AlignedOut(f), bb, num, c) = AlignedOut(g)
                 /\ Len(g) = Len(f) + num
                 /\ Spells(g, X * 2^(8 * num) + Waiting(bb, num) + c)
      BY <1>1, <3>1, WaitingWritten
    <3> QED BY <2>1, <3>2 DEF H, P, wt
  <2>2. CASE ~(num > 0)
    <3>1. num = 0 /\ c = 0 BY <1>5, <1>20, <2>2
    <3>2. 2^(8 * 0) = 1 BY SmallPowers
    <3>3. H = X
      <4>1. P = 1 BY <3>1, <3>2 DEF P
      <4>2. wt = 0 BY <3>1 DEF Waiting, wt
      <4> QED BY <1>2, <4>1, <4>2 DEF H
    <3>4. H + c = X /\ Len(f) = Len(f) + num BY <1>2, <3>1, <3>3
    <3> QED BY <1>1, <2>2, <3>4
  <2> QED BY <2>1, <2>2
<1> DEFINE G == H + c
<1>13. G \in Nat BY <1>5, <1>11
<1>14. Spells(f2, G) BY <1>12
<1> HIDE DEF G
<1>15. PICK g : \E a \in 0..7 :
           /\ WriteByteAlignment(Write(AlignedOut(f2), bits, n)) = AlignedOut(g)
           /\ 8 * Len(g) = 8 * Len(f2) + n + 1 + a
           /\ Spells(g, Padded(Closed(G, n, bits), a))
  <2>1. bits \in Nat /\ bits < 2^n /\ n \in 5..12 BY <1>6, <1>8 DEF h
  <2> QED BY <1>14, <2>1, WriteEnd
<1>19. PICK a \in 0..7 :
           /\ WriteByteAlignment(Write(AlignedOut(f2), bits, n)) = AlignedOut(g)
           /\ 8 * Len(g) = 8 * Len(f2) + n + 1 + a
           /\ Spells(g, Padded(Closed(G, n, bits), a))
  BY <1>15
<1>16. s.low \div 256 = G * h + bits
  <2>1. s.low = G * (h * 256) + rest
    <3> DEFINE p == h * 256
               sl == s.low
    <3>2. p \in Nat BY <1>7
    <3>3. sl = H * p + low /\ low = c * p + rest BY <1>1, <1>7, <1>8
    <3> HIDE DEF p, sl
    <3>4. H * p + (c * p + rest) = (H + c) * p + rest BY <1>5, <1>8, <1>11, <3>2
    <3>5. sl = (H + c) * p + rest BY <3>3, <3>4
    <3> QED BY <3>5 DEF G, p, sl
  <2>3. (G * (h * 256) + rest) \div 256 = G * h + (rest \div 256) BY <1>7, <1>8, <1>13, EndNumber
  <2> QED BY <2>1, <2>3 DEF bits
<1>17. 8 * Len(g) + 7 = s.n + a
  <2>1. Len(g) \in Nat /\ Len(f2) = Len(f) + num BY <1>12, <1>19 DEF Spells
  <2> DEFINE y == Len(g)
             x == Len(f2)
             z == Len(f)
             sn == s.n
  <2>2. y \in Nat /\ z \in Nat /\ x = z + num /\ 8 * y = 8 * x + n + 1 + a /\ sn = 8 * (z + num) + w
    BY <1>1, <1>2, <1>19, <2>1
  <2> HIDE DEF x, y, z, sn
  <2>3. 8 * y + 7 = sn + a BY <1>6, <1>20, <2>2
  <2> QED BY <2>3 DEF y, sn
<1>18. Closed(G, n, bits) = (s.low \div 256) * 2 + 1 BY <1>16 DEF h, Closed
<1>21. Spells(g, Padded((s.low \div 256) * 2 + 1, a)) BY <1>18, <1>19
<1> QED BY <1>9, <1>12, <1>17, <1>19, <1>21 DEF r

\* The registers after the common end, when at least 16 bits are there.
LEMMA FlushedThen ==
  ASSUME NEW u \in Interval, NEW low, NEW bb, NEW num, NEW w \in 16..28, NEW f, NEW X,
         EncodedAs(u, low, bb, num, w, f, X), NEW t, t = Registers(low, u.range, bb, num, w)
  PROVE  \E low2, bb2, num2, f2, X2 : \E k \in 13..20 :
           /\ EncodedAs(u, low2, bb2, num2, k, f2, X2)
           /\ (IF t.bitsLeft < 12 THEN WriteOut(t) ELSE t) = Registers(low2, u.range, bb2, num2, k)
           /\ (IF t.bitsLeft < 12 THEN WrittenOut(t, AlignedOut(f)) ELSE AlignedOut(f)) = AlignedOut(f2)
<1>1. t.bitsLeft = 32 - w BY RegisterFields
<1>2. CASE w \in 16..20
  <2>1. ~(t.bitsLeft < 12) /\ w \in 13..20 BY <1>1, <1>2
  <2> QED BY <2>1
<1>3. CASE w \in 21..28
  <2>1. t.bitsLeft < 12 BY <1>1, <1>3
  <2>2. PICK low2, bb2, num2, f2, X2 :
          /\ EncodedAs(u, low2, bb2, num2, w - 8, f2, X2)
          /\ WriteOut(t) = Registers(low2, u.range, bb2, num2, w - 8)
          /\ WrittenOut(t, AlignedOut(f)) = AlignedOut(f2)
    BY <1>3, Flush
  <2> DEFINE k == w - 8
  <2>3. k \in 13..20 BY <1>3
  <2>4. /\ EncodedAs(u, low2, bb2, num2, k, f2, X2)
        /\ WriteOut(t) = Registers(low2, u.range, bb2, num2, k)
        /\ WrittenOut(t, AlignedOut(f)) = AlignedOut(f2)
    BY <2>2
  <2> HIDE DEF k
  <2>5. /\ (IF t.bitsLeft < 12 THEN WriteOut(t) ELSE t) = WriteOut(t)
        /\ (IF t.bitsLeft < 12 THEN WrittenOut(t, AlignedOut(f)) ELSE AlignedOut(f)) = WrittenOut(t, AlignedOut(f))
    BY <2>1
  <2> QED BY <2>3, <2>4, <2>5
<1> QED BY <1>2, <1>3

\* The number that ends the substream of s, with a zeros.
EndingOf(s, a) == Padded(((s.low + (s.range - 2)) \div 2) * 2 + 1, a)

\* The end of a slice: the bytes spell a number, the ending, for the last interval.
LEMMA SliceEnded ==
  ASSUME NEW s \in Interval, EncoderAt(enc, out, s), EndOfSlice
  PROVE  /\ \E g : \E a \in 0..7 : /\ out' = AlignedOut(g) /\ 8 * Len(g) = s.n + a
                                  /\ Spells(g, EndingOf(s, a))
         /\ \E k \in 9..20 : \E u \in Interval : \E low, bb, num, f, X :
              EncodedAs(u, low, bb, num, k, f, X) /\ enc' = Registers(low, u.range, bb, num, k)
<1> DEFINE r == s.range - 2
           d == r * 2^7
           u == Scaled(s, r, 2, 7, s.ctx)
           x == Shl(enc.low + r, 7)
           t == Terminated(enc)
<1>1. r \in Nat /\ r + 2 <= s.range /\ 2 * 2^7 = 256 /\ 2 \in Nat /\ 7 \in Nat /\ s.ctx \in ContextModels
      /\ s.low \in Nat /\ s.n \in Nat
  BY IntervalFields, SmallPowers
<1>2. u \in Interval /\ Narrowed(s, u, 7, d)
  <2> DEFINE two == 2
             seven == 7
             ctx == s.ctx
  <2>1. two * 2^seven \in 256..510 /\ two \in Nat /\ seven \in Nat /\ r \in Nat /\ r + two <= s.range
        /\ ctx \in ContextModels
    BY <1>1
  <2> HIDE DEF r, two, seven, ctx
  <2>2. Scaled(s, r, two, seven, ctx) \in Interval
        /\ Narrowed(s, Scaled(s, r, two, seven, ctx), seven, r * 2^seven)
    BY <2>1, ScaledNarrowed
  <2> QED BY <2>2 DEF two, seven, ctx
<1>3. u.range = 256 /\ u.low = (s.low + r) * 128 /\ u.n = s.n + 7 BY <1>1, SmallPowers DEF Scaled
<1>4. PICK low, bb, num, w, f, X :
        /\ w \in 9..20 /\ EncodedAs(s, low, bb, num, w, f, X)
        /\ enc = Registers(low, s.range, bb, num, w) /\ out = AlignedOut(f)
  BY DEF EncoderAt
<1>5. enc.low = low /\ enc.range = s.range /\ enc.bufferedByte = bb /\ enc.numBufferedBytes = num
      /\ enc.bitsLeft = 32 - w /\ low \in Nat /\ w \in 9..20
  BY <1>4, RegisterFields DEF EncodedAs
<1>6. enc = [low |-> enc.low, range |-> enc.range, bufferedByte |-> enc.bufferedByte,
             numBufferedBytes |-> enc.numBufferedBytes, bitsLeft |-> enc.bitsLeft]
  BY EncoderFields
<1>7. x = enc.low * 2^7 + d
  <2> DEFINE l == enc.low
  <2>1. l \in Nat BY <1>5
  <2> HIDE DEF l, r
  <2>2. (l + r) * 128 = l * 128 + r * 128 BY <1>1, <2>1
  <2> QED BY <2>2, SmallPowers DEF Shl, l
<1>8. t = Shifted(enc, x, 256, 7) BY <1>5 DEF Terminated, Shifted
<1>9. d \in Nat
  <2> HIDE DEF r
  <2>1. r * 128 \in Nat BY <1>1
  <2> QED BY <2>1, SmallPowers
<1> DEFINE seven == 7
           l == low * 2^7 + d
           v == w + 7
<1>10. t = Registers(l, 256, bb, num, v)
  <2>1. x = enc.low * 2^seven + d BY <1>7
  <2>2. t = Shifted(enc, x, 256, seven) BY <1>8
  <2> HIDE DEF seven, x, t, d, l
  <2>3. t = Pushed(enc, 256, seven, d) BY <1>6, <2>1, <2>2, RegistersPushed
  <2>4. (32 - w) - 7 = 32 - v /\ seven = 7 BY <1>5 DEF seven
  <2> HIDE DEF v
  <2> QED BY <1>5, <2>3, <2>4 DEF Pushed, Registers, l
<1>11. EncodedAs(u, l, bb, num, v, f, X)
  <2>1. 7 \in 0..8 OBVIOUS
  <2> HIDE DEF u, d, r
  <2> QED BY <1>2, <1>4, <1>9, <2>1, Push
<1>12. v \in 16..28 BY <1>5
<1>13. /\ enc' = IF t.bitsLeft < 12 THEN WriteOut(t) ELSE t
       /\ out' = WriteByteAlignment(FinishEncoder(enc', IF t.bitsLeft < 12 THEN WrittenOut(t, out) ELSE out))
  BY DEF EndOfSlice
<1> HIDE DEF t, u, l, v, d, x, r
<1>14. t = Registers(l, u.range, bb, num, v) BY <1>3, <1>10
<1>15. PICK low2, bb2, num2, f2, X2 : \E k \in 13..20 :
           /\ EncodedAs(u, low2, bb2, num2, k, f2, X2)
           /\ (IF t.bitsLeft < 12 THEN WriteOut(t) ELSE t) = Registers(low2, u.range, bb2, num2, k)
           /\ (IF t.bitsLeft < 12 THEN WrittenOut(t, AlignedOut(f)) ELSE AlignedOut(f)) = AlignedOut(f2)
  BY <1>2, <1>11, <1>12, <1>14, FlushedThen
<1>16. PICK k \in 13..20 :
           /\ EncodedAs(u, low2, bb2, num2, k, f2, X2)
           /\ (IF t.bitsLeft < 12 THEN WriteOut(t) ELSE t) = Registers(low2, u.range, bb2, num2, k)
           /\ (IF t.bitsLeft < 12 THEN WrittenOut(t, AlignedOut(f)) ELSE AlignedOut(f)) = AlignedOut(f2)
  BY <1>15
<1>17. enc' = Registers(low2, u.range, bb2, num2, k)
       /\ out' = WriteByteAlignment(FinishEncoder(Registers(low2, u.range, bb2, num2, k), AlignedOut(f2)))
  BY <1>4, <1>13, <1>16
<1>18. PICK g : \E a \in 0..7 :
           /\ WriteByteAlignment(FinishEncoder(Registers(low2, u.range, bb2, num2, k), AlignedOut(f2))) = AlignedOut(g)
           /\ 8 * Len(g) + 7 = u.n + a
           /\ Spells(g, Padded((u.low \div 256) * 2 + 1, a))
  BY <1>2, <1>16, FinishWrites
<1>19. PICK a \in 0..7 :
           /\ out' = AlignedOut(g)
           /\ 8 * Len(g) + 7 = u.n + a
           /\ Spells(g, Padded((u.low \div 256) * 2 + 1, a))
  BY <1>17, <1>18
<1>20. 8 * Len(g) = s.n + a
  <2> DEFINE y == Len(g)
             sn == s.n
  <2>1. y \in Nat /\ sn \in Nat /\ 8 * y + 7 = sn + 7 + a BY <1>1, <1>3, <1>19 DEF Spells
  <2> HIDE DEF y, sn
  <2>2. 8 * y = sn + a BY <2>1
  <2> QED BY <2>2 DEF y, sn
<1>21. u.low \div 256 = (s.low + r) \div 2
  <2> DEFINE z == s.low + r
  <2>1. z \in Nat BY <1>1
  <2>2. u.low = z * 128 BY <1>3
  <2> HIDE DEF z
  <2>3. (z * 128) \div 256 = z \div 2 BY <2>1
  <2> QED BY <2>2, <2>3 DEF z
<1>22. Spells(g, EndingOf(s, a)) BY <1>19, <1>21 DEF EndingOf, r
<1>23. k \in 9..20 BY <1>16
<1> QED BY <1>2, <1>16, <1>17, <1>19, <1>20, <1>22, <1>23

\* It is a number of the interval.
LEMMA EndingHeld ==
  ASSUME NEW s \in Interval, NEW a \in 0..7
  PROVE  EndingOf(s, a) \in Nat /\ Holds(s.low, s.range, s.n, EndingOf(s, a), s.n + a)
<1> DEFINE low == s.low
           r == s.range
           n == s.n
           p == 2^a
           y == ((low + (r - 2)) \div 2) * 2 + 1
           V == EndingOf(s, a)
<1>1. low \in Nat /\ r \in 256..510 /\ n \in Nat BY IntervalFields
<1>2. p \in Nat \ {0} BY PowPositive
<1>3. V = y * p BY DEF EndingOf, Padded
<1>4. n + a - n = a /\ n <= n + a /\ n + a \in Nat
  <2> HIDE DEF n
  <2> QED BY <1>1
<1> HIDE DEF low, r, n, p, V
<1>5. y \in Nat /\ low <= y /\ y + 1 <= low + r
  <2> DEFINE z == low + (r - 2)
             q == z \div 2
             m == z % 2
  <2>1. z \in Nat BY <1>1
  <2> HIDE DEF z
  <2>2. q \in Nat /\ m \in 0..1 /\ z = 2 * q + m BY <2>1
  <2>3. y = q * 2 + 1 BY DEF z
  <2> HIDE DEF q, m, y
  <2> QED BY <1>1, <2>2, <2>3 DEF z
<1> HIDE DEF y
<1>6. low * p <= y * p /\ (y + 1) * p <= (low + r) * p
  <2>1. low * p <= y * p BY <1>1, <1>2, <1>5
  <2> DEFINE b == low + r
             c == y + 1
  <2>2. b \in Nat /\ c \in Nat /\ c <= b BY <1>1, <1>5
  <2> HIDE DEF b, c
  <2>3. c * p <= b * p BY <1>2, <2>2
  <2> QED BY <2>1, <2>3 DEF b, c
<1>7. y * p < (y + 1) * p /\ y * p \in Nat BY <1>2, <1>5
<1>8. V \in Nat /\ low * p <= V /\ V < (low + r) * p
  <2> DEFINE b == (low + r) * p
             c == (y + 1) * p
             e == y * p
             f == low * p
  <2>1. b \in Nat /\ c \in Nat /\ e \in Nat /\ f \in Nat BY <1>1, <1>2, <1>5
  <2>2. f <= e /\ c <= b /\ e < c /\ V = e BY <1>3, <1>6, <1>7
  <2> HIDE DEF b, c, e, f
  <2>3. V \in Nat /\ f <= V /\ V < b BY <2>1, <2>2
  <2> QED BY <2>3 DEF b, f
<1>9. Holds(low, r, n, V, n + a)
  <2> DEFINE M == n + a
  <2>1. M - n = a /\ n <= M BY <1>1, <1>4
  <2> HIDE DEF M
  <2>2. low * 2^(M - n) <= V /\ V < (low + r) * 2^(M - n) BY <1>8, <2>1 DEF p
  <2> QED BY <2>1, <2>2 DEF Holds, M
<1> QED BY <1>8, <1>9 DEF low, r, n, V

-----------------------------------------------------------------------------
(* The decoder.                                                          *)

-----------------------------------------------------------------------------
(* The register of the decoder.                                          *)

\* The number that the first i of L bytes of V spell.
FrontOf(V, L, i) == Leading(V, 8 * (L - i))

\* What the value register is when the bits of an interval, n, and 7 more are read: a
\* multiple of 2^(8 + bn) because -bn bits are still to come.
Reads(low, n, v, bn, i, V, L) ==
  /\ v \in Nat /\ bn \in -8..-1 /\ i \in 0..L /\ n = 8 * i + 1 + bn
  /\ v + low * 128 = FrontOf(V, L, i) * 2^(8 + bn)

\* The front of a number is a number.
LEMMA FrontType ==
  ASSUME NEW V \in Nat, NEW L \in Nat, NEW i \in 0..L
  PROVE  FrontOf(V, L, i) \in Nat
<1> DEFINE k == 8 * (L - i)
<1>1. k \in Nat OBVIOUS
<1>2. 2^k \in Nat \ {0} BY <1>1, PowPositive
<1> DEFINE p == 2^k
<1>3. p \in Nat \ {0} BY <1>2
<1> HIDE DEF p
<1>4. V \div p \in Nat BY <1>3, DivFacts
<1> QED BY <1>4 DEF FrontOf, Leading, p

\* The next byte is its next digit.
LEMMA FrontNext ==
  ASSUME NEW V \in Nat, NEW L \in Nat, NEW i \in 0..L, i < L, NEW g, Spells(g, V), Len(g) = L
  PROVE  g[i + 1] \in 0..255 /\ FrontOf(V, L, i + 1) = FrontOf(V, L, i) * 256 + g[i + 1]
<1> DEFINE k == 8 * (L - (i + 1))
           k8 == 8 * (L - i)
           byte == g[i + 1]
           P == FrontOf(V, L, i)
<1>1. k \in Nat /\ k8 \in Nat /\ k8 = k + 8 OBVIOUS
<1>2. i + 1 \in 1..Len(g) OBVIOUS
<1>3. byte = Leading(V, k) % 256 BY <1>2 DEF Spells, Leading
<1>4. P = Leading(V, k8) BY DEF FrontOf
<1>6. FrontOf(V, L, i + 1) = Leading(V, k) BY DEF FrontOf
<1> HIDE DEF k, k8, byte, P
<1>7. Leading(V, k) % 256 \in 0..255
      /\ Leading(V, k) = Leading(V, k8) * 256 + (Leading(V, k) % 256)
  <2>1. Leading(V, k) = Leading(V, k8) * 256 + (Leading(V, k) % 256) BY <1>1, ByteJoins
  <2>2. Leading(V, k) \in Nat
    <3>1. i + 1 \in 0..L OBVIOUS
    <3> QED BY <1>6, <3>1, FrontType
  <2> DEFINE x == Leading(V, k)
  <2>3. x \in Nat BY <2>2
  <2> HIDE DEF x
  <2>4. x % 256 \in 0..255 BY <2>3
  <2> QED BY <2>1, <2>4 DEF x
<1>8. byte \in 0..255 /\ Leading(V, k) = P * 256 + byte BY <1>3, <1>4, <1>7
<1> QED BY <1>6, <1>8 DEF byte, P

\* Bits join the register, and a byte when eight are due.
LEMMA ReadsScaled ==
  ASSUME NEW low \in Nat, NEW n \in Nat, NEW v, NEW bn, NEW i, NEW V \in Nat, NEW L \in Nat,
         Reads(low, n, v, bn, i, V, L), NEW m \in 0..8, NEW b, b = bn + m, b < 0
  PROVE  Reads(low * 2^m, n + m, v * 2^m, b, i, V, L)
<1> DEFINE q == 2^m
           P == FrontOf(V, L, i)
           c == 2^(8 + bn)
<1>1. v \in Nat /\ bn \in -8..-1 /\ i \in 0..L /\ n = 8 * i + 1 + bn /\ v + low * 128 = P * c BY DEF Reads
<1>2. q \in Nat \ {0} BY PowPositive
<1>3. 8 + bn \in Nat /\ 8 + b = (8 + bn) + m /\ b \in -8..-1 /\ n + m = 8 * i + 1 + b BY <1>1
<1>4. P \in Nat BY <1>1, FrontType
<1>5. c \in Nat /\ 2^(8 + b) = c * q
  <2> DEFINE k == 8 + bn
  <2>4. k \in Nat /\ m \in Nat BY <1>3
  <2> HIDE DEF k
  <2>5. 2^(k + m) = 2^k * 2^m BY <2>4, PowSum
  <2>1. 2^((8 + bn) + m) = 2^(8 + bn) * 2^m BY <2>5 DEF k
  <2> QED BY <1>3, <2>1, PowType
<1> HIDE DEF q, P, c
<1>6. v * q + (low * q) * 128 = (v + low * 128) * q /\ v * q \in Nat BY <1>1, <1>2
<1>7. (P * c) * q = P * (c * q) BY <1>2, <1>4, <1>5
<1>8. v * q + (low * q) * 128 = P * 2^(8 + b) BY <1>1, <1>5, <1>6, <1>7
<1> QED BY <1>1, <1>3, <1>6, <1>8 DEF Reads, q, P

ByteAt(g, i) == g[i + 1]
Refreshed(v, m, byte, b) == v * 2^m + byte * 2^b

\* A refill with m more bits.
LEMMA ReadsByte ==
  ASSUME NEW low \in Nat, NEW n \in Nat, NEW v, NEW bn, NEW i, NEW V \in Nat, NEW L \in Nat,
         Reads(low, n, v, bn, i, V, L), NEW m \in 0..8, NEW b, b = bn + m, ~(b < 0), n + m <= 8 * L,
         NEW g, Spells(g, V), Len(g) = L
  PROVE  Reads(low * 2^m, n + m, Refreshed(v, m, ByteAt(g, i), b), b - 8, i + 1, V, L)
<1> DEFINE q == 2^m
           P == FrontOf(V, L, i)
           c == 2^(8 + bn)
           e == 2^b
           byte == g[i + 1]
<1>1. v \in Nat /\ bn \in -8..-1 /\ i \in 0..L /\ n = 8 * i + 1 + bn /\ v + low * 128 = P * c BY DEF Reads
<1>2. q \in Nat \ {0} BY PowPositive
<1>3. 8 + bn \in Nat /\ 8 + b = (8 + bn) + m /\ b - 8 \in -8..-1 /\ n + m = 8 * (i + 1) + 1 + (b - 8) /\ b \in Nat
      /\ 8 + (b - 8) = b
  BY <1>1
<1>4. i < L /\ i + 1 \in 0..L BY <1>1, <1>3
<1>5. P \in Nat BY <1>1, FrontType
<1>6. byte \in 0..255 /\ FrontOf(V, L, i + 1) = P * 256 + byte BY <1>1, <1>4, FrontNext
<1>7. c \in Nat /\ e \in Nat /\ c * q = 256 * e
  <2> DEFINE k == 8 + bn
  <2>4. k \in Nat /\ m \in Nat BY <1>3
  <2> HIDE DEF k
  <2>5. 2^(k + m) = 2^k * 2^m BY <2>4, PowSum
  <2>1. 2^((8 + bn) + m) = 2^(8 + bn) * 2^m BY <2>5 DEF k
  <2>2. 2^(8 + b) = 2^8 * 2^b BY <1>3, PowSum
  <2>3. c * q = 2^(8 + b) BY <1>3, <2>1
  <2> QED BY <1>3, <2>2, <2>3, PowType, SmallPowers
<1> HIDE DEF q, P, c, e, byte
<1>8. v * q + (low * q) * 128 = (v + low * 128) * q /\ v * q \in Nat /\ byte * e \in Nat BY <1>1, <1>2, <1>6, <1>7
<1>9. (P * c) * q = P * (c * q) /\ P * (256 * e) + byte * e = (P * 256 + byte) * e BY <1>2, <1>5, <1>6, <1>7
<1>10. (v * q + byte * e) + (low * q) * 128 = (P * 256 + byte) * e
  <2> DEFINE A == v * q
             B == (low * q) * 128
             C == byte * e
             D == (P * 256 + byte) * e
             E == P * (256 * e)
  <2>1. A \in Nat /\ B \in Nat /\ C \in Nat /\ D \in Nat /\ E \in Nat BY <1>1, <1>2, <1>5, <1>6, <1>7
  <2>2. A + B = E /\ E + C = D BY <1>1, <1>7, <1>8, <1>9
  <2> HIDE DEF A, B, C, D, E
  <2>3. (A + C) + B = D BY <2>1, <2>2
  <2> QED BY <2>3 DEF A, B, C, D
<1> DEFINE w == v * q + byte * e
<1>11. w \in Nat
  <2> DEFINE A == v * q
             C == byte * e
  <2>1. A \in Nat /\ C \in Nat BY <1>8
  <2> HIDE DEF A, C
  <2>2. A + C \in Nat BY <2>1
  <2> QED BY <2>2 DEF A, C
<1>12. w + (low * q) * 128 = FrontOf(V, L, i + 1) * 2^(8 + (b - 8)) BY <1>3, <1>6, <1>10 DEF e
<1> HIDE DEF w
<1>13. Reads(low * q, n + m, w, b - 8, i + 1, V, L) BY <1>3, <1>4, <1>11, <1>12 DEF Reads
<1> QED BY <1>13 DEF w, q, e, byte, Refreshed, ByteAt

\* The part that begins at d.
LEMMA ReadsPart ==
  ASSUME NEW low \in Nat, NEW n \in Nat, NEW v, NEW bn, NEW i, NEW V \in Nat, NEW L \in Nat,
         Reads(low, n, v, bn, i, V, L), NEW d \in Nat, d * 128 <= v
  PROVE  Reads(low + d, n, v - d * 128, bn, i, V, L)
<1> DEFINE y == FrontOf(V, L, i) * 2^(8 + bn)
<1>1. v \in Nat /\ v + low * 128 = y BY DEF Reads
<1> HIDE DEF y
<1>2. v - d * 128 \in Nat /\ (v - d * 128) + (low + d) * 128 = y BY <1>1
<1> QED BY <1>2 DEF Reads, y

\* The register tells in which part the number is.
LEMMA ReadsBetween ==
  ASSUME NEW low \in Nat, NEW n \in Nat, NEW v, NEW bn, NEW i, NEW V \in Nat, NEW L \in Nat,
         Reads(low, n, v, bn, i, V, L), NEW d \in Nat, NEW r \in Nat, Holds(low + d, r, n, V, 8 * L)
  PROVE  d * 128 <= v /\ v < (d + r) * 128
<1> DEFINE P == FrontOf(V, L, i)
           j == 8 + bn
           l == low + d
           M == 8 * L
           k == 8 * (L - i)
           y == P * 2^j
<1>1. v \in Nat /\ bn \in -8..-1 /\ i \in 0..L /\ n = 8 * i + 1 + bn /\ v + low * 128 = y BY DEF Reads
<1>2. j \in 0..7 /\ l \in Nat /\ M \in Nat /\ k \in 0..M /\ (M - k) + j = n + 7
  BY <1>1
<1>3. P \in Nat /\ Register(V, k, j) = P * 2^j BY <1>1, FrontType DEF FrontOf, Register
<1> HIDE DEF P, j, l, M, k
<1>4. Holds(l, r, n, V, M) BY DEF l, M
<1>5. l * 128 <= P * 2^j /\ P * 2^j < (l + r) * 128
  <2>1. l * 128 <= Register(V, k, j) /\ Register(V, k, j) < (l + r) * 128 BY <1>2, <1>4, ValueInside
  <2> QED BY <1>3, <2>1
<1>6. y \in Nat /\ l * 128 <= y /\ y < (l + r) * 128
  <2>1. 2^j \in Nat BY <1>2, PowType
  <2> DEFINE p == 2^j
  <2>2. p \in Nat BY <2>1
  <2> HIDE DEF p
  <2>3. P * p \in Nat BY <1>3, <2>2
  <2> QED BY <1>5, <2>3 DEF p
<1> HIDE DEF y
<1> QED BY <1>1, <1>6 DEF l

\* A stream of which i bytes are read, and the decoder's registers.
InAt(g, i) == [InputOf(g) EXCEPT !.fifoIdx = i]
DecRegs(v, r, bn) == [value |-> v, range |-> r, bitsNeeded |-> bn]

\* The decoder has read as far as the interval s.
DecoderAt(d, b, s, g, V) ==
  \E v, bn, i : /\ Reads(s.low, s.n, v, bn, i, V, Len(g))
                /\ d = DecRegs(v, s.range, bn) /\ b = InAt(g, i)

\* The decoder's registers.
LEMMA DecRegsFields ==
  ASSUME NEW v, NEW r, NEW bn
  PROVE  DecRegs(v, r, bn).value = v /\ DecRegs(v, r, bn).range = r /\ DecRegs(v, r, bn).bitsNeeded = bn
  BY DEF DecRegs

\* The stream after reading.
LEMMA InAtMoved ==
  ASSUME NEW g, NEW i, NEW j
  PROVE  /\ [InAt(g, i) EXCEPT !.fifoIdx = j] = InAt(g, j) /\ InputOf(g) = InAt(g, 0)
         /\ InAt(g, i).fifo = g /\ InAt(g, i).fifoIdx = i
<1>1. [InAt(g, i) EXCEPT !.fifoIdx = j] = InAt(g, j)
  <2> DEFINE X == InputOf(g)
  <2>1. InAt(g, i) = [X EXCEPT !.fifoIdx = i] /\ InAt(g, j) = [X EXCEPT !.fifoIdx = j] BY DEF InAt
  <2> HIDE DEF X
  <2> QED BY <2>1
<1>2. InputOf(g) = InAt(g, 0)
  <2> DEFINE z == 0
             t == TRUE
             X == [fifo |-> g, fifoIdx |-> z, heldBits |-> z, numHeldBits |-> z, ok |-> t]
  <2>1. InputOf(g) = X BY DEF InputOf
  <2>2. InAt(g, z) = [X EXCEPT !.fifoIdx = z] BY <2>1 DEF InAt
  <2> HIDE DEF z, t
  <2>3. [X EXCEPT !.fifoIdx = z] = X OBVIOUS
  <2>4. InAt(g, z) = X BY <2>2, <2>3
  <2> HIDE DEF X
  <2> QED BY <2>1, <2>4 DEF z
<1>3. InAt(g, i).fifo = g /\ InAt(g, i).fifoIdx = i BY DEF InAt, InputOf
<1> QED BY <1>1, <1>2, <1>3

\* readByte before the end takes the next byte.
LEMMA ByteRead ==
  ASSUME NEW g \in Seq(Byte), NEW i \in Nat, i < Len(g)
  PROVE  ReadByte(InAt(g, i)).value = g[i + 1] /\ ReadByte(InAt(g, i)).bs = InAt(g, i + 1)
<1>1. Len(g) \in Nat OBVIOUS
<1>2. ~(i >= Len(g)) BY <1>1
<1>3. InAt(g, i).fifo = g /\ InAt(g, i).fifoIdx = i BY InAtMoved
<1>4. ReadByte(InAt(g, i)) = [value |-> g[i + 1], bs |-> [InAt(g, i) EXCEPT !.fifoIdx = i + 1]]
  BY <1>2, <1>3 DEF ReadByte
<1> DEFINE j == i + 1
<1>5. [InAt(g, i) EXCEPT !.fifoIdx = j] = InAt(g, j)
  <2> HIDE DEF j
  <2> QED BY InAtMoved
<1> QED BY <1>4, <1>5

ShiftedRegs(v, m, r, bn) == DecRegs(v * 2^m, r, bn + m)

\* The common refill reads on until m more bits are in the register.
Fits(n, m, g) == n + m <= 8 * Len(g)
Arrived(low, n, m, r, g, V) ==
  \E v, bn, i : /\ Reads(low * 2^m, n + m, v, bn, i, V, Len(g))
                /\ dec' = DecRegs(v, r, bn) /\ in' = InAt(g, i)

\* The common refill of the decoding functions.
LEMMA RefilledArrives ==
  ASSUME NEW low \in Nat, NEW n \in Nat, NEW v, NEW bn, NEW i, NEW V \in Nat, NEW g, NEW m, NEW r,
         m \in 0..8, Spells(g, V), Reads(low, n, v, bn, i, V, Len(g)), Fits(n, m, g), in = InAt(g, i),
         Refilled(ShiftedRegs(v, m, r, bn))
  PROVE  Arrived(low, n, m, r, g, V)
<1> DEFINE d == ShiftedRegs(v, m, r, bn)
<1>a. d = ShiftedRegs(v, m, r, bn) /\ Refilled(d) /\ n + m <= 8 * Len(g) BY DEF Fits
<1> HIDE DEF d
<1> DEFINE b == bn + m
           x == v * 2^m
           L == Len(g)
           y == low * 2^m
           k == n + m
<1>1. g \in Seq(Byte) /\ L \in Nat BY DEF Spells
<1>0. d = DecRegs(x, r, b) BY <1>a DEF ShiftedRegs
<1>2. d.bitsNeeded = b /\ d.value = x BY <1>0, DecRegsFields
<1>3. v \in Nat /\ bn \in -8..-1 /\ i \in 0..L BY DEF Reads
<1>4. CASE b < 0
  <2>1. Reads(y, k, x, b, i, V, L) BY <1>1, <1>4, ReadsScaled
  <2>2. ~(d.bitsNeeded >= 0) BY <1>2, <1>3, <1>4
  <2>3. dec' = d /\ in' = in BY <1>a, <2>2 DEF Refilled
  <2>4. d = DecRegs(x, r, b) BY <1>0
  <2> HIDE DEF x, b, L, y, k
  <2>5. \E v2, b2, i2 : /\ Reads(y, k, v2, b2, i2, V, L)
                         /\ dec' = DecRegs(v2, r, b2) /\ in' = InAt(g, i2)
    BY <2>1, <2>3, <2>4
  <2> QED BY <2>5 DEF y, k, L, Arrived
<1>5. CASE ~(b < 0)
  <2> DEFINE byte == g[i + 1]
             z == x + byte * 2^b
             c == b - 8
             j == i + 1
  <2>0. i < L BY <1>1, <1>3, <1>5, <1>a DEF Reads
  <2>1. Reads(y, k, z, c, j, V, L)
    <3>1. b = bn + m /\ k <= 8 * L BY <1>a
    <3> HIDE DEF b
    <3>2. Reads(low * 2^m, n + m, Refreshed(v, m, ByteAt(g, i), b), b - 8, i + 1, V, L)
      BY <1>1, <1>5, <3>1, ReadsByte
    <3> QED BY <3>2 DEF Refreshed, ByteAt
  <2>2. d.bitsNeeded >= 0 BY <1>2, <1>3, <1>5
  <2>3. ReadByte(in).value = byte /\ ReadByte(in).bs = InAt(g, j)
    <3>1. i \in Nat BY <1>3
    <3> QED BY <1>1, <2>0, <3>1, ByteRead
  <2>4. dec' = [d EXCEPT !.value = @ + byte * 2^b, !.bitsNeeded = @ - 8] /\ in' = InAt(g, j)
    BY <1>a, <1>2, <2>2, <2>3 DEF Refilled, Shl
  <2>5. dec' = [d EXCEPT !.value = z, !.bitsNeeded = c] BY <1>2, <2>4
  <2> HIDE DEF z, c, j, x, b, L, y, k
  <2>6. d = DecRegs(x, r, b) BY <1>0 DEF x, b
  <2>7. [d EXCEPT !.value = z] = DecRegs(z, r, b) BY <2>6 DEF DecRegs
  <2>8. [DecRegs(z, r, b) EXCEPT !.bitsNeeded = c] = DecRegs(z, r, c) BY DEF DecRegs
  <2>9. [d EXCEPT !.value = z, !.bitsNeeded = c] = [[d EXCEPT !.value = z] EXCEPT !.bitsNeeded = c] OBVIOUS
  <2>10. dec' = DecRegs(z, r, c) BY <2>5, <2>7, <2>8, <2>9
  <2>11. \E v2, b2, i2 : /\ Reads(y, k, v2, b2, i2, V, L)
                         /\ dec' = DecRegs(v2, r, b2) /\ in' = InAt(g, i2)
    BY <2>1, <2>4, <2>10
  <2> QED BY <2>11 DEF y, k, L, Arrived
<1> QED BY <1>4, <1>5

\* The decoder starts where the encoder did.
LEMMA DecoderStarted ==
  ASSUME NEW g, NEW V, Spells(g, V), out = AlignedOut(g), 2 <= Len(g), StartDecoder
  PROVE  DecoderAt(dec', in', Start, g, V)
<1> DEFINE L == Len(g)
           b1 == g[1]
           b2 == g[2]
           x == b1 * 256 + b2
<1>1. g \in Seq(Byte) /\ L \in Nat /\ V \in Nat /\ V < 2^(8 * L) BY DEF Spells
<1>2. InputOf(out.fifo) = InAt(g, 0)
  <2>1. out.fifo = g BY DEF AlignedOut
  <2> QED BY <2>1, InAtMoved
<1>3. ReadByte(InAt(g, 0)).value = b1 /\ ReadByte(InAt(g, 0)).bs = InAt(g, 1)
  <2>1. 0 \in Nat /\ 0 < L /\ 0 + 1 = 1 BY <1>1
  <2> DEFINE z == 0
  <2>2. z \in Nat /\ z < L /\ z + 1 = 1 BY <2>1
  <2> HIDE DEF z
  <2>3. ReadByte(InAt(g, z)).value = g[z + 1] /\ ReadByte(InAt(g, z)).bs = InAt(g, z + 1)
    BY <1>1, <2>2, ByteRead
  <2>4. ReadByte(InAt(g, z)).value = b1 /\ ReadByte(InAt(g, z)).bs = InAt(g, 1) BY <2>2, <2>3
  <2> QED BY <2>4 DEF z
<1>4. ReadByte(InAt(g, 1)).value = b2 /\ ReadByte(InAt(g, 1)).bs = InAt(g, 2)
  <2> DEFINE z == 1
  <2>2. z \in Nat /\ z < L /\ z + 1 = 2 BY <1>1
  <2> HIDE DEF z
  <2>3. ReadByte(InAt(g, z)).value = g[z + 1] /\ ReadByte(InAt(g, z)).bs = InAt(g, z + 1)
    BY <1>1, <2>2, ByteRead
  <2>4. ReadByte(InAt(g, z)).value = b2 /\ ReadByte(InAt(g, z)).bs = InAt(g, 2) BY <2>2, <2>3
  <2> QED BY <2>4 DEF z
<1>5. dec' = DecRegs(x, 510, -8) /\ in' = InAt(g, 2)
  <2>1. /\ dec' = [range |-> 510, value |-> Shl(b1, 8) + b2, bitsNeeded |-> -8]
        /\ in' = InAt(g, 2)
    BY <1>2, <1>3, <1>4 DEF StartDecoder
  <2>2. Shl(b1, 8) = b1 * 256 BY SmallPowers DEF Shl
  <2> QED BY <2>1, <2>2 DEF DecRegs
<1>6. b1 \in 0..255 /\ b2 \in 0..255 /\ FrontOf(V, L, 2) = x
  <2>1. FrontOf(V, L, 0) = 0
    <3> DEFINE k == 8 * L
               p == 2^k
    <3>1. p \in Nat \ {0}
      <4>1. k \in Nat BY <1>1
      <4> QED BY <4>1, PowPositive
    <3>2. 8 * (L - 0) = k BY <1>1
    <3>3. V < p BY <1>1
    <3>4. FrontOf(V, L, 0) = V \div p BY <3>2 DEF FrontOf, Leading
    <3> HIDE DEF p
    <3>5. V = p * 0 + V /\ V \in 0 .. p - 1 /\ 0 \in Nat BY <1>1, <3>1, <3>3
    <3>6. V \div p = 0 BY <1>1, <3>1, <3>5, DivUnique
    <3> QED BY <3>4, <3>6
  <2>2. b1 \in 0..255 /\ FrontOf(V, L, 1) = FrontOf(V, L, 0) * 256 + b1
    <3> DEFINE z == 0
    <3>1. z \in 0..L /\ z < L /\ z + 1 = 1 BY <1>1
    <3> HIDE DEF z
    <3>2. g[z + 1] \in 0..255 /\ FrontOf(V, L, z + 1) = FrontOf(V, L, z) * 256 + g[z + 1]
      BY <1>1, <3>1, FrontNext
    <3>3. b1 \in 0..255 /\ FrontOf(V, L, 1) = FrontOf(V, L, z) * 256 + b1 BY <3>1, <3>2
    <3> QED BY <3>3 DEF z
  <2>3. b2 \in 0..255 /\ FrontOf(V, L, 2) = FrontOf(V, L, 1) * 256 + b2
    <3> DEFINE z == 1
    <3>1. z \in 0..L /\ z < L /\ z + 1 = 2 BY <1>1
    <3> HIDE DEF z
    <3>2. g[z + 1] \in 0..255 /\ FrontOf(V, L, z + 1) = FrontOf(V, L, z) * 256 + g[z + 1]
      BY <1>1, <3>1, FrontNext
    <3>3. b2 \in 0..255 /\ FrontOf(V, L, 2) = FrontOf(V, L, z) * 256 + b2 BY <3>1, <3>2
    <3> QED BY <3>3 DEF z
  <2> HIDE DEF b1, b2
  <2>4. FrontOf(V, L, 1) = b1 BY <2>1, <2>2
  <2> QED BY <2>2, <2>3, <2>4
<1> HIDE DEF b1, b2
<1>7. x \in Nat BY <1>6
<1> HIDE DEF x
<1>8. Reads(0, 9, x, -8, 2, V, L)
  <2>1. 2^(8 + (-8)) = 1
    <3>1. 8 + (-8) = 0 OBVIOUS
    <3> QED BY <3>1, SmallPowers
  <2>2. x + 0 * 128 = x * 1 BY <1>7
  <2>3. x + 0 * 128 = FrontOf(V, L, 2) * 2^(8 + (-8)) BY <1>6, <2>1, <2>2
  <2>4. 9 = 8 * 2 + 1 + (-8) /\ -8 \in -8..-1 /\ 2 \in 0..L BY <1>1
  <2> QED BY <1>7, <2>3, <2>4 DEF Reads
<1>9. Start.low = 0 /\ Start.n = 9 /\ Start.range = 510 BY DEF Start
<1> QED BY <1>5, <1>8, <1>9 DEF DecoderAt

-----------------------------------------------------------------------------
(* Calls of one bin.                                                     *)

\* The answer that is right leaves the call as it is.
LEMMA RightAnswer ==
  ASSUME NEW op \in Ops
  PROVE  /\ op.kind \in {"ctx", "ep", "trm"} => [op EXCEPT !.bin = op.bin] = op
         /\ op.kind = "eps" => [op EXCEPT !.bins = op.bins] = op
         /\ op.kind = "rem" => [op EXCEPT !.value = op.value] = op
<1>1. IsOp(op) BY CabacAssumption
<1>2. ASSUME op.kind \in {"ctx", "ep", "trm"} PROVE [op EXCEPT !.bin = op.bin] = op
  BY <1>1, <1>2 DEF IsOp
<1>3. ASSUME op.kind = "eps" PROVE [op EXCEPT !.bins = op.bins] = op
  BY <1>1, <1>3 DEF IsOp
<1>4. ASSUME op.kind = "rem" PROVE [op EXCEPT !.value = op.value] = op
  BY <1>1, <1>4 DEF IsOp
<1> QED BY <1>2, <1>3, <1>4

\* A part that holds the number lies within the substream.
LEMMA HoldsFits ==
  ASSUME NEW low, NEW r, NEW n, NEW V, NEW M, Holds(low, r, n, V, M)
  PROVE  n <= M
  BY DEF Holds

HoldsOf(t, g, V) == Holds(t.low, t.range, t.n, V, 8 * Len(g))
ReadsAt(s, v, bn, i, g, V) == Reads(s.low, s.n, v, bn, i, V, Len(g)) /\ in = InAt(g, i)

\* The decoder takes the part of the interval that the number is in.
Taken(v, bn, d, r, m, t, g, V) ==
  /\ d * 128 <= v /\ v < (d + r) * 128 /\ v \in Nat
  /\ Refilled(ShiftedRegs(v - d * 128, m, t.range, bn)) => DecoderAt(dec', in', t, g, V)

\* A value that the narrowed interval holds lies in its part of the range, and stays in step.
LEMMA PartTaken ==
  ASSUME NEW s, NEW V, NEW g, NEW v, NEW bn, NEW i, NEW d, NEW r, NEW m, NEW ctx, NEW t,
         s \in Interval, V \in Nat, Spells(g, V), ReadsAt(s, v, bn, i, g, V),
         d \in Nat, r \in Nat, m \in 0..8, t = Scaled(s, d, r, m, ctx), HoldsOf(t, g, V)
  PROVE  Taken(v, bn, d, r, m, t, g, V)
<1> DEFINE low == s.low
           n == s.n
           L == Len(g)
           l == low + d
           M == 8 * L
           w == v - d * 128
<1>1. low \in Nat /\ n \in Nat BY IntervalFields
<1>2. L \in Nat /\ M \in Nat BY DEF Spells
<1>3. t.low = l * 2^m /\ t.range = r * 2^m /\ t.n = n + m BY DEF Scaled
<1>0. Reads(s.low, s.n, v, bn, i, V, Len(g)) /\ in = InAt(g, i) BY DEF ReadsAt
<1>4. v \in Nat BY <1>0 DEF Reads
<1>5. Holds(l * 2^m, r * 2^m, n + m, V, M) BY <1>3 DEF HoldsOf
<1>6. n + m <= M BY <1>5, HoldsFits
<1>7. l \in Nat BY <1>1
<1>8. Reads(low, n, v, bn, i, V, L) BY <1>0
<1> HIDE DEF low, n, L, M
<1>9. Holds(l, r, n, V, M)
  <2> HIDE DEF l
  <2>1. m \in Nat OBVIOUS
  <2> QED BY <1>1, <1>2, <1>5, <1>7, <2>1, HoldsScaled
<1>10. d * 128 <= v /\ v < (d + r) * 128
  <2>1. Holds(low + d, r, n, V, 8 * L) BY <1>9 DEF M
  <2> QED BY <1>1, <1>2, <1>8, <2>1, ReadsBetween
<1>11. Reads(l, n, w, bn, i, V, L) BY <1>1, <1>2, <1>8, <1>10, ReadsPart
<1> DEFINE q == t.range
<1>12. ASSUME Refilled(ShiftedRegs(w, m, q, bn)) PROVE DecoderAt(dec', in', t, g, V)
  <2>1. Fits(n, m, g) BY <1>6 DEF Fits, M, L
  <2>2. Reads(l, n, w, bn, i, V, Len(g)) BY <1>11 DEF L
  <2>3. m \in 0..8 OBVIOUS
  <2> HIDE DEF l, w, q
  <2>4. Arrived(l, n, m, q, g, V) BY <1>1, <1>0, <1>7, <1>12, <2>1, <2>2, <2>3, RefilledArrives
  <2> QED BY <1>3, <2>4 DEF DecoderAt, Arrived, q
<1> QED BY <1>4, <1>10, <1>12 DEF Taken

\* Where the decoder is, with the models of its contexts.
DecodedUpTo(s, g, V) == DecoderAt(dec, in, s, g, V) /\ decCtx = s.ctx

\* The call op, which left t, is answered.
AnsweredWith(op, t, g, V) ==
  /\ DecoderAt(dec', in', t, g, V) /\ decCtx' = t.ctx
  /\ decoded' = Append(decoded, op) /\ part' = part

\* decodeBin of the less probable symbol ...
LEMMA LpsTaken ==
  ASSUME NEW s \in Interval, NEW V \in Nat, NEW g, Spells(g, V), DecodedUpTo(s, g, V),
         NEW op \in Ops, Wanted = op, op.kind = "ctx", NEW t \in Interval, t = AfterBin(s, op), HoldsOf(t, g, V),
         op.bin # Mps(s.ctx[op.ctx]), DecodeBin
  PROVE  AnsweredWith(op, t, g, V)
<1> DEFINE c == op.ctx
           m == s.ctx[c]
           lps == LpsRange(m, s.range)
           range == s.range - lps
           b == RenormBitsLPS(lps)
           ctx == [s.ctx EXCEPT ![c] = Update(@, op.bin)]
<1>1. PICK v, bn, i : dec = DecRegs(v, s.range, bn) /\ ReadsAt(s, v, bn, i, g, V)
  BY DEF DecodedUpTo, DecoderAt, ReadsAt
<1>2. decCtx = s.ctx /\ dec.value = v /\ dec.range = s.range /\ dec.bitsNeeded = bn
  BY <1>1, DecRegsFields DEF DecodedUpTo
<1>3. c \in DOMAIN Contexts0 /\ op.bin \in {0, 1} BY OpFields
<1>4. /\ op.ctx = c /\ m = s.ctx[c] /\ lps = LpsRange(m, s.range) /\ range = s.range - lps
      /\ ctx = [s.ctx EXCEPT ![c] = Update(@, op.bin)]
  OBVIOUS
<1>5. /\ Mps(m) \in {0, 1} /\ lps \in 4..236 /\ range \in 128..506 /\ t = Scaled(s, range, lps, b, ctx)
      /\ b \in 1..6
  <2> DEFINE bin == op.bin
  <2>1. bin \in {0, 1} /\ op.bin = bin /\ ctx = [s.ctx EXCEPT ![c] = Update(@, bin)] /\ bin # Mps(m) BY <1>3
  <2> HIDE DEF c, m, lps, range, ctx, bin
  <2> QED BY <1>3, <1>4, <2>1, AfterBinNarrowed DEF b
<1> HIDE DEF c, lps, range, ctx, b
<1>6. range \in Nat /\ lps \in Nat /\ b \in 0..8 BY <1>5
<1>7. /\ range * 128 <= v /\ v \in Nat
      /\ Refilled(ShiftedRegs(v - range * 128, b, t.range, bn)) => DecoderAt(dec', in', t, g, V)
  <2>1. Taken(v, bn, range, lps, b, t, g, V) BY <1>1, <1>5, <1>6, PartTaken
  <2> QED BY <2>1 DEF Taken
<1>8. ~(v < Shl(range, 7))
  <2>1. range * 2^7 = range * 128 BY SmallPowers
  <2>2. ~(v < range * 128) BY <1>6, <1>7
  <2> QED BY <2>1, <2>2 DEF Shl
<1>9. ~(dec.value < Shl(dec.range - LpsRange(decCtx[Wanted.ctx], dec.range), 7))
  BY <1>2, <1>4, <1>8
<1>10. /\ Refilled([range |-> Shl(lps, b), value |-> Shl(v - Shl(range, 7), b), bitsNeeded |-> bn + b])
       /\ decCtx' = [decCtx EXCEPT ![c] = Update(@, 1 - Mps(m))]
       /\ Answer([op EXCEPT !.bin = 1 - Mps(m)]) /\ UNCHANGED part
  BY <1>2, <1>4, <1>9 DEF DecodeBin, b
<1>11. 1 - Mps(m) = op.bin BY <1>3, <1>4, <1>5
<1>12. [range |-> Shl(lps, b), value |-> Shl(v - Shl(range, 7), b), bitsNeeded |-> bn + b]
         = ShiftedRegs(v - range * 128, b, t.range, bn)
  <2>1. Shl(range, 7) = range * 128 BY SmallPowers DEF Shl
  <2>2. t.range = lps * 2^b BY <1>5 DEF Scaled
  <2> QED BY <2>1, <2>2 DEF Shl, ShiftedRegs, DecRegs
<1>13. DecoderAt(dec', in', t, g, V) BY <1>7, <1>10, <1>12
<1>14. decCtx' = t.ctx
  <2>1. t.ctx = ctx BY <1>5 DEF Scaled
  <2> QED BY <1>2, <1>10, <1>11, <2>1 DEF ctx
<1>15. decoded' = Append(decoded, op) BY <1>10, <1>11, RightAnswer DEF Answer
<1> QED BY <1>10, <1>13, <1>14, <1>15 DEF AnsweredWith

\* ... and of the more probable one.
LEMMA MpsTaken ==
  ASSUME NEW s \in Interval, NEW V \in Nat, NEW g, Spells(g, V), DecodedUpTo(s, g, V),
         NEW op \in Ops, Wanted = op, op.kind = "ctx", NEW t \in Interval, t = AfterBin(s, op), HoldsOf(t, g, V),
         op.bin = Mps(s.ctx[op.ctx]), DecodeBin
  PROVE  AnsweredWith(op, t, g, V)
<1> DEFINE c == op.ctx
           m == s.ctx[c]
           lps == LpsRange(m, s.range)
           range == s.range - lps
           b == IF range < 256 THEN 1 ELSE 0
           ctx == [s.ctx EXCEPT ![c] = Update(@, op.bin)]
<1>1. PICK v, bn, i : dec = DecRegs(v, s.range, bn) /\ ReadsAt(s, v, bn, i, g, V)
  BY DEF DecodedUpTo, DecoderAt, ReadsAt
<1>2. decCtx = s.ctx /\ dec.value = v /\ dec.range = s.range /\ dec.bitsNeeded = bn
  BY <1>1, DecRegsFields DEF DecodedUpTo
<1>3. c \in DOMAIN Contexts0 /\ op.bin \in {0, 1} BY OpFields
<1>4. /\ op.ctx = c /\ m = s.ctx[c] /\ lps = LpsRange(m, s.range) /\ range = s.range - lps
      /\ ctx = [s.ctx EXCEPT ![c] = Update(@, op.bin)]
  OBVIOUS
<1>5. /\ Mps(m) \in {0, 1} /\ lps \in 4..236 /\ range \in 128..506
      /\ t = Scaled(s, 0, range, b, ctx)
  <2> DEFINE bin == op.bin
  <2>1. bin \in {0, 1} /\ op.bin = bin /\ ctx = [s.ctx EXCEPT ![c] = Update(@, bin)] /\ bin = Mps(m) BY <1>3
  <2> HIDE DEF c, m, lps, range, ctx, bin
  <2> QED BY <1>3, <1>4, <2>1, AfterBinNarrowed DEF b
<1> HIDE DEF c, lps, range, ctx
<1>6. range \in Nat /\ b \in 0..8 BY <1>5
<1> DEFINE z == 0
<1>7. /\ v < (z + range) * 128 /\ v \in Nat
      /\ Refilled(ShiftedRegs(v - z * 128, b, t.range, bn)) => DecoderAt(dec', in', t, g, V)
  <2>1. z \in Nat /\ t = Scaled(s, z, range, b, ctx) BY <1>5
  <2> HIDE DEF z, b
  <2>2. Taken(v, bn, z, range, b, t, g, V) BY <1>1, <1>6, <2>1, PartTaken
  <2> QED BY <2>2 DEF Taken
<1>a. v < range * 128 /\ v - z * 128 = v BY <1>6, <1>7
<1>8. v < Shl(range, 7)
  <2>1. range * 2^7 = range * 128 BY SmallPowers
  <2> QED BY <1>a, <2>1 DEF Shl
<1>9. dec.value < Shl(dec.range - LpsRange(decCtx[Wanted.ctx], dec.range), 7)
  BY <1>2, <1>4, <1>8
<1>10. /\ Refilled([range |-> Shl(range, b), value |-> Shl(v, b), bitsNeeded |-> bn + b])
       /\ decCtx' = [decCtx EXCEPT ![c] = Update(@, Mps(m))]
       /\ Answer([op EXCEPT !.bin = Mps(m)]) /\ UNCHANGED part
  BY <1>2, <1>4, <1>9 DEF DecodeBin
<1>11. Mps(m) = op.bin BY <1>4
<1>12. [range |-> Shl(range, b), value |-> Shl(v, b), bitsNeeded |-> bn + b]
         = ShiftedRegs(v - z * 128, b, t.range, bn)
  <2>2. t.range = range * 2^b BY <1>5 DEF Scaled
  <2> HIDE DEF b, z
  <2> QED BY <1>a, <2>2 DEF Shl, ShiftedRegs, DecRegs
<1>13. DecoderAt(dec', in', t, g, V) BY <1>7, <1>10, <1>12
<1>14. decCtx' = t.ctx
  <2>1. t.ctx = ctx BY <1>5 DEF Scaled
  <2> QED BY <1>2, <1>10, <1>11, <2>1 DEF ctx
<1>15. decoded' = Append(decoded, op) BY <1>10, <1>11, RightAnswer DEF Answer
<1> QED BY <1>10, <1>13, <1>14, <1>15 DEF AnsweredWith

\* A terminating bin that is zero.
LEMMA TrmTaken ==
  ASSUME NEW s \in Interval, NEW V \in Nat, NEW g, Spells(g, V), DecodedUpTo(s, g, V),
         NEW op \in Ops, Wanted = op, op.kind = "trm", NEW t \in Interval, t = AfterTrm(s), HoldsOf(t, g, V),
         DecodeBinTrm
  PROVE  AnsweredWith(op, t, g, V)
<1> DEFINE range == s.range - 2
           b == IF range < 256 THEN 1 ELSE 0
           z == 0
<1>1. PICK v, bn, i : dec = DecRegs(v, s.range, bn) /\ ReadsAt(s, v, bn, i, g, V)
  BY DEF DecodedUpTo, DecoderAt, ReadsAt
<1>2. decCtx = s.ctx /\ dec.value = v /\ dec.range = s.range /\ dec.bitsNeeded = bn
  BY <1>1, DecRegsFields DEF DecodedUpTo
<1>3. op.bin = 0 BY OpFields
<1>4. dec.range - 2 = range BY <1>2
<1>5. range \in 254..508 /\ t = Scaled(s, z, range, b, s.ctx) BY AfterTrmNarrowed DEF AfterTrm
<1> HIDE DEF range
<1>6. range \in Nat /\ b \in 0..8 /\ z \in Nat BY <1>5
<1>7. /\ v < (z + range) * 128 /\ v \in Nat
      /\ Refilled(ShiftedRegs(v - z * 128, b, t.range, bn)) => DecoderAt(dec', in', t, g, V)
  <2> HIDE DEF z, b
  <2>2. Taken(v, bn, z, range, b, t, g, V) BY <1>1, <1>5, <1>6, PartTaken
  <2> QED BY <2>2 DEF Taken
<1>8. v < range * 128 /\ v - z * 128 = v BY <1>6, <1>7
<1>9. ~(v >= range * 128) BY <1>6, <1>7, <1>8
<1>10. Shl(range, 7) = range * 128 BY SmallPowers DEF Shl
<1>11. /\ IF range < 256
          THEN Refilled([range |-> 2 * range, value |-> 2 * dec.value, bitsNeeded |-> dec.bitsNeeded + 1])
          ELSE dec' = [dec EXCEPT !.range = range] /\ UNCHANGED in
       /\ Answer([op EXCEPT !.bin = 0]) /\ decCtx' = decCtx /\ part' = part
  BY <1>2, <1>4, <1>9, <1>10 DEF DecodeBinTrm
<1>12. t.range = range * 2^b /\ t.ctx = s.ctx BY <1>5 DEF Scaled
<1>13. DecoderAt(dec', in', t, g, V)
  <2>1. CASE range < 256
    <3>1. b = 1 BY <2>1
    <3>2. range * 2^b = 2 * range /\ v * 2^b = 2 * v BY <1>6, <1>7, <3>1, SmallPowers
    <3>3. [range |-> 2 * range, value |-> 2 * v, bitsNeeded |-> bn + 1] = ShiftedRegs(v - z * 128, b, t.range, bn)
      BY <1>8, <1>12, <3>1, <3>2 DEF ShiftedRegs, DecRegs
    <3>4. Refilled([range |-> 2 * range, value |-> 2 * v, bitsNeeded |-> bn + 1]) BY <1>2, <1>11, <2>1
    <3> QED BY <1>7, <3>3, <3>4
  <2>2. CASE ~(range < 256)
    <3>1. dec' = [dec EXCEPT !.range = range] /\ in' = in BY <1>11, <2>2
    <3>2. dec' = DecRegs(v, range, bn)
      <4> HIDE DEF b
      <4> QED BY <1>1, <3>1 DEF DecRegs
    <3>3. t.range = range /\ t.low = s.low /\ t.n = s.n
      <4>1. b = 0 BY <2>2
      <4>2. t.range = range * 2^b /\ t.low = (s.low + 0) * 2^b /\ t.n = s.n + b BY <1>5 DEF Scaled
      <4>3. s.low \in Nat /\ s.n \in Nat BY IntervalFields
      <4>4. 2^b = 1 BY <4>1, SmallPowers
      <4>5. range * 1 = range /\ (s.low + 0) * 1 = s.low /\ s.n + 0 = s.n BY <1>6, <4>3
      <4> QED BY <4>1, <4>2, <4>4, <4>5
    <3> QED BY <1>1, <3>1, <3>2, <3>3 DEF DecoderAt, ReadsAt
  <2> QED BY <2>1, <2>2
<1>14. [op EXCEPT !.bin = 0] = op
  <2>1. [op EXCEPT !.bin = op.bin] = op BY RightAnswer
  <2> QED BY <1>3, <2>1
<1> QED BY <1>2, <1>11, <1>12, <1>13, <1>14 DEF AnsweredWith, Answer

\* align.
LEMMA AlignTaken ==
  ASSUME NEW s \in Interval, NEW V \in Nat, NEW g, DecodedUpTo(s, g, V),
         NEW op \in Ops, Wanted = op, NEW t \in Interval, t = [s EXCEPT !.range = 256], DecodeAlign
  PROVE  AnsweredWith(op, t, g, V)
<1>1. PICK v, bn, i : dec = DecRegs(v, s.range, bn) /\ ReadsAt(s, v, bn, i, g, V)
  BY DEF DecodedUpTo, DecoderAt, ReadsAt
<1>2. decCtx = s.ctx BY DEF DecodedUpTo
<1>3. dec' = [dec EXCEPT !.range = 256] /\ decoded' = Append(decoded, op) /\ UNCHANGED <<decCtx, in, part>>
  BY DEF DecodeAlign, Answer
<1>4. dec' = DecRegs(v, 256, bn) BY <1>1, <1>3 DEF DecRegs
<1>5. t.low = s.low /\ t.range = 256 /\ t.n = s.n /\ t.ctx = s.ctx
  <2>1. s = [low |-> s.low, range |-> s.range, n |-> s.n, ctx |-> s.ctx] BY IntervalFields
  <2> QED BY <2>1
<1> QED BY <1>1, <1>2, <1>3, <1>4, <1>5 DEF AnsweredWith, DecoderAt, ReadsAt

\* What the decoder has when m more bits are in its register.
OnValue(v, m, bn) == v * 2^m + (IF bn + m >= 0 THEN ReadByte(in).value * 2^(bn + m) ELSE 0)
OnNeeded(m, bn) == IF bn + m >= 0 THEN bn + m - 8 ELSE bn + m
OnStream(m, bn) == IF bn + m >= 0 THEN ReadByte(in).bs ELSE in
OnAt(low, n, m, x, b, stream, g, V) ==
  \E i : Reads(low * 2^m, n + m, x, b, i, V, Len(g)) /\ stream = InAt(g, i)

\* A byte is due when the bits that are needed are not negative.
LEMMA OnParts ==
  ASSUME NEW v, NEW m, NEW bn, NEW b, m \in Nat, bn \in Int, b \in Int, b = bn + m, b >= 0
  PROVE  /\ OnValue(v, m, bn) = v * 2^m + ReadByte(in).value * 2^b
         /\ OnNeeded(m, bn) = b - 8 /\ OnStream(m, bn) = ReadByte(in).bs
<1>1. OnNeeded(m, bn) = b - 8 BY DEF OnNeeded
<1>2. OnStream(m, bn) = ReadByte(in).bs BY DEF OnStream
<1>3. OnValue(v, m, bn) = v * 2^m + ReadByte(in).value * 2^b
  <2> DEFINE y == ReadByte(in).value
             x == v * 2^m
  <2>1. OnValue(v, m, bn) = x + (IF bn + m >= 0 THEN y * 2^(bn + m) ELSE 0) BY DEF OnValue
  <2>2. y * 2^(bn + m) = y * 2^b OBVIOUS
  <2> HIDE DEF x, y
  <2>3. OnValue(v, m, bn) = x + y * 2^(bn + m) BY <2>1
  <2>4. OnValue(v, m, bn) = x + y * 2^b BY <2>2, <2>3
  <2> QED BY <2>4 DEF x, y
<1> QED BY <1>1, <1>2, <1>3

\* The register with m more bits reads the interval scaled up.
LEMMA ReadOn ==
  ASSUME NEW s, NEW V, NEW g, NEW v, NEW bn, NEW i, NEW m,
         s \in Interval, V \in Nat, Spells(g, V), ReadsAt(s, v, bn, i, g, V), m \in 0..8, Fits(s.n, m, g)
  PROVE  OnAt(s.low, s.n, m, OnValue(v, m, bn), OnNeeded(m, bn), OnStream(m, bn), g, V)
<1> DEFINE low == s.low
           n == s.n
           L == Len(g)
           b == bn + m
<1>1. low \in Nat /\ n \in Nat BY IntervalFields
<1>2. g \in Seq(Byte) /\ L \in Nat BY DEF Spells
<1>3. Reads(low, n, v, bn, i, V, L) /\ in = InAt(g, i) BY DEF ReadsAt
<1>4. n + m <= 8 * L BY DEF Fits
<1>5. v \in Nat /\ bn \in -8..-1 /\ i \in 0..L /\ n = 8 * i + 1 + bn BY <1>3 DEF Reads
<1>6. m \in 0..8 /\ b = bn + m OBVIOUS
<1>7. CASE b < 0
  <2>1. ~(b >= 0) BY <1>5, <1>6, <1>7
  <2>2. OnValue(v, m, bn) = v * 2^m + 0 /\ OnNeeded(m, bn) = b /\ OnStream(m, bn) = in
    BY <2>1 DEF OnValue, OnNeeded, OnStream
  <2>3. v * 2^m \in Nat
    <3>1. 2^m \in Nat BY PowType
    <3> QED BY <1>5, <3>1
  <2>4. OnValue(v, m, bn) = v * 2^m BY <2>2, <2>3
  <2> HIDE DEF low, n, L, b
  <2>5. Reads(low * 2^m, n + m, v * 2^m, b, i, V, L)
    BY <1>1, <1>2, <1>3, <1>6, <1>7, ReadsScaled
  <2> QED BY <1>3, <2>2, <2>4, <2>5 DEF OnAt, low, n, L
<1>8. CASE ~(b < 0)
  <2>1. b >= 0 BY <1>5, <1>6, <1>8
  <2>0. i < L
    <3> HIDE DEF L, n
    <3> QED BY <1>2, <1>4, <1>5, <1>6, <2>1
  <2>2. /\ OnValue(v, m, bn) = v * 2^m + ReadByte(in).value * 2^b
        /\ OnNeeded(m, bn) = b - 8 /\ OnStream(m, bn) = ReadByte(in).bs
    <3> HIDE DEF b
    <3>1. m \in Nat /\ bn \in Int /\ b \in Int BY <1>5, <1>6
    <3> QED BY <1>6, <2>1, <3>1, OnParts
  <2>3. ReadByte(in).value = ByteAt(g, i) /\ ReadByte(in).bs = InAt(g, i + 1)
    <3>1. i \in Nat BY <1>5
    <3> QED BY <1>2, <1>3, <2>0, <3>1, ByteRead DEF ByteAt
  <2>4. OnValue(v, m, bn) = Refreshed(v, m, ByteAt(g, i), b) BY <2>2, <2>3 DEF Refreshed
  <2> HIDE DEF low, n, b
  <2>5. Len(g) = L OBVIOUS
  <2> HIDE DEF L
  <2>6. Reads(low * 2^m, n + m, Refreshed(v, m, ByteAt(g, i), b), b - 8, i + 1, V, L)
    BY <1>1, <1>2, <1>3, <1>4, <1>6, <1>8, <2>5, ReadsByte
  <2> QED BY <2>2, <2>3, <2>4, <2>5, <2>6 DEF OnAt, low, n
<1> QED BY <1>7, <1>8

\* The part of equal length that the bins tell.
TakenBins(x, b, stream, bins, range, t, g, V) ==
  /\ x \in Nat /\ (bins * range) * 128 <= x /\ x < (bins * range + range) * 128
  /\ DecoderAt(DecRegs(x - (bins * range) * 128, range, b), stream, t, g, V)

\* The fields of an interval with more bins.
LEMMA WithBinsFields ==
  ASSUME NEW s \in Interval, NEW n, NEW bins
  PROVE  /\ WithBins(s, n, bins).low = s.low * 2^n + bins * s.range /\ WithBins(s, n, bins).range = s.range
         /\ WithBins(s, n, bins).n = s.n + n /\ WithBins(s, n, bins).ctx = s.ctx
<1>1. s = [low |-> s.low, range |-> s.range, n |-> s.n, ctx |-> s.ctx] BY IntervalFields
<1>2. WithBins([low |-> s.low, range |-> s.range, n |-> s.n, ctx |-> s.ctx], n, bins)
        = [low |-> s.low * 2^n + bins * s.range, range |-> s.range, n |-> s.n + n, ctx |-> s.ctx]
  BY WithBinsIs
<1> QED BY <1>1, <1>2

\* What lies in the part of the bins is theirs.
LEMMA OnTaken ==
  ASSUME NEW s, NEW V, NEW g, NEW m, NEW x, NEW b, NEW stream, NEW bins, NEW t,
         s \in Interval, V \in Nat, Spells(g, V), m \in 0..8, OnAt(s.low, s.n, m, x, b, stream, g, V), bins \in Nat,
         t = WithBins(s, m, bins), HoldsOf(t, g, V)
  PROVE  TakenBins(x, b, stream, bins, s.range, t, g, V)
<1> DEFINE low == s.low
           n == s.n
           L == Len(g)
           range == s.range
           d == bins * range
           l == low * 2^m
           k == n + m
<1>1. low \in Nat /\ n \in Nat /\ range \in Nat BY IntervalFields
<1>2. L \in Nat BY DEF Spells
<1>3. PICK i : Reads(l, k, x, b, i, V, L) /\ stream = InAt(g, i) BY DEF OnAt
<1>4. t.low = l + d /\ t.range = range /\ t.n = k BY WithBinsFields
<1>5. Holds(l + d, range, k, V, 8 * L) BY <1>4 DEF HoldsOf
<1>6. d \in Nat BY <1>1
<1>7. l \in Nat
  <2>1. 2^m \in Nat BY PowType
  <2> QED BY <1>1, <2>1
<1>8. k \in Nat BY <1>1
<1>a. x \in Nat BY <1>3 DEF Reads
<1> HIDE DEF low, n, L, range, d, l, k
<1>9. d * 128 <= x /\ x < (d + range) * 128
  BY <1>1, <1>2, <1>3, <1>5, <1>6, <1>7, <1>8, ReadsBetween
<1>10. Reads(l + d, k, x - d * 128, b, i, V, L)
  BY <1>1, <1>2, <1>3, <1>6, <1>7, <1>8, <1>9, ReadsPart
<1>11. DecoderAt(DecRegs(x - d * 128, range, b), stream, t, g, V) BY <1>3, <1>4, <1>10 DEF DecoderAt, L
<1> QED BY <1>9, <1>11, <1>a DEF TakenBins, d, range

\* The stream has the bits of bins that were coded.
LEMMA BinsFit ==
  ASSUME NEW s \in Interval, NEW m, NEW bins, NEW t, NEW g, NEW V, t = WithBins(s, m, bins), HoldsOf(t, g, V)
  PROVE  Fits(s.n, m, g)
<1>1. t.n = s.n + m BY WithBinsFields
<1>2. t.n <= 8 * Len(g) BY DEF HoldsOf, Holds
<1> QED BY <1>1, <1>2 DEF Fits

\* An equally probable bin.
LEMMA EpTaken ==
  ASSUME NEW s, NEW V, NEW g, NEW bin, NEW t,
         s \in Interval, V \in Nat, Spells(g, V), DecoderAt(dec, in, s, g, V), bin \in {0, 1},
         t = WithBins(s, 1, bin), HoldsOf(t, g, V)
  PROVE  BinEP.bin = bin /\ DecoderAt(BinEP.dec, BinEP.in, t, g, V)
<1>1. PICK v, bn, i : dec = DecRegs(v, s.range, bn) /\ ReadsAt(s, v, bn, i, g, V)
  BY DEF DecoderAt, ReadsAt
<1>2. dec.value = v /\ dec.range = s.range /\ dec.bitsNeeded = bn
  BY <1>1, DecRegsFields
<1> DEFINE m == 1
           x == OnValue(v, m, bn)
           b == OnNeeded(m, bn)
           stream == OnStream(m, bn)
           range == s.range
<1>3. m \in 0..8 /\ t = WithBins(s, m, bin) /\ bin \in Nat OBVIOUS
<1>4. TakenBins(x, b, stream, bin, range, t, g, V)
  <2> HIDE DEF m
  <2>1. Fits(s.n, m, g) BY <1>3, BinsFit
  <2>2. OnAt(s.low, s.n, m, x, b, stream, g, V) BY <1>1, <1>3, <2>1, ReadOn
  <2> HIDE DEF x, b, stream
  <2> QED BY <1>3, <2>2, OnTaken
<1>5. range \in Nat BY IntervalFields
<1>6. v \in Nat /\ bn \in -8..-1 BY <1>1 DEF ReadsAt, Reads
<1>7. x = IF bn + 1 >= 0 THEN 2 * v + ReadByte(in).value ELSE 2 * v
  <2>1. v * 2^1 = 2 * v /\ (v * 2^1) + 0 = 2 * v BY <1>6, SmallPowers
  <2>2. CASE bn + 1 >= 0
    <3>1. bn + 1 = 0 BY <1>6, <2>2
    <3>2. x = v * 2^1 + ReadByte(in).value * 2^(bn + 1) BY <2>2 DEF OnValue
    <3>3. 2^(bn + 1) = 1 BY <3>1, SmallPowers
    <3>4. x \in Nat BY <1>4 DEF TakenBins
    <3>5. x = 2 * v + ReadByte(in).value * 1 BY <2>1, <3>2, <3>3
    <3>6. ReadByte(in).value \in Nat
      <4>1. g \in Seq(Byte) /\ Len(g) \in Nat BY DEF Spells
      <4>2. in = InAt(g, i) /\ i \in 0..Len(g) /\ s.n = 8 * i + 1 + bn BY <1>1 DEF ReadsAt, Reads
      <4>3. i < Len(g)
        <5>1. s.n + 1 <= 8 * Len(g) BY <1>3, BinsFit DEF Fits
        <5>2. s.n \in Nat BY IntervalFields
        <5> DEFINE n == s.n
                   L == Len(g)
        <5>3. n \in Nat /\ L \in Nat /\ n + 1 <= 8 * L /\ i \in 0..L /\ n = 8 * i + 1 + bn BY <4>1, <4>2, <5>1, <5>2
        <5> HIDE DEF n, L
        <5>4. i < L BY <1>6, <3>1, <5>3
        <5> QED BY <5>4 DEF L
      <4>4. ReadByte(in).value = g[i + 1]
        <5>1. i \in Nat BY <4>2
        <5> QED BY <4>1, <4>2, <4>3, <5>1, ByteRead
      <4>5. g[i + 1] \in Byte
        <5>1. i + 1 \in 1..Len(g) BY <4>1, <4>2, <4>3
        <5> QED BY <4>1, <5>1
      <4> QED BY <4>4, <4>5 DEF Byte
    <3> QED BY <2>2, <3>5, <3>6
  <2>3. CASE ~(bn + 1 >= 0)
    <3>2. x = v * 2^1 + 0 BY <2>3 DEF OnValue
    <3> QED BY <2>1, <2>3, <3>2
  <2> QED BY <2>2, <2>3
<1>8. b = (IF bn + 1 >= 0 THEN -8 ELSE bn + 1) /\ stream = IF bn + 1 >= 0 THEN ReadByte(in).bs ELSE in
  <2>1. stream = IF bn + 1 >= 0 THEN ReadByte(in).bs ELSE in BY DEF OnStream
  <2>2. b = IF bn + 1 >= 0 THEN (bn + 1) - 8 ELSE bn + 1 BY <1>6 DEF OnNeeded
  <2>3. bn + 1 >= 0 => (bn + 1) - 8 = -8 BY <1>6
  <2> QED BY <2>1, <2>2, <2>3
<1>9. Shl(range, 7) = range * 128 BY SmallPowers DEF Shl
<1> HIDE DEF x, b, stream, range
<1>10. /\ BinEP.bin = IF x >= range * 128 THEN 1 ELSE 0
       /\ BinEP.dec = [dec EXCEPT !.value = IF x >= range * 128 THEN x - range * 128 ELSE x, !.bitsNeeded = b]
       /\ BinEP.in = stream
  <2> DEFINE d == [dec EXCEPT !.value = 2 * @, !.bitsNeeded = @ + 1]
  <2>1. d.bitsNeeded = bn + 1 /\ d.value = 2 * v BY <1>1, <1>2 DEF DecRegs
  <2>2. x = IF d.bitsNeeded >= 0 THEN d.value + ReadByte(in).value ELSE d.value BY <1>7, <2>1
  <2>3. b = IF d.bitsNeeded >= 0 THEN -8 ELSE d.bitsNeeded BY <1>8, <2>1
  <2>4. stream = IF d.bitsNeeded >= 0 THEN ReadByte(in).bs ELSE in BY <1>8, <2>1
  <2>5. Shl(dec.range, 7) = range * 128 BY <1>2, <1>9 DEF range
  <2> HIDE DEF d
  <2>6. /\ BinEP.bin = IF x >= Shl(dec.range, 7) THEN 1 ELSE 0
        /\ BinEP.dec = [dec EXCEPT !.value = IF x >= Shl(dec.range, 7) THEN x - Shl(dec.range, 7) ELSE x,
                                   !.bitsNeeded = b]
        /\ BinEP.in = stream
    BY <2>2, <2>3, <2>4 DEF BinEP, d
  <2> QED BY <2>5, <2>6
<1>11. DecRegs(v, range, bn) = dec BY <1>1 DEF range
<1>12. ASSUME NEW y PROVE [dec EXCEPT !.value = y, !.bitsNeeded = b] = DecRegs(y, range, b)
  <2> DEFINE d == [value |-> v, range |-> range, bitsNeeded |-> bn]
             e == [value |-> y, range |-> range, bitsNeeded |-> bn]
  <2>1. dec = d BY <1>11 DEF DecRegs
  <2>2. [d EXCEPT !.value = y] = e OBVIOUS
  <2>3. [e EXCEPT !.bitsNeeded = b] = DecRegs(y, range, b) BY DEF DecRegs
  <2> HIDE DEF d, e
  <2>4. [d EXCEPT !.value = y, !.bitsNeeded = b] = [[d EXCEPT !.value = y] EXCEPT !.bitsNeeded = b] OBVIOUS
  <2> QED BY <2>1, <2>2, <2>3, <2>4
<1>13. /\ x \in Nat /\ (bin * range) * 128 <= x /\ x < (bin * range + range) * 128
       /\ DecoderAt(DecRegs(x - (bin * range) * 128, range, b), stream, t, g, V)
  BY <1>4 DEF TakenBins
<1>14. CASE bin = 0
  <2>1. bin * range = 0 BY <1>5, <1>14 DEF range
  <2>2. ~(x >= range * 128) /\ x - 0 * 128 = x BY <1>5, <1>13, <2>1 DEF range
  <2>3. BinEP.bin = bin /\ BinEP.dec = [dec EXCEPT !.value = x, !.bitsNeeded = b] BY <1>10, <1>14, <2>2
  <2>4. BinEP.dec = DecRegs(x, range, b) BY <1>12, <2>3
  <2> QED BY <1>10, <1>13, <2>1, <2>2, <2>3, <2>4
<1>15. CASE bin = 1
  <2>1. bin * range = range BY <1>5, <1>15 DEF range
  <2>2. x >= range * 128 BY <1>5, <1>13, <2>1 DEF range
  <2>3. BinEP.bin = bin /\ BinEP.dec = [dec EXCEPT !.value = x - range * 128, !.bitsNeeded = b]
    BY <1>10, <1>15, <2>2
  <2>4. BinEP.dec = DecRegs(x - range * 128, range, b) BY <1>12, <2>3
  <2> QED BY <1>10, <1>13, <2>1, <2>3, <2>4
<1> QED BY <1>14, <1>15

-----------------------------------------------------------------------------
(* Calls of several bins.                                                *)

\* Bits that are still to come are zeros in the register.
LEMMA ReadsMultiple ==
  ASSUME NEW low \in Nat, NEW n \in Nat, NEW v, NEW bn, NEW i, NEW V \in Nat, NEW L \in Nat,
         Reads(low, n, v, bn, i, V, L)
  PROVE  \E u \in Nat : v = u * 2^(8 + bn)
<1> DEFINE P == FrontOf(V, L, i)
           c == 2^(8 + bn)
           e == 2^(7 - (8 + bn))
<1>1. v \in Nat /\ bn \in -8..-1 /\ i \in 0..L /\ v + low * 128 = P * c BY DEF Reads
<1>2. P \in Nat BY <1>1, FrontType
<1>3. c \in Nat \ {0} /\ e \in Nat \ {0} /\ 128 = c * e
  <2> DEFINE k == 8 + bn
             m == 7
  <2>1. k \in Nat /\ m \in Nat /\ k <= m BY <1>1
  <2> HIDE DEF k, m
  <2>2. 2^m = 2^k * 2^(m - k) /\ 2^k \in Nat \ {0} /\ 2^(m - k) \in Nat \ {0} BY <2>1, PowSplit
  <2>3. 2^m = 128 BY SmallPowers DEF m
  <2> QED BY <2>2, <2>3 DEF m, k
<1> HIDE DEF P, c, e
<1> DEFINE w == low * e
<1>4. w \in Nat /\ low * 128 = w * c BY <1>3
<1> HIDE DEF w
<1>5. v = (P - w) * c BY <1>1, <1>2, <1>3, <1>4
<1>6. P - w \in Nat
  <2>1. CASE P >= w BY <1>2, <1>4, <2>1
  <2>2. CASE ~(P >= w)
    <3>1. w - P >= 1 /\ (w - P) * c >= c BY <1>2, <1>3, <1>4, <2>2
    <3>2. w * c = P * c + (w - P) * c BY <1>2, <1>3, <1>4
    <3>3. (w - P) * c \in Nat /\ P * c \in Nat /\ w * c \in Nat BY <1>2, <1>3, <1>4, <2>2
    <3> DEFINE A == (w - P) * c
               B == P * c
               C == w * c
    <3>4. A \in Nat /\ B \in Nat /\ C \in Nat /\ A >= c /\ C = B + A /\ v + C = B
      BY <1>1, <1>4, <3>1, <3>2, <3>3
    <3> HIDE DEF A, B, C
    <3>5. FALSE BY <1>1, <1>3, <3>4
    <3> QED BY <3>5
  <2> QED BY <2>1, <2>2
<1> QED BY <1>5, <1>6 DEF c

\* With a range of 256 the bins are the leading bits of the value.
LeadTheValue(v, u, c, e, p, fresh, S, q, h) ==
  /\ v = u * c /\ fresh < c * p /\ S = (c * p) * e /\ q = c * e
  /\ h < p /\ h * S <= v * p + fresh /\ v * p + fresh < h * S + S

LeadingBits(v, p, fresh, S, q, h) ==
  (v \div q) % p = h /\ ((v * p) % S) + fresh = (v * p + fresh) - h * S

\* With a range of 256 the bins are the top bits of the value.
LEMMA BinsOfValue ==
  ASSUME NEW v \in Nat, NEW u \in Nat, NEW c \in Nat \ {0}, NEW e \in Nat \ {0}, NEW p \in Nat \ {0},
         NEW fresh \in Nat, NEW S \in Nat \ {0}, NEW q \in Nat \ {0}, NEW h \in Nat,
         LeadTheValue(v, u, c, e, p, fresh, S, q, h)
  PROVE  LeadingBits(v, p, fresh, S, q, h)
<1>a. /\ v = u * c /\ fresh < c * p /\ S = (c * p) * e /\ q = c * e
      /\ h < p /\ h * S <= v * p + fresh /\ v * p + fresh < h * S + S
  BY DEF LeadTheValue
<1> DEFINE x == v * p + fresh
           y == v * p
           z == h * S
<1>1. x \in Nat /\ y \in Nat /\ z \in Nat /\ x = y + fresh OBVIOUS
<1>2. v \div q = h
  <2>1. x \div S = v \div q
    <3>1. ((u * c) * p + fresh) \div ((c * p) * e) = (u * c) \div (c * e) BY <1>a, LeadingBins
    <3> QED BY <1>a, <3>1
  <2>2. x \div S = h
    <3>1. x - z \in 0..S-1 /\ x = S * h + (x - z)
      <4>1. z <= x /\ x < z + S /\ S * h = z BY <1>a
      <4> HIDE DEF x, y, z
      <4> QED BY <1>1, <4>1
    <3> HIDE DEF x, z
    <3> QED BY <1>1, <3>1, DivUnique
  <2> QED BY <2>1, <2>2
<1>3. (v \div q) % p = h BY <1>2, <1>a
<1>4. z <= y
  <2>1. v = q * (v \div q) + (v % q) /\ v % q \in 0..q-1 BY DivFacts
  <2> DEFINE a == v % q
  <2>2. a \in Nat /\ v = q * h + a
    <3> DEFINE d == v \div q
    <3>1. d = h /\ v = q * d + a /\ a \in 0..q-1 BY <1>2, <2>1
    <3> HIDE DEF d, a
    <3> QED BY <3>1
  <2> HIDE DEF a
  <2>3. S = q * p BY <1>a
  <2>4. v * p = (q * h) * p + a * p /\ (q * h) * p = z /\ a * p \in Nat BY <2>2, <2>3
  <2> DEFINE b == a * p
  <2>5. b \in Nat /\ y = z + b BY <2>4
  <2> HIDE DEF b, y, z
  <2> QED BY <1>1, <2>5
<1>5. y % S = y - z
  <2>1. y - z \in 0..S-1 /\ y = S * h + (y - z)
    <3>1. x < z + S /\ S * h = z BY <1>a
    <3> HIDE DEF x, y, z
    <3> QED BY <1>1, <1>4, <3>1
  <2> DEFINE r == y - z
  <2>2. r \in 0..S-1 /\ y = S * h + r BY <2>1
  <2> HIDE DEF r, x, y, z
  <2>3. y % S = r BY <1>1, <2>2, DivUnique
  <2> QED BY <2>3 DEF r
<1>6. (y % S) + fresh = x - z
  <2> HIDE DEF x, y, z
  <2> QED BY <1>1, <1>5
<1> QED BY <1>3, <1>6 DEF LeadingBits

\* The fresh bits are below those that the register had.
Fresh(n, bn) == IF bn + n >= 0 THEN ReadByte(in).value * 2^(bn + n) ELSE 0

\* The bits of the new byte are below those of the register.
LEMMA FreshBelow ==
  ASSUME NEW s, NEW V, NEW g, NEW v, NEW bn, NEW i, NEW n,
         s \in Interval, V \in Nat, Spells(g, V), ReadsAt(s, v, bn, i, g, V), n \in 1..8, Fits(s.n, n, g)
  PROVE  /\ OnValue(v, n, bn) = v * 2^n + Fresh(n, bn)
         /\ Fresh(n, bn) \in Nat /\ Fresh(n, bn) < 2^(8 + bn) * 2^n
<1>1. OnValue(v, n, bn) = v * 2^n + Fresh(n, bn) BY DEF OnValue, Fresh
<1>2. v \in Nat /\ bn \in -8..-1 /\ i \in 0..Len(g) /\ s.n = 8 * i + 1 + bn /\ in = InAt(g, i)
  BY DEF ReadsAt, Reads
<1>3. g \in Seq(Byte) /\ Len(g) \in Nat BY DEF Spells
<1> DEFINE k == 8 + bn
           c == 2^k
           p == 2^n
<1>4. k \in Nat /\ n \in Nat BY <1>2
<1>5. c \in Nat \ {0} /\ p \in Nat \ {0} /\ 2^(k + n) = c * p BY <1>4, PowPositive, PowSum
<1>6. CASE bn + n >= 0
  <2> DEFINE b == bn + n
             byte == ReadByte(in).value
  <2>1. Fresh(n, bn) = byte * 2^b BY <1>6 DEF Fresh
  <2>2. b \in Nat /\ k + n = 8 + b BY <1>2, <1>6
  <2>3. byte \in 0..255
    <3>1. i < Len(g)
      <4> DEFINE l == s.n
                 L == Len(g)
      <4>1. l \in Nat /\ L \in Nat /\ l + n <= 8 * L /\ i \in 0..L /\ l = 8 * i + 1 + bn
        BY <1>2, <1>3, IntervalFields DEF Fits
      <4> HIDE DEF l, L
      <4>2. i < L BY <1>2, <1>6, <4>1
      <4> QED BY <4>2 DEF L
    <3>2. i \in Nat BY <1>2
    <3>3. byte = g[i + 1] BY <1>2, <1>3, <3>1, <3>2, ByteRead
    <3>4. i + 1 \in 1..Len(g) BY <1>3, <3>1, <3>2
    <3>5. g[i + 1] \in Byte BY <1>3, <3>4
    <3> QED BY <3>3, <3>5 DEF Byte
  <2> HIDE DEF b, byte, c, p, k
  <2> DEFINE q == 2^b
  <2>4. q \in Nat \ {0} /\ 2^(8 + b) = 256 * q
    <3>1. 8 \in Nat OBVIOUS
    <3>2. 2^(8 + b) = 2^8 * 2^b BY <2>2, <3>1, PowSum
    <3> QED BY <2>2, <3>2, PowPositive, SmallPowers
  <2>5. c * p = 256 * q BY <1>5, <2>2, <2>4
  <2> HIDE DEF q
  <2>6. byte * q \in Nat /\ byte * q < 256 * q BY <2>3, <2>4
  <2>7. byte * q < c * p BY <2>5, <2>6
  <2>8. Fresh(n, bn) = byte * q BY <2>1 DEF q
  <2> QED BY <1>1, <2>6, <2>7, <2>8 DEF c, p, k
<1>7. CASE ~(bn + n >= 0)
  <2>1. Fresh(n, bn) = 0 BY <1>7 DEF Fresh
  <2>2. 0 < c * p
    <3> HIDE DEF c, p
    <3> QED BY <1>5
  <2>3. Fresh(n, bn) \in Nat /\ Fresh(n, bn) < c * p BY <2>1, <2>2
  <2> QED BY <1>1, <2>3 DEF c, p, k
<1> QED BY <1>6, <1>7

AlignedRound(v, bn, n, h) ==
  /\ LowBits(Shr(v, 15 - n), n) = h
  /\ LowBits(Shl(v, n), 15) + Fresh(n, bn) = OnValue(v, n, bn) - (h * 256) * 128

\* Several bins with a range of 256.
LEMMA AlignedBins ==
  ASSUME NEW s, NEW V, NEW g, NEW v, NEW bn, NEW i, NEW n, NEW h,
         s \in Interval, V \in Nat, Spells(g, V), ReadsAt(s, v, bn, i, g, V), n \in 1..8, Fits(s.n, n, g),
         h \in Nat, h < 2^n, (h * 256) * 128 <= OnValue(v, n, bn), OnValue(v, n, bn) < (h * 256 + 256) * 128
  PROVE  AlignedRound(v, bn, n, h)
<1> DEFINE low == s.low
           l == s.n
           L == Len(g)
           fresh == Fresh(n, bn)
           x == OnValue(v, n, bn)
           k == 8 + bn
           c == 2^k
           p == 2^n
           j == 7 - n - bn
           e == 2^j
           m == 15 - n
           q == 2^m
           N == 15
           S == 2^N
<1>1. v \in Nat /\ bn \in -8..-1 /\ Reads(low, l, v, bn, i, V, L) BY DEF ReadsAt, Reads
<1>2. low \in Nat /\ l \in Nat BY IntervalFields
<1>3. L \in Nat BY DEF Spells
<1>4. \E u \in Nat : v = u * c
  <2> HIDE DEF low, l, L
  <2>1. \E u \in Nat : v = u * 2^(8 + bn) BY <1>1, <1>2, <1>3, ReadsMultiple
  <2> QED BY <2>1
<1>5. PICK u \in Nat : v = u * c BY <1>4
<1>6. x = v * p + fresh /\ fresh \in Nat /\ fresh < c * p BY FreshBelow
<1>7. k \in Nat /\ n \in Nat /\ j \in Nat /\ m \in Nat /\ k + j = m /\ n + m = 15 BY <1>1
<1>8. N \in Nat /\ n + m = N BY <1>7
<1> HIDE DEF k, j, m, N
<1>9. /\ c \in Nat \ {0} /\ e \in Nat \ {0} /\ p \in Nat \ {0} /\ q \in Nat \ {0} /\ S \in Nat \ {0}
      /\ q = c * e /\ S = p * q
  <2>1. 2^(k + j) = 2^k * 2^j /\ 2^(n + m) = 2^n * 2^m BY <1>7, PowSum
  <2> QED BY <1>7, <1>8, <2>1, PowPositive
<1>10. S = 32768
  <2>1. 15 = 7 + 8 /\ 7 \in Nat /\ 8 \in Nat OBVIOUS
  <2>2. 2^(7 + 8) = 2^7 * 2^8 BY <2>1, PowSum
  <2>3. 128 * 256 = 32768 OBVIOUS
  <2> QED BY <2>1, <2>2, <2>3, SmallPowers DEF N
<1> HIDE DEF c, e, p, q, S, fresh, x
<1>11. S = (c * p) * e BY <1>9
<1>12. h * S <= x /\ x < h * S + S /\ (h * 256) * 128 = h * S
  <2>1. (h * 256) * 128 <= x /\ x < (h * 256 + 256) * 128 BY DEF x
  <2>2. (h * 256) * 128 = h * 32768 /\ (h * 256 + 256) * 128 = h * 32768 + 32768 OBVIOUS
  <2> QED BY <1>10, <2>1, <2>2
<1>13. h < p BY DEF p
<1>14. (v \div q) % p = h /\ ((v * p) % S) + fresh = (v * p + fresh) - h * S
  <2>1. h * S <= v * p + fresh /\ v * p + fresh < h * S + S BY <1>6, <1>12
  <2>2. LeadTheValue(v, u, c, e, p, fresh, S, q, h) BY <1>5, <1>6, <1>9, <1>11, <1>13, <2>1 DEF LeadTheValue
  <2>3. /\ v \in Nat /\ u \in Nat /\ c \in Nat \ {0} /\ e \in Nat \ {0} /\ p \in Nat \ {0}
        /\ fresh \in Nat /\ S \in Nat \ {0} /\ q \in Nat \ {0} /\ h \in Nat
    BY <1>1, <1>5, <1>6, <1>9
  <2>4. LeadingBits(v, p, fresh, S, q, h) BY <2>2, <2>3, BinsOfValue
  <2> QED BY <2>4 DEF LeadingBits
<1>15. LowBits(Shr(v, 15 - n), n) = h BY <1>14 DEF LowBits, Shr, q, p, m
<1>16. LowBits(Shl(v, n), 15) = (v * p) % S BY DEF LowBits, Shl, p, S, N
<1>17. LowBits(Shl(v, n), 15) + fresh = x - h * S BY <1>6, <1>14, <1>16
<1> QED BY <1>12, <1>15, <1>17 DEF fresh, x, AlignedRound

\* What a round of decodeBinsEP makes of the registers.
RoundBins(v, r, bn, n) ==
  IF r = 256 THEN LowBits(Shr(v, 15 - n), n)
  ELSE LowestOf(OnValue(v, n, bn) \div Shl(r, 7), 2^n - 1)
RoundValue(v, r, bn, n) ==
  IF r = 256 THEN LowBits(Shl(v, n), 15) + Fresh(n, bn)
  ELSE OnValue(v, n, bn) - LowestOf(OnValue(v, n, bn) \div Shl(r, 7), 2^n - 1) * Shl(r, 7)

Replaced(d, b2, v2) == [[d EXCEPT !.bitsNeeded = b2] EXCEPT !.value = v2]

\* The register updates of ReadBins.
LEMMA RegsReplaced ==
  ASSUME NEW v, NEW r, NEW bn, NEW v2, NEW b2
  PROVE  Replaced(DecRegs(v, r, bn), b2, v2) = DecRegs(v2, r, b2)
<1> DEFINE d == [value |-> v, range |-> r, bitsNeeded |-> bn]
           e == [value |-> v, range |-> r, bitsNeeded |-> b2]
<1>1. DecRegs(v, r, bn) = d BY DEF DecRegs
<1>2. [d EXCEPT !.bitsNeeded = b2] = e OBVIOUS
<1>3. [e EXCEPT !.value = v2] = DecRegs(v2, r, b2) BY DEF DecRegs
<1> HIDE DEF d, e
<1> QED BY <1>1, <1>2, <1>3 DEF Replaced

Round(v, r, bn, n) ==
  /\ in' = OnStream(n, bn) /\ dec' = DecRegs(RoundValue(v, r, bn, n), r, OnNeeded(n, bn))
  /\ part' = [part EXCEPT !.left = @ - n, !.bins = Shl(@, n) + RoundBins(v, r, bn, n)]

\* ReadBins in terms of the registers before it.
LEMMA ReadBinsIs ==
  ASSUME NEW v, NEW r, NEW bn, NEW n, n \in Nat, bn \in Int, dec = DecRegs(v, r, bn), n = LowestOf(part.left, 8),
         ReadBins
  PROVE  Round(v, r, bn, n)
<1>1. dec.value = v /\ dec.range = r /\ dec.bitsNeeded = bn BY DecRegsFields
<1> DEFINE bits == bn + n
           fresh == IF bits >= 0 THEN Shl(ReadByte(in).value, bits) ELSE 0
           value == Shl(v, n) + fresh
           bins == LowestOf(value \div Shl(r, 7), 2^n - 1)
           needed == IF bits >= 0 THEN bits - 8 ELSE bits
           newValue == IF r = 256 THEN LowBits(Shl(v, n), 15) + fresh ELSE value - bins * Shl(r, 7)
           newBins == IF r = 256 THEN LowBits(Shr(v, 15 - n), n) ELSE bins
<1>2. /\ dec' = [[dec EXCEPT !.bitsNeeded = needed] EXCEPT !.value = newValue]
      /\ in' = IF bits >= 0 THEN ReadByte(in).bs ELSE in
      /\ part' = [part EXCEPT !.left = @ - n, !.bins = Shl(@, n) + newBins]
  BY <1>1 DEF ReadBins
<1>3. fresh = Fresh(n, bn) BY DEF Fresh, Shl
<1>4. value = OnValue(v, n, bn) BY DEF OnValue, Shl
<1>5. needed = OnNeeded(n, bn) BY DEF OnNeeded
<1>6. (IF bits >= 0 THEN ReadByte(in).bs ELSE in) = OnStream(n, bn) BY DEF OnStream
<1> HIDE DEF bits, fresh, value, needed
<1>7. newValue = RoundValue(v, r, bn, n) BY <1>3, <1>4 DEF RoundValue
<1>8. newBins = RoundBins(v, r, bn, n) BY <1>4 DEF RoundBins
<1> HIDE DEF newValue, newBins
<1>a. dec' = Replaced(dec, needed, newValue) BY <1>2 DEF Replaced
<1>9. dec' = DecRegs(newValue, r, needed) BY <1>a, RegsReplaced
<1> QED BY <1>2, <1>5, <1>6, <1>7, <1>8, <1>9 DEF Round

\* The restoring division finds the part.
LEMMA QuotientOf ==
  ASSUME NEW x \in Nat, NEW r \in Nat \ {0}, NEW h \in Nat, NEW p \in Nat, h < p,
         (h * r) * 128 <= x, x < (h * r + r) * 128
  PROVE  LowestOf(x \div (r * 128), p - 1) = h
<1> DEFINE d == r * 128
           z == h * d
<1>1. d \in Nat \ {0} /\ z \in Nat /\ (h * r) * 128 = z /\ (h * r + r) * 128 = z + d OBVIOUS
<1>2. d * h = z OBVIOUS
<1> HIDE DEF d, z
<1>3. x - z \in 0..d-1 /\ x = d * h + (x - z) BY <1>1, <1>2
<1> DEFINE y == x - z
<1>4. y \in 0..d-1 /\ x = d * h + y BY <1>3
<1> HIDE DEF y
<1>5. x \div d = h BY <1>1, <1>4, DivUnique
<1>6. LowestOf(h, p - 1) = h BY DEF LowestOf
<1> QED BY <1>5, <1>6 DEF d

\* Several bins.
RoundTo(t, g, V, n, h) ==
  /\ DecoderAt(dec', in', t, g, V)
  /\ part' = [part EXCEPT !.left = @ - n, !.bins = Shl(@, n) + h]
  /\ UNCHANGED <<pc, encVars, decCtx, decoded>>

\* A round of decodeBinsEP or decodeAlignedBinsEP takes the bins that were coded.
LEMMA BinsTaken ==
  ASSUME NEW s, NEW V, NEW g, NEW h, NEW t, NEW n,
         s \in Interval, V \in Nat, Spells(g, V), DecoderAt(dec, in, s, g, V),
         n = LowestOf(part.left, 8), n \in 1..8, h \in Nat, h < 2^n, t = WithBins(s, n, h), HoldsOf(t, g, V),
         ReadBins
  PROVE  RoundTo(t, g, V, n, h)
<1>1. PICK v, bn, i : dec = DecRegs(v, s.range, bn) /\ ReadsAt(s, v, bn, i, g, V)
  BY DEF DecoderAt, ReadsAt
<1> DEFINE r == s.range
           x == OnValue(v, n, bn)
           b == OnNeeded(n, bn)
           stream == OnStream(n, bn)
<1>2. r \in Nat \ {0} BY IntervalFields
<1>3. Fits(s.n, n, g) BY BinsFit
<1>4. TakenBins(x, b, stream, h, r, t, g, V)
  <2>1. n \in 0..8 OBVIOUS
  <2>2. OnAt(s.low, s.n, n, x, b, stream, g, V) BY <1>1, <1>3, <2>1, ReadOn
  <2> HIDE DEF x, b, stream
  <2> QED BY <2>1, <2>2, OnTaken
<1>5. in' = stream /\ dec' = DecRegs(RoundValue(v, r, bn, n), r, b)
      /\ part' = [part EXCEPT !.left = @ - n, !.bins = Shl(@, n) + RoundBins(v, r, bn, n)]
  <2>1. n \in Nat /\ bn \in Int BY <1>1 DEF ReadsAt, Reads
  <2>2. dec = DecRegs(v, r, bn) BY <1>1
  <2> HIDE DEF r
  <2>3. Round(v, r, bn, n) BY <2>1, <2>2, ReadBinsIs
  <2> QED BY <2>3 DEF Round
<1> HIDE DEF r, b, stream
<1>6. /\ x \in Nat /\ (h * r) * 128 <= x /\ x < (h * r + r) * 128
      /\ DecoderAt(DecRegs(x - (h * r) * 128, r, b), stream, t, g, V)
  BY <1>4 DEF TakenBins
<1>7. RoundBins(v, r, bn, n) = h /\ RoundValue(v, r, bn, n) = x - (h * r) * 128
  <2>1. CASE r = 256
    <3>1. (h * 256) * 128 <= OnValue(v, n, bn) /\ OnValue(v, n, bn) < (h * 256 + 256) * 128 BY <1>6, <2>1
    <3>2. LowBits(Shr(v, 15 - n), n) = h
          /\ LowBits(Shl(v, n), 15) + Fresh(n, bn) = OnValue(v, n, bn) - (h * 256) * 128
      <4>1. AlignedRound(v, bn, n, h) BY <1>1, <1>3, <3>1, AlignedBins
      <4> QED BY <4>1 DEF AlignedRound
    <3> QED BY <2>1, <3>2 DEF RoundBins, RoundValue
  <2>2. CASE r # 256
    <3>1. 2^n \in Nat BY PowType
    <3> DEFINE p == 2^n
    <3>2. p \in Nat /\ h < p BY <3>1
    <3>3. Shl(r, 7) = r * 128 BY SmallPowers DEF Shl
    <3>a. RoundBins(v, r, bn, n) = LowestOf(x \div Shl(r, 7), p - 1) BY <2>2 DEF RoundBins
    <3>b. RoundValue(v, r, bn, n) = x - LowestOf(x \div Shl(r, 7), p - 1) * Shl(r, 7) BY <2>2 DEF RoundValue
    <3> HIDE DEF p, x
    <3>4. LowestOf(x \div (r * 128), p - 1) = h BY <1>2, <1>6, <3>2, QuotientOf
    <3>5. h * (r * 128) = (h * r) * 128 BY <1>2
    <3> QED BY <3>3, <3>4, <3>5, <3>a, <3>b
  <2> QED BY <2>1, <2>2
<1>8. UNCHANGED <<pc, encVars, decCtx, decoded>> BY DEF ReadBins
<1> QED BY <1>5, <1>6, <1>7, <1>8 DEF RoundTo

BinsPart(left, bins, offset) == [kind |-> "bins", left |-> left, bins |-> bins, offset |-> offset]
PrefixPart(prefix) == [kind |-> "prefix", prefix |-> prefix]

\* What is known of the answer leads from s to t: so many bins are missing ...
Missing(s, t, op, left, bins, offset) ==
  /\ left \in Nat /\ bins \in Nat
  /\ \E Q \in Nat : /\ Q < 2^left /\ t = WithBins(s, left, Q)
                    /\ \/ op.kind = "eps" /\ op.bins = bins * 2^left + Q
                       \/ op.kind = "rem" /\ op.value = offset + (bins * 2^left + Q)

\* ... or there are at least so many ones in front.
CodeFrom(s, t, op, k, ones, zeros, length, suffix) ==
  /\ IsCode(op, k + ones, zeros, length, suffix)
  /\ t = WithBins(s, ones + zeros + length, CodeBins(ones, zeros, length, suffix))
Counting(s, t, op, k) ==
  /\ k \in Nat /\ k < MaxOnes(op) /\ op.kind = "rem"
  /\ \E ones \in Nat : \E zeros, length, suffix : CodeFrom(s, t, op, k, ones, zeros, length, suffix)

PartAt(s, t, op, p) ==
  \/ \E left, bins, offset : p = BinsPart(left, bins, offset) /\ Missing(s, t, op, left, bins, offset)
  \/ \E k : p = PrefixPart(k) /\ Counting(s, t, op, k)

\* decodeBinsEP begins with all bins missing.
LEMMA EpsStarts ==
  ASSUME NEW s, NEW t, NEW op \in Ops, op.kind = "eps", t = WithBins(s, op.num, op.bins)
  PROVE  PartAt(s, t, op, BinsPart(op.num, 0, 0))
<1> DEFINE n == op.num
           Q == op.bins
<1>1. n \in Nat /\ Q \in Nat /\ Q < 2^n BY OpFields
<1>2. 2^n \in Nat BY <1>1, PowType
<1>3. Q = 0 * 2^n + Q BY <1>1, <1>2
<1> HIDE DEF n
<1>4. Missing(s, t, op, n, 0, 0) BY <1>1, <1>3 DEF Missing, n
<1> QED BY <1>4 DEF PartAt, n

\* decodeRemAbsEP begins with counting.
LEMMA RemStarts ==
  ASSUME NEW s, NEW t, NEW op \in Ops, op.kind = "rem", Follows(s, op, t)
  PROVE  PartAt(s, t, op, PrefixPart(0))
<1>1. PICK ones, zeros, length, suffix :
        /\ IsCode(op, ones, zeros, length, suffix)
        /\ t = WithBins(s, ones + zeros + length, CodeBins(ones, zeros, length, suffix))
  BY DEF Follows
<1>2. ones \in Nat BY <1>1 DEF IsCode
<1>3. 0 + ones = ones BY <1>2
<1>4. 0 \in Nat /\ 0 < MaxOnes(op)
  <2>1. op.log2Range \in 0..31 BY OpFields
  <2> DEFINE l == op.log2Range
  <2>2. l \in 0..31 BY <2>1
  <2> HIDE DEF l
  <2>3. 0 < 32 - l BY <2>2
  <2> QED BY <2>3 DEF MaxOnes, l
<1>5. CodeFrom(s, t, op, 0, ones, zeros, length, suffix) BY <1>1, <1>3 DEF CodeFrom
<1>6. Counting(s, t, op, 0) BY <1>2, <1>4, <1>5 DEF Counting
<1> QED BY <1>6 DEF PartAt

\* The next chunk of the bins that are missing.
LEMMA ChunkOfMissing ==
  ASSUME NEW s \in Interval, NEW t, NEW op, NEW left, NEW bins, NEW offset, Missing(s, t, op, left, bins, offset),
         NEW n \in Nat, n <= left
  PROVE  \E h \in Nat : /\ h < 2^n /\ WithBins(s, n, h) \in Interval /\ Inside(WithBins(s, n, h), t)
                        /\ Missing(WithBins(s, n, h), t, op, left - n, bins * 2^n + h, offset)
<1>1. left \in Nat /\ bins \in Nat BY DEF Missing
<1>2. PICK Q \in Nat :
        /\ Q < 2^left /\ t = WithBins(s, left, Q)
        /\ \/ op.kind = "eps" /\ op.bins = bins * 2^left + Q
           \/ op.kind = "rem" /\ op.value = offset + (bins * 2^left + Q)
  BY DEF Missing
<1> DEFINE m == left - n
           p == 2^n
           q == 2^m
           h == Q \div q
           l == Q % q
           u == WithBins(s, n, h)
<1>3. m \in Nat /\ left = n + m BY <1>1
<1> HIDE DEF m
<1>4. p \in Nat \ {0} /\ q \in Nat \ {0} /\ 2^left = p * q BY <1>3, PowPositive, PowSum
<1> HIDE DEF p, q
<1>5. h \in Nat /\ l \in 0..q-1 /\ Q = q * h + l BY <1>4, DivFacts
<1> HIDE DEF l
<1>6. h < p
  <2>1. Q < p * q /\ 0 * q <= Q /\ 0 \in Nat /\ p \in Nat BY <1>2, <1>4
  <2> QED BY <1>4, <2>1, DivBetween
<1> HIDE DEF h
<1>7. l \in Nat /\ l < q /\ Q = h * q + l BY <1>4, <1>5
<1>8. u \in Interval BY <1>5, <1>6, BinsInside DEF p
<1>9. t = WithBins(u, m, l)
  <2>1. WithBins(WithBins(s, n, h), m, l) = WithBins(s, n + m, h * 2^m + l) BY <1>3, <1>5, <1>7, BinsTwice
  <2> QED BY <1>2, <1>3, <1>7, <2>1 DEF q
<1>10. bins * 2^left + Q = (bins * p + h) * q + l /\ bins * p + h \in Nat
  <2>1. bins * (p * q) + (h * q + l) = (bins * p + h) * q + l BY <1>1, <1>4, <1>5, <1>7
  <2>2. bins * p + h \in Nat BY <1>1, <1>4, <1>5
  <2> QED BY <1>4, <1>7, <2>1, <2>2
<1> HIDE DEF u
<1>11. Inside(u, t) BY <1>3, <1>7, <1>8, <1>9, BinsInside DEF q
<1> DEFINE B == bins * p + h
<1>12. \/ op.kind = "eps" /\ op.bins = B * 2^m + l
       \/ op.kind = "rem" /\ op.value = offset + (B * 2^m + l)
  BY <1>2, <1>10 DEF q
<1>13. B \in Nat BY <1>10
<1> HIDE DEF B
<1>14. Missing(u, t, op, m, B, offset) BY <1>3, <1>7, <1>9, <1>12, <1>13 DEF Missing, q
<1> QED BY <1>5, <1>6, <1>8, <1>11, <1>14 DEF u, m, B, p

\* No bins are missing: the answer is known.
LEMMA NoneMissing ==
  ASSUME NEW s \in Interval, NEW t, NEW op, NEW bins, NEW offset, Missing(s, t, op, 0, bins, offset)
  PROVE  /\ t = s
         /\ op.kind \in {"eps", "rem"}
         /\ op.kind = "eps" => op.bins = bins
         /\ op.kind = "rem" => op.value = offset + bins
<1>1. PICK Q \in Nat :
        /\ Q < 2^0 /\ t = WithBins(s, 0, Q)
        /\ \/ op.kind = "eps" /\ op.bins = bins * 2^0 + Q
           \/ op.kind = "rem" /\ op.value = offset + (bins * 2^0 + Q)
  BY DEF Missing
<1>2. bins \in Nat BY DEF Missing
<1>3. Q = 0 BY <1>1, SmallPowers
<1>4. bins * 2^0 + Q = bins BY <1>2, <1>3, SmallPowers
<1>5. t = s BY <1>1, <1>3, NoBins
<1> QED BY <1>1, <1>4, <1>5

\* A prefix has a longest length.
LEMMA MaxOnesType ==
  ASSUME NEW op \in Ops, op.kind = "rem"
  PROVE  MaxOnes(op) \in Nat \ {0}
<1>1. op.log2Range \in 0..31 BY OpFields
<1> DEFINE l == op.log2Range
<1>2. l \in 0..31 BY <1>1
<1> HIDE DEF l
<1>3. 32 - l \in Nat \ {0} BY <1>2
<1> QED BY <1>3 DEF MaxOnes, l

\* The suffix is below the place of a zero as well.
LEMMA SuffixBelow ==
  ASSUME NEW zeros \in {0, 1}, NEW length \in Nat, NEW suffix \in Nat, suffix < 2^length
  PROVE  zeros + length \in Nat /\ suffix < 2^(zeros + length)
<1>1. zeros \in Nat /\ length <= zeros + length /\ zeros + length \in Nat OBVIOUS
<1>2. 2^length <= 2^(zeros + length) BY <1>1, PowGrows
<1> DEFINE p == 2^length
           q == 2^(zeros + length)
<1>3. p \in Nat /\ q \in Nat /\ p <= q /\ suffix < p BY <1>1, <1>2, PowType
<1> HIDE DEF p, q
<1>4. suffix < q BY <1>3
<1> QED BY <1>1, <1>4 DEF q

\* Another one ...
LEMMA NextOne ==
  ASSUME NEW s \in Interval, NEW t, NEW op \in Ops, op.kind = "rem", NEW k \in Nat, NEW ones \in Nat, NEW zeros, NEW length, NEW suffix,
         CodeFrom(s, t, op, k, ones, zeros, length, suffix), ones # 0
  PROVE  /\ WithBins(s, 1, 1) \in Interval /\ Inside(WithBins(s, 1, 1), t)
         /\ ones - 1 \in Nat /\ k + 1 <= MaxOnes(op)
         /\ CodeFrom(WithBins(s, 1, 1), t, op, k + 1, ones - 1, zeros, length, suffix)
<1> DEFINE r == ones - 1
           m == zeros + length
           p == 2^r
           q == 2^m
           u == WithBins(s, 1, 1)
           B == (p - 1) * q + suffix
<1>1. /\ k + ones <= MaxOnes(op) /\ zeros \in {0, 1} /\ length \in Nat /\ suffix \in Nat /\ suffix < 2^length
      /\ t = WithBins(s, ones + zeros + length, CodeBins(ones, zeros, length, suffix))
      /\ IsCode(op, k + ones, zeros, length, suffix)
  BY DEF CodeFrom, IsCode
<1>2. r \in Nat /\ m \in Nat /\ ones = r + 1 /\ ones + zeros + length = 1 + (r + m)
      /\ r + zeros + length = r + m /\ k + ones = (k + 1) + r
  <2>1. zeros \in Nat BY <1>1
  <2> QED BY <1>1, <2>1
<1>3. k + 1 <= MaxOnes(op)
  <2> DEFINE M == MaxOnes(op)
  <2>1. (k + 1) + r <= M BY <1>1, <1>2
  <2>2. k + 1 <= (k + 1) + r BY <1>2
  <2>3. M \in Int BY MaxOnesType
  <2> HIDE DEF M
  <2> QED BY <1>2, <2>1, <2>2, <2>3 DEF M
<1>4. suffix < q BY <1>1, SuffixBelow
<1>5. p \in Nat \ {0} /\ q \in Nat \ {0} /\ 2^ones = 2 * p /\ 2^(r + m) = p * q
  BY <1>2, PowPositive, PowStep, PowSum
<1>6. CodeBins(ones, zeros, length, suffix) = (2 * p - 1) * q + suffix BY <1>5 DEF CodeBins
<1>7. CodeBins(r, zeros, length, suffix) = B BY DEF CodeBins
<1>8. B \in Nat /\ B < 2^(r + m)
  <2> HIDE DEF m, r
  <2> QED BY <1>1, <1>2, <1>4, CodeBinsType DEF p, q
<1>9. (2 * p - 1) * q + suffix = 1 * (p * q) + B
  <2> HIDE DEF p, q
  <2>1. (2 * p - 1) * q = p * q + (p - 1) * q BY <1>5
  <2>2. p * q \in Nat /\ (p - 1) * q \in Int BY <1>5
  <2> DEFINE X == p * q
             Y == (p - 1) * q
             Z == (2 * p - 1) * q
  <2>3. Z = X + Y /\ X \in Nat /\ Y \in Int BY <2>1, <2>2
  <2> HIDE DEF X, Y, Z
  <2>4. Z + suffix = 1 * X + (Y + suffix) BY <1>1, <2>3
  <2> QED BY <2>4 DEF X, Y, Z
<1>10. u \in Interval
  <2>1. 1 \in Nat /\ 1 < 2^1 BY SmallPowers
  <2> QED BY <2>1, BinsInside
<1> DEFINE n == r + m
<1>11. n \in Nat /\ B \in Nat /\ B < 2^n /\ 2^n = p * q /\ 1 + n = ones + zeros + length
  BY <1>2, <1>5, <1>8
<1> HIDE DEF n, B, p, q
<1>12. t = WithBins(u, n, B)
  <2> DEFINE one == 1
  <2>1. one \in Nat OBVIOUS
  <2> HIDE DEF one
  <2>2. WithBins(WithBins(s, one, one), n, B) = WithBins(s, one + n, one * 2^n + B) BY <1>11, <2>1, BinsTwice
  <2>3. WithBins(WithBins(s, 1, 1), n, B) = WithBins(s, 1 + n, 1 * 2^n + B) BY <2>2 DEF one
  <2> QED BY <1>1, <1>6, <1>9, <1>11, <2>3
<1> HIDE DEF u
<1>13. Inside(u, t) BY <1>10, <1>11, <1>12, BinsInside
<1>14. CodeFrom(u, t, op, k + 1, r, zeros, length, suffix)
  <2>1. IsCode(op, (k + 1) + r, zeros, length, suffix) BY <1>1, <1>2
  <2>2. r + zeros + length = n BY <1>2 DEF n
  <2> QED BY <1>7, <1>12, <2>1, <2>2 DEF CodeFrom
<1> QED BY <1>2, <1>3, <1>10, <1>13, <1>14 DEF u

\* ... or the zero, ...
LEMMA NextZero ==
  ASSUME NEW s \in Interval, NEW t, NEW op \in Ops, op.kind = "rem", NEW k \in Nat, k < MaxOnes(op),
         NEW zeros, NEW length, NEW suffix, CodeFrom(s, t, op, k, 0, zeros, length, suffix)
  PROVE  /\ WithBins(s, 1, 0) \in Interval /\ Inside(WithBins(s, 1, 0), t)
         /\ Missing(WithBins(s, 1, 0), t, op, RemLength(op, k), 0, RemOffset(op, k))
<1> DEFINE u == WithBins(s, 1, 0)
           z == 0
<1>1. /\ length \in Nat /\ suffix \in Nat /\ suffix < 2^length /\ length = RemLength(op, k)
      /\ zeros = 1 /\ op.value = RemOffset(op, k) + suffix
      /\ t = WithBins(s, 0 + zeros + length, CodeBins(0, zeros, length, suffix))
  <2>1. k + 0 = k OBVIOUS
  <2>2. k # MaxOnes(op) BY MaxOnesType
  <2> QED BY <2>1, <2>2 DEF CodeFrom, IsCode
<1>2. CodeBins(0, zeros, length, suffix) = suffix
  <2>1. 2^(zeros + length) \in Nat
    <3>1. zeros + length \in Nat BY <1>1
    <3> QED BY <3>1, PowType
  <2>2. CodeBins(0, zeros, length, suffix) = (1 - 1) * 2^(zeros + length) + suffix BY SmallPowers DEF CodeBins
  <2> QED BY <1>1, <2>1, <2>2
<1>3. 0 + zeros + length = 1 + length BY <1>1
<1>4. 2^length \in Nat BY <1>1, PowType
<1>5. u \in Interval
  <2>1. 0 < 2^1 BY SmallPowers
  <2> QED BY <2>1, BinsInside
<1>6. t = WithBins(u, length, suffix)
  <2> DEFINE one == 1
             zero == 0
  <2>1. one \in Nat /\ zero \in Nat OBVIOUS
  <2> HIDE DEF one, zero
  <2>2. WithBins(WithBins(s, one, zero), length, suffix) = WithBins(s, one + length, zero * 2^length + suffix)
    BY <1>1, <2>1, BinsTwice
  <2>3. u = WithBins(s, one, zero) BY DEF one, zero
  <2>4. zero * 2^length + suffix = suffix BY <1>1, <1>4 DEF zero
  <2> HIDE DEF u
  <2> QED BY <1>1, <1>2, <1>3, <2>2, <2>3, <2>4 DEF one
<1> HIDE DEF u
<1>7. Inside(u, t) BY <1>1, <1>5, <1>6, BinsInside
<1>8. op.value = RemOffset(op, k) + (0 * 2^length + suffix)
  <2>1. 0 * 2^length + suffix = suffix BY <1>1, <1>4
  <2> QED BY <1>1, <2>1
<1>9. Missing(u, t, op, length, 0, RemOffset(op, k)) BY <1>1, <1>6, <1>8 DEF Missing
<1> QED BY <1>1, <1>5, <1>7, <1>9 DEF u

\* ... or there is no zero because there are as many ones as there can be.
LEMMA NoZero ==
  ASSUME NEW s \in Interval, NEW t, NEW op \in Ops, op.kind = "rem", NEW k \in Nat, k = MaxOnes(op),
         NEW ones \in Nat, NEW zeros, NEW length, NEW suffix, CodeFrom(s, t, op, k, ones, zeros, length, suffix)
  PROVE  Missing(s, t, op, RemLength(op, k), 0, RemOffset(op, k))
<1>1. k + ones <= MaxOnes(op) BY DEF CodeFrom, IsCode
<1>2. ones = 0 /\ k + ones = k
  <2> DEFINE M == MaxOnes(op)
  <2>1. k + ones <= M /\ k = M BY <1>1
  <2> HIDE DEF M
  <2> QED BY <2>1
<1>3. /\ length \in Nat /\ suffix \in Nat /\ suffix < 2^length /\ length = RemLength(op, k)
      /\ zeros = 0 /\ op.value = RemOffset(op, k) + suffix
      /\ t = WithBins(s, ones + zeros + length, CodeBins(ones, zeros, length, suffix))
  BY <1>2 DEF CodeFrom, IsCode
<1>4. 2^length \in Nat BY <1>3, PowType
<1>5. CodeBins(ones, zeros, length, suffix) = suffix /\ ones + zeros + length = length
  <2>1. zeros + length = length /\ ones + zeros + length = length BY <1>2, <1>3
  <2>2. CodeBins(ones, zeros, length, suffix) = (1 - 1) * 2^length + suffix
    BY <1>2, <2>1, SmallPowers DEF CodeBins
  <2> QED BY <1>3, <1>4, <2>1, <2>2
<1>6. op.value = RemOffset(op, k) + (0 * 2^length + suffix)
  <2>1. 0 * 2^length + suffix = suffix BY <1>3, <1>4
  <2> QED BY <1>3, <2>1
<1> QED BY <1>3, <1>5, <1>6 DEF Missing

\* What an inner interval holds is held by the outer one.
LEMMA HoldsInside ==
  ASSUME NEW s \in Interval, NEW t \in Interval, Inside(s, t), NEW g, NEW V \in Nat, Spells(g, V), HoldsOf(t, g, V)
  PROVE  HoldsOf(s, g, V)
<1> DEFINE M == 8 * Len(g)
<1>1. M \in Nat BY DEF Spells
<1>2. /\ s.low \in Nat /\ s.range \in Nat /\ s.n \in Nat
      /\ t.low \in Nat /\ t.range \in Nat /\ t.n \in Nat
  BY IntervalFields
<1>3. Nested(s.low, s.range, s.n, t.low, t.range, t.n) BY DEF Inside
<1>4. Holds(t.low, t.range, t.n, V, M) BY DEF HoldsOf
<1> HIDE DEF M
<1>5. Holds(s.low, s.range, s.n, V, M) BY <1>1, <1>2, <1>3, <1>4, HoldsNested
<1> QED BY <1>5 DEF HoldsOf, M

\* Bins leave the contexts alone.
LEMMA WithBinsKeep ==
  ASSUME NEW s \in Interval, NEW n, NEW b
  PROVE  WithBins(s, n, b).ctx = s.ctx
  BY WithBinsFields

\* The prefix counts the ones.
LEMMA PrefixIs ==
  ASSUME NEW op \in Ops, Wanted = op, NEW k \in Nat, part = PrefixPart(k), ReadPrefix
  PROVE  /\ dec' = BinEP.dec /\ in' = BinEP.in /\ UNCHANGED <<pc, encVars, decCtx, decoded>>
         /\ BinEP.bin = 1 /\ k + 1 < MaxOnes(op) => part' = PrefixPart(k + 1)
         /\ BinEP.bin = 1 /\ ~(k + 1 < MaxOnes(op)) =>
              part' = BinsPart(RemLength(op, k + 1), 0, RemOffset(op, k + 1))
         /\ BinEP.bin = 0 => part' = BinsPart(RemLength(op, k), 0, RemOffset(op, k))
<1>1. dec' = BinEP.dec /\ in' = BinEP.in /\ UNCHANGED <<pc, encVars, decCtx, decoded>> BY DEF ReadPrefix
<1>2. part.prefix = k BY DEF PrefixPart
<1> DEFINE c == (k + 1) - (1 - BinEP.bin)
<1>3. part' = IF BinEP.bin = 1 /\ k + 1 < MaxOnes(op) THEN [part EXCEPT !.prefix = k + 1]
              ELSE BinsPart(RemLength(op, c), 0, RemOffset(op, c))
  BY <1>2 DEF ReadPrefix, MaxOnes, RemLength, RemOffset, BinsPart
<1>4. [part EXCEPT !.prefix = k + 1] = PrefixPart(k + 1) BY DEF PrefixPart
<1>5. BinEP.bin = 1 => c = k + 1
  <2> DEFINE b == BinEP.bin
  <2> HIDE DEF b
  <2>1. b = 1 => (k + 1) - (1 - b) = k + 1 OBVIOUS
  <2> QED BY <2>1 DEF b
<1>6. BinEP.bin = 0 => c = k
  <2> DEFINE b == BinEP.bin
  <2> HIDE DEF b
  <2>1. b = 0 => (k + 1) - (1 - b) = k OBVIOUS
  <2> QED BY <2>1 DEF b
<1> HIDE DEF c
<1> QED BY <1>1, <1>3, <1>4, <1>5, <1>6

\* A bin of the prefix is read: the decoder stays on the way to t.
LEMMA PrefixRead ==
  ASSUME NEW op \in Ops, Wanted = op, NEW s \in Interval, NEW t \in Interval, NEW g, NEW V \in Nat, Spells(g, V),
         DecoderAt(dec, in, s, g, V), HoldsOf(t, g, V), NEW k, part = PrefixPart(k), Counting(s, t, op, k),
         ReadPrefix
  PROVE  \E u \in Interval : /\ u.ctx = s.ctx /\ DecoderAt(dec', in', u, g, V) /\ HoldsOf(u, g, V)
                           /\ PartAt(u, t, op, part')
<1>1. k \in Nat /\ k < MaxOnes(op) /\ op.kind = "rem" BY DEF Counting
<1>2. PICK ones \in Nat : \E zeros, length, suffix : CodeFrom(s, t, op, k, ones, zeros, length, suffix)
  BY DEF Counting
<1>3. PICK zeros, length, suffix : CodeFrom(s, t, op, k, ones, zeros, length, suffix) BY <1>2
<1>4. CASE ones = 0
  <2> DEFINE u == WithBins(s, 1, 0)
  <2>1. /\ u \in Interval /\ Inside(u, t)
        /\ Missing(u, t, op, RemLength(op, k), 0, RemOffset(op, k))
    <3>1. CodeFrom(s, t, op, k, 0, zeros, length, suffix) BY <1>3, <1>4
    <3> QED BY <1>1, <3>1, NextZero
  <2>2. u.ctx = s.ctx BY WithBinsKeep
  <2>3. HoldsOf(u, g, V)
    <3> HIDE DEF u
    <3> QED BY <2>1, HoldsInside
  <2>4. BinEP.bin = 0 /\ DecoderAt(BinEP.dec, BinEP.in, u, g, V)
    <3>1. u = WithBins(s, 1, 0) /\ 0 \in {0, 1} OBVIOUS
    <3> HIDE DEF u
    <3> QED BY <2>3, <3>1, EpTaken
  <2>5. dec' = BinEP.dec /\ in' = BinEP.in /\ part' = BinsPart(RemLength(op, k), 0, RemOffset(op, k))
    BY <1>1, <2>4, PrefixIs
  <2> HIDE DEF u
  <2>6. PartAt(u, t, op, part') BY <2>1, <2>5 DEF PartAt
  <2> QED BY <2>1, <2>2, <2>3, <2>4, <2>5, <2>6
<1>5. CASE ones # 0
  <2> DEFINE u == WithBins(s, 1, 1)
             j == k + 1
             r == ones - 1
  <2>1. /\ u \in Interval /\ Inside(u, t) /\ r \in Nat /\ j <= MaxOnes(op)
        /\ CodeFrom(u, t, op, j, r, zeros, length, suffix)
    BY <1>1, <1>3, <1>5, NextOne
  <2>2. u.ctx = s.ctx BY WithBinsKeep
  <2>3. HoldsOf(u, g, V)
    <3> HIDE DEF u
    <3> QED BY <2>1, HoldsInside
  <2>4. BinEP.bin = 1 /\ DecoderAt(BinEP.dec, BinEP.in, u, g, V)
    <3>1. u = WithBins(s, 1, 1) /\ 1 \in {0, 1} OBVIOUS
    <3> HIDE DEF u
    <3> QED BY <2>3, <3>1, EpTaken
  <2>5. /\ dec' = BinEP.dec /\ in' = BinEP.in
        /\ j < MaxOnes(op) => part' = PrefixPart(j)
        /\ ~(j < MaxOnes(op)) => part' = BinsPart(RemLength(op, j), 0, RemOffset(op, j))
    BY <1>1, <2>4, PrefixIs
  <2>6. j \in Nat BY <1>1
  <2>7. MaxOnes(op) \in Nat BY <1>1, MaxOnesType
  <2> HIDE DEF u, j, r
  <2>8. PartAt(u, t, op, part')
    <3>1. CASE j < MaxOnes(op)
      <4>1. Counting(u, t, op, j) BY <1>1, <2>1, <2>6, <3>1 DEF Counting
      <4> QED BY <2>5, <3>1, <4>1 DEF PartAt
    <3>2. CASE ~(j < MaxOnes(op))
      <4>1. j = MaxOnes(op) BY <2>1, <2>6, <2>7, <3>2
      <4>2. Missing(u, t, op, RemLength(op, j), 0, RemOffset(op, j)) BY <1>1, <2>1, <2>6, <4>1, NoZero
      <4> QED BY <2>5, <3>2, <4>2 DEF PartAt
    <3> QED BY <3>1, <3>2
  <2> QED BY <2>1, <2>2, <2>3, <2>4, <2>5, <2>8
<1> QED BY <1>4, <1>5

\* Bins are read.
LEMMA BinsRead ==
  ASSUME NEW op \in Ops, NEW s \in Interval, NEW t \in Interval, NEW g, NEW V \in Nat, Spells(g, V),
         DecoderAt(dec, in, s, g, V), HoldsOf(t, g, V), NEW left, NEW bins, NEW offset,
         part = BinsPart(left, bins, offset), Missing(s, t, op, left, bins, offset), ReadBins
  PROVE  \E u \in Interval : /\ u.ctx = s.ctx /\ DecoderAt(dec', in', u, g, V) /\ HoldsOf(u, g, V)
                           /\ PartAt(u, t, op, part')
<1> DEFINE n == LowestOf(part.left, 8)
<1>1. part.left = left /\ part.bins = bins BY DEF BinsPart
<1>2. left \in Nat /\ bins \in Nat BY DEF Missing
<1>3. left > 0 BY <1>1 DEF ReadBins
<1>4. n \in 1..8 /\ n <= left BY <1>1, <1>2, <1>3 DEF LowestOf
<1>5. n = LowestOf(part.left, 8) /\ n \in Nat BY <1>4
<1> HIDE DEF n
<1>6. PICK h \in Nat : /\ h < 2^n /\ WithBins(s, n, h) \in Interval /\ Inside(WithBins(s, n, h), t)
                       /\ Missing(WithBins(s, n, h), t, op, left - n, bins * 2^n + h, offset)
  BY <1>4, <1>5, ChunkOfMissing
<1> DEFINE u == WithBins(s, n, h)
<1>7. u \in Interval /\ Inside(u, t) /\ u = WithBins(s, n, h) BY <1>6
<1>8. Missing(u, t, op, left - n, bins * 2^n + h, offset) BY <1>6
<1>9. u.ctx = s.ctx BY WithBinsKeep
<1> HIDE DEF u
<1>10. HoldsOf(u, g, V) BY <1>7, HoldsInside
<1>11. /\ DecoderAt(dec', in', u, g, V)
       /\ part' = [part EXCEPT !.left = @ - n, !.bins = Shl(@, n) + h]
  <2>1. h \in Nat /\ h < 2^n BY <1>6
  <2>2. RoundTo(u, g, V, n, h) BY <1>4, <1>5, <1>7, <1>10, <2>1, BinsTaken
  <2> QED BY <2>2 DEF RoundTo
<1>12. part' = BinsPart(left - n, bins * 2^n + h, offset)
  <2> DEFINE l2 == left - n
             b2 == bins * 2^n + h
             p == [kind |-> "bins", left |-> l2, bins |-> bins, offset |-> offset]
  <2>1. part' = [part EXCEPT !.left = l2, !.bins = b2] BY <1>1, <1>11 DEF Shl
  <2> HIDE DEF l2, b2
  <2>2. [part EXCEPT !.left = l2] = p BY DEF BinsPart
  <2>3. [p EXCEPT !.bins = b2] = BinsPart(l2, b2, offset) BY DEF BinsPart
  <2> HIDE DEF p
  <2>4. [part EXCEPT !.left = l2, !.bins = b2] = [[part EXCEPT !.left = l2] EXCEPT !.bins = b2] OBVIOUS
  <2> QED BY <2>1, <2>2, <2>3, <2>4 DEF l2, b2
<1> DEFINE l2 == left - n
           b2 == bins * 2^n + h
<1>13. part' = BinsPart(l2, b2, offset) /\ Missing(u, t, op, l2, b2, offset) BY <1>8, <1>12
<1> HIDE DEF l2, b2
<1>14. PartAt(u, t, op, part') BY <1>13 DEF PartAt
<1> QED BY <1>7, <1>9, <1>10, <1>11, <1>14

\* The call is answered.
LEMMA AnswerIs ==
  ASSUME NEW op \in Ops, Wanted = op, NEW s \in Interval, NEW t, PartAt(s, t, op, part), Answered
  PROVE  t = s /\ decoded' = Append(decoded, op)
<1>1. part.kind = "bins" /\ part.left = 0 BY DEF Answered
<1>2. PICK left, bins, offset : part = BinsPart(left, bins, offset) /\ Missing(s, t, op, left, bins, offset)
  <2>1. \A k : PrefixPart(k).kind = "prefix" BY DEF PrefixPart
  <2>2. ~ \E k : part = PrefixPart(k) /\ Counting(s, t, op, k) BY <1>1, <2>1
  <2> QED BY <2>2 DEF PartAt
<1>3. left = 0 /\ part.bins = bins /\ part.offset = offset BY <1>1, <1>2 DEF BinsPart
<1>4. Missing(s, t, op, 0, bins, offset) BY <1>2, <1>3
<1>5. /\ t = s /\ op.kind \in {"eps", "rem"}
      /\ op.kind = "eps" => op.bins = bins
      /\ op.kind = "rem" => op.value = offset + bins
  BY <1>4, NoneMissing
<1>6. decoded' = Append(decoded, IF op.kind = "eps" THEN [op EXCEPT !.bins = bins]
                                 ELSE [op EXCEPT !.value = offset + bins])
  BY <1>3 DEF Answered, Answer
<1>7. CASE op.kind = "eps"
  <2>1. [op EXCEPT !.bins = op.bins] = op BY <1>7, RightAnswer
  <2> QED BY <1>5, <1>6, <1>7, <2>1
<1>8. CASE op.kind = "rem"
  <2>1. [op EXCEPT !.value = op.value] = op BY <1>8, RightAnswer
  <2>2. op.kind # "eps" BY <1>8
  <2>3. decoded' = Append(decoded, [op EXCEPT !.value = op.value])
    <3>1. op.value = offset + bins BY <1>5, <1>8
    <3> QED BY <1>6, <2>2, <3>1
  <2> QED BY <1>5, <2>1, <2>3
<1> QED BY <1>5, <1>7, <1>8

-----------------------------------------------------------------------------
(* A call, and the end.                                                  *)

\* A call of the decoder answers what was coded, or begins with its parts.
LEMMA AskIs ==
  ASSUME NEW op \in Ops, Wanted = op, NEW s \in Interval, NEW t \in Interval, NEW g, NEW V \in Nat, Spells(g, V),
         DecodedUpTo(s, g, V), Follows(s, op, t), HoldsOf(t, g, V), Ask
  PROVE  \/ AnsweredWith(op, t, g, V)
         \/ UNCHANGED <<dec, decCtx, in, decoded>> /\ PartAt(s, t, op, part')
<1>1. \/ DecodeBin \/ DecodeBinEP \/ DecodeBinTrm \/ DecodeAlign \/ DecodeBinsEP \/ DecodeRemAbsEP
  BY DEF Ask
<1>2. CASE DecodeBin
  <2>1. op.kind = "ctx" BY <1>2 DEF DecodeBin
  <2>2. t = AfterBin(s, op) BY <2>1 DEF Follows
  <2>3. CASE op.bin # Mps(s.ctx[op.ctx]) BY <1>2, <2>1, <2>2, <2>3, LpsTaken
  <2>4. CASE op.bin = Mps(s.ctx[op.ctx]) BY <1>2, <2>1, <2>2, <2>4, MpsTaken
  <2> QED BY <2>3, <2>4
<1>3. CASE DecodeBinEP
  <2>1. /\ op.kind = "ep" /\ dec' = BinEP.dec /\ in' = BinEP.in
        /\ decoded' = Append(decoded, [op EXCEPT !.bin = BinEP.bin]) /\ decCtx' = decCtx /\ part' = part
    BY <1>3 DEF DecodeBinEP, Answer
  <2> DEFINE bin == op.bin
  <2>2. t = WithBins(s, 1, bin) BY <2>1 DEF Follows
  <2>3. bin \in {0, 1} BY <2>1, OpFields
  <2>4. DecoderAt(dec, in, s, g, V) /\ decCtx = s.ctx BY DEF DecodedUpTo
  <2>5. t.ctx = s.ctx BY <2>2, WithBinsKeep
  <2> HIDE DEF bin
  <2>6. BinEP.bin = bin /\ DecoderAt(BinEP.dec, BinEP.in, t, g, V) BY <2>2, <2>3, <2>4, EpTaken
  <2>7. [op EXCEPT !.bin = bin] = op BY <2>1, RightAnswer DEF bin
  <2>8. AnsweredWith(op, t, g, V) BY <2>1, <2>4, <2>5, <2>6, <2>7 DEF AnsweredWith
  <2> QED BY <2>8
<1>4. CASE DecodeBinTrm
  <2>1. op.kind = "trm" BY <1>4 DEF DecodeBinTrm
  <2>2. t = AfterTrm(s) BY <2>1 DEF Follows
  <2> QED BY <1>4, <2>1, <2>2, TrmTaken
<1>5. CASE DecodeAlign
  <2>1. op.kind = "align" BY <1>5 DEF DecodeAlign
  <2>2. t = [s EXCEPT !.range = 256] BY <2>1 DEF Follows
  <2> QED BY <1>5, <2>2, AlignTaken
<1>6. CASE DecodeBinsEP
  <2>1. /\ op.kind = "eps" /\ part' = BinsPart(op.num, 0, 0)
        /\ UNCHANGED <<dec, decCtx, in, decoded>>
    BY <1>6 DEF DecodeBinsEP, BinsPart
  <2>2. t = WithBins(s, op.num, op.bins) BY <2>1 DEF Follows
  <2>3. PartAt(s, t, op, part') BY <2>1, <2>2, EpsStarts
  <2> QED BY <2>1, <2>3
<1>7. CASE DecodeRemAbsEP
  <2>1. /\ op.kind = "rem" /\ part' = PrefixPart(0)
        /\ UNCHANGED <<dec, decCtx, in, decoded>>
    BY <1>7 DEF DecodeRemAbsEP, PrefixPart
  <2>3. PartAt(s, t, op, part') BY <2>1, RemStarts
  <2> QED BY <2>1, <2>3
<1> QED BY <1>1, <1>2, <1>3, <1>4, <1>5, <1>6, <1>7

\* The last bits of the substream: a one in the last place that the registers reach.
LEMMA OddEnd ==
  ASSUME NEW z \in Nat, NEW p \in Nat \ {0}, NEW q \in Nat \ {0}, p * q = 128, NEW V \in Nat, V = (z * 2 + 1) * p
  PROVE  ((V % 256) * q) % 256 = 128
<1> DEFINE b == V % 256
           d == V \div 256
           m == z - d * q
<1>1. b \in 0..255 /\ d \in Nat /\ V = 256 * d + b
  <2> DEFINE e == 256
  <2>1. e \in Nat \ {0} OBVIOUS
  <2> HIDE DEF e
  <2>2. V \div e \in Nat /\ V % e \in 0..e-1 /\ V = e * (V \div e) + (V % e) BY <2>1, DivFacts
  <2> QED BY <2>2 DEF e
<1> HIDE DEF b, d
<1>2. V * q = (z * 2 + 1) * 128
  <2>1. V * q = ((z * 2 + 1) * p) * q OBVIOUS
  <2>2. ((z * 2 + 1) * p) * q = (z * 2 + 1) * (p * q) OBVIOUS
  <2> QED BY <2>1, <2>2
<1>3. V * q = 256 * (d * q) + b * q BY <1>1
<1>4. b * q \in Nat /\ d * q \in Nat BY <1>1
<1> DEFINE X == b * q
           Y == d * q
           W == V * q
<1>5. X \in Nat /\ Y \in Nat /\ W = (z * 2 + 1) * 128 /\ W = 256 * Y + X BY <1>2, <1>3, <1>4
<1>6. m = z - Y OBVIOUS
<1> HIDE DEF X, Y, W, m
<1>7. m \in Nat /\ X = 256 * m + 128 BY <1>5, <1>6
<1>8. X % 256 = 128
  <2> DEFINE e == 256
  <2>1. e \in Nat \ {0} /\ 128 \in 0..e-1 /\ X = e * m + 128 BY <1>7
  <2> HIDE DEF e
  <2>2. X % e = 128 BY <1>5, <1>7, <2>1, DivUnique
  <2> QED BY <2>2 DEF e
<1> QED BY <1>8 DEF X, b

AtTheEnd(s, g, v, bn, i) ==
  i = Len(g) /\ v >= (s.range - 2) * 128 /\ (g[i] * 2^(8 + bn)) % 256 = 128

\* At the end all bytes are read, a terminating one is decoded, and the stop pattern is there.
LEMMA LastBits ==
  ASSUME NEW s \in Interval, NEW a \in 0..7, NEW g, NEW v, NEW bn, NEW i,
         Spells(g, EndingOf(s, a)), 2 <= Len(g), 8 * Len(g) = s.n + a,
         Reads(s.low, s.n, v, bn, i, EndingOf(s, a), Len(g))
  PROVE  AtTheEnd(s, g, v, bn, i)
<1> DEFINE low == s.low
           r == s.range
           n == s.n
           L == Len(g)
           x == low + (r - 2)
           z == x \div 2
           y == z * 2 + 1
           p == 2^a
           q == 2^(8 + bn)
           V == EndingOf(s, a)
<1>1. low \in Nat /\ r \in 256..510 /\ n \in Nat BY IntervalFields
<1>2. L \in Nat /\ 2 <= L /\ 8 * L = n + a /\ V \in Nat BY DEF Spells
<1>3. v \in Nat /\ bn \in -8..-1 /\ i \in 0..L /\ n = 8 * i + 1 + bn /\ v + low * 128 = FrontOf(V, L, i) * q
  BY DEF Reads
<1>4. V = y * p BY DEF EndingOf, Padded
<1> HIDE DEF low, r, n, L, p, V
<1>5. i = L /\ bn = -1 - a /\ 8 + bn = 7 - a
  <2> HIDE DEF q
  <2>1. 8 * (L - i) = a + 1 + bn BY <1>1, <1>2, <1>3
  <2>2. L - i = 0 BY <1>2, <1>3, <2>1
  <2> QED BY <1>2, <1>3, <2>1, <2>2
<1>6. x \in Nat /\ z \in Nat /\ y >= x /\ y \in Nat
  <2>1. x \in Nat BY <1>1
  <2> HIDE DEF x
  <2>2. z \in Nat /\ z * 2 + 1 >= x BY <2>1
  <2> QED BY <2>1, <2>2
<1> HIDE DEF z
<1>7. p \in Nat \ {0} /\ q \in Nat \ {0} /\ p * q = 128
  <2> DEFINE m == 7 - a
  <2>1. m \in Nat /\ a + m = 7 /\ a \in Nat OBVIOUS
  <2>2. q = 2^m BY <1>5
  <2> HIDE DEF m
  <2>3. 2^(a + m) = 2^a * 2^m BY <2>1, PowSum
  <2>4. 2^a \in Nat \ {0} /\ 2^m \in Nat \ {0} BY <2>1, PowPositive
  <2>5. p * q = 2^(a + m) BY <2>2, <2>3 DEF p
  <2>6. 2^(a + m) = 128
    <3> DEFINE k == a + m
    <3>1. k = 7 BY <2>1
    <3> HIDE DEF k
    <3>2. 2^k = 128 BY <3>1, SmallPowers
    <3> QED BY <3>2 DEF k
  <2>7. p \in Nat \ {0} /\ q \in Nat \ {0} BY <2>2, <2>4 DEF p
  <2> QED BY <2>5, <2>6, <2>7
<1>8. FrontOf(V, L, i) = V
  <2>1. 8 * (L - i) = 0 BY <1>2, <1>5
  <2>2. 2^(8 * (L - i)) = 1 BY <2>1, SmallPowers
  <2> QED BY <1>2, <2>2 DEF FrontOf, Leading
<1>9. v + low * 128 = y * 128
  <2>1. v + low * 128 = (y * p) * q BY <1>3, <1>4, <1>8
  <2> HIDE DEF q, y
  <2>2. (y * p) * q = y * (p * q) BY <1>6, <1>7
  <2> QED BY <1>7, <2>1, <2>2
<1>10. v >= (r - 2) * 128
  <2> HIDE DEF y, q
  <2>1. y >= low + (r - 2) BY <1>6
  <2> QED BY <1>1, <1>3, <1>6, <1>9, <2>1
<1>11. g[i] = V % 256
  <2>1. L \in 1..Len(g) BY <1>2 DEF L
  <2>2. g[L] = (V \div 2^(8 * (L - L))) % 256 BY <2>1 DEF Spells, L, V
  <2>3. 8 * (L - L) = 0 BY <1>2
  <2>4. 2^(8 * (L - L)) = 1 BY <2>3, SmallPowers
  <2>5. V \div 1 = V BY <1>2
  <2> QED BY <1>5, <2>2, <2>4, <2>5
<1>12. ((V % 256) * q) % 256 = 128
  <2> HIDE DEF q
  <2> QED BY <1>2, <1>4, <1>6, <1>7, OddEnd
<1> QED BY <1>5, <1>10, <1>11, <1>12 DEF L, r, AtTheEnd

\* The substream is read to its end.
LEMMA EndIsReached ==
  ASSUME NEW s \in Interval, NEW a \in 0..7, NEW g, Spells(g, EndingOf(s, a)), 2 <= Len(g), 8 * Len(g) = s.n + a,
         DecoderAt(dec, in, s, g, EndingOf(s, a)), TerminatingBit
  PROVE  in'.ok /\ NumBitsLeft(in') = 0
<1> DEFINE V == EndingOf(s, a)
<1>1. PICK v, bn, i : /\ Reads(s.low, s.n, v, bn, i, V, Len(g))
                      /\ dec = DecRegs(v, s.range, bn) /\ in = InAt(g, i)
  BY DEF DecoderAt
<1>2. dec.value = v /\ dec.range = s.range /\ dec.bitsNeeded = bn BY <1>1, DecRegsFields
<1>3. i = Len(g) /\ v >= (s.range - 2) * 128 /\ (g[i] * 2^(8 + bn)) % 256 = 128
  <2>1. AtTheEnd(s, g, v, bn, i) BY <1>1, LastBits
  <2> QED BY <2>1 DEF AtTheEnd
<1>4. in.fifo = g /\ in.fifoIdx = i /\ in.ok = TRUE BY <1>1, InAtMoved DEF InAt, InputOf
<1>5. dec.value >= Shl(dec.range - 2, 7) BY <1>2, <1>3, SmallPowers DEF Shl
<1>6. StopPattern
  <2>1. 2^8 = 256 BY SmallPowers
  <2> QED BY <1>2, <1>3, <1>4, <2>1 DEF StopPattern, PeekPreviousByte, LowBits, Shl
<1>7. in' = ReadOutTrailingBits([in EXCEPT !.ok = @ /\ dec.value >= Shl(dec.range - 2, 7) /\ StopPattern])
  BY DEF TerminatingBit
<1> DEFINE ok == in.ok /\ dec.value >= Shl(dec.range - 2, 7) /\ StopPattern
<1>8. ok = TRUE BY <1>4, <1>5, <1>6
<1>9. in' = [[in EXCEPT !.ok = ok] EXCEPT !.numHeldBits = 0] BY <1>7 DEF ReadOutTrailingBits
<1> HIDE DEF ok
<1>10. in'.ok /\ in'.fifo = g /\ in'.fifoIdx = i /\ in'.numHeldBits = 0
  BY <1>1, <1>8, <1>9 DEF InAt, InputOf
<1>11. 8 * (Len(g) - i) + 0 = 0
  <2>1. Len(g) \in Nat BY DEF Spells
  <2> QED BY <1>3, <2>1
<1> QED BY <1>10, <1>11 DEF NumBitsLeft

-----------------------------------------------------------------------------
(* The invariant and the theorems.                                       *)

\* H is the history of the coder's intervals: the first is where it starts, each call
\* leads from one to the next, and so each of them is around the last.
History(H, calls) ==
  /\ H \in Seq(Interval) /\ Len(H) = Len(calls) + 1 /\ H[1] = Start
  /\ \A k \in 1..Len(calls) : Follows(H[k], calls[k], H[k + 1])
  /\ \A k \in 1..Len(H) : Inside(H[k], Last(H))

RegistersHeld ==
  \E k \in 9..20 : \E u \in Interval : \E low, bb, num, f, X :
    EncodedAs(u, low, bb, num, k, f, X) /\ enc = Registers(low, u.range, bb, num, k)

\* The encoder has coded the calls up to the chunks that are left of the last one.
Encoding ==
  \E H : History(H, coded) /\ \E s \in Interval : EncoderAt(enc, out, s) /\ encCtx = s.ctx /\ Path(s, todo, Last(H))

\* The bytes g end the last interval, with a bits of padding.
Written(H, g, a) ==
  /\ History(H, coded) /\ a \in 0..7 /\ out = AlignedOut(g) /\ 2 <= Len(g)
  /\ 8 * Len(g) = Last(H).n + a /\ Spells(g, EndingOf(Last(H), a))

\* The decoder is between two calls, or knows part of the answer to one.
Position(H, s) ==
  \/ part = NoPart /\ s = H[Len(decoded) + 1]
  \/ Len(decoded) < Len(coded) /\ PartAt(s, H[Len(decoded) + 2], Wanted, part)
Decoding(H, g, V) ==
  \E s \in Interval : DecodedUpTo(s, g, V) /\ HoldsOf(s, g, V) /\ Position(H, s)

Unread == decoded = <<>> /\ part = NoPart /\ decCtx = Contexts0

InStep ==
  /\ pc \in {"encode", "start", "decode", "done"}
  /\ coded \in Seq(Ops) /\ decoded \in Seq(Ops) /\ Len(decoded) <= Len(coded)
  /\ \A i \in 1..Len(decoded) : decoded[i] = coded[i]
  /\ out.ok /\ in.ok

CabacInv ==
  /\ InStep /\ RegistersHeld
  /\ pc = "encode" => Unread /\ Encoding
  /\ pc = "start" => Unread /\ \E H, g, a : Written(H, g, a)
  /\ pc = "decode" => \E H, g, a : Written(H, g, a) /\ Decoding(H, g, EndingOf(Last(H), a))
  /\ pc = "done" => Len(decoded) = Len(coded) /\ NumBitsLeft(in) = 0

-----------------------------------------------------------------------------
\* A history begins with no call ...
LEMMA HistoryStarts == History(<<Start>>, <<>>) /\ Last(<<Start>>) = Start
<1>1. Start \in Interval /\ Inside(Start, Start) BY StartType, InsideItself
<1> DEFINE H == <<Start>>
<1>2. H \in Seq(Interval) /\ Len(H) = 1 /\ H[1] = Start BY <1>1
<1>3. Len(<<>>) = 0 OBVIOUS
<1> HIDE DEF H
<1>4. Last(H) = Start BY <1>2 DEF Last
<1>5. \A k \in 1..Len(H) : Inside(H[k], Last(H)) BY <1>1, <1>2, <1>4
<1>6. \A k \in 1..0 : Follows(H[k], <<>>[k], H[k + 1]) OBVIOUS
<1> QED BY <1>2, <1>3, <1>4, <1>5, <1>6 DEF History, H

\* ... and grows by each.
LEMMA HistoryGrows ==
  ASSUME NEW calls \in Seq(Ops), NEW H, History(H, calls), NEW op \in Ops, NEW t, Follows(Last(H), op, t)
  PROVE  History(Append(H, t), Append(calls, op)) /\ Last(Append(H, t)) = t
<1> DEFINE n == Len(calls)
           G == Append(H, t)
           c == Append(calls, op)
<1>1. n \in Nat /\ H \in Seq(Interval) /\ Len(H) = n + 1 /\ H[1] = Start /\ Last(H) = H[n + 1]
  BY DEF History, Last
<1>2. H[n + 1] \in Interval BY <1>1
<1>3. t \in Interval /\ Inside(H[n + 1], t) BY <1>1, <1>2, FollowsInside
<1>4. G \in Seq(Interval) /\ Len(G) = n + 2 /\ Len(c) = n + 1 BY <1>1, <1>3
<1>5. \A k \in 1..(n + 1) : G[k] = H[k] BY <1>1
<1>6. G[n + 2] = t /\ G[1] = Start
  <2>1. (n + 1) + 1 = n + 2 /\ 1 \in 1..(n + 1) BY <1>1
  <2> QED BY <1>1, <1>3, <1>5, <2>1
<1>7. Last(G) = t BY <1>4, <1>6 DEF Last
<1>8. ASSUME NEW k \in 1..(n + 1) PROVE Follows(G[k], c[k], G[k + 1])
  <2>1. CASE k = n + 1
    <3>1. c[k] = op /\ G[k] = H[n + 1] /\ k + 1 = n + 2 BY <1>1, <1>5, <2>1
    <3> QED BY <1>1, <1>6, <3>1
  <2>2. CASE k # n + 1
    <3>1. k \in 1..n /\ k + 1 \in 1..(n + 1) /\ c[k] = calls[k] BY <1>1, <2>2
    <3>2. Follows(H[k], calls[k], H[k + 1]) BY <3>1 DEF History
    <3> QED BY <1>5, <3>1, <3>2
  <2> QED BY <2>1, <2>2
<1>9. ASSUME NEW k \in 1..(n + 2) PROVE Inside(G[k], t)
  <2>1. CASE k = n + 2 BY <1>3, <1>6, <2>1, InsideItself
  <2>2. CASE k # n + 2
    <3>1. k \in 1..(n + 1) BY <1>1, <2>2
    <3>2. Inside(H[k], H[n + 1]) /\ H[k] \in Interval BY <1>1, <3>1 DEF History
    <3>3. Inside(H[k], t) BY <1>2, <1>3, <3>2, InsideTrans
    <3> QED BY <1>5, <3>1, <3>3
  <2> QED BY <2>1, <2>2
<1> HIDE DEF G, c
<1>10. History(G, c)
  <2>1. n + 2 = (n + 1) + 1 BY <1>1
  <2> QED BY <1>4, <1>6, <1>7, <1>8, <1>9, <2>1 DEF History
<1> QED BY <1>7, <1>10 DEF G, c

\* The intervals of a history.
LEMMA HistoryAt ==
  ASSUME NEW calls \in Seq(Ops), NEW H, History(H, calls)
  PROVE  /\ Last(H) \in Interval /\ Last(H) = H[Len(calls) + 1] /\ 9 <= Last(H).n
         /\ \A k \in 0..Len(calls) : H[k + 1] \in Interval /\ Inside(H[k + 1], Last(H))
         /\ \A k \in 0..Len(calls) : k < Len(calls) => Follows(H[k + 1], calls[k + 1], H[k + 2])
<1> DEFINE n == Len(calls)
<1>1. n \in Nat /\ H \in Seq(Interval) /\ Len(H) = n + 1 /\ H[1] = Start /\ Last(H) = H[n + 1]
  BY DEF History, Last
<1>2. \A k \in 0..n : k + 1 \in 1..(n + 1) BY <1>1
<1>3. \A k \in 0..n : H[k + 1] \in Interval /\ Inside(H[k + 1], Last(H)) BY <1>1, <1>2 DEF History
<1>4. Last(H) \in Interval BY <1>1
<1>5. 9 <= Last(H).n
  <2>1. Inside(Start, Last(H))
    <3>1. 0 \in 0..n /\ 0 + 1 = 1 BY <1>1
    <3>2. 1 \in 1..Len(H) BY <1>1
    <3> QED BY <1>1, <3>2 DEF History
  <2>2. Start.n = 9 BY DEF Start
  <2> QED BY <2>1, <2>2 DEF Inside, Nested
<1>6. ASSUME NEW k \in 0..n, k < n PROVE Follows(H[k + 1], calls[k + 1], H[k + 2])
  <2>1. k + 1 \in 1..n /\ (k + 1) + 1 = k + 2 BY <1>1, <1>6
  <2>2. Follows(H[k + 1], calls[k + 1], H[(k + 1) + 1]) BY <2>1 DEF History
  <2> QED BY <2>1, <2>2
<1> QED BY <1>1, <1>3, <1>4, <1>5, <1>6

\* Where the encoder is, its registers are as they should be, and its output has not failed.
LEMMA RegistersAt ==
  ASSUME NEW s \in Interval, NEW e, NEW o, EncoderAt(e, o, s)
  PROVE  /\ \E k \in 9..20 : \E u \in Interval : \E low, bb, num, f, X :
              EncodedAs(u, low, bb, num, k, f, X) /\ e = Registers(low, u.range, bb, num, k)
         /\ o.ok
<1>1. PICK low, bb, num, w, f, X :
        /\ w \in 9..20 /\ EncodedAs(s, low, bb, num, w, f, X)
        /\ e = Registers(low, s.range, bb, num, w) /\ o = AlignedOut(f)
  BY DEF EncoderAt
<1>2. o.ok BY <1>1 DEF AlignedOut
<1> QED BY <1>1, <1>2

-----------------------------------------------------------------------------
\* The invariant holds at first.
LEMMA StartsWell == Init => CabacInv
<1> SUFFICES ASSUME Init PROVE CabacInv OBVIOUS
<1>1. InStep BY DEF Init, InStep, EmptyOutput, InputOf
<1>2. EncoderAt(enc, out, Start) /\ encCtx = Start.ctx BY StartIsCoded DEF Init, Start
<1>3. Start \in Interval BY StartType
<1>4. RegistersHeld BY <1>2, <1>3, RegistersAt DEF RegistersHeld
<1>5. Encoding
  <2>1. Path(Start, todo, Start) BY <1>3, PathNothing DEF Init
  <2>2. History(<<Start>>, coded) /\ Last(<<Start>>) = Start BY HistoryStarts DEF Init
  <2> DEFINE H == <<Start>>
  <2>3. History(H, coded) /\ Path(Start, todo, Last(H)) BY <2>1, <2>2
  <2> HIDE DEF H
  <2> QED BY <1>2, <1>3, <2>3 DEF Encoding
<1>6. Unread /\ pc = "encode" BY DEF Init, Unread
<1> QED BY <1>1, <1>4, <1>5, <1>6 DEF CabacInv

\* A call that is coded leads to a new interval.
LEMMA Called ==
  ASSUME CabacInv, Code
  PROVE  Encoding' /\ RegistersHeld' /\ out'.ok /\ \E op \in Ops : coded' = Append(coded, op)
<1>1. pc = "encode" /\ todo = <<>> BY DEF Code
<1>2. coded \in Seq(Ops) BY DEF CabacInv, InStep
<1>3. PICK H : History(H, coded) /\ \E s \in Interval : EncoderAt(enc, out, s) /\ encCtx = s.ctx /\ Path(s, todo, Last(H))
  BY <1>1 DEF CabacInv, Encoding
<1>4. PICK s \in Interval : EncoderAt(enc, out, s) /\ encCtx = s.ctx /\ Path(s, todo, Last(H))
  BY <1>3
<1>5. s = Last(H) BY <1>1, <1>4, PathEnds
<1>6. PICK op \in Ops :
        /\ coded' = Append(coded, op)
        /\ \/ EncodeBin(op) \/ EncodeBinEP(op) \/ EncodeBinTrm(op) \/ Align(op)
           \/ EncodeBinsEP(op) \/ EncodeRemAbsEP(op)
  BY DEF Code
<1>7. \E t \in Interval, u \in Interval :
        Follows(s, op, t) /\ EncoderAt(enc', out', u) /\ encCtx' = u.ctx /\ Path(u, todo', t)
  <2>1. CASE EncodeBin(op)
    <3> DEFINE t == AfterBin(s, op)
    <3>1. t \in Interval /\ EncoderAt(enc', out', t) /\ encCtx' = t.ctx /\ Follows(s, op, t) /\ todo' = todo
      BY <1>4, <2>1, CtxCoded
    <3> HIDE DEF t
    <3> QED BY <1>1, <3>1, PathNothing
  <2>2. CASE EncodeBinEP(op)
    <3> DEFINE t == WithBins(s, 1, op.bin)
    <3>1. t \in Interval /\ EncoderAt(enc', out', t) /\ encCtx' = t.ctx /\ Follows(s, op, t) /\ todo' = todo
      BY <1>4, <2>2, EpCoded
    <3> HIDE DEF t
    <3> QED BY <1>1, <3>1, PathNothing
  <2>3. CASE EncodeBinTrm(op)
    <3> DEFINE t == AfterTrm(s)
    <3>1. t \in Interval /\ EncoderAt(enc', out', t) /\ encCtx' = t.ctx /\ Follows(s, op, t) /\ todo' = todo
      BY <1>4, <2>3, TrmCoded
    <3> HIDE DEF t
    <3> QED BY <1>1, <3>1, PathNothing
  <2>4. CASE Align(op)
    <3> DEFINE t == [s EXCEPT !.range = 256]
    <3>1. t \in Interval /\ EncoderAt(enc', out', t) /\ encCtx' = t.ctx /\ Follows(s, op, t) /\ todo' = todo
      BY <1>4, <2>4, AlignCoded
    <3> HIDE DEF t
    <3> QED BY <1>1, <3>1, PathNothing
  <2>5. CASE EncodeBinsEP(op)
    <3>1. \E t \in Interval : Follows(s, op, t) /\ Path(s, todo', t) BY <2>5, BinsPath
    <3>2. EncoderAt(enc', out', s) /\ encCtx' = s.ctx BY <1>4, <2>5 DEF EncodeBinsEP
    <3> QED BY <3>1, <3>2
  <2>6. CASE EncodeRemAbsEP(op)
    <3>1. \E t \in Interval : Follows(s, op, t) /\ Path(s, todo', t) BY <2>6, RemPath
    <3>2. EncoderAt(enc', out', s) /\ encCtx' = s.ctx
      <4>1. enc' = enc /\ out' = out /\ encCtx' = encCtx BY <2>6 DEF EncodeRemAbsEP
      <4> QED BY <1>4, <4>1
    <3> QED BY <3>1, <3>2
  <2> QED BY <1>6, <2>1, <2>2, <2>3, <2>4, <2>5, <2>6
<1>8. PICK t \in Interval, u \in Interval :
        Follows(s, op, t) /\ EncoderAt(enc', out', u) /\ encCtx' = u.ctx /\ Path(u, todo', t)
  BY <1>7
<1>9. History(Append(H, t), coded') /\ Last(Append(H, t)) = t
  <2>1. Follows(Last(H), op, t) BY <1>5, <1>8
  <2> QED BY <1>2, <1>3, <1>6, <2>1, HistoryGrows
<1> DEFINE G == Append(H, t)
<1>10. History(G, coded') /\ Path(u, todo', Last(G)) BY <1>8, <1>9
<1> HIDE DEF G
<1>11. Encoding' BY <1>8, <1>10 DEF Encoding
<1>12. RegistersHeld' /\ out'.ok BY <1>8, RegistersAt DEF RegistersHeld
<1> QED BY <1>6, <1>11, <1>12

\* A call of the encoder keeps the invariant.
LEMMA CodeKeeps == CabacInv /\ Code => CabacInv'
<1> SUFFICES ASSUME CabacInv, Code PROVE CabacInv' OBVIOUS
<1>1. Encoding' /\ RegistersHeld' /\ out'.ok BY Called
<1>2. PICK op \in Ops : coded' = Append(coded, op) BY Called
<1>3. pc = "encode" /\ pc' = "encode" /\ UNCHANGED <<dec, decCtx, in, decoded, part>> BY DEF Code, decVars
<1>4. InStep /\ Unread BY <1>3 DEF CabacInv
<1>5. coded \in Seq(Ops) /\ in.ok /\ decoded = <<>> BY <1>4 DEF InStep, Unread
<1>6. coded' \in Seq(Ops) BY <1>2, <1>5
<1>7. InStep'
  <2>1. decoded' = <<>> /\ in'.ok BY <1>3, <1>5
  <2>2. Len(<<>>) = 0 /\ Len(coded') \in Nat BY <1>6
  <2> QED BY <1>1, <1>3, <1>6, <2>1, <2>2 DEF InStep
<1>8. Unread' BY <1>3, <1>4 DEF Unread
<1> QED BY <1>1, <1>3, <1>7, <1>8 DEF CabacInv

\* A chunk keeps it.
LEMMA CodeChunkKeeps == CabacInv /\ CodeChunk => CabacInv'
<1> SUFFICES ASSUME CabacInv, CodeChunk PROVE CabacInv' OBVIOUS
<1>1. pc = "encode" /\ pc' = "encode" /\ UNCHANGED <<encCtx, coded, dec, decCtx, in, decoded, part>>
  BY DEF CodeChunk, decVars
<1>2. InStep /\ Unread /\ Encoding BY <1>1 DEF CabacInv
<1>3. PICK H : History(H, coded) /\ \E s \in Interval : EncoderAt(enc, out, s) /\ encCtx = s.ctx /\ Path(s, todo, Last(H))
  BY <1>2 DEF Encoding
<1>4. PICK s \in Interval : EncoderAt(enc, out, s) /\ encCtx = s.ctx /\ Path(s, todo, Last(H))
  BY <1>3
<1>5. PICK t \in Interval : EncoderAt(enc', out', t) /\ encCtx' = t.ctx /\ Path(t, todo', Last(H))
  BY <1>4, ChunkCoded
<1>6. Encoding' BY <1>1, <1>3, <1>5 DEF Encoding
<1>7. RegistersHeld' /\ out'.ok BY <1>5, RegistersAt DEF RegistersHeld
<1>8. InStep' /\ Unread' BY <1>1, <1>2, <1>7 DEF InStep, Unread
<1> QED BY <1>1, <1>6, <1>7, <1>8 DEF CabacInv

\* The end of the slice keeps it: what was encoded is now in the bytes.
LEMMA EndOfSliceKeeps == CabacInv /\ EndOfSlice => CabacInv'
<1> SUFFICES ASSUME CabacInv, EndOfSlice PROVE CabacInv' OBVIOUS
<1>1. pc = "encode" /\ pc' = "start" /\ todo = <<>> /\ UNCHANGED <<coded, dec, decCtx, in, decoded, part>>
  BY DEF EndOfSlice, decVars
<1>2. InStep /\ Unread /\ Encoding BY <1>1 DEF CabacInv
<1>3. PICK H : History(H, coded) /\ \E s \in Interval : EncoderAt(enc, out, s) /\ encCtx = s.ctx /\ Path(s, todo, Last(H))
  BY <1>2 DEF Encoding
<1>4. PICK s \in Interval : EncoderAt(enc, out, s) /\ encCtx = s.ctx /\ Path(s, todo, Last(H))
  BY <1>3
<1>5. s = Last(H) BY <1>1, <1>4, PathEnds
<1>6. /\ \E g : \E a \in 0..7 : out' = AlignedOut(g) /\ 8 * Len(g) = s.n + a /\ Spells(g, EndingOf(s, a))
      /\ \E k \in 9..20 : \E u \in Interval : \E low, bb, num, f, X :
           EncodedAs(u, low, bb, num, k, f, X) /\ enc' = Registers(low, u.range, bb, num, k)
  BY <1>4, SliceEnded
<1>7. PICK g : \E a \in 0..7 : out' = AlignedOut(g) /\ 8 * Len(g) = s.n + a /\ Spells(g, EndingOf(s, a))
  BY <1>6
<1>8. PICK a \in 0..7 : out' = AlignedOut(g) /\ 8 * Len(g) = s.n + a /\ Spells(g, EndingOf(s, a))
  BY <1>7
<1>9. 9 <= s.n /\ s.n \in Nat
  <2>1. coded \in Seq(Ops) BY <1>2 DEF InStep
  <2>2. 9 <= Last(H).n BY <1>3, <2>1, HistoryAt
  <2>3. s.n \in Nat BY <1>4, IntervalFields
  <2> QED BY <1>5, <2>2, <2>3
<1>10. 2 <= Len(g)
  <2> DEFINE L == Len(g)
             n == s.n
  <2>1. L \in Nat BY <1>8 DEF Spells
  <2>2. n \in Nat /\ 9 <= n /\ 8 * L = n + a BY <1>8, <1>9
  <2> HIDE DEF L, n
  <2>3. 2 <= L BY <2>1, <2>2
  <2> QED BY <2>3 DEF L
<1>11. Written(H, g, a)'
  BY <1>1, <1>3, <1>5, <1>8, <1>10 DEF Written
<1>12. RegistersHeld' BY <1>6 DEF RegistersHeld
<1>13. out'.ok BY <1>8 DEF AlignedOut
<1>14. InStep' /\ Unread' BY <1>1, <1>2, <1>13 DEF InStep, Unread
<1> QED BY <1>1, <1>11, <1>12, <1>14 DEF CabacInv

-----------------------------------------------------------------------------
\* What was written is held by each interval of its history.
LEMMA WrittenHeld ==
  ASSUME NEW H, NEW g, NEW a, Written(H, g, a), coded \in Seq(Ops), NEW V, V = EndingOf(Last(H), a)
  PROVE  /\ V \in Nat /\ Spells(g, V)
         /\ \A k \in 0..Len(coded) : H[k + 1] \in Interval /\ HoldsOf(H[k + 1], g, V)
<1> DEFINE t == Last(H)
<1>1. /\ History(H, coded) /\ a \in 0..7 /\ 8 * Len(g) = t.n + a /\ Spells(g, EndingOf(t, a))
  BY DEF Written
<1>2. t \in Interval /\ \A k \in 0..Len(coded) : H[k + 1] \in Interval /\ Inside(H[k + 1], t)
  BY <1>1, HistoryAt
<1>3. V = EndingOf(t, a) OBVIOUS
<1> HIDE DEF t
<1>4. EndingOf(t, a) \in Nat /\ Holds(t.low, t.range, t.n, EndingOf(t, a), t.n + a) BY <1>1, <1>2, EndingHeld
<1>5. V \in Nat /\ Spells(g, V) BY <1>1, <1>3, <1>4
<1>6. HoldsOf(t, g, V) BY <1>1, <1>3, <1>4 DEF HoldsOf
<1>7. ASSUME NEW k \in 0..Len(coded) PROVE H[k + 1] \in Interval /\ HoldsOf(H[k + 1], g, V)
  <2> DEFINE s == H[k + 1]
  <2>1. s \in Interval /\ Inside(s, t) BY <1>2
  <2> HIDE DEF s
  <2>2. HoldsOf(s, g, V) BY <1>2, <1>5, <1>6, <2>1, HoldsInside
  <2> QED BY <2>1, <2>2 DEF s
<1> QED BY <1>5, <1>7

\* The decoder's stream has not failed.
LEMMA StreamAt ==
  ASSUME NEW d, NEW b, NEW s, NEW g, NEW V, DecoderAt(d, b, s, g, V)
  PROVE  b.ok
<1>1. PICK v, bn, i : b = InAt(g, i) BY DEF DecoderAt
<1> QED BY <1>1 DEF InAt, InputOf

\* The decoder starts with the interval that the encoder started with.
LEMMA StartDecoderKeeps == CabacInv /\ StartDecoder => CabacInv'
<1> SUFFICES ASSUME CabacInv, StartDecoder PROVE CabacInv' OBVIOUS
<1>1. pc = "start" /\ pc' = "decode" /\ UNCHANGED <<enc, encCtx, out, coded, todo, decCtx, decoded, part>>
  BY DEF StartDecoder, encVars
<1>2. InStep /\ Unread /\ RegistersHeld BY <1>1 DEF CabacInv
<1>3. PICK H, g, a : Written(H, g, a) BY <1>1 DEF CabacInv
<1> DEFINE V == EndingOf(Last(H), a)
<1>4. coded \in Seq(Ops) BY <1>2 DEF InStep
<1>5. V \in Nat /\ Spells(g, V) /\ \A k \in 0..Len(coded) : H[k + 1] \in Interval /\ HoldsOf(H[k + 1], g, V)
  BY <1>3, <1>4, WrittenHeld
<1>6. out = AlignedOut(g) /\ 2 <= Len(g) /\ History(H, coded) BY <1>3 DEF Written
<1>7. DecoderAt(dec', in', Start, g, V)
  <2> HIDE DEF V
  <2> QED BY <1>5, <1>6, DecoderStarted
<1>8. HoldsOf(Start, g, V) /\ Start = H[1]
  <2>1. 0 \in 0..Len(coded) /\ 0 + 1 = 1 BY <1>4
  <2>2. Start = H[1] BY <1>6 DEF History
  <2> QED BY <1>5, <2>1, <2>2
<1>9. decoded' = <<>> /\ part' = NoPart /\ decCtx' = Start.ctx BY <1>1, <1>2 DEF Unread, Start
<1> HIDE DEF V
<1>10. Decoding(H, g, V)'
  <2>1. Position(H, Start)'
    <3>1. Len(<<>>) + 1 = 1 OBVIOUS
    <3> QED BY <1>8, <1>9, <3>1 DEF Position
  <2>2. DecodedUpTo(Start, g, V)' BY <1>7, <1>9 DEF DecodedUpTo
  <2>3. HoldsOf(Start, g, V)' BY <1>8
  <2> QED BY <2>1, <2>2, <2>3, StartType DEF Decoding
<1>11. Written(H, g, a)' BY <1>1, <1>3 DEF Written
<1>12. in'.ok BY <1>7, StreamAt
<1>13. InStep' BY <1>1, <1>2, <1>12 DEF InStep
<1>14. RegistersHeld' BY <1>1, <1>2 DEF RegistersHeld
<1> QED BY <1>1, <1>10, <1>11, <1>13, <1>14 DEF CabacInv, V

\* What is decoded next is what was coded there.
LEMMA NextWanted ==
  ASSUME InStep, Len(decoded) < Len(coded)
  PROVE  /\ Wanted \in Ops /\ Len(decoded) \in 0..Len(coded)
         /\ decoded' = Append(decoded, Wanted) /\ UNCHANGED <<pc, out, coded>> /\ in'.ok =>
              InStep' /\ Len(decoded') = Len(decoded) + 1
<1> DEFINE n == Len(decoded)
<1>1. coded \in Seq(Ops) /\ decoded \in Seq(Ops) /\ \A i \in 1..n : decoded[i] = coded[i] BY DEF InStep
<1>2. n \in 0..Len(coded) /\ n + 1 \in 1..Len(coded) BY <1>1
<1>3. Wanted \in Ops BY <1>1, <1>2 DEF Wanted
<1>4. ASSUME decoded' = Append(decoded, Wanted), UNCHANGED <<pc, out, coded>>, in'.ok
      PROVE  InStep' /\ Len(decoded') = n + 1
  <2>1. decoded' \in Seq(Ops) /\ Len(decoded') = n + 1 BY <1>1, <1>3, <1>4
  <2>2. \A i \in 1..(n + 1) : decoded'[i] = coded[i]
    <3> SUFFICES ASSUME NEW i \in 1..(n + 1) PROVE decoded'[i] = coded[i] OBVIOUS
    <3>1. CASE i = n + 1
      <4>1. decoded'[i] = Wanted BY <1>1, <1>4, <3>1
      <4> QED BY <3>1, <4>1 DEF Wanted
    <3>2. CASE i # n + 1
      <4>1. i \in 1..n /\ decoded'[i] = decoded[i] BY <1>1, <1>2, <1>4, <3>2
      <4> QED BY <1>1, <4>1
    <3> QED BY <3>1, <3>2
  <2>3. n + 1 <= Len(coded) BY <1>2
  <2> QED BY <1>4, <2>1, <2>2, <2>3 DEF InStep
<1> QED BY <1>2, <1>3, <1>4

\* The state that the decoding steps share.
LEMMA WhileDecoding ==
  ASSUME CabacInv, pc = "decode"
  PROVE  /\ InStep /\ RegistersHeld /\ coded \in Seq(Ops)
         /\ \E H, g, a : /\ Written(H, g, a) /\ History(H, coded) /\ Decoding(H, g, EndingOf(Last(H), a))
<1>1. InStep /\ RegistersHeld BY DEF CabacInv
<1>2. \E H, g, a : Written(H, g, a) /\ Decoding(H, g, EndingOf(Last(H), a)) BY DEF CabacInv
<1> QED BY <1>1, <1>2 DEF InStep, Written

\* While decoding goes on, only the position changes.
LEMMA StillDecoding ==
  ASSUME RegistersHeld, NEW H, NEW g, NEW a, Written(H, g, a), UNCHANGED <<pc, encVars>>, pc = "decode",
         InStep', Decoding(H, g, EndingOf(Last(H), a))'
  PROVE  CabacInv'
<1>1. UNCHANGED <<enc, out, coded>> /\ pc' = "decode" BY DEF encVars
<1>2. Written(H, g, a)' BY <1>1 DEF Written
<1>3. RegistersHeld' BY <1>1 DEF RegistersHeld
<1> QED BY <1>1, <1>2, <1>3 DEF CabacInv

\* A call of the decoder keeps the invariant, and answers right if it answers.
LEMMA AskKeeps == CabacInv /\ Ask => CabacInv' /\ (decoded' = decoded \/ decoded' = Append(decoded, Wanted))
<1> SUFFICES ASSUME CabacInv, Ask PROVE CabacInv' /\ (decoded' = decoded \/ decoded' = Append(decoded, Wanted))
  OBVIOUS
<1>1. pc = "decode" /\ part = NoPart /\ Len(decoded) < Len(coded) /\ UNCHANGED <<pc, encVars>> BY DEF Ask
<1>2. InStep /\ RegistersHeld /\ coded \in Seq(Ops) BY <1>1, WhileDecoding
<1>3. PICK H, g, a : /\ Written(H, g, a) /\ History(H, coded) /\ Decoding(H, g, EndingOf(Last(H), a))
  BY <1>1, WhileDecoding
<1> DEFINE V == EndingOf(Last(H), a)
           n == Len(decoded)
           op == Wanted
           t == H[n + 2]
<1>4. V \in Nat /\ Spells(g, V) /\ \A k \in 0..Len(coded) : H[k + 1] \in Interval /\ HoldsOf(H[k + 1], g, V)
  BY <1>2, <1>3, WrittenHeld
<1>5. op \in Ops /\ n \in 0..Len(coded) BY <1>1, <1>2, NextWanted
<1>6. Decoding(H, g, V) BY <1>3
<1> HIDE DEF V
<1>7. PICK s \in Interval : DecodedUpTo(s, g, V) /\ HoldsOf(s, g, V) /\ Position(H, s) BY <1>6 DEF Decoding
<1>8. s = H[n + 1]
  <2>1. ~PartAt(s, H[n + 2], Wanted, part) BY <1>1 DEF PartAt, BinsPart, PrefixPart, NoPart
  <2> QED BY <1>7, <2>1 DEF Position
<1>9. t \in Interval /\ HoldsOf(t, g, V)
  <2>1. n + 1 \in 0..Len(coded) /\ (n + 1) + 1 = n + 2 BY <1>1, <1>2, <1>5
  <2>2. H[(n + 1) + 1] \in Interval /\ HoldsOf(H[(n + 1) + 1], g, V) BY <1>4, <2>1
  <2> QED BY <2>1, <2>2
<1>10. Follows(s, op, t)
  <2>1. Follows(H[n + 1], coded[n + 1], H[n + 2]) BY <1>1, <1>2, <1>3, <1>5, HistoryAt
  <2> QED BY <1>8, <2>1 DEF Wanted
<1>11. Wanted = op OBVIOUS
<1>12. \/ AnsweredWith(op, t, g, V)
       \/ UNCHANGED <<dec, decCtx, in, decoded>> /\ PartAt(s, t, op, part')
  <2> HIDE DEF op, t
  <2> QED BY <1>4, <1>5, <1>7, <1>9, <1>10, <1>11, AskIs
<1>13. coded' = coded /\ out' = out /\ pc' = pc BY <1>1 DEF encVars
<1>14. CASE AnsweredWith(op, t, g, V)
  <2>1. PICK u \in Interval : u = t /\ HoldsOf(u, g, V) BY <1>9
  <2>2. /\ DecoderAt(dec', in', u, g, V) /\ decCtx' = u.ctx
        /\ decoded' = Append(decoded, Wanted) /\ part' = NoPart
    BY <1>1, <1>14, <2>1 DEF AnsweredWith
  <2>3. in'.ok BY <2>2, StreamAt
  <2>4. InStep' /\ Len(decoded') = n + 1 BY <1>1, <1>2, <1>13, <2>2, <2>3, NextWanted
  <2>5. u = H[Len(decoded') + 1]
    <3>1. (n + 1) + 1 = n + 2 BY <1>5
    <3> QED BY <2>1, <2>4, <3>1
  <2>6. Position(H, u)' BY <2>2, <2>5 DEF Position
  <2>7. DecodedUpTo(u, g, V)' BY <2>2 DEF DecodedUpTo
  <2>8. HoldsOf(u, g, V)' BY <2>1
  <2>9. Decoding(H, g, V)' BY <2>6, <2>7, <2>8 DEF Decoding
  <2>10. CabacInv' BY <1>1, <1>2, <1>3, <2>4, <2>9, StillDecoding DEF V
  <2> QED BY <2>2, <2>10
<1>15. CASE UNCHANGED <<dec, decCtx, in, decoded>> /\ PartAt(s, t, op, part')
  <2>1. InStep' BY <1>2, <1>13, <1>15 DEF InStep
  <2>2. Position(H, s)' BY <1>1, <1>13, <1>15 DEF Position, Wanted
  <2>3. DecodedUpTo(s, g, V)' BY <1>7, <1>15 DEF DecodedUpTo
  <2>4. HoldsOf(s, g, V)' BY <1>7
  <2>5. Decoding(H, g, V)' BY <2>2, <2>3, <2>4 DEF Decoding
  <2>6. CabacInv' BY <1>1, <1>2, <1>3, <2>1, <2>5, StillDecoding DEF V
  <2> QED BY <1>15, <2>6
<1> QED BY <1>12, <1>14, <1>15

\* Within a call: the position is known from the part.
LEMMA WithinCall ==
  ASSUME CabacInv, pc = "decode", part # NoPart
  PROVE  /\ InStep /\ RegistersHeld /\ Wanted \in Ops /\ Len(decoded) < Len(coded)
         /\ \E H, g, a : \E V \in Nat :
              /\ Written(H, g, a) /\ V = EndingOf(Last(H), a) /\ Spells(g, V)
              /\ H[Len(decoded) + 2] \in Interval /\ HoldsOf(H[Len(decoded) + 2], g, V)
              /\ \E s \in Interval : /\ DecodedUpTo(s, g, V) /\ HoldsOf(s, g, V)
                                     /\ PartAt(s, H[Len(decoded) + 2], Wanted, part)
<1>1. InStep /\ RegistersHeld /\ coded \in Seq(Ops) BY WhileDecoding
<1>2. PICK H, g, a : /\ Written(H, g, a) /\ History(H, coded) /\ Decoding(H, g, EndingOf(Last(H), a))
  BY WhileDecoding
<1> DEFINE V == EndingOf(Last(H), a)
           n == Len(decoded)
<1>3. V \in Nat /\ Spells(g, V) /\ \A k \in 0..Len(coded) : H[k + 1] \in Interval /\ HoldsOf(H[k + 1], g, V)
  BY <1>1, <1>2, WrittenHeld
<1>4. Decoding(H, g, V) BY <1>2
<1>5. Written(H, g, a) /\ V = EndingOf(Last(H), a) BY <1>2
<1> HIDE DEF V
<1>6. PICK s \in Interval : DecodedUpTo(s, g, V) /\ HoldsOf(s, g, V) /\ Position(H, s) BY <1>4 DEF Decoding
<1>7. n < Len(coded) /\ PartAt(s, H[n + 2], Wanted, part) BY <1>6 DEF Position
<1>8. Wanted \in Ops /\ n \in 0..Len(coded) BY <1>1, <1>7, NextWanted
<1>9. H[n + 2] \in Interval /\ HoldsOf(H[n + 2], g, V)
  <2>1. n + 1 \in 0..Len(coded) /\ (n + 1) + 1 = n + 2 BY <1>1, <1>7, <1>8
  <2>2. H[(n + 1) + 1] \in Interval /\ HoldsOf(H[(n + 1) + 1], g, V) BY <1>3, <2>1
  <2> QED BY <2>1, <2>2
<1> QED BY <1>1, <1>3, <1>5, <1>6, <1>7, <1>8, <1>9

\* A bin of a prefix keeps it.
LEMMA ReadPrefixKeeps == CabacInv /\ ReadPrefix => CabacInv'
<1> SUFFICES ASSUME CabacInv, ReadPrefix PROVE CabacInv' OBVIOUS
<1>1. pc = "decode" /\ part.kind = "prefix" /\ UNCHANGED <<pc, encVars, decCtx, decoded>> BY DEF ReadPrefix
<1>2. part # NoPart BY <1>1 DEF NoPart
<1> DEFINE op == Wanted
<1>3. InStep /\ RegistersHeld /\ op \in Ops /\ Len(decoded) < Len(coded) BY <1>1, <1>2, WithinCall
<1>4. PICK H, g, a : \E V \in Nat :
        /\ Written(H, g, a) /\ V = EndingOf(Last(H), a) /\ Spells(g, V)
        /\ H[Len(decoded) + 2] \in Interval /\ HoldsOf(H[Len(decoded) + 2], g, V)
        /\ \E s \in Interval : /\ DecodedUpTo(s, g, V) /\ HoldsOf(s, g, V)
                               /\ PartAt(s, H[Len(decoded) + 2], op, part)
  BY <1>1, <1>2, WithinCall
<1>5. PICK V \in Nat :
        /\ Written(H, g, a) /\ V = EndingOf(Last(H), a) /\ Spells(g, V)
        /\ H[Len(decoded) + 2] \in Interval /\ HoldsOf(H[Len(decoded) + 2], g, V)
        /\ \E s \in Interval : /\ DecodedUpTo(s, g, V) /\ HoldsOf(s, g, V)
                               /\ PartAt(s, H[Len(decoded) + 2], op, part)
  BY <1>4
<1>6. PICK t \in Interval : t = H[Len(decoded) + 2] BY <1>5
<1>7. HoldsOf(t, g, V) /\ \E s \in Interval : DecodedUpTo(s, g, V) /\ HoldsOf(s, g, V) /\ PartAt(s, t, op, part)
  BY <1>5, <1>6
<1>8. PICK s \in Interval : DecodedUpTo(s, g, V) /\ HoldsOf(s, g, V) /\ PartAt(s, t, op, part) BY <1>7
<1>9. PICK k : part = PrefixPart(k) /\ Counting(s, t, op, k)
  <2>1. \A left, bins, offset : part # BinsPart(left, bins, offset) BY <1>1 DEF BinsPart
  <2> QED BY <1>8, <2>1 DEF PartAt
<1>10. DecoderAt(dec, in, s, g, V) /\ decCtx = s.ctx BY <1>8 DEF DecodedUpTo
<1>11. Wanted = op OBVIOUS
<1>12. PICK u \in Interval : /\ u.ctx = s.ctx /\ DecoderAt(dec', in', u, g, V) /\ HoldsOf(u, g, V)
                             /\ PartAt(u, t, op, part')
  <2> HIDE DEF op
  <2> QED BY <1>3, <1>5, <1>7, <1>8, <1>9, <1>10, <1>11, PrefixRead
<1>13. coded' = coded /\ out' = out BY <1>1 DEF encVars
<1>14. in'.ok BY <1>12, StreamAt
<1>15. InStep' BY <1>1, <1>3, <1>13, <1>14 DEF InStep
<1>16. Position(H, u)' BY <1>1, <1>3, <1>6, <1>12, <1>13 DEF Position, Wanted
<1>17. DecodedUpTo(u, g, V)' BY <1>1, <1>10, <1>12 DEF DecodedUpTo
<1>18. HoldsOf(u, g, V)' BY <1>12
<1>19. Decoding(H, g, V)' BY <1>16, <1>17, <1>18 DEF Decoding
<1>20. Decoding(H, g, EndingOf(Last(H), a))' BY <1>5, <1>19
<1> QED BY <1>1, <1>3, <1>5, <1>15, <1>20, StillDecoding

\* A round of bins keeps it.
LEMMA ReadBinsKeeps == CabacInv /\ ReadBins => CabacInv'
<1> SUFFICES ASSUME CabacInv, ReadBins PROVE CabacInv' OBVIOUS
<1>1. pc = "decode" /\ part.kind = "bins" /\ UNCHANGED <<pc, encVars, decCtx, decoded>> BY DEF ReadBins
<1>2. part # NoPart BY <1>1 DEF NoPart
<1> DEFINE op == Wanted
<1>3. InStep /\ RegistersHeld /\ op \in Ops /\ Len(decoded) < Len(coded) BY <1>1, <1>2, WithinCall
<1>4. PICK H, g, a : \E V \in Nat :
        /\ Written(H, g, a) /\ V = EndingOf(Last(H), a) /\ Spells(g, V)
        /\ H[Len(decoded) + 2] \in Interval /\ HoldsOf(H[Len(decoded) + 2], g, V)
        /\ \E s \in Interval : /\ DecodedUpTo(s, g, V) /\ HoldsOf(s, g, V)
                               /\ PartAt(s, H[Len(decoded) + 2], op, part)
  BY <1>1, <1>2, WithinCall
<1>5. PICK V \in Nat :
        /\ Written(H, g, a) /\ V = EndingOf(Last(H), a) /\ Spells(g, V)
        /\ H[Len(decoded) + 2] \in Interval /\ HoldsOf(H[Len(decoded) + 2], g, V)
        /\ \E s \in Interval : /\ DecodedUpTo(s, g, V) /\ HoldsOf(s, g, V)
                               /\ PartAt(s, H[Len(decoded) + 2], op, part)
  BY <1>4
<1>6. PICK t \in Interval : t = H[Len(decoded) + 2] BY <1>5
<1>7. HoldsOf(t, g, V) /\ \E s \in Interval : DecodedUpTo(s, g, V) /\ HoldsOf(s, g, V) /\ PartAt(s, t, op, part)
  BY <1>5, <1>6
<1>8. PICK s \in Interval : DecodedUpTo(s, g, V) /\ HoldsOf(s, g, V) /\ PartAt(s, t, op, part) BY <1>7
<1>9. PICK left, bins, offset : part = BinsPart(left, bins, offset) /\ Missing(s, t, op, left, bins, offset)
  <2>1. \A k : part # PrefixPart(k) BY <1>1 DEF PrefixPart
  <2> QED BY <1>8, <2>1 DEF PartAt
<1>10. DecoderAt(dec, in, s, g, V) /\ decCtx = s.ctx BY <1>8 DEF DecodedUpTo
<1>11. PICK u \in Interval : /\ u.ctx = s.ctx /\ DecoderAt(dec', in', u, g, V) /\ HoldsOf(u, g, V)
                             /\ PartAt(u, t, op, part')
  <2> HIDE DEF op
  <2> QED BY <1>3, <1>5, <1>7, <1>8, <1>9, <1>10, BinsRead
<1>12. coded' = coded /\ out' = out BY <1>1 DEF encVars
<1>13. in'.ok BY <1>11, StreamAt
<1>14. InStep' BY <1>1, <1>3, <1>12, <1>13 DEF InStep
<1>15. Position(H, u)' BY <1>1, <1>3, <1>6, <1>11, <1>12 DEF Position, Wanted
<1>16. DecodedUpTo(u, g, V)' BY <1>1, <1>10, <1>11 DEF DecodedUpTo
<1>17. HoldsOf(u, g, V)' BY <1>11
<1>18. Decoding(H, g, V)' BY <1>15, <1>16, <1>17 DEF Decoding
<1>19. Decoding(H, g, EndingOf(Last(H), a))' BY <1>5, <1>18
<1> QED BY <1>1, <1>3, <1>5, <1>14, <1>19, StillDecoding

\* The answer to a call of several bins keeps it, and is right.
LEMMA AnsweredKeeps == CabacInv /\ Answered => CabacInv' /\ decoded' = Append(decoded, Wanted)
<1> SUFFICES ASSUME CabacInv, Answered PROVE CabacInv' /\ decoded' = Append(decoded, Wanted) OBVIOUS
<1>1. pc = "decode" /\ part.kind = "bins" /\ part' = NoPart /\ UNCHANGED <<pc, encVars, dec, decCtx, in>>
  BY DEF Answered
<1>2. part # NoPart BY <1>1 DEF NoPart
<1> DEFINE op == Wanted
           n == Len(decoded)
<1>3. InStep /\ RegistersHeld /\ op \in Ops /\ n < Len(coded) BY <1>1, <1>2, WithinCall
<1>4. PICK H, g, a : \E V \in Nat :
        /\ Written(H, g, a) /\ V = EndingOf(Last(H), a) /\ Spells(g, V)
        /\ H[n + 2] \in Interval /\ HoldsOf(H[n + 2], g, V)
        /\ \E s \in Interval : DecodedUpTo(s, g, V) /\ HoldsOf(s, g, V) /\ PartAt(s, H[n + 2], op, part)
  BY <1>1, <1>2, WithinCall
<1>5. PICK V \in Nat :
        /\ Written(H, g, a) /\ V = EndingOf(Last(H), a) /\ Spells(g, V)
        /\ \E s \in Interval : DecodedUpTo(s, g, V) /\ HoldsOf(s, g, V) /\ PartAt(s, H[n + 2], op, part)
  BY <1>4
<1>6. PICK s \in Interval : DecodedUpTo(s, g, V) /\ HoldsOf(s, g, V) /\ PartAt(s, H[n + 2], op, part) BY <1>5
<1>7. H[n + 2] = s /\ decoded' = Append(decoded, op)
  <2> DEFINE t == H[n + 2]
  <2>1. Wanted = op /\ PartAt(s, t, op, part) BY <1>6
  <2> HIDE DEF t, op
  <2>2. t = s /\ decoded' = Append(decoded, op) BY <1>3, <2>1, AnswerIs
  <2> QED BY <2>2 DEF t
<1>8. coded' = coded /\ out' = out BY <1>1 DEF encVars
<1>9. in'.ok /\ n \in Nat BY <1>1, <1>3 DEF InStep
<1>10. InStep' /\ Len(decoded') = n + 1 BY <1>1, <1>3, <1>7, <1>8, <1>9, NextWanted
<1>11. Position(H, s)'
  <2>1. Len(decoded') + 1 = n + 2 BY <1>9, <1>10
  <2>2. s = H[Len(decoded') + 1] BY <1>7, <2>1
  <2> QED BY <1>1, <2>2 DEF Position
<1>12. DecodedUpTo(s, g, V)' BY <1>1, <1>6 DEF DecodedUpTo
<1>13. HoldsOf(s, g, V)' BY <1>6
<1>14. Decoding(H, g, V)' BY <1>11, <1>12, <1>13 DEF Decoding
<1>15. Decoding(H, g, EndingOf(Last(H), a))' BY <1>5, <1>14
<1>16. CabacInv' BY <1>1, <1>3, <1>5, <1>10, <1>15, StillDecoding
<1> QED BY <1>7, <1>16

\* The end of the substream keeps it.
LEMMA TerminatingBitKeeps == CabacInv /\ TerminatingBit => CabacInv'
<1> SUFFICES ASSUME CabacInv, TerminatingBit PROVE CabacInv' OBVIOUS
<1>1. /\ pc = "decode" /\ pc' = "done" /\ part = NoPart /\ Len(decoded) = Len(coded)
      /\ UNCHANGED <<enc, out, coded, decoded>>
  BY DEF TerminatingBit, encVars
<1>2. InStep /\ RegistersHeld /\ coded \in Seq(Ops) BY <1>1, WhileDecoding
<1>3. PICK H, g, a : /\ Written(H, g, a) /\ History(H, coded) /\ Decoding(H, g, EndingOf(Last(H), a))
  BY <1>1, WhileDecoding
<1>4. PICK s \in Interval : DecodedUpTo(s, g, EndingOf(Last(H), a)) /\ Position(H, s) BY <1>3 DEF Decoding
<1>5. s = Last(H)
  <2>1. ~(Len(decoded) < Len(coded)) BY <1>1, <1>2
  <2>2. s = H[Len(coded) + 1] BY <1>1, <1>4, <2>1 DEF Position
  <2>3. Last(H) = H[Len(coded) + 1] BY <1>2, <1>3, HistoryAt
  <2> QED BY <2>2, <2>3
<1>6. /\ a \in 0..7 /\ Spells(g, EndingOf(s, a)) /\ 2 <= Len(g) /\ 8 * Len(g) = s.n + a
      /\ DecoderAt(dec, in, s, g, EndingOf(s, a))
  BY <1>3, <1>4, <1>5 DEF Written, DecodedUpTo
<1>7. in'.ok /\ NumBitsLeft(in') = 0 BY <1>6, EndIsReached
<1>8. InStep' BY <1>1, <1>2, <1>7 DEF InStep
<1>9. RegistersHeld' BY <1>1, <1>2 DEF RegistersHeld
<1> QED BY <1>1, <1>7, <1>8, <1>9 DEF CabacInv

\* Nothing else does anything.
LEMMA StutteringKeeps == CabacInv /\ UNCHANGED vars => CabacInv'
<1> SUFFICES ASSUME CabacInv, UNCHANGED vars PROVE CabacInv' OBVIOUS
<1>1. UNCHANGED <<pc, enc, encCtx, out, coded, todo, dec, decCtx, in, decoded, part>> BY DEF vars, encVars, decVars
<1>2. InStep' BY <1>1 DEF CabacInv, InStep
<1>3. RegistersHeld' BY <1>1 DEF CabacInv, RegistersHeld
<1>4. pc' = "encode" => Unread' /\ Encoding' BY <1>1 DEF CabacInv, Unread, Encoding
<1>5. pc' = "start" => Unread' /\ (\E H, g, a : Written(H, g, a))' BY <1>1 DEF CabacInv, Unread, Written
<1>6. pc' = "decode" => (\E H, g, a : Written(H, g, a) /\ Decoding(H, g, EndingOf(Last(H), a)))'
  BY <1>1 DEF CabacInv, Written, Decoding, Position, DecodedUpTo, Wanted
<1>7. pc' = "done" => Len(decoded') = Len(coded') /\ NumBitsLeft(in') = 0 BY <1>1 DEF CabacInv
<1> QED BY <1>2, <1>3, <1>4, <1>5, <1>6, <1>7 DEF CabacInv

-----------------------------------------------------------------------------
\* The inductive invariant holds in every run, for all calls, contexts and numbers of calls.
THEOREM CabacInvariant == Spec => []CabacInv
<1>1. Init => CabacInv BY StartsWell
<1>2. CabacInv /\ [Next]_vars => CabacInv'
  BY CodeKeeps, CodeChunkKeeps, EndOfSliceKeeps, StartDecoderKeeps, AskKeeps, ReadPrefixKeeps, ReadBinsKeeps,
     AnsweredKeeps, TerminatingBitKeeps, StutteringKeeps
  DEF Next, Done
<1> QED BY <1>1, <1>2, PTL DEF Spec

\* The encoder's half of RegistersInRange.
LEMMA EncoderInRange ==
  ASSUME RegistersHeld
  PROVE  /\ enc.range \in 256..510 /\ enc.bitsLeft \in 12..23
         /\ LET width == 32 - enc.bitsLeft
            IN IF enc.numBufferedBytes = 0
               THEN enc.low + enc.range <= 510 * 2^(width - 9)
               ELSE /\ enc.bufferedByte \in 0..254
                    /\ enc.low + enc.range <= 2^width + 2^(width - 4)
<1>1. PICK k \in 9..20 : \E u \in Interval : \E low, bb, num, f, X :
        EncodedAs(u, low, bb, num, k, f, X) /\ enc = Registers(low, u.range, bb, num, k)
  BY DEF RegistersHeld
<1>2. PICK u \in Interval : \E low, bb, num, f, X :
        EncodedAs(u, low, bb, num, k, f, X) /\ enc = Registers(low, u.range, bb, num, k)
  BY <1>1
<1>3. PICK low, bb, num, f, X :
        EncodedAs(u, low, bb, num, k, f, X) /\ enc = Registers(low, u.range, bb, num, k)
  BY <1>2
<1>4. /\ enc.low = low /\ enc.range = u.range /\ enc.bufferedByte = bb /\ enc.numBufferedBytes = num
      /\ enc.bitsLeft = 32 - k
  BY <1>3, RegisterFields
<1>5. u.range \in 256..510 BY IntervalFields
<1>6. 32 - k \in 12..23 /\ 32 - (32 - k) = k OBVIOUS
<1>7. num = 0 => low + u.range <= 510 * 2^(k - 9) BY <1>3 DEF EncodedAs
<1>8. num # 0 => bb \in 0..254 /\ low + u.range <= 2^k + 2^(k - 4) BY <1>3 DEF EncodedAs
<1>9. 32 - enc.bitsLeft = k BY <1>4, <1>6
<1> QED BY <1>4, <1>5, <1>6, <1>7, <1>8, <1>9

\* The decoder's half: a number that the interval holds is below its range.
LEMMA DecoderInRange ==
  ASSUME NEW s \in Interval, NEW g, NEW V \in Nat, Spells(g, V), DecoderAt(dec, in, s, g, V), HoldsOf(s, g, V)
  PROVE  dec.range \in 256..510 /\ dec.bitsNeeded \in -8..-1 /\ dec.value < Shl(dec.range, 7)
<1>1. PICK v, bn, i : Reads(s.low, s.n, v, bn, i, V, Len(g)) /\ dec = DecRegs(v, s.range, bn)
  BY DEF DecoderAt
<1>2. dec.value = v /\ dec.range = s.range /\ dec.bitsNeeded = bn BY <1>1, DecRegsFields
<1>3. bn \in -8..-1 BY <1>1 DEF Reads
<1>4. s.low \in Nat /\ s.range \in 256..510 /\ s.range \in Nat /\ s.n \in Nat BY IntervalFields
<1>5. v < s.range * 128
  <2> DEFINE low == s.low
             r == s.range
             L == Len(g)
             zero == 0
  <2>1. L \in Nat BY DEF Spells
  <2>2. Holds(low, r, s.n, V, 8 * L) BY DEF HoldsOf
  <2>3. low + zero = low /\ zero \in Nat BY <1>4
  <2>4. zero + r = r BY <1>4
  <2> HIDE DEF low, r, L, zero
  <2>5. Holds(low + zero, r, s.n, V, 8 * L) BY <2>2, <2>3
  <2>6. v < (zero + r) * 128 BY <1>1, <1>4, <2>1, <2>3, <2>5, ReadsBetween DEF low, r, L
  <2> QED BY <2>4, <2>6 DEF r
<1>6. 2^7 = 128 BY SmallPowers
<1> QED BY <1>2, <1>3, <1>4, <1>5, <1>6 DEF Shl

\* The registers of BinEncoder and BinDecoder keep to their widths, whatever is coded: the
\* encoder's carry is caught by the waiting bytes, the decoder's value stays below its range.
THEOREM RegistersInRangeAlways == Spec => []RegistersInRange
<1>1. CabacInv => RegistersInRange
  <2> SUFFICES ASSUME CabacInv PROVE RegistersInRange OBVIOUS
  <2>1. RegistersHeld BY DEF CabacInv
  <2>2. ASSUME pc = "decode"
        PROVE  dec.range \in 256..510 /\ dec.bitsNeeded \in -8..-1 /\ dec.value < Shl(dec.range, 7)
    <3>1. coded \in Seq(Ops) BY <2>2, WhileDecoding
    <3>2. PICK H, g, a : /\ Written(H, g, a) /\ History(H, coded) /\ Decoding(H, g, EndingOf(Last(H), a))
      BY <2>2, WhileDecoding
    <3> DEFINE V == EndingOf(Last(H), a)
    <3>3. V \in Nat /\ Spells(g, V) BY <3>1, <3>2, WrittenHeld
    <3>4. Decoding(H, g, V) BY <3>2
    <3> HIDE DEF V
    <3>5. PICK s \in Interval : DecodedUpTo(s, g, V) /\ HoldsOf(s, g, V) BY <3>4 DEF Decoding
    <3> QED BY <3>3, <3>5, DecoderInRange DEF DecodedUpTo
  <2> QED BY <2>1, <2>2, EncoderInRange DEF RegistersInRange
<1> QED BY <1>1, CabacInvariant, PTL

\* No CHECK fails in what end_of_slice wrote: the decoder reads all of the substream and no
\* more, and finds the terminating one and the stop pattern at its end.
THEOREM ReadsExactlyTheSubstreamAlways == Spec => []ReadsExactlyTheSubstream
<1>1. CabacInv => ReadsExactlyTheSubstream BY DEF CabacInv, InStep, ReadsExactlyTheSubstream
<1> QED BY <1>1, CabacInvariant, PTL

\* When the substream is read, all calls are answered with the bins that were coded.
THEOREM AllBinsComeBack == Spec => [](pc = "done" => decoded = coded)
<1>1. CabacInv => (pc = "done" => decoded = coded)
  <2> SUFFICES ASSUME CabacInv, pc = "done" PROVE decoded = coded OBVIOUS
  <2>1. /\ coded \in Seq(Ops) /\ decoded \in Seq(Ops) /\ Len(decoded) = Len(coded)
        /\ \A i \in 1..Len(decoded) : decoded[i] = coded[i]
    BY DEF CabacInv, InStep
  <2> DEFINE n == Len(coded)
  <2>2. /\ decoded = [i \in 1..n |-> decoded[i]] /\ coded = [i \in 1..n |-> coded[i]]
    BY <2>1
  <2> QED BY <2>1, <2>2
<1> QED BY <1>1, CabacInvariant, PTL

\* Each step of the coder is one of Transmission, or leaves what it shows alone.
LEMMA StepTransmits == CabacInv /\ [Next]_vars => [T!Next]_(T!transmissionVars)
<1> SUFFICES ASSUME CabacInv, [Next]_vars PROVE T!Next \/ UNCHANGED T!transmissionVars OBVIOUS
<1>1. coded \in Seq(Ops) /\ Len(coded) \in Nat /\ Len(decoded) \in Nat BY DEF CabacInv, InStep
<1>2. CASE Code
  <2>1. PICK op \in Ops : coded' = Append(coded, op) BY <1>2 DEF Code
  <2>2. pc = "encode" /\ pc' = "encode" /\ decoded' = decoded BY <1>2 DEF Code, decVars
  <2>3. Len(coded') = Len(coded) + 1 /\ SubSeq(coded', 1, Len(coded)) = coded BY <1>1, <2>1
  <2> QED BY <2>2, <2>3 DEF T!Next, T!Send
<1>3. CASE EndOfSlice
  <2>1. pc = "encode" /\ pc' = "start" /\ coded' = coded /\ decoded' = decoded BY <1>3 DEF EndOfSlice, decVars
  <2> QED BY <2>1 DEF T!Next, T!Close
<1>4. ASSUME pc = "decode", UNCHANGED <<pc, coded>>, Len(decoded) < Len(coded), decoded' = Append(decoded, Wanted)
      PROVE  T!Next
  BY <1>4 DEF T!Next, T!Receive, Wanted
<1>5. CASE Ask
  <2>1. pc = "decode" /\ UNCHANGED <<pc, coded>> /\ Len(decoded) < Len(coded) BY <1>5 DEF Ask, encVars
  <2>2. CASE decoded' = decoded BY <2>1, <2>2 DEF T!transmissionVars
  <2>3. CASE decoded' = Append(decoded, Wanted) BY <1>4, <2>1, <2>3
  <2> QED BY <1>5, <2>2, <2>3, AskKeeps
<1>6. CASE Answered
  <2>1. pc = "decode" /\ UNCHANGED <<pc, coded>> /\ part # NoPart BY <1>6 DEF Answered, encVars, NoPart
  <2>2. Len(decoded) < Len(coded) BY <2>1, WithinCall
  <2> QED BY <1>4, <1>6, <2>1, <2>2, AnsweredKeeps
<1>7. CASE CodeChunk \/ StartDecoder \/ ReadPrefix \/ ReadBins \/ TerminatingBit \/ UNCHANGED vars
  <2>1. UNCHANGED <<coded, decoded>> /\ ((pc # "encode") = (pc' # "encode"))
    BY <1>7 DEF CodeChunk, StartDecoder, ReadPrefix, ReadBins, TerminatingBit, vars, encVars, decVars
  <2> QED BY <2>1 DEF T!transmissionVars
<1> QED BY <1>2, <1>3, <1>5, <1>6, <1>7 DEF Next, Done

\* The arithmetic coder implements Transmission: the decoder gets the bins that were coded,
\* in order, for every sequence of calls.
THEOREM BinsComeBackAlways == Spec => BinsComeBack
<1>1. Init => T!Init BY DEF Init, T!Init
<1> QED BY <1>1, CabacInvariant, StepTransmits, PTL DEF Spec, BinsComeBack, T!Spec
=============================================================================
