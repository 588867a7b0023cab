----------------------------- MODULE Arithmetic -----------------------------
(*************************************************************************)
(* What the provers do not know of numbers: induction, stated for sets so*)
(* that it can be cited with S == {n \in Nat : P(n)}; powers of two and  *)
(* division by them; and the arithmetic of a coder that narrows an       *)
(* interval.                                                             *)
(*************************************************************************)
EXTENDS Integers, FiniteSetTheorems, WellFoundedInduction, FunctionTheorems, TLAPS

-----------------------------------------------------------------------------
(* Induction.  It rests on the strict subset ordering being well founded.*)

\* A nonempty set of natural numbers has a least element.
LEMMA LeastOf ==
  ASSUME NEW T \in SUBSET Nat, T # {}
  PROVE  \E n \in T : \A m \in T : n <= m
<1> DEFINE Below(n) == 0 .. (n - 1)
           F == {Below(n) : n \in T}
           R == StrictSubsetOrdering(Nat)
<1>1. IsWellFoundedOn(R, FiniteSubsetsOf(Nat))
  BY FS_StrictSubsetOrderingWellFounded
<1>2. F \subseteq FiniteSubsetsOf(Nat)
  <2> SUFFICES ASSUME NEW n \in T PROVE Below(n) \in FiniteSubsetsOf(Nat)
    OBVIOUS
  <2>1. IsFiniteSet(Below(n)) BY FS_Interval
  <2> QED BY <2>1 DEF FiniteSubsetsOf
<1>3. F # {} OBVIOUS
<1>4. PICK x \in F : \A y \in F : ~ (<<y, x>> \in R)
  <2> HIDE DEF F, R
  <2> QED BY <1>1, <1>2, <1>3, WFMin
<1>5. PICK n \in T : x = Below(n) OBVIOUS
<1>6. ASSUME NEW m \in T, m < n PROVE FALSE
  <2>1. Below(m) \subseteq Below(n) /\ Below(m) # Below(n)
    <3>1. m \in Below(n) /\ m \notin Below(m) BY <1>6
    <3> QED BY <3>1, <1>6
  <2>2. <<Below(m), Below(n)>> \in R
    BY <2>1 DEF StrictSubsetOrdering
  <2> QED BY <2>2, <1>4, <1>5
<1> QED BY <1>6

\* A set of natural numbers that holds 0 and every successor holds them all.
LEMMA NatSetInduction ==
  ASSUME NEW S \in SUBSET Nat, 0 \in S, \A n \in S : n + 1 \in S
  PROVE  S = Nat
<1> SUFFICES ASSUME Nat \ S # {} PROVE FALSE
  OBVIOUS
<1>1. PICK n \in Nat \ S : \A m \in Nat \ S : n <= m
  BY LeastOf
<1>2. n # 0 /\ n - 1 \in Nat BY <1>1
<1>3. n - 1 \in S BY <1>1, <1>2
<1> QED BY <1>1, <1>3

-----------------------------------------------------------------------------
(* Powers of two.  They count subsets, of which the library knows.       *)

-----------------------------------------------------------------------------
(* Powers.                                                                 *)

\* A power of two is the number of subsets of a set of that size.
LEMMA PowType == \A n \in Nat : 2^n \in Nat
<1> SUFFICES ASSUME NEW n \in Nat PROVE 2^n \in Nat OBVIOUS
<1>1. IsFiniteSet(1 .. n) /\ Cardinality(1 .. n) = n
  BY FS_Interval
<1>2. IsFiniteSet(SUBSET (1 .. n)) /\ Cardinality(SUBSET (1 .. n)) = 2^n
  BY <1>1, FS_SUBSET
<1> QED BY <1>2, FS_CardinalityType

\* With one element more there are twice as many: those without it and those with it.
LEMMA PowStep == \A n \in Nat : 2^(n + 1) = 2 * 2^n
<1> SUFFICES ASSUME NEW n \in Nat PROVE 2^(n + 1) = 2 * 2^n OBVIOUS
<1> DEFINE x == n + 1
           S == 1 .. n
           T == 1 .. n + 1
           With(A) == A \cup {x}
           P == {With(A) : A \in SUBSET S}
           f == [A \in SUBSET S |-> With(A)]
<1>1. /\ IsFiniteSet(S) /\ Cardinality(S) = n
      /\ IsFiniteSet(T) /\ Cardinality(T) = n + 1
  BY FS_Interval
<1>2. /\ IsFiniteSet(SUBSET S) /\ Cardinality(SUBSET S) = 2^n
      /\ IsFiniteSet(SUBSET T) /\ Cardinality(SUBSET T) = 2^(n + 1)
  BY <1>1, FS_SUBSET
<1>3. x \notin S /\ T = S \cup {x}
  OBVIOUS
<1> HIDE DEF S, T, x
<1>4. f \in Bijection(SUBSET S, P)
  <2>1. f \in [SUBSET S -> P] OBVIOUS
  <2>2. \A A, B \in SUBSET S : f[A] = f[B] => A = B
    BY <1>3
  <2>3. \A t \in P : \E s \in SUBSET S : f[s] = t
    OBVIOUS
  <2> QED BY <2>1, <2>2, <2>3, Fun_IsBij
<1>5. IsFiniteSet(P) /\ Cardinality(P) = 2^n
  BY <1>2, <1>4, FS_Bijection DEF ExistsBijection
<1>6. SUBSET T = (SUBSET S) \cup P
  <2>1. ASSUME NEW A \in SUBSET T, A \notin SUBSET S PROVE A \in P
    <3>1. x \in A /\ A \ {x} \in SUBSET S /\ A = With(A \ {x}) BY <1>3, <2>1
    <3> QED BY <3>1
  <2> QED BY <1>3, <2>1
<1>7. (SUBSET S) \cap P = {}
  BY <1>3
<1> HIDE DEF P
<1>8. Cardinality(SUBSET T) = 2^n + 2^n - 0
  <2>1. Cardinality((SUBSET S) \cup P)
          = Cardinality(SUBSET S) + Cardinality(P) - Cardinality((SUBSET S) \cap P)
    BY <1>2, <1>5, FS_Union
  <2>2. Cardinality((SUBSET S) \cap P) = 0
    BY <1>7, FS_EmptySet
  <2> QED BY <1>2, <1>5, <1>6, <2>1, <2>2
<1>9. 2^n \in Nat BY PowType
<1> QED BY <1>2, <1>8, <1>9

\* Powers of two are positive.
LEMMA PowPositive == \A n \in Nat : 2^n \in Nat \ {0}
<1> DEFINE S == {n \in Nat : 2^n > 0}
<1>1. 0 \in S
  <2>1. 2^0 = 1 BY SMT
  <2> QED BY <2>1
<1>2. \A n \in S : n + 1 \in S
  BY PowStep, PowType
<1> HIDE DEF S
<1>3. S = Nat
  <2>1. S \in SUBSET Nat BY DEF S
  <2> QED BY <1>1, <1>2, <2>1, NatSetInduction
<1> QED BY <1>3, PowType DEF S

\* Powers add their exponents.
LEMMA PowSum == \A m, n \in Nat : 2^(m + n) = 2^m * 2^n
<1> SUFFICES ASSUME NEW m \in Nat PROVE \A n \in Nat : 2^(m + n) = 2^m * 2^n OBVIOUS
<1> DEFINE S == {n \in Nat : 2^(m + n) = 2^m * 2^n}
<1>1. 0 \in S
  <2>1. 2^0 = 1 BY SMT
  <2>2. m + 0 = m /\ 2^m * 1 = 2^m BY PowType
  <2> QED BY <2>1, <2>2
<1>2. ASSUME NEW n \in S PROVE n + 1 \in S
  <2>1. 2^(m + (n + 1)) = 2 * 2^(m + n)
    <3>1. m + (n + 1) = (m + n) + 1 OBVIOUS
    <3> QED BY <3>1, PowStep
  <2>2. 2^(n + 1) = 2 * 2^n BY PowStep
  <2>3. 2^m \in Nat /\ 2^n \in Nat BY PowType
  <2>4. \A a, b \in Nat : 2 * (a * b) = a * (2 * b) OBVIOUS
  <2> QED BY <2>1, <2>2, <2>3, <2>4
<1> HIDE DEF S
<1>3. S = Nat
  <2>1. S \in SUBSET Nat BY DEF S
  <2> QED BY <1>1, <1>2, <2>1, NatSetInduction
<1> QED BY <1>3 DEF S

\* The powers with these exponents.
LEMMA SmallPowers ==
  /\ 2^0 = 1 /\ 2^1 = 2 /\ 2^2 = 4 /\ 2^3 = 8 /\ 2^4 = 16 /\ 2^5 = 32 /\ 2^6 = 64
  /\ 2^7 = 128 /\ 2^8 = 256 /\ 2^9 = 512
  BY SMT

-----------------------------------------------------------------------------
(* Division.                                                               *)

\* Quotient and remainder.
LEMMA DivFacts ==
  ASSUME NEW x \in Nat, NEW d \in Nat \ {0}
  PROVE  x \div d \in Nat /\ x % d \in 0 .. d - 1 /\ x = d * (x \div d) + (x % d)
  OBVIOUS

\* They are unique.
LEMMA DivUnique ==
  ASSUME NEW x \in Nat, NEW d \in Nat \ {0}, NEW q \in Nat, NEW r \in 0 .. d - 1, x = d * q + r
  PROVE  x \div d = q /\ x % d = r
  OBVIOUS

\* Dividing twice.
LEMMA DivDiv ==
  ASSUME NEW x \in Nat, NEW d \in Nat \ {0}, NEW e \in Nat \ {0}
  PROVE  (x \div d) \div e = x \div (d * e)
  OBVIOUS

\* The quotient of a number between two multiples.
LEMMA DivBetween ==
  ASSUME NEW x \in Nat, NEW d \in Nat \ {0}, NEW a \in Nat, NEW b \in Nat, a * d <= x, x < b * d
  PROVE  a <= x \div d /\ x \div d < b
<1> DEFINE q == x \div d
<1>1. q \in Nat /\ x >= d * q /\ x < d * (q + 1)
  BY DivFacts
<1> HIDE DEF q
<1>2. a * d < (q + 1) * d /\ q * d < b * d
  BY <1>1
<1>3. \A m, n \in Nat : m >= n => m * d >= n * d
  OBVIOUS
<1>4. a < q + 1 /\ q < b
  BY <1>1, <1>2, <1>3
<1> QED BY <1>1, <1>4 DEF q

\* Low digits in front of lower ones.
LEMMA ModSplit ==
  ASSUME NEW x \in Nat, NEW a \in Nat \ {0}, NEW b \in Nat \ {0}
  PROVE  x % (a * b) = ((x \div b) % a) * b + (x % b)
<1> DEFINE q == x \div b
           r == x % b
           h == q \div a
           l == q % a
<1>1. q \in Nat /\ r \in 0 .. b - 1 /\ x = b * q + r
  BY DivFacts
<1>2. h \in Nat /\ l \in 0 .. a - 1 /\ q = a * h + l
  BY <1>1, DivFacts
<1> HIDE DEF q, r, h, l
<1>3. a * b \in Nat \ {0}
  OBVIOUS
<1>4. x = (a * b) * h + (l * b + r)
  BY <1>1, <1>2
<1>5. l * b + r \in 0 .. (a * b) - 1
  <2>1. l * b <= (a - 1) * b /\ l * b \in Nat BY <1>2
  <2>2. (a - 1) * b = a * b - b OBVIOUS
  <2> QED BY <1>1, <1>3, <2>1, <2>2
<1>6. x % (a * b) = l * b + r
  BY <1>2, <1>3, <1>4, <1>5, DivUnique
<1> QED BY <1>6 DEF q, r, l

-----------------------------------------------------------------------------
(* Intervals.  One of n bits holds V, of M bits, when V begins with one of its.*)

\* A power of two as a product.
LEMMA PowSplit ==
  ASSUME NEW n \in Nat, NEW m \in Nat, m <= n
  PROVE  n - m \in Nat /\ 2^n = 2^m * 2^(n - m) /\ 2^m \in Nat \ {0} /\ 2^(n - m) \in Nat \ {0}
<1> DEFINE k == n - m
<1>1. k \in Nat /\ n = m + k OBVIOUS
<1> HIDE DEF k
<1>2. 2^(m + k) = 2^m * 2^k BY <1>1, PowSum
<1>3. 2^m \in Nat \ {0} /\ 2^k \in Nat \ {0} BY <1>1, PowPositive
<1>4. 2^n = 2^m * 2^k BY <1>1, <1>2
<1> QED BY <1>1, <1>3, <1>4 DEF k

\* They grow with their exponents.
LEMMA PowGrows ==
  ASSUME NEW n \in Nat, NEW m \in Nat, m <= n
  PROVE  2^m <= 2^n
<1>1. 2^n = 2^m * 2^(n - m) /\ 2^m \in Nat \ {0} /\ 2^(n - m) \in Nat \ {0}
  BY PowSplit
<1>2. \A a, b \in Nat \ {0} : a <= a * b OBVIOUS
<1> QED BY <1>1, <1>2

Holds(low, range, n, V, M) ==
  n <= M /\ low * 2^(M - n) <= V /\ V < (low + range) * 2^(M - n)

\* An interval scaled up holds what the interval holds.
LEMMA HoldsScaled ==
  ASSUME NEW low \in Nat, NEW range \in Nat, NEW n \in Nat, NEW m \in Nat, NEW V \in Nat, NEW M \in Nat,
         Holds(low * 2^m, range * 2^m, n + m, V, M)
  PROVE  Holds(low, range, n, V, M)
<1> DEFINE p == 2^m
           q == 2^(M - (n + m))
           r == 2^(M - n)
<1>1. n + m <= M /\ (low * p) * q <= V /\ V < ((low * p) + (range * p)) * q
  BY DEF Holds
<1>2. r = p * q /\ p \in Nat /\ q \in Nat
  <2>1. M - n \in Nat /\ m <= M - n /\ (M - n) - m = M - (n + m) BY <1>1
  <2>2. 2^(M - n) = 2^m * 2^((M - n) - m) /\ 2^m \in Nat /\ 2^((M - n) - m) \in Nat
    BY <2>1, PowSplit
  <2> QED BY <2>1, <2>2
<1> HIDE DEF p, q, r
<1>3. low * r = (low * p) * q /\ (low + range) * r = ((low * p) + (range * p)) * q
  BY <1>2
<1>4. n <= M /\ low * r <= V /\ V < (low + range) * r
  BY <1>1, <1>3
<1> QED BY <1>4 DEF Holds, r

\* A wider interval holds what a narrower one holds.
LEMMA HoldsWider ==
  ASSUME NEW low \in Nat, NEW range \in Nat, NEW low2 \in Nat, NEW range2 \in Nat,
         low <= low2, low2 + range2 <= low + range,
         NEW n \in Nat, NEW V \in Nat, NEW M \in Nat,
         Holds(low2, range2, n, V, M)
  PROVE  Holds(low, range, n, V, M)
<1> DEFINE r == 2^(M - n)
<1>1. n <= M /\ low2 * r <= V /\ V < (low2 + range2) * r
  BY DEF Holds
<1>2. r \in Nat
  <2>1. M - n \in Nat BY <1>1
  <2> QED BY <2>1, PowType
<1> HIDE DEF r
<1>3. low * r <= low2 * r /\ (low2 + range2) * r <= (low + range) * r
  BY <1>2
<1>4. low * r <= V /\ V < (low + range) * r
  <2>1. low * r \in Nat /\ low2 * r \in Nat /\ (low2 + range2) * r \in Nat /\ (low + range) * r \in Nat
    BY <1>2
  <2> QED BY <1>1, <1>3, <2>1
<1> QED BY <1>1, <1>4 DEF Holds, r

\* The leading bits of a number that an interval holds: read bytes, P, of which there are
\* 7 bits more than the interval has, j of them not yet read.
Leading(V, k) == V \div 2^k
Register(V, k, j) == Leading(V, k) * 2^j

\* Bits of a number that an interval holds, 7 more than the interval has, lie in it.
LEMMA ValueInside ==
  ASSUME NEW low \in Nat, NEW range \in Nat, NEW n \in Nat, NEW V \in Nat, NEW M \in Nat,
         Holds(low, range, n, V, M),
         NEW k \in 0..M, NEW j \in 0..7, (M - k) + j = n + 7
  PROVE  low * 128 <= Register(V, k, j) /\ Register(V, k, j) < (low + range) * 128
<1> DEFINE q == 2^k
           P == Leading(V, k)
           i == 7 - j
           e == 2^i
           r == 2^(M - n)
           f == 2^j
<1>1. n <= M /\ low * r <= V /\ V < (low + range) * r
  BY DEF Holds
<1>2. i \in Nat /\ k \in Nat /\ M - n \in Nat /\ M - n = k + i /\ j + i = 7 /\ j \in Nat
  BY <1>1
<1> HIDE DEF i
<1>3. r = q * e /\ q \in Nat \ {0} /\ e \in Nat \ {0}
  BY <1>2, PowSum, PowPositive
<1>4. f * e = 128 /\ f \in Nat \ {0}
  <2>1. 2^(j + i) = 2^j * 2^i BY <1>2, PowSum
  <2>2. 2^(j + i) = 2^7 BY <1>2
  <2>3. f \in Nat \ {0} BY <1>2, PowPositive
  <2> QED BY <2>1, <2>2, <2>3, SmallPowers
<1>5. V \div q = P BY DEF Leading
<1> HIDE DEF q, e, r, f, P
<1>10. P \in Nat BY <1>3, <1>5, DivFacts
<1> DEFINE a == low * e
           b == (low + range) * e
<1>6. a \in Nat /\ b \in Nat /\ a * q <= V /\ V < b * q
  <2>1. a * q = low * r /\ b * q = (low + range) * r BY <1>3
  <2> QED BY <1>1, <1>3, <2>1
<1>7. a * f = low * 128 /\ b * f = (low + range) * 128
  <2>1. \A x \in Nat : (x * e) * f = x * (f * e) BY <1>3, <1>4
  <2> QED BY <1>4, <2>1
<1> HIDE DEF a, b
<1>8. a <= P /\ P < b
  BY <1>3, <1>5, <1>6, DivBetween
<1>9. a * f <= P * f /\ P * f < b * f
  BY <1>4, <1>6, <1>8, <1>10
<1> QED BY <1>7, <1>9 DEF f, P, Register

\* A division by a byte and by d, in either order.
DivCommutes(x, d) == (x \div 256) \div d = (x \div d) \div 256

\* The byte that leaves and a division by a power of two change places.
LEMMA DivSwapped ==
  ASSUME NEW x \in Nat, NEW d \in Nat \ {0}
  PROVE  DivCommutes(x, d)
<1> DEFINE e == 256
<1>1. e \in Nat \ {0} OBVIOUS
<1> HIDE DEF e
<1>2. (x \div e) \div d = x \div (e * d) /\ (x \div d) \div e = x \div (d * e)
  BY <1>1, DivDiv
<1>3. e * d = d * e BY <1>1
<1>4. (x \div e) \div d = (x \div d) \div e BY <1>2, <1>3
<1> QED BY <1>4 DEF e, DivCommutes

\* Two divisions, and one by the product.
DivTwice(x, d) == (x \div d) \div 256 = x \div (d * 256)

\* A division by a byte more.
LEMMA DivByByte ==
  ASSUME NEW x \in Nat, NEW d \in Nat \ {0}
  PROVE  DivTwice(x, d)
<1>1. 256 \in Nat \ {0} OBVIOUS
<1> QED BY <1>1, DivDiv DEF DivTwice

\* The next byte of V joins those that were read.
LEMMA ByteJoins ==
  ASSUME NEW V \in Nat, NEW k \in Nat, NEW k8 \in Nat, k8 = k + 8
  PROVE  /\ Leading(V, k8) \in Nat /\ Leading(V, k) % 256 \in 0..255
         /\ Leading(V, k) = Leading(V, k8) * 256 + (Leading(V, k) % 256)
<1> DEFINE q == 2^k
           P == Leading(V, k8)
           byte == Leading(V, k) % 256
           Q == V \div q
<1>1. q \in Nat \ {0} BY PowPositive
<1>2. 2^(k + 8) = q * 256
  <2>1. 2^(k + 8) = 2^k * 2^8 BY PowSum
  <2> QED BY <2>1, SmallPowers
<1> HIDE DEF q
<1>3. P = Q \div 256
  <2>1. P = V \div (q * 256) BY <1>2 DEF Leading
  <2>2. DivTwice(V, q) BY <1>1, DivByByte
  <2> QED BY <2>1, <2>2 DEF DivTwice
<1>4. Q \in Nat BY <1>1, DivFacts
<1>5. byte = Q % 256 /\ Leading(V, k) = Q BY DEF q, Leading
<1> HIDE DEF Q, P, byte
<1>6. P \in Nat /\ byte \in 0..255 /\ Q = P * 256 + byte
  BY <1>3, <1>4, <1>5
<1> QED BY <1>5, <1>6 DEF P, byte

\* With a range of 256 the next bins are the leading bits of the value, whatever the
\* fresh bits below it are.  The value is a multiple of c = 2^(8 + bitsNeeded).
LEMMA LeadingBins ==
  ASSUME NEW u \in Nat, NEW c \in Nat \ {0}, NEW h \in Nat \ {0}, NEW p \in Nat \ {0},
         NEW fresh \in Nat, fresh < c * p
  PROVE  ((u * c) * p + fresh) \div ((c * p) * h) = (u * c) \div (c * h)
<1> DEFINE g == c * p
           x == u * g + fresh
<1>1. g \in Nat \ {0} /\ (u * c) * p = u * g OBVIOUS
<1>2. x \div g = u
  <2> HIDE DEF g
  <2>1. x \in Nat /\ fresh \in 0..g-1 /\ x = g * u + fresh BY <1>1 DEF g
  <2> QED BY <1>1, <2>1, DivUnique
<1>3. x \div (g * h) = u \div h
  <2>1. x \in Nat BY <1>1
  <2>2. (x \div g) \div h = x \div (g * h)
    <3> HIDE DEF x, g
    <3> QED BY <1>1, <2>1, DivDiv
  <2> QED BY <1>2, <2>2
<1>4. (u * c) \div (c * h) = u \div h
  <2>1. (u * c) \div c = u
    <3>1. u * c \in Nat /\ 0 \in 0..c-1 /\ u * c = c * u + 0 OBVIOUS
    <3> QED BY <3>1, DivUnique
  <2>2. ((u * c) \div c) \div h = (u * c) \div (c * h)
    <3>1. u * c \in Nat OBVIOUS
    <3> QED BY <3>1, DivDiv
  <2> QED BY <2>1, <2>2
<1>5. x = (u * c) * p + fresh BY <1>1
<1> HIDE DEF x
<1> QED BY <1>3, <1>4, <1>5

\* The second interval is a part of the first, possibly scaled up.
Nested(low, range, n, low2, range2, n2) ==
  /\ n <= n2
  /\ low * 2^(n2 - n) <= low2
  /\ low2 + range2 <= (low + range) * 2^(n2 - n)

\* A part of a part is a part.
LEMMA NestedTrans ==
  ASSUME NEW l1 \in Nat, NEW r1 \in Nat, NEW n1 \in Nat, NEW l2 \in Nat, NEW r2 \in Nat, NEW n2 \in Nat,
         NEW l3 \in Nat, NEW r3 \in Nat, NEW n3 \in Nat,
         Nested(l1, r1, n1, l2, r2, n2), Nested(l2, r2, n2, l3, r3, n3)
  PROVE  Nested(l1, r1, n1, l3, r3, n3)
<1> DEFINE p == 2^(n2 - n1)
           q == 2^(n3 - n2)
           r == 2^(n3 - n1)
<1>1. /\ n1 <= n2 /\ l1 * p <= l2 /\ l2 + r2 <= (l1 + r1) * p
      /\ n2 <= n3 /\ l2 * q <= l3 /\ l3 + r3 <= (l2 + r2) * q
  BY DEF Nested
<1>2. r = p * q /\ p \in Nat /\ q \in Nat
  <2> DEFINE i == n2 - n1
             j == n3 - n2
  <2>1. i \in Nat /\ j \in Nat /\ n3 - n1 = i + j BY <1>1
  <2> HIDE DEF i, j
  <2>2. 2^(i + j) = 2^i * 2^j /\ 2^i \in Nat /\ 2^j \in Nat BY <2>1, PowSum, PowType
  <2>3. r = 2^(i + j) BY <2>1
  <2> QED BY <2>2, <2>3 DEF i, j
<1> HIDE DEF p, q, r
<1>3. l1 * r <= l3
  <2>1. (l1 * p) * q <= l2 * q /\ l1 * r = (l1 * p) * q BY <1>1, <1>2
  <2>2. l1 * r \in Nat /\ l2 * q \in Nat BY <1>2
  <2> QED BY <1>1, <2>1, <2>2
<1>4. l3 + r3 <= (l1 + r1) * r
  <2>1. (l2 + r2) * q <= ((l1 + r1) * p) * q /\ (l1 + r1) * r = ((l1 + r1) * p) * q BY <1>1, <1>2
  <2>2. (l1 + r1) * r \in Nat /\ (l2 + r2) * q \in Nat BY <1>2
  <2> QED BY <1>1, <2>1, <2>2
<1> QED BY <1>1, <1>3, <1>4 DEF Nested, r

\* To hold a number is to have it as a part of length one.
LEMMA HoldsIsNested ==
  ASSUME NEW low \in Nat, NEW range \in Nat, NEW n \in Nat, NEW V \in Nat, NEW M \in Nat
  PROVE  Holds(low, range, n, V, M) <=> Nested(low, range, n, V, 1, M)
<1>1. ASSUME n <= M PROVE (low + range) * 2^(M - n) \in Nat
  <2>1. M - n \in Nat BY <1>1
  <2> QED BY <2>1, PowType
<1>2. ASSUME n <= M PROVE V < (low + range) * 2^(M - n) <=> V + 1 <= (low + range) * 2^(M - n)
  <2> DEFINE x == (low + range) * 2^(M - n)
  <2>1. x \in Nat BY <1>1, <1>2
  <2> HIDE DEF x
  <2>2. V < x <=> V + 1 <= x BY <2>1
  <2> QED BY <2>2 DEF x
<1> QED BY <1>2 DEF Holds, Nested

\* What a part holds is held by the whole.
LEMMA HoldsNested ==
  ASSUME NEW low \in Nat, NEW range \in Nat, NEW n \in Nat, NEW low2 \in Nat, NEW range2 \in Nat, NEW n2 \in Nat,
         NEW V \in Nat, NEW M \in Nat,
         Nested(low, range, n, low2, range2, n2), Holds(low2, range2, n2, V, M)
  PROVE  Holds(low, range, n, V, M)
<1>1. Nested(low2, range2, n2, V, 1, M) BY HoldsIsNested
<1>2. 1 \in Nat OBVIOUS
<1>3. Nested(low, range, n, V, 1, M) BY <1>1, <1>2, NestedTrans
<1> QED BY <1>3, HoldsIsNested

\* An interval scaled up by m bits has every part that starts at d and is no longer.
LEMMA NestedPart ==
  ASSUME NEW low \in Nat, NEW range \in Nat, NEW n \in Nat, NEW m \in Nat, NEW d \in Nat, NEW range2 \in Nat,
         d + range2 <= range * 2^m
  PROVE  Nested(low, range, n, low * 2^m + d, range2, n + m)
<1> DEFINE p == 2^m
<1>1. p \in Nat BY PowType
<1>2. n <= n + m /\ (n + m) - n = m OBVIOUS
<1> HIDE DEF p
<1>3. d + range2 <= range * p BY DEF p
<1>4. low * p <= low * p + d /\ (low * p + d) + range2 <= (low + range) * p
  BY <1>1, <1>3
<1>5. 2^((n + m) - n) = p BY <1>2 DEF p
<1>6. low * 2^((n + m) - n) <= low * 2^m + d /\ (low * 2^m + d) + range2 <= (low + range) * 2^((n + m) - n)
  BY <1>4, <1>5 DEF p
<1> QED BY <1>2, <1>6 DEF Nested
=============================================================================
