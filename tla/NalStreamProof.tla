---------------------------- MODULE NalStreamProof ----------------------------
(***************************************************************************)
(* The byte stream of NAL units, for all units whose payload is bytes:     *)
(* emulation prevention leaves no start code inside a unit and is undone   *)
(* exactly, and the reader, wherever it looked ahead and went back, finds  *)
(* one unit after the other and fails behind the last one only.            *)
(***************************************************************************)
EXTENDS NalStream, Arithmetic
-----------------------------------------------------------------------------
(* Emulation prevention.                                                   *)

\* The rounds of Protected.
ProtectRounds(acc, rbsp, n) ==
  acc = [k \in 0..n |-> IF k = 0 THEN [out |-> <<>>, zeros |-> 0] ELSE Protect(acc[k - 1], rbsp[k])]

\* The recursive function of Protected exists.
LEMMA ProtectRoundsExist ==
  ASSUME NEW rbsp
  PROVE  \A n \in Nat : \E acc : ProtectRounds(acc, rbsp, n)
<1> DEFINE N == {n \in Nat : \E acc : ProtectRounds(acc, rbsp, n)}
<1>1. 0 \in N
  <2>1. ProtectRounds([k \in 0..0 |-> [out |-> <<>>, zeros |-> 0]], rbsp, 0)
    BY DEF ProtectRounds
  <2> QED BY <2>1
<1>2. ASSUME NEW n \in N PROVE n + 1 \in N
  <2>1. PICK before : ProtectRounds(before, rbsp, n) OBVIOUS
  <2> DEFINE last == Protect(before[n], rbsp[n + 1])
             acc == [k \in 0..n + 1 |-> IF k = n + 1 THEN last ELSE before[k]]
  <2>2. ASSUME NEW k \in 0..n + 1
        PROVE  acc[k] = IF k = 0 THEN [out |-> <<>>, zeros |-> 0] ELSE Protect(acc[k - 1], rbsp[k])
    <3>1. CASE k = 0 BY <2>1, <3>1 DEF ProtectRounds
    <3>2. CASE k = n + 1 BY <3>2
    <3>3. CASE k # 0 /\ k # n + 1
      <4>1. k \in 0..n /\ k - 1 \in 0..n /\ k - 1 # n + 1 BY <3>3
      <4>2. acc[k] = before[k] /\ acc[k - 1] = before[k - 1] BY <4>1, <3>3
      <4> HIDE DEF acc
      <4> QED BY <4>1, <4>2, <2>1, <3>3 DEF ProtectRounds
    <3> QED BY <3>1, <3>2, <3>3
  <2>3. acc = [k \in 0..n + 1 |-> acc[k]] OBVIOUS
  <2>4. ProtectRounds(acc, rbsp, n + 1)
    <3> HIDE DEF acc
    <3> QED BY <2>2, <2>3 DEF ProtectRounds
  <2> QED BY <2>4
<1>3. N = Nat
  <2> HIDE DEF N
  <2>1. N \in SUBSET Nat BY DEF N
  <2> QED BY <1>1, <1>2, <2>1, NatSetInduction
<1> QED BY <1>3

\* Protected is the last of these rounds.
LEMMA ProtectedIsLast ==
  ASSUME NEW rbsp, Len(rbsp) \in Nat
  PROVE  \E acc : ProtectRounds(acc, rbsp, Len(rbsp)) /\ Protected(rbsp) = acc[Len(rbsp)]
<1> DEFINE acc == CHOOSE acc : ProtectRounds(acc, rbsp, Len(rbsp))
<1>1. Protected(rbsp) = acc[Len(rbsp)]
  BY DEF Protected, ProtectRounds
<1>2. ProtectRounds(acc, rbsp, Len(rbsp))
  BY ProtectRoundsExist
<1> QED BY <1>1, <1>2

\* Three bytes never look like a start code, and a 3 behind two zeros is followed by no
\* more than 3.
Clean(bytes) ==
  \A k \in 1..(Len(bytes) - 2) : bytes[k] = 0 /\ bytes[k + 1] = 0 =>
    /\ bytes[k + 2] > 2
    /\ bytes[k + 2] = 3 /\ k + 3 <= Len(bytes) => bytes[k + 3] <= 3

\* A 3 behind two zeros at the end.
EndsIn3(bytes) ==
  /\ Len(bytes) >= 3 /\ bytes[Len(bytes)] = 3
  /\ bytes[Len(bytes) - 1] = 0 /\ bytes[Len(bytes) - 2] = 0

\* The zeros at the end are counted, and there are no more than two.
EndsInZeros(bytes, zeros) ==
  /\ zeros \in 0..2 /\ zeros <= Len(bytes)
  /\ \A k \in Len(bytes) - zeros + 1 .. Len(bytes) : bytes[k] = 0
  /\ zeros < Len(bytes) => bytes[Len(bytes) - zeros] # 0

\* What is protected so far.
IsProtected(acc) ==
  /\ acc.out \in Seq(Byte) /\ acc = [out |-> acc.out, zeros |-> acc.zeros]
  /\ EndsInZeros(acc.out, acc.zeros) /\ Clean(acc.out) /\ ~EndsIn3(acc.out)

\* One byte more.
LEMMA AppendClean ==
  ASSUME NEW s \in Seq(Byte), NEW zeros, EndsInZeros(s, zeros), Clean(s), NEW v \in Byte,
         zeros = 2 => v > 2, EndsIn3(s) => v <= 3
  PROVE  /\ Append(s, v) \in Seq(Byte)
         /\ Clean(Append(s, v)) 
         /\ EndsIn3(Append(s, v)) <=> zeros = 2 /\ v = 3
         /\ v # 0 => EndsInZeros(Append(s, v), 0)
         /\ v = 0 => EndsInZeros(Append(s, v), zeros + 1)
<1> DEFINE t == Append(s, v)
           L == Len(s)
<1>1. /\ t \in Seq(Byte) /\ L \in Nat /\ Len(t) = L + 1 /\ t[L + 1] = v
      /\ \A k \in 1..L : t[k] = s[k] /\ s[k] \in 0..255
      /\ v \in 0..255 /\ zeros \in 0..2
  <2>1. t \in Seq(Byte) /\ L \in Nat /\ Len(t) = L + 1 /\ t[L + 1] = v
    OBVIOUS
  <2>2. ASSUME NEW k \in 1..L PROVE t[k] = s[k] /\ s[k] \in 0..255
    <3>1. s[k] \in Byte OBVIOUS
    <3> QED BY <3>1 DEF Byte
  <2>3. v \in 0..255 /\ zeros \in 0..2 BY DEF Byte, EndsInZeros
  <2> HIDE DEF t, L
  <2> QED BY <2>1, <2>2, <2>3
<1> HIDE DEF t, L
<1>2. /\ zeros <= L /\ (\A k \in L - zeros + 1 .. L : s[k] = 0)
      /\ (zeros < L => s[L - zeros] # 0)
      /\ zeros = 2 => v > 2
      /\ L >= 3 /\ s[L] = 3 /\ s[L - 1] = 0 /\ s[L - 2] = 0 => v <= 3
  BY <1>1 DEF EndsInZeros, EndsIn3, L
<1>3. \A k \in 1..(L - 2) : s[k] = 0 /\ s[k + 1] = 0 =>
        s[k + 2] > 2 /\ (s[k + 2] = 3 /\ k + 3 <= L => s[k + 3] <= 3)
  BY DEF Clean, L
<1>4. L >= 2 /\ s[L - 1] = 0 /\ s[L] = 0 => zeros = 2
  <2>1. CASE zeros = 0 BY <1>1, <1>2, <2>1
  <2>2. CASE zeros = 1 BY <1>1, <1>2, <2>2
  <2>3. CASE zeros = 2 BY <2>3
  <2> QED BY <1>1, <2>1, <2>2, <2>3
<1>5. Clean(t)
  <2> SUFFICES ASSUME NEW k \in 1..(L - 1), t[k] = 0, t[k + 1] = 0
               PROVE  t[k + 2] > 2 /\ (t[k + 2] = 3 /\ k + 3 <= L + 1 => t[k + 3] <= 3)
    BY <1>1 DEF Clean
  <2>1. CASE k = L - 1 BY <1>1, <1>2, <1>4, <2>1
  <2>2. CASE k < L - 1
    <3>1. k \in 1..(L - 2) /\ t[k] = s[k] /\ t[k + 1] = s[k + 1] /\ t[k + 2] = s[k + 2] BY <1>1, <2>2
    <3>2. CASE k = L - 2
      <4>1. k + 3 = L + 1 /\ k + 2 = L /\ k + 1 = L - 1 BY <1>1, <3>2
      <4> QED BY <1>1, <1>2, <1>3, <3>1, <4>1
    <3>3. CASE k # L - 2
      <4>1. k + 3 <= L /\ t[k + 3] = s[k + 3] BY <1>1, <2>2, <3>3
      <4> QED BY <1>3, <3>1, <4>1
    <3> QED BY <3>2, <3>3
  <2> QED BY <1>1, <2>1, <2>2
<1>6. EndsIn3(t) <=> zeros = 2 /\ v = 3
  <2>1. ASSUME EndsIn3(t) PROVE zeros = 2 /\ v = 3
    <3>1. L >= 2 /\ t[L + 1] = 3 /\ t[L] = 0 /\ t[L - 1] = 0 BY <1>1, <2>1 DEF EndsIn3
    <3> QED BY <1>1, <1>4, <3>1
  <2>2. ASSUME zeros = 2, v = 3 PROVE EndsIn3(t)
    <3>1. L >= 2 /\ s[L] = 0 /\ s[L - 1] = 0 BY <1>1, <1>2, <2>2
    <3> QED BY <1>1, <2>2, <3>1 DEF EndsIn3
  <2> QED BY <2>1, <2>2
<1>7. v # 0 => EndsInZeros(t, 0) BY <1>1 DEF EndsInZeros
<1>8. v = 0 => EndsInZeros(t, zeros + 1)
  <2> SUFFICES ASSUME v = 0 PROVE EndsInZeros(t, zeros + 1) OBVIOUS
  <2>1. zeros + 1 \in 0..2 /\ zeros + 1 <= L + 1 BY <1>1, <1>2
  <2>2. \A k \in (L + 1) - (zeros + 1) + 1 .. L + 1 : t[k] = 0
    <3> SUFFICES ASSUME NEW k \in (L + 1) - (zeros + 1) + 1 .. L + 1 PROVE t[k] = 0 OBVIOUS
    <3>1. k = L + 1 \/ k \in L - zeros + 1 .. L BY <1>1
    <3> QED BY <1>1, <1>2, <3>1
  <2>3. zeros + 1 < L + 1 => t[(L + 1) - (zeros + 1)] # 0
    <3>1. (L + 1) - (zeros + 1) = L - zeros BY <1>1
    <3> QED BY <1>1, <1>2, <3>1
  <2> QED BY <1>1, <2>1, <2>2, <2>3 DEF EndsInZeros
<1> QED BY <1>1, <1>5, <1>6, <1>7, <1>8 DEF t

\* A byte is protected.
LEMMA ProtectKeeps ==
  ASSUME NEW acc, IsProtected(acc), NEW v \in Byte
  PROVE  IsProtected(Protect(acc, v))
<1> DEFINE s == acc.out
           zeros == acc.zeros
<1>1. s \in Seq(Byte) /\ EndsInZeros(s, zeros) /\ Clean(s) /\ ~EndsIn3(s) /\ zeros \in 0..2
  BY DEF IsProtected, EndsInZeros
<1>2. v \in 0..255 /\ 3 \in Byte BY DEF Byte
<1> HIDE DEF s, zeros
<1>3. CASE zeros = 2 /\ v <= 3
  <2> DEFINE t == Append(s, 3)
             u == Append(t, v)
             z == IF v # 0 THEN 0 ELSE 1
  <2>1. t \in Seq(Byte) /\ Clean(t) /\ EndsInZeros(t, 0)
    BY <1>1, <1>2, AppendClean
  <2> HIDE DEF t
  <2>2. u \in Seq(Byte) /\ Clean(u) /\ ~EndsIn3(u) /\ EndsInZeros(u, z)
    BY <1>2, <1>3, <2>1, AppendClean
  <2>3. s \o <<3, v>> = u BY <1>1 DEF t
  <2>4. Protect(acc, v) = [out |-> u, zeros |-> z]
    BY <1>3, <2>3 DEF Protect, s, zeros
  <2> HIDE DEF u, z
  <2> QED BY <2>2, <2>4 DEF IsProtected
<1>4. CASE ~(zeros = 2 /\ v <= 3)
  <2> DEFINE u == Append(s, v)
             z == IF v # 0 THEN 0 ELSE zeros + 1
  <2>1. u \in Seq(Byte) /\ Clean(u) /\ ~EndsIn3(u) /\ EndsInZeros(u, z)
    BY <1>1, <1>2, <1>4, AppendClean
  <2>2. s \o <<v>> = u BY <1>1
  <2>3. Protect(acc, v) = [out |-> u, zeros |-> z]
    BY <1>4, <2>2 DEF Protect, s, zeros
  <2> HIDE DEF u, z
  <2> QED BY <2>1, <2>3 DEF IsProtected
<1> QED BY <1>3, <1>4

\* Every prefix of a payload is protected.
LEMMA RoundsAreProtected ==
  ASSUME NEW rbsp \in Seq(Byte), NEW acc, ProtectRounds(acc, rbsp, Len(rbsp))
  PROVE  \A n \in 0..Len(rbsp) : IsProtected(acc[n])
<1> DEFINE N == {n \in Nat : n <= Len(rbsp) => IsProtected(acc[n])}
<1>1. 0 \in N
  <2>1. acc[0] = [out |-> <<>>, zeros |-> 0] BY DEF ProtectRounds
  <2>2. EndsInZeros(<<>>, 0) /\ Clean(<<>>) /\ ~EndsIn3(<<>>) BY DEF EndsInZeros, Clean, EndsIn3
  <2>3. IsProtected([out |-> <<>>, zeros |-> 0]) BY <2>2 DEF IsProtected
  <2> QED BY <2>1, <2>3
<1>2. ASSUME NEW n \in N PROVE n + 1 \in N
  <2> SUFFICES ASSUME n + 1 <= Len(rbsp) PROVE IsProtected(acc[n + 1]) OBVIOUS
  <2>1. n + 1 \in 0..Len(rbsp) /\ n + 1 # 0 /\ (n + 1) - 1 = n /\ n + 1 \in DOMAIN rbsp
    OBVIOUS
  <2>2. acc[n + 1] = Protect(acc[n], rbsp[n + 1]) BY <2>1 DEF ProtectRounds
  <2>3. IsProtected(acc[n]) /\ rbsp[n + 1] \in Byte BY <2>1
  <2> QED BY <2>2, <2>3, ProtectKeeps
<1>3. N = Nat
  <2> HIDE DEF N
  <2>1. N \in SUBSET Nat BY DEF N
  <2> QED BY <1>1, <1>2, <2>1, NatSetInduction
<1> QED BY <1>3

\* The content of a unit is clean, and its last byte is no zero.
LEMMA ContentIsClean ==
  ASSUME NEW rbsp \in Seq(Byte)
  PROVE  LET bytes == NaluContent(rbsp)
         IN bytes \in Seq(Byte) /\ Clean(bytes) /\ (bytes # <<>> => bytes[Len(bytes)] # 0)
<1>1. PICK acc : ProtectRounds(acc, rbsp, Len(rbsp)) /\ Protected(rbsp) = acc[Len(rbsp)]
  BY ProtectedIsLast
<1>2. IsProtected(Protected(rbsp)) BY <1>1, RoundsAreProtected
<1> DEFINE s == Protected(rbsp).out
           zeros == Protected(rbsp).zeros
<1>3. s \in Seq(Byte) /\ EndsInZeros(s, zeros) /\ Clean(s) /\ ~EndsIn3(s) /\ zeros \in 0..2
  BY <1>2 DEF IsProtected, EndsInZeros
<1>4. NaluContent(rbsp) = IF zeros > 0 THEN Append(s, 3) ELSE s
  BY DEF NaluContent
<1> HIDE DEF s, zeros
<1>5. CASE zeros > 0
  <2> DEFINE t == Append(s, 3)
  <2>1. 3 \in Byte BY DEF Byte
  <2>2. t \in Seq(Byte) /\ Clean(t) BY <1>3, <2>1, AppendClean
  <2>3. t[Len(t)] = 3 BY <1>3
  <2> QED BY <1>4, <1>5, <2>2, <2>3
<1>6. CASE ~(zeros > 0)
  <2>1. zeros = 0 BY <1>3, <1>6
  <2>2. s # <<>> => s[Len(s)] # 0 BY <1>3, <2>1 DEF EndsInZeros
  <2> QED BY <1>3, <1>4, <1>6, <2>2
<1> QED BY <1>5, <1>6

\* Clean pieces put together.
LEMMA ConcatClean ==
  ASSUME NEW s \in Seq(Byte), NEW t \in Seq(Byte), Clean(s), Clean(t),
         s # <<>>, s[Len(s)] # 0, t # <<>> => t[1] <= 3 \/ ~EndsIn3(s)
  PROVE  Clean(s \o t)
<1> DEFINE u == s \o t
           L == Len(s)
           M == Len(t)
<1>1. /\ u \in Seq(Byte) /\ L \in Nat /\ M \in Nat /\ Len(u) = L + M /\ L > 0
      /\ \A k \in 1..L : u[k] = s[k]
      /\ \A k \in L + 1 .. L + M : u[k] = t[k - L]
  OBVIOUS
<1>2. \A k \in 1..L + M : u[k] \in 0..255
  <2> SUFFICES ASSUME NEW k \in 1..L + M PROVE u[k] \in 0..255 OBVIOUS
  <2>1. u[k] \in Byte BY <1>1
  <2> QED BY <2>1 DEF Byte
<1>3. /\ \A k \in 1..(L - 2) : s[k] = 0 /\ s[k + 1] = 0 =>
           s[k + 2] > 2 /\ (s[k + 2] = 3 /\ k + 3 <= L => s[k + 3] <= 3)
      /\ \A k \in 1..(M - 2) : t[k] = 0 /\ t[k + 1] = 0 =>
           t[k + 2] > 2 /\ (t[k + 2] = 3 /\ k + 3 <= M => t[k + 3] <= 3)
  BY DEF Clean
<1>4. s[L] # 0 /\ (M > 0 /\ L >= 3 /\ s[L] = 3 /\ s[L - 1] = 0 /\ s[L - 2] = 0 => t[1] <= 3)
  BY DEF EndsIn3
<1> HIDE DEF u, L, M
<1>5. ASSUME NEW k \in 1..(L + M - 2), u[k] = 0, u[k + 1] = 0
      PROVE  u[k + 2] > 2 /\ (u[k + 2] = 3 /\ k + 3 <= L + M => u[k + 3] <= 3)
  <2>1. CASE k > L
    <3> DEFINE j == k - L
    <3>1. /\ j \in 1..(M - 2) /\ u[k] = t[j] /\ u[k + 1] = t[j + 1] /\ u[k + 2] = t[j + 2]
          /\ (k + 3 <= L + M => j + 3 <= M /\ u[k + 3] = t[j + 3])
      <4>1. /\ k \in L + 1 .. L + M /\ k + 1 \in L + 1 .. L + M /\ k + 2 \in L + 1 .. L + M
            /\ (k + 1) - L = j + 1 /\ (k + 2) - L = j + 2 /\ j \in 1..(M - 2)
        BY <1>1, <2>1
      <4>2. k + 3 <= L + M => k + 3 \in L + 1 .. L + M /\ (k + 3) - L = j + 3 /\ j + 3 <= M
        BY <1>1, <2>1
      <4> QED BY <1>1, <4>1, <4>2
    <3> HIDE DEF j
    <3>2. t[j] = 0 /\ t[j + 1] = 0 BY <1>5, <3>1
    <3> QED BY <1>3, <3>1, <3>2
  <2>2. CASE k <= L
    <3>1. k # L /\ k + 1 # L
      <4>1. k = L => u[k] = s[L] BY <1>1
      <4>2. k + 1 = L => u[k + 1] = s[L] BY <1>1
      <4> QED BY <1>4, <1>5, <4>1, <4>2
    <3>2. k + 2 <= L /\ k \in 1..(L - 2) BY <1>1, <2>2, <3>1
    <3>3. u[k] = s[k] /\ u[k + 1] = s[k + 1] /\ u[k + 2] = s[k + 2] BY <1>1, <3>2
    <3>4. s[k + 2] > 2 /\ (s[k + 2] = 3 /\ k + 3 <= L => s[k + 3] <= 3) BY <1>3, <1>5, <3>2, <3>3
    <3>5. CASE k + 3 <= L
      <4>1. u[k + 3] = s[k + 3] BY <1>1, <3>5
      <4> QED BY <3>3, <3>4, <3>5, <4>1
    <3>6. CASE k + 3 > L
      <4>1. k + 2 = L /\ k + 1 = L - 1 /\ k = L - 2 /\ L >= 3 BY <1>1, <3>2, <3>6
      <4>2. k + 3 <= L + M => M > 0 /\ u[k + 3] = t[1]
        <5> SUFFICES ASSUME k + 3 <= L + M PROVE M > 0 /\ u[k + 3] = t[1] OBVIOUS
        <5>1. k + 3 \in L + 1 .. L + M /\ (k + 3) - L = 1 /\ M > 0 BY <1>1, <4>1
        <5> QED BY <1>1, <5>1
      <4> QED BY <1>4, <1>5, <3>3, <3>4, <4>1, <4>2
    <3> QED BY <1>1, <3>5, <3>6
  <2> QED BY <1>1, <2>1, <2>2
<1>6. Clean(u) BY <1>1, <1>5 DEF Clean
<1> QED BY <1>6 DEF u

-----------------------------------------------------------------------------
(* The bytes of a unit.                                                    *)

\* The bits written so far.
Stream(bytes, held, num) == [fifo |-> bytes, heldBits |-> held, numHeldBits |-> num, ok |-> TRUE]

\* One byte and one more.
LEMMA Pair == \A a, b : <<a>> \o <<b>> = <<a, b>>
<1> SUFFICES ASSUME NEW a, NEW b PROVE <<a>> \o <<b>> = <<a, b>> OBVIOUS
<1>1. /\ <<a>> \in Seq({a, b}) /\ <<b>> \in Seq({a, b}) /\ Len(<<a>>) = 1 /\ Len(<<b>>) = 1
      /\ <<a>>[1] = a /\ <<b>>[1] = b
  OBVIOUS
<1> DEFINE s == <<a>> \o <<b>>
           t == <<a, b>>
<1>2. s = [i \in 1..2 |-> s[i]] /\ t = [i \in 1..2 |-> t[i]]
  OBVIOUS
<1>3. s[1] = a /\ s[2] = b BY <1>1
<1>4. t[1] = a /\ t[2] = b OBVIOUS
<1>5. 1..2 = {1, 2} OBVIOUS
<1>6. \A i \in 1..2 : s[i] = t[i] BY <1>3, <1>4, <1>5
<1> HIDE DEF s, t
<1>7. s = t BY <1>2, <1>6
<1> QED BY <1>7 DEF s, t

\* The header is two bytes: the layer, then the type and the temporal layer plus 1.
LEMMA HeaderBytes ==
  ASSUME NEW unit \in Units
  PROVE  /\ NalUnitHeader(unit) = <<unit.layer, 8 * NalTypes[unit.type] + (unit.tid + 1)>>
         /\ unit.layer \in 0..63
         /\ 8 * NalTypes[unit.type] + (unit.tid + 1) \in 1..255
<1> DEFINE l == unit.layer
           t == NalTypes[unit.type]
           d == unit.tid + 1
<1>1. l \in 0..63 /\ t \in 0..24 /\ d \in 1..7
  <2>1. unit.type \in DOMAIN NalTypes /\ unit.layer \in 0..63 /\ unit.tid \in 0..6
    BY UnitsAssumption
  <2>2. t \in 0..24 BY <2>1 DEF NalTypes
  <2> QED BY <2>1, <2>2
<1> HIDE DEF l, t, d
<1>2. Write(EmptyOutput, 0, 1) = Stream(<<>>, 0, 1)
  <2> DEFINE s == Stream(<<>>, 0, 0)
  <2>1. s.heldBits = 0 /\ s.numHeldBits = 0 BY DEF Stream
  <2>2. (1 + 0) % 8 = 1 /\ 8 - 1 = 7 /\ 1 + 0 < 8 /\ 0 + 0 = 0 /\ ~(1 > 24 \/ 0 >= 2^1)
    BY SmallPowers
  <2>3. LowBits(Shl(0, 7), 8) = 0 BY SmallPowers DEF Shl, LowBits
  <2>4. Write(s, 0, 1) = [s EXCEPT !.heldBits = 0, !.numHeldBits = 1]
    <3>1. ASSUME NEW w, w.heldBits = 0, w.numHeldBits = 0
          PROVE  Write(w, 0, 1) = [w EXCEPT !.heldBits = 0, !.numHeldBits = 1]
      BY <3>1, <2>2, <2>3 DEF Write, MaxWordBits
    <3> HIDE DEF s
    <3> QED BY <2>1, <3>1
  <2>5. EmptyOutput = s BY DEF EmptyOutput, Stream
  <2> QED BY <2>4, <2>5 DEF Stream
<1>3. Write(Stream(<<>>, 0, 1), 0, 1) = Stream(<<>>, 0, 2)
  <2> DEFINE s == Stream(<<>>, 0, 1)
  <2>1. s.heldBits = 0 /\ s.numHeldBits = 1 BY DEF Stream
  <2>2. (1 + 1) % 8 = 2 /\ 8 - 2 = 6 /\ 1 + 1 < 8 /\ 0 + 0 = 0 /\ ~(1 > 24 \/ 0 >= 2^1)
    BY SmallPowers
  <2>3. LowBits(Shl(0, 6), 8) = 0 BY SmallPowers DEF Shl, LowBits
  <2>4. Write(s, 0, 1) = [s EXCEPT !.heldBits = 0, !.numHeldBits = 2]
    <3>1. ASSUME NEW w, w.heldBits = 0, w.numHeldBits = 1
          PROVE  Write(w, 0, 1) = [w EXCEPT !.heldBits = 0, !.numHeldBits = 2]
      <4> DEFINE total == 1 + w.numHeldBits
                 next == total % 8
      <4>1. total < 8 /\ next = 2 /\ 8 - next = 6 BY <3>1, <2>2
      <4>2. Write(w, 0, 1) = [w EXCEPT !.heldBits = @ + LowBits(Shl(0, 8 - next), 8), !.numHeldBits = next]
        BY <4>1, <2>2 DEF Write, MaxWordBits
      <4>3. w.heldBits + LowBits(Shl(0, 8 - next), 8) = 0 BY <4>1, <3>1, <2>3
      <4> HIDE DEF next, total
      <4> QED BY <4>1, <4>2, <4>3
    <3> HIDE DEF s
    <3> QED BY <2>1, <3>1
  <2> QED BY <2>4 DEF Stream
<1>4. ASSUME NEW x \in 0..255 PROVE BytesOf(x, 1) = <<x>>
  <2>1. Shr(x, 8 * (1 - 1)) = x /\ LowBits(x, 8) = x
    <3>1. x \div 1 = x /\ x % 256 = x /\ 8 * (1 - 1) = 0 OBVIOUS
    <3> QED BY <3>1, SmallPowers DEF Shr, LowBits
  <2>2. BytesOf(x, 1) = [i \in 1..1 |-> LowBits(Shr(x, 8 * (1 - i)), 8)] BY DEF BytesOf
  <2>3. <<x>> = [i \in 1..1 |-> x] OBVIOUS
  <2> QED BY <2>1, <2>2, <2>3
<1>5. Write(Stream(<<>>, 0, 2), l, 6) = Stream(<<l>>, 0, 0)
  <2> DEFINE s == Stream(<<>>, 0, 2)
  <2>1. s.fifo = <<>> /\ s.heldBits = 0 /\ s.numHeldBits = 2 BY DEF Stream
  <2>2. /\ (6 + 2) % 8 = 0 /\ 8 - 0 = 8 /\ ~(6 + 2 < 8) /\ 8 * ((6 - 0) \div 8) = 0 /\ (6 + 2) \div 8 = 1
        /\ ~(6 > 24 \/ l >= 2^6)
    BY <1>1, SmallPowers
  <2>3. LowBits(Shl(l, 8), 8) = 0
    <3>1. (l * 256) % 256 = 0 BY <1>1
    <3> QED BY <3>1, SmallPowers DEF Shl, LowBits
  <2>4. Shl(0, 0) + Shr(l, 0) = l
    <3>1. 0 * 1 = 0 /\ l \div 1 = l /\ 0 + l = l BY <1>1
    <3> QED BY <3>1, SmallPowers DEF Shl, Shr
  <2>5. BytesOf(l, 1) = <<l>> BY <1>1, <1>4
  <2>6. Write(s, l, 6) = [s EXCEPT !.fifo = <<>> \o <<l>>, !.heldBits = 0, !.numHeldBits = 0]
    <3>1. ASSUME NEW w, w.fifo = <<>>, w.heldBits = 0, w.numHeldBits = 2
          PROVE  Write(w, l, 6) = [w EXCEPT !.fifo = <<>> \o <<l>>, !.heldBits = 0, !.numHeldBits = 0]
      <4> DEFINE total == 6 + w.numHeldBits
                 next == total % 8
                 top == 8 * ((6 - next) \div 8)
                 word == Shl(w.heldBits, top) + Shr(l, next)
      <4>1. total = 8 /\ next = 0 /\ 8 - next = 8 /\ top = 0 /\ ~(total < 8) /\ total \div 8 = 1
        BY <3>1, <2>2
      <4>2. Write(w, l, 6) = [w EXCEPT !.fifo = @ \o BytesOf(word, total \div 8),
                                      !.heldBits = LowBits(Shl(l, 8 - next), 8), !.numHeldBits = next]
        BY <4>1, <2>2 DEF Write, MaxWordBits
      <4> HIDE DEF next, total, top
      <4>3. word = l BY <4>1, <3>1, <2>4
      <4> HIDE DEF word
      <4> QED BY <4>1, <4>2, <4>3, <3>1, <2>3, <2>5
    <3> HIDE DEF s
    <3> QED BY <2>1, <3>1
  <2>7. <<>> \o <<l>> = <<l>> OBVIOUS
  <2> QED BY <2>6, <2>7 DEF Stream
<1>6. Write(Stream(<<l>>, 0, 0), t, 5) = Stream(<<l>>, 8 * t, 5)
  <2> DEFINE s == Stream(<<l>>, 0, 0)
             x == 8 * t
  <2>1. s.fifo = <<l>> /\ s.heldBits = 0 /\ s.numHeldBits = 0 BY DEF Stream
  <2>2. (5 + 0) % 8 = 5 /\ 8 - 5 = 3 /\ 5 + 0 < 8 /\ 0 + x = x /\ ~(5 > 24 \/ t >= 2^5)
    BY <1>1, SmallPowers
  <2>3. LowBits(Shl(t, 3), 8) = x
    <3>1. (t * 8) % 256 = 8 * t BY <1>1
    <3> QED BY <3>1, SmallPowers DEF Shl, LowBits
  <2> HIDE DEF x
  <2>4. Write(s, t, 5) = [s EXCEPT !.heldBits = x, !.numHeldBits = 5]
    <3>1. ASSUME NEW w, w.heldBits = 0, w.numHeldBits = 0
          PROVE  Write(w, t, 5) = [w EXCEPT !.heldBits = x, !.numHeldBits = 5]
      BY <3>1, <2>2, <2>3 DEF Write, MaxWordBits
    <3> HIDE DEF s
    <3> QED BY <2>1, <3>1
  <2>5. Write(s, t, 5) = Stream(<<l>>, x, 5) BY <2>4 DEF Stream
  <2> QED BY <2>5 DEF x
<1>7. Write(Stream(<<l>>, 8 * t, 5), d, 3).fifo = <<l, 8 * t + d>>
  <2> DEFINE x == 8 * t
             y == x + d
             s == Stream(<<l>>, x, 5)
  <2>1. s.fifo = <<l>> /\ s.heldBits = x /\ s.numHeldBits = 5 BY DEF Stream
  <2>2. /\ (3 + 5) % 8 = 0 /\ 8 - 0 = 8 /\ ~(3 + 5 < 8) /\ 8 * ((3 - 0) \div 8) = 0 /\ (3 + 5) \div 8 = 1
        /\ ~(3 > 24 \/ d >= 2^3)
    BY <1>1, SmallPowers
  <2>3. LowBits(Shl(d, 8), 8) = 0
    <3>1. (d * 256) % 256 = 0 BY <1>1
    <3> QED BY <3>1, SmallPowers DEF Shl, LowBits
  <2>4. Shl(x, 0) + Shr(d, 0) = y
    <3>1. x * 1 = x /\ d \div 1 = d BY <1>1
    <3> QED BY <3>1, SmallPowers DEF Shl, Shr
  <2>5. BytesOf(y, 1) = <<y>>
    <3>1. y \in 0..255 BY <1>1
    <3> QED BY <1>4, <3>1
  <2> HIDE DEF x, y
  <2>6. Write(s, d, 3) = [s EXCEPT !.fifo = <<l>> \o <<y>>, !.heldBits = 0, !.numHeldBits = 0]
    <3>1. ASSUME NEW w, w.fifo = <<l>>, w.heldBits = x, w.numHeldBits = 5
          PROVE  Write(w, d, 3) = [w EXCEPT !.fifo = <<l>> \o <<y>>, !.heldBits = 0, !.numHeldBits = 0]
      BY <3>1, <2>2, <2>3, <2>4, <2>5 DEF Write, MaxWordBits
    <3> HIDE DEF s
    <3> QED BY <2>1, <3>1
  <2>7. <<l>> \o <<y>> = <<l, y>> BY Pair
  <2> QED BY <2>6, <2>7 DEF Stream, x, y
<1>8. NalUnitHeader(unit) = <<l, 8 * t + d>>
  BY <1>2, <1>3, <1>5, <1>6, <1>7 DEF NalUnitHeader, AndType, AndLayer, ReservedBits, l, t, d
<1>9. 8 * t + d \in 1..255 BY <1>1
<1> QED BY <1>1, <1>8, <1>9 DEF l, t, d

\* The words 00 00 03.
LEMMA ZeroWordsAreClean ==
  ASSUME NEW n \in Nat
  PROVE  /\ ZeroWords(n) \in Seq(Byte) /\ Clean(ZeroWords(n)) /\ Len(ZeroWords(n)) = 3 * n
         /\ n > 0 => ZeroWords(n)[1] = 0 /\ ZeroWords(n)[3 * n] = 3
<1> DEFINE z == ZeroWords(n)
           N == 3 * n
<1>1. N \in Nat /\ z = [i \in 1..N |-> IF i % 3 = 0 THEN 3 ELSE 0] BY DEF ZeroWords
<1>2. \A i \in 1..N : z[i] = IF i % 3 = 0 THEN 3 ELSE 0 BY <1>1
<1>3. z \in Seq(Byte) /\ Len(z) = N
  <2>1. 0 \in Byte /\ 3 \in Byte BY DEF Byte
  <2> HIDE DEF N
  <2> QED BY <1>1, <2>1
<1>4. Clean(z)
  <2> SUFFICES ASSUME NEW k \in 1..(N - 2), z[k] = 0, z[k + 1] = 0
               PROVE  z[k + 2] > 2 /\ (z[k + 2] = 3 /\ k + 3 <= N => z[k + 3] <= 3)
    BY <1>3 DEF Clean
  <2> HIDE DEF N, z
  <2>1. k % 3 # 0 /\ (k + 1) % 3 # 0 BY <1>1, <1>2
  <2>2. (k + 2) % 3 = 0 BY <1>1, <2>1
  <2>3. z[k + 2] = 3 BY <1>1, <1>2, <2>2
  <2>4. k + 3 <= N => z[k + 3] \in {0, 3}
    <3> SUFFICES ASSUME k + 3 <= N PROVE z[k + 3] \in {0, 3} OBVIOUS
    <3>1. k + 3 \in 1..N BY <1>1
    <3> QED BY <1>2, <3>1
  <2> QED BY <2>3, <2>4
<1>5. n > 0 => 1 \in 1..N /\ N \in 1..N /\ 1 % 3 # 0 /\ N % 3 = 0 OBVIOUS
<1> QED BY <1>2, <1>3, <1>4, <1>5

\* A unit is clean, header and zero words included, and its last byte is no zero.
LEMMA UnitIsClean ==
  ASSUME NEW unit \in Units
  PROVE  LET bytes == NalUnit(unit)
         IN bytes \in Seq(Byte) /\ Clean(bytes) /\ Len(bytes) >= 2 /\ bytes[Len(bytes)] # 0
<1> DEFINE h == NalUnitHeader(unit)
           c == NaluContent(Payload(unit).fifo)
           z == ZeroWords(unit.zeroWords)
           s == h \o c
<1>1. h \in Seq(Byte) /\ Len(h) = 2 /\ h[2] # 0 /\ Clean(h) /\ ~EndsIn3(h)
  <2>1. PICK a \in 0..63, b \in 1..255 : h = <<a, b>>
    BY HeaderBytes
  <2>2. h \in Seq(Byte) /\ Len(h) = 2 /\ h[2] # 0 BY <2>1 DEF Byte
  <2> HIDE DEF h
  <2> QED BY <2>2 DEF Clean, EndsIn3
<1>2. unit.zeroWords \in Nat /\ Payload(unit).fifo \in Seq(Byte) BY UnitsAssumption
<1>3. c \in Seq(Byte) /\ Clean(c) /\ (c # <<>> => c[Len(c)] # 0)
  BY <1>2, ContentIsClean
<1> HIDE DEF h, c
<1>4. s \in Seq(Byte) /\ Clean(s) /\ Len(s) >= 2 /\ s[Len(s)] # 0
  <2>1. h # <<>> /\ h[Len(h)] # 0 BY <1>1
  <2>2. Clean(s) BY <1>1, <1>3, <2>1, ConcatClean
  <2>3. s \in Seq(Byte) /\ Len(s) = Len(h) + Len(c) /\ Len(c) \in Nat
    <3>1. h \in Seq(Byte) /\ c \in Seq(Byte) BY <1>1, <1>3
    <3> QED BY <3>1
  <2>4. c = <<>> => s = h BY <1>1
  <2>5. c # <<>> => Len(c) > 0 /\ s[Len(s)] = c[Len(c)] BY <1>1, <1>3
  <2> QED BY <1>1, <1>3, <2>1, <2>2, <2>3, <2>4, <2>5
<1>5. NalUnit(unit) = s \o z
  BY DEF NalUnit, h, c
<1>6. z \in Seq(Byte) /\ Clean(z) /\ (z # <<>> => z[1] = 0 /\ z[Len(z)] = 3 /\ Len(z) > 0)
  <2>1. CASE unit.zeroWords > 0
    <3> DEFINE n == unit.zeroWords
    <3>1. n \in Nat /\ n > 0 BY <1>2, <2>1
    <3> HIDE DEF n
    <3>2. /\ ZeroWords(n) \in Seq(Byte) /\ Clean(ZeroWords(n)) /\ Len(ZeroWords(n)) = 3 * n
          /\ ZeroWords(n)[1] = 0 /\ ZeroWords(n)[3 * n] = 3
      BY <3>1, ZeroWordsAreClean
    <3>3. 3 * n > 0 BY <3>1
    <3> QED BY <3>2, <3>3 DEF n
  <2>2. CASE unit.zeroWords = 0
    <3>1. z \in Seq(Byte) /\ Clean(z) /\ Len(z) = 3 * 0 BY <1>2, <2>2, ZeroWordsAreClean
    <3> HIDE DEF z
    <3>2. z = <<>> BY <3>1
    <3> QED BY <3>1, <3>2
  <2> QED BY <1>2, <2>1, <2>2
<1> HIDE DEF s, z
<1>7. s # <<>> /\ (z # <<>> => z[1] <= 3) BY <1>4, <1>6
<1>8. Clean(s \o z) BY <1>4, <1>6, <1>7, ConcatClean
<1>9. s \o z \in Seq(Byte) /\ Len(s \o z) >= 2 /\ (s \o z)[Len(s \o z)] # 0
  <2>1. z = <<>> => s \o z = s BY <1>4
  <2>2. z # <<>> => (s \o z)[Len(s \o z)] = z[Len(z)] /\ Len(s \o z) >= 2 BY <1>4, <1>6
  <2> QED BY <1>4, <1>6, <2>1, <2>2
<1> QED BY <1>5, <1>8, <1>9

-----------------------------------------------------------------------------
(* The file.                                                               *)

\* Of a file f the bytes behind position F up to position E: zeros, the start code prefix
\* at P, and a clean unit that ends with no zero.
Framed(f, F, P, E) ==
  /\ F \in Nat /\ P \in Nat /\ E \in Nat /\ F <= P /\ P + 5 <= E /\ E <= Len(f)
  /\ (\A k \in F + 1 .. P + 2 : f[k] = 0) /\ f[P + 3] = 1 /\ f[E] # 0
  /\ \A k \in P + 4 .. E - 2 : f[k] = 0 /\ f[k + 1] = 0 =>
       f[k + 2] > 2 /\ (f[k + 2] = 3 /\ k + 3 <= E => f[k + 3] <= 3)

\* Where the unit i ends.
EndIn(f, st, i) == IF i < Len(st) THEN st[i + 1].from ELSE Len(f)

\* All of the file is units framed one behind the other.
FileIsFramed(f, st) ==
  /\ f \in Seq(Byte) /\ st \in Seq([from : Nat, prefix : Nat])
  /\ st = <<>> => f = <<>>
  /\ st # <<>> => st[1].from = 0
  /\ \A i \in 1..Len(st) : Framed(f, st[i].from, st[i].prefix, EndIn(f, st, i))

FileInv == sent \in Seq(Units) /\ Len(starts) = Len(sent) /\ FileIsFramed(file, starts)

\* What is in the file stays there.
LEMMA FramedInLonger ==
  ASSUME NEW f \in Seq(Byte), NEW g \in Seq(Byte), NEW F, NEW P, NEW E,
         Len(f) <= Len(g), \A k \in 1..Len(f) : g[k] = f[k], Framed(f, F, P, E)
  PROVE  Framed(g, F, P, E)
<1>1. /\ F \in Nat /\ P \in Nat /\ E \in Nat /\ F <= P /\ P + 5 <= E /\ E <= Len(f)
      /\ (\A k \in F + 1 .. P + 2 : f[k] = 0) /\ f[P + 3] = 1 /\ f[E] # 0
      /\ \A k \in P + 4 .. E - 2 : f[k] = 0 /\ f[k + 1] = 0 =>
           f[k + 2] > 2 /\ (f[k + 2] = 3 /\ k + 3 <= E => f[k + 3] <= 3)
  BY DEF Framed
<1>2. Len(f) \in Nat /\ Len(g) \in Nat /\ E <= Len(g) BY <1>1
<1> DEFINE L == Len(f)
<1>3. L \in Nat /\ E <= L /\ \A k \in 1..L : g[k] = f[k] BY <1>1
<1> HIDE DEF L
<1>4. \A k \in F + 1 .. P + 2 : g[k] = 0
  <2> SUFFICES ASSUME NEW k \in F + 1 .. P + 2 PROVE g[k] = 0 OBVIOUS
  <2>1. k \in 1..L BY <1>1, <1>3
  <2> QED BY <1>1, <1>3, <2>1
<1>5. g[P + 3] = 1 /\ g[E] # 0
  <2>1. P + 3 \in 1..L /\ E \in 1..L BY <1>1, <1>3
  <2> QED BY <1>1, <1>3, <2>1
<1>6. ASSUME NEW k \in P + 4 .. E - 2, g[k] = 0, g[k + 1] = 0
      PROVE  g[k + 2] > 2 /\ (g[k + 2] = 3 /\ k + 3 <= E => g[k + 3] <= 3)
  <2>1. k \in 1..L /\ k + 1 \in 1..L /\ k + 2 \in 1..L /\ (k + 3 <= E => k + 3 \in 1..L)
    BY <1>1, <1>3
  <2>2. g[k] = f[k] /\ g[k + 1] = f[k + 1] /\ g[k + 2] = f[k + 2] /\ (k + 3 <= E => g[k + 3] = f[k + 3])
    BY <1>3, <2>1
  <2> QED BY <1>1, <1>6, <2>2
<1>7. E <= Len(g) BY <1>1, <1>2
<1> QED BY <1>1, <1>4, <1>5, <1>6, <1>7 DEF Framed

\* Zeros and a one.
IsLead(lead) ==
  /\ lead \in Seq(Byte) /\ Len(lead) >= 3 /\ lead[Len(lead)] = 1
  /\ \A k \in 1..(Len(lead) - 1) : lead[k] = 0

\* What two pieces put together hold.
LEMMA ConcatBytes ==
  ASSUME NEW a \in Seq(Byte), NEW b \in Seq(Byte)
  PROVE  /\ a \o b \in Seq(Byte) /\ Len(a \o b) = Len(a) + Len(b) /\ Len(a) \in Nat /\ Len(b) \in Nat
         /\ \A k \in 1..Len(a) : (a \o b)[k] = a[k]
         /\ \A k \in Len(a) + 1 .. Len(a) + Len(b) : (a \o b)[k] = b[k - Len(a)]
  OBVIOUS

\* The zeros and the start code in front of a unit.
LEMMA LeadBytes ==
  ASSUME NEW gap \in Nat, NEW unit, NEW firstInAU
  PROVE  IsLead([i \in 1..gap |-> 0] \o StartCode(unit, firstInAU))
<1> DEFINE z == [i \in 1..gap |-> 0]
           c == StartCode(unit, firstInAU)
           lead == z \o c
<1>1. z \in Seq(Byte) /\ Len(z) = gap /\ \A k \in 1..gap : z[k] = 0
  <2>1. 0 \in Byte BY DEF Byte
  <2> QED BY <2>1
<1>2. /\ c \in Seq(Byte) /\ Len(c) \in {3, 4} /\ c[Len(c)] = 1
      /\ \A k \in 1..(Len(c) - 1) : c[k] = 0
  <2>1. 0 \in Byte /\ 1 \in Byte BY DEF Byte
  <2>2. CASE c = <<0, 0, 1>> BY <2>1, <2>2
  <2>3. CASE c = <<0, 0, 0, 1>> BY <2>1, <2>3
  <2> QED BY <2>2, <2>3 DEF StartCode
<1> HIDE DEF z, c
<1>3. /\ lead \in Seq(Byte) /\ Len(lead) = gap + Len(c) /\ Len(c) \in Nat
      /\ \A k \in 1..gap : lead[k] = z[k]
      /\ \A k \in gap + 1 .. gap + Len(c) : lead[k] = c[k - gap]
  <2>1. z \in Seq(Byte) /\ c \in Seq(Byte) BY <1>1, <1>2
  <2>2. /\ lead \in Seq(Byte) /\ Len(lead) = Len(z) + Len(c) /\ Len(c) \in Nat
        /\ \A k \in 1..Len(z) : lead[k] = z[k]
        /\ \A k \in Len(z) + 1 .. Len(z) + Len(c) : lead[k] = c[k - Len(z)]
    BY <2>1, ConcatBytes
  <2>3. Len(z) = gap BY <1>1
  <2> HIDE DEF lead
  <2> QED BY <2>2, <2>3
<1> DEFINE M == Len(c)
<1>4. M \in {3, 4} /\ c[M] = 1 /\ (\A k \in 1..(M - 1) : c[k] = 0) BY <1>2
<1>5. /\ Len(lead) = gap + M /\ \A k \in 1..gap : lead[k] = 0
      /\ \A k \in gap + 1 .. gap + M : lead[k] = c[k - gap]
  BY <1>1, <1>3
<1> HIDE DEF M, lead
<1>6. lead[gap + M] = 1
  <2>1. gap + M \in gap + 1 .. gap + M /\ (gap + M) - gap = M BY <1>4
  <2> QED BY <1>4, <1>5, <2>1
<1>7. ASSUME NEW k \in 1..(gap + M - 1) PROVE lead[k] = 0
  <2>1. CASE k <= gap BY <1>5, <2>1
  <2>2. CASE k > gap
    <3>1. k \in gap + 1 .. gap + M /\ k - gap \in 1..(M - 1) BY <1>4, <2>2
    <3> QED BY <1>4, <1>5, <3>1
  <2> QED BY <2>1, <2>2
<1>8. IsLead(lead) BY <1>3, <1>4, <1>5, <1>6, <1>7 DEF IsLead
<1> QED BY <1>8 DEF lead, z, c

\* A unit that is put behind a file is framed.
LEMMA NewUnitIsFramed ==
  ASSUME NEW f \in Seq(Byte), NEW lead \in Seq(Byte), NEW u \in Seq(Byte),
         Len(lead) >= 3, lead[Len(lead)] = 1, \A k \in 1..(Len(lead) - 1) : lead[k] = 0,
         Clean(u), Len(u) >= 2, u[Len(u)] # 0
  PROVE  LET g == f \o lead \o u
         IN /\ g \in Seq(Byte) /\ Len(g) > Len(f)
            /\ \A k \in 1..Len(f) : g[k] = f[k]
            /\ Framed(g, Len(f), Len(f) + Len(lead) - 3, Len(g))
<1> DEFINE F == Len(f)
           M == Len(lead)
           N == Len(u)
           h == f \o lead
           g == h \o u
           P == F + M - 3
<1>1. /\ F \in Nat /\ M \in Nat /\ N \in Nat
      /\ h \in Seq(Byte) /\ Len(h) = F + M
      /\ \A k \in 1..F : h[k] = f[k]
      /\ \A k \in F + 1 .. F + M : h[k] = lead[k - F]
  OBVIOUS
<1> HIDE DEF h
<1>2. /\ g \in Seq(Byte) /\ Len(g) = (F + M) + N
      /\ \A k \in 1..F + M : g[k] = h[k]
      /\ \A k \in (F + M) + 1 .. (F + M) + N : g[k] = u[k - (F + M)]
  <2>1. h \in Seq(Byte) /\ u \in Seq(Byte) BY <1>1
  <2>2. /\ g \in Seq(Byte) /\ Len(g) = Len(h) + N
        /\ \A k \in 1..Len(h) : g[k] = h[k]
        /\ \A k \in Len(h) + 1 .. Len(h) + N : g[k] = u[k - Len(h)]
    BY <2>1
  <2> HIDE DEF g, F, M, N
  <2> QED BY <1>1, <2>2
<1> HIDE DEF g
<1>3. M >= 3 /\ lead[M] = 1 /\ (\A k \in 1..(M - 1) : lead[k] = 0) /\ N >= 2 /\ u[N] # 0
  OBVIOUS
<1>4. \A k \in 1..(N - 2) : u[k] = 0 /\ u[k + 1] = 0 =>
        u[k + 2] > 2 /\ (u[k + 2] = 3 /\ k + 3 <= N => u[k + 3] <= 3)
  BY DEF Clean
<1> DEFINE E == (F + M) + N
<1> HIDE DEF F, M, N
<1>5. \A k \in 1..F : g[k] = f[k]
  <2> SUFFICES ASSUME NEW k \in 1..F PROVE g[k] = f[k] OBVIOUS
  <2>1. k \in 1..F + M BY <1>1
  <2> QED BY <1>1, <1>2, <2>1
<1>6. \A k \in F + 1 .. P + 2 : g[k] = 0
  <2> SUFFICES ASSUME NEW k \in F + 1 .. P + 2 PROVE g[k] = 0 OBVIOUS
  <2>1. k \in 1..F + M /\ k \in F + 1 .. F + M /\ k - F \in 1..(M - 1) BY <1>1, <1>3
  <2> QED BY <1>1, <1>2, <1>3, <2>1
<1>7. g[P + 3] = 1
  <2>1. P + 3 = F + M /\ F + M \in 1..F + M /\ F + M \in F + 1 .. F + M /\ (F + M) - F = M BY <1>1, <1>3
  <2>2. g[F + M] = lead[M] BY <1>1, <1>2, <2>1
  <2> QED BY <1>3, <2>1, <2>2
<1>8. g[E] # 0
  <2>1. E \in (F + M) + 1 .. (F + M) + N /\ E - (F + M) = N BY <1>1, <1>3
  <2> QED BY <1>2, <1>3, <2>1
<1>9. ASSUME NEW k \in P + 4 .. E - 2, g[k] = 0, g[k + 1] = 0
      PROVE  g[k + 2] > 2 /\ (g[k + 2] = 3 /\ k + 3 <= E => g[k + 3] <= 3)
  <2> DEFINE j == k - (F + M)
  <2>1. /\ j \in 1..(N - 2)
        /\ k \in (F + M) + 1 .. (F + M) + N /\ k + 1 \in (F + M) + 1 .. (F + M) + N
        /\ k + 2 \in (F + M) + 1 .. (F + M) + N
        /\ (k + 1) - (F + M) = j + 1 /\ (k + 2) - (F + M) = j + 2
    BY <1>1, <1>3
  <2>2. k + 3 <= E => k + 3 \in (F + M) + 1 .. (F + M) + N /\ (k + 3) - (F + M) = j + 3 /\ j + 3 <= N
    BY <1>1, <1>3
  <2>3. g[k] = u[j] /\ g[k + 1] = u[j + 1] /\ g[k + 2] = u[j + 2] BY <1>2, <2>1
  <2>4. k + 3 <= E => g[k + 3] = u[j + 3] BY <1>2, <2>2
  <2>5. (k + 3 <= E => j + 3 <= N) /\ j \in 1..(N - 2) BY <2>1, <2>2
  <2> HIDE DEF j, E
  <2>6. u[j] = 0 /\ u[j + 1] = 0 BY <1>9, <2>3
  <2>7. u[j + 2] > 2 /\ (u[j + 2] = 3 /\ j + 3 <= N => u[j + 3] <= 3) BY <1>4, <2>5, <2>6
  <2> QED BY <2>3, <2>4, <2>5, <2>7
<1>10. F \in Nat /\ P \in Nat /\ E \in Nat /\ F <= P /\ P + 5 <= E /\ E > F BY <1>1, <1>3
<1>11. Len(g) = E BY <1>2
<1>12. Framed(g, F, P, E)
  <2> HIDE DEF E, P
  <2>1. E <= Len(g) BY <1>10, <1>11
  <2> QED BY <1>6, <1>7, <1>8, <1>9, <1>10, <2>1 DEF Framed
<1> QED BY <1>2, <1>5, <1>10, <1>11, <1>12 DEF g, h, F, M

\* A unit more.
LEMMA FramingGrows ==
  ASSUME NEW f \in Seq(Byte), NEW st, FileIsFramed(f, st),
         NEW g \in Seq(Byte), Len(g) > Len(f), \A k \in 1..Len(f) : g[k] = f[k],
         NEW p \in Nat, Framed(g, Len(f), p, Len(g))
  PROVE  FileIsFramed(g, Append(st, [from |-> Len(f), prefix |-> p]))
<1> DEFINE R == [from : Nat, prefix : Nat]
           new == [from |-> Len(f), prefix |-> p]
           tt == Append(st, new)
           n == Len(st)
<1>1. /\ st \in Seq(R) /\ (st = <<>> => f = <<>>) /\ (st # <<>> => st[1].from = 0)
      /\ \A i \in 1..n : Framed(f, st[i].from, st[i].prefix, EndIn(f, st, i))
  BY DEF FileIsFramed
<1>2. new \in R /\ new.from = Len(f) /\ new.prefix = p /\ Len(f) \in Nat OBVIOUS
<1> HIDE DEF R, new
<1>3. /\ n \in Nat /\ tt \in Seq(R) /\ Len(tt) = n + 1 /\ tt[n + 1] = new /\ tt # <<>>
      /\ \A i \in 1..n : tt[i] = st[i]
  BY <1>1, <1>2
<1>4. tt[1].from = 0
  <2>1. CASE st = <<>>
    <3>1. f = <<>> /\ n = 0 BY <1>1, <2>1
    <3>2. Len(f) = 0 /\ tt[1] = new BY <1>3, <3>1
    <3> QED BY <1>2, <3>2
  <2>2. CASE st # <<>>
    <3>1. n >= 1 BY <1>1, <2>2
    <3>2. tt[1] = st[1] BY <1>3, <3>1
    <3> QED BY <1>1, <2>2, <3>2
  <2> QED BY <2>1, <2>2
<1> HIDE DEF tt
<1>5. ASSUME NEW i \in 1..n + 1 PROVE Framed(g, tt[i].from, tt[i].prefix, EndIn(g, tt, i))
  <2>1. CASE i = n + 1
    <3>1. EndIn(g, tt, i) = Len(g) /\ tt[i] = new BY <1>3, <2>1 DEF EndIn
    <3> QED BY <1>2, <3>1
  <2>2. CASE i # n + 1
    <3>1. i \in 1..n /\ i < n + 1 /\ tt[i] = st[i] BY <1>3, <2>2
    <3>2. EndIn(g, tt, i) = EndIn(f, st, i)
      <4>1. CASE i = n
        <5>1. EndIn(f, st, i) = Len(f) BY <1>3, <4>1 DEF EndIn
        <5>2. EndIn(g, tt, i) = tt[n + 1].from BY <1>3, <3>1, <4>1 DEF EndIn
        <5> QED BY <1>2, <1>3, <5>1, <5>2
      <4>2. CASE i # n
        <5>1. i < n /\ i + 1 \in 1..n BY <1>3, <3>1, <4>2
        <5>2. tt[i + 1] = st[i + 1] BY <1>3, <5>1
        <5>3. EndIn(f, st, i) = st[i + 1].from BY <5>1 DEF EndIn
        <5>4. EndIn(g, tt, i) = tt[i + 1].from BY <1>3, <3>1 DEF EndIn
        <5> QED BY <5>2, <5>3, <5>4
      <4> QED BY <4>1, <4>2
    <3>3. Framed(f, st[i].from, st[i].prefix, EndIn(f, st, i)) BY <1>1, <3>1
    <3>4. Len(f) <= Len(g) BY <1>2
    <3>5. Framed(g, st[i].from, st[i].prefix, EndIn(f, st, i)) BY <3>3, <3>4, FramedInLonger
    <3> QED BY <3>1, <3>2, <3>5
  <2> QED BY <2>1, <2>2
<1>6. FileIsFramed(g, tt)
  BY <1>3, <1>4, <1>5 DEF FileIsFramed, R
<1> QED BY <1>6 DEF tt, new

\* The encoder writes a unit.
LEMMA WriteKeepsFile ==
  ASSUME FileInv, NEW unit \in Units, NEW firstInAU \in BOOLEAN, NEW gap \in Gaps,
         WriteNalUnit(unit, firstInAU, gap)
  PROVE  FileInv' /\ Len(sent') = Len(sent) + 1 /\ Len(starts') = Len(sent')
<1> DEFINE lead == [i \in 1..gap |-> 0] \o StartCode(unit, firstInAU)
           u == NalUnit(unit)
           p == Len(file) + Len(lead) - 3
<1>1. /\ sent' = Append(sent, unit) /\ file' = file \o lead \o u
      /\ starts' = Append(starts, [from |-> Len(file), prefix |-> p])
  BY DEF WriteNalUnit
<1>2. /\ sent \in Seq(Units) /\ Len(starts) = Len(sent) /\ FileIsFramed(file, starts)
      /\ file \in Seq(Byte) /\ starts \in Seq([from : Nat, prefix : Nat])
  BY DEF FileInv, FileIsFramed
<1>3. gap \in Nat BY NalStreamAssumption
<1>4. /\ lead \in Seq(Byte) /\ Len(lead) >= 3 /\ lead[Len(lead)] = 1
      /\ \A k \in 1..(Len(lead) - 1) : lead[k] = 0
  <2>1. IsLead(lead) BY <1>3, LeadBytes
  <2> HIDE DEF lead
  <2> QED BY <2>1 DEF IsLead
<1>5. u \in Seq(Byte) /\ Clean(u) /\ Len(u) >= 2 /\ u[Len(u)] # 0
  BY UnitIsClean
<1> HIDE DEF lead, u
<1>6. /\ file' \in Seq(Byte) /\ Len(file') > Len(file) /\ (\A k \in 1..Len(file) : file'[k] = file[k])
      /\ Framed(file', Len(file), p, Len(file'))
  BY <1>1, <1>2, <1>4, <1>5, NewUnitIsFramed
<1>7. p \in Nat
  <2>1. Len(file) \in Nat /\ Len(lead) \in Nat BY <1>2, <1>4
  <2> QED BY <1>4, <2>1
<1> HIDE DEF p
<1>8. FileIsFramed(file', starts')
  <2> DEFINE g == file'
  <2>1. /\ g \in Seq(Byte) /\ Len(g) > Len(file) /\ (\A k \in 1..Len(file) : g[k] = file[k])
        /\ Framed(g, Len(file), p, Len(g))
    BY <1>6
  <2> HIDE DEF g
  <2>2. FileIsFramed(g, Append(starts, [from |-> Len(file), prefix |-> p]))
    BY <1>2, <1>7, <2>1, FramingGrows
  <2> QED BY <1>1, <2>2 DEF g
<1>9. sent' \in Seq(Units) /\ Len(sent') = Len(sent) + 1 BY <1>1, <1>2
<1>10. Len(starts') = Len(starts) + 1 BY <1>1, <1>2
<1> QED BY <1>2, <1>8, <1>9, <1>10 DEF FileInv

\* The file is framed in every state.
THEOREM FileIsFramedAlways == Spec => []FileInv
<1>1. Init => FileInv
  <2> SUFFICES ASSUME Init PROVE FileInv OBVIOUS
  <2>1. sent = <<>> /\ file = <<>> /\ starts = <<>> BY DEF Init
  <2>2. <<>> \in Seq(Units) /\ <<>> \in Seq(Byte) /\ <<>> \in Seq([from : Nat, prefix : Nat])
        /\ Len(<<>>) = 0
    OBVIOUS
  <2>3. FileIsFramed(<<>>, <<>>) BY <2>2 DEF FileIsFramed
  <2> QED BY <2>1, <2>2, <2>3 DEF FileInv
<1>2. FileInv /\ [Next]_vars => FileInv'
  <2> SUFFICES ASSUME FileInv, [Next]_vars PROVE FileInv' OBVIOUS
  <2>1. CASE \E unit \in Units, firstInAU \in BOOLEAN, gap \in Gaps : WriteNalUnit(unit, firstInAU, gap)
    BY <2>1, WriteKeepsFile
  <2>2. CASE UNCHANGED <<sent, file, starts>>
    BY <2>2 DEF FileInv
  <2>3. CASE CloseFile BY <2>2, <2>3 DEF CloseFile
  <2>4. CASE FinishPicture BY <2>2, <2>4 DEF FinishPicture
  <2>5. CASE ReadNalUnit BY <2>2, <2>5 DEF ReadNalUnit
  <2>6. CASE Finished BY <2>2, <2>6 DEF Finished, vars
  <2>7. CASE UNCHANGED vars BY <2>2, <2>7 DEF vars
  <2> QED BY <2>1, <2>3, <2>4, <2>5, <2>6, <2>7 DEF Next
<1> QED BY <1>1, <1>2, PTL DEF Spec

\* Bytes that nobody takes for a start code.
IsNoStartCode(bytes) ==
  /\ bytes[Len(bytes)] # 0
  /\ \A k \in 1..(Len(bytes) - 2) : bytes[k] = 0 /\ bytes[k + 1] = 0 =>
       bytes[k + 2] > 2 /\ (bytes[k + 2] = 3 /\ k + 3 <= Len(bytes) => bytes[k + 3] <= 3)

\* The bytes of a framed unit.
LEMMA FramedBytes ==
  ASSUME NEW f \in Seq(Byte), NEW F, NEW P, NEW E, Framed(f, F, P, E)
  PROVE  IsNoStartCode(SubSeq(f, P + 4, E))
<1> DEFINE u == SubSeq(f, P + 4, E)
           N == E - P - 3
<1>1. /\ F \in Nat /\ P \in Nat /\ E \in Nat /\ P + 5 <= E /\ E <= Len(f) /\ f[E] # 0
      /\ \A k \in P + 4 .. E - 2 : f[k] = 0 /\ f[k + 1] = 0 =>
           f[k + 2] > 2 /\ (f[k + 2] = 3 /\ k + 3 <= E => f[k + 3] <= 3)
  BY DEF Framed
<1>2. N \in Nat /\ N >= 2 /\ Len(u) = N /\ \A k \in 1..N : u[k] = f[(P + 3) + k]
  <2>1. P + 4 \in 1..Len(f) + 1 /\ E \in 0..Len(f) /\ P + 4 <= E + 1 BY <1>1
  <2>2. Len(u) = E - (P + 4) + 1 /\ \A k \in 1..(E - (P + 4) + 1) : u[k] = f[(P + 4) + k - 1]
    BY <1>1, <2>1
  <2>3. N = E - (P + 4) + 1 /\ N \in Nat /\ N >= 2 /\ \A k \in 1..N : (P + 4) + k - 1 = (P + 3) + k
    BY <1>1
  <2> HIDE DEF u, N
  <2> QED BY <2>2, <2>3
<1> HIDE DEF u
<1>3. u[N] # 0
  <2>1. N \in 1..N /\ (P + 3) + N = E BY <1>1, <1>2
  <2> QED BY <1>1, <1>2, <2>1
<1>4. ASSUME NEW k \in 1..(N - 2), u[k] = 0, u[k + 1] = 0
      PROVE  u[k + 2] > 2 /\ (u[k + 2] = 3 /\ k + 3 <= N => u[k + 3] <= 3)
  <2> DEFINE j == (P + 3) + k
  <2>1. /\ j \in P + 4 .. E - 2 /\ k \in 1..N /\ k + 1 \in 1..N /\ k + 2 \in 1..N
        /\ (k + 3 <= N => k + 3 \in 1..N /\ j + 3 <= E)
        /\ (P + 3) + (k + 1) = j + 1 /\ (P + 3) + (k + 2) = j + 2 /\ (P + 3) + (k + 3) = j + 3
    BY <1>1
  <2> HIDE DEF N
  <2>2. u[k] = f[j] /\ u[k + 1] = f[j + 1] /\ u[k + 2] = f[j + 2]
        /\ (k + 3 <= N => u[k + 3] = f[j + 3])
    BY <1>2, <2>1
  <2> HIDE DEF j
  <2> QED BY <1>1, <1>4, <2>1, <2>2
<1>5. IsNoStartCode(u) BY <1>2, <1>3, <1>4 DEF IsNoStartCode
<1> QED BY <1>5 DEF u

\* NoStartCodeInside: whatever was written, no three bytes of a unit look like a start
\* code, and no unit ends with a zero (NALwrite.cpp:71-87).
THEOREM NoStartCodeInsideAlways == Spec => []NoStartCodeInside
<1>1. FileInv => NoStartCodeInside
  <2> SUFFICES ASSUME FileInv, NEW i \in DOMAIN starts
               PROVE  LET bytes == UnitBytes(i)
                      IN /\ Last(bytes) # 0
                         /\ \A k \in 1..(Len(bytes) - 2) : bytes[k] = 0 /\ bytes[k+1] = 0 =>
                              /\ bytes[k+2] > 2
                              /\ bytes[k+2] = 3 /\ k + 3 <= Len(bytes) => bytes[k+3] <= 3
    BY DEF NoStartCodeInside
  <2>1. file \in Seq(Byte) /\ Framed(file, starts[i].from, starts[i].prefix, EndIn(file, starts, i))
    <3>1. FileIsFramed(file, starts) /\ starts \in Seq([from : Nat, prefix : Nat]) BY DEF FileInv, FileIsFramed
    <3>2. i \in 1..Len(starts) BY <3>1
    <3> QED BY <3>1, <3>2 DEF FileIsFramed
  <2>2. UnitBytes(i) = SubSeq(file, starts[i].prefix + 4, EndIn(file, starts, i))
    BY DEF UnitBytes, EndIn
  <2> DEFINE bytes == SubSeq(file, starts[i].prefix + 4, EndIn(file, starts, i))
  <2>3. IsNoStartCode(bytes) BY <2>1, FramedBytes
  <2>4. Last(bytes) = bytes[Len(bytes)] BY DEF Last
  <2> HIDE DEF bytes
  <2>5. UnitBytes(i) = bytes BY <2>2 DEF bytes
  <2> QED BY <2>3, <2>4, <2>5 DEF IsNoStartCode
<1> QED BY <1>1, FileIsFramedAlways, PTL

-----------------------------------------------------------------------------
(* The reader.                                                             *)

\* What the bytes at a position are.
LEMMA Bytes3 ==
  ASSUME NEW i \in Nat, NEW a, NEW b, NEW c
  PROVE  StartsWith(i, <<a, b, c>>) <=>
           i + 3 <= Len(file) /\ file[i + 1] = a /\ file[i + 2] = b /\ file[i + 3] = c
<1> DEFINE s == <<a, b, c>>
<1>1. Len(s) = 3 /\ DOMAIN s = {1, 2, 3} /\ s[1] = a /\ s[2] = b /\ s[3] = c OBVIOUS
<1> HIDE DEF s
<1>2. StartsWith(i, s) <=>
        i + 3 <= Len(file) /\ file[i + 1] = a /\ file[i + 2] = b /\ file[i + 3] = c
  BY <1>1 DEF StartsWith
<1> QED BY <1>2 DEF s

\* Four of them.
LEMMA Bytes4 ==
  ASSUME NEW i \in Nat, NEW a, NEW b, NEW c, NEW d
  PROVE  StartsWith(i, <<a, b, c, d>>) <=>
           /\ i + 4 <= Len(file)
           /\ file[i + 1] = a /\ file[i + 2] = b /\ file[i + 3] = c /\ file[i + 4] = d
<1> DEFINE s == <<a, b, c, d>>
<1>1. Len(s) = 4 /\ DOMAIN s = {1, 2, 3, 4} /\ s[1] = a /\ s[2] = b /\ s[3] = c /\ s[4] = d OBVIOUS
<1> HIDE DEF s
<1>2. StartsWith(i, s) <=>
        /\ i + 4 <= Len(file)
        /\ file[i + 1] = a /\ file[i + 2] = b /\ file[i + 3] = c /\ file[i + 4] = d
  BY <1>1 DEF StartsWith
<1> QED BY <1>2 DEF s

\* The short start code, the long one, and what ends a unit.
LEMMA CodesMean ==
  ASSUME NEW i \in Nat
  PROVE  /\ IsPrefix3(i) <=> i + 3 <= Len(file) /\ file[i + 1] = 0 /\ file[i + 2] = 0 /\ file[i + 3] = 1
         /\ IsPrefix4(i) <=> /\ i + 4 <= Len(file)
                             /\ file[i + 1] = 0 /\ file[i + 2] = 0 /\ file[i + 3] = 0 /\ file[i + 4] = 1
         /\ IsEndOfUnit(i) <=> /\ i + 3 <= Len(file)
                               /\ file[i + 1] = 0 /\ file[i + 2] = 0 /\ file[i + 3] \in 0..2
<1>1. IsPrefix3(i) <=> i + 3 <= Len(file) /\ file[i + 1] = 0 /\ file[i + 2] = 0 /\ file[i + 3] = 1
  <2>1. IsPrefix3(i) <=> StartsWith(i, <<0, 0, 1>>) BY DEF IsPrefix3
  <2> QED BY <2>1, Bytes3
<1>2. IsPrefix4(i) <=> /\ i + 4 <= Len(file)
                       /\ file[i + 1] = 0 /\ file[i + 2] = 0 /\ file[i + 3] = 0 /\ file[i + 4] = 1
  <2>1. IsPrefix4(i) <=> StartsWith(i, <<0, 0, 0, 1>>) BY DEF IsPrefix4
  <2> QED BY <2>1, Bytes4
<1>3. IsEndOfUnit(i) <=> /\ i + 3 <= Len(file)
                         /\ file[i + 1] = 0 /\ file[i + 2] = 0 /\ file[i + 3] \in 0..2
  <2>1. \A b : StartsWith(i, <<0, 0, b>>) <=>
          i + 3 <= Len(file) /\ file[i + 1] = 0 /\ file[i + 2] = 0 /\ file[i + 3] = b
    BY Bytes3
  <2> QED BY <2>1 DEF IsEndOfUnit
<1> QED BY <1>1, <1>2, <1>3

\* The least of a set of numbers.
LEMMA MinIs ==
  ASSUME NEW S \in SUBSET Nat, NEW n \in S
  PROVE  Min(S) \in S /\ Min(S) <= n
<1>1. \E x \in S : \A y \in S : x <= y BY LeastOf
<1> QED BY <1>1 DEF Min

\* From among the zeros in front of a unit its start code is found: the short one, or the
\* long one a byte before.
FoundStart(at, start, P) ==
  /\ start \in Nat /\ at <= start /\ start <= P
  /\ (IsPrefix3(start) /\ start = P) \/ (~IsPrefix3(start) /\ IsPrefix4(start) /\ start + 1 = P)
LEMMA StartIsFound ==
  ASSUME file \in Seq(Byte), NEW F, NEW P, NEW E, Framed(file, F, P, E), NEW at \in Nat, F <= at, at <= P
  PROVE  FoundStart(at, NextStart(at), P)
<1>1. /\ F \in Nat /\ P \in Nat /\ E \in Nat /\ P + 5 <= E /\ E <= Len(file) /\ Len(file) \in Nat
      /\ (\A k \in F + 1 .. P + 2 : file[k] = 0) /\ file[P + 3] = 1
  BY DEF Framed
<1> DEFINE stops == {k \in at..(Len(file) - 1) : IsPrefix3(k) \/ IsPrefix4(k) \/ file[k + 1] # 0}
           m == Min(stops)
<1>2. IsPrefix3(P)
  <2>1. P + 1 \in F + 1 .. P + 2 /\ P + 2 \in F + 1 .. P + 2 /\ P + 3 <= Len(file) BY <1>1
  <2>2. file[P + 1] = 0 /\ file[P + 2] = 0 BY <1>1, <2>1
  <2> QED BY <1>1, <2>1, <2>2, CodesMean
<1>3. P \in stops /\ stops \in SUBSET Nat
  <2>1. P \in at..(Len(file) - 1) /\ at..(Len(file) - 1) \in SUBSET Nat BY <1>1
  <2> QED BY <1>2, <2>1
<1>4. NextStart(at) = m BY <1>3 DEF NextStart
<1>5. m \in stops /\ m <= P
  <2> HIDE DEF stops
  <2> QED BY <1>3, MinIs
<1>6. m \in Nat /\ at <= m /\ (IsPrefix3(m) \/ IsPrefix4(m) \/ file[m + 1] # 0)
  BY <1>1, <1>5
<1> HIDE DEF m, stops
<1>7. CASE m < P
  <2>1. m + 1 \in F + 1 .. P + 2 /\ m + 3 \in F + 1 .. P + 2 BY <1>1, <1>6, <1>7
  <2>2. file[m + 1] = 0 /\ file[m + 3] = 0 BY <1>1, <2>1
  <2>3. ~IsPrefix3(m) BY <1>6, <2>2, CodesMean
  <2>4. IsPrefix4(m) BY <1>6, <2>2, <2>3
  <2>5. file[m + 4] = 1 BY <1>6, <2>4, CodesMean
  <2>6. m + 4 \notin F + 1 .. P + 2
    <3>1. m + 4 \in F + 1 .. P + 2 => file[m + 4] = 0 BY <1>1
    <3> QED BY <2>5, <3>1
  <2>7. m + 1 = P BY <1>1, <1>6, <1>7, <2>6
  <2> QED BY <1>4, <1>6, <1>7, <2>3, <2>4, <2>7 DEF FoundStart
<1>8. CASE m = P BY <1>2, <1>4, <1>6, <1>8 DEF FoundStart
<1>9. m < P \/ m = P BY <1>1, <1>5, <1>6
<1> QED BY <1>7, <1>8, <1>9

\* What comes behind a unit: the end of the file, or zeros and the next start code.
EndsAt(E) ==
  \/ E = Len(file)
  \/ E + 3 <= Len(file) /\ file[E + 1] = 0 /\ file[E + 2] = 0 /\ file[E + 3] \in 0..2

\* The body of a unit ends where the unit does.
LEMMA EndIsFound ==
  ASSUME file \in Seq(Byte), NEW F, NEW P, NEW E, Framed(file, F, P, E), EndsAt(E)
  PROVE  BodyEnd(P + 3) = E
<1>1. /\ P \in Nat /\ E \in Nat /\ P + 5 <= E /\ E <= Len(file) /\ Len(file) \in Nat /\ file[E] # 0
      /\ \A k \in P + 4 .. E - 2 : file[k] = 0 /\ file[k + 1] = 0 => file[k + 2] > 2
  BY DEF Framed
<1> DEFINE i == P + 3
           ends == {k \in i..(Len(file) - 3) : IsEndOfUnit(k)}
<1>2. ASSUME NEW k \in i..(Len(file) - 3), k < E PROVE ~IsEndOfUnit(k)
  <2>1. SUFFICES ASSUME IsEndOfUnit(k) PROVE FALSE OBVIOUS
  <2>2. k \in Nat /\ k >= P + 3 BY <1>1
  <2>3. file[k + 1] = 0 /\ file[k + 2] = 0 /\ file[k + 3] \in 0..2 BY <2>1, <2>2, CodesMean
  <2>4. CASE k + 3 <= E
    <3>1. k + 1 \in P + 4 .. E - 2 /\ (k + 1) + 1 = k + 2 /\ (k + 1) + 2 = k + 3 BY <1>1, <2>2, <2>4
    <3>2. file[k + 3] > 2 BY <1>1, <2>3, <3>1
    <3> QED BY <2>3, <3>2
  <2>5. CASE k + 3 > E
    <3>1. k + 1 = E \/ k + 2 = E BY <1>1, <1>2, <2>2, <2>5
    <3> QED BY <1>1, <2>3, <3>1
  <2> QED BY <1>1, <2>2, <2>4, <2>5
<1>3. CASE E = Len(file)
  <2>1. ends = {}
    <3> SUFFICES ASSUME NEW k \in ends PROVE FALSE OBVIOUS
    <3>1. k \in i..(Len(file) - 3) /\ IsEndOfUnit(k) OBVIOUS
    <3>2. k < E BY <1>1, <1>3, <3>1
    <3> QED BY <1>2, <3>1, <3>2
  <2> QED BY <1>3, <2>1 DEF BodyEnd
<1>4. CASE E # Len(file)
  <2>1. E + 3 <= Len(file) /\ IsEndOfUnit(E)
    <3>1. E + 3 <= Len(file) /\ file[E + 1] = 0 /\ file[E + 2] = 0 /\ file[E + 3] \in 0..2
      BY <1>4 DEF EndsAt
    <3> QED BY <1>1, <3>1, CodesMean
  <2>2. E \in ends /\ ends \in SUBSET Nat
    <3>1. E \in i..(Len(file) - 3) /\ i..(Len(file) - 3) \in SUBSET Nat BY <1>1, <2>1
    <3> QED BY <2>1, <3>1
  <2>3. Min(ends) \in ends /\ Min(ends) <= E
    <3> HIDE DEF ends
    <3> QED BY <2>2, MinIs
  <2>4. ~(Min(ends) < E)
    <3>1. Min(ends) \in i..(Len(file) - 3) /\ IsEndOfUnit(Min(ends)) BY <2>3
    <3> HIDE DEF ends
    <3> QED BY <1>2, <3>1
  <2>5. Min(ends) \in Nat BY <2>2, <2>3
  <2>6. Min(ends) = E
    <3> DEFINE m == Min(ends)
    <3> HIDE DEF m
    <3>1. m \in Nat /\ m <= E /\ ~(m < E) BY <2>3, <2>4, <2>5 DEF m
    <3>2. m = E BY <1>1, <3>1
    <3> QED BY <3>2 DEF m
  <2>7. BodyEnd(i) = Min(ends) BY <2>2 DEF BodyEnd
  <2> QED BY <2>6, <2>7
<1> QED BY <1>3, <1>4

\* Where a unit starts, and where it ends.
FromOf(i) == starts[i].from
PrefixOf(i) == starts[i].prefix
EndOf(i) == EndIn(file, starts, i)

\* A unit and the one behind it.
LEMMA UnitsFollow ==
  ASSUME FileInv, NEW i \in 1..Len(starts)
  PROVE  /\ file \in Seq(Byte) /\ Framed(file, FromOf(i), PrefixOf(i), EndOf(i)) /\ EndsAt(EndOf(i))
         /\ i < Len(starts) => EndOf(i) = FromOf(i + 1)
         /\ i = Len(starts) => EndOf(i) = Len(file)
<1>1. file \in Seq(Byte) /\ starts \in Seq([from : Nat, prefix : Nat])
      /\ \A j \in 1..Len(starts) : Framed(file, FromOf(j), PrefixOf(j), EndOf(j))
  BY DEF FileInv, FileIsFramed, FromOf, PrefixOf, EndOf
<1>2. Len(starts) \in Nat BY <1>1
<1>3. i = Len(starts) => EndOf(i) = Len(file) BY <1>2 DEF EndOf, EndIn
<1>4. i < Len(starts) => EndOf(i) = FromOf(i + 1) BY DEF EndOf, EndIn, FromOf
<1>5. ASSUME i < Len(starts) PROVE EndsAt(EndOf(i))
  <2> DEFINE E == FromOf(i + 1)
             P == PrefixOf(i + 1)
             X == EndOf(i + 1)
  <2>1. i + 1 \in 1..Len(starts) BY <1>2, <1>5
  <2>2. Framed(file, E, P, X) BY <1>1, <2>1
  <2> HIDE DEF E, P, X
  <2>3. /\ E \in Nat /\ P \in Nat /\ X \in Nat /\ E <= P /\ P + 5 <= X /\ X <= Len(file)
        /\ (\A k \in E + 1 .. P + 2 : file[k] = 0) /\ file[P + 3] = 1
    BY <2>2 DEF Framed
  <2>4. Len(file) \in Nat BY <1>1
  <2>5. E + 3 <= Len(file) /\ file[E + 1] = 0 /\ file[E + 2] = 0
    <3>1. E + 1 \in E + 1 .. P + 2 /\ E + 2 \in E + 1 .. P + 2 /\ E + 3 <= Len(file) BY <2>3, <2>4
    <3> QED BY <2>3, <3>1
  <2>6. file[E + 3] \in 0..2
    <3>1. CASE E = P BY <2>3, <3>1
    <3>2. CASE E # P
      <4>1. E + 3 \in E + 1 .. P + 2 BY <2>3, <3>2
      <4> QED BY <2>3, <4>1
    <3> QED BY <3>1, <3>2
  <2>7. EndsAt(E) BY <2>5, <2>6 DEF EndsAt
  <2> QED BY <1>4, <1>5, <2>7 DEF E
<1>6. i = Len(starts) => EndsAt(EndOf(i)) BY <1>3 DEF EndsAt
<1> QED BY <1>1, <1>2, <1>3, <1>4, <1>5, <1>6

\* The unit that is read from a position in front of its start code.
LEMMA UnitIsRead ==
  ASSUME FileInv, NEW i \in 1..Len(starts), NEW r, NextByte(r) \in Nat,
         FromOf(i) <= NextByte(r), NextByte(r) <= PrefixOf(i)
  PROVE  /\ ByteStreamNalUnit(r).nal # <<>>
         /\ ByteStreamNalUnit(r).nal = SubSeq(file, PrefixOf(i) + 4, EndOf(i))
         /\ ByteStreamNalUnit(r).r = StoppedAt(r, NextStart(EndOf(i)))
<1> DEFINE P == PrefixOf(i)
           E == EndOf(i)
           F == FromOf(i)
           at == NextByte(r)
           start == NextStart(at)
           body == IF IsPrefix3(start) THEN start + 3 ELSE start + 4
           end == BodyEnd(body)
           stopped == StoppedAt(r, NextStart(end))
           none1 == [nal |-> <<>>, r |-> StoppedAt(r, start)]
           none2 == [nal |-> <<>>,
                     r |-> LET s == StoppedAt(r, start) IN [s EXCEPT !.numFutureBytes = @ - 1]]
<1>1. file \in Seq(Byte) /\ Framed(file, F, P, E) /\ EndsAt(E) BY UnitsFollow
<1>2. F \in Nat /\ P \in Nat /\ E \in Nat /\ P + 5 <= E /\ E <= Len(file) /\ Len(file) \in Nat
  BY <1>1 DEF Framed
<1>3. FoundStart(at, start, P)
  <2>1. at \in Nat /\ F <= at /\ at <= P OBVIOUS
  <2> HIDE DEF at, F, P, E
  <2> QED BY <1>1, <2>1, StartIsFound
<1>4. BodyEnd(P + 3) = E
  <2> HIDE DEF F, P, E
  <2> QED BY <1>1, EndIsFound
<1>5. ByteStreamNalUnit(r) =
        IF start = Len(file) THEN none1
        ELSE IF ~IsPrefix3(start) /\ ~IsPrefix4(start) THEN none2
        ELSE [nal |-> SubSeq(file, body + 1, end), r |-> stopped]
  BY DEF ByteStreamNalUnit
<1> HIDE DEF none1, none2
<1>6. start \in Nat /\ start <= P
      /\ ((IsPrefix3(start) /\ start = P) \/ (~IsPrefix3(start) /\ IsPrefix4(start) /\ start + 1 = P))
  BY <1>3 DEF FoundStart
<1> HIDE DEF F, P, E, at, start
<1>7. start # Len(file) /\ ~(~IsPrefix3(start) /\ ~IsPrefix4(start)) BY <1>2, <1>6
<1>8. body = P + 3
  <2>1. CASE IsPrefix3(start) BY <1>6, <2>1
  <2>2. CASE ~IsPrefix3(start)
    <3>1. start + 1 = P BY <1>6, <2>2
    <3>2. start + 4 = P + 3 BY <1>2, <1>6, <3>1
    <3> QED BY <2>2, <3>2
  <2> QED BY <2>1, <2>2
<1>9. end = E BY <1>4, <1>8
<1> HIDE DEF body, end
<1>10. ByteStreamNalUnit(r) = [nal |-> SubSeq(file, body + 1, end), r |-> StoppedAt(r, NextStart(end))]
  BY <1>5, <1>7
<1>11. SubSeq(file, body + 1, end) # <<>>
  <2>1. body + 1 \in 1..Len(file) /\ end \in 1..Len(file) /\ body + 1 <= end BY <1>2, <1>8, <1>9
  <2>2. Len(SubSeq(file, body + 1, end)) = end - (body + 1) + 1 BY <1>1, <2>1
  <2>3. end - (body + 1) + 1 # 0 BY <1>2, <1>8, <1>9
  <2> DEFINE s == SubSeq(file, body + 1, end)
  <2>4. s # <<>>
    <3>1. Len(s) # 0 BY <2>2, <2>3
    <3> HIDE DEF s
    <3> QED BY <3>1
  <2> QED BY <2>4
<1>12. body + 1 = P + 4 BY <1>2, <1>8
<1> DEFINE u == SubSeq(file, body + 1, end)
           w == StoppedAt(r, NextStart(end))
<1>13. u = SubSeq(file, P + 4, E) BY <1>9, <1>12
<1>14. w = StoppedAt(r, NextStart(E)) BY <1>9
<1>15. u # <<>> BY <1>11
<1>16. ByteStreamNalUnit(r) = [nal |-> u, r |-> w] BY <1>10
<1> HIDE DEF u, w
<1>17. ByteStreamNalUnit(r).nal = u /\ ByteStreamNalUnit(r).r = w BY <1>16
<1> QED BY <1>13, <1>14, <1>15, <1>17 DEF E, P

\* A reader: all its fields.
IsReader(r) ==
  /\ r = [pos |-> r.pos, numFutureBytes |-> r.numFutureBytes, failed |-> r.failed, ok |-> r.ok]
  /\ r.pos \in Int /\ r.numFutureBytes \in Int

\* Behind a unit that is not the last, the reader stops at the start code of the next.
LEMMA StopsAtNext ==
  ASSUME FileInv, NEW i \in 1..Len(starts), i < Len(starts), NEW r, IsReader(r)
  PROVE  LET s == StoppedAt(r, NextStart(EndOf(i)))
         IN /\ IsReader(s) /\ s.failed = r.failed /\ s.pos = PrefixOf(i + 1) + 3
            /\ FromOf(i + 1) <= NextByte(s) /\ NextByte(s) <= PrefixOf(i + 1)
<1> DEFINE F == FromOf(i + 1)
           P == PrefixOf(i + 1)
           E == EndOf(i + 1)
           m == NextStart(F)
           peeked == IF IsPrefix3(m) THEN 3 ELSE 4
           s == StoppedAt(r, m)
<1>1. Len(starts) \in Nat /\ i + 1 \in 1..Len(starts) /\ EndOf(i) = F
  <2>1. Len(starts) \in Nat BY DEF FileInv, FileIsFramed
  <2> QED BY <2>1, UnitsFollow
<1>2. file \in Seq(Byte) /\ Framed(file, F, P, E) BY <1>1, UnitsFollow
<1>3. F \in Nat /\ P \in Nat /\ E \in Nat /\ F <= P /\ P + 5 <= E /\ E <= Len(file) /\ Len(file) \in Nat
  BY <1>2 DEF Framed
<1>4. FoundStart(F, m, P)
  <2> HIDE DEF F, P, E
  <2>1. F \in Nat /\ F <= F /\ F <= P BY <1>3
  <2> QED BY <1>2, <2>1, StartIsFound
<1>5. m \in Nat /\ F <= m /\ m <= P /\ peeked \in {3, 4} /\ m + peeked = P + 3
  <2>1. /\ m \in Nat /\ F <= m /\ m <= P
        /\ (IsPrefix3(m) /\ m = P) \/ (~IsPrefix3(m) /\ m + 1 = P)
    BY <1>4 DEF FoundStart
  <2> HIDE DEF m, F, P
  <2>2. CASE IsPrefix3(m) BY <2>1, <2>2
  <2>3. CASE ~IsPrefix3(m) BY <2>1, <2>3
  <2> QED BY <2>2, <2>3
<1>6. ~(m + peeked > Len(file)) BY <1>3, <1>5
<1>7. s = IF m + peeked > Len(file)
          THEN [r EXCEPT !.pos = Len(file), !.numFutureBytes = Len(file) - m, !.failed = TRUE]
          ELSE [r EXCEPT !.pos = m + peeked, !.numFutureBytes = peeked]
  BY DEF StoppedAt
<1> HIDE DEF m, peeked, s
<1>8. s = [r EXCEPT !.pos = m + peeked, !.numFutureBytes = peeked] BY <1>6, <1>7
<1>9. s = [pos |-> m + peeked, numFutureBytes |-> peeked, failed |-> r.failed, ok |-> r.ok]
  <2>1. r = [pos |-> r.pos, numFutureBytes |-> r.numFutureBytes, failed |-> r.failed, ok |-> r.ok]
    BY DEF IsReader
  <2> QED BY <1>8, <2>1
<1>10. s.pos = m + peeked /\ s.numFutureBytes = peeked /\ s.failed = r.failed BY <1>9
<1>11. IsReader(s)
  <2>1. m + peeked \in Int /\ peeked \in Int BY <1>5
  <2> QED BY <1>9, <2>1 DEF IsReader
<1>12. NextByte(s) = m
  <2>1. (m + peeked) - peeked = m BY <1>5
  <2> QED BY <1>10, <2>1 DEF NextByte
<1>13. /\ IsReader(s) /\ s.failed = r.failed /\ s.pos = P + 3
       /\ F <= NextByte(s) /\ NextByte(s) <= P
  BY <1>5, <1>10, <1>11, <1>12
<1> QED BY <1>1, <1>13 DEF s, m, F, P

\* Behind the last unit it fails.
LEMMA StopsAtEnd ==
  ASSUME file \in Seq(Byte), NEW r, IsReader(r)
  PROVE  LET s == StoppedAt(r, NextStart(Len(file)))
         IN IsReader(s) /\ s.failed
<1> DEFINE L == Len(file)
           m == NextStart(L)
           peeked == IF IsPrefix3(m) THEN 3 ELSE 4
           s == StoppedAt(r, m)
<1>1. L \in Nat OBVIOUS
<1>2. m = L
  <2>1. L..(L - 1) = {} BY <1>1
  <2> QED BY <2>1 DEF NextStart
<1>3. peeked \in {3, 4} OBVIOUS
<1>4. s = IF m + peeked > L
          THEN [r EXCEPT !.pos = L, !.numFutureBytes = L - m, !.failed = TRUE]
          ELSE [r EXCEPT !.pos = m + peeked, !.numFutureBytes = peeked]
  BY DEF StoppedAt
<1> HIDE DEF peeked, m, L, s
<1>5. m + peeked > L /\ L - m \in Int /\ L \in Int BY <1>1, <1>2, <1>3
<1>6. s = [pos |-> L, numFutureBytes |-> L - m, failed |-> TRUE, ok |-> r.ok]
  <2>1. r = [pos |-> r.pos, numFutureBytes |-> r.numFutureBytes, failed |-> r.failed, ok |-> r.ok]
    BY DEF IsReader
  <2>2. s = [r EXCEPT !.pos = L, !.numFutureBytes = L - m, !.failed = TRUE] BY <1>4, <1>5
  <2> QED BY <2>1, <2>2
<1>7. IsReader(s) /\ s.failed BY <1>5, <1>6 DEF IsReader
<1> QED BY <1>7 DEF s, m, L

\* A sequence, of whatever.
IsSeq(s) == \E S : s \in Seq(S)

\* Appending to it.
LEMMA AppendIsSeq ==
  ASSUME NEW s, IsSeq(s), NEW x
  PROVE  IsSeq(Append(s, x)) /\ Len(s) \in Nat /\ Len(Append(s, x)) = Len(s) + 1
<1>1. PICK S : s \in Seq(S) BY DEF IsSeq
<1>2. s \in Seq(S \cup {x}) /\ x \in S \cup {x} BY <1>1
<1>3. Append(s, x) \in Seq(S \cup {x}) /\ Len(s) \in Nat /\ Len(Append(s, x)) = Len(s) + 1
  BY <1>2
<1> QED BY <1>3 DEF IsSeq

\* The reader stands in front of the unit i: where it stopped or, when slices of a picture
\* were read, where isNewPicture will go back to.
AtUnit(i) ==
  IF pu.firstSliceInPicture
  THEN FromOf(i) <= NextByte(reader) /\ NextByte(reader) <= PrefixOf(i)
  ELSE reader.pos = PrefixOf(i) + 3

\* Nothing was read yet.
AtTheBeginning == reader = InitReader /\ received = <<>> /\ pu.firstSliceInPicture

\* The reader between two calls of DecApp::decode.
OnItsWay ==
  IF sent = <<>> THEN AtTheBeginning
  ELSE Len(received) < Len(sent) /\ AtUnit(Len(received) + 1)

ReaderInv ==
  /\ IsSeq(received) /\ IsReader(reader)
  /\ ~closed => AtTheBeginning
  /\ closed /\ ~reader.failed => OnItsWay
  /\ closed /\ reader.failed => Len(received) = Len(sent)

\* A reader that goes back.
LEMMA SeekIsReader ==
  ASSUME NEW r, IsReader(r), NEW p \in Int
  PROVE  IsReader(SeekTo(r, p)) /\ SeekTo(r, p).pos = p /\ ~SeekTo(r, p).failed /\ NextByte(SeekTo(r, p)) = p
<1> DEFINE s == SeekTo(r, p)
<1>1. s = [pos |-> p, numFutureBytes |-> 0, failed |-> FALSE, ok |-> r.ok]
  <2>1. r = [pos |-> r.pos, numFutureBytes |-> r.numFutureBytes, failed |-> r.failed, ok |-> r.ok]
    BY DEF IsReader
  <2>2. s = [r EXCEPT !.pos = p, !.numFutureBytes = 0, !.failed = FALSE] BY DEF SeekTo
  <2> QED BY <2>1, <2>2
<1>2. p - 0 = p OBVIOUS
<1> QED BY <1>1, <1>2 DEF IsReader, NextByte

\* A reader that notes the outcome of a unit.
LEMMA NoteIsReader ==
  ASSUME NEW r, IsReader(r), NEW x
  PROVE  LET s == [r EXCEPT !.ok = x]
         IN IsReader(s) /\ s.pos = r.pos /\ s.failed = r.failed /\ NextByte(s) = NextByte(r)
<1> DEFINE s == [r EXCEPT !.ok = x]
<1>1. s = [pos |-> r.pos, numFutureBytes |-> r.numFutureBytes, failed |-> r.failed, ok |-> x]
  BY DEF IsReader
<1>2. r.pos \in Int /\ r.numFutureBytes \in Int BY DEF IsReader
<1> HIDE DEF s
<1>3. IsReader(s) /\ s.pos = r.pos /\ s.failed = r.failed /\ NextByte(s) = NextByte(r)
  BY <1>1, <1>2 DEF IsReader, NextByte
<1> QED BY <1>3 DEF s

\* Where a reader on its way goes on, as DecApp::decode does behind isNewPicture.
LEMMA ReadingAtUnit ==
  ASSUME FileInv, ReaderInv, closed, ~reader.failed, sent # <<>>
  PROVE  /\ Len(received) + 1 \in 1..Len(starts) /\ Len(received) \in Nat
         /\ IsReader(Reading) /\ ~Reading.failed /\ NextByte(Reading) \in Nat
         /\ FromOf(Len(received) + 1) <= NextByte(Reading)
         /\ NextByte(Reading) <= PrefixOf(Len(received) + 1)
         /\ ~pu.firstSliceInPicture => NextByte(Reading) = PrefixOf(Len(received) + 1)
                                       /\ Reading.pos = PrefixOf(Len(received) + 1)
<1> DEFINE i == Len(received) + 1
<1>1. IsSeq(received) /\ IsReader(reader) /\ Len(received) < Len(sent) /\ AtUnit(i)
  BY DEF ReaderInv, OnItsWay
<1>2. Len(received) \in Nat /\ Len(sent) \in Nat /\ Len(starts) = Len(sent)
  <2>1. Len(received) \in Nat BY <1>1, AppendIsSeq
  <2>2. sent \in Seq(Units) /\ Len(starts) = Len(sent) BY DEF FileInv
  <2> QED BY <2>1, <2>2
<1>3. i \in 1..Len(starts) BY <1>1, <1>2
<1>4. Framed(file, FromOf(i), PrefixOf(i), EndOf(i)) BY <1>3, UnitsFollow
<1>5. FromOf(i) \in Nat /\ PrefixOf(i) \in Nat /\ FromOf(i) <= PrefixOf(i) BY <1>4 DEF Framed
<1> HIDE DEF i
<1>6. CASE pu.firstSliceInPicture
  <2>1. Reading = reader BY <1>6 DEF Reading
  <2>2. FromOf(i) <= NextByte(reader) /\ NextByte(reader) <= PrefixOf(i) BY <1>1, <1>6 DEF AtUnit
  <2>3. NextByte(reader) \in Int BY <1>1 DEF IsReader, NextByte
  <2>4. NextByte(reader) \in Nat BY <1>5, <2>2, <2>3
  <2>5. ~reader.failed OBVIOUS
  <2> QED BY <1>1, <1>2, <1>3, <1>6, <2>1, <2>2, <2>4, <2>5 DEF i
<1>7. CASE ~pu.firstSliceInPicture
  <2>1. Reading = SeekTo(reader, reader.pos - 3) BY <1>7 DEF Reading, AfterIsNewPicture
  <2>2. reader.pos = PrefixOf(i) + 3 BY <1>1, <1>7 DEF AtUnit
  <2>3. reader.pos - 3 = PrefixOf(i) BY <1>5, <2>2
  <2>4. Reading = SeekTo(reader, PrefixOf(i)) BY <2>1, <2>3
  <2>5. PrefixOf(i) \in Int BY <1>5
  <2>6. IsReader(Reading) /\ Reading.pos = PrefixOf(i) /\ ~Reading.failed /\ NextByte(Reading) = PrefixOf(i)
    BY <1>1, <2>4, <2>5, SeekIsReader
  <2> QED BY <1>2, <1>3, <1>5, <2>6 DEF i
<1> QED BY <1>6, <1>7

\* The file is complete.
LEMMA CloseKeepsReader ==
  ASSUME FileInv, ReaderInv, CloseFile
  PROVE  ReaderInv'
<1>1. ~closed /\ closed' /\ UNCHANGED <<sent, received, file, starts, reader, pu>> BY DEF CloseFile
<1>2. AtTheBeginning /\ IsSeq(received) /\ IsReader(reader) BY <1>1 DEF ReaderInv
<1>3. reader = InitReader /\ received = <<>> /\ pu.firstSliceInPicture BY <1>2 DEF AtTheBeginning
<1>4. ~reader.failed /\ NextByte(reader) = 0 BY <1>3 DEF InitReader, NextByte
<1>5. ASSUME sent # <<>> PROVE Len(received) < Len(sent) /\ AtUnit(Len(received) + 1)
  <2>1. sent \in Seq(Units) /\ Len(starts) = Len(sent) /\ FileIsFramed(file, starts) BY DEF FileInv
  <2>2. Len(sent) \in Nat /\ Len(sent) > 0 BY <1>5, <2>1
  <2>3. Len(received) = 0 BY <1>3
  <2>4. 1 \in 1..Len(starts) /\ starts # <<>> BY <2>1, <2>2
  <2>5. FromOf(1) = 0 BY <2>1, <2>4 DEF FileIsFramed, FromOf
  <2>6. Framed(file, FromOf(1), PrefixOf(1), EndOf(1)) BY <2>4, UnitsFollow
  <2>7. PrefixOf(1) \in Nat BY <2>6 DEF Framed
  <2>8. FromOf(1) <= NextByte(reader) /\ NextByte(reader) <= PrefixOf(1) BY <1>4, <2>5, <2>7
  <2>9. AtUnit(1) BY <1>3, <2>8 DEF AtUnit
  <2> QED BY <2>2, <2>3, <2>9
<1>6. OnItsWay BY <1>2, <1>5 DEF OnItsWay
<1>7. OnItsWay' /\ IsSeq(received)' /\ IsReader(reader)'
  BY <1>1, <1>2, <1>6
     DEF OnItsWay, AtTheBeginning, AtUnit, FromOf, PrefixOf, NextByte, IsSeq, IsReader
<1> QED BY <1>1, <1>4, <1>7 DEF ReaderInv

\* The picture is finished: the reader has gone back to the start code.
LEMMA FinishKeepsReader ==
  ASSUME FileInv, ReaderInv, FinishPicture
  PROVE  ReaderInv'
<1> DEFINE i == Len(received) + 1
           P == PrefixOf(i)
<1>1. /\ closed /\ ~reader.failed /\ ~pu.firstSliceInPicture
      /\ reader' = IF pu.decodedSliceInAU THEN AfterIsNewAccessUnit(Reading) ELSE Reading
      /\ pu'.firstSliceInPicture /\ UNCHANGED <<sent, received, closed, file, starts>>
  <2>1. \E newAU \in BOOLEAN :
          pu' = [firstSliceInPicture |-> TRUE, decodedSliceInAU |-> pu.decodedSliceInAU /\ ~newAU]
    BY DEF FinishPicture
  <2>2. pu'.firstSliceInPicture BY <2>1
  <2> QED BY <2>2 DEF FinishPicture, IsNewPicture
<1>2. sent # <<>> BY <1>1 DEF ReaderInv, OnItsWay, AtTheBeginning
<1>3. /\ IsReader(Reading) /\ ~Reading.failed /\ NextByte(Reading) = P /\ Reading.pos = P
      /\ FromOf(i) <= P /\ P \in Nat
  BY <1>1, <1>2, ReadingAtUnit
<1>4. Len(received) < Len(sent) /\ IsSeq(received) BY <1>1, <1>2 DEF ReaderInv, OnItsWay
<1> HIDE DEF P
<1>5. IsReader(reader') /\ ~reader'.failed /\ NextByte(reader') = P
  <2>1. CASE pu.decodedSliceInAU
    <3>1. reader' = SeekTo(Reading, P) BY <1>1, <1>3, <2>1 DEF AfterIsNewAccessUnit
    <3>2. P \in Int BY <1>3
    <3> QED BY <1>3, <3>1, <3>2, SeekIsReader
  <2>2. CASE ~pu.decodedSliceInAU BY <1>1, <1>3, <2>2
  <2> QED BY <2>1, <2>2
<1>6. AtUnit(i)'
  <2>1. FromOf(i)' = FromOf(i) /\ PrefixOf(i)' = P BY <1>1 DEF FromOf, PrefixOf, P
  <2>2. NextByte(reader)' = P BY <1>5 DEF NextByte
  <2>3. P <= P BY <1>3
  <2> QED BY <1>1, <1>3, <2>1, <2>2, <2>3 DEF AtUnit
<1>7. OnItsWay'
  <2>1. sent' = sent /\ received' = received BY <1>1
  <2> QED BY <1>2, <1>4, <1>6, <2>1 DEF OnItsWay
<1>8. IsSeq(received)' /\ IsReader(reader)' /\ ~(reader.failed)' /\ closed'
  BY <1>1, <1>4, <1>5 DEF IsSeq, IsReader
<1> QED BY <1>7, <1>8 DEF ReaderInv

\* The next unit is read, or the end of an empty file.
LEMMA ReadKeepsReader ==
  ASSUME FileInv, ReaderInv, ReadNalUnit
  PROVE  ReaderInv'
<1> DEFINE next == ByteStreamNalUnit(Reading)
           i == Len(received) + 1
<1>1. /\ closed /\ ~reader.failed /\ UNCHANGED <<sent, closed, file, starts>>
      /\ IF next.nal = <<>> THEN reader' = next.r /\ UNCHANGED <<received, pu>>
         ELSE \E read \in {Parsed(next.nal, sent[Len(received) + 1])} :
                /\ reader' = [next.r EXCEPT !.ok = read.ok]
                /\ received' = Append(received, read.unit)
                /\ pu' = AfterUnit(read.unit.type)
  BY DEF ReadNalUnit
<1> HIDE DEF next
<1>2. OnItsWay /\ IsSeq(received) /\ IsReader(reader) BY <1>1 DEF ReaderInv
<1>3. ASSUME sent = <<>> PROVE ReaderInv'
  <2>1. reader = InitReader /\ received = <<>> /\ pu.firstSliceInPicture
    BY <1>2, <1>3 DEF OnItsWay, AtTheBeginning
  <2>2. file = <<>> /\ file \in Seq(Byte)
    <3>1. sent \in Seq(Units) /\ Len(starts) = Len(sent) /\ FileIsFramed(file, starts) BY DEF FileInv
    <3>2. starts \in Seq([from : Nat, prefix : Nat]) /\ Len(starts) = 0 BY <1>3, <3>1 DEF FileIsFramed
    <3>3. starts = <<>> BY <3>2
    <3> QED BY <3>1, <3>3 DEF FileIsFramed
  <2>3. Reading = reader /\ NextByte(reader) = 0 BY <2>1 DEF Reading, InitReader, NextByte
  <2>4. Len(file) = 0 BY <2>2
  <2>5. NextStart(0) = 0
    <3>1. 0..(0 - 1) = {} OBVIOUS
    <3> QED BY <2>4, <3>1 DEF NextStart
  <2>6. next = [nal |-> <<>>, r |-> StoppedAt(reader, NextStart(Len(file)))]
    BY <2>3, <2>4, <2>5 DEF next, ByteStreamNalUnit
  <2>7. IsReader(next.r) /\ next.r.failed
    <3>1. IsReader(StoppedAt(reader, NextStart(Len(file)))) /\ StoppedAt(reader, NextStart(Len(file))).failed
      BY <1>2, <2>2, StopsAtEnd
    <3> QED BY <2>6, <3>1
  <2>8. reader' = next.r /\ received' = received BY <1>1, <2>6
  <2>9. IsReader(reader)' /\ (reader.failed)' BY <2>7, <2>8 DEF IsReader
  <2>10. IsSeq(received)' BY <1>2, <2>8 DEF IsSeq
  <2>11. Len(received') = Len(sent') BY <1>1, <1>3, <2>1, <2>8
  <2> QED BY <1>1, <2>9, <2>10, <2>11 DEF ReaderInv
<1>4. ASSUME sent # <<>> PROVE ReaderInv'
  <2>1. /\ i \in 1..Len(starts) /\ Len(received) \in Nat
        /\ IsReader(Reading) /\ ~Reading.failed /\ NextByte(Reading) \in Nat
        /\ FromOf(i) <= NextByte(Reading) /\ NextByte(Reading) <= PrefixOf(i)
    BY <1>1, <1>4, ReadingAtUnit
  <2> HIDE DEF i
  <2>2. next.nal # <<>> /\ next.r = StoppedAt(Reading, NextStart(EndOf(i)))
    BY <2>1, UnitIsRead DEF next
  <2>3. PICK read : /\ reader' = [next.r EXCEPT !.ok = read.ok]
                    /\ received' = Append(received, read.unit)
    BY <1>1, <2>2
  <2>4. IsSeq(received') /\ Len(received') = Len(received) + 1 BY <1>2, <2>3, AppendIsSeq
  <2>5. Len(sent) \in Nat /\ Len(starts) = Len(sent) /\ file \in Seq(Byte)
    <3>1. sent \in Seq(Units) /\ Len(starts) = Len(sent) /\ file \in Seq(Byte) BY DEF FileInv, FileIsFramed
    <3> QED BY <3>1
  <2> DEFINE s == next.r
  <2>6. CASE i < Len(starts)
    <3>1. /\ IsReader(s) /\ s.failed = Reading.failed /\ s.pos = PrefixOf(i + 1) + 3
          /\ FromOf(i + 1) <= NextByte(s) /\ NextByte(s) <= PrefixOf(i + 1)
      <4> HIDE DEF s
      <4>1. s = StoppedAt(Reading, NextStart(EndOf(i))) BY <2>2 DEF s
      <4> QED BY <2>1, <2>6, <4>1, StopsAtNext
    <3> HIDE DEF s
    <3>2. /\ IsReader(reader') /\ reader'.pos = s.pos /\ reader'.failed = s.failed
          /\ NextByte(reader') = NextByte(s)
      <4>1. reader' = [s EXCEPT !.ok = read.ok] BY <2>3 DEF s
      <4> QED BY <3>1, <4>1, NoteIsReader
    <3>3. IF pu'.firstSliceInPicture
          THEN FromOf(i + 1) <= NextByte(reader') /\ NextByte(reader') <= PrefixOf(i + 1)
          ELSE reader'.pos = PrefixOf(i + 1) + 3
      BY <3>1, <3>2
    <3>4. Len(received') + 1 = i + 1 /\ Len(received') < Len(sent')
      BY <1>1, <2>1, <2>4, <2>5, <2>6 DEF i
    <3>5. AtUnit(Len(received) + 1)'
      <4>1. starts' = starts /\ starts'[Len(received') + 1] = starts[i + 1] BY <1>1, <3>4
      <4> QED BY <3>3, <4>1 DEF AtUnit, FromOf, PrefixOf, NextByte
    <3>7. OnItsWay' BY <1>1, <1>4, <3>4, <3>5 DEF OnItsWay
    <3>6. ~(reader.failed)' BY <2>1, <3>1, <3>2
    <3> QED BY <1>1, <2>4, <3>2, <3>6, <3>7 DEF ReaderInv, IsSeq, IsReader
  <2>7. CASE i = Len(starts)
    <3>1. EndOf(i) = Len(file) BY <2>1, <2>7, UnitsFollow
    <3>2. IsReader(s) /\ s.failed
      <4>1. s = StoppedAt(Reading, NextStart(Len(file))) BY <2>2, <3>1
      <4> HIDE DEF s
      <4> QED BY <2>1, <2>5, <4>1, StopsAtEnd
    <3> HIDE DEF s
    <3>3. IsReader(reader') /\ reader'.failed = s.failed
      <4>1. reader' = [s EXCEPT !.ok = read.ok] BY <2>3 DEF s
      <4> QED BY <3>2, <4>1, NoteIsReader
    <3>4. Len(received') = Len(sent') BY <1>1, <2>1, <2>4, <2>5, <2>7 DEF i
    <3>5. (reader.failed)' BY <3>2, <3>3
    <3> QED BY <1>1, <2>4, <3>3, <3>4, <3>5 DEF ReaderInv, IsSeq, IsReader
  <2> QED BY <2>1, <2>5, <2>6, <2>7
<1> QED BY <1>3, <1>4

\* The reader stands in front of the next unit or behind the last.
THEOREM ReaderInvAlways == Spec => [](FileInv /\ ReaderInv)
<1>1. Init => ReaderInv
  <2> SUFFICES ASSUME Init PROVE ReaderInv OBVIOUS
  <2>1. received = <<>> /\ ~closed /\ reader = InitReader /\ pu.firstSliceInPicture BY DEF Init
  <2>2. IsReader(reader)
    <3>1. 0 \in Int OBVIOUS
    <3> QED BY <2>1, <3>1 DEF IsReader, InitReader
  <2>3. IsSeq(received)
    <3>1. <<>> \in Seq({}) OBVIOUS
    <3> QED BY <2>1, <3>1 DEF IsSeq
  <2> QED BY <2>1, <2>2, <2>3 DEF ReaderInv, AtTheBeginning
<1>2. FileInv /\ ReaderInv /\ [Next]_vars => ReaderInv'
  <2> SUFFICES ASSUME FileInv, ReaderInv, [Next]_vars PROVE ReaderInv' OBVIOUS
  <2>1. CASE \E unit \in Units, firstInAU \in BOOLEAN, gap \in Gaps : WriteNalUnit(unit, firstInAU, gap)
    <3>1. ~closed /\ UNCHANGED <<received, closed, reader, pu>> BY <2>1 DEF WriteNalUnit
    <3> QED BY <3>1 DEF ReaderInv, AtTheBeginning, IsSeq, IsReader
  <2>2. CASE UNCHANGED vars
    BY <2>2 DEF vars, ReaderInv, OnItsWay, AtTheBeginning, AtUnit, FromOf, PrefixOf, NextByte, IsSeq, IsReader
  <2>3. CASE CloseFile BY <2>3, CloseKeepsReader
  <2>4. CASE FinishPicture BY <2>4, FinishKeepsReader
  <2>5. CASE ReadNalUnit BY <2>5, ReadKeepsReader
  <2>6. CASE Finished BY <2>2, <2>6 DEF Finished
  <2> QED BY <2>1, <2>2, <2>3, <2>4, <2>5, <2>6 DEF Next
<1>3. Spec => []FileInv BY FileIsFramedAlways
<1> QED BY <1>1, <1>2, <1>3, PTL DEF Spec

\* KeepsPlace: however far the reader looked ahead and read on, it goes on at the start code
\* of the unit behind the last one it read (DecLib.cpp:4432, 4526).
THEOREM KeepsPlaceAlways == Spec => []KeepsPlace
<1>1. FileInv /\ ReaderInv => KeepsPlace
  <2> SUFFICES ASSUME FileInv, ReaderInv, closed, ~reader.failed, Len(received) < Len(sent)
               PROVE  LET next == starts[Len(received) + 1]
                          at == IF pu.firstSliceInPicture THEN NextByte(reader)
                                ELSE NextByte(AfterIsNewPicture(reader))
                      IN next.from <= at /\ at <= next.prefix
    BY DEF KeepsPlace
  <2>1. sent # <<>>
    <3>1. sent = <<>> => received = <<>> BY DEF ReaderInv, OnItsWay, AtTheBeginning
    <3>2. sent = <<>> => ~(Len(received) < Len(sent)) BY <3>1
    <3> QED BY <3>2
  <2>2. /\ FromOf(Len(received) + 1) <= NextByte(Reading)
        /\ NextByte(Reading) <= PrefixOf(Len(received) + 1)
    BY <2>1, ReadingAtUnit
  <2>3. NextByte(Reading) = IF pu.firstSliceInPicture THEN NextByte(reader)
                            ELSE NextByte(AfterIsNewPicture(reader))
    BY DEF Reading
  <2> QED BY <2>2, <2>3 DEF FromOf, PrefixOf
<1> QED BY <1>1, ReaderInvAlways, PTL

\* ReadsToTheEnd: the stream fails behind the last unit only, however often it was reset.
THEOREM ReadsToTheEndAlways == Spec => []ReadsToTheEnd
<1>1. ReaderInv => ReadsToTheEnd BY DEF ReaderInv, ReadsToTheEnd
<1> QED BY <1>1, ReaderInvAlways, PTL

-----------------------------------------------------------------------------
(* The bytes that are read are the bytes that were written.                *)

\* Behind the start code prefix at P, up to E, stand the bytes u.
HoldsBytes(f, P, E, u) ==
  E = (P + 3) + Len(u) /\ \A k \in 1..Len(u) : f[(P + 3) + k] = u[k]

FileHolds ==
  \A i \in 1..Len(starts) : HoldsBytes(file, PrefixOf(i), EndOf(i), NalUnit(sent[i]))

\* The bytes of a unit that is put behind a file.
LEMMA NewBytes ==
  ASSUME NEW f \in Seq(Byte), NEW lead \in Seq(Byte), NEW u \in Seq(Byte), Len(lead) >= 3
  PROVE  LET g == f \o lead \o u
         IN HoldsBytes(g, Len(f) + Len(lead) - 3, Len(g), u)
<1> DEFINE h == f \o lead
           g == h \o u
           P == Len(f) + Len(lead) - 3
<1>1. h \in Seq(Byte) /\ Len(h) = P + 3 /\ P \in Nat
  <2>1. Len(f) \in Nat /\ Len(lead) \in Nat /\ h \in Seq(Byte) /\ Len(h) = Len(f) + Len(lead) OBVIOUS
  <2> QED BY <2>1
<1> HIDE DEF h, P
<1>2. /\ g \in Seq(Byte) /\ Len(g) = (P + 3) + Len(u) /\ Len(u) \in Nat
      /\ \A k \in 1..Len(u) : g[(P + 3) + k] = u[k]
  <2>1. /\ g \in Seq(Byte) /\ Len(g) = Len(h) + Len(u) /\ Len(u) \in Nat
        /\ \A k \in 1..Len(u) : g[Len(h) + k] = u[k]
    BY <1>1
  <2> HIDE DEF g
  <2> QED BY <1>1, <2>1
<1> HIDE DEF g
<1>3. HoldsBytes(g, P, Len(g), u) BY <1>2 DEF HoldsBytes
<1> QED BY <1>3 DEF g, h, P

\* The bytes of a unit are still there when the file is longer.
LEMMA BytesStay ==
  ASSUME NEW f \in Seq(Byte), NEW g, \A k \in 1..Len(f) : g[k] = f[k],
         NEW P \in Nat, NEW E, E <= Len(f), NEW u \in Seq(Byte), HoldsBytes(f, P, E, u)
  PROVE  HoldsBytes(g, P, E, u)
<1> DEFINE L == Len(f)
           N == Len(u)
<1>1. L \in Nat /\ N \in Nat /\ E = (P + 3) + N /\ E <= L /\ (\A k \in 1..L : g[k] = f[k])
      /\ \A k \in 1..N : f[(P + 3) + k] = u[k]
  BY DEF HoldsBytes
<1> HIDE DEF L, N
<1>2. ASSUME NEW k \in 1..N PROVE g[(P + 3) + k] = u[k]
  <2>1. (P + 3) + k \in 1..L BY <1>1
  <2> QED BY <1>1, <2>1
<1> QED BY <1>1, <1>2 DEF HoldsBytes, N

\* The encoder writes a unit.
LEMMA WriteKeepsBytes ==
  ASSUME FileInv, FileHolds, NEW unit \in Units, NEW firstInAU \in BOOLEAN, NEW gap \in Gaps,
         WriteNalUnit(unit, firstInAU, gap)
  PROVE  FileHolds'
<1> DEFINE lead == [i \in 1..gap |-> 0] \o StartCode(unit, firstInAU)
           u == NalUnit(unit)
           p == Len(file) + Len(lead) - 3
           new == [from |-> Len(file), prefix |-> p]
           n == Len(starts)
<1>1. /\ sent' = Append(sent, unit) /\ file' = file \o lead \o u
      /\ starts' = Append(starts, new)
  BY DEF WriteNalUnit
<1>2. /\ sent \in Seq(Units) /\ Len(starts) = Len(sent)
      /\ file \in Seq(Byte) /\ starts \in Seq([from : Nat, prefix : Nat]) /\ n \in Nat
  BY DEF FileInv, FileIsFramed
<1>3. gap \in Nat BY NalStreamAssumption
<1>4. lead \in Seq(Byte) /\ Len(lead) >= 3
  <2>1. IsLead(lead) BY <1>3, LeadBytes
  <2> HIDE DEF lead
  <2> QED BY <2>1 DEF IsLead
<1>5. \A v \in Units : NalUnit(v) \in Seq(Byte) BY UnitIsClean
<1> HIDE DEF lead
<1>6. p \in Nat /\ Len(file) \in Nat
  <2>1. Len(file) \in Nat /\ Len(lead) \in Nat BY <1>2, <1>4
  <2> QED BY <1>4, <2>1
<1>7. HoldsBytes(file', p, Len(file'), u)
  <2>1. u \in Seq(Byte) BY <1>5
  <2> HIDE DEF u
  <2> QED BY <1>1, <1>2, <1>4, <2>1, NewBytes
<1>8. \A k \in 1..Len(file) : file'[k] = file[k]
  <2> DEFINE h == file \o lead
  <2>1. h \in Seq(Byte) /\ Len(h) >= Len(file) /\ \A k \in 1..Len(file) : h[k] = file[k]
    BY <1>2, <1>4
  <2>2. u \in Seq(Byte) BY <1>5
  <2> HIDE DEF h, u
  <2>3. \A k \in 1..Len(h) : (h \o u)[k] = h[k] BY <2>1, <2>2
  <2>4. file' = h \o u BY <1>1 DEF h
  <2>5. Len(h) \in Nat BY <2>1
  <2> QED BY <1>6, <2>1, <2>3, <2>4, <2>5
<1>9. /\ Len(starts') = n + 1 /\ starts'[n + 1] = new /\ sent'[n + 1] = unit
      /\ \A j \in 1..n : starts'[j] = starts[j] /\ sent'[j] = sent[j] /\ sent[j] \in Units
  <2>1. new \in [from : Nat, prefix : Nat] BY <1>6
  <2> HIDE DEF new
  <2> QED BY <1>1, <1>2, <2>1
<1>10. new.from = Len(file) /\ new.prefix = p OBVIOUS
<1> HIDE DEF new, p, u
<1>11. ASSUME NEW j \in 1..n + 1
       PROVE  HoldsBytes(file', starts'[j].prefix, EndIn(file', starts', j), NalUnit(sent'[j]))
  <2>1. CASE j = n + 1
    <3>1. EndIn(file', starts', j) = Len(file') BY <1>2, <1>9, <2>1 DEF EndIn
    <3> QED BY <1>7, <1>9, <1>10, <2>1, <3>1 DEF u
  <2>2. CASE j # n + 1
    <3>1. j \in 1..n BY <1>2, <2>2
    <3>2. EndIn(file', starts', j) = EndOf(j)
      <4>1. CASE j = n
        <5>1. EndOf(j) = Len(file) BY <1>2, <4>1 DEF EndIn, EndOf
        <5>2. j < n + 1 BY <1>2, <4>1
        <5>3. EndIn(file', starts', j) = starts'[j + 1].from BY <1>9, <5>2 DEF EndIn
        <5> QED BY <1>9, <1>10, <4>1, <5>1, <5>3
      <4>2. CASE j # n
        <5>1. j < n /\ j < n + 1 /\ j + 1 \in 1..n BY <1>2, <3>1, <4>2
        <5>2. EndOf(j) = starts[j + 1].from BY <5>1 DEF EndIn, EndOf
        <5>3. EndIn(file', starts', j) = starts'[j + 1].from BY <1>9, <5>1 DEF EndIn
        <5> QED BY <1>9, <5>1, <5>2, <5>3
      <4> QED BY <4>1, <4>2
    <3>3. Framed(file, FromOf(j), PrefixOf(j), EndOf(j)) BY <3>1, UnitsFollow
    <3>4. PrefixOf(j) \in Nat /\ EndOf(j) <= Len(file) BY <3>3 DEF Framed
    <3>5. HoldsBytes(file, PrefixOf(j), EndOf(j), NalUnit(sent[j])) BY <3>1 DEF FileHolds
    <3>6. NalUnit(sent[j]) \in Seq(Byte) BY <1>5, <1>9, <3>1
    <3>7. HoldsBytes(file', PrefixOf(j), EndOf(j), NalUnit(sent[j]))
      BY <1>2, <1>8, <3>4, <3>5, <3>6, BytesStay
    <3> QED BY <1>9, <3>1, <3>2, <3>7 DEF PrefixOf
  <2> QED BY <2>1, <2>2
<1> QED BY <1>9, <1>11 DEF FileHolds, PrefixOf, EndOf

\* The file holds the units that were written, in every state.
THEOREM FileHoldsAlways == Spec => []FileHolds
<1>1. Init => FileHolds
  <2> SUFFICES ASSUME Init PROVE FileHolds OBVIOUS
  <2>1. starts = <<>> BY DEF Init
  <2>2. 1..Len(starts) = {} BY <2>1
  <2> QED BY <2>2 DEF FileHolds
<1>2. FileInv /\ FileHolds /\ [Next]_vars => FileHolds'
  <2> SUFFICES ASSUME FileInv, FileHolds, [Next]_vars PROVE FileHolds' OBVIOUS
  <2>1. CASE \E unit \in Units, firstInAU \in BOOLEAN, gap \in Gaps : WriteNalUnit(unit, firstInAU, gap)
    BY <2>1, WriteKeepsBytes
  <2>2. CASE UNCHANGED <<sent, file, starts>>
    BY <2>2 DEF FileHolds, PrefixOf, EndOf, EndIn, HoldsBytes
  <2>3. CASE CloseFile BY <2>2, <2>3 DEF CloseFile
  <2>4. CASE FinishPicture BY <2>2, <2>4 DEF FinishPicture
  <2>5. CASE ReadNalUnit BY <2>2, <2>5 DEF ReadNalUnit
  <2>6. CASE Finished BY <2>2, <2>6 DEF Finished, vars
  <2>7. CASE UNCHANGED vars BY <2>2, <2>7 DEF vars
  <2> QED BY <2>1, <2>3, <2>4, <2>5, <2>6, <2>7 DEF Next
<1> QED BY <1>1, <1>2, FileIsFramedAlways, PTL DEF Spec

\* What is read as a unit is, byte by byte, the next unit that was written.
THEOREM UnitsAreReadAsWritten ==
  Spec => [][ReadNalUnit /\ sent # <<>> =>
               ByteStreamNalUnit(Reading).nal = NalUnit(sent[Len(received) + 1])]_vars
<1>1. FileInv /\ ReaderInv /\ FileHolds /\ ReadNalUnit /\ sent # <<>> =>
        ByteStreamNalUnit(Reading).nal = NalUnit(sent[Len(received) + 1])
  <2> SUFFICES ASSUME FileInv, ReaderInv, FileHolds, ReadNalUnit, sent # <<>>
               PROVE  ByteStreamNalUnit(Reading).nal = NalUnit(sent[Len(received) + 1])
    OBVIOUS
  <2> DEFINE i == Len(received) + 1
             P == PrefixOf(i)
             E == EndOf(i)
             nal == SubSeq(file, P + 4, E)
             u == NalUnit(sent[i])
  <2>1. closed /\ ~reader.failed BY DEF ReadNalUnit
  <2>2. /\ i \in 1..Len(starts) /\ NextByte(Reading) \in Nat
        /\ FromOf(i) <= NextByte(Reading) /\ NextByte(Reading) <= PrefixOf(i)
    BY <2>1, ReadingAtUnit
  <2>3. ByteStreamNalUnit(Reading).nal = nal
    <3> HIDE DEF i
    <3> QED BY <2>2, UnitIsRead
  <2>4. file \in Seq(Byte) /\ Framed(file, FromOf(i), P, E) /\ HoldsBytes(file, P, E, u)
    <3> HIDE DEF i
    <3> QED BY <2>2, UnitsFollow DEF FileHolds
  <2>5. u \in Seq(Byte)
    <3>1. sent \in Seq(Units) /\ Len(starts) = Len(sent) BY DEF FileInv
    <3>2. sent[i] \in Units
      <4> HIDE DEF i
      <4> QED BY <2>2, <3>1
    <3> HIDE DEF i
    <3> QED BY <3>2, UnitIsClean
  <2> HIDE DEF i, P, E, u
  <2>6. /\ P \in Nat /\ E \in Nat /\ P + 5 <= E /\ E <= Len(file) /\ E = (P + 3) + Len(u)
        /\ \A k \in 1..Len(u) : file[(P + 3) + k] = u[k]
    BY <2>4 DEF Framed, HoldsBytes
  <2>7. nal = u
    <3> DEFINE N == Len(u)
    <3>1. N \in Nat /\ E - (P + 4) + 1 = N BY <2>5, <2>6
    <3>2. Len(nal) = N /\ nal \in Seq(Byte) /\ \A k \in 1..N : nal[k] = file[(P + 4) + k - 1]
      <4>1. P + 4 \in 1..Len(file) /\ E \in 1..Len(file) BY <2>4, <2>6
      <4>2. /\ nal \in Seq(Byte) /\ Len(nal) = E - (P + 4) + 1
            /\ \A k \in 1..(E - (P + 4) + 1) : nal[k] = file[(P + 4) + k - 1]
        BY <2>4, <2>6, <4>1
      <4> HIDE DEF nal
      <4> QED BY <3>1, <4>2
    <3> HIDE DEF nal
    <3>3. \A k \in 1..N : nal[k] = u[k]
      <4> SUFFICES ASSUME NEW k \in 1..N PROVE nal[k] = u[k] OBVIOUS
      <4>1. (P + 4) + k - 1 = (P + 3) + k BY <2>6
      <4> QED BY <2>6, <3>2, <4>1
    <3> QED BY <2>5, <3>2, <3>3
  <2> QED BY <2>3, <2>7 DEF u, i
<1> QED BY <1>1, ReaderInvAlways, FileHoldsAlways, PTL

-----------------------------------------------------------------------------
(* Emulation prevention is undone.                                         *)

\* The state convertPayloadToRBSP starts from, and its rounds.
NothingConverted == [out |-> <<>>, zeros |-> 0, after3 |-> FALSE, removed |-> <<>>, ok |-> TRUE]

ConvertRounds(acc, nal, n) ==
  acc = [k \in 0..n |-> IF k = 0 THEN NothingConverted ELSE Unprotect(acc[k - 1], k, nal[k])]

\* The recursive function of Converted exists.
LEMMA ConvertRoundsExist ==
  ASSUME NEW nal
  PROVE  \A n \in Nat : \E acc : ConvertRounds(acc, nal, n)
<1> DEFINE N == {n \in Nat : \E acc : ConvertRounds(acc, nal, n)}
<1>1. 0 \in N
  <2>1. ConvertRounds([k \in 0..0 |-> NothingConverted], nal, 0)
    BY DEF ConvertRounds
  <2> QED BY <2>1
<1>2. ASSUME NEW n \in N PROVE n + 1 \in N
  <2>1. PICK before : ConvertRounds(before, nal, n) OBVIOUS
  <2> DEFINE last == Unprotect(before[n], n + 1, nal[n + 1])
             acc == [k \in 0..n + 1 |-> IF k = n + 1 THEN last ELSE before[k]]
  <2>2. ASSUME NEW k \in 0..n + 1
        PROVE  acc[k] = IF k = 0 THEN NothingConverted ELSE Unprotect(acc[k - 1], k, nal[k])
    <3>1. CASE k = 0 BY <2>1, <3>1 DEF ConvertRounds
    <3>2. CASE k = n + 1 BY <3>2
    <3>3. CASE k # 0 /\ k # n + 1
      <4>1. k \in 0..n /\ k - 1 \in 0..n /\ k - 1 # n + 1 BY <3>3
      <4>2. acc[k] = before[k] /\ acc[k - 1] = before[k - 1] BY <4>1, <3>3
      <4> HIDE DEF acc
      <4> QED BY <4>1, <4>2, <2>1, <3>3 DEF ConvertRounds
    <3> QED BY <3>1, <3>2, <3>3
  <2>3. acc = [k \in 0..n + 1 |-> acc[k]] OBVIOUS
  <2>4. ConvertRounds(acc, nal, n + 1)
    <3> HIDE DEF acc
    <3> QED BY <2>2, <2>3 DEF ConvertRounds
  <2> QED BY <2>4
<1>3. N = Nat
  <2> HIDE DEF N
  <2>1. N \in SUBSET Nat BY DEF N
  <2> QED BY <1>1, <1>2, <2>1, NatSetInduction
<1> QED BY <1>3

\* Converted is the last of its rounds.
LEMMA ConvertedIsLast ==
  ASSUME NEW nal, Len(nal) \in Nat
  PROVE  \E acc : ConvertRounds(acc, nal, Len(nal)) /\ Converted(nal) = acc[Len(nal)]
<1> DEFINE acc == CHOOSE acc : ConvertRounds(acc, nal, Len(nal))
<1>1. Converted(nal) = acc[Len(nal)]
  BY DEF Converted, ConvertRounds, NothingConverted
<1>2. ConvertRounds(acc, nal, Len(nal))
  BY ConvertRoundsExist
<1> QED BY <1>1, <1>2

\* A byte more is a round more.
LEMMA ConvertedAppend ==
  ASSUME NEW s \in Seq(Byte), NEW v \in Byte
  PROVE  Converted(Append(s, v)) = Unprotect(Converted(s), Len(s) + 1, v)
<1> DEFINE t == Append(s, v)
           n == Len(s)
<1>1. n \in Nat /\ Len(t) = n + 1 /\ t[n + 1] = v /\ \A k \in 1..n : t[k] = s[k]
  OBVIOUS
<1> HIDE DEF t
<1>2. PICK a : ConvertRounds(a, s, n) /\ Converted(s) = a[n] BY <1>1, ConvertedIsLast
<1>3. PICK b : ConvertRounds(b, t, n + 1) /\ Converted(t) = b[n + 1]
  <2>1. Len(t) \in Nat BY <1>1
  <2> QED BY <1>1, <2>1, ConvertedIsLast
<1> HIDE DEF n
<1> DEFINE N == {k \in Nat : k <= n => a[k] = b[k]}
<1>4. 0 \in N
  <2>1. a[0] = NothingConverted /\ b[0] = NothingConverted BY <1>1, <1>2, <1>3 DEF ConvertRounds
  <2> QED BY <2>1
<1>5. ASSUME NEW k \in N PROVE k + 1 \in N
  <2> SUFFICES ASSUME k + 1 <= n PROVE a[k + 1] = b[k + 1] OBVIOUS
  <2>1. k + 1 \in 0..n /\ k + 1 \in 0..n + 1 /\ k + 1 # 0 /\ (k + 1) - 1 = k /\ k + 1 \in 1..n BY <1>1
  <2>2. a[k + 1] = Unprotect(a[k], k + 1, s[k + 1]) BY <1>2, <2>1 DEF ConvertRounds
  <2>3. b[k + 1] = Unprotect(b[k], k + 1, t[k + 1]) BY <1>3, <2>1 DEF ConvertRounds
  <2>4. a[k] = b[k] BY <1>1
  <2> QED BY <1>1, <2>1, <2>2, <2>3, <2>4
<1>6. N = Nat
  <2> HIDE DEF N
  <2>1. N \in SUBSET Nat BY DEF N
  <2> QED BY <1>4, <1>5, <2>1, NatSetInduction
<1>7. a[n] = b[n] BY <1>1, <1>6
<1>8. b[n + 1] = Unprotect(b[n], n + 1, t[n + 1])
  <2>1. n + 1 \in 0..n + 1 /\ n + 1 # 0 /\ (n + 1) - 1 = n BY <1>1
  <2> QED BY <1>3, <2>1 DEF ConvertRounds
<1> QED BY <1>1, <1>2, <1>3, <1>7, <1>8 DEF t, n

\* A state of the conversion in which no CHECK has failed.
State(out, zeros, after3, removed) ==
  [out |-> out, zeros |-> zeros, after3 |-> after3, removed |-> removed, ok |-> TRUE]

\* The bytes s are converted to the bytes out.
Conv(s, out, zeros, after3) ==
  /\ s \in Seq(Byte)
  /\ \E removed : Converted(s) = State(out, zeros, after3, removed)

\* A byte that is taken over.
LEMMA ConvPlain ==
  ASSUME NEW s, NEW out, NEW zeros \in 0..2, Conv(s, out, zeros, FALSE), NEW v \in Byte,
         ~(zeros = 2 /\ v <= 3)
  PROVE  Conv(Append(s, v), Append(out, v), IF v = 0 THEN zeros + 1 ELSE 0, FALSE)
<1>1. s \in Seq(Byte) BY DEF Conv
<1>2. PICK removed : Converted(s) = State(out, zeros, FALSE, removed) BY DEF Conv
<1> DEFINE c == State(out, zeros, FALSE, removed)
<1>3. c = [out |-> out, zeros |-> zeros, after3 |-> FALSE, removed |-> removed, ok |-> TRUE]
      /\ c.out = out /\ c.zeros = zeros /\ c.after3 = FALSE /\ c.ok = TRUE
  BY DEF State
<1>4. v \in Nat /\ ~(zeros = 2 /\ v = 3) /\ ~(zeros >= 2 /\ v < 3)
  <2>1. v \in 0..255 BY DEF Byte
  <2> QED BY <2>1
<1> HIDE DEF c
<1>5. Unprotect(c, Len(s) + 1, v) =
        [c EXCEPT !.out = Append(out, v), !.zeros = IF v = 0 THEN zeros + 1 ELSE 0, !.ok = TRUE]
  BY <1>3, <1>4 DEF Unprotect
<1>6. Unprotect(c, Len(s) + 1, v) = State(Append(out, v), IF v = 0 THEN zeros + 1 ELSE 0, FALSE, removed)
  BY <1>3, <1>5 DEF State
<1>7. Converted(Append(s, v)) = Unprotect(c, Len(s) + 1, v) BY <1>1, <1>2, ConvertedAppend DEF c
<1>8. Append(s, v) \in Seq(Byte) BY <1>1
<1> QED BY <1>6, <1>7, <1>8 DEF Conv

\* An emulation prevention byte.
LEMMA ConvRemove ==
  ASSUME NEW s, NEW out, Conv(s, out, 2, FALSE)
  PROVE  Conv(Append(s, 3), out, 0, TRUE)
<1>1. s \in Seq(Byte) /\ 3 \in Byte BY DEF Conv, Byte
<1>2. PICK removed : Converted(s) = State(out, 2, FALSE, removed) BY DEF Conv
<1> DEFINE c == State(out, 2, FALSE, removed)
           i == Len(s) + 1
<1>3. c = [out |-> out, zeros |-> 2, after3 |-> FALSE, removed |-> removed, ok |-> TRUE]
      /\ c.out = out /\ c.zeros = 2 /\ c.after3 = FALSE /\ c.ok = TRUE /\ c.removed = removed
  BY DEF State
<1> HIDE DEF c
<1>4. Unprotect(c, i, 3) = [c EXCEPT !.removed = Append(removed, i - 1), !.zeros = 0, !.after3 = TRUE]
  <2> HIDE DEF i
  <2> QED BY <1>3 DEF Unprotect
<1> HIDE DEF i
<1>5. Unprotect(c, i, 3) = State(out, 0, TRUE, Append(removed, i - 1))
  BY <1>3, <1>4 DEF State
<1>6. Converted(Append(s, 3)) = Unprotect(c, i, 3) BY <1>1, <1>2, ConvertedAppend DEF c, i
<1>7. Append(s, 3) \in Seq(Byte) BY <1>1
<1> QED BY <1>5, <1>6, <1>7 DEF Conv

\* The byte behind it.
LEMMA ConvAfter ==
  ASSUME NEW s, NEW out, Conv(s, out, 0, TRUE), NEW v \in Byte, v <= 3
  PROVE  Conv(Append(s, v), Append(out, v), IF v = 0 THEN 1 ELSE 0, FALSE)
<1>1. s \in Seq(Byte) BY DEF Conv
<1>2. PICK removed : Converted(s) = State(out, 0, TRUE, removed) BY DEF Conv
<1> DEFINE c == State(out, 0, TRUE, removed)
<1>3. c = [out |-> out, zeros |-> 0, after3 |-> TRUE, removed |-> removed, ok |-> TRUE]
      /\ c.out = out /\ c.zeros = 0 /\ c.after3 = TRUE /\ c.ok = TRUE
  BY DEF State
<1> HIDE DEF c
<1> DEFINE z == IF v = 0 THEN 1 ELSE 0
<1>4. Unprotect(c, Len(s) + 1, v) =
        [c EXCEPT !.out = Append(out, v), !.zeros = z, !.after3 = FALSE, !.ok = TRUE]
  BY <1>3 DEF Unprotect
<1> DEFINE w == Append(out, v)
<1> HIDE DEF z, w
<1>5. Unprotect(c, Len(s) + 1, v) = State(Append(out, v), z, FALSE, removed)
  <2>1. Unprotect(c, Len(s) + 1, v) = [c EXCEPT !.out = w, !.zeros = z, !.after3 = FALSE, !.ok = TRUE]
    BY <1>4 DEF w
  <2>2. [c EXCEPT !.out = w, !.zeros = z, !.after3 = FALSE, !.ok = TRUE] = State(w, z, FALSE, removed)
    <3> DEFINE d == [c EXCEPT !.out = w, !.zeros = z, !.after3 = FALSE, !.ok = TRUE]
    <3>1. d = [f \in {"out", "zeros", "after3", "removed", "ok"} |-> d[f]] BY <1>3
    <3>2. d.out = w /\ d.zeros = z BY <1>3
    <3>3. d.after3 = FALSE /\ d.removed = removed BY <1>3
    <3>4. d.ok = TRUE BY <1>3
    <3> HIDE DEF d
    <3>5. d = [out |-> w, zeros |-> z, after3 |-> FALSE, removed |-> removed, ok |-> TRUE]
      BY <3>1, <3>2, <3>3, <3>4
    <3>6. d = State(w, z, FALSE, removed) BY <3>5 DEF State
    <3> QED BY <3>6 DEF d
  <2> QED BY <2>1, <2>2 DEF w
<1>6. Converted(Append(s, v)) = Unprotect(c, Len(s) + 1, v) BY <1>1, <1>2, ConvertedAppend DEF c
<1>7. Append(s, v) \in Seq(Byte) BY <1>1
<1> QED BY <1>5, <1>6, <1>7 DEF Conv, z

\* The header comes out as it is.
LEMMA ConvHeader ==
  ASSUME NEW unit \in Units
  PROVE  Conv(NalUnitHeader(unit), NalUnitHeader(unit), 0, FALSE)
<1>1. PICK a \in 0..63, b \in 1..255 : NalUnitHeader(unit) = <<a, b>> BY HeaderBytes
<1>3. Conv(<<>>, <<>>, 0, FALSE)
  <2>1. PICK acc : ConvertRounds(acc, <<>>, Len(<<>>)) /\ Converted(<<>>) = acc[Len(<<>>)]
    <3>1. Len(<<>>) \in Nat OBVIOUS
    <3> QED BY <3>1, ConvertedIsLast
  <2>2. Len(<<>>) = 0 OBVIOUS
  <2>3. acc[0] = NothingConverted BY <2>1, <2>2 DEF ConvertRounds
  <2>4. Converted(<<>>) = State(<<>>, 0, FALSE, <<>>) BY <2>1, <2>2, <2>3 DEF NothingConverted, State
  <2>5. <<>> \in Seq(Byte) OBVIOUS
  <2> QED BY <2>4, <2>5 DEF Conv
<1>4. a \in Byte /\ b \in Byte BY DEF Byte
<1> DEFINE z == IF a = 0 THEN 0 + 1 ELSE 0
<1>5. Conv(Append(<<>>, a), Append(<<>>, a), z, FALSE)
  <2>1. 0 \in 0..2 /\ ~(0 = 2 /\ a <= 3) OBVIOUS
  <2> QED BY <1>3, <1>4, <2>1, ConvPlain
<1>6. z \in 0..2 /\ ~(z = 2 /\ b <= 3) /\ b # 0 OBVIOUS
<1> HIDE DEF z
<1>7. Conv(Append(Append(<<>>, a), b), Append(Append(<<>>, a), b), IF b = 0 THEN z + 1 ELSE 0, FALSE)
  BY <1>4, <1>5, <1>6, ConvPlain
<1>8. Append(Append(<<>>, a), b) = <<a, b>>
  <2>1. <<>> \o <<a>> = <<a>> OBVIOUS
  <2>2. Append(<<>>, a) = <<a>> OBVIOUS
  <2>3. Append(<<a>>, b) = <<a>> \o <<b>>
    <3>1. <<a>> \in Seq(Byte) BY <1>4
    <3> QED BY <1>4, <3>1
  <2> QED BY <2>2, <2>3, Pair
<1> QED BY <1>1, <1>6, <1>7, <1>8

\* A byte at the end of the second of two pieces.
LEMMA ConcatAppend ==
  ASSUME NEW a \in Seq(Byte), NEW b \in Seq(Byte), NEW v \in Byte
  PROVE  a \o Append(b, v) = Append(a \o b, v)
  OBVIOUS

\* The content of a unit comes out as the payload.
LEMMA ConvContent ==
  ASSUME NEW h \in Seq(Byte), Conv(h, h, 0, FALSE), NEW rbsp \in Seq(Byte),
         rbsp # <<>> => rbsp[Len(rbsp)] # 0
  PROVE  Conv(h \o NaluContent(rbsp), h \o rbsp, 0, FALSE)
<1> DEFINE L == Len(rbsp)
           prefix(n) == SubSeq(rbsp, 1, n)
<1>1. PICK acc : ProtectRounds(acc, rbsp, L) /\ Protected(rbsp) = acc[L]
  BY ProtectedIsLast
<1>2. \A n \in 0..L : IsProtected(acc[n]) BY <1>1, RoundsAreProtected
<1>3. L \in Nat /\ prefix(0) = <<>> /\ prefix(L) = rbsp
      /\ \A n \in 0..(L - 1) : prefix(n + 1) = Append(prefix(n), rbsp[n + 1]) /\ prefix(n) \in Seq(Byte)
                               /\ rbsp[n + 1] \in Byte
  <2>1. L \in Nat /\ prefix(0) = <<>> /\ prefix(L) = rbsp OBVIOUS
  <2>2. ASSUME NEW n \in 0..(L - 1)
        PROVE prefix(n + 1) = Append(prefix(n), rbsp[n + 1]) /\ prefix(n) \in Seq(Byte)
              /\ rbsp[n + 1] \in Byte
    OBVIOUS
  <2> QED BY <2>1, <2>2
<1> DEFINE Done(n) == Conv(h \o acc[n].out, h \o prefix(n), acc[n].zeros, FALSE)
           N == {n \in Nat : n <= L => Done(n)}
<1>4. 0 \in N
  <2>1. acc[0] = [out |-> <<>>, zeros |-> 0] BY <1>1, <1>3 DEF ProtectRounds
  <2>2. h \o <<>> = h OBVIOUS
  <2> HIDE DEF prefix
  <2>4. acc[0].out = <<>> /\ acc[0].zeros = 0 BY <2>1
  <2>5. h \o acc[0].out = h /\ h \o prefix(0) = h BY <1>3, <2>2, <2>4
  <2>3. Done(0) BY <2>4, <2>5
  <2> QED BY <2>3
<1> HIDE DEF prefix, L
<1>5. ASSUME NEW n \in N PROVE n + 1 \in N
  <2> HIDE DEF Done
  <2> SUFFICES ASSUME n + 1 <= L PROVE Done(n + 1) OBVIOUS
  <2>0. n \in Nat /\ (n <= L => Done(n)) OBVIOUS
  <2> USE DEF Done
  <2> DEFINE p == acc[n]
             v == rbsp[n + 1]
             s == p.out
             hs == h \o s
             hp == h \o prefix(n)
             q == acc[n + 1]
  <2>1. n \in 0..(L - 1) /\ n \in 0..L /\ n <= L /\ n + 1 \in 0..L /\ n + 1 # 0 /\ (n + 1) - 1 = n BY <1>3, <2>0
  <2>2. Conv(hs, hp, p.zeros, FALSE) BY <2>0, <2>1
  <2>3. s \in Seq(Byte) /\ p.zeros \in 0..2 BY <1>2, <2>1 DEF IsProtected, EndsInZeros
  <2>4. q = Protect(p, v) BY <1>1, <2>1 DEF ProtectRounds
  <2>5. prefix(n + 1) = Append(prefix(n), v) /\ prefix(n) \in Seq(Byte) /\ v \in Byte BY <1>3, <2>1
  <2>6. h \o prefix(n + 1) = Append(hp, v)
    <3> DEFINE pre == prefix(n)
    <3> HIDE DEF pre, v
    <3>1. h \o Append(pre, v) = Append(h \o pre, v) BY <2>5 DEF pre
    <3> QED BY <2>5, <3>1 DEF pre
  <2> HIDE DEF q, v, hp, p
  <2>7. CASE p.zeros = 2 /\ v <= 3
    <3> DEFINE z == IF v = 0 THEN 1 ELSE 0
    <3>1. q.out = s \o <<3, v>> /\ q.zeros = z
      <4>1. v \in 0..255 BY <2>5 DEF Byte
      <4> QED BY <2>4, <2>7, <4>1 DEF Protect
    <3>2. h \o (s \o <<3, v>>) = Append(Append(hs, 3), v)
      <4> HIDE DEF s
      <4>1. 3 \in Byte BY DEF Byte
      <4>2. s \o <<3, v>> = Append(Append(s, 3), v) /\ Append(s, 3) \in Seq(Byte) BY <2>3, <2>5, <4>1
      <4>3. h \o Append(Append(s, 3), v) = Append(h \o Append(s, 3), v) BY <2>5, <4>2, ConcatAppend
      <4>5. s \in Seq(Byte) BY <2>3
      <4>4. h \o Append(s, 3) = Append(hs, 3) BY <4>1, <4>5, ConcatAppend
      <4> QED BY <4>2, <4>3, <4>4
    <3> HIDE DEF hs, s
    <3>3. Conv(Append(hs, 3), hp, 0, TRUE) BY <2>2, <2>7, ConvRemove
    <3>4. Conv(Append(Append(hs, 3), v), Append(hp, v), z, FALSE) BY <2>5, <2>7, <3>3, ConvAfter
    <3> HIDE DEF z
    <3> QED BY <2>6, <3>1, <3>2, <3>4 DEF q
  <2>8. CASE ~(p.zeros = 2 /\ v <= 3)
    <3> DEFINE z == IF v = 0 THEN p.zeros + 1 ELSE 0
    <3>1. q.out = s \o <<v>> /\ q.zeros = z
      BY <2>4, <2>8 DEF Protect
    <3>2. h \o (s \o <<v>>) = Append(hs, v)
      <4> HIDE DEF s
      <4>1. s \o <<v>> = Append(s, v) BY <2>3, <2>5
      <4>2. s \in Seq(Byte) /\ v \in Byte BY <2>3, <2>5
      <4>3. h \o Append(s, v) = Append(hs, v) BY <4>2, ConcatAppend
      <4> QED BY <4>1, <4>3
    <3> HIDE DEF hs, s
    <3>3. Conv(Append(hs, v), Append(hp, v), z, FALSE) BY <2>2, <2>3, <2>5, <2>8, ConvPlain
    <3> HIDE DEF z
    <3> QED BY <2>6, <3>1, <3>2, <3>3 DEF q
  <2> QED BY <2>7, <2>8
<1>6. N = Nat
  <2> HIDE DEF N
  <2>1. N \in SUBSET Nat BY DEF N
  <2> QED BY <1>4, <1>5, <2>1, NatSetInduction
<1>7. Done(L)
  <2> HIDE DEF Done
  <2>1. L \in N BY <1>3, <1>6
  <2>2. L <= L BY <1>3
  <2> QED BY <2>1, <2>2
<1>8. acc[L].zeros = 0
  <2>1. CASE L = 0
    <3>1. acc[0] = [out |-> <<>>, zeros |-> 0] BY <1>1, <1>3 DEF ProtectRounds
    <3> QED BY <2>1, <3>1
  <2>2. CASE L # 0
    <3>1. acc[L] = Protect(acc[L - 1], rbsp[L])
      <4>1. L \in 0..L /\ L # 0 BY <1>3, <2>2
      <4> QED BY <1>1, <4>1 DEF ProtectRounds
    <3>2. rbsp # <<>> BY <2>2 DEF L
    <3>3. rbsp[L] # 0 BY <3>2 DEF L
    <3> QED BY <3>1, <3>3 DEF Protect
  <2> QED BY <2>1, <2>2
<1>9. NaluContent(rbsp) = acc[L].out BY <1>1, <1>8 DEF NaluContent
<1>10. prefix(L) = rbsp BY <1>3
<1> QED BY <1>7, <1>8, <1>9, <1>10

\* Zeros.
Zeros(n) == [i \in 1..n |-> 0]

\* Two more of them.
LEMMA ZerosGrow ==
  ASSUME NEW n \in Nat
  PROVE  Zeros(n) \in Seq(Byte) /\ Zeros(n + 1) = Append(Zeros(n), 0) /\ Len(Zeros(n)) = n
<1>1. 0 \in Byte BY DEF Byte
<1>2. Zeros(n) \in Seq(Byte) /\ Len(Zeros(n)) = n BY <1>1 DEF Zeros
<1>3. Zeros(n + 1) = Append(Zeros(n), 0) BY <1>2 DEF Zeros
<1> QED BY <1>2, <1>3

\* A word more.
LEMMA WordsGrow ==
  ASSUME NEW n \in Nat
  PROVE  ZeroWords(n + 1) = Append(Append(Append(ZeroWords(n), 0), 0), 3)
<1> DEFINE N == 3 * n
           s == ZeroWords(n)
           t == ZeroWords(n + 1)
           u == Append(Append(Append(s, 0), 0), 3)
<1>1. N \in Nat /\ 3 * (n + 1) = N + 3 /\ N % 3 = 0 OBVIOUS
<1>2. s = [i \in 1..N |-> IF i % 3 = 0 THEN 3 ELSE 0] BY DEF ZeroWords
<1>3. t = [i \in 1..N + 3 |-> IF i % 3 = 0 THEN 3 ELSE 0] BY <1>1 DEF ZeroWords
<1>4. s \in Seq(Nat) /\ Len(s) = N /\ \A i \in 1..N : s[i] = IF i % 3 = 0 THEN 3 ELSE 0
  <2> HIDE DEF s, N
  <2>1. \A i \in 1..N : (IF i % 3 = 0 THEN 3 ELSE 0) \in Nat OBVIOUS
  <2> QED BY <1>1, <1>2, <2>1
<1> HIDE DEF s, t, N
<1>5. /\ u \in Seq(Nat) /\ Len(u) = N + 3 /\ u[N + 1] = 0 /\ u[N + 2] = 0 /\ u[N + 3] = 3
      /\ \A i \in 1..N : u[i] = s[i]
  BY <1>1, <1>4
<1> HIDE DEF u
<1>6. u = [i \in 1..N + 3 |-> u[i]]
  BY <1>1, <1>5
<1>7. ASSUME NEW i \in 1..N + 3 PROVE u[i] = IF i % 3 = 0 THEN 3 ELSE 0
  <2>1. CASE i \in 1..N BY <1>4, <1>5, <2>1
  <2>2. CASE i = N + 1
    <3>1. i % 3 = 1 BY <1>1, <2>2
    <3> QED BY <1>5, <2>2, <3>1
  <2>3. CASE i = N + 2
    <3>1. i % 3 = 2 BY <1>1, <2>3
    <3> QED BY <1>5, <2>3, <3>1
  <2>4. CASE i = N + 3
    <3>1. i % 3 = 0 BY <1>1, <2>4
    <3> QED BY <1>5, <2>4, <3>1
  <2> QED BY <1>1, <2>1, <2>2, <2>3, <2>4
<1> QED BY <1>3, <1>6, <1>7 DEF t, u, s

\* The zero words behind a unit come out as zeros.
LEMMA ConvWords ==
  ASSUME NEW s \in Seq(Byte), NEW out \in Seq(Byte), Conv(s, out, 0, FALSE)
  PROVE  \A n \in Nat : Conv(s \o ZeroWords(n), out \o Zeros(2 * n), 0, n > 0)
<1> DEFINE W(n) == s \o ZeroWords(n)
           O(n) == out \o Zeros(2 * n)
           N == {n \in Nat : Conv(W(n), O(n), 0, n > 0)}
<1>1. 0 \in N
  <2>1. ZeroWords(0) = <<>>
    <3>1. 3 * 0 = 0 OBVIOUS
    <3>2. ZeroWords(0) \in Seq(Byte) /\ Len(ZeroWords(0)) = 0 BY <3>1, ZeroWordsAreClean
    <3> QED BY <3>2
  <2>2. Zeros(2 * 0) = <<>>
    <3>1. 2 * 0 = 0 /\ 0 \in Nat OBVIOUS
    <3>2. Zeros(0) \in Seq(Byte) /\ Len(Zeros(0)) = 0 BY <3>1, ZerosGrow
    <3>3. Zeros(0) = <<>> BY <3>2
    <3> QED BY <3>1, <3>3
  <2>3. W(0) = s /\ O(0) = out BY <2>1, <2>2
  <2>4. (0 > 0) = FALSE OBVIOUS
  <2> HIDE DEF W, O
  <2>5. Conv(W(0), O(0), 0, 0 > 0) BY <2>3, <2>4
  <2> QED BY <2>5
<1>2. ASSUME NEW n \in N PROVE n + 1 \in N
  <2> DEFINE w == W(n)
             o == O(n)
  <2>0. n \in Nat OBVIOUS
  <2>1. Conv(w, o, 0, n > 0) OBVIOUS
  <2>2. w \in Seq(Byte) /\ o \in Seq(Byte) /\ W(n + 1) = Append(Append(Append(w, 0), 0), 3)
        /\ O(n + 1) = Append(Append(o, 0), 0)
    <3> DEFINE z == ZeroWords(n)
               m == 2 * n
               y == Zeros(m)
    <3>1. z \in Seq(Byte) /\ ZeroWords(n + 1) = Append(Append(Append(z, 0), 0), 3) /\ 0 \in Byte /\ 3 \in Byte
      <4>1. z \in Seq(Byte) BY <2>0, ZeroWordsAreClean
      <4>2. ZeroWords(n + 1) = Append(Append(Append(z, 0), 0), 3) BY <2>0, WordsGrow
      <4>3. 0 \in Byte /\ 3 \in Byte BY DEF Byte
      <4> QED BY <4>1, <4>2, <4>3
    <3>2. m \in Nat /\ m + 1 \in Nat /\ 2 * (n + 1) = (m + 1) + 1 BY <2>0
    <3> HIDE DEF z, m
    <3>3. y \in Seq(Byte) /\ Zeros(2 * (n + 1)) = Append(Append(y, 0), 0)
      BY <3>2, ZerosGrow
    <3> HIDE DEF y
    <3>4. s \o Append(Append(Append(z, 0), 0), 3) = Append(Append(Append(s \o z, 0), 0), 3)
      <4>1. z \in Seq(Byte) /\ 0 \in Byte /\ 3 \in Byte BY <3>1
      <4>2. Append(z, 0) \in Seq(Byte) /\ Append(Append(z, 0), 0) \in Seq(Byte) BY <4>1
      <4>3. s \o Append(z, 0) = Append(s \o z, 0) BY <4>1, ConcatAppend
      <4>4. s \o Append(Append(z, 0), 0) = Append(s \o Append(z, 0), 0) BY <4>1, <4>2, ConcatAppend
      <4>5. s \o Append(Append(Append(z, 0), 0), 3) = Append(s \o Append(Append(z, 0), 0), 3)
        BY <4>1, <4>2, ConcatAppend
      <4> QED BY <4>3, <4>4, <4>5
    <3>5. out \o Append(Append(y, 0), 0) = Append(Append(out \o y, 0), 0)
      <4>1. y \in Seq(Byte) /\ 0 \in Byte BY <3>1, <3>3
      <4>2. Append(y, 0) \in Seq(Byte) BY <4>1
      <4>3. out \o Append(y, 0) = Append(out \o y, 0) BY <4>1, ConcatAppend
      <4>4. out \o Append(Append(y, 0), 0) = Append(out \o Append(y, 0), 0) BY <4>1, <4>2, ConcatAppend
      <4> QED BY <4>3, <4>4
    <3>6. s \o z \in Seq(Byte) /\ out \o y \in Seq(Byte)
      <4>1. z \in Seq(Byte) /\ y \in Seq(Byte) BY <3>1, <3>3
      <4> QED BY <4>1, ConcatBytes
    <3> QED BY <3>1, <3>3, <3>4, <3>5, <3>6 DEF z, y, m
  <2> HIDE DEF w, o, W, O
  <2>3. 0 \in Byte /\ ~(0 = 2 /\ 0 <= 3) /\ ~(1 = 2 /\ 0 <= 3) /\ 0 \in 0..2 /\ 1 \in 0..2 /\ 0 <= 3
        /\ 0 + 1 = 1 /\ 1 + 1 = 2
    BY DEF Byte
  <2>4. Conv(Append(w, 0), Append(o, 0), 1, FALSE)
    <3>1. CASE n > 0
      <4>1. Conv(w, o, 0, TRUE) BY <2>1, <3>1
      <4>2. Conv(Append(w, 0), Append(o, 0), IF 0 = 0 THEN 1 ELSE 0, FALSE) BY <2>3, <4>1, ConvAfter
      <4> QED BY <4>2
    <3>2. CASE n = 0
      <4>1. Conv(w, o, 0, FALSE)
        <5>1. (n > 0) = FALSE BY <3>2
        <5> QED BY <2>1, <5>1
      <4>2. Conv(Append(w, 0), Append(o, 0), IF 0 = 0 THEN 0 + 1 ELSE 0, FALSE) BY <2>3, <4>1, ConvPlain
      <4> QED BY <2>3, <4>2
    <3>3. n > 0 \/ n = 0 BY <2>0
    <3> QED BY <3>1, <3>2, <3>3
  <2>5. Conv(Append(Append(w, 0), 0), Append(Append(o, 0), 0), 2, FALSE)
    <3>1. Conv(Append(Append(w, 0), 0), Append(Append(o, 0), 0), IF 0 = 0 THEN 1 + 1 ELSE 0, FALSE)
      BY <2>3, <2>4, ConvPlain
    <3> QED BY <2>3, <3>1
  <2>6. Conv(Append(Append(Append(w, 0), 0), 3), Append(Append(o, 0), 0), 0, TRUE)
    BY <2>5, ConvRemove
  <2>7. (n + 1 > 0) = TRUE BY <2>0
  <2>8. Conv(W(n + 1), O(n + 1), 0, n + 1 > 0) BY <2>2, <2>6, <2>7
  <2> QED BY <2>0, <2>8 DEF W, O
<1>3. N = Nat
  <2> HIDE DEF N
  <2>1. N \in SUBSET Nat BY DEF N
  <2> QED BY <1>1, <1>2, <2>1, NatSetInduction
<1> QED BY <1>3

\* Zeros behind a last byte that is none are dropped.
LEMMA ZerosAreDropped ==
  ASSUME NEW s \in Seq(Byte), s # <<>>, s[Len(s)] # 0, NEW n \in Nat
  PROVE  WithoutZeroWords(s \o Zeros(n)) = s
<1> DEFINE L == Len(s)
           z == Zeros(n)
           t == s \o z
           S == {0} \cup {i \in DOMAIN t : t[i] # 0}
<1>1. L \in Nat /\ L > 0 /\ s[L] # 0 OBVIOUS
<1>2. z \in Seq(Byte) /\ Len(z) = n /\ \A i \in 1..n : z[i] = 0 BY ZerosGrow DEF Zeros
<1> HIDE DEF z
<1>3. /\ t \in Seq(Byte) /\ Len(t) = L + n /\ DOMAIN t = 1..L + n
      /\ \A i \in 1..L : t[i] = s[i]
      /\ \A i \in L + 1 .. L + n : t[i] = z[i - L]
  BY <1>2
<1> HIDE DEF t, L
<1>4. L \in S /\ \A i \in S : i \in Nat /\ i <= L
  <2>1. L \in 1..L /\ L \in 1..L + n BY <1>1
  <2>2. L \in S BY <1>1, <1>3, <2>1
  <2>3. ASSUME NEW i \in 1..L + n, t[i] # 0 PROVE i <= L
    <3> SUFFICES ASSUME i > L PROVE FALSE BY <1>1
    <3>1. i \in L + 1 .. L + n /\ i - L \in 1..n BY <1>1
    <3>2. t[i] = 0 BY <1>2, <1>3, <3>1
    <3> QED BY <2>3, <3>2
  <2>4. ASSUME NEW i \in S PROVE i \in Nat /\ i <= L
    <3>1. i = 0 \/ (i \in 1..L + n /\ t[i] # 0) BY <1>3
    <3>2. CASE i = 0 BY <1>1, <3>2
    <3>3. CASE i \in 1..L + n /\ t[i] # 0 BY <1>1, <2>3, <3>3
    <3> QED BY <3>1, <3>2, <3>3
  <2> QED BY <2>2, <2>4
<1> HIDE DEF S
<1>5. Max(S) = L
  <2>1. Max(S) \in S /\ \A i \in S : i <= Max(S)
    <3>1. \E x \in S : \A y \in S : x >= y BY <1>1, <1>4
    <3>2. Max(S) \in S /\ \A y \in S : Max(S) >= y BY <3>1 DEF Max
    <3>3. \A y \in S : y \in Nat BY <1>4
    <3> DEFINE m == Max(S)
    <3> HIDE DEF m
    <3>4. m \in S /\ m \in Nat /\ \A y \in S : m >= y BY <3>2, <3>3 DEF m
    <3>5. m \in S /\ \A y \in S : y <= m BY <3>3, <3>4
    <3> QED BY <3>5 DEF m
  <2>2. Max(S) <= L /\ L <= Max(S) /\ Max(S) \in Nat BY <1>4, <2>1
  <2> QED BY <1>1, <2>2
<1>6. WithoutZeroWords(t) = SubSeq(t, 1, L) BY <1>5 DEF WithoutZeroWords, S
<1>7. SubSeq(t, 1, L) = s
  <2> DEFINE u == SubSeq(t, 1, L)
  <2>1. u \in Seq(Byte) /\ Len(u) = L /\ \A i \in 1..L : u[i] = t[i]
    <3>1. 1 \in 1..Len(t) /\ L \in 1..Len(t) BY <1>1, <1>3
    <3> QED BY <1>1, <1>3, <3>1
  <2> HIDE DEF u
  <2>2. \A i \in 1..L : u[i] = s[i] BY <1>3, <2>1
  <2>3. u = s BY <2>1, <2>2 DEF L
  <2> QED BY <2>3 DEF u
<1> QED BY <1>6, <1>7 DEF t, z

\* What the decoder parses of a unit is what the encoder put into it: the header and the
\* payload, byte for byte, without the bytes that prevent start codes (NALwrite.cpp:67-115,
\* NALread.cpp:50-100) and, of a slice, without the zero words behind it.  The payload must
\* not end with a zero; the trailing bits and the end of the last substream see to that.
THEOREM PayloadComesBack ==
  ASSUME NEW unit \in Units, NEW isVcl \in BOOLEAN, isVcl \/ unit.zeroWords = 0,
         LET rbsp == Payload(unit).fifo IN rbsp # <<>> => rbsp[Len(rbsp)] # 0
  PROVE  RbspOf(Converted(NalUnit(unit)), isVcl).bs =
           InputOf(NalUnitHeader(unit) \o Payload(unit).fifo)
<1> DEFINE h == NalUnitHeader(unit)
           rbsp == Payload(unit).fifo
           c == h \o NaluContent(rbsp)
           s == h \o rbsp
           n == unit.zeroWords
           out == s \o Zeros(2 * n)
<1>1. h \in Seq(Byte) /\ Len(h) = 2 /\ h[2] # 0
  <2>1. PICK a \in 0..63, b \in 1..255 : h = <<a, b>> BY HeaderBytes
  <2>2. h \in Seq(Byte) /\ Len(h) = 2 /\ h[2] # 0 BY <2>1 DEF Byte
  <2> QED BY <2>2
<1>2. rbsp \in Seq(Byte) /\ n \in Nat BY UnitsAssumption
<1>3. rbsp # <<>> => rbsp[Len(rbsp)] # 0 OBVIOUS
<1>4. Conv(h, h, 0, FALSE) BY ConvHeader
<1>5. NaluContent(rbsp) \in Seq(Byte) BY <1>2, ContentIsClean
<1>6. NalUnit(unit) = c \o ZeroWords(n) BY DEF NalUnit
<1>7. n = 0 \/ isVcl OBVIOUS
<1> HIDE DEF h, rbsp, n
<1>8. Conv(c, s, 0, FALSE) BY <1>1, <1>2, <1>3, <1>4, ConvContent
<1>9. s \in Seq(Byte) /\ s # <<>> /\ s[Len(s)] # 0
  <2>1. s \in Seq(Byte) /\ Len(s) = Len(h) + Len(rbsp) /\ Len(rbsp) \in Nat
    <3>1. h \in Seq(Byte) /\ rbsp \in Seq(Byte) BY <1>1, <1>2
    <3> QED BY <3>1
  <2>2. rbsp = <<>> => s = h BY <1>1
  <2>3. rbsp # <<>> => s[Len(s)] = rbsp[Len(rbsp)] BY <1>1, <1>2
  <2>4. s # <<>> BY <1>1, <2>1
  <2> QED BY <1>1, <1>3, <2>1, <2>2, <2>3, <2>4
<1>10. c \in Seq(Byte) BY <1>1, <1>5
<1> HIDE DEF c, s
<1>11. Conv(c \o ZeroWords(n), out, 0, n > 0) BY <1>2, <1>8, <1>9, <1>10, ConvWords
<1>12. PICK removed : Converted(NalUnit(unit)) = State(out, 0, n > 0, removed)
  BY <1>6, <1>11 DEF Conv
<1> HIDE DEF out
<1> DEFINE d == State(out, 0, n > 0, removed)
<1>13. d.out = out /\ d.zeros = 0 /\ d.ok = TRUE BY DEF State
<1> HIDE DEF d
<1> DEFINE kept == IF isVcl THEN WithoutZeroWords(out) ELSE out
<1>14. RbspOf(d, isVcl).bs = [InputOf(kept) EXCEPT !.ok = d.ok /\ d.zeros = 0]
  BY <1>13 DEF RbspOf
<1>15. kept = s
  <2>1. CASE isVcl
    <3>1. 2 * n \in Nat BY <1>2
    <3>2. WithoutZeroWords(s \o Zeros(2 * n)) = s BY <1>9, <3>1, ZerosAreDropped
    <3> QED BY <2>1, <3>2 DEF out
  <2>2. CASE ~isVcl
    <3>1. 2 * n = 0 /\ 0 \in Nat BY <1>7, <2>2
    <3>2. Zeros(0) \in Seq(Byte) /\ Len(Zeros(0)) = 0 BY <3>1, ZerosGrow
    <3>3. Zeros(2 * n) = <<>> BY <3>1, <3>2
    <3>4. out = s BY <1>9, <3>3 DEF out
    <3> QED BY <2>2, <3>4
  <2> QED BY <2>1, <2>2
<1> HIDE DEF kept
<1>16. [InputOf(kept) EXCEPT !.ok = d.ok /\ d.zeros = 0] = InputOf(kept)
  <2>1. (d.ok /\ d.zeros = 0) = TRUE BY <1>13
  <2>2. [InputOf(kept) EXCEPT !.ok = TRUE] = InputOf(kept)
    <3> DEFINE i == InputOf(kept)
               j == [i EXCEPT !.ok = TRUE]
               Fields == {"fifo", "fifoIdx", "heldBits", "numHeldBits", "ok"}
    <3>1. i = [f \in Fields |-> i[f]] /\ i.ok = TRUE BY DEF InputOf
    <3> HIDE DEF i
    <3>2. j = [f \in Fields |-> j[f]] BY <3>1
    <3>3. \A f \in Fields : j[f] = i[f] BY <3>1
    <3> HIDE DEF j
    <3>4. j = i BY <3>1, <3>2, <3>3
    <3> QED BY <3>4 DEF i, j
  <2> QED BY <2>1, <2>2
<1>17. RbspOf(d, isVcl).bs = InputOf(s) BY <1>14, <1>15, <1>16
<1> QED BY <1>12, <1>17 DEF d, s, h, rbsp
=============================================================================
