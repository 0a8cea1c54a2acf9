---------------------------- MODULE Ds18b20Proofs ----------------------------
(***************************************************************************)
(* Theorems about Ds18b20 for any number of sensors and disturbances, any  *)
(* stored resolutions and any bits that noise turns over.                  *)
(***************************************************************************)
EXTENDS Ds18b20, FiniteSetTheorems, SequenceTheorems, WellFoundedInduction, TLAPS

-----------------------------------------------------------------------------
(* Minima, maxima and small sets.                                           *)

LEMMA Least ==
  ASSUME NEW T, T \subseteq Nat, T # {}
  PROVE  \E n \in T : \A m \in T : n <= m
<1> DEFINE R == OpToRel(<, Nat)
<1>1. IsWellFoundedOn(R, Nat)
  BY NatLessThanWellFounded
<1>2. R = {ss \in Nat \X Nat : ss[1] < ss[2]}
  BY DEF OpToRel
<1> HIDE DEF R
<1>3. PICK n \in T : \A m \in T : ~ (<<m, n>> \in R)
  BY <1>1, WFMin
<1>4. \A m \in T : ~(m < n)
  BY <1>2, <1>3
<1> QED
  BY <1>4

LEMMA MinIsLeast ==
  ASSUME NEW T, T \subseteq Nat, T # {}
  PROVE  Min(T) \in T /\ \A m \in T : Min(T) <= m
<1>1. \E n \in T : \A m \in T : n <= m
  BY Least
<1> QED
  BY <1>1 DEF Min

\* A bounded set has a greatest element: the least of its bounds.
LEMMA MaxIsGreatest ==
  ASSUME NEW T, NEW b \in Nat, T \subseteq 0 .. b, T # {}
  PROVE  Max(T) \in T /\ \A m \in T : m <= Max(T)
<1> DEFINE B == {n \in Nat : \A m \in T : m <= n}
<1>1. PICK n \in B : \A m \in B : n <= m
  <2>1. b \in B
    OBVIOUS
  <2>2. B \subseteq Nat
    OBVIOUS
  <2> HIDE DEF B
  <2>3. B # {}
    BY <2>1
  <2> QED
    BY <2>2, <2>3, Least
<1>2. n \in T
  <2>1. CASE n = 0
    <3>1. PICK m \in T : TRUE
      OBVIOUS
    <3>2. m = 0
      BY <1>1, <2>1, <3>1
    <3> QED
      BY <2>1, <3>1, <3>2
  <2>2. CASE n # 0
    <3>1. n - 1 \notin B
      BY <1>1, <2>2
    <3>2. n - 1 \in Nat
      BY <1>1, <2>2
    <3>3. PICK m \in T : ~(m <= n - 1)
      BY <3>1, <3>2
    <3>4. m <= n /\ m \in Nat /\ n \in Nat
      BY <1>1
    <3>5. m = n
      BY <3>3, <3>4
    <3> QED
      BY <3>5
  <2> QED
    BY <2>1, <2>2
<1>3. \E x \in T : \A y \in T : x >= y
  BY <1>1, <1>2
<1> QED
  BY <1>3 DEF Max

\* Fewer than two sensors are none or one.
LEMMA FewSensors ==
  ASSUME NEW S \in SUBSET Sensor, Cardinality(S) < 2
  PROVE  S = {} \/ \E s \in Sensor : S = {s}
<1>1. IsFiniteSet(S)
  <2>1. IsFiniteSet(1 .. Sensors)
    BY FS_Interval, Ds18b20Assumption
  <2> QED
    BY <2>1, FS_Subset DEF Sensor
<1>2. Cardinality(S) \in {0, 1}
  BY <1>1, FS_CardinalityType
<1>3. CASE Cardinality(S) = 0
  BY <1>1, <1>3, FS_EmptySet
<1>4. CASE Cardinality(S) = 1
  <2>1. PICK x : S = {x}
    BY <1>1, <1>4, FS_Singleton
  <2> QED
    BY <2>1
<1> QED
  BY <1>2, <1>3, <1>4

LEMMA SlotNumbers == Sensor \subseteq Nat /\ Sensors \in Sensor
BY Ds18b20Assumption DEF Sensor

-----------------------------------------------------------------------------
(* Bytes.                                                                   *)

LEMMA BitsOfAByte ==
  ASSUME NEW v \in Byte
  PROVE  /\ v = BitOf(v, 1) + 2 * BitOf(v, 2) + 4 * BitOf(v, 3) + 8 * BitOf(v, 4)
                 + 16 * BitOf(v, 5) + 32 * BitOf(v, 6) + 64 * BitOf(v, 7) + 128 * BitOf(v, 8)
         /\ \A k \in 1 .. 8 : BitOf(v, k) \in {0, 1}
<1>1. /\ BitOf(v, 1) = v % 2 /\ BitOf(v, 2) = (v \div 2) % 2
      /\ BitOf(v, 3) = (v \div 4) % 2 /\ BitOf(v, 4) = (v \div 8) % 2
      /\ BitOf(v, 5) = (v \div 16) % 2 /\ BitOf(v, 6) = (v \div 32) % 2
      /\ BitOf(v, 7) = (v \div 64) % 2 /\ BitOf(v, 8) = (v \div 128) % 2
  BY DEF BitOf, Power, Byte
<1> DEFINE v1 == v \div 2  v2 == v \div 4  v3 == v \div 8  v4 == v \div 16
           v5 == v \div 32  v6 == v \div 64  v7 == v \div 128
           b1 == BitOf(v, 1)  b2 == BitOf(v, 2)  b3 == BitOf(v, 3)  b4 == BitOf(v, 4)
           b5 == BitOf(v, 5)  b6 == BitOf(v, 6)  b7 == BitOf(v, 7)  b8 == BitOf(v, 8)
<1>2. v = 2 * v1 + b1 /\ v1 = 2 * v2 + b2 /\ b1 \in {0, 1} /\ b2 \in {0, 1}
  BY <1>1 DEF Byte
<1>3. v2 = 2 * v3 + b3 /\ v3 = 2 * v4 + b4 /\ b3 \in {0, 1} /\ b4 \in {0, 1}
  BY <1>1 DEF Byte
<1>4. v4 = 2 * v5 + b5 /\ v5 = 2 * v6 + b6 /\ b5 \in {0, 1} /\ b6 \in {0, 1}
  BY <1>1 DEF Byte
<1>5. v6 = 2 * v7 + b7 /\ v7 = b8 /\ b7 \in {0, 1} /\ b8 \in {0, 1}
  BY <1>1 DEF Byte
<1>6. v \in Int /\ v1 \in Int /\ v2 \in Int /\ v3 \in Int /\ v4 \in Int /\ v5 \in Int /\ v6 \in Int /\ v7 \in Int
  BY DEF Byte
<1> HIDE DEF v1, v2, v3, v4, v5, v6, v7, b1, b2, b3, b4, b5, b6, b7, b8
<1>7. v = b1 + 2 * b2 + 4 * b3 + 8 * b4
                 + 16 * b5 + 32 * b6 + 64 * b7 + 128 * b8
  BY <1>2, <1>3, <1>4, <1>5, <1>6
<1>8. \A k \in 1 .. 8 : BitOf(v, k) \in {0, 1}
  <2> TAKE k \in 1 .. 8
  <2>1. k = 1 \/ k = 2 \/ k = 3 \/ k = 4 \/ k = 5 \/ k = 6 \/ k = 7 \/ k = 8
    OBVIOUS
  <2> QED
    BY <1>2, <1>3, <1>4, <1>5, <2>1 DEF b1, b2, b3, b4, b5, b6, b7, b8
<1> QED
  BY <1>7, <1>8 DEF b1, b2, b3, b4, b5, b6, b7, b8

LEMMA ByteOfBits ==
  ASSUME NEW bits \in [1 .. 8 -> {0, 1}]
  PROVE  ByteOf(bits) \in Byte
<1>1. /\ bits[1] \in {0, 1} /\ bits[2] \in {0, 1} /\ bits[3] \in {0, 1} /\ bits[4] \in {0, 1}
      /\ bits[5] \in {0, 1} /\ bits[6] \in {0, 1} /\ bits[7] \in {0, 1} /\ bits[8] \in {0, 1}
  OBVIOUS
<1> QED
  BY <1>1 DEF ByteOf, Byte

LEMMA XorType ==
  ASSUME NEW a \in Byte, NEW b \in Byte
  PROVE  Xor(a, b) \in Byte
<1> DEFINE bits == [k \in 1 .. 8 |-> (BitOf(a, k) + BitOf(b, k)) % 2]
<1>1. \A k \in 1 .. 8 : (BitOf(a, k) + BitOf(b, k)) % 2 \in {0, 1}
  <2> TAKE k \in 1 .. 8
  <2>1. BitOf(a, k) \in {0, 1} /\ BitOf(b, k) \in {0, 1}
    BY BitsOfAByte
  <2> QED
    BY <2>1
<1>2. bits \in [1 .. 8 -> {0, 1}]
  BY <1>1
<1> HIDE DEF bits
<1>3. ByteOf(bits) \in Byte
  BY <1>2, ByteOfBits
<1> QED
  BY <1>3 DEF Xor, bits

-----------------------------------------------------------------------------
(* The CRC, for data of any length.                                         *)

\* Two bytes with the same bits are the same, and ^ of them can be undone.
LEMMA SameBits ==
  ASSUME NEW a \in [1 .. 8 -> {0, 1}], NEW b \in [1 .. 8 -> {0, 1}], ByteOf(a) = ByteOf(b), NEW k \in 1 .. 8
  PROVE  a[k] = b[k]
<1>1. /\ a[1] \in {0, 1} /\ a[2] \in {0, 1} /\ a[3] \in {0, 1} /\ a[4] \in {0, 1}
      /\ a[5] \in {0, 1} /\ a[6] \in {0, 1} /\ a[7] \in {0, 1} /\ a[8] \in {0, 1}
      /\ b[1] \in {0, 1} /\ b[2] \in {0, 1} /\ b[3] \in {0, 1} /\ b[4] \in {0, 1}
      /\ b[5] \in {0, 1} /\ b[6] \in {0, 1} /\ b[7] \in {0, 1} /\ b[8] \in {0, 1}
  OBVIOUS
<1>2. a[1] + 2 * a[2] + 4 * a[3] + 8 * a[4] + 16 * a[5] + 32 * a[6] + 64 * a[7] + 128 * a[8]
        = b[1] + 2 * b[2] + 4 * b[3] + 8 * b[4] + 16 * b[5] + 32 * b[6] + 64 * b[7] + 128 * b[8]
  BY DEF ByteOf
<1>3. a[8] = b[8]
  BY <1>1, <1>2
<1>4. a[7] = b[7]
  BY <1>1, <1>2, <1>3
<1>5. a[6] = b[6]
  BY <1>1, <1>2, <1>3, <1>4
<1>6. a[5] = b[5]
  BY <1>1, <1>2, <1>3, <1>4, <1>5
<1>7. a[4] = b[4]
  BY <1>1, <1>2, <1>3, <1>4, <1>5, <1>6
<1>8. a[1] = b[1] /\ a[2] = b[2] /\ a[3] = b[3]
  BY <1>1, <1>2, <1>3, <1>4, <1>5, <1>6, <1>7
<1> QED
  BY <1>3, <1>4, <1>5, <1>6, <1>7, <1>8

LEMMA XorBits ==
  ASSUME NEW a \in Byte, NEW b \in Byte
  PROVE  [k \in 1 .. 8 |-> (BitOf(a, k) + BitOf(b, k)) % 2] \in [1 .. 8 -> {0, 1}]
<1> SUFFICES ASSUME NEW k \in 1 .. 8 PROVE (BitOf(a, k) + BitOf(b, k)) % 2 \in {0, 1}
  OBVIOUS
<1>1. BitOf(a, k) \in {0, 1} /\ BitOf(b, k) \in {0, 1}
  BY BitsOfAByte
<1> QED
  BY <1>1

LEMMA XorApart ==
  ASSUME NEW a \in Byte, NEW b \in Byte, NEW c \in Byte, NEW d \in Byte,
         Xor(a, b) = Xor(c, d), a = c \/ b = d
  PROVE  a = c /\ b = d
<1> DEFINE x == [k \in 1 .. 8 |-> (BitOf(a, k) + BitOf(b, k)) % 2]
           y == [k \in 1 .. 8 |-> (BitOf(c, k) + BitOf(d, k)) % 2]
<1>1. x \in [1 .. 8 -> {0, 1}] /\ y \in [1 .. 8 -> {0, 1}]
  BY XorBits
<1>2. ByteOf(x) = ByteOf(y)
  BY DEF Xor
<1>3. \A k \in 1 .. 8 : x[k] = y[k]
  <2> HIDE DEF x, y
  <2> QED
    BY <1>1, <1>2, SameBits
<1>4. ASSUME NEW k \in 1 .. 8 PROVE BitOf(a, k) = BitOf(c, k) /\ BitOf(b, k) = BitOf(d, k)
  <2>1. /\ BitOf(a, k) \in {0, 1} /\ BitOf(b, k) \in {0, 1}
        /\ BitOf(c, k) \in {0, 1} /\ BitOf(d, k) \in {0, 1}
    BY BitsOfAByte
  <2>2. (BitOf(a, k) + BitOf(b, k)) % 2 = (BitOf(c, k) + BitOf(d, k)) % 2
    BY <1>3
  <2>3. BitOf(a, k) = BitOf(c, k) \/ BitOf(b, k) = BitOf(d, k)
    OBVIOUS
  <2> QED
    BY <2>1, <2>2, <2>3
<1>5. \A u, v \in Byte : (\A k \in 1 .. 8 : BitOf(u, k) = BitOf(v, k)) => u = v
  <2> TAKE u, v \in Byte
  <2> HAVE \A k \in 1 .. 8 : BitOf(u, k) = BitOf(v, k)
  <2>1. /\ BitOf(u, 1) = BitOf(v, 1) /\ BitOf(u, 2) = BitOf(v, 2) /\ BitOf(u, 3) = BitOf(v, 3)
        /\ BitOf(u, 4) = BitOf(v, 4) /\ BitOf(u, 5) = BitOf(v, 5) /\ BitOf(u, 6) = BitOf(v, 6)
        /\ BitOf(u, 7) = BitOf(v, 7) /\ BitOf(u, 8) = BitOf(v, 8)
    OBVIOUS
  <2> QED
    BY <2>1, BitsOfAByte
<1> QED
  BY <1>4, <1>5

LEMMA XorSelf ==
  ASSUME NEW a \in Byte
  PROVE  Xor(a, a) = 0
<1> DEFINE x == [k \in 1 .. 8 |-> (BitOf(a, k) + BitOf(a, k)) % 2]
<1>1. ASSUME NEW k \in 1 .. 8 PROVE x[k] = 0
  <2>1. BitOf(a, k) \in {0, 1}
    BY BitsOfAByte
  <2> QED
    BY <2>1
<1> HIDE DEF x
<1>2. ByteOf(x) = 0
  BY <1>1 DEF ByteOf
<1> QED
  BY <1>2 DEF Xor, x

LEMMA XorChanges ==
  ASSUME NEW a \in Byte, NEW b \in Byte \ {0}
  PROVE  Xor(a, b) # a
<1>1. Xor(a, 0) = a
  <2> DEFINE x == [k \in 1 .. 8 |-> (BitOf(a, k) + BitOf(0, k)) % 2]
  <2>1. ASSUME NEW k \in 1 .. 8 PROVE x[k] = BitOf(a, k)
    <3>1. BitOf(a, k) \in {0, 1}
      BY BitsOfAByte
    <3>2. k = 1 \/ k = 2 \/ k = 3 \/ k = 4 \/ k = 5 \/ k = 6 \/ k = 7 \/ k = 8
      OBVIOUS
    <3>3. BitOf(0, k) = 0
      BY <3>2 DEF BitOf, Power
    <3> QED
      BY <3>1, <3>3
  <2> HIDE DEF x
  <2>2. ByteOf(x) = a
    BY <2>1, BitsOfAByte DEF ByteOf
  <2> QED
    BY <2>2 DEF Xor, x
<1>2. 0 \in Byte /\ b \in Byte
  BY DEF Byte
<1>3. Xor(a, b) = Xor(a, 0) => b = 0
  BY <1>2, XorApart
<1> QED
  BY <1>1, <1>3

\* One byte more (_calc_crc): a byte again, and another one for another register or another byte.
LEMMA CalcCrcApart ==
  ASSUME NEW a \in Byte, NEW b \in Byte, NEW c \in Byte, NEW d \in Byte
  PROVE  /\ CalcCrc(a, b) \in Byte
         /\ CalcCrc(a, b) = CalcCrc(c, d) /\ (a = c \/ b = d) => a = c /\ b = d
<1>1. Xor(a, b) \in Byte /\ Xor(c, d) \in Byte
  BY XorType
<1>2. CalcCrc(a, b) \in Byte /\ (CalcCrc(a, b) = CalcCrc(c, d) => Xor(a, b) = Xor(c, d))
  BY <1>1, TableIsPermutation DEF CalcCrc
<1> QED
  BY <1>2, XorApart

\* The registers _calc_crc_block goes through.
Registers(f, bytes) ==
  /\ f \in [0 .. Len(bytes) -> Byte] /\ f[0] = 0
  /\ \A i \in 1 .. Len(bytes) : f[i] = CalcCrc(f[i - 1], bytes[i])

LEMMA CrcRuns ==
  ASSUME NEW bytes \in Seq(Byte)
  PROVE  \E f : Registers(f, bytes) /\ Crc(bytes) = f[Len(bytes)]
<1> DEFINE n == Len(bytes)
           Step(f, i) == IF i = 0 THEN 0 ELSE CalcCrc(f[i - 1], bytes[i])
           Runs(f, k) == f = [i \in 0 .. k |-> Step(f, i)]
           Fails == {k \in 0 .. n : ~\E f : Runs(f, k) /\ \A i \in 0 .. k : f[i] \in Byte}
<1>1. n \in Nat /\ \A i \in 1 .. n : bytes[i] \in Byte
  OBVIOUS
<1> HIDE DEF n
<1>2. \E f : Runs(f, 0) /\ \A i \in 0 .. 0 : f[i] \in Byte
  <2> DEFINE f == [i \in 0 .. 0 |-> 0]
  <2>1. \A i \in 0 .. 0 : i = 0
    OBVIOUS
  <2>2. f = [i \in 0 .. 0 |-> Step(f, i)]
    BY <2>1
  <2>3. \A i \in 0 .. 0 : f[i] \in Byte
    BY DEF Byte
  <2> QED
    BY <2>2, <2>3
<1>3. ASSUME NEW k \in 1 .. n, k - 1 \notin Fails PROVE k \notin Fails
  <2>1. PICK f : Runs(f, k - 1) /\ \A i \in 0 .. k - 1 : f[i] \in Byte
    BY <1>1, <1>3
  <2> DEFINE g == [i \in 0 .. k |-> IF i = k THEN CalcCrc(f[k - 1], bytes[k]) ELSE f[i]]
  <2>2. \A i \in 0 .. k - 1 : f[i] = Step(f, i)
    BY <2>1
  <2>3. \A i \in 0 .. k - 1 : g[i] = f[i]
    BY <1>1
  <2>4. g[k] = CalcCrc(f[k - 1], bytes[k])
    BY <1>1
  <2>5. g = [i \in 0 .. k |-> g[i]]
    OBVIOUS
  <2> HIDE DEF g
  <2>6. \A i \in 0 .. k : g[i] = Step(g, i)
    <3> TAKE i \in 0 .. k
    <3>1. CASE i = k
      <4>1. k - 1 \in 0 .. k - 1 /\ k # 0
        BY <1>1
      <4>2. g[k - 1] = f[k - 1]
        BY <2>3, <4>1
      <4> QED
        BY <2>4, <3>1, <4>1, <4>2
    <3>2. CASE i = 0 /\ i # k
      <4>1. i \in 0 .. k - 1
        BY <1>1, <3>2
      <4> QED
        BY <2>2, <2>3, <3>2, <4>1
    <3>3. CASE i # 0 /\ i # k
      <4>1. i \in 0 .. k - 1 /\ i - 1 \in 0 .. k - 1
        BY <1>1, <3>3
      <4> QED
        BY <2>2, <2>3, <3>3, <4>1
    <3> QED
      BY <3>1, <3>2, <3>3
  <2>7. Runs(g, k)
    BY <2>5, <2>6
  <2>8. g[k] \in Byte
    <3>1. f[k - 1] \in Byte /\ bytes[k] \in Byte
      BY <1>1, <2>1
    <3> QED
      BY <2>4, <3>1, CalcCrcApart
  <2>9. \A i \in 0 .. k : g[i] \in Byte
    <3> TAKE i \in 0 .. k
    <3>1. i = k \/ i \in 0 .. k - 1
      BY <1>1
    <3> QED
      BY <2>1, <2>3, <2>8, <3>1
  <2> QED
    BY <2>7, <2>9
<1>4. n \notin Fails
  <2>1. Fails \subseteq 0 .. n /\ 0 \notin Fails
    BY <1>1, <1>2
  <2>2. ASSUME Fails # {} PROVE FALSE
    <3> HIDE DEF Fails
    <3>1. PICK k \in Fails : \A i \in Fails : k <= i
      <4>1. Fails \subseteq Nat
        BY <1>1, <2>1
      <4> QED
        BY <2>2, <4>1, Least
    <3>2. k \in 1 .. n /\ k - 1 \notin Fails
      BY <1>1, <2>1, <3>1
    <3> QED
      BY <1>3, <3>1, <3>2
  <2> QED
    BY <2>2
<1>5. PICK f : Runs(f, n) /\ \A i \in 0 .. n : f[i] \in Byte
  BY <1>1, <1>4
<1>6. Registers(f, bytes)
  <2>1. f \in [0 .. n -> Byte]
    BY <1>5
  <2>2. \A i \in 0 .. n : f[i] = Step(f, i)
    BY <1>5
  <2>3. f[0] = 0 /\ \A i \in 1 .. n : f[i] = CalcCrc(f[i - 1], bytes[i])
    BY <1>1, <2>2
  <2> QED
    BY <2>1, <2>3 DEF Registers, n
<1>7. Crc(bytes) = f[n]
  <2> DEFINE crc[i \in 0 .. n] == IF i = 0 THEN 0 ELSE CalcCrc(crc[i - 1], bytes[i])
  <2>1. Crc(bytes) = crc[n]
    BY Zenon DEF Crc, n
  <2>2. crc = [i \in 0 .. n |-> Step(crc, i)]
    BY <1>5, Zenon DEF crc
  <2> HIDE DEF crc
  <2> DEFINE Differ == {i \in 0 .. n : crc[i] # f[i]}
  <2>3. ASSUME Differ # {} PROVE FALSE
    <3>1. PICK k \in Differ : \A i \in Differ : k <= i
      <4>1. Differ \subseteq Nat
        BY <1>1
      <4> HIDE DEF Differ
      <4> QED
        BY <2>3, <4>1, Least
    <3>2. k \in 0 .. n /\ crc[k] = Step(crc, k) /\ f[k] = Step(f, k)
      BY <1>5, <2>2
    <3>3. k # 0 => crc[k - 1] = f[k - 1]
      BY <1>1, <3>1, <3>2
    <3> QED
      BY <3>1, <3>2, <3>3
  <2> QED
    BY <1>1, <2>1, <2>3
<1> QED
  BY <1>6, <1>7 DEF n

\* Registers are what they are.
LEMMA RegistersAgree ==
  ASSUME NEW a \in Seq(Byte), NEW b \in Seq(Byte), NEW f, Registers(f, a), NEW g, Registers(g, b),
         NEW m \in Nat, m <= Len(a), m <= Len(b), \A i \in 1 .. m : a[i] = b[i]
  PROVE  f[m] = g[m]
<1> DEFINE Differ == {i \in 0 .. m : f[i] # g[i]}
<1>1. Len(a) \in Nat /\ Len(b) \in Nat
  OBVIOUS
<1>2. ASSUME Differ # {} PROVE FALSE
  <2>1. PICK k \in Differ : \A i \in Differ : k <= i
    <3>1. Differ \subseteq Nat
      OBVIOUS
    <3> HIDE DEF Differ
    <3> QED
      BY <1>2, <3>1, Least
  <2>2. CASE k = 0
    BY <2>1, <2>2 DEF Registers
  <2>3. CASE k # 0
    <3>1. k \in 1 .. m /\ k \in 1 .. Len(a) /\ k \in 1 .. Len(b)
      BY <1>1, <2>1, <2>3
    <3>2. f[k - 1] = g[k - 1]
      BY <2>1, <3>1
    <3>3. f[k] = CalcCrc(f[k - 1], a[k]) /\ g[k] = CalcCrc(g[k - 1], b[k])
      BY <3>1 DEF Registers
    <3> QED
      BY <2>1, <3>1, <3>2, <3>3
  <2> QED
    BY <2>2, <2>3
<1> QED
  BY <1>2

\* Data with its CRC behind it has the CRC 0.
THEOREM CheckedPasses ==
  ASSUME NEW data \in Seq(Byte)
  PROVE  Crc(data) \in Byte /\ Crc(Append(data, Crc(data))) = 0
<1>1. PICK f : Registers(f, data) /\ Crc(data) = f[Len(data)]
  BY CrcRuns
<1> DEFINE n == Len(data)
           c == Crc(data)
           all == Append(data, c)
<1>2. n \in Nat /\ c \in Byte
  <2>1. n \in Nat
    OBVIOUS
  <2> QED
    BY <1>1, <2>1 DEF Registers
<1>3. /\ all \in Seq(Byte) /\ Len(all) = n + 1 /\ all[n + 1] = c
      /\ \A i \in 1 .. n : all[i] = data[i]
  <2> HIDE DEF c
  <2> QED
    BY <1>2
<1> HIDE DEF c, all
<1>4. PICK g : Registers(g, all) /\ Crc(all) = g[Len(all)]
  BY <1>3, CrcRuns
<1> HIDE DEF n
<1>5. f[n] = g[n]
  <2>1. n <= Len(data) /\ n <= Len(all) /\ \A i \in 1 .. n : data[i] = all[i]
    BY <1>2, <1>3 DEF n
  <2> QED
    BY <1>1, <1>2, <1>3, <1>4, <2>1, RegistersAgree
<1>6. g[n + 1] = CalcCrc(g[n], all[n + 1])
  <2>1. n + 1 \in 1 .. Len(all) /\ (n + 1) - 1 = n
    BY <1>2, <1>3
  <2> QED
    BY <1>4, <2>1 DEF Registers
<1>7. g[n + 1] = CalcCrc(c, c)
  BY <1>1, <1>3, <1>5, <1>6 DEF c, n
<1>8. CalcCrc(c, c) = 0
  BY <1>2, XorSelf, TableIsPermutation DEF CalcCrc
<1> QED
  BY <1>2, <1>3, <1>4, <1>7, <1>8 DEF c, all

\* One byte received wrong, whatever became of it, is told for data of any length.
THEOREM OneByteTold ==
  ASSUME NEW a \in Seq(Byte), NEW b \in Seq(Byte), Len(a) = Len(b), NEW i \in 1 .. Len(a), a[i] # b[i],
         \A k \in 1 .. Len(a) : k # i => a[k] = b[k]
  PROVE  Crc(a) # Crc(b)
<1>1. PICK f : Registers(f, a) /\ Crc(a) = f[Len(a)]
  BY CrcRuns
<1>2. PICK g : Registers(g, b) /\ Crc(b) = g[Len(b)]
  BY CrcRuns
<1> DEFINE n == Len(a)
           Meet == {k \in i .. n : f[k] = g[k]}
<1>3. /\ n \in Nat /\ n = Len(b) /\ i \in 1 .. n
      /\ \A k \in 1 .. n : a[k] \in Byte /\ b[k] \in Byte
  OBVIOUS
<1>4. /\ \A k \in 0 .. n : f[k] \in Byte /\ g[k] \in Byte
      /\ \A k \in 1 .. n : f[k] = CalcCrc(f[k - 1], a[k]) /\ g[k] = CalcCrc(g[k - 1], b[k])
  BY <1>1, <1>2, <1>3 DEF Registers
<1>5. f[i - 1] = g[i - 1]
  <2>1. i - 1 \in Nat /\ i - 1 <= Len(a) /\ i - 1 <= Len(b) /\ \A k \in 1 .. i - 1 : a[k] = b[k]
    BY <1>3
  <2> QED
    BY <1>1, <1>2, <2>1, RegistersAgree
<1>6. \A k \in 1 .. n : k # i => a[k] = b[k]
  OBVIOUS
<1> HIDE DEF n
<1>7. ASSUME NEW k \in 1 .. n, f[k] = g[k]
      PROVE  (f[k - 1] = g[k - 1] \/ a[k] = b[k]) => f[k - 1] = g[k - 1] /\ a[k] = b[k]
  <2>1. f[k - 1] \in Byte /\ g[k - 1] \in Byte /\ a[k] \in Byte /\ b[k] \in Byte
    BY <1>3, <1>4
  <2> QED
    BY <1>4, <1>7, <2>1, CalcCrcApart
<1>8. ASSUME Meet # {} PROVE FALSE
  <2>1. PICK k \in Meet : \A j \in Meet : k <= j
    <3>1. Meet \subseteq Nat
      BY <1>3
    <3> HIDE DEF Meet
    <3> QED
      BY <1>8, <3>1, Least
  <2>2. k \in 1 .. n /\ f[k] = g[k] /\ i <= k
    BY <1>3, <2>1
  <2>3. CASE k = i
    BY <1>5, <1>7, <2>2, <2>3
  <2>4. CASE k # i
    <3>1. k - 1 \in i .. n /\ k - 1 \notin Meet
      BY <1>3, <2>1, <2>2, <2>4
    <3>2. f[k - 1] # g[k - 1]
      BY <3>1
    <3> QED
      BY <1>6, <1>7, <2>2, <2>4, <3>2
  <2> QED
    BY <2>3, <2>4
<1>9. f[n] # g[n]
  BY <1>3, <1>8
<1> QED
  BY <1>1, <1>2, <1>3, <1>9 DEF n

-----------------------------------------------------------------------------
(* Scratchpads and transfers.                                               *)

Pad == [1 .. 9 -> Byte]

LEMMA PadLength == ASSUME NEW f \in Pad PROVE DOMAIN f = 1 .. 9
BY DEF Pad

LEMMA Appended ==
  ASSUME NEW S, NEW d \in Seq(S), NEW e \in S
  PROVE  /\ Append(d, e) \in [1 .. Len(d) + 1 -> S]
         /\ d \in [1 .. Len(d) -> S]
         /\ \A i \in 1 .. Len(d) : Append(d, e)[i] = d[i]
<1>1. Append(d, e) \in Seq(S)
  OBVIOUS
<1>2. Len(Append(d, e)) = Len(d) + 1
  OBVIOUS
<1>3. d \in [1 .. Len(d) -> S]
  OBVIOUS
<1>4. \A i \in 1 .. Len(d) : Append(d, e)[i] = d[i]
  OBVIOUS
<1> DEFINE a == Append(d, e)
<1> HIDE DEF a
<1>5. a \in Seq(S)
  BY <1>1 DEF a
<1>6. a \in [1 .. Len(a) -> S]
  BY <1>5
<1>7. a \in [1 .. Len(d) + 1 -> S]
  BY <1>2, <1>6, Zenon DEF a
<1> QED
  BY <1>3, <1>4, <1>7, Zenon DEF a

\* The bytes of a sensor's scratchpad.
LEMMA FrameBytes ==
  ASSUME NEW t \in Values, NEW c \in Resolutions
  PROVE  /\ Frame[t][c] \in Pad
         /\ Frame[t][c][1] = Measured(t)[1] /\ Frame[t][c][2] = Measured(t)[2] /\ Frame[t][c][7] = Measured(t)[3]
         /\ Frame[t][c][3] = 75 /\ Frame[t][c][4] = 70 /\ Frame[t][c][5] = (c - 9) * 32 + 31
         /\ Crc(Frame[t][c]) = 0
<1> DEFINE m == Measured(t)
           data == <<m[1], m[2], 75, 70, (c - 9) * 32 + 31, 255, m[3], 16>>
<1>1. Frame[t][c] = Append(data, Crc(data))
  BY DEF Frame
<1>2. m[1] \in Byte /\ m[2] \in Byte /\ m[3] \in Byte
  BY DEF Measured, Values, Byte
<1>3. (c - 9) * 32 + 31 \in Byte
  BY DEF Resolutions, Byte
<1> DEFINE last == Crc(data)
<1>5. /\ data[1] = m[1] /\ data[2] = m[2] /\ data[3] = 75 /\ data[4] = 70 /\ data[5] = (c - 9) * 32 + 31
      /\ data[7] = m[3]
  OBVIOUS
<1>0. Len(data) = 8
  OBVIOUS
<1>6. data \in Seq(Byte)
  <2>1. 75 \in Byte /\ 70 \in Byte /\ 255 \in Byte /\ 16 \in Byte
    BY DEF Byte
  <2> HIDE DEF m
  <2> QED
    BY <1>2, <1>3, <2>1
<1>7. Frame[t][c] = Append(data, last)
  BY <1>1
<1>8. last \in Byte /\ Crc(Frame[t][c]) = 0
  <2> HIDE DEF data
  <2> QED
    BY <1>6, <1>7, CheckedPasses
<1> HIDE DEF data, last
<1> DEFINE L == Len(data)
           a == Append(data, last)
<1>9. a \in [1 .. L + 1 -> Byte] /\ \A i \in 1 .. L : a[i] = data[i]
  BY <1>6, <1>8, Appended
<1>10. L = 8
  BY <1>0
<1> HIDE DEF L, a
<1>11. Frame[t][c] \in Pad
  <2>1. a \in [1 .. 9 -> Byte]
    BY <1>9, <1>10
  <2> QED
    BY <1>7, <2>1 DEF Pad, a
<1>12. \A i \in 1 .. 8 : Frame[t][c][i] = data[i]
  <2>1. \A i \in 1 .. 8 : a[i] = data[i]
    BY <1>9, <1>10
  <2> QED
    BY <1>7, <2>1, Zenon DEF a
<1>13. 1 \in 1 .. 8 /\ 2 \in 1 .. 8 /\ 3 \in 1 .. 8 /\ 4 \in 1 .. 8 /\ 5 \in 1 .. 8 /\ 7 \in 1 .. 8
  OBVIOUS
<1> QED
  BY <1>5, <1>8, <1>11, <1>12, <1>13, Zenon DEF m

\* A sensor's scratchpad comes back from the line as it is, and nobody's as ones.
LEMMA WiredAlone ==
  ASSUME TypeOK, NEW s \in Sensor
  PROVE  Wired({s}) = Frame[temp[s]][cfg[s]]
<1> DEFINE f == Frame[temp[s]][cfg[s]]
           bits(i) == [k \in 1 .. 8 |-> IF BitOf(f[i], k) = 1 THEN 1 ELSE 0]
<1>1. f \in Pad
  BY FrameBytes DEF TypeOK
<1>2. {Frame[temp[r]][cfg[r]] : r \in {s}} = {f}
  OBVIOUS
<1>3. Wired({s}) = [i \in 1 .. 9 |-> ByteOf(bits(i))]
  BY <1>2 DEF Wired
<1> HIDE DEF f
<1>4. ASSUME NEW i \in 1 .. 9
      PROVE  ByteOf(bits(i)) = f[i]
  <2>1. f[i] \in Byte
    BY <1>1 DEF Pad
  <2>2. \A k \in 1 .. 8 : bits(i)[k] = BitOf(f[i], k)
    <3> TAKE k \in 1 .. 8
    <3>1. BitOf(f[i], k) \in {0, 1}
      BY <2>1, BitsOfAByte
    <3> QED
      BY <3>1
  <2> HIDE DEF bits
  <2>3. /\ bits(i)[1] = BitOf(f[i], 1) /\ bits(i)[2] = BitOf(f[i], 2) /\ bits(i)[3] = BitOf(f[i], 3)
        /\ bits(i)[4] = BitOf(f[i], 4) /\ bits(i)[5] = BitOf(f[i], 5) /\ bits(i)[6] = BitOf(f[i], 6)
        /\ bits(i)[7] = BitOf(f[i], 7) /\ bits(i)[8] = BitOf(f[i], 8)
    BY <2>2
  <2>4. ByteOf(bits(i)) = BitOf(f[i], 1) + 2 * BitOf(f[i], 2) + 4 * BitOf(f[i], 3) + 8 * BitOf(f[i], 4)
                 + 16 * BitOf(f[i], 5) + 32 * BitOf(f[i], 6) + 64 * BitOf(f[i], 7) + 128 * BitOf(f[i], 8)
    BY <2>3 DEF ByteOf
  <2> QED
    BY <2>1, <2>4, BitsOfAByte
<1> HIDE DEF bits
<1>5. [i \in 1 .. 9 |-> ByteOf(bits(i))] = f
  <2>1. f = [i \in 1 .. 9 |-> f[i]]
    BY <1>1 DEF Pad
  <2> QED
    BY <1>4, <2>1
<1> QED
  BY <1>3, <1>5 DEF f

LEMMA WiredNobody == Wired({}) = Ones
<1> DEFINE ones == [k \in 1 .. 8 |-> 1]
<1>1. ByteOf(ones) = 255
  BY DEF ByteOf
<1>2. Wired({}) = [i \in 1 .. 9 |-> ByteOf(ones)]
  BY DEF Wired
<1> QED
  BY <1>1, <1>2 DEF Ones

LEMMA WiredType == ASSUME NEW S PROVE Wired(S) \in Pad
<1> DEFINE frames == {Frame[temp[s]][cfg[s]] : s \in S}
           bits(i) == [k \in 1 .. 8 |-> IF \A f \in frames : BitOf(f[i], k) = 1 THEN 1 ELSE 0]
<1>1. Wired(S) = [i \in 1 .. 9 |-> ByteOf(bits(i))]
  BY DEF Wired
<1>2. \A i \in 1 .. 9 : bits(i) \in [1 .. 8 -> {0, 1}]
  OBVIOUS
<1> HIDE DEF bits
<1>3. \A i \in 1 .. 9 : ByteOf(bits(i)) \in Byte
  BY <1>2, ByteOfBits
<1> QED
  BY <1>1, <1>3 DEF Pad

LEMMA Constants == Zeros \in Pad /\ Ones \in Pad
BY DEF Zeros, Ones, Pad, Byte

LEMMA GarbledType ==
  ASSUME NEW f \in Pad, NEW g \in Garbled(f)
  PROVE  g \in Pad
<1>1. CASE g = Zeros
  BY <1>1, Constants
<1>2. ASSUME NEW i \in 1 .. 9, g = Missed(f, i)
      PROVE  g \in Pad
  <2>1. 0 \in Byte
    BY DEF Byte
  <2> QED
    BY <1>2, <2>1 DEF Missed, Pad
<1>3. ASSUME NEW i \in 1 .. 9, NEW b \in NoisyBits, g = Turned(f, i, b)
      PROVE  g \in Pad
  <2>1. Power[b + 1] \in Byte
    BY Ds18b20Assumption DEF Power, Byte
  <2>2. f[i] \in Byte
    BY DEF Pad
  <2>3. Xor(f[i], Power[b + 1]) \in Byte
    BY <2>1, <2>2, XorType
  <2> HIDE DEF Pad
  <2>4. g = [f EXCEPT ![i] = Xor(f[i], Power[b + 1])]
    BY <1>3 DEF Turned
  <2> DEFINE v == Xor(f[i], Power[b + 1])
  <2> HIDE DEF v
  <2>5. v \in Byte /\ g = [f EXCEPT ![i] = v]
    BY <2>3, <2>4 DEF v
  <2> QED
    BY <2>5 DEF Pad
<1> QED
  BY <1>1, <1>2, <1>3 DEF Garbled

LEMMA FirstType ==
  ASSUME NEW f \in Pad, NEW n \in Nat
  PROVE  First(f, n) \in Pad /\ First(f, 9) = f
<1>1. 0 \in Byte
  BY DEF Byte
<1>2. \A i \in 1 .. 9 : f[i] \in Byte
  BY DEF Pad
<1>3. First(f, n) \in Pad
  BY <1>1, <1>2 DEF First, Pad
<1>4. f = [i \in 1 .. 9 |-> f[i]]
  BY DEF Pad
<1>5. First(f, 9) = [i \in 1 .. 9 |-> f[i]]
  BY DEF First
<1> QED
  BY <1>3, <1>4, <1>5

\* What a transfer may give: no answer, or the bytes of a pad the line may show.
Read(h, count, f, bad) ==
    LET n == IF h.crc THEN 9 ELSE count
    IN [buf |-> First(f, n), err |-> ErrorOf(h, First(f, n)), bad |-> bad]
Absent(bad) == [buf |-> Zeros, err |-> "device", bad |-> bad]

Outcome(t, s, h, count) ==
    \/ t = Absent(FALSE) /\ present = {}
    \/ t = Read(h, count, Wired(Reached(s, h)), FALSE) /\ present # {}
    \/ hits < MaxFaults /\ t = Absent(TRUE)
    \/ hits < MaxFaults /\ t = Read(h, count, Ones, TRUE)
    \/ hits < MaxFaults /\ \E f \in Garbled(Wired(Reached(s, h))) : t = Read(h, count, f, TRUE)

LEMMA TransferCases ==
  ASSUME NEW s, NEW h, NEW count, NEW t \in Transfers(s, h, count)
  PROVE  Outcome(t, s, h, count)
<1>1. t \in {IF present = {} THEN Absent(FALSE) ELSE Read(h, count, Wired(Reached(s, h)), FALSE)}
       \cup IF hits < MaxFaults
            THEN {Absent(TRUE), Read(h, count, Ones, TRUE)}
                    \cup {Read(h, count, f, TRUE) : f \in Garbled(Wired(Reached(s, h)))}
            ELSE {}
  BY DEF Transfers, Read, Absent
<1> QED
  BY <1>1 DEF Outcome

LEMMA TransferType ==
  ASSUME NEW s, NEW h, NEW count \in Nat, NEW t \in Transfers(s, h, count)
  PROVE  t.buf \in Pad /\ t.bad \in BOOLEAN /\ (t.bad => hits < MaxFaults)
<1>1. \A f \in Pad, bad \in BOOLEAN : Read(h, count, f, bad).buf \in Pad /\ Read(h, count, f, bad).bad = bad
  <2> TAKE f \in Pad, bad \in BOOLEAN
  <2>1. First(f, 9) \in Pad /\ First(f, count) \in Pad
    BY FirstType
  <2> QED
    BY <2>1 DEF Read
<1>2. \A bad \in BOOLEAN : Absent(bad).buf \in Pad /\ Absent(bad).bad = bad
  BY Constants DEF Absent
<1>3. Wired(Reached(s, h)) \in Pad /\ Ones \in Pad
  BY WiredType, Constants
<1>4. CASE t = Absent(FALSE)
  BY <1>2, <1>4
<1>5. CASE t = Read(h, count, Wired(Reached(s, h)), FALSE)
  BY <1>1, <1>3, <1>5
<1>6. CASE hits < MaxFaults /\ t = Absent(TRUE)
  BY <1>2, <1>6
<1>7. CASE hits < MaxFaults /\ t = Read(h, count, Ones, TRUE)
  BY <1>1, <1>3, <1>7
<1>8. ASSUME hits < MaxFaults, NEW f \in Garbled(Wired(Reached(s, h))), t = Read(h, count, f, TRUE)
      PROVE  t.buf \in Pad /\ t.bad \in BOOLEAN /\ (t.bad => hits < MaxFaults)
  BY <1>1, <1>3, <1>8, GarbledType
<1> QED
  <2>1. Outcome(t, s, h, count)
    BY TransferCases
  <2> QED
    BY <1>4, <1>5, <1>6, <1>7, <1>8, <2>1, Zenon DEF Outcome

\* A clean answer of one sensor is its scratchpad, and the CRC is right.
LEMMA AloneClean ==
  ASSUME TypeOK, NEW s, NEW h, h.crc, NEW count \in Nat, NEW t \in Transfers(s, h, count), ~t.bad,
         present # {}, NEW r \in Sensor, Reached(s, h) = {r}
  PROVE  t.buf = Frame[temp[r]][cfg[r]] /\ t.err = "ok"
<1> DEFINE f == Frame[temp[r]][cfg[r]]
<1>1. Wired(Reached(s, h)) = f /\ f \in Pad
  BY WiredAlone, FrameBytes DEF TypeOK
<1>2. Crc(f) = 0
  BY FrameBytes DEF TypeOK
<1>3. First(f, 9) = f
  BY <1>1, FirstType
<1> HIDE DEF f
<1>4. t = Read(h, count, Wired(Reached(s, h)), FALSE)
  <2>1. Outcome(t, s, h, count)
    BY TransferCases
  <2> QED
    BY <2>1 DEF Outcome, Read, Absent
<1>5. t.buf = f /\ t.err = ErrorOf(h, f)
  BY <1>1, <1>3, <1>4 DEF Read
<1> QED
  BY <1>2, <1>5 DEF ErrorOf, f

\* A byte of a scratchpad received wrong is told.
LEMMA WrongByte ==
  ASSUME NEW f \in Pad, Crc(f) = 0, NEW i \in 1 .. 9, NEW v \in Byte, v # f[i]
  PROVE  Crc([f EXCEPT ![i] = v]) # 0
<1> DEFINE g == [f EXCEPT ![i] = v]
<1>1. g \in Pad /\ g[i] = v /\ \A k \in 1 .. 9 : k # i => g[k] = f[k]
  BY DEF Pad
<1> HIDE DEF g
<1>2. ASSUME NEW p \in Pad PROVE p \in Seq(Byte) /\ Len(p) = 9
  <2>1. 9 \in Nat /\ p \in [1 .. 9 -> Byte]
    BY DEF Pad
  <2>2. p \in Seq(Byte)
    <3>1. Seq(Byte) = UNION {[1 .. n -> Byte] : n \in Nat}
      BY SeqDef
    <3>2. [1 .. 9 -> Byte] \in {[1 .. n -> Byte] : n \in Nat}
      BY <2>1
    <3> QED
      BY <2>1, <3>1, <3>2, Zenon
  <2>3. DOMAIN p = 1 .. 9 /\ DOMAIN p = 1 .. Len(p) /\ Len(p) \in Nat
    BY <2>1, <2>2, LenProperties
  <2> QED
    BY <2>2, <2>3
<1>3. Len(f) = 9 /\ Len(g) = 9 /\ f \in Seq(Byte) /\ g \in Seq(Byte)
  BY <1>1, <1>2
<1> QED
  <2>1. i \in 1 .. Len(f) /\ Len(f) = Len(g) /\ f[i] # g[i]
    BY <1>1, <1>3
  <2>2. \A k \in 1 .. Len(f) : k # i => f[k] = g[k]
    BY <1>1, <1>3
  <2>3. Crc(f) # Crc(g)
    BY <1>3, <2>1, <2>2, OneByteTold
  <2> QED
    BY <2>3 DEF g

\* A disturbed pad does not pass the CRC, but for zeros.
LEMMA GarbledTold ==
  ASSUME NEW f \in {Frame[t][c] : t \in Values, c \in Resolutions} \cup {Ones}, NEW g \in Garbled(f), Crc(g) = 0
  PROVE  g = Zeros
<1>1. ASSUME NEW t \in Values, NEW c \in Resolutions, f = Frame[t][c], NEW i \in 1 .. 9
      PROVE  Crc(Missed(f, i)) # 0 /\ \A b \in 0 .. 7 : Crc(Turned(f, i, b)) # 0
  <2>1. f \in Pad /\ Crc(f) = 0 /\ f[i] # 0 /\ f[i] \in Byte
    BY <1>1, FrameBytes, CrcAssumption DEF Pad
  <2>2. Crc(Missed(f, i)) # 0
    <3>1. 0 \in Byte
      BY DEF Byte
    <3> QED
      BY <2>1, <3>1, WrongByte DEF Missed
  <2>3. ASSUME NEW b \in 0 .. 7 PROVE Crc(Turned(f, i, b)) # 0
    <3>1. Power[b + 1] \in Byte \ {0}
      BY DEF Power, Byte
    <3>2. Xor(f[i], Power[b + 1]) \in Byte /\ Xor(f[i], Power[b + 1]) # f[i]
      BY <2>1, <3>1, XorType, XorChanges
    <3> QED
      BY <2>1, <3>2, WrongByte DEF Turned
  <2> QED
    BY <2>2, <2>3
<1>2. \A i \in 1 .. 9 : Crc(Missed(f, i)) # 0 /\ \A b \in 0 .. 7 : Crc(Turned(f, i, b)) # 0
  BY <1>1, CrcAssumption
<1>3. NoisyBits \subseteq 0 .. 7
  BY Ds18b20Assumption
<1> QED
  BY <1>2, <1>3 DEF Garbled

\* Whatever becomes of the answer of one sensor or of none, what passes the CRC is a scratchpad or
\* zeros (_read_scratchpad).
LEMMA PassedOrTold ==
  ASSUME TypeOK, NEW s, NEW h, h.crc, NEW count \in Nat, NEW t \in Transfers(s, h, count), t.err = "ok",
         Reached(s, h) = {} \/ \E r \in Sensor : Reached(s, h) = {r}
  PROVE  t.buf = Zeros \/ \E v \in Values, c \in Resolutions : t.buf = Frame[v][c]
<1> DEFINE Frames == {Frame[v][c] : v \in Values, c \in Resolutions}
           w == Wired(Reached(s, h))
<1>1. w \in Frames \cup {Ones}
  <2>1. CASE Reached(s, h) = {}
    BY <2>1, WiredNobody
  <2>2. ASSUME NEW r \in Sensor, Reached(s, h) = {r}
        PROVE  w \in Frames
    <3>1. w = Frame[temp[r]][cfg[r]]
      BY <2>2, WiredAlone
    <3> QED
      BY <3>1 DEF TypeOK
  <2> QED
    BY <2>1, <2>2
<1>2. w \in Pad /\ Ones \in Pad
  BY WiredType, Constants
<1> HIDE DEF w
<1>3. \A f \in Pad, bad \in BOOLEAN : t = Read(h, count, f, bad) => t.buf = f /\ Crc(f) = 0
  <2> SUFFICES ASSUME NEW f \in Pad, NEW bad \in BOOLEAN, t = Read(h, count, f, bad)
               PROVE  t.buf = f /\ Crc(f) = 0
    OBVIOUS
  <2>1. First(f, 9) = f
    BY FirstType
  <2>2. t.buf = f /\ t.err = ErrorOf(h, f)
    BY <2>1 DEF Read
  <2>3. Crc(f) = 0
    BY <2>2 DEF ErrorOf
  <2> QED
    BY <2>2, <2>3
<1>4. Crc(Ones) # 0
  BY CrcAssumption
<1>5. t # Absent(FALSE) /\ t # Absent(TRUE)
  BY DEF Absent
<1>6. CASE t = Read(h, count, w, FALSE)
  <2>1. t.buf = w /\ Crc(w) = 0
    BY <1>2, <1>3, <1>6
  <2>2. w \in Frames
    BY <1>1, <1>4, <2>1
  <2> QED
    BY <2>1, <2>2
<1>7. CASE t = Read(h, count, Ones, TRUE)
  BY <1>2, <1>3, <1>4, <1>7
<1>8. ASSUME NEW f \in Garbled(w), t = Read(h, count, f, TRUE)
      PROVE  t.buf = Zeros
  <2>1. f \in Pad
    BY <1>2, GarbledType
  <2>2. t.buf = f /\ Crc(f) = 0
    BY <1>3, <1>8, <2>1
  <2> QED
    BY <1>1, <2>2, GarbledTold
<1> HIDE DEF Frames
<1>9. \/ t = Read(h, count, w, FALSE)
      \/ t = Read(h, count, Ones, TRUE)
      \/ \E f \in Garbled(w) : t = Read(h, count, f, TRUE)
  <2>1. Outcome(t, s, h, count)
    BY TransferCases
  <2> QED
    BY <1>5, <2>1 DEF w, Outcome
<1> QED
  BY <1>6, <1>7, <1>8, <1>9

-----------------------------------------------------------------------------
(* The inductive invariant.                                                 *)

Setup == {"init", "get", "write", "verify", "refresh", "power"}   \* ds18b20_init and what follows it
Tasks == {"convert", "wait", "read"}                               \* a cycle, or read_sensor()

\* Which job is where, and what is left to do there.
Flow ==
    /\ pc = "idle" <=> job = "none"
    /\ pc \in Setup => job \in {"scan", "solo"}
    /\ pc \in Tasks => job \in {"cycle", "http"}
    /\ pc \in {"idle", "power"} <=> todo = {}

\* Handles use the CRC as soon as they are there; the one at hand addresses as the scan found it.
HandlesInv ==
    /\ \A s \in Handled : handle[s].crc
    /\ pc \in {"get", "write", "verify", "refresh"} => cur \in Handled /\ (handle[cur].solo <=> job = "solo")
    /\ pc \in Tasks => todo \subseteq Handled
    /\ pc \in {"convert", "wait"} /\ job = "cycle" => todo = Handled
    /\ \A s \in todo : reading[s] = "none"

Agreed(s) == handle[s].res = Resolution /\ cfg[s] = Resolution

\* The slots an undisturbed scan is done with agree with their sensors.
ScanInv ==
    job \in {"scan", "solo"} /\ hits = 0 =>
        /\ todo \subseteq present
        /\ job = "solo" => \E s \in Sensor : present = {s}
        /\ \A s \in present \ todo : Agreed(s)
        /\ pc = "verify" => cfg[cur] = Resolution
        /\ pc # "refresh"

\* The sensors a job converts, and the handle it waits by knows their time.
Concerned == IF job = "cycle" THEN present ELSE Reached(cur, handle[cur])
Patient   == \A s \in present : handle[Waiter].res >= cfg[s]

\* In an undisturbed job each of them converts for its own time, and has its result after the wait.
MeasureInv ==
    hits = 0 =>
        /\ pc = "wait" => \A s \in Concerned : busy[s] = Units(cfg[s])
        /\ pc = "read" /\ Patient => \A s \in Concerned : temp[s] = "new"

\* read_sensor() sees to one slot.
OneSlot == job = "http" => \E s \in Sensor : todo = {s}

Inv == TypeOK /\ Flow /\ HandlesInv /\ ScanInv /\ MeasureInv /\ OneSlot

Base == TypeOK /\ Flow /\ HandlesInv

-----------------------------------------------------------------------------
(* Types, the order of the steps, and handles.                              *)

LEMMA SlotAtHand ==
  ASSUME TypeOK, todo # {}
  PROVE  cur \in todo /\ cur \in Sensor
<1>1. todo \subseteq Nat
  BY SlotNumbers DEF TypeOK
<1>2. Min(todo) \in todo
  BY <1>1, MinIsLeast
<1> QED
  BY <1>2 DEF cur, TypeOK

LEMMA ConfiguredType ==
  ASSUME NEW f \in Pad
  PROVE  Configured(f) \in Resolutions
<1>1. f[5] \in Byte
  BY DEF Pad
<1> DEFINE x == f[5] \div 32
<1>2. x \in Int
  BY <1>1 DEF Byte
<1> HIDE DEF x
<1>3. x % 4 \in 0 .. 3
  BY <1>2
<1> QED
  BY <1>3 DEF Configured, Resolutions, x

LEMMA UnitsType ==
  /\ Units(9) = 1 /\ Units(10) = 2 /\ Units(11) = 4 /\ Units(12) = 8
  /\ \A r \in Resolutions : Units(r) \in 1 .. 8
  /\ \A r, c \in Resolutions : c <= r => Units(c) <= Units(r)
<1>1. Units(9) = 1 /\ Units(10) = 2 /\ Units(11) = 4 /\ Units(12) = 8
  BY DEF Units, Power
<1>2. \A r \in Resolutions : r = 9 \/ r = 10 \/ r = 11 \/ r = 12
  BY DEF Resolutions
<1> QED
  BY <1>1, <1>2

LEMMA HandleFacts ==
  ASSUME NEW h \in Handle
  PROVE  /\ h # NoHandle /\ h.res \in Resolutions /\ h.solo \in BOOLEAN /\ h.crc \in BOOLEAN
         /\ h.res \in 9 .. 12
BY DEF Handle, NoHandle, Resolutions

LEMMA HandledFacts ==
  ASSUME TypeOK, NEW s \in Handled
  PROVE  s \in Sensor /\ handle[s] \in Handle
BY DEF TypeOK, Handled

LEMMA WrittenIs == Written = 12 /\ Resolution = 12 /\ Written \in Resolutions
BY DEF Written, FieldOf, Resolution, Resolutions

\* One handle is built anew.
LEMMA Rebuilt ==
  ASSUME Base, todo # {}, NEW h \in Handle, h.crc, handle' = [handle EXCEPT ![cur] = h]
  PROVE  /\ handle' \in [Sensor -> Handle \cup {NoHandle}]
         /\ handle'[cur] = h
         /\ \A s \in Sensor \ {cur} : handle'[s] = handle[s]
         /\ \A s \in Handled' : handle'[s].crc
         /\ Handled' = Handled \cup {cur}
<1>1. cur \in Sensor
  BY SlotAtHand DEF Base
<1> DEFINE k == cur
<1>2. k \in Sensor /\ handle' = [handle EXCEPT ![k] = h]
  BY <1>1
<1> HIDE DEF k
<1>3. handle' \in [Sensor -> Handle \cup {NoHandle}]
  BY <1>2 DEF Base, TypeOK
<1>4. handle'[k] = h /\ \A s \in Sensor \ {k} : handle'[s] = handle[s]
  BY <1>2 DEF Base, TypeOK
<1>5. h # NoHandle
  BY HandleFacts
<1>6. Handled' = Handled \cup {k}
  BY <1>2, <1>4, <1>5 DEF Handled
<1>7. \A s \in Handled : handle[s].crc /\ s \in Sensor
  BY DEF Base, HandlesInv, Handled
<1>8. \A s \in Handled' : handle'[s].crc
  BY <1>2, <1>4, <1>6, <1>7
<1> QED
  BY <1>3, <1>4, <1>6, <1>8 DEF k

LEMMA ChargeType ==
  ASSUME TypeOK, NEW bad \in BOOLEAN, bad => hits < MaxFaults, Charge(bad)
  PROVE  hits' \in 0 .. MaxFaults /\ (hits' = 0 => hits = 0 /\ ~bad)
<1>1. hits \in 0 .. MaxFaults /\ MaxFaults \in Nat
  BY Ds18b20Assumption DEF TypeOK
<1> QED
  BY <1>1 DEF Charge

LEMMA BaseInit == Init => Base
<1> SUFFICES ASSUME Init PROVE Base
  OBVIOUS
<1>1. Eeprom \subseteq Resolutions /\ MaxFaults \in Nat
  BY Ds18b20Assumption
<1>2. 0 \in 0 .. Units(12)
  BY UnitsType
<1>3. TypeOK
  <2>1. temp \in [Sensor -> Values] /\ busy \in [Sensor -> 0 .. Units(12)]
    BY <1>2 DEF Init, Values
  <2>2. handle \in [Sensor -> Handle \cup {NoHandle}] /\ cfg \in [Sensor -> Resolutions]
    BY <1>1 DEF Init
  <2>3. reading \in [Sensor -> Values \cup {"none", "error", "zero", "other"}] /\ hits \in 0 .. MaxFaults
    BY <1>1 DEF Init
  <2> QED
    BY <2>1, <2>2, <2>3 DEF Init, TypeOK
<1>4. Flow
  BY DEF Init, Flow, Setup, Tasks
<1>5. Handled = {}
  BY DEF Init, Handled
<1>6. HandlesInv
  BY <1>5 DEF Init, HandlesInv, Tasks
<1> QED
  BY <1>3, <1>4, <1>6 DEF Base

LEMMA BasePlug ==
  ASSUME Base, NEW s \in Sensor, Plug(s) \/ Unplug(s)
  PROVE  Base'
<1>1. UNCHANGED <<handle, parasitic, job, pc, todo, reading>> /\ present' \subseteq Sensor
  BY DEF Plug, Unplug, Base, TypeOK
<1>2. hits' \in 0 .. MaxFaults
  <2>1. (job # "none") \in BOOLEAN /\ Charge(job # "none") /\ (job # "none" => hits < MaxFaults)
    BY DEF Plug, Unplug
  <2> QED
    BY <2>1, ChargeType DEF Base
<1>3. /\ cfg' \in [Sensor -> Resolutions] /\ temp' \in [Sensor -> Values]
      /\ busy' \in [Sensor -> 0 .. Units(12)]
  <2>1. Eeprom \subseteq Resolutions /\ 12 \in Resolutions /\ "poweron" \in Values /\ 0 \in 0 .. Units(12)
    BY Ds18b20Assumption, UnitsType DEF Resolutions, Values
  <2>2. \E c \in Resolutions : cfg' = [cfg EXCEPT ![s] = c]
    BY <2>1 DEF Plug, Unplug
  <2>3. temp' = [temp EXCEPT ![s] = "poweron"] /\ busy' = [busy EXCEPT ![s] = 0]
    BY DEF Plug, Unplug
  <2> QED
    BY <2>1, <2>2, <2>3 DEF Base, TypeOK
<1>4. TypeOK'
  BY <1>1, <1>2, <1>3 DEF Base, TypeOK
<1>5. Flow'
  BY <1>1 DEF Base, Flow
<1>6. HandlesInv'
  BY <1>1 DEF Base, HandlesInv, Handled, cur
<1> QED
  BY <1>4, <1>5, <1>6 DEF Base

LEMMA BaseStart ==
  ASSUME Base, NEW kind, NEW first, NEW slots \in SUBSET Sensor, slots # {}, Start(kind, first, slots),
         \/ kind \in {"scan", "solo"} /\ first = "init"
         \/ kind = "cycle" /\ first = "convert" /\ slots = Handled
         \/ kind = "http" /\ first = "convert" /\ slots \subseteq Handled
  PROVE  Base'
<1>1. /\ job' = kind /\ pc' = first /\ todo' = slots /\ hits' = 0
      /\ reading' = [s \in Sensor |-> "none"]
      /\ UNCHANGED <<present, cfg, temp, busy, handle, parasitic>>
  BY DEF Start, world
<1>2. TypeOK'
  <2>1. hits' \in 0 .. MaxFaults
    BY <1>1, Ds18b20Assumption
  <2>2. reading' \in [Sensor -> Values \cup {"none", "error", "zero", "other"}]
    BY <1>1
  <2> QED
    BY <1>1, <2>1, <2>2 DEF Base, TypeOK
<1>3. Flow'
  BY <1>1 DEF Flow, Setup, Tasks
<1>4. HandlesInv'
  BY <1>1 DEF Base, HandlesInv, Handled, Tasks
<1> QED
  BY <1>2, <1>3, <1>4 DEF Base

LEMMA BaseInitHandle == Base /\ InitHandle => Base'
<1> SUFFICES ASSUME Base, InitHandle PROVE Base'
  OBVIOUS
<1> DEFINE fresh == [res |-> 9, solo |-> job = "solo", crc |-> FALSE]
<1>1. todo # {} /\ job \in {"scan", "solo"}
  BY DEF InitHandle, Base, Flow, Setup
<1>2. PICK t \in Transfers(cur, fresh, 5) :
         /\ handle' = [handle EXCEPT ![cur] = [res |-> Configured(t.buf), solo |-> job = "solo", crc |-> TRUE]]
         /\ Charge(t.bad)
  BY DEF InitHandle
<1>3. /\ pc = "init" /\ pc' = "get"
      /\ UNCHANGED <<present, cfg, temp, busy, parasitic, job, todo, reading>>
  BY DEF InitHandle, world
<1>4. t.buf \in Pad /\ t.bad \in BOOLEAN /\ (t.bad => hits < MaxFaults)
  BY TransferType
<1> DEFINE h == [res |-> Configured(t.buf), solo |-> job = "solo", crc |-> TRUE]
<1>5. h \in Handle /\ h.crc /\ (h.solo <=> job = "solo")
  BY <1>4, ConfiguredType DEF Handle
<1>6. handle' = [handle EXCEPT ![cur] = h]
  BY <1>2
<1> HIDE DEF h, fresh
<1>7. /\ handle' \in [Sensor -> Handle \cup {NoHandle}]
      /\ handle'[cur] = h
      /\ \A s \in Handled' : handle'[s].crc
      /\ Handled' = Handled \cup {cur}
  BY <1>1, <1>5, <1>6, Rebuilt
<1>8. hits' \in 0 .. MaxFaults
  BY <1>2, <1>4, ChargeType DEF Base
<1>9. TypeOK'
  BY <1>3, <1>7, <1>8 DEF Base, TypeOK
<1>10. Flow'
  BY <1>1, <1>3 DEF Base, Flow, Setup, Tasks
<1>11. cur' = cur
  BY <1>3 DEF cur
<1>12. HandlesInv'
  BY <1>3, <1>5, <1>7, <1>11 DEF Base, HandlesInv, Tasks
<1> QED
  BY <1>9, <1>10, <1>12 DEF Base

LEMMA BaseGetPad == Base /\ GetPad => Base'
<1> SUFFICES ASSUME Base, GetPad PROVE Base'
  OBVIOUS
<1>1. PICK t \in Transfers(cur, handle[cur], 5) : Charge(t.bad)
  BY DEF GetPad
<1>2. pc = "get" /\ pc' = "write" /\ UNCHANGED <<present, cfg, temp, busy, handle, parasitic, job, todo, reading>>
  BY DEF GetPad, world
<1>3. hits' \in 0 .. MaxFaults
  BY <1>1, TransferType, ChargeType DEF Base
<1>4. TypeOK'
  BY <1>2, <1>3 DEF Base, TypeOK
<1>5. Flow'
  BY <1>2 DEF Base, Flow, Setup, Tasks
<1>6. cur' = cur /\ Handled' = Handled
  BY <1>2 DEF cur, Handled
<1>7. HandlesInv'
  BY <1>2, <1>6 DEF Base, HandlesInv, Tasks
<1> QED
  BY <1>4, <1>5, <1>7 DEF Base

LEMMA BaseWritePad == Base /\ WritePad => Base'
<1> SUFFICES ASSUME Base, WritePad PROVE Base'
  OBVIOUS
<1>1. /\ pc = "write" /\ pc' \in {"refresh", "verify"}
      /\ UNCHANGED <<present, temp, busy, handle, parasitic, job, todo, reading>>
  BY DEF WritePad
<1>2. cfg' \in [Sensor -> Resolutions]
  <2>1. 9 \in Resolutions /\ Written \in Resolutions /\ cfg \in [Sensor -> Resolutions] /\ present \subseteq Sensor
    BY WrittenIs DEF Resolutions, Base, TypeOK
  <2>2. \/ cfg' = [s \in Sensor |-> IF s \in Reached(cur, handle[cur]) THEN Written ELSE cfg[s]]
        \/ cfg' = cfg
        \/ \E s \in present : cfg' = [cfg EXCEPT ![s] = 9]
    BY DEF WritePad
  <2> QED
    BY <2>1, <2>2
<1>3. hits' \in 0 .. MaxFaults
  BY Ds18b20Assumption DEF WritePad, Base, TypeOK
<1>4. TypeOK'
  BY <1>1, <1>2, <1>3 DEF Base, TypeOK
<1>5. Flow'
  BY <1>1 DEF Base, Flow, Setup, Tasks
<1>6. cur' = cur /\ Handled' = Handled
  BY <1>1 DEF cur, Handled
<1>7. HandlesInv'
  BY <1>1, <1>6 DEF Base, HandlesInv, Tasks
<1> QED
  BY <1>4, <1>5, <1>7 DEF Base

\* The job goes on with its next slot, or is done with all.
LEMMA NextOrDone ==
  ASSUME TypeOK, todo # {}
  PROVE  todo \ {cur} \subseteq Sensor /\ (todo \ {cur} = {} <=> todo = {cur})
BY SlotAtHand DEF TypeOK

LEMMA BaseAgreed ==
  ASSUME Base, pc \in {"verify", "refresh"}, NEW r \in Resolutions,
         handle' = [handle EXCEPT ![cur].res = r], NextHandle, hits' \in 0 .. MaxFaults,
         UNCHANGED <<present, cfg, temp, busy, parasitic, job, reading>>
  PROVE  Base' /\ handle'[cur].res = r /\ \A s \in Sensor \ {cur} : handle'[s] = handle[s]
<1>1. todo # {} /\ job \in {"scan", "solo"} /\ cur \in Handled /\ handle[cur].crc
  BY DEF Base, Flow, HandlesInv, Setup
<1>2. handle[cur] \in Handle
  BY <1>1, HandledFacts DEF Base
<1> DEFINE h == [handle[cur] EXCEPT !.res = r]
<1>3. h \in Handle /\ h.crc /\ h.res = r
  BY <1>1, <1>2 DEF Handle
<1>4. handle' = [handle EXCEPT ![cur] = h]
  OBVIOUS
<1> HIDE DEF h
<1>5. /\ handle' \in [Sensor -> Handle \cup {NoHandle}]
      /\ handle'[cur] = h
      /\ \A s \in Sensor \ {cur} : handle'[s] = handle[s]
      /\ \A s \in Handled' : handle'[s].crc
  BY <1>1, <1>3, <1>4, Rebuilt
<1>6. todo' = todo \ {cur} /\ pc' = (IF todo = {cur} THEN "power" ELSE "init")
  BY DEF NextHandle
<1>7. todo' \subseteq Sensor /\ (todo' = {} <=> todo = {cur})
  BY <1>1, <1>6, NextOrDone DEF Base
<1>8. TypeOK'
  BY <1>5, <1>6, <1>7 DEF Base, TypeOK
<1>9. Flow'
  BY <1>1, <1>6, <1>7 DEF Flow, Setup, Tasks
<1>10. HandlesInv'
  BY <1>5, <1>6 DEF Base, HandlesInv, Tasks
<1> QED
  BY <1>3, <1>5, <1>8, <1>9, <1>10 DEF Base

LEMMA BaseVerifyPad == Base /\ VerifyPad => Base'
<1> SUFFICES ASSUME Base, VerifyPad PROVE Base'
  OBVIOUS
<1>1. PICK t \in Transfers(cur, handle[cur], 5) :
          /\ Charge(t.bad)
          /\ \/ handle' = [handle EXCEPT ![cur].res = Resolution] /\ NextHandle
             \/ pc' = "refresh" /\ UNCHANGED <<handle, todo>>
  BY DEF VerifyPad
<1>2. pc = "verify" /\ UNCHANGED <<present, cfg, temp, busy, parasitic, job, reading>>
  BY DEF VerifyPad, world
<1>3. hits' \in 0 .. MaxFaults
  BY <1>1, TransferType, ChargeType DEF Base
<1>4. CASE handle' = [handle EXCEPT ![cur].res = Resolution] /\ NextHandle
  BY <1>2, <1>3, <1>4, BaseAgreed, WrittenIs DEF Resolutions
<1>5. CASE pc' = "refresh" /\ UNCHANGED <<handle, todo>>
  <2>1. TypeOK'
    BY <1>2, <1>3, <1>5 DEF Base, TypeOK
  <2>2. Flow'
    BY <1>2, <1>5 DEF Base, Flow, Setup, Tasks
  <2>3. cur' = cur /\ Handled' = Handled
    BY <1>5 DEF cur, Handled
  <2>4. HandlesInv'
    BY <1>2, <1>5, <2>3 DEF Base, HandlesInv, Tasks
  <2> QED
    BY <2>1, <2>2, <2>4 DEF Base
<1> QED
  BY <1>1, <1>4, <1>5

LEMMA BaseRefreshHandle == Base /\ RefreshHandle => Base'
<1> SUFFICES ASSUME Base, RefreshHandle PROVE Base'
  OBVIOUS
<1>1. PICK t \in Transfers(cur, handle[cur], 5) :
          Charge(t.bad) /\ handle' = [handle EXCEPT ![cur].res = Configured(t.buf)]
  BY DEF RefreshHandle
<1>2. pc = "refresh" /\ NextHandle /\ UNCHANGED <<present, cfg, temp, busy, parasitic, job, reading>>
  BY DEF RefreshHandle, world
<1>3. hits' \in 0 .. MaxFaults /\ Configured(t.buf) \in Resolutions
  BY <1>1, TransferType, ChargeType, ConfiguredType DEF Base
<1> QED
  BY <1>1, <1>2, <1>3, BaseAgreed

LEMMA BaseCheckPower == Base /\ CheckPower => Base'
<1> SUFFICES ASSUME Base, CheckPower PROVE Base'
  OBVIOUS
<1>1. PICK wrong \in BOOLEAN : (wrong => hits < MaxFaults) /\ Charge(wrong) /\ parasitic' = wrong
  BY DEF CheckPower
<1>2. job' = "none" /\ pc' = "idle" /\ todo' = {} /\ UNCHANGED <<present, cfg, temp, busy, handle, reading>>
  BY DEF CheckPower, Finish, world
<1>3. hits' \in 0 .. MaxFaults
  BY <1>1, ChargeType DEF Base
<1>4. parasitic' \in BOOLEAN
  BY <1>1, Zenon
<1>5. TypeOK'
  BY <1>2, <1>3, <1>4 DEF Base, TypeOK
<1>6. Flow'
  BY <1>2 DEF Flow, Setup, Tasks
<1>7. HandlesInv'
  BY <1>2 DEF Base, HandlesInv, Tasks, Handled
<1> QED
  BY <1>5, <1>6, <1>7 DEF Base

\* The job goes on without a change of handles, or ends.
LEMMA BaseGoesOn ==
  ASSUME Base, pc \in Tasks, hits' \in 0 .. MaxFaults, UNCHANGED <<present, cfg, handle, parasitic>>,
         temp' \in [Sensor -> Values], busy' \in [Sensor -> 0 .. Units(12)],
         reading' \in [Sensor -> Values \cup {"none", "error", "zero", "other"}],
         \A s \in todo' : reading'[s] = "none",
         \/ job' = "none" /\ pc' = "idle" /\ todo' = {}
         \/ /\ job' = job /\ todo' # {}
            /\ \/ todo' = todo /\ (pc' = "wait" => pc \in {"convert", "wait"}) /\ pc' \in {"wait", "read"}
               \/ todo' \subseteq todo /\ pc' = "read"
  PROVE  Base'
<1>1. Handled' = Handled
  BY DEF Handled
<1>2. TypeOK'
  BY DEF Base, TypeOK, Tasks
<1>3. Flow'
  BY DEF Base, Flow, Setup, Tasks
<1>4. HandlesInv'
  BY <1>1 DEF Base, HandlesInv, Tasks
<1> QED
  BY <1>2, <1>3, <1>4 DEF Base

LEMMA ConvertingType ==
  ASSUME TypeOK, NEW reach, Converting(reach)
  PROVE  temp' \in [Sensor -> Values] /\ busy' \in [Sensor -> 0 .. Units(12)]
<1>1. \A s \in Sensor : Units(cfg[s]) \in 0 .. Units(12) /\ 0 \in 0 .. Units(12)
  BY UnitsType DEF TypeOK
<1>2. busy' \in [Sensor -> 0 .. Units(12)]
  BY <1>1 DEF Converting
<1>3. temp' \in [Sensor -> Values]
  BY DEF Converting, TypeOK, Values
<1> QED
  BY <1>2, <1>3

LEMMA BaseConvert == Base /\ Convert => Base'
<1> SUFFICES ASSUME Base, Convert PROVE Base'
  OBVIOUS
<1>1. PICK reach : Converting(reach)
  BY DEF Convert
<1>2. temp' \in [Sensor -> Values] /\ busy' \in [Sensor -> 0 .. Units(12)]
  BY <1>1, ConvertingType DEF Base
<1>3. hits' \in 0 .. MaxFaults
  BY Ds18b20Assumption DEF Convert, Base, TypeOK
<1>4. \/ job' = "none" /\ pc' = "idle" /\ todo' = {}
      \/ pc' = "wait" /\ UNCHANGED <<job, todo>>
  BY DEF Convert, Finish
<1>5. pc = "convert" /\ UNCHANGED <<present, cfg, handle, parasitic, reading>>
  BY DEF Convert
<1>6. todo # {}
  BY <1>5 DEF Base, Flow
<1>7. pc \in Tasks
  BY <1>5 DEF Tasks
<1>8. reading' \in [Sensor -> Values \cup {"none", "error", "zero", "other"}] /\ \A s \in todo : reading'[s] = "none"
  BY <1>5 DEF Base, TypeOK, HandlesInv
<1>9. \A s \in todo' : reading'[s] = "none"
  BY <1>4, <1>8
<1> QED
  BY <1>2, <1>3, <1>4, <1>5, <1>6, <1>7, <1>8, <1>9, BaseGoesOn

\* How long a job may wait: not beyond its handle's time, and a job nobody disturbs long enough
\* for every sensor that is no slower than that handle.
Waits(spent) ==
    \/ spent = Patience(handle[cur])
    \/ spent = Min({Patience(handle[cur]), Max({busy[s] : s \in Sensor})})
    \/ spent = 0 /\ hits < MaxFaults

LEMMA WaitFacts ==
  ASSUME TypeOK, cur \in Handled, NEW spent, Waits(spent)
  PROVE  /\ spent \in Nat
         /\ \/ \A s \in Sensor : busy[s] <= Patience(handle[cur]) => busy[s] <= spent
            \/ spent = 0 /\ hits < MaxFaults
         /\ spent = 0 /\ (\E s \in Sensor : busy[s] > 0) => hits < MaxFaults
<1> DEFINE p == Patience(handle[cur])
           all == {busy[s] : s \in Sensor}
           m == Max(all)
<1>1. p \in 1 .. 8
  <2>1. handle[cur] \in Handle
    BY HandledFacts
  <2> QED
    BY <2>1, UnitsType, HandleFacts DEF Patience
<1>2. all \subseteq 0 .. 8 /\ all # {}
  BY UnitsType, SlotNumbers DEF TypeOK
<1>3. \A s \in Sensor : busy[s] \in all
  OBVIOUS
<1> HIDE DEF all
<1>4. m \in all /\ \A x \in all : x <= m
  BY <1>2, MaxIsGreatest
<1>5. \A s \in Sensor : busy[s] <= m
  BY <1>3, <1>4
<1>6. m \in 0 .. 8
  BY <1>2, <1>4
<1> HIDE DEF p, m
<1>7. Min({p, m}) \in {p, m} /\ Min({p, m}) \in Nat
  <2>1. {p, m} \subseteq Nat /\ {p, m} # {}
    BY <1>1, <1>6
  <2> QED
    BY <2>1, MinIsLeast
<1>8. spent = p \/ spent = Min({p, m}) \/ (spent = 0 /\ hits < MaxFaults)
  BY DEF Waits, p, m, all
<1>9. spent = p \/ spent = m \/ (spent = 0 /\ hits < MaxFaults)
  BY <1>7, <1>8
<1>10. spent \in Nat
  BY <1>1, <1>6, <1>9
<1>11. CASE spent = p
  BY <1>1, <1>10, <1>11 DEF p
<1>12. CASE spent = m
  <2>1. \A s \in Sensor : busy[s] <= spent
    BY <1>5, <1>12
  <2>2. \A s \in Sensor : busy[s] \in Int
    BY UnitsType DEF TypeOK
  <2> QED
    BY <1>10, <2>1, <2>2
<1> QED
  BY <1>9, <1>10, <1>11, <1>12

LEMMA WaitSteps ==
  ASSUME Wait
  PROVE  \E spent : /\ Waits(spent)
                    /\ busy' = [s \in Sensor |-> IF busy[s] <= spent THEN 0 ELSE busy[s] - spent]
                    /\ temp' = [s \in Sensor |-> IF busy[s] \in 1 .. spent THEN "new" ELSE temp[s]]
                    /\ Charge(spent = 0 /\ \E s \in Sensor : busy[s] > 0)
<1>1. PICK spent \in {IF parasitic THEN Patience(handle[cur])
                      ELSE Min({Patience(handle[cur]), Max({busy[s] : s \in Sensor})})}
                      \cup (IF hits < MaxFaults /\ ~parasitic THEN {0} ELSE {}) :
          /\ busy' = [s \in Sensor |-> IF busy[s] <= spent THEN 0 ELSE busy[s] - spent]
          /\ temp' = [s \in Sensor |-> IF busy[s] \in 1 .. spent THEN "new" ELSE temp[s]]
          /\ Charge(spent = 0 /\ \E s \in Sensor : busy[s] > 0)
  BY DEF Wait
<1>2. Waits(spent)
  BY DEF Waits
<1> QED
  BY <1>1, <1>2

LEMMA BaseWait == Base /\ Wait => Base'
<1> SUFFICES ASSUME Base, Wait PROVE Base'
  OBVIOUS
<1>1. PICK spent : /\ Waits(spent)
                   /\ busy' = [s \in Sensor |-> IF busy[s] <= spent THEN 0 ELSE busy[s] - spent]
                   /\ temp' = [s \in Sensor |-> IF busy[s] \in 1 .. spent THEN "new" ELSE temp[s]]
                   /\ Charge(spent = 0 /\ \E s \in Sensor : busy[s] > 0)
  BY WaitSteps
<1>2. pc = "wait" /\ pc' = "read" /\ UNCHANGED <<present, cfg, handle, parasitic, job, todo, reading>>
  BY DEF Wait
<1>3. todo # {} /\ pc \in Tasks /\ todo \subseteq Handled
  BY <1>2 DEF Base, Flow, HandlesInv, Tasks
<1>4. cur \in Handled
  BY <1>3, SlotAtHand DEF Base
<1>5. /\ spent \in Nat
      /\ \/ \A s \in Sensor : busy[s] <= Patience(handle[cur]) => busy[s] <= spent
         \/ spent = 0 /\ hits < MaxFaults
  BY <1>1, <1>4, WaitFacts DEF Base
<1>6. busy' \in [Sensor -> 0 .. Units(12)] /\ temp' \in [Sensor -> Values]
  <2>1. \A s \in Sensor : busy[s] \in 0 .. 8
    BY UnitsType DEF Base, TypeOK
  <2>2. busy' \in [Sensor -> 0 .. 8]
    BY <1>1, <1>5, <2>1
  <2>3. temp' \in [Sensor -> Values]
    BY <1>1 DEF Base, TypeOK, Values
  <2> QED
    BY <2>2, <2>3, UnitsType
<1>7. hits' \in 0 .. MaxFaults
  <2> DEFINE bad == spent = 0 /\ \E s \in Sensor : busy[s] > 0
  <2>1. bad => hits < MaxFaults
    BY <1>1, <1>4, WaitFacts DEF Base
  <2> QED
    BY <1>1, <2>1, ChargeType DEF Base
<1>8. reading' \in [Sensor -> Values \cup {"none", "error", "zero", "other"}] /\ \A s \in todo : reading'[s] = "none"
  BY <1>2 DEF Base, TypeOK, HandlesInv
<1> QED
  BY <1>2, <1>3, <1>6, <1>7, <1>8, BaseGoesOn

LEMMA ReadingType ==
  ASSUME NEW s, NEW buf, NEW err
  PROVE  Reading(s, buf, err) \in {"error", "zero", "old", "poweron", "new", "other"}
<1> DEFINE d == Decoded(buf, handle[s].res) \div 16
           r == IF err # "ok" \/ Refused(buf) THEN "error"
                ELSE CASE d = 0 -> "zero"
                       [] d = 20 -> "old"
                       [] d = 85 -> IF buf[7] = 12 THEN "poweron" ELSE "new"
                       [] OTHER -> "other"
<1>1. Reading(s, buf, err) = r
  BY DEF Reading
<1> HIDE DEF d
<1>2. r \in {"error", "zero", "old", "poweron", "new", "other"}
  OBVIOUS
<1> QED
  BY <1>1, <1>2

LEMMA ReadSteps ==
  ASSUME ReadTemp
  PROVE  \E t \in Transfers(cur, handle[cur], 2) :
            /\ reading' = [reading EXCEPT ![cur] = Reading(cur, t.buf, t.err)]
            /\ \/ /\ job' = "none" /\ pc' = "idle" /\ todo' = {}
                  /\ temp' = [s \in Sensor |-> IF busy[s] > 0 THEN "old" ELSE temp[s]]
                  /\ busy' = [s \in Sensor |-> 0]
               \/ /\ todo' = todo \ {cur} /\ todo # {cur} /\ UNCHANGED <<pc, job, temp, busy>>
            /\ Charge(t.bad)
BY DEF ReadTemp, Finish

LEMMA BaseReadTemp == Base /\ ReadTemp => Base'
<1> SUFFICES ASSUME Base, ReadTemp PROVE Base'
  OBVIOUS
<1>1. PICK t \in Transfers(cur, handle[cur], 2) :
            /\ reading' = [reading EXCEPT ![cur] = Reading(cur, t.buf, t.err)]
            /\ \/ /\ job' = "none" /\ pc' = "idle" /\ todo' = {}
                  /\ temp' = [s \in Sensor |-> IF busy[s] > 0 THEN "old" ELSE temp[s]]
                  /\ busy' = [s \in Sensor |-> 0]
               \/ /\ todo' = todo \ {cur} /\ todo # {cur} /\ UNCHANGED <<pc, job, temp, busy>>
            /\ Charge(t.bad)
  BY ReadSteps
<1>2. pc = "read" /\ UNCHANGED <<present, cfg, handle, parasitic>>
  BY DEF ReadTemp
<1>3. todo # {} /\ pc \in Tasks
  BY <1>2 DEF Base, Flow, Tasks
<1>4. hits' \in 0 .. MaxFaults
  BY <1>1, TransferType, ChargeType DEF Base
<1>5. cur \in Sensor
  BY <1>3, SlotAtHand DEF Base
<1>6. reading' \in [Sensor -> Values \cup {"none", "error", "zero", "other"}]
  <2>1. Reading(cur, t.buf, t.err) \in Values \cup {"none", "error", "zero", "other"}
    BY ReadingType DEF Values
  <2> DEFINE r == Reading(cur, t.buf, t.err)
  <2>2. reading' = [reading EXCEPT ![cur] = r]
    BY <1>1
  <2> HIDE DEF r
  <2> QED
    BY <1>5, <2>1, <2>2 DEF Base, TypeOK, r
<1>7. temp' \in [Sensor -> Values] /\ busy' \in [Sensor -> 0 .. Units(12)]
  <2>1. 0 \in 0 .. Units(12)
    BY UnitsType
  <2>2. [s \in Sensor |-> IF busy[s] > 0 THEN "old" ELSE temp[s]] \in [Sensor -> Values]
    BY DEF Base, TypeOK, Values
  <2> QED
    BY <1>1, <2>1, <2>2 DEF Base, TypeOK
<1>8. \A s \in todo' : reading'[s] = "none"
  <2>1. todo' \subseteq todo \ {cur}
    BY <1>1
  <2>2. \A s \in Sensor \ {cur} : reading'[s] = reading[s]
    BY <1>1 DEF Base, TypeOK
  <2> QED
    BY <2>1, <2>2 DEF Base, TypeOK, HandlesInv
<1>9. \/ job' = "none" /\ pc' = "idle" /\ todo' = {}
      \/ job' = job /\ todo' # {} /\ todo' \subseteq todo /\ pc' = "read"
  <2>1. todo # {cur} => todo \ {cur} # {}
    BY <1>3, NextOrDone DEF Base
  <2> QED
    BY <1>1, <1>2, <2>1
<1> QED
  BY <1>2, <1>3, <1>4, <1>6, <1>7, <1>8, <1>9, BaseGoesOn

LEMMA ScanStarts ==
  ASSUME Base, Scan
  PROVE  /\ Start(job', "init", present) /\ present # {} /\ job' \in {"scan", "solo"} /\ Base'
         /\ job' = "solo" => Cardinality(present) = 1
<1>1. /\ present # {} /\ job' = (IF Cardinality(present) = 1 THEN "solo" ELSE "scan")
      /\ Start(job', "init", present)
  BY DEF Scan, Start
<1>2. Base'
  <2>1. present \in SUBSET Sensor
    BY DEF Base, TypeOK
  <2>2. PICK kind : kind = job'
    OBVIOUS
  <2> QED
    BY <1>1, <2>1, <2>2, BaseStart
<1> QED
  BY <1>1, <1>2

LEMMA BaseNext == Base /\ [Next]_vars => Base'
<1> SUFFICES ASSUME Base, [Next]_vars PROVE Base'
  OBVIOUS
<1>1. CASE \E s \in Sensor : Plug(s) \/ Unplug(s)
  BY <1>1, BasePlug
<1>2. CASE Scan
  BY <1>2, ScanStarts
<1>3. CASE Cycle
  <2>1. Handled \in SUBSET Sensor
    BY DEF Handled
  <2> QED
    BY <1>3, <2>1, BaseStart DEF Cycle
<1>4. CASE \E s \in Sensor : Http(s)
  <2>1. PICK s \in Sensor : s \in Handled /\ Start("http", "convert", {s})
    BY <1>4 DEF Http
  <2>2. {s} \in SUBSET Sensor /\ {s} # {} /\ {s} \subseteq Handled
    BY <2>1
  <2> QED
    BY <2>1, <2>2, BaseStart
<1>5. CASE UNCHANGED vars
  <2>1. TypeOK'
    BY <1>5 DEF vars, world, Base, TypeOK
  <2>2. Flow'
    BY <1>5 DEF vars, world, Base, Flow
  <2>3. HandlesInv'
    BY <1>5 DEF vars, world, Base, HandlesInv, cur, Handled
  <2> QED
    BY <2>1, <2>2, <2>3 DEF Base
<1> QED
  BY <1>1, <1>2, <1>3, <1>4, <1>5, BaseInitHandle, BaseGetPad, BaseWritePad, BaseVerifyPad,
     BaseRefreshHandle, BaseCheckPower, BaseConvert, BaseWait, BaseReadTemp DEF Next

LEMMA Based == Spec => []Base
BY BaseInit, BaseNext, PTL DEF Spec

\* Handles, sensors and jobs keep their types through every disturbance (ds18b20.c, sensor.c): no
\* configuration byte, not even one of zeros or ones, gives a handle a resolution that is none.
THEOREM DriverTypeCorrect == Spec => []TypeOK
BY Based, PTL DEF Base

-----------------------------------------------------------------------------
(* What is read was measured.                                               *)

\* Cutting bits off takes none of the measurements for another.
LEMMA PowerIs == Power[1] = 1 /\ Power[2] = 2 /\ Power[3] = 4 /\ Power[4] = 8
BY DEF Power

LEMMA DecodedIs ==
  ASSUME NEW res \in 9 .. 12, NEW buf
  PROVE  /\ buf[1] = 80 /\ buf[2] = 5 => Decoded(buf, res) \div 16 = 85
         /\ buf[1] = 71 /\ buf[2] = 1 => Decoded(buf, res) \div 16 = 20
         /\ buf[1] = 0 /\ buf[2] = 0 => Decoded(buf, res) \div 16 = 0
<1>1. CASE res = 9
  BY <1>1, PowerIs DEF Decoded
<1>2. CASE res = 10
  BY <1>2, PowerIs DEF Decoded
<1>3. CASE res = 11
  BY <1>3, PowerIs DEF Decoded
<1>4. CASE res = 12
  BY <1>4, PowerIs DEF Decoded
<1> QED
  BY <1>1, <1>2, <1>3, <1>4

LEMMA FrameReading ==
  ASSUME NEW s, handle[s].res \in 9 .. 12, NEW v \in Values, NEW c \in Resolutions
  PROVE  Reading(s, Frame[v][c], "ok") = (IF v = "poweron" THEN "error" ELSE v)
<1> DEFINE f == Frame[v][c]
<1>1. f[1] = Measured(v)[1] /\ f[2] = Measured(v)[2] /\ f[7] = Measured(v)[3]
  BY FrameBytes
<1> HIDE DEF f
<1>2. CASE v = "poweron"
  <2>1. f[1] = 80 /\ f[2] = 5 /\ f[7] = 12
    BY <1>1, <1>2 DEF Measured
  <2> QED
    BY <1>2, <2>1 DEF Reading, Refused, f
<1>3. CASE v = "old"
  <2>1. f[1] = 71 /\ f[2] = 1 /\ f[7] = 9
    BY <1>1, <1>3 DEF Measured
  <2>2. Decoded(f, handle[s].res) \div 16 = 20
    BY <2>1, DecodedIs
  <2>3. ~Refused(f)
    BY <2>1 DEF Refused
  <2> QED
    BY <1>3, <2>2, <2>3 DEF Reading, f
<1>4. CASE v = "new"
  <2>1. f[1] = 80 /\ f[2] = 5 /\ f[7] = 16
    BY <1>1, <1>4 DEF Measured
  <2>2. Decoded(f, handle[s].res) \div 16 = 85
    BY <2>1, DecodedIs
  <2>3. ~Refused(f)
    BY <2>1 DEF Refused
  <2> QED
    BY <1>4, <2>1, <2>2, <2>3 DEF Reading, f
<1> QED
  BY <1>2, <1>3, <1>4 DEF Values

LEMMA ZerosReading ==
  ASSUME NEW s, handle[s].res \in 9 .. 12
  PROVE  Reading(s, Zeros, "ok") = "zero"
<1>1. Zeros[1] = 0 /\ Zeros[2] = 0 /\ Zeros[7] = 0
  BY DEF Zeros
<1>2. Decoded(Zeros, handle[s].res) \div 16 = 0
  BY <1>1, DecodedIs
<1>3. ~Refused(Zeros)
  BY <1>1 DEF Refused
<1> QED
  BY <1>2, <1>3 DEF Reading

LEMMA AtRead ==
  ASSUME Base, pc = "read"
  PROVE  /\ todo # {} /\ job \in {"cycle", "http"} /\ cur \in todo /\ cur \in Sensor /\ cur \in Handled
         /\ handle[cur] \in Handle /\ handle[cur].crc /\ handle[cur].res \in 9 .. 12
         /\ reading[cur] = "none"
<1>1. todo # {} /\ job \in {"cycle", "http"} /\ todo \subseteq Handled
  BY DEF Base, Flow, HandlesInv, Tasks
<1>2. cur \in todo /\ cur \in Sensor
  BY <1>1, SlotAtHand DEF Base
<1>3. cur \in Handled /\ handle[cur] \in Handle /\ handle[cur].crc
  BY <1>1, <1>2, HandledFacts DEF Base, HandlesInv
<1>4. reading[cur] = "none"
  BY <1>2 DEF Base, HandlesInv
<1> QED
  BY <1>1, <1>2, <1>3, <1>4, HandleFacts

\* Only ReadTemp reads.
LEMMA OthersAtRead ==
  ASSUME Base, pc = "read", [Next]_vars
  PROVE  \/ ReadTemp
         \/ (\E s \in Sensor : Plug(s) \/ Unplug(s)) /\ reading' = reading /\ hits' = hits + 1
         \/ UNCHANGED vars
<1>1. job # "none"
  BY AtRead
<1>2. ASSUME NEW s \in Sensor, Plug(s) \/ Unplug(s)
      PROVE  reading' = reading /\ hits' = hits + 1
  BY <1>1, <1>2 DEF Plug, Unplug, Charge
<1>3. ~Scan /\ ~Cycle /\ \A s \in Sensor : ~Http(s)
  BY <1>1 DEF Scan, Cycle, Http, Start
<1>4. ~InitHandle /\ ~GetPad /\ ~WritePad /\ ~VerifyPad /\ ~RefreshHandle /\ ~CheckPower /\ ~Convert /\ ~Wait
  BY DEF InitHandle, GetPad, WritePad, VerifyPad, RefreshHandle, CheckPower, Convert, Wait
<1> QED
  BY <1>2, <1>3, <1>4 DEF Next

LEMMA MeasuredStep ==
  Base /\ [Next]_vars =>
     [pc = "read" /\ Cardinality(Reached(cur, handle[cur])) < 2 =>
           reading'[cur] \notin {"poweron", "other"}]_vars
<1> SUFFICES ASSUME Base, [Next]_vars, pc = "read", Cardinality(Reached(cur, handle[cur])) < 2
             PROVE  reading'[cur] \notin {"poweron", "other"}
  OBVIOUS
<1>1. CASE reading' = reading
  BY <1>1, AtRead
<1>2. CASE ReadTemp
  <2>1. PICK t \in Transfers(cur, handle[cur], 2) : reading' = [reading EXCEPT ![cur] = Reading(cur, t.buf, t.err)]
    BY <1>2, ReadSteps
  <2>2. reading'[cur] = Reading(cur, t.buf, t.err)
    BY <2>1, AtRead DEF Base, TypeOK
  <2>3. CASE t.err # "ok"
    BY <2>2, <2>3 DEF Reading
  <2>4. CASE t.err = "ok"
    <3>1. Reached(cur, handle[cur]) \in SUBSET Sensor
      BY DEF Reached, Base, TypeOK
    <3>2. Reached(cur, handle[cur]) = {} \/ \E r \in Sensor : Reached(cur, handle[cur]) = {r}
      BY <3>1, FewSensors
    <3>3. t.buf = Zeros \/ \E v \in Values, c \in Resolutions : t.buf = Frame[v][c]
      BY <2>4, <3>2, AtRead, PassedOrTold DEF Base
    <3>4. CASE t.buf = Zeros
      BY <2>2, <2>4, <3>4, AtRead, ZerosReading
    <3>5. ASSUME NEW v \in Values, NEW c \in Resolutions, t.buf = Frame[v][c]
          PROVE  reading'[cur] \notin {"poweron", "other"}
      <4>1. reading'[cur] = (IF v = "poweron" THEN "error" ELSE v)
        BY <2>2, <2>4, <3>5, AtRead, FrameReading
      <4> QED
        BY <4>1 DEF Values
    <3> QED
      BY <3>3, <3>4, <3>5
  <2> QED
    BY <2>3, <2>4
<1>3. CASE UNCHANGED vars
  BY <1>1, <1>3 DEF vars
<1> QED
  BY <1>1, <1>2, <1>3, OthersAtRead

\* No reading of a sensor that answers alone is a value it did not measure, whatever becomes of the
\* transfer (_read_scratchpad, ds18b20_read_temp).
THEOREM ReadingsAreMeasured == Spec => ReadingsMeasured
BY Based, MeasuredStep, PTL DEF Spec, ReadingsMeasured

-----------------------------------------------------------------------------
(* An undisturbed scan leaves handles and sensors at one resolution.        *)

LEMMA ScanInvStarts ==
  ASSUME Base, Scan
  PROVE  ScanInv'
<1>1. Start(job', "init", present) /\ present # {} /\ (job' = "solo" => Cardinality(present) = 1)
  BY ScanStarts
<1>2. pc' = "init" /\ todo' = present /\ UNCHANGED <<present, cfg>>
  BY <1>1 DEF Start, world
<1>3. job' = "solo" => \E s \in Sensor : present = {s}
  <2>1. present \in SUBSET Sensor
    BY DEF Base, TypeOK
  <2> QED
    BY <1>1, <2>1, FewSensors
<1> QED
  BY <1>2, <1>3 DEF ScanInv, Agreed

\* A sensor that is set up in an undisturbed scan answers alone.
LEMMA AloneInScan ==
  ASSUME Base, ScanInv, job \in {"scan", "solo"}, hits = 0, pc \in {"get", "write", "verify", "refresh"}
  PROVE  /\ todo # {} /\ cur \in todo /\ cur \in Sensor /\ cur \in present
         /\ handle[cur].crc /\ Reached(cur, handle[cur]) = {cur}
<1>1. todo # {} /\ cur \in Handled /\ handle[cur].crc /\ (handle[cur].solo <=> job = "solo")
  BY DEF Base, Flow, HandlesInv
<1>2. cur \in todo /\ cur \in Sensor /\ cur \in present
  BY <1>1, SlotAtHand DEF Base, ScanInv
<1>3. CASE job = "solo"
  <2>1. PICK s \in Sensor : present = {s}
    BY <1>3 DEF ScanInv
  <2> QED
    BY <1>1, <1>2, <1>3, <2>1 DEF Reached
<1>4. CASE job = "scan"
  BY <1>1, <1>2, <1>4 DEF Reached
<1> QED
  BY <1>1, <1>2, <1>3, <1>4

LEMMA ScanInvInitHandle ==
  ASSUME Base, ScanInv, InitHandle
  PROVE  ScanInv'
<1> SUFFICES ASSUME hits' = 0 PROVE ScanInv'
  BY DEF ScanInv
<1> DEFINE fresh == [res |-> 9, solo |-> job = "solo", crc |-> FALSE]
<1>1. PICK t \in Transfers(cur, fresh, 5) : Charge(t.bad)
  BY DEF InitHandle
<1>2. hits = 0
  BY <1>1, TransferType, ChargeType DEF Base
<1>3. pc = "init" /\ pc' = "get" /\ UNCHANGED <<present, cfg, job, todo>>
  BY DEF InitHandle, world
<1>4. cur \in todo
  BY <1>3, SlotAtHand DEF Base, Flow
<1>5. \A s \in Sensor \ {cur} : handle'[s] = handle[s]
  <2>1. PICK h : handle' = [handle EXCEPT ![cur] = h]
    BY DEF InitHandle
  <2> QED
    BY <2>1 DEF Base, TypeOK
<1>6. present \subseteq Sensor
  BY DEF Base, TypeOK
<1> QED
  BY <1>2, <1>3, <1>4, <1>5, <1>6 DEF ScanInv, Agreed

LEMMA ScanInvGetPad ==
  ASSUME Base, ScanInv, GetPad
  PROVE  ScanInv'
<1> SUFFICES ASSUME hits' = 0 PROVE ScanInv'
  BY DEF ScanInv
<1>1. PICK t \in Transfers(cur, handle[cur], 5) : Charge(t.bad)
  BY DEF GetPad
<1>2. hits = 0
  BY <1>1, TransferType, ChargeType DEF Base
<1>3. pc' = "write" /\ UNCHANGED <<present, cfg, handle, job, todo>>
  BY DEF GetPad, world
<1> QED
  BY <1>2, <1>3 DEF ScanInv, Agreed

LEMMA ScanInvWritePad ==
  ASSUME Base, ScanInv, WritePad
  PROVE  ScanInv'
<1> SUFFICES ASSUME hits' = 0, job' \in {"scan", "solo"} PROVE ScanInv'
  BY DEF ScanInv
<1>1. hits \in Nat
  BY DEF Base, TypeOK
<1>2. /\ pc = "write" /\ hits = 0
      /\ cfg' = [s \in Sensor |-> IF s \in Reached(cur, handle[cur]) THEN Written ELSE cfg[s]]
      /\ pc' = IF present = {} THEN "refresh" ELSE "verify"
  BY <1>1 DEF WritePad
<1>3. UNCHANGED <<present, handle, job, todo>> /\ cur' = cur
  BY DEF WritePad, cur
<1>4. cur \in Sensor /\ cur \in present /\ Reached(cur, handle[cur]) = {cur}
  BY <1>2, <1>3, AloneInScan
<1>5. cfg'[cur] = Resolution /\ \A s \in Sensor : cfg[s] = Resolution => cfg'[s] = Resolution
  BY <1>2, <1>4, WrittenIs
<1>6. present \subseteq Sensor
  BY DEF Base, TypeOK
<1> QED
  BY <1>2, <1>3, <1>4, <1>5, <1>6 DEF ScanInv, Agreed

LEMMA ScanInvVerifyPad ==
  ASSUME Base, ScanInv, VerifyPad
  PROVE  ScanInv'
<1> SUFFICES ASSUME hits' = 0, job' \in {"scan", "solo"} PROVE ScanInv'
  BY DEF ScanInv
<1>1. PICK t \in Transfers(cur, handle[cur], 5) :
          /\ Charge(t.bad)
          /\ IF t.err = "ok" /\ \A i \in 3 .. 5 : t.buf[i] = Frame["old"][Written][i]
             THEN handle' = [handle EXCEPT ![cur].res = Resolution] /\ NextHandle
             ELSE pc' = "refresh" /\ UNCHANGED <<handle, todo>>
  BY DEF VerifyPad
<1>2. hits = 0 /\ ~t.bad
  BY <1>1, TransferType, ChargeType DEF Base
<1>3. pc = "verify" /\ UNCHANGED <<present, cfg, temp, busy, parasitic, job, reading>>
  BY DEF VerifyPad, world
<1>4. /\ todo # {} /\ cur \in todo /\ cur \in Sensor /\ cur \in present
      /\ handle[cur].crc /\ Reached(cur, handle[cur]) = {cur}
  BY <1>2, <1>3, AloneInScan
<1>5. t.buf = Frame[temp[cur]][cfg[cur]] /\ t.err = "ok"
  BY <1>2, <1>4, AloneClean DEF Base
<1>6. cfg[cur] = 12 /\ temp[cur] \in Values
  BY <1>2, <1>3, <1>4, WrittenIs DEF ScanInv, Base, TypeOK
<1>7. \A i \in 3 .. 5 : t.buf[i] = Frame["old"][Written][i]
  <2>1. 12 \in Resolutions /\ "old" \in Values
    BY DEF Resolutions, Values
  <2> DEFINE f == Frame[temp[cur]][12]  g == Frame["old"][12]
  <2>2. f[3] = 75 /\ f[4] = 70 /\ f[5] = (12 - 9) * 32 + 31
    BY <1>6, <2>1, FrameBytes
  <2>3. g[3] = 75 /\ g[4] = 70 /\ g[5] = (12 - 9) * 32 + 31
    BY <2>1, FrameBytes
  <2> HIDE DEF f, g
  <2>4. \A i \in 3 .. 5 : f[i] = g[i]
    <3>1. \A i \in 3 .. 5 : i = 3 \/ i = 4 \/ i = 5
      OBVIOUS
    <3> QED
      BY <2>2, <2>3, <3>1
  <2> QED
    BY <1>5, <1>6, <2>4, WrittenIs DEF f, g
<1>8. handle' = [handle EXCEPT ![cur].res = Resolution] /\ NextHandle
  BY <1>1, <1>5, <1>7
<1>9. hits' \in 0 .. MaxFaults /\ Resolution \in Resolutions
  BY Ds18b20Assumption, WrittenIs DEF Resolutions
<1>10. handle'[cur].res = Resolution /\ \A s \in Sensor \ {cur} : handle'[s] = handle[s]
  BY <1>3, <1>8, <1>9, BaseAgreed
<1>11. todo' = todo \ {cur} /\ pc' \in {"power", "init"}
  BY <1>8 DEF NextHandle
<1>12. present \subseteq Sensor
  BY DEF Base, TypeOK
<1>13. \A s \in present \ todo' : handle'[s].res = Resolution /\ cfg'[s] = Resolution
  <2>1. cfg[cur] = Resolution
    BY <1>6, WrittenIs
  <2>2. ASSUME NEW s \in present \ todo'
        PROVE  handle'[s].res = Resolution /\ cfg'[s] = Resolution
    <3>1. CASE s = cur
      BY <1>3, <1>10, <2>1, <3>1
    <3>2. CASE s # cur
      <4>1. Agreed(s)
        BY <1>2, <1>3, <1>11, <2>2, <3>2 DEF ScanInv
      <4> QED
        BY <1>3, <1>10, <1>12, <2>2, <3>2, <4>1 DEF Agreed
    <3> QED
      BY <3>1, <3>2
  <2> QED
    BY <2>2
<1> QED
  BY <1>2, <1>3, <1>11, <1>13 DEF ScanInv, Agreed

LEMMA ScanInvInit == Init => ScanInv
BY DEF Init, ScanInv

LEMMA ScanInvNext == Base /\ ScanInv /\ [Next]_vars => ScanInv'
<1> SUFFICES ASSUME Base, ScanInv, [Next]_vars, hits' = 0, job' \in {"scan", "solo"} PROVE ScanInv'
  BY DEF ScanInv
<1>1. ASSUME NEW s \in Sensor, Plug(s) \/ Unplug(s)
      PROVE  FALSE
  <2>1. job # "none" /\ hits' = hits + 1
    BY <1>1 DEF Plug, Unplug, Charge
  <2> QED
    BY <2>1 DEF Base, TypeOK
<1>2. CASE RefreshHandle
  <2>1. PICK t \in Transfers(cur, handle[cur], 5) : Charge(t.bad)
    BY <1>2 DEF RefreshHandle
  <2>2. hits = 0
    BY <2>1, TransferType, ChargeType DEF Base
  <2> QED
    BY <1>2, <2>2 DEF RefreshHandle, ScanInv
<1>3. ~CheckPower /\ ~Cycle /\ \A s \in Sensor : ~Http(s)
  BY DEF CheckPower, Finish, Cycle, Http, Start
<1>4. ~Convert /\ ~Wait /\ ~ReadTemp
  <2>1. Convert \/ Wait \/ ReadTemp => pc \in Tasks /\ (job' = job \/ job' = "none")
    BY DEF Convert, Wait, ReadTemp, Finish, Tasks
  <2>2. pc \in Tasks => job \notin {"scan", "solo"}
    BY DEF Base, Flow
  <2> QED
    BY <2>1, <2>2
<1>5. CASE UNCHANGED vars
  BY <1>5 DEF vars, world, ScanInv, Agreed, cur
<1> QED
  BY <1>1, <1>2, <1>3, <1>4, <1>5, ScanInvStarts, ScanInvInitHandle, ScanInvGetPad, ScanInvWritePad,
     ScanInvVerifyPad DEF Next

-----------------------------------------------------------------------------
(* An undisturbed job reads what it has just measured.                      *)

LEMMA OneSlotInit == Init => OneSlot
BY DEF Init, OneSlot

LEMMA OneSlotNext == Base /\ OneSlot /\ [Next]_vars => OneSlot'
<1> SUFFICES ASSUME Base, OneSlot, [Next]_vars, job' = "http" PROVE OneSlot'
  BY DEF OneSlot
<1>1. CASE \E s \in Sensor : Http(s)
  BY <1>1 DEF Http, Start, OneSlot
<1>2. CASE job = "http" /\ UNCHANGED todo
  BY <1>2 DEF OneSlot
<1>3. CASE job = "http" /\ ReadTemp
  <2>1. PICK s \in Sensor : todo = {s}
    BY <1>3 DEF OneSlot
  <2>2. cur = s
    BY <2>1, SlotAtHand DEF Base
  <2> QED
    BY <1>3, <2>1, <2>2 DEF ReadTemp, Finish
<1>4. ~Scan /\ ~Cycle /\ ~CheckPower
  BY DEF Scan, Cycle, Start, CheckPower, Finish
<1>5. pc \in Setup => job # "http"
  BY DEF Base, Flow
<1>6. ~InitHandle /\ ~GetPad /\ ~WritePad /\ ~VerifyPad /\ ~RefreshHandle
  BY <1>5 DEF InitHandle, GetPad, WritePad, VerifyPad, RefreshHandle, Setup
<1>7. Convert \/ Wait \/ UNCHANGED vars \/ (\E s \in Sensor : Plug(s) \/ Unplug(s)) => job = "http" /\ UNCHANGED todo
  BY DEF Convert, Finish, Wait, vars, world, Plug, Unplug
<1>8. ReadTemp => job = "http"
  BY DEF ReadTemp, Finish
<1> QED
  BY <1>1, <1>2, <1>3, <1>4, <1>6, <1>7, <1>8 DEF Next

\* Who comes to a wait or a reading in an undisturbed job.
LEMMA WhoMeasures ==
  ASSUME Base, [Next]_vars, pc' \in {"wait", "read"}, hits' = 0
  PROVE  /\ Convert \/ Wait \/ ReadTemp \/ UNCHANGED vars
         /\ hits = 0 /\ UNCHANGED <<present, cfg, handle, job>>
<1>1. ASSUME NEW s \in Sensor, Plug(s) \/ Unplug(s)
      PROVE  FALSE
  <2>1. UNCHANGED <<pc, job>>
    BY <1>1 DEF Plug, Unplug
  <2>2. job # "none"
    BY <2>1 DEF Base, Flow
  <2>3. hits' = hits + 1
    BY <1>1, <2>2 DEF Plug, Unplug, Charge
  <2> QED
    BY <2>3 DEF Base, TypeOK
<1>2. ~Scan /\ ~Cycle /\ ~CheckPower /\ \A s \in Sensor : ~Http(s)
  BY DEF Scan, Cycle, Http, Start, CheckPower, Finish
<1>3. ~InitHandle /\ ~GetPad /\ ~WritePad /\ ~VerifyPad /\ ~RefreshHandle
  BY DEF InitHandle, GetPad, WritePad, VerifyPad, RefreshHandle, NextHandle
<1>4. Convert \/ Wait \/ ReadTemp \/ UNCHANGED vars
  BY <1>1, <1>2, <1>3 DEF Next
<1>5. UNCHANGED <<present, cfg, handle, job>>
  BY <1>4 DEF Convert, Finish, Wait, ReadTemp, vars, world
<1>6. hits \in Nat
  BY DEF Base, TypeOK
<1>7. hits' = hits \/ hits' = hits + 1
  <2>1. \A bad : Charge(bad) => hits' = hits \/ hits' = hits + 1
    BY DEF Charge
  <2>2. CASE Convert
    BY <2>2 DEF Convert
  <2>3. CASE Wait
    BY <2>1, <2>3 DEF Wait
  <2>4. CASE ReadTemp
    BY <2>1, <2>4 DEF ReadTemp
  <2>5. CASE UNCHANGED vars
    BY <2>5 DEF vars
  <2> QED
    BY <1>4, <2>2, <2>3, <2>4, <2>5
<1> QED
  BY <1>4, <1>5, <1>6, <1>7

LEMMA ConcernedType == ASSUME TypeOK PROVE Concerned \subseteq present /\ Concerned \subseteq Sensor
BY DEF Concerned, Reached, TypeOK

LEMMA MeasureConvert ==
  ASSUME Base, Convert, pc' \in {"wait", "read"}, hits' = 0, hits = 0
  PROVE  MeasureInv'
<1>1. /\ Converting(Concerned) /\ pc' = "wait" /\ UNCHANGED <<job, todo>>
      /\ UNCHANGED <<present, cfg, handle>>
  BY DEF Convert, Finish, Concerned
<1>2. \A s \in Concerned : busy'[s] = Units(cfg[s])
  BY <1>1, ConcernedType DEF Base, Converting
<1>3. Concerned' = Concerned
  BY <1>1 DEF Concerned, Reached, cur
<1> QED
  BY <1>1, <1>2, <1>3 DEF MeasureInv

LEMMA MeasureWait ==
  ASSUME Base, MeasureInv, Wait, hits' = 0, hits = 0
  PROVE  MeasureInv'
<1>1. PICK spent : /\ Waits(spent)
                   /\ temp' = [s \in Sensor |-> IF busy[s] \in 1 .. spent THEN "new" ELSE temp[s]]
                   /\ Charge(spent = 0 /\ \E s \in Sensor : busy[s] > 0)
  BY WaitSteps
<1>2. pc = "wait" /\ pc' = "read" /\ UNCHANGED <<present, cfg, handle, job, todo>>
  BY DEF Wait
<1>3. todo # {} /\ todo \subseteq Handled /\ (job = "cycle" => todo = Handled)
  BY <1>2 DEF Base, Flow, HandlesInv, Tasks
<1>4. cur \in Handled /\ cur = Waiter
  BY <1>3, SlotAtHand DEF Base, Waiter, cur
<1>5. /\ spent \in Nat
      /\ \/ \A s \in Sensor : busy[s] <= Patience(handle[cur]) => busy[s] <= spent
         \/ spent = 0 /\ hits < MaxFaults
  BY <1>1, <1>4, WaitFacts DEF Base
<1>6. ~(spent = 0 /\ \E s \in Sensor : busy[s] > 0)
  BY <1>1 DEF Charge
<1>7. ASSUME Patient, NEW s \in Concerned
      PROVE  temp'[s] = "new"
  <2>1. s \in Sensor /\ s \in present /\ busy[s] = Units(cfg[s]) /\ cfg[s] \in Resolutions
    BY <1>2, ConcernedType DEF Base, MeasureInv, TypeOK
  <2>2. handle[cur].res \in Resolutions /\ cfg[s] <= handle[cur].res
    BY <1>4, <1>7, <2>1, HandledFacts, HandleFacts DEF Base, Patient, Resolutions
  <2>3. busy[s] <= Patience(handle[cur]) /\ busy[s] \in 1 .. 8
    BY <2>1, <2>2, UnitsType DEF Patience
  <2>4. busy[s] \in 1 .. spent
    BY <1>5, <1>6, <2>1, <2>3
  <2> QED
    BY <1>1, <2>1, <2>4
<1>8. Concerned' = Concerned /\ (Patient' <=> Patient)
  BY <1>2 DEF Concerned, Reached, cur, Patient, Waiter, Handled
<1> QED
  BY <1>2, <1>7, <1>8 DEF MeasureInv

LEMMA MeasureRead ==
  ASSUME Base, OneSlot, MeasureInv, ReadTemp, pc' \in {"wait", "read"}, hits = 0,
         UNCHANGED <<present, cfg, handle, job>>
  PROVE  MeasureInv'
<1>1. pc = "read" /\ todo # {cur} /\ UNCHANGED <<pc, temp>>
  BY ReadSteps DEF ReadTemp
<1>2. job = "cycle"
  <2>1. job \in {"cycle", "http"} /\ todo # {}
    BY <1>1, AtRead
  <2>2. ASSUME NEW s \in Sensor, todo = {s}
        PROVE  FALSE
    BY <1>1, <2>2, SlotAtHand DEF Base
  <2> QED
    BY <2>1, <2>2 DEF OneSlot
<1>3. Concerned' = Concerned /\ (Patient' <=> Patient)
  BY <1>2 DEF Concerned, Patient, Waiter, Handled
<1> QED
  BY <1>1, <1>3 DEF MeasureInv

LEMMA MeasureInit == Init => MeasureInv
BY DEF Init, MeasureInv

LEMMA MeasureNext == Base /\ OneSlot /\ MeasureInv /\ [Next]_vars => MeasureInv'
<1> SUFFICES ASSUME Base, OneSlot, MeasureInv, [Next]_vars, hits' = 0, pc' \in {"wait", "read"} PROVE MeasureInv'
  BY DEF MeasureInv
<1>1. /\ Convert \/ Wait \/ ReadTemp \/ UNCHANGED vars
      /\ hits = 0 /\ UNCHANGED <<present, cfg, handle, job>>
  BY WhoMeasures
<1>2. CASE UNCHANGED vars
  BY <1>2 DEF vars, world, MeasureInv, Concerned, Reached, cur, Patient, Waiter, Handled
<1> QED
  BY <1>1, <1>2, MeasureConvert, MeasureWait, MeasureRead

LEMMA Inductive == Spec => []Inv
<1>1. Init => Base /\ ScanInv /\ MeasureInv /\ OneSlot
  BY BaseInit, ScanInvInit, MeasureInit, OneSlotInit
<1>2. Base /\ ScanInv /\ MeasureInv /\ OneSlot /\ [Next]_vars => (Base /\ ScanInv /\ MeasureInv /\ OneSlot)'
  BY BaseNext, ScanInvNext, MeasureNext, OneSlotNext
<1>3. Base /\ ScanInv /\ MeasureInv /\ OneSlot => Inv
  BY DEF Base, Inv
<1> QED
  BY <1>1, <1>2, <1>3, PTL DEF Spec

\* At the end of an undisturbed scan every handle has the resolution its sensor is set to
\* (ds18b20_set_resolution).
THEOREM ResolutionsAgree == Spec => []HandlesAgree
<1>1. Inv => HandlesAgree
  BY DEF Inv, Flow, Setup, ScanInv, Agreed, HandlesAgree
<1> QED
  BY Inductive, <1>1, PTL

LEMMA FreshStep ==
  Inv /\ [Next]_vars =>
     [(/\ pc = "read" /\ hits' = 0
       /\ Reached(cur, handle[cur]) = {cur}
       /\ \A s \in present : handle[Waiter].res >= cfg[s]) => reading'[cur] = "new"]_vars
<1> SUFFICES ASSUME Inv, [Next]_vars, ~UNCHANGED vars, pc = "read", hits' = 0,
                    Reached(cur, handle[cur]) = {cur}, Patient
             PROVE  reading'[cur] = "new"
  BY DEF Patient
<1>0. Base
  BY DEF Inv, Base
<1>1. ReadTemp
  <2>1. hits' # hits + 1
    BY DEF Inv, TypeOK
  <2> QED
    BY <1>0, <2>1, OthersAtRead
<1>2. PICK t \in Transfers(cur, handle[cur], 2) :
           reading' = [reading EXCEPT ![cur] = Reading(cur, t.buf, t.err)] /\ Charge(t.bad)
  BY <1>1, ReadSteps
<1>3. reading'[cur] = Reading(cur, t.buf, t.err)
  BY <1>0, <1>2, AtRead DEF Inv, TypeOK
<1>4. hits = 0 /\ ~t.bad
  BY <1>0, <1>2, TransferType, ChargeType DEF Base
<1>5. cur \in present
  BY DEF Reached
<1>6. temp[cur] = "new"
  BY <1>4, <1>5 DEF Inv, MeasureInv, Concerned
<1>7. t.buf = Frame[temp[cur]][cfg[cur]] /\ t.err = "ok"
  BY <1>0, <1>4, <1>5, AtRead, AloneClean DEF Base
<1>8. "new" \in Values /\ cfg[cur] \in Resolutions
  BY <1>0, AtRead DEF Values, Inv, TypeOK
<1> QED
  BY <1>0, <1>3, <1>6, <1>7, <1>8, AtRead, FrameReading

\* A sensor addressed alone is read as it was just measured, 85.0 degrees included, when nothing
\* disturbs the job and the handle it waits by knows the sensors' time (ds18b20_wait_for_conversion).
THEOREM FreshReadings == Spec => FreshWhenUndisturbed
<1>1. Inv /\ [Next]_vars =>
     [(/\ pc = "read" /\ hits' = 0
       /\ Reached(cur, handle[cur]) = {cur}
       /\ \A s \in present : handle[Waiter].res >= cfg[s]) => reading'[cur] = "new"]_vars
  BY FreshStep
<1> QED
  BY Inductive, <1>1, PTL DEF Spec, FreshWhenUndisturbed

-----------------------------------------------------------------------------
(* What becomes of a wait, and of a scan's result, in the jobs that follow. *)

BusyInv ==
  /\ \A s \in Sensor : busy[s] <= Units(cfg[s])
  /\ pc \notin {"wait", "read"} => \A s \in Sensor : busy[s] = 0

LEMMA BusyInit == Init => BusyInv
<1> SUFFICES ASSUME Init PROVE BusyInv
  OBVIOUS
<1>1. \A s \in Sensor : busy[s] = 0 /\ cfg[s] \in Resolutions
  BY Ds18b20Assumption DEF Init
<1> QED
  BY <1>1, UnitsType DEF BusyInv

\* A step that leaves the conversions alone, or none in progress.
LEMMA BusyStays ==
  ASSUME BusyInv, UNCHANGED <<cfg, busy>>,
         pc \notin {"wait", "read"} \/ pc' \in {"wait", "read"}
  PROVE  BusyInv'
BY DEF BusyInv

LEMMA BusyNone ==
  ASSUME TypeOK', \A s \in Sensor : busy'[s] = 0
  PROVE  BusyInv'
<1>1. \A s \in Sensor : cfg'[s] \in Resolutions
  BY DEF TypeOK
<1> QED
  BY <1>1, UnitsType DEF BusyInv

LEMMA BusyPlug ==
  ASSUME Base, BusyInv, Base', NEW s \in Sensor, Plug(s) \/ Unplug(s)
  PROVE  BusyInv'
<1>1. busy' = [busy EXCEPT ![s] = 0] /\ pc' = pc
  BY DEF Plug, Unplug
<1>2. \A r \in Sensor \ {s} : cfg'[r] = cfg[r]
  BY DEF Plug, Unplug, Base, TypeOK
<1>3. busy'[s] = 0 /\ \A r \in Sensor \ {s} : busy'[r] = busy[r]
  BY <1>1 DEF Base, TypeOK
<1>4. cfg'[s] \in Resolutions
  BY DEF Base, TypeOK
<1>5. 0 <= Units(cfg'[s])
  BY <1>4, UnitsType
<1> QED
  BY <1>1, <1>2, <1>3, <1>5 DEF BusyInv

LEMMA BusyNext == Base /\ BusyInv /\ [Next]_vars => BusyInv'
<1> SUFFICES ASSUME Base, BusyInv, [Next]_vars PROVE BusyInv'
  OBVIOUS
<1>0. Base' /\ TypeOK'
  BY BaseNext DEF Base
<1>1. CASE \E s \in Sensor : Plug(s) \/ Unplug(s)
  BY <1>0, <1>1, BusyPlug
<1>2. CASE Scan \/ Cycle \/ \E s \in Sensor : Http(s)
  <2>1. pc \notin {"wait", "read"} /\ UNCHANGED <<cfg, busy>>
    BY <1>2 DEF Scan, Cycle, Http, Start, world, Base, Flow
  <2> QED
    BY <2>1, BusyStays
<1>3. CASE InitHandle \/ GetPad \/ VerifyPad \/ RefreshHandle \/ CheckPower
  <2>1. pc \notin {"wait", "read"} /\ UNCHANGED <<cfg, busy>>
    BY <1>3 DEF InitHandle, GetPad, VerifyPad, RefreshHandle, CheckPower, world
  <2> QED
    BY <2>1, BusyStays
<1>4. CASE WritePad
  <2>1. pc = "write" /\ busy' = busy
    BY <1>4 DEF WritePad
  <2>2. \A s \in Sensor : busy'[s] = 0
    BY <2>1 DEF BusyInv
  <2> QED
    BY <1>0, <2>2, BusyNone
<1>5. CASE Convert
  <2>1. PICK reach : Converting(reach)
    BY <1>5 DEF Convert
  <2>2. cfg' = cfg /\ pc = "convert"
    BY <1>5 DEF Convert
  <2>3. ASSUME NEW s \in Sensor PROVE 0 <= Units(cfg[s]) /\ Units(cfg[s]) <= Units(cfg[s])
    <3>1. cfg[s] \in Resolutions
      BY DEF Base, TypeOK
    <3> QED
      BY <3>1, UnitsType
  <2>4. \A s \in Sensor : busy'[s] <= Units(cfg'[s])
    BY <2>1, <2>2, <2>3 DEF Converting
  <2>5. pc' \notin {"wait", "read"} => \A s \in Sensor : busy'[s] = 0
    <3> SUFFICES ASSUME pc' # "wait" PROVE \A s \in Sensor : busy'[s] = 0
      OBVIOUS
    <3>1. Converting({})
      <4>1. Reached(cur, handle[cur]) \subseteq present
        BY DEF Reached
      <4> QED
        BY <1>5, <4>1 DEF Convert
    <3> QED
      BY <3>1 DEF Converting
  <2> QED
    BY <2>4, <2>5 DEF BusyInv
<1>6. CASE Wait
  <2>1. PICK spent : /\ Waits(spent)
                     /\ busy' = [s \in Sensor |-> IF busy[s] <= spent THEN 0 ELSE busy[s] - spent]
    BY <1>6, WaitSteps
  <2>2. pc = "wait" /\ pc' = "read" /\ cfg' = cfg
    BY <1>6 DEF Wait
  <2>3. cur \in Handled
    BY <2>2, SlotAtHand DEF Base, Flow, HandlesInv, Tasks
  <2>4. spent \in Nat
    BY <2>1, <2>3, WaitFacts DEF Base
  <2>5. ASSUME NEW s \in Sensor PROVE busy'[s] <= Units(cfg[s])
    <3>1. busy[s] \in 0 .. 8 /\ cfg[s] \in Resolutions
      BY UnitsType DEF Base, TypeOK
    <3>2. Units(cfg[s]) \in 1 .. 8 /\ busy[s] <= Units(cfg[s])
      BY <3>1, UnitsType DEF BusyInv
    <3>3. busy'[s] = IF busy[s] <= spent THEN 0 ELSE busy[s] - spent
      BY <2>1
    <3> QED
      BY <2>4, <3>1, <3>2, <3>3
  <2> QED
    BY <2>2, <2>5 DEF BusyInv
<1>7. CASE ReadTemp
  <2>1. \/ \A s \in Sensor : busy'[s] = 0
        \/ pc' = pc /\ busy' = busy
    BY <1>7 DEF ReadTemp
  <2>2. pc = "read" /\ cfg' = cfg
    BY <1>7 DEF ReadTemp
  <2> QED
    BY <1>0, <2>1, <2>2, BusyNone, BusyStays
<1>8. CASE UNCHANGED vars
  BY <1>8 DEF vars, world, BusyInv
<1> QED
  BY <1>1, <1>2, <1>3, <1>4, <1>5, <1>6, <1>7, <1>8 DEF Next

\* Only Wait waits; what comes and goes meanwhile is a disturbance.
LEMMA AtWait ==
  ASSUME Base, pc = "wait", hits' = hits, [Next]_vars, ~UNCHANGED vars
  PROVE  Wait /\ cur \in Handled
<1>1. job # "none" /\ todo # {} /\ todo \subseteq Handled
  BY DEF Base, Flow, HandlesInv, Tasks
<1>2. \A s \in Sensor : ~(Plug(s) \/ Unplug(s))
  <2>1. hits' # hits + 1
    BY DEF Base, TypeOK
  <2> QED
    BY <1>1, <2>1 DEF Plug, Unplug, Charge
<1>3. ~Scan /\ ~Cycle /\ \A s \in Sensor : ~Http(s)
  BY <1>1 DEF Scan, Cycle, Http, Start
<1>4. ~InitHandle /\ ~GetPad /\ ~WritePad /\ ~VerifyPad /\ ~RefreshHandle /\ ~CheckPower /\ ~Convert /\ ~ReadTemp
  BY DEF InitHandle, GetPad, WritePad, VerifyPad, RefreshHandle, CheckPower, Convert, ReadTemp
<1>5. cur \in Handled
  BY <1>1, SlotAtHand DEF Base
<1> QED
  BY <1>2, <1>3, <1>4, <1>5 DEF Next

LEMMA WaitedStep ==
  Base /\ BusyInv /\ [Next]_vars =>
     [pc = "wait" /\ hits' = hits =>
        \A s \in Sensor : cfg[s] <= handle[cur].res => busy'[s] = 0]_vars
<1> SUFFICES ASSUME Base, BusyInv, [Next]_vars, ~UNCHANGED vars, pc = "wait", hits' = hits,
                    NEW s \in Sensor, cfg[s] <= handle[cur].res
             PROVE  busy'[s] = 0
  OBVIOUS
<1>1. Wait /\ cur \in Handled
  BY AtWait
<1>2. PICK spent : /\ Waits(spent)
                   /\ busy' = [r \in Sensor |-> IF busy[r] <= spent THEN 0 ELSE busy[r] - spent]
                   /\ Charge(spent = 0 /\ \E r \in Sensor : busy[r] > 0)
  BY <1>1, WaitSteps
<1>3. /\ spent \in Nat
      /\ \/ \A r \in Sensor : busy[r] <= Patience(handle[cur]) => busy[r] <= spent
         \/ spent = 0 /\ hits < MaxFaults
  BY <1>1, <1>2, WaitFacts DEF Base
<1>4. ~(spent = 0 /\ \E r \in Sensor : busy[r] > 0)
  <2>1. hits' # hits + 1
    BY DEF Base, TypeOK
  <2> QED
    BY <1>2, <2>1 DEF Charge
<1>5. busy[s] \in 0 .. 8 /\ cfg[s] \in Resolutions
  BY UnitsType DEF Base, TypeOK
<1>6. handle[cur].res \in Resolutions
  BY <1>1, HandledFacts, HandleFacts DEF Base, Resolutions
<1>7. busy[s] <= Patience(handle[cur])
  <2>1. busy[s] <= Units(cfg[s])
    BY DEF BusyInv
  <2>2. Units(cfg[s]) <= Units(handle[cur].res) /\ Units(cfg[s]) \in 1 .. 8 /\ Units(handle[cur].res) \in 1 .. 8
    BY <1>5, <1>6, UnitsType
  <2> QED
    BY <1>5, <2>1, <2>2 DEF Patience
<1>8. busy[s] <= spent
  BY <1>3, <1>4, <1>5, <1>7
<1> QED
  BY <1>2, <1>8

\* ds18b20.h:166 "Wait for the maximum conversion time according to the current resolution of the
\* device", which the run shows to be wrong, holds up to that case: a wait that is not itself cut
\* short outlasts the conversion of every sensor no slower than the handle it goes by, whatever
\* was disturbed before (ds18b20_wait_for_conversion).
THEOREM WaitsLongEnough ==
  Spec => [][pc = "wait" /\ hits' = hits =>
               \A s \in Sensor : cfg[s] <= handle[cur].res => busy'[s] = 0]_vars
<1>1. Base /\ BusyInv /\ [Next]_vars =>
     [pc = "wait" /\ hits' = hits =>
        \A s \in Sensor : cfg[s] <= handle[cur].res => busy'[s] = 0]_vars
  BY WaitedStep
<1> QED
  BY Based, BusyInit, BusyNext, <1>1, PTL DEF Spec

LEMMA AgreementStep ==
  Base /\ [Next]_vars =>
     [job \notin {"scan", "solo"} => \A s \in present \cap present' : Agreed(s) => Agreed(s)']_vars
<1> SUFFICES ASSUME Base, [Next]_vars, job \notin {"scan", "solo"},
                    NEW s \in present \cap present', Agreed(s)
             PROVE  Agreed(s)'
  OBVIOUS
<1>1. ASSUME NEW r \in Sensor, Plug(r) \/ Unplug(r)
      PROVE  handle' = handle /\ cfg'[s] = cfg[s]
  <2>1. s # r /\ s \in Sensor
    BY <1>1 DEF Plug, Unplug, Base, TypeOK
  <2> QED
    BY <1>1, <2>1 DEF Plug, Unplug, Base, TypeOK
<1>2. pc \notin Setup
  BY DEF Base, Flow
<1>3. ~InitHandle /\ ~GetPad /\ ~WritePad /\ ~VerifyPad /\ ~RefreshHandle /\ ~CheckPower
  BY <1>2 DEF InitHandle, GetPad, WritePad, VerifyPad, RefreshHandle, CheckPower, Setup
<1>4. CASE Scan \/ Cycle \/ (\E r \in Sensor : Http(r)) \/ Convert \/ Wait \/ ReadTemp \/ UNCHANGED vars
  BY <1>4 DEF Scan, Cycle, Http, Start, Convert, Wait, ReadTemp, vars, world, Agreed
<1> QED
  BY <1>1, <1>3, <1>4 DEF Next, Agreed

\* Between two scans a handle and a sensor that agree on 12 bits go on to agree for as long as the
\* sensor stays connected: nothing but discover_locked changes a handle or writes a scratchpad.
THEOREM AgreementStays ==
  Spec => [][job \notin {"scan", "solo"} => \A s \in present \cap present' : Agreed(s) => Agreed(s)']_vars
<1>1. Base /\ [Next]_vars =>
     [job \notin {"scan", "solo"} => \A s \in present \cap present' : Agreed(s) => Agreed(s)']_vars
  BY AgreementStep
<1> QED
  BY Based, <1>1, PTL DEF Spec
=============================================================================
