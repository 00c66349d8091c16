------------------------- MODULE Rv32EncodingProofs -------------------------
(***************************************************************************)
(* What the encoder packs, the decoder gives back: the three properties of *)
(* Rv32Codec, for whatever registers and immediates are asked for.         *)
(*                                                                         *)
(* A slice of a word is a sum over bits, and each bit is put there by one  *)
(* Place.  SliceGrows takes a sum one bit further, SliceOfPlaced reads a   *)
(* number back that was put there bit by bit, and the lemmas on each       *)
(* format say which number that is.  The table of the instructions is gone *)
(* through family by family.                                               *)
(***************************************************************************)
EXTENDS Rv32Codec, FoldTheorems

(* The powers of two of a word, and how one halving follows another.       *)
LEMMA Powers ==
  ASSUME NEW n \in 0..31
  PROVE  2^n \in Nat \ {0} /\ 2^(n + 1) = 2 * 2^n /\ 2^(n + 1) \in Nat \ {0}
<1>1. /\ 2^0 = 1 /\ 2^1 = 2 /\ 2^2 = 4 /\ 2^3 = 8 /\ 2^4 = 16 /\ 2^5 = 32 /\ 2^6 = 64
      /\ 2^7 = 128 /\ 2^8 = 256 /\ 2^9 = 512 /\ 2^10 = 1024 /\ 2^11 = 2048
      /\ 2^12 = 4096 /\ 2^13 = 8192 /\ 2^14 = 16384 /\ 2^15 = 32768 /\ 2^16 = 65536
      /\ 2^17 = 131072 /\ 2^18 = 262144 /\ 2^19 = 524288 /\ 2^20 = 1048576
      /\ 2^21 = 2097152 /\ 2^22 = 4194304 /\ 2^23 = 8388608 /\ 2^24 = 16777216
      /\ 2^25 = 33554432 /\ 2^26 = 67108864 /\ 2^27 = 134217728 /\ 2^28 = 268435456
      /\ 2^29 = 536870912 /\ 2^30 = 1073741824 /\ 2^31 = 2147483648 /\ 2^32 = 4294967296
  BY SMT
<1> DEFINE Good(m, k) == 2^m \in Nat \ {0} /\ 2^k = 2 * 2^m /\ 2^k \in Nat \ {0}
<1>2. /\ Good(0, 1) /\ Good(1, 2) /\ Good(2, 3) /\ Good(3, 4) /\ Good(4, 5) /\ Good(5, 6)
      /\ Good(6, 7) /\ Good(7, 8) /\ Good(8, 9) /\ Good(9, 10) /\ Good(10, 11)
      /\ Good(11, 12) /\ Good(12, 13) /\ Good(13, 14) /\ Good(14, 15) /\ Good(15, 16)
      /\ Good(16, 17) /\ Good(17, 18) /\ Good(18, 19) /\ Good(19, 20) /\ Good(20, 21)
      /\ Good(21, 22) /\ Good(22, 23) /\ Good(23, 24) /\ Good(24, 25) /\ Good(25, 26)
      /\ Good(26, 27) /\ Good(27, 28) /\ Good(28, 29) /\ Good(29, 30) /\ Good(30, 31)
      /\ Good(31, 32)
  BY SMT
<1> HIDE DEF Good
<1>3. n \in {0, 1, 2, 3, 4, 5, 6, 7, 8, 9, 10, 11, 12, 13, 14, 15, 16, 17, 18, 19, 20, 21,
             22, 23, 24, 25, 26, 27, 28, 29, 30, 31}
  BY SMT
<1>4. Good(n, n + 1)
  BY <1>2, <1>3, 0 + 1 = 1, 1 + 1 = 2, 2 + 1 = 3, 3 + 1 = 4, 4 + 1 = 5, 5 + 1 = 6, 6 + 1 = 7,
     7 + 1 = 8, 8 + 1 = 9, 9 + 1 = 10, 10 + 1 = 11, 11 + 1 = 12, 12 + 1 = 13, 13 + 1 = 14,
     14 + 1 = 15, 15 + 1 = 16, 16 + 1 = 17, 17 + 1 = 18, 18 + 1 = 19, 19 + 1 = 20,
     20 + 1 = 21, 21 + 1 = 22, 22 + 1 = 23, 23 + 1 = 24, 24 + 1 = 25, 25 + 1 = 26,
     26 + 1 = 27, 27 + 1 = 28, 28 + 1 = 29, 29 + 1 = 30, 30 + 1 = 31, 31 + 1 = 32
<1> QED BY <1>4 DEF Good

LEMMA PowerPositive ==
  ASSUME NEW n \in 0..32
  PROVE  2^n \in Nat \ {0}
<1>1. CASE n \in 0..31
  BY <1>1, Powers
<1>2. CASE n = 32
  BY <1>2, Powers, 31 + 1 = 32
<1> QED BY <1>1, <1>2

LEMMA DivisionIsUnique ==
  ASSUME NEW v \in Int, NEW p \in Nat \ {0}, NEW q \in Int, NEW r \in 0..p - 1,
         v = p * q + r
  PROVE  v \div p = q /\ v % p = r
<1> DEFINE e == v \div p
           s == v % p
           d == q - e
<1>1. v = p * e + s /\ s \in 0..p - 1 /\ e \in Int
  OBVIOUS
<1>2. d \in Int /\ q = d + e
  BY <1>1
<1> HIDE DEF d, e, s
<1>3. p * d = s - r
  <2>1. p * q = p * d + p * e
    BY <1>1, <1>2
  <2>2. p * q \in Int /\ p * d \in Int /\ p * e \in Int
    BY <1>1, <1>2
  <2> QED BY <1>1, <1>2, <2>1, <2>2
<1>4. p * d > -p /\ p * d < p
  BY <1>1, <1>3
<1>5. ~(d >= 1) /\ ~(d <= -1)
  <2>1. d >= 1 => p * d >= p
    BY <1>2
  <2>2. d <= -1 => p * d <= -p
    BY <1>2
  <2> QED BY <1>2, <1>4, <2>1, <2>2
<1>6. d = 0
  BY <1>2, <1>5
<1> QED BY <1>1, <1>2, <1>3, <1>6 DEF e, s

LEMMA Halving ==
  ASSUME NEW v \in Int, NEW p \in Nat \ {0}
  PROVE  /\ v \div p = 2 * (v \div (2 * p)) + ((v \div p) % 2)
         /\ v \div p \in Int /\ v \div (2 * p) \in Int /\ (v \div p) % 2 \in 0..1
<1> DEFINE h == v \div p
           q == h \div 2
           b == h % 2
           r == v % p
<1>1. h \in Int /\ r \in 0..p - 1 /\ v = p * h + r
  OBVIOUS
<1>2. q \in Int /\ b \in 0..1 /\ h = 2 * q + b
  BY <1>1
<1> HIDE DEF h, q, b, r
<1>3. v = (2 * p) * q + (p * b + r)
  BY <1>1, <1>2
<1>4. p * b + r \in 0..2 * p - 1
  <2>1. CASE b = 0
    BY <1>1, <2>1
  <2>2. CASE b = 1
    BY <1>1, <2>2
  <2> QED BY <1>2, <2>1, <2>2
<1>5. v \div (2 * p) = q
  BY <1>1, <1>2, <1>3, <1>4, DivisionIsUnique, 2 * p \in Nat \ {0}
<1> QED BY <1>1, <1>2, <1>5 DEF h, q, b

-----------------------------------------------------------------------------
(* Slices.                                                                 *)

(* The bit k of a number.                                                  *)
Bit(v, k) == (v \div 2^k) % 2 = 1

(* A word has bits of v from some bit on, n of them at position at.        *)
IsPlaced(w, at, n, v, from) == \A j \in 0..n - 1 : at + j \in w <=> Bit(v, from + j)
Has(w, at, n, v) == \A j \in 0..n - 1 : at + j \in w <=> Bit(v, j)

LEMMA PlaceMember ==
  ASSUME NEW v \in Int, NEW from \in Nat, NEW n \in Nat, NEW at \in Nat, NEW x
  PROVE  x \in Place(v, from, n, at) <=>
           x \in at..at + n - 1 /\ Bit(v, from + (x - at))
<1>1. ASSUME x \in Place(v, from, n, at)
      PROVE  x \in at..at + n - 1 /\ Bit(v, from + (x - at))
  <2>1. PICK i \in 0..n - 1 : Bit(v, from + i) /\ x = at + i
    BY <1>1 DEF Place, Bit
  <2>2. x - at = i
    BY <2>1
  <2> QED BY <2>1, <2>2
<1>2. ASSUME x \in at..at + n - 1, Bit(v, from + (x - at))
      PROVE  x \in Place(v, from, n, at)
  <2>1. x - at \in 0..n - 1 /\ x = at + (x - at)
    BY <1>2
  <2> HIDE DEF Bit
  <2>2. x - at \in {j \in 0..n - 1 : Bit(v, from + j)}
    BY <1>2, <2>1
  <2> QED BY <2>1, <2>2 DEF Place, Bit
<1> QED BY <1>1, <1>2

Weights(w, at, n) == [i \in 0..n - 1 |-> IF at + i \in w THEN 2^i ELSE 0]

LEMMA WeightsAdd ==
  ASSUME NEW w, NEW at \in Nat, NEW n \in 0..32
  PROVE  Summable(Weights(w, at, n)) /\ DOMAIN Weights(w, at, n) = 0..n - 1
<1>1. \A i \in 0..n - 1 : 2^i \in Int
  BY Powers
<1>2. IsFiniteSet(0..n - 1)
  BY FS_Interval
<1>3. \A i \in 0..n - 1 : (IF at + i \in w THEN 2^i ELSE 0) \in Int
  BY <1>1
<1> QED BY <1>2, <1>3 DEF Summable, Weights

Grows(w, at, n) ==
  /\ Slice(w, at, 0) = 0
  /\ Slice(w, at, n) \in Int
  /\ Slice(w, at, n + 1) = Slice(w, at, n) + (IF at + n \in w THEN 2^n ELSE 0)

LEMMA SliceGrows ==
  ASSUME NEW w, NEW at \in Nat, NEW n \in 0..31
  PROVE  Grows(w, at, n)
<1> DEFINE f == Weights(w, at, n)
           g == Weights(w, at, n + 1)
           e == Weights(w, at, 0)
<1>1. /\ Slice(w, at, n) = SumFunction(f) /\ Slice(w, at, n + 1) = SumFunction(g)
      /\ Slice(w, at, 0) = SumFunction(e)
  BY DEF Slice, Weights
<1>2. IsRange(f, n) /\ IsRange(g, n + 1) /\ Summable(e) /\ DOMAIN e = {}
  <2>1. n \in 0..32 /\ n + 1 \in 0..32 /\ 0 \in 0..32
    OBVIOUS
  <2>2. 0..0 - 1 = {}
    OBVIOUS
  <2>3. Summable(f) /\ Summable(g) /\ Summable(e)
    BY <2>1, WeightsAdd
  <2> QED BY <2>2, <2>3 DEF Weights, IsRange
<1>3. /\ \A i \in 0..n - 1 : g[i] = f[i]
      /\ g[n] = IF at + n \in w THEN 2^n ELSE 0
  BY DEF Weights
<1>4. SumFunction(e) = 0
  <2>1. PICK h : IsSum(h, e) /\ SumFunction(e) = h[{}]
    <3> HIDE DEF e
    <3> QED BY <1>2, SumIsSum
  <2> HIDE DEF e
  <2> QED BY <1>2, <2>1, SumOfAny
<1> HIDE DEF e, f, g
<1>5. SumFunction(g) = SumFunction(f) + g[n]
  BY <1>2, <1>3, SumOfRange
<1>6. SumFunction(f) \in Int
  BY <1>2, SumIsInteger DEF IsRange
<1> QED BY <1>1, <1>3, <1>4, <1>5, <1>6 DEF Grows

(* A slice has as many bits as it was asked for.                           *)
LEMMA SliceFits ==
  ASSUME NEW w, NEW at \in Nat, NEW n \in 0..32
  PROVE  Slice(w, at, n) \in 0..2^n - 1
<1> DEFINE S == {k \in Nat : k <= 32 => Slice(w, at, k) \in 0..2^k - 1}
<1>1. 0 \in S
  <2>1. 2^0 = 1
    BY SMT
  <2> QED BY <2>1, SliceGrows, 0 \in 0..31 DEF Grows
<1>2. ASSUME NEW k \in Nat, k \in S PROVE k + 1 \in S
  <2> SUFFICES ASSUME k + 1 <= 32 PROVE Slice(w, at, k + 1) \in 0..2^(k + 1) - 1
    OBVIOUS
  <2>1. k \in 0..31
    OBVIOUS
  <2>2. 2^k \in Nat /\ 2^(k + 1) = 2 * 2^k
    BY <2>1, Powers
  <2> HIDE DEF S
  <2>3. Slice(w, at, k + 1) = Slice(w, at, k) + (IF at + k \in w THEN 2^k ELSE 0)
    <3>1. Grows(w, at, k)
      BY <2>1, SliceGrows
    <3> QED BY <3>1 DEF Grows
  <2>4. Slice(w, at, k) \in 0..2^k - 1
    BY <1>2, <2>1 DEF S
  <2> QED BY <2>2, <2>3, <2>4
<1>3. Nat \subseteq S
  <2> HIDE DEF S
  <2> QED BY <1>1, <1>2, Induction
<1> QED BY <1>3

(* A slice of bits that some number was placed in.                         *)
(* n bits of v, from some bit on.                                          *)
Part(v, from, n) == (v \div 2^from) % 2^n

LEMMA SliceOfPlaced ==
  ASSUME NEW w, NEW at \in Nat, NEW n \in 0..32, NEW v \in Int, NEW from \in Nat,
         from + n <= 32, IsPlaced(w, at, n, v, from)
  PROVE  Slice(w, at, n) = Part(v, from, n)
<1> DEFINE Above(k) == v \div 2^(from + k)
           Good(k) == v \div 2^from = 2^k * Above(k) + Slice(w, at, k) /\ Above(k) \in Int
           S == {k \in Nat : k <= n => Good(k)}
<1>1. 0 \in S
  <2>1. 2^0 = 1 /\ from + 0 = from
    BY SMT
  <2>2. 2^from \in Nat \ {0}
    BY PowerPositive, from \in 0..32
  <2>3. v \div 2^from \in Int
    BY <2>2
  <2>4. Slice(w, at, 0) = 0
    BY SliceGrows, 0 \in 0..31 DEF Grows
  <2> QED BY <2>1, <2>3, <2>4
<1>2. ASSUME NEW k \in Nat, k \in S PROVE k + 1 \in S
  <2> SUFFICES ASSUME k + 1 <= n PROVE Good(k + 1)
    OBVIOUS
  <2>1. k \in 0..31 /\ k \in 0..n - 1 /\ from + k \in 0..31 /\ Good(k)
    BY <1>2
  <2>2. /\ 2^k \in Nat \ {0} /\ 2^(k + 1) = 2 * 2^k
        /\ 2^(from + k) \in Nat \ {0} /\ 2^(from + (k + 1)) = 2 * 2^(from + k)
    BY <2>1, Powers, (from + k) + 1 = from + (k + 1)
  <2>3. /\ Above(k) = 2 * Above(k + 1) + (Above(k) % 2)
        /\ Above(k + 1) \in Int /\ Above(k) % 2 \in 0..1
    BY <2>2, Halving
  <2>4. at + k \in w <=> Above(k) % 2 = 1
    BY <2>1 DEF Bit, IsPlaced
  <2>5. /\ Slice(w, at, k + 1) = Slice(w, at, k) + (IF at + k \in w THEN 2^k ELSE 0)
        /\ Slice(w, at, k) \in Int
    <3>1. Grows(w, at, k)
      BY <2>1, SliceGrows
    <3> QED BY <3>1 DEF Grows
  <2> DEFINE p == 2^k
             h == Above(k)
             q == Above(k + 1)
             s == Slice(w, at, k)
             b == h % 2
  <2>6. /\ p \in Nat /\ q \in Int /\ b \in 0..1 /\ h = 2 * q + b /\ s \in Int
        /\ v \div 2^from = p * h + s
        /\ Slice(w, at, k + 1) = s + p * b
        /\ 2^(k + 1) = 2 * p
    BY <2>1, <2>2, <2>3, <2>4, <2>5
  <2> HIDE DEF p, h, q, s, b
  <2>7. v \div 2^from = (2 * p) * q + (s + p * b)
    <3>1. CASE b = 0
      BY <2>6, <3>1
    <3>2. CASE b = 1
      BY <2>6, <3>2
    <3> QED BY <2>6, <3>1, <3>2
  <2> QED BY <2>6, <2>7 DEF q
<1>3. Nat \subseteq S
  <2> HIDE DEF S
  <2> QED BY <1>1, <1>2, Induction
<1>4. Good(n)
  BY <1>3
<1>5. 2^n \in Nat \ {0}
  BY PowerPositive
<1>6. Slice(w, at, n) \in 0..2^n - 1
  BY SliceFits
<1>7. v \div 2^from \in Int
  BY <1>4, <1>5, <1>6
<1> QED BY <1>4, <1>5, <1>6, <1>7, DivisionIsUnique DEF Part

LEMMA SliceIs ==
  ASSUME NEW w, NEW at \in Nat, NEW n \in 0..32, NEW v \in Int, Has(w, at, n, v)
  PROVE  Slice(w, at, n) = v % 2^n
<1>1. IsPlaced(w, at, n, v, 0)
  BY \A j \in 0..n - 1 : 0 + j = j DEF IsPlaced, Has
<1>2. Slice(w, at, n) = Part(v, 0, n)
  <2>1. 0 \in Nat /\ 0 + n <= 32
    OBVIOUS
  <2> HIDE <1>1
  <2> QED BY <1>1, <2>1, SliceOfPlaced
<1>3. 2^0 = 1 /\ v \div 1 = v
  BY SMT
<1> QED BY <1>2, <1>3 DEF Part

(* The low bits of a slice are a slice.                                    *)
LEMMA SliceOfSlice ==
  ASSUME NEW w, NEW at \in Nat, NEW n \in 0..32, NEW m \in 0..n
  PROVE  Slice(w, at, n) % 2^m = Slice(w, at, m)
<1> DEFINE Good(k) == \E q \in Int : Slice(w, at, k) = 2^m * q + Slice(w, at, m)
           S == {k \in Nat : m + k <= n => Good(m + k)}
<1>0. 2^m \in Nat \ {0} /\ Slice(w, at, m) \in 0..2^m - 1
  BY SliceFits, PowerPositive, m \in 0..32
<1>1. 0 \in S
  <2>1. m + 0 = m /\ Slice(w, at, m) = 2^m * 0 + Slice(w, at, m)
    BY <1>0
  <2> QED BY <2>1, 0 \in Int
<1>2. ASSUME NEW k \in Nat, k \in S PROVE k + 1 \in S
  <2> SUFFICES ASSUME m + (k + 1) <= n PROVE Good(m + (k + 1))
    OBVIOUS
  <2> DEFINE l == m + k
  <2>1. l \in 0..31 /\ l + 1 = m + (k + 1) /\ l >= m
    OBVIOUS
  <2>2. PICK q \in Int : Slice(w, at, l) = 2^m * q + Slice(w, at, m)
    BY <1>2
  <2> HIDE DEF l
  <2>3. Slice(w, at, l + 1) = Slice(w, at, l) + (IF at + l \in w THEN 2^l ELSE 0)
    <3>1. Grows(w, at, l)
      BY <2>1, SliceGrows
    <3> QED BY <3>1 DEF Grows
  <2>4. PICK r \in Nat : 2^l = 2^m * r
    <3> DEFINE T == {i \in Nat : m + i <= 32 => \E r \in Nat : 2^(m + i) = 2^m * r}
    <3>1. 0 \in T
      BY <1>0, m + 0 = m, 2^m = 2^m * 1
    <3>2. ASSUME NEW i \in Nat, i \in T PROVE i + 1 \in T
      <4> SUFFICES ASSUME m + (i + 1) <= 32 PROVE \E r \in Nat : 2^(m + (i + 1)) = 2^m * r
        OBVIOUS
      <4>1. PICK r \in Nat : 2^(m + i) = 2^m * r
        BY <3>2
      <4>2. 2^((m + i) + 1) = 2 * 2^(m + i) /\ (m + i) + 1 = m + (i + 1)
        <5> DEFINE j == m + i
        <5>1. j \in 0..31 /\ j + 1 = m + (i + 1)
          OBVIOUS
        <5> HIDE DEF j
        <5>2. 2^(j + 1) = 2 * 2^j
          BY <5>1, Powers
        <5> QED BY <5>1, <5>2 DEF j
      <4>3. 2 * (2^m * r) = 2^m * (2 * r) /\ 2 * r \in Nat
        BY <1>0
      <4> QED BY <4>1, <4>2, <4>3
    <3>3. Nat \subseteq T
      <4> HIDE DEF T
      <4> QED BY <3>1, <3>2, Induction
    <3> QED BY <2>1, <3>3 DEF l
  <2> DEFINE p == 2^m
             s == Slice(w, at, m)
  <2>5. p \in Int /\ s \in Int
    BY <1>0
  <2> HIDE DEF p, s
  <2>6. \E t \in Int : Slice(w, at, l + 1) = p * t + s
    <3>1. CASE at + l \in w
      <4>1. Slice(w, at, l + 1) = (p * q + s) + p * r
        BY <2>2, <2>3, <2>4, <3>1 DEF p, s
      <4>2. (p * q + s) + p * r = p * (q + r) + s
        BY <2>5
      <4> QED BY <4>1, <4>2, q + r \in Int
    <3>2. CASE at + l \notin w
      <4>1. Slice(w, at, l + 1) = p * q + s
        BY <2>2, <2>3, <2>5, <3>2 DEF p, s
      <4> QED BY <4>1
    <3> QED BY <3>1, <3>2
  <2> QED BY <2>1, <2>6 DEF p, s
<1>3. Nat \subseteq S
  <2> HIDE DEF S
  <2> QED BY <1>1, <1>2, Induction
<1>4. PICK q \in Int : Slice(w, at, n) = 2^m * q + Slice(w, at, m)
  BY <1>3, n - m \in Nat, m + (n - m) = n
<1>5. Slice(w, at, n) \in Int
  BY SliceFits
<1> QED BY <1>0, <1>4, <1>5, DivisionIsUnique

-----------------------------------------------------------------------------
(* The formats.                                                            *)

LEMMA BitsOfZero ==
  ASSUME NEW k \in 0..31
  PROVE  ~Bit(0, k)
<1>1. 2^k \in Nat \ {0}
  BY Powers
<1>2. 0 = 2^k * 0 + 0 /\ 0 \in 0..2^k - 1
  BY <1>1
<1>3. 0 \div 2^k = 0
  BY <1>1, <1>2, DivisionIsUnique, 0 \in Int
<1>4. 0 % 2 # 1
  OBVIOUS
<1> QED BY <1>3, <1>4, Zenon DEF Bit

LEMMA PlaceBits ==
  ASSUME NEW v \in Int, NEW from \in Nat, NEW n \in Nat, NEW at \in Nat
  PROVE  /\ IsPlaced(Place(v, from, n, at), at, n, v, from)
         /\ Place(v, from, n, at) \subseteq at..at + n - 1
<1>1. ASSUME NEW j \in 0..n - 1 PROVE at + j \in Place(v, from, n, at) <=> Bit(v, from + j)
  BY PlaceMember, at + j \in at..at + n - 1, (at + j) - at = j
<1>2. Place(v, from, n, at) \subseteq at..at + n - 1
  BY PlaceMember
<1> QED BY <1>1, <1>2 DEF IsPlaced

LEMMA FieldBits ==
  ASSUME NEW v \in Int, NEW n \in Nat, NEW at \in Nat
  PROVE  /\ Has(Field(v, n, at), at, n, v)
         /\ Field(v, n, at) \subseteq at..at + n - 1
<1>1. Field(v, n, at) = Place(v, 0, n, at)
  BY DEF Field
<1>2. IsPlaced(Place(v, 0, n, at), at, n, v, 0) /\ Place(v, 0, n, at) \subseteq at..at + n - 1
  BY PlaceBits, 0 \in Nat
<1> QED BY <1>1, <1>2, \A j \in 0..n - 1 : 0 + j = j DEF IsPlaced, Has

(* The bits of a word of Encode, field by field.                           *)
IsEncoded(w, opcode, rd, f3, rs1, rs2, f7) ==
  /\ Has(w, 0, 7, opcode) /\ Has(w, 7, 5, rd) /\ Has(w, 12, 3, f3)
  /\ Has(w, 15, 5, rs1) /\ Has(w, 20, 5, rs2) /\ Has(w, 25, 7, f7)

LEMMA EncodeBits ==
  ASSUME NEW opcode \in Int, NEW rd \in Int, NEW f3 \in Int, NEW rs1 \in Int,
         NEW rs2 \in Int, NEW f7 \in Int
  PROVE  /\ IsEncoded(Encode(opcode, rd, f3, rs1, rs2, f7), opcode, rd, f3, rs1, rs2, f7)
         /\ Encode(opcode, rd, f3, rs1, rs2, f7) \subseteq 0..31
<1> DEFINE A == Field(f7, 7, 25)
           B == Field(rs2, 5, 20)
           C == Field(rs1, 5, 15)
           D == Field(f3, 3, 12)
           E == Field(rd, 5, 7)
           F == Field(opcode, 7, 0)
<1>1. /\ \A j \in 0..6 : 25 + j \in A <=> Bit(f7, j)
      /\ A \subseteq 25..31
  BY FieldBits, 25 + 7 - 1 = 31, 7 - 1 = 6 DEF Has
<1>2. /\ \A j \in 0..4 : 20 + j \in B <=> Bit(rs2, j)
      /\ B \subseteq 20..24
  BY FieldBits, 20 + 5 - 1 = 24, 5 - 1 = 4 DEF Has
<1>3. /\ \A j \in 0..4 : 15 + j \in C <=> Bit(rs1, j)
      /\ C \subseteq 15..19
  BY FieldBits, 15 + 5 - 1 = 19, 5 - 1 = 4 DEF Has
<1>4. /\ \A j \in 0..2 : 12 + j \in D <=> Bit(f3, j)
      /\ D \subseteq 12..14
  BY FieldBits, 12 + 3 - 1 = 14, 3 - 1 = 2 DEF Has
<1>5. /\ \A j \in 0..4 : 7 + j \in E <=> Bit(rd, j)
      /\ E \subseteq 7..11
  BY FieldBits, 7 + 5 - 1 = 11, 5 - 1 = 4 DEF Has
<1>6. /\ \A j \in 0..6 : 0 + j \in F <=> Bit(opcode, j)
      /\ F \subseteq 0..6
  BY FieldBits, 0 + 7 - 1 = 6, 7 - 1 = 6 DEF Has
<1> DEFINE w == A \cup B \cup C \cup D \cup E \cup F
<1>7. w = Encode(opcode, rd, f3, rs1, rs2, f7)
  BY DEF Encode
<1> HIDE DEF A, B, C, D, E, F
<1>8. /\ \A j \in 0..6 : 0 + j \in w <=> Bit(opcode, j)
      /\ \A j \in 0..4 : 7 + j \in w <=> Bit(rd, j)
  <2> HIDE DEF Bit
  <2> QED BY <1>1, <1>2, <1>3, <1>4, <1>5, <1>6
<1>9. /\ \A j \in 0..2 : 12 + j \in w <=> Bit(f3, j)
      /\ \A j \in 0..4 : 15 + j \in w <=> Bit(rs1, j)
  BY <1>1, <1>2, <1>3, <1>4, <1>5, <1>6
<1>10. /\ \A j \in 0..4 : 20 + j \in w <=> Bit(rs2, j)
       /\ \A j \in 0..6 : 25 + j \in w <=> Bit(f7, j)
  BY <1>1, <1>2, <1>3, <1>4, <1>5, <1>6
<1>11. w \subseteq 0..31
  BY <1>1, <1>2, <1>3, <1>4, <1>5, <1>6
<1> HIDE DEF w
<1> QED BY <1>7, <1>8, <1>9, <1>10, <1>11, 3 - 1 = 2, 5 - 1 = 4, 7 - 1 = 6 DEF IsEncoded, Has

SlicedR(w, opcode, rd, f3, rs1, rs2, f7) ==
  /\ Slice(w, 0, 7) = opcode /\ Slice(w, 7, 5) = rd /\ Slice(w, 12, 3) = f3
  /\ Slice(w, 15, 5) = rs1 /\ Slice(w, 20, 5) = rs2 /\ Slice(w, 25, 7) = f7

LEMMA FieldsOfEncode ==
  ASSUME NEW opcode \in 0..127, NEW rd \in 0..31, NEW f3 \in 0..7, NEW rs1 \in 0..31,
         NEW rs2 \in 0..31, NEW f7 \in 0..127, NEW w,
         IsEncoded(w, opcode, rd, f3, rs1, rs2, f7)
  PROVE  SlicedR(w, opcode, rd, f3, rs1, rs2, f7)
<1>1. 2^3 = 8 /\ 2^5 = 32 /\ 2^7 = 128
  BY SMT
<1>2. /\ Slice(w, 0, 7) = opcode % 2^7 /\ Slice(w, 7, 5) = rd % 2^5
      /\ Slice(w, 12, 3) = f3 % 2^3 /\ Slice(w, 15, 5) = rs1 % 2^5
      /\ Slice(w, 20, 5) = rs2 % 2^5 /\ Slice(w, 25, 7) = f7 % 2^7
  BY SliceIs DEF IsEncoded
<1> QED BY <1>1, <1>2 DEF SlicedR

LEMMA BitsOfR ==
  ASSUME NEW opcode \in 0..127, NEW rd \in 0..31, NEW f3 \in 0..7, NEW rs1 \in 0..31,
         NEW rs2 \in 0..31, NEW f7 \in 0..127, NEW w, w = Encode(opcode, rd, f3, rs1, rs2, f7)
  PROVE  SlicedR(w, opcode, rd, f3, rs1, rs2, f7)
<1>1. IsEncoded(w, opcode, rd, f3, rs1, rs2, f7)
  <2>1. /\ opcode \in Int /\ rd \in Int /\ f3 \in Int /\ rs1 \in Int /\ rs2 \in Int
        /\ f7 \in Int
    OBVIOUS
  <2> QED BY <2>1, EncodeBits, Zenon
<1> QED BY <1>1, FieldsOfEncode, Zenon

SlicedI(w, opcode, rd, f3, rs1, imm) ==
  /\ Slice(w, 0, 7) = opcode /\ Slice(w, 7, 5) = rd /\ Slice(w, 12, 3) = f3
  /\ Slice(w, 15, 5) = rs1 /\ Slice(w, 20, 12) = imm % 4096

LEMMA BitsOfI ==
  ASSUME NEW opcode \in 0..127, NEW rd \in 0..31, NEW f3 \in 0..7, NEW rs1 \in 0..31,
         NEW imm \in Int, NEW w,
         w = Field(imm, 12, 20) \cup Encode(opcode, rd, f3, rs1, 0, 0)
  PROVE  SlicedI(w, opcode, rd, f3, rs1, imm)
<1> DEFINE E == Encode(opcode, rd, f3, rs1, 0, 0)
           F == Field(imm, 12, 20)
<1>1. IsEncoded(E, opcode, rd, f3, rs1, 0, 0)
  BY EncodeBits
<1>2. /\ \A j \in 0..11 : 20 + j \in F <=> Bit(imm, j)
      /\ F \subseteq 20..31
  BY FieldBits, 12 - 1 = 11, 20 + 12 - 1 = 31 DEF Has
<1>3. w = F \cup E
  OBVIOUS
<1> HIDE DEF E, F
<1>4. Has(w, 0, 7, opcode) /\ Has(w, 7, 5, rd) /\ Has(w, 12, 3, f3) /\ Has(w, 15, 5, rs1)
  BY <1>1, <1>2, <1>3 DEF Has, IsEncoded
<1>5. \A x \in 20..31 : x \notin E
  <2>1. ASSUME NEW x \in 20..24 PROVE x \notin E
    BY <1>1, BitsOfZero, x - 20 \in 0..4, x = 20 + (x - 20) DEF Has, IsEncoded
  <2>2. ASSUME NEW x \in 25..31 PROVE x \notin E
    BY <1>1, BitsOfZero, x - 25 \in 0..6, x = 25 + (x - 25) DEF Has, IsEncoded
  <2> QED BY <2>1, <2>2
<1>6. Has(w, 20, 12, imm)
  BY <1>2, <1>3, <1>5 DEF Has
<1>7. 2^3 = 8 /\ 2^5 = 32 /\ 2^7 = 128 /\ 2^12 = 4096
  BY SMT
<1>8. /\ Slice(w, 0, 7) = opcode % 2^7 /\ Slice(w, 7, 5) = rd % 2^5
      /\ Slice(w, 12, 3) = f3 % 2^3 /\ Slice(w, 15, 5) = rs1 % 2^5
      /\ Slice(w, 20, 12) = imm % 2^12
  BY <1>4, <1>6, SliceIs
<1> QED BY <1>7, <1>8 DEF SlicedI

(* What Encode leaves out of a word where it is given zeros.               *)
LEMMA ZerosLeft ==
  ASSUME NEW w, NEW at \in Nat, NEW n \in 0..32, Has(w, at, n, 0)
  PROVE  \A x \in at..at + n - 1 : x \notin w
<1> SUFFICES ASSUME NEW x \in at..at + n - 1 PROVE x \notin w
  OBVIOUS
<1>1. x - at \in 0..n - 1 /\ x - at \in 0..31 /\ at + (x - at) = x
  OBVIOUS
<1> QED BY <1>1, BitsOfZero DEF Has

SlicedS(w, opcode, f3, rs1, rs2, off) ==
  /\ Slice(w, 0, 7) = opcode /\ Slice(w, 12, 3) = f3
  /\ Slice(w, 15, 5) = rs1 /\ Slice(w, 20, 5) = rs2
  /\ Slice(w, 25, 7) = (off \div 32) % 128 /\ Slice(w, 7, 5) = off % 32

LEMMA BitsOfS ==
  ASSUME NEW opcode \in 0..127, NEW f3 \in 0..7, NEW rs1 \in 0..31, NEW rs2 \in 0..31,
         NEW off \in Int, NEW w,
         w = Place(off, 5, 7, 25) \cup Place(off, 0, 5, 7) \cup Encode(opcode, 0, f3, rs1, rs2, 0)
  PROVE  SlicedS(w, opcode, f3, rs1, rs2, off)
<1> DEFINE E == Encode(opcode, 0, f3, rs1, rs2, 0)
           F == Place(off, 5, 7, 25)
           G == Place(off, 0, 5, 7)
<1>1. IsEncoded(E, opcode, 0, f3, rs1, rs2, 0)
  BY EncodeBits
<1>2. IsPlaced(F, 25, 7, off, 5) /\ F \subseteq 25..31
  BY PlaceBits, 25 + 7 - 1 = 31
<1>3. IsPlaced(G, 7, 5, off, 0) /\ G \subseteq 7..11
  BY PlaceBits, 7 + 5 - 1 = 11
<1>4. \A x \in 25..31 : x \notin E
  BY <1>1, ZerosLeft, 25 + 7 - 1 = 31 DEF IsEncoded
<1>5. \A x \in 7..11 : x \notin E
  BY <1>1, ZerosLeft, 7 + 5 - 1 = 11 DEF IsEncoded
<1>6. w = F \cup G \cup E
  OBVIOUS
<1> HIDE DEF E, F, G
<1>7. Has(w, 0, 7, opcode) /\ Has(w, 12, 3, f3) /\ Has(w, 15, 5, rs1) /\ Has(w, 20, 5, rs2)
  BY <1>1, <1>2, <1>3, <1>6 DEF Has, IsEncoded
<1>8. IsPlaced(w, 25, 7, off, 5)
  BY <1>2, <1>3, <1>4, <1>6 DEF IsPlaced
<1>9. IsPlaced(w, 7, 5, off, 0)
  BY <1>2, <1>3, <1>5, <1>6 DEF IsPlaced
<1>10. /\ Slice(w, 0, 7) = opcode % 2^7 /\ Slice(w, 12, 3) = f3 % 2^3
       /\ Slice(w, 15, 5) = rs1 % 2^5 /\ Slice(w, 20, 5) = rs2 % 2^5
  BY <1>7, SliceIs
<1>11. Slice(w, 25, 7) = Part(off, 5, 7) /\ Slice(w, 7, 5) = Part(off, 0, 5)
  BY <1>8, <1>9, SliceOfPlaced
<1>12. 2^0 = 1 /\ 2^3 = 8 /\ 2^5 = 32 /\ 2^7 = 128 /\ off \div 1 = off
  BY SMT
<1> QED BY <1>10, <1>11, <1>12 DEF Part, SlicedS

SlicedB(w, opcode, f3, rs1, rs2, off) ==
  /\ Slice(w, 0, 7) = opcode /\ Slice(w, 12, 3) = f3
  /\ Slice(w, 15, 5) = rs1 /\ Slice(w, 20, 5) = rs2
  /\ Slice(w, 31, 1) = (off \div 4096) % 2 /\ Slice(w, 25, 6) = (off \div 32) % 64
  /\ Slice(w, 8, 4) = (off \div 2) % 16 /\ Slice(w, 7, 1) = (off \div 2048) % 2

LEMMA BitsOfB ==
  ASSUME NEW opcode \in 0..127, NEW f3 \in 0..7, NEW rs1 \in 0..31, NEW rs2 \in 0..31,
         NEW off \in Int, NEW w,
         w = Place(off, 12, 1, 31) \cup Place(off, 5, 6, 25) \cup Place(off, 1, 4, 8)
               \cup Place(off, 11, 1, 7) \cup Encode(opcode, 0, f3, rs1, rs2, 0)
  PROVE  SlicedB(w, opcode, f3, rs1, rs2, off)
<1> DEFINE E == Encode(opcode, 0, f3, rs1, rs2, 0)
           F == Place(off, 12, 1, 31)
           G == Place(off, 5, 6, 25)
           H == Place(off, 1, 4, 8)
           I == Place(off, 11, 1, 7)
<1>1. IsEncoded(E, opcode, 0, f3, rs1, rs2, 0)
  BY EncodeBits
<1>2. IsPlaced(F, 31, 1, off, 12) /\ F \subseteq 31..31
  BY PlaceBits, 31 + 1 - 1 = 31
<1>3. IsPlaced(G, 25, 6, off, 5) /\ G \subseteq 25..30
  BY PlaceBits, 25 + 6 - 1 = 30
<1>4. IsPlaced(H, 8, 4, off, 1) /\ H \subseteq 8..11
  BY PlaceBits, 8 + 4 - 1 = 11
<1>5. IsPlaced(I, 7, 1, off, 11) /\ I \subseteq 7..7
  BY PlaceBits, 7 + 1 - 1 = 7
<1>6. \A x \in 25..31 : x \notin E
  BY <1>1, ZerosLeft, 25 + 7 - 1 = 31 DEF IsEncoded
<1>7. \A x \in 7..11 : x \notin E
  BY <1>1, ZerosLeft, 7 + 5 - 1 = 11 DEF IsEncoded
<1>8. w = F \cup G \cup H \cup I \cup E
  OBVIOUS
<1> HIDE DEF E, F, G, H, I
<1>9. Has(w, 0, 7, opcode) /\ Has(w, 12, 3, f3) /\ Has(w, 15, 5, rs1) /\ Has(w, 20, 5, rs2)
  BY <1>1, <1>2, <1>3, <1>4, <1>5, <1>8 DEF Has, IsEncoded
<1>10. IsPlaced(w, 31, 1, off, 12) /\ IsPlaced(w, 25, 6, off, 5)
  BY <1>2, <1>3, <1>4, <1>5, <1>6, <1>8 DEF IsPlaced
<1>11. IsPlaced(w, 8, 4, off, 1) /\ IsPlaced(w, 7, 1, off, 11)
  BY <1>2, <1>3, <1>4, <1>5, <1>7, <1>8 DEF IsPlaced
<1>12. /\ Slice(w, 0, 7) = opcode % 2^7 /\ Slice(w, 12, 3) = f3 % 2^3
       /\ Slice(w, 15, 5) = rs1 % 2^5 /\ Slice(w, 20, 5) = rs2 % 2^5
  BY <1>9, SliceIs
<1>13. /\ Slice(w, 31, 1) = Part(off, 12, 1) /\ Slice(w, 25, 6) = Part(off, 5, 6)
       /\ Slice(w, 8, 4) = Part(off, 1, 4) /\ Slice(w, 7, 1) = Part(off, 11, 1)
  BY <1>10, <1>11, SliceOfPlaced
<1>14. /\ 2^1 = 2 /\ 2^3 = 8 /\ 2^4 = 16 /\ 2^5 = 32 /\ 2^6 = 64 /\ 2^7 = 128
       /\ 2^11 = 2048 /\ 2^12 = 4096
  BY SMT
<1> QED BY <1>12, <1>13, <1>14 DEF Part, SlicedB

SlicedU(w, opcode, rd, imm) ==
  /\ Slice(w, 0, 7) = opcode /\ Slice(w, 7, 5) = rd
  /\ Slice(w, 12, 20) = imm % 1048576

LEMMA BitsOfU ==
  ASSUME NEW opcode \in 0..127, NEW rd \in 0..31, NEW imm \in Int, NEW w,
         w = Field(imm, 20, 12) \cup Encode(opcode, rd, 0, 0, 0, 0)
  PROVE  SlicedU(w, opcode, rd, imm)
<1> DEFINE E == Encode(opcode, rd, 0, 0, 0, 0)
           F == Field(imm, 20, 12)
<1>1. IsEncoded(E, opcode, rd, 0, 0, 0, 0)
  BY EncodeBits
<1>2. Has(F, 12, 20, imm) /\ F \subseteq 12..31
  BY FieldBits, 12 + 20 - 1 = 31
<1>3. \A x \in 12..31 : x \notin E
  <2>1. (\A x \in 12..14 : x \notin E) /\ (\A x \in 15..19 : x \notin E)
    BY <1>1, ZerosLeft, 12 + 3 - 1 = 14, 15 + 5 - 1 = 19 DEF IsEncoded
  <2>2. (\A x \in 20..24 : x \notin E) /\ (\A x \in 25..31 : x \notin E)
    BY <1>1, ZerosLeft, 20 + 5 - 1 = 24, 25 + 7 - 1 = 31 DEF IsEncoded
  <2> HIDE DEF E
  <2> QED BY <2>1, <2>2
<1>4. w = F \cup E
  OBVIOUS
<1> HIDE DEF E, F
<1>5. Has(w, 0, 7, opcode) /\ Has(w, 7, 5, rd)
  BY <1>1, <1>2, <1>4 DEF Has, IsEncoded
<1>6. Has(w, 12, 20, imm)
  BY <1>2, <1>3, <1>4 DEF Has
<1>7. /\ Slice(w, 0, 7) = opcode % 2^7 /\ Slice(w, 7, 5) = rd % 2^5
      /\ Slice(w, 12, 20) = imm % 2^20
  BY <1>5, <1>6, SliceIs
<1>8. 2^5 = 32 /\ 2^7 = 128 /\ 2^20 = 1048576
  BY SMT
<1> QED BY <1>7, <1>8 DEF SlicedU

SlicedJ(w, opcode, rd, off) ==
  /\ Slice(w, 0, 7) = opcode /\ Slice(w, 7, 5) = rd
  /\ Slice(w, 31, 1) = (off \div 1048576) % 2 /\ Slice(w, 21, 10) = (off \div 2) % 1024
  /\ Slice(w, 20, 1) = (off \div 2048) % 2 /\ Slice(w, 12, 8) = (off \div 4096) % 256

LEMMA BitsOfJ ==
  ASSUME NEW opcode \in 0..127, NEW rd \in 0..31, NEW off \in Int, NEW w,
         w = Place(off, 20, 1, 31) \cup Place(off, 1, 10, 21) \cup Place(off, 11, 1, 20)
               \cup Place(off, 12, 8, 12) \cup Encode(opcode, rd, 0, 0, 0, 0)
  PROVE  SlicedJ(w, opcode, rd, off)
<1> DEFINE E == Encode(opcode, rd, 0, 0, 0, 0)
           F == Place(off, 20, 1, 31)
           G == Place(off, 1, 10, 21)
           H == Place(off, 11, 1, 20)
           I == Place(off, 12, 8, 12)
<1>1. IsEncoded(E, opcode, rd, 0, 0, 0, 0)
  BY EncodeBits
<1>2. IsPlaced(F, 31, 1, off, 20) /\ F \subseteq 31..31
  BY PlaceBits, 31 + 1 - 1 = 31
<1>3. IsPlaced(G, 21, 10, off, 1) /\ G \subseteq 21..30
  BY PlaceBits, 21 + 10 - 1 = 30
<1>4. IsPlaced(H, 20, 1, off, 11) /\ H \subseteq 20..20
  BY PlaceBits, 20 + 1 - 1 = 20
<1>5. IsPlaced(I, 12, 8, off, 12) /\ I \subseteq 12..19
  BY PlaceBits, 12 + 8 - 1 = 19
<1>6. \A x \in 12..31 : x \notin E
  <2>1. (\A x \in 12..14 : x \notin E) /\ (\A x \in 15..19 : x \notin E)
    BY <1>1, ZerosLeft, 12 + 3 - 1 = 14, 15 + 5 - 1 = 19 DEF IsEncoded
  <2>2. (\A x \in 20..24 : x \notin E) /\ (\A x \in 25..31 : x \notin E)
    BY <1>1, ZerosLeft, 20 + 5 - 1 = 24, 25 + 7 - 1 = 31 DEF IsEncoded
  <2> HIDE DEF E
  <2> QED BY <2>1, <2>2
<1>7. w = F \cup G \cup H \cup I \cup E
  OBVIOUS
<1> HIDE DEF E, F, G, H, I
<1>8. Has(w, 0, 7, opcode) /\ Has(w, 7, 5, rd)
  BY <1>1, <1>2, <1>3, <1>4, <1>5, <1>7 DEF Has, IsEncoded
<1>9. IsPlaced(w, 31, 1, off, 20) /\ IsPlaced(w, 21, 10, off, 1)
  BY <1>2, <1>3, <1>4, <1>5, <1>6, <1>7 DEF IsPlaced
<1>10. IsPlaced(w, 20, 1, off, 11) /\ IsPlaced(w, 12, 8, off, 12)
  BY <1>2, <1>3, <1>4, <1>5, <1>6, <1>7 DEF IsPlaced
<1>11. /\ Slice(w, 0, 7) = opcode % 2^7 /\ Slice(w, 7, 5) = rd % 2^5
  BY <1>8, SliceIs
<1>12. /\ Slice(w, 31, 1) = Part(off, 20, 1) /\ Slice(w, 21, 10) = Part(off, 1, 10)
       /\ Slice(w, 20, 1) = Part(off, 11, 1) /\ Slice(w, 12, 8) = Part(off, 12, 8)
  BY <1>9, <1>10, SliceOfPlaced
<1>13. /\ 2^1 = 2 /\ 2^5 = 32 /\ 2^7 = 128 /\ 2^8 = 256 /\ 2^10 = 1024 /\ 2^11 = 2048
       /\ 2^12 = 4096 /\ 2^20 = 1048576
  BY SMT
<1> QED BY <1>11, <1>12, <1>13 DEF Part, SlicedJ

SlicedFence(w, opcode, fm) ==
  /\ Slice(w, 0, 7) = opcode /\ Slice(w, 12, 3) = 0 /\ Slice(w, 28, 4) = fm

LEMMA BitsOfFence ==
  ASSUME NEW opcode \in 0..127, NEW fm \in 0..15, NEW pred \in 0..15, NEW succ \in 0..15, NEW w,
         w = Field(fm, 4, 28) \cup Field(pred, 4, 24) \cup Field(succ, 4, 20) \cup Field(opcode, 7, 0)
  PROVE  SlicedFence(w, opcode, fm)
<1> DEFINE E == Field(opcode, 7, 0)
           F == Field(fm, 4, 28)
           G == Field(pred, 4, 24)
           H == Field(succ, 4, 20)
<1>1. Has(E, 0, 7, opcode) /\ E \subseteq 0..6
  <2>1. Has(E, 0, 7, opcode) /\ E \subseteq 0..0 + 7 - 1
    BY FieldBits, opcode \in Int, 7 \in Nat, 0 \in Nat, Zenon
  <2> QED BY <2>1, 0 + 7 - 1 = 6
<1>2. Has(F, 28, 4, fm) /\ F \subseteq 28..31
  <2>1. Has(F, 28, 4, fm) /\ F \subseteq 28..28 + 4 - 1
    BY FieldBits, fm \in Int, 4 \in Nat, 28 \in Nat, Zenon
  <2> QED BY <2>1, 28 + 4 - 1 = 31
<1>3. Has(G, 24, 4, pred) /\ G \subseteq 24..27
  <2>1. Has(G, 24, 4, pred) /\ G \subseteq 24..24 + 4 - 1
    BY FieldBits, pred \in Int, 4 \in Nat, 24 \in Nat, Zenon
  <2> QED BY <2>1, 24 + 4 - 1 = 27
<1>4. Has(H, 20, 4, succ) /\ H \subseteq 20..23
  <2>1. Has(H, 20, 4, succ) /\ H \subseteq 20..20 + 4 - 1
    BY FieldBits, succ \in Int, 4 \in Nat, 20 \in Nat, Zenon
  <2> QED BY <2>1, 20 + 4 - 1 = 23
<1>5. w = F \cup G \cup H \cup E
  OBVIOUS
<1> HIDE DEF E, F, G, H
<1>6. Has(w, 0, 7, opcode) /\ Has(w, 28, 4, fm)
  BY <1>1, <1>2, <1>3, <1>4, <1>5 DEF Has
<1>7. Has(w, 12, 3, 0)
  BY <1>1, <1>2, <1>3, <1>4, <1>5, BitsOfZero DEF Has
<1>8. /\ Slice(w, 0, 7) = opcode % 2^7 /\ Slice(w, 28, 4) = fm % 2^4
      /\ Slice(w, 12, 3) = 0 % 2^3
  BY <1>6, <1>7, SliceIs
<1>9. 2^3 = 8 /\ 2^4 = 16 /\ 2^7 = 128
  BY SMT
<1> QED BY <1>8, <1>9 DEF SlicedFence

SlicedSys0(w, opcode, n) ==
  /\ Slice(w, 0, 7) = opcode /\ Slice(w, 12, 3) = 0 /\ Slice(w, 20, 12) = n

LEMMA BitsOfSys0 ==
  ASSUME NEW opcode \in 0..127, NEW n \in 0..1, NEW w,
         w = Field(opcode, 7, 0) \cup Field(n, 1, 20)
  PROVE  SlicedSys0(w, opcode, n)
<1> DEFINE E == Field(opcode, 7, 0)
           F == Field(n, 1, 20)
<1>1. Has(E, 0, 7, opcode) /\ E \subseteq 0..6
  <2>1. Has(E, 0, 7, opcode) /\ E \subseteq 0..0 + 7 - 1
    BY FieldBits, opcode \in Int, 7 \in Nat, 0 \in Nat, Zenon
  <2> QED BY <2>1, 0 + 7 - 1 = 6
<1>2. Has(F, 20, 1, n) /\ F \subseteq 20..20
  BY FieldBits, 20 + 1 - 1 = 20
<1>3. w = E \cup F
  OBVIOUS
<1> HIDE DEF E, F
<1>4. Has(w, 0, 7, opcode)
  BY <1>1, <1>2, <1>3 DEF Has
<1>5. Has(w, 12, 3, 0)
  BY <1>1, <1>2, <1>3, BitsOfZero DEF Has
<1>6. ASSUME NEW k \in 1..11 PROVE ~Bit(n, k)
  <2>1. 2^k \in Nat \ {0} /\ 2^k > 1
    <3> DEFINE j == k - 1
    <3>1. j \in 0..31 /\ j + 1 = k
      OBVIOUS
    <3> HIDE DEF j
    <3>2. 2^(j + 1) = 2 * 2^j /\ 2^j \in Nat \ {0}
      BY <3>1, Powers
    <3> QED BY <3>1, <3>2
  <2>2. n = 2^k * 0 + n /\ n \in 0..2^k - 1
    BY <2>1
  <2>3. n \div 2^k = 0
    BY <2>1, <2>2, DivisionIsUnique, 0 \in Int
  <2>4. 0 % 2 # 1
    OBVIOUS
  <2> QED BY <2>3, <2>4, Zenon DEF Bit
<1>7. Has(w, 20, 12, n)
  BY <1>1, <1>2, <1>3, <1>6 DEF Has
<1>8. /\ Slice(w, 0, 7) = opcode % 2^7 /\ Slice(w, 20, 12) = n % 2^12
      /\ Slice(w, 12, 3) = 0 % 2^3
  BY <1>4, <1>5, <1>7, SliceIs
<1>9. 2^3 = 8 /\ 2^7 = 128 /\ 2^12 = 4096
  BY SMT
<1> QED BY <1>8, <1>9 DEF SlicedSys0

-----------------------------------------------------------------------------
(* The immediates, put together again.                                     *)

LEMMA Literals ==
  /\ 2^5 = 32 /\ 2^11 = 2048 /\ 2^12 = 4096 /\ 2^13 = 8192 /\ 2^19 = 524288
  /\ 2^20 = 1048576 /\ 2^21 = 2097152
  /\ 12 - 1 = 11 /\ 13 - 1 = 12 /\ 20 - 1 = 19 /\ 21 - 1 = 20
BY SMT

LEMMA SignExtendIs ==
  ASSUME NEW x \in Int
  PROVE  /\ SignExtend(x, 12) = IF x >= 2048 THEN x - 4096 ELSE x
         /\ SignExtend(x, 13) = IF x >= 4096 THEN x - 8192 ELSE x
         /\ SignExtend(x, 20) = IF x >= 524288 THEN x - 1048576 ELSE x
         /\ SignExtend(x, 21) = IF x >= 1048576 THEN x - 2097152 ELSE x
BY Literals, SMT DEF SignExtend

(* A number that n bits hold, signed.                                      *)
IsSigned(v, n) == SignExtend(v % 2^n, n) = v

LEMMA SignedAgain ==
  ASSUME NEW v \in Int
  PROVE  /\ IsSigned(v, 12) <=> (v >= -2048 /\ v < 2048)
         /\ IsSigned(v, 13) <=> (v >= -4096 /\ v < 4096)
         /\ IsSigned(v, 20) <=> (v >= -524288 /\ v < 524288)
         /\ IsSigned(v, 21) <=> (v >= -1048576 /\ v < 1048576)
<1>1. v % 4096 \in Int /\ v % 8192 \in Int /\ v % 1048576 \in Int /\ v % 2097152 \in Int
  BY SMT
<1>2. SignExtend(v % 4096, 12) = v <=> (v >= -2048 /\ v < 2048)
  BY <1>1, SignExtendIs, SMT
<1>3. SignExtend(v % 8192, 13) = v <=> (v >= -4096 /\ v < 4096)
  BY <1>1, SignExtendIs, SMT
<1>4. SignExtend(v % 1048576, 20) = v <=> (v >= -524288 /\ v < 524288)
  BY <1>1, SignExtendIs, SMT
<1>5. SignExtend(v % 2097152, 21) = v <=> (v >= -1048576 /\ v < 1048576)
  BY <1>1, SignExtendIs, SMT
<1> QED BY <1>2, <1>3, <1>4, <1>5, Literals, SMT DEF IsSigned

LEMMA ImmediateOfS ==
  ASSUME NEW off \in Int, off >= -2048, off < 2048, NEW w,
         Slice(w, 25, 7) = (off \div 32) % 128, Slice(w, 7, 5) = off % 32
  PROVE  unpack_s(w) = off
<1>1. ((off \div 32) % 128) * 32 + (off % 32) = off % 4096
  BY SMT
<1>2. unpack_s(w) = SignExtend(off % 4096, 12)
  BY <1>1, Literals, SMT DEF unpack_s
<1>3. SignExtend(off % 4096, 12) = off
  <2>1. IsSigned(off, 12)
    BY SignedAgain, SMT
  <2> QED BY <2>1, Literals, SMT DEF IsSigned
<1> QED BY <1>2, <1>3, SMT

LEMMA ImmediateOfB ==
  ASSUME NEW off \in Int, off >= -4096, off < 4096, off % 2 = 0, NEW w,
         Slice(w, 31, 1) = (off \div 4096) % 2, Slice(w, 25, 6) = (off \div 32) % 64,
         Slice(w, 8, 4) = (off \div 2) % 16, Slice(w, 7, 1) = (off \div 2048) % 2
  PROVE  unpack_b(w) = off
<1>1. ((off \div 4096) % 2) * 4096 + ((off \div 2048) % 2) * 2048 + ((off \div 32) % 64) * 32
        + ((off \div 2) % 16) * 2 = off % 8192
  BY SMT
<1>2. unpack_b(w) = SignExtend(off % 8192, 13)
  BY <1>1, Literals, SMT DEF unpack_b
<1>3. SignExtend(off % 8192, 13) = off
  <2>1. IsSigned(off, 13)
    BY SignedAgain, SMT
  <2> QED BY <2>1, Literals, SMT DEF IsSigned
<1> QED BY <1>2, <1>3, SMT

LEMMA ImmediateOfJ ==
  ASSUME NEW off \in Int, off >= -1048576, off < 1048576, off % 2 = 0, NEW w,
         Slice(w, 31, 1) = (off \div 1048576) % 2, Slice(w, 21, 10) = (off \div 2) % 1024,
         Slice(w, 20, 1) = (off \div 2048) % 2, Slice(w, 12, 8) = (off \div 4096) % 256
  PROVE  unpack_j(w) = off
<1> DEFINE a == off \div 2
           b == off \div 2048
           c == off \div 4096
           d == off \div 1048576
           e == off \div 2097152
<1>1. /\ off = 2 * a /\ a = 1024 * b + (a % 1024) /\ b = 2 * c + (b % 2)
      /\ c = 256 * d + (c % 256) /\ d = 2 * e + (d % 2)
  <2>1. off = 2 * a /\ a = 1024 * b + (a % 1024)
    BY SMT
  <2>2. b = 2 * c + (b % 2)
    BY SMT
  <2>3. c = 256 * d + (c % 256)
    BY SMT
  <2>4. d = 2 * e + (d % 2)
    BY SMT
  <2> QED BY <2>1, <2>2, <2>3, <2>4, SMT
<1>2. /\ a \in Int /\ b \in Int /\ c \in Int /\ d \in Int /\ e \in Int
      /\ a % 1024 \in 0..1023 /\ b % 2 \in 0..1 /\ c % 256 \in 0..255 /\ d % 2 \in 0..1
  BY SMT
<1> HIDE DEF a, b, c, d, e
<1> DEFINE sum == (d % 2) * 1048576 + (c % 256) * 4096 + (b % 2) * 2048 + (a % 1024) * 2
<1>3. off = 2097152 * e + sum /\ sum \in Int /\ sum >= 0 /\ sum < 2097152
  BY <1>1, <1>2, SMT
<1> HIDE DEF sum
<1>4. sum = off % 2097152
  BY <1>2, <1>3, SMT
<1>5. unpack_j(w) = SignExtend(off % 2097152, 21)
  <2>1. /\ Slice(w, 31, 1) = d % 2 /\ Slice(w, 21, 10) = a % 1024
        /\ Slice(w, 20, 1) = b % 2 /\ Slice(w, 12, 8) = c % 256
    BY SMT DEF a, b, c, d
  <2> QED BY <1>4, <2>1, Literals, SMT DEF unpack_j, sum
<1>6. SignExtend(off % 2097152, 21) = off
  <2>1. IsSigned(off, 21)
    BY SignedAgain, SMT
  <2> QED BY <2>1, Literals, SMT DEF IsSigned
<1> QED BY <1>5, <1>6, SMT

-----------------------------------------------------------------------------
(* The table of the instructions.                                          *)

(* funct3 of the mnemonics of each family.                                 *)
RegisterF3 == [add |-> 0, sll |-> 1, slt |-> 2, sltu |-> 3,
               xor |-> 4, srl |-> 5, or |-> 6, and |-> 7]
AlternateF3 == [sub |-> 0, sra |-> 5]
ImmediateF3 == [addi |-> 0, slti |-> 2, sltiu |-> 3, xori |-> 4, ori |-> 6, andi |-> 7]
ShiftF3 == [slli |-> 1, srli |-> 5]
SraiF3 == [srai |-> 5]
BranchF3 == [beq |-> 0, bne |-> 1, blt |-> 4, bge |-> 5, bltu |-> 6, bgeu |-> 7]
LoadF3 == [lb |-> 0, lh |-> 1, lw |-> 2, lbu |-> 4, lhu |-> 5]
StoreF3 == [sb |-> 0, sh |-> 1, sw |-> 2]
JalrF3 == [jalr |-> 0]
JalF3 == [jal |-> Unset]
LuiF3 == [lui |-> Unset]
AuipcF3 == [auipc |-> Unset]
SystemF3 == [ecall |-> 0, ebreak |-> 0]
FenceF3 == [fence |-> 0]
CsrF3 == [csrrw |-> 1, csrrs |-> 2, csrrc |-> 3, csrrwi |-> 5, csrrsi |-> 6, csrrci |-> 7]

IsRow(m, f, opcode, f7, f3s) ==
  /\ m \in DOMAIN f3s /\ ENC[m].f3 = f3s[m]
  /\ ENC[m].fmt = f /\ ENC[m].opcode = opcode /\ ENC[m].f7 = f7

LEMMA RowOf ==
  ASSUME NEW m \in DOMAIN ENC
  PROVE  \E T \in Tables : m \in DOMAIN T /\ ENC[m] = T[m]
<1>1. PICK T \in Tables : m \in DOMAIN T
  BY DEF ENC
<1> DEFINE C == CHOOSE U \in Tables : m \in DOMAIN U
<1>2. C \in Tables /\ m \in DOMAIN C
  BY <1>1
<1>3. ENC[m] = C[m]
  BY DEF ENC
<1> QED BY <1>2, <1>3

LEMMA FamilyRow ==
  ASSUME NEW f, NEW opcode, NEW f7, NEW f3s, NEW m \in DOMAIN Family(f, opcode, f7, f3s),
         ENC[m] = Family(f, opcode, f7, f3s)[m]
  PROVE  IsRow(m, f, opcode, f7, f3s)
BY DEF Family, IsRow

Rows(m) ==
  \/ IsRow(m, "R", 51, 0, RegisterF3)
  \/ IsRow(m, "R", 51, 32, AlternateF3)
  \/ IsRow(m, "I", 19, -1, ImmediateF3)
  \/ IsRow(m, "I", 19, 0, ShiftF3)
  \/ IsRow(m, "I", 19, 32, SraiF3)
  \/ IsRow(m, "B", 99, -1, BranchF3)
  \/ IsRow(m, "I", 3, -1, LoadF3)
  \/ IsRow(m, "S", 35, -1, StoreF3)
  \/ IsRow(m, "I", 103, -1, JalrF3)
  \/ IsRow(m, "J", 111, -1, JalF3)
  \/ IsRow(m, "U", 55, -1, LuiF3)
  \/ IsRow(m, "U", 23, -1, AuipcF3)
  \/ IsRow(m, "SYS0", 115, -1, SystemF3)
  \/ IsRow(m, "FENCE", 15, -1, FenceF3)
  \/ IsRow(m, "Z", 115, -1, CsrF3)

LEMMA RowsOf ==
  ASSUME NEW m \in DOMAIN ENC
  PROVE  Rows(m)
<1>1. PICK T \in Tables : m \in DOMAIN T /\ ENC[m] = T[m]
  BY RowOf
<1>2. \/ T = Family("R", 51, 0, RegisterF3)
      \/ T = Family("R", 51, 32, AlternateF3)
      \/ T = Family("I", 19, -1, ImmediateF3)
      \/ T = Family("I", 19, 0, ShiftF3)
      \/ T = Family("I", 19, 32, SraiF3)
      \/ T = Family("B", 99, -1, BranchF3)
      \/ T = Family("I", 3, -1, LoadF3)
      \/ T = Family("S", 35, -1, StoreF3)
      \/ T = Family("I", 103, -1, JalrF3)
      \/ T = Family("J", 111, -1, JalF3)
      \/ T = Family("U", 55, -1, LuiF3)
      \/ T = Family("U", 23, -1, AuipcF3)
      \/ T = Family("SYS0", 115, -1, SystemF3)
      \/ T = Family("FENCE", 15, -1, FenceF3)
      \/ T = Family("Z", 115, -1, CsrF3)
  BY <1>1 DEF Tables, OP_OP, OP_OPIMM, OP_BRANCH, OP_LOAD, OP_STORE, OP_JALR, OP_JAL, OP_LUI, OP_AUIPC,
     OP_SYSTEM, OP_MISC, F7_NORM, F7_ALT, Unset,
     RegisterF3, AlternateF3, ImmediateF3, ShiftF3, SraiF3, BranchF3, LoadF3, StoreF3, JalrF3, JalF3, LuiF3, AuipcF3, SystemF3, FenceF3, CsrF3
<1>3. CASE T = Family("R", 51, 0, RegisterF3)
  BY <1>1, <1>3, FamilyRow DEF Rows
<1>4. CASE T = Family("R", 51, 32, AlternateF3)
  BY <1>1, <1>4, FamilyRow DEF Rows
<1>5. CASE T = Family("I", 19, -1, ImmediateF3)
  BY <1>1, <1>5, FamilyRow DEF Rows
<1>6. CASE T = Family("I", 19, 0, ShiftF3)
  BY <1>1, <1>6, FamilyRow DEF Rows
<1>7. CASE T = Family("I", 19, 32, SraiF3)
  BY <1>1, <1>7, FamilyRow DEF Rows
<1>8. CASE T = Family("B", 99, -1, BranchF3)
  BY <1>1, <1>8, FamilyRow DEF Rows
<1>9. CASE T = Family("I", 3, -1, LoadF3)
  BY <1>1, <1>9, FamilyRow DEF Rows
<1>10. CASE T = Family("S", 35, -1, StoreF3)
  BY <1>1, <1>10, FamilyRow DEF Rows
<1>11. CASE T = Family("I", 103, -1, JalrF3)
  BY <1>1, <1>11, FamilyRow DEF Rows
<1>12. CASE T = Family("J", 111, -1, JalF3)
  BY <1>1, <1>12, FamilyRow DEF Rows
<1>13. CASE T = Family("U", 55, -1, LuiF3)
  BY <1>1, <1>13, FamilyRow DEF Rows
<1>14. CASE T = Family("U", 23, -1, AuipcF3)
  BY <1>1, <1>14, FamilyRow DEF Rows
<1>15. CASE T = Family("SYS0", 115, -1, SystemF3)
  BY <1>1, <1>15, FamilyRow DEF Rows
<1>16. CASE T = Family("FENCE", 15, -1, FenceF3)
  BY <1>1, <1>16, FamilyRow DEF Rows
<1>17. CASE T = Family("Z", 115, -1, CsrF3)
  BY <1>1, <1>17, FamilyRow DEF Rows
<1> QED BY <1>2, <1>3, <1>4, <1>5, <1>6, <1>7, <1>8, <1>9, <1>10, <1>11, <1>12, <1>13, <1>14, <1>15, <1>16, <1>17

(* A key says which mnemonic of a family it is.                            *)
LEMMA F3Tells ==
  /\ IsInjective(RegisterF3)
  /\ IsInjective(AlternateF3)
  /\ IsInjective(ImmediateF3)
  /\ IsInjective(ShiftF3)
  /\ IsInjective(SraiF3)
  /\ IsInjective(BranchF3)
  /\ IsInjective(LoadF3)
  /\ IsInjective(StoreF3)
  /\ IsInjective(JalrF3)
  /\ IsInjective(JalF3)
  /\ IsInjective(LuiF3)
  /\ IsInjective(AuipcF3)
  /\ IsInjective(FenceF3)
  /\ IsInjective(CsrF3)
<1>1. IsInjective(RegisterF3)
  BY DEF IsInjective, RegisterF3
<1>2. IsInjective(AlternateF3)
  BY DEF IsInjective, AlternateF3
<1>3. IsInjective(ImmediateF3)
  BY DEF IsInjective, ImmediateF3
<1>4. IsInjective(ShiftF3)
  BY DEF IsInjective, ShiftF3
<1>5. IsInjective(SraiF3)
  BY DEF IsInjective, SraiF3
<1>6. IsInjective(BranchF3)
  BY DEF IsInjective, BranchF3
<1>7. IsInjective(LoadF3)
  BY DEF IsInjective, LoadF3
<1>8. IsInjective(StoreF3)
  BY DEF IsInjective, StoreF3
<1>9. IsInjective(JalrF3)
  BY DEF IsInjective, JalrF3
<1>10. IsInjective(JalF3)
  BY DEF IsInjective, JalF3
<1>11. IsInjective(LuiF3)
  BY DEF IsInjective, LuiF3
<1>12. IsInjective(AuipcF3)
  BY DEF IsInjective, AuipcF3
<1>13. IsInjective(FenceF3)
  BY DEF IsInjective, FenceF3
<1>14. IsInjective(CsrF3)
  BY DEF IsInjective, CsrF3
<1> QED BY <1>1, <1>2, <1>3, <1>4, <1>5, <1>6, <1>7, <1>8, <1>9, <1>10, <1>11, <1>12, <1>13, <1>14

LEMMA F3Values ==
  /\ \A m \in DOMAIN RegisterF3 : RegisterF3[m] \in {0, 1, 2, 3, 4, 5, 6, 7}
  /\ \A m \in DOMAIN AlternateF3 : AlternateF3[m] \in {0, 5}
  /\ \A m \in DOMAIN ImmediateF3 : ImmediateF3[m] \in {0, 2, 3, 4, 6, 7}
  /\ \A m \in DOMAIN ShiftF3 : ShiftF3[m] \in {1, 5}
  /\ \A m \in DOMAIN SraiF3 : SraiF3[m] = 5
  /\ \A m \in DOMAIN BranchF3 : BranchF3[m] \in {0, 1, 4, 5, 6, 7}
  /\ \A m \in DOMAIN LoadF3 : LoadF3[m] \in {0, 1, 2, 4, 5}
  /\ \A m \in DOMAIN StoreF3 : StoreF3[m] \in {0, 1, 2}
  /\ \A m \in DOMAIN JalrF3 : JalrF3[m] = 0
  /\ \A m \in DOMAIN JalF3 : JalF3[m] = -1
  /\ \A m \in DOMAIN LuiF3 : LuiF3[m] = -1
  /\ \A m \in DOMAIN AuipcF3 : AuipcF3[m] = -1
  /\ \A m \in DOMAIN SystemF3 : SystemF3[m] = 0 /\ m \in {"ecall", "ebreak"}
  /\ \A m \in DOMAIN FenceF3 : FenceF3[m] = 0
  /\ \A m \in DOMAIN CsrF3 : CsrF3[m] \in {1, 2, 3, 5, 6, 7}
<1>1. \A m \in DOMAIN RegisterF3 : RegisterF3[m] \in {0, 1, 2, 3, 4, 5, 6, 7}
  BY DEF RegisterF3
<1>2. \A m \in DOMAIN AlternateF3 : AlternateF3[m] \in {0, 5}
  BY DEF AlternateF3
<1>3. \A m \in DOMAIN ImmediateF3 : ImmediateF3[m] \in {0, 2, 3, 4, 6, 7}
  BY DEF ImmediateF3
<1>4. \A m \in DOMAIN ShiftF3 : ShiftF3[m] \in {1, 5}
  BY DEF ShiftF3
<1>5. \A m \in DOMAIN SraiF3 : SraiF3[m] = 5
  BY DEF SraiF3
<1>6. \A m \in DOMAIN BranchF3 : BranchF3[m] \in {0, 1, 4, 5, 6, 7}
  BY DEF BranchF3
<1>7. \A m \in DOMAIN LoadF3 : LoadF3[m] \in {0, 1, 2, 4, 5}
  BY DEF LoadF3
<1>8. \A m \in DOMAIN StoreF3 : StoreF3[m] \in {0, 1, 2}
  BY DEF StoreF3
<1>9. \A m \in DOMAIN JalrF3 : JalrF3[m] = 0
  BY DEF JalrF3
<1>10. \A m \in DOMAIN JalF3 : JalF3[m] = -1
  BY DEF JalF3, Unset
<1>11. \A m \in DOMAIN LuiF3 : LuiF3[m] = -1
  BY DEF LuiF3, Unset
<1>12. \A m \in DOMAIN AuipcF3 : AuipcF3[m] = -1
  BY DEF AuipcF3, Unset
<1>13. \A m \in DOMAIN SystemF3 : SystemF3[m] = 0 /\ m \in {"ecall", "ebreak"}
  BY DEF SystemF3
<1>14. \A m \in DOMAIN FenceF3 : FenceF3[m] = 0
  BY DEF FenceF3
<1>15. \A m \in DOMAIN CsrF3 : CsrF3[m] \in {1, 2, 3, 5, 6, 7}
  BY DEF CsrF3
<1> QED BY <1>1, <1>2, <1>3, <1>4, <1>5, <1>6, <1>7, <1>8, <1>9, <1>10, <1>11, <1>12, <1>13, <1>14, <1>15

(* What the encoder needs to know of a row.                                *)
IsTyped(m) ==
  LET e == ENC[m]
  IN /\ e.opcode \in 0..127 /\ e.opcode % 2 = 1
     /\ e.fmt \in {"R", "I", "S", "B", "U", "J", "Z", "FENCE", "SYS0"}
     /\ e.fmt \notin {"U", "J"} => e.f3 \in 0..7
     /\ e.fmt \in {"U", "J"} => e.f3 = Unset
     /\ e.fmt = "R" => e.f7 \in {F7_NORM, F7_ALT}
     /\ e.fmt = "I" => \/ e.f7 = Unset
                       \/ <<e.f3, e.f7>> \in {<<1, F7_NORM>>, <<5, F7_NORM>>, <<5, F7_ALT>>}
     /\ e.fmt \notin {"R", "I"} => e.f7 = Unset
     /\ e.fmt \in {"SYS0", "FENCE"} => e.f3 = 0
     /\ e.fmt = "SYS0" => m \in {"ecall", "ebreak"} /\ e.opcode = OP_SYSTEM
     /\ e.fmt = "FENCE" => e.opcode = OP_MISC
     /\ e.opcode = OP_SYSTEM => e.fmt = "Z" \/ e.fmt = "SYS0"
     /\ e.opcode = OP_SYSTEM /\ e.f3 = 0 => e.fmt = "SYS0"

LEMMA RowIsTyped ==
  ASSUME NEW m \in DOMAIN ENC
  PROVE  IsTyped(m)
<1> USE DEF IsTyped, IsRow, Unset, F7_NORM, F7_ALT, OP_SYSTEM, OP_MISC
<1>1. CASE IsRow(m, "R", 51, 0, RegisterF3)
  BY <1>1, F3Values
<1>2. CASE IsRow(m, "R", 51, 32, AlternateF3)
  BY <1>2, F3Values
<1>3. CASE IsRow(m, "I", 19, -1, ImmediateF3)
  BY <1>3, F3Values
<1>4. CASE IsRow(m, "I", 19, 0, ShiftF3)
  BY <1>4, F3Values
<1>5. CASE IsRow(m, "I", 19, 32, SraiF3)
  BY <1>5, F3Values
<1>6. CASE IsRow(m, "B", 99, -1, BranchF3)
  BY <1>6, F3Values
<1>7. CASE IsRow(m, "I", 3, -1, LoadF3)
  BY <1>7, F3Values
<1>8. CASE IsRow(m, "S", 35, -1, StoreF3)
  BY <1>8, F3Values
<1>9. CASE IsRow(m, "I", 103, -1, JalrF3)
  BY <1>9, F3Values
<1>10. CASE IsRow(m, "J", 111, -1, JalF3)
  BY <1>10, F3Values
<1>11. CASE IsRow(m, "U", 55, -1, LuiF3)
  BY <1>11, F3Values
<1>12. CASE IsRow(m, "U", 23, -1, AuipcF3)
  BY <1>12, F3Values
<1>13. CASE IsRow(m, "SYS0", 115, -1, SystemF3)
  BY <1>13, F3Values
<1>14. CASE IsRow(m, "FENCE", 15, -1, FenceF3)
  BY <1>14, F3Values
<1>15. CASE IsRow(m, "Z", 115, -1, CsrF3)
  BY <1>15, F3Values
<1> HIDE DEF IsTyped, IsRow
<1> QED BY RowsOf, <1>1, <1>2, <1>3, <1>4, <1>5, <1>6, <1>7, <1>8, <1>9, <1>10, <1>11, <1>12, <1>13, <1>14, <1>15 DEF Rows

(* No word satisfies two rows, but for the two that the immediate tells    *)
(* apart.                                                                  *)
Agree(x, y) == x = y \/ x = Unset \/ y = Unset
SameKey(m, n) ==
  ENC[m].opcode = ENC[n].opcode /\ Agree(ENC[m].f3, ENC[n].f3) /\ Agree(ENC[m].f7, ENC[n].f7)

LEMMA OneRow ==
  ASSUME NEW m \in DOMAIN ENC, NEW n \in DOMAIN ENC, SameKey(m, n)
  PROVE  m = n \/ {m, n} \subseteq {"ecall", "ebreak"}
<1>1. ENC[m].opcode = ENC[n].opcode /\ Agree(ENC[m].f3, ENC[n].f3) /\ Agree(ENC[m].f7, ENC[n].f7)
  BY DEF SameKey
<1>2. Rows(n)
  BY RowsOf
<1> USE DEF IsRow, Agree, Unset
<1>3. CASE IsRow(m, "R", 51, 0, RegisterF3)
  BY <1>1, <1>2, <1>3, F3Values, F3Tells DEF Rows, IsInjective
<1>4. CASE IsRow(m, "R", 51, 32, AlternateF3)
  BY <1>1, <1>2, <1>4, F3Values, F3Tells DEF Rows, IsInjective
<1>5. CASE IsRow(m, "I", 19, -1, ImmediateF3)
  BY <1>1, <1>2, <1>5, F3Values, F3Tells DEF Rows, IsInjective
<1>6. CASE IsRow(m, "I", 19, 0, ShiftF3)
  BY <1>1, <1>2, <1>6, F3Values, F3Tells DEF Rows, IsInjective
<1>7. CASE IsRow(m, "I", 19, 32, SraiF3)
  BY <1>1, <1>2, <1>7, F3Values, F3Tells DEF Rows, IsInjective
<1>8. CASE IsRow(m, "B", 99, -1, BranchF3)
  BY <1>1, <1>2, <1>8, F3Values, F3Tells DEF Rows, IsInjective
<1>9. CASE IsRow(m, "I", 3, -1, LoadF3)
  BY <1>1, <1>2, <1>9, F3Values, F3Tells DEF Rows, IsInjective
<1>10. CASE IsRow(m, "S", 35, -1, StoreF3)
  BY <1>1, <1>2, <1>10, F3Values, F3Tells DEF Rows, IsInjective
<1>11. CASE IsRow(m, "I", 103, -1, JalrF3)
  BY <1>1, <1>2, <1>11, F3Values, F3Tells DEF Rows, IsInjective
<1>12. CASE IsRow(m, "J", 111, -1, JalF3)
  BY <1>1, <1>2, <1>12, F3Values, F3Tells DEF Rows, IsInjective
<1>13. CASE IsRow(m, "U", 55, -1, LuiF3)
  BY <1>1, <1>2, <1>13, F3Values, F3Tells DEF Rows, IsInjective
<1>14. CASE IsRow(m, "U", 23, -1, AuipcF3)
  BY <1>1, <1>2, <1>14, F3Values, F3Tells DEF Rows, IsInjective
<1>15. CASE IsRow(m, "SYS0", 115, -1, SystemF3)
  BY <1>1, <1>2, <1>15, F3Values, F3Tells DEF Rows, IsInjective
<1>16. CASE IsRow(m, "FENCE", 15, -1, FenceF3)
  BY <1>1, <1>2, <1>16, F3Values, F3Tells DEF Rows, IsInjective
<1>17. CASE IsRow(m, "Z", 115, -1, CsrF3)
  BY <1>1, <1>2, <1>17, F3Values, F3Tells DEF Rows, IsInjective
<1> HIDE DEF IsRow, Agree
<1> QED BY RowsOf, <1>3, <1>4, <1>5, <1>6, <1>7, <1>8, <1>9, <1>10, <1>11, <1>12, <1>13, <1>14, <1>15, <1>16, <1>17 DEF Rows

LEMMA SystemRows ==
  /\ {"ecall", "ebreak"} \subseteq DOMAIN ENC
  /\ \A m \in {"ecall", "ebreak"} :
       ENC[m].fmt = "SYS0" /\ ENC[m].opcode = OP_SYSTEM /\ ENC[m].f3 = 0 /\ ENC[m].f7 = Unset
<1>1. {"ecall", "ebreak"} \subseteq DOMAIN ENC
  <2> DEFINE T == Family("SYS0", OP_SYSTEM, Unset, [ecall |-> 0, ebreak |-> 0])
  <2>1. T \in Tables
    BY DEF Tables
  <2>2. {"ecall", "ebreak"} \subseteq DOMAIN T
    BY DEF Family
  <2> HIDE DEF T
  <2> QED BY <2>1, <2>2 DEF ENC
<1>2. ASSUME NEW m \in {"ecall", "ebreak"} PROVE IsRow(m, "SYS0", 115, -1, SystemF3)
  <2>1. Rows(m)
    BY <1>1, RowsOf
  <2> QED BY <2>1 DEF Rows, IsRow, RegisterF3, AlternateF3, ImmediateF3, ShiftF3, SraiF3, BranchF3,
             LoadF3, StoreF3, JalrF3, JalF3, LuiF3, AuipcF3, FenceF3, CsrF3
<1> QED BY <1>1, <1>2, F3Values DEF IsRow, OP_SYSTEM, Unset

-----------------------------------------------------------------------------
(* The decoder.                                                            *)

LEMMA FieldsFit ==
  ASSUME NEW w
  PROVE  fields(w).funct3 # Unset /\ fields(w).funct7 # Unset
<1>1. Slice(w, 12, 3) \in 0..2^3 - 1 /\ Slice(w, 25, 7) \in 0..2^7 - 1
  BY SliceFits
<1> QED BY <1>1 DEF fields, Unset

(* Every word, of an encoder or not, decodes to the row that it satisfies. *)
LEMMA DecodesAny ==
  ASSUME NEW w
  PROVE  decode_mnemonic(w) = Satisfied(w)
<1> DEFINE f == fields(w)
           system == f.opcode = OP_SYSTEM /\ f.funct3 = 0
           Fits(m) == /\ ENC[m].opcode = f.opcode
                      /\ ENC[m].f3 \in {f.funct3, Unset}
                      /\ ENC[m].f7 \in {f.funct7, Unset}
                      /\ m = "ecall" => f.imm12 = 0
                      /\ m = "ebreak" => f.imm12 = 1
<1>1. \A m : m \in Satisfied(w) <=> m \in DOMAIN ENC /\ Fits(m)
  BY DEF Satisfied
<1>2. f.funct3 # Unset /\ f.funct7 # Unset
  BY FieldsFit
<1>3. decode_mnemonic(w) = IF system THEN {SYS0_IMMEDIATES[n] : n \in {f.imm12} \cap DOMAIN SYS0_IMMEDIATES}
                           ELSE Lookup(f)
  BY DEF decode_mnemonic
<1> HIDE DEF f
<1>4. ASSUME NEW m \in Satisfied(w), NEW n \in Satisfied(w)
      PROVE  m = n \/ {m, n} \subseteq {"ecall", "ebreak"}
  BY <1>1, <1>4, OneRow DEF SameKey, Agree
<1>5. CASE system
  <2>1. ASSUME NEW m \in Satisfied(w) PROVE m \in {"ecall", "ebreak"}
    <3>1. m \in DOMAIN ENC /\ Fits(m) /\ IsTyped(m)
      BY <1>1, RowIsTyped
    <3>2. ENC[m].f3 = 0
      BY <1>5, <3>1 DEF IsTyped, OP_SYSTEM, Unset
    <3> QED BY <1>5, <3>1, <3>2 DEF IsTyped
  <2>2. "ecall" \in Satisfied(w) <=> f.imm12 = 0
    BY <1>1, <1>5, SystemRows
  <2>3. "ebreak" \in Satisfied(w) <=> f.imm12 = 1
    BY <1>1, <1>5, SystemRows
  <2>4. DOMAIN SYS0_IMMEDIATES = {0, 1} /\ SYS0_IMMEDIATES[0] = "ecall" /\ SYS0_IMMEDIATES[1] = "ebreak"
    BY DEF SYS0_IMMEDIATES
  <2> DEFINE x == f.imm12
  <2>5. decode_mnemonic(w) = {SYS0_IMMEDIATES[n] : n \in {x} \cap {0, 1}}
    BY <1>3, <1>5, <2>4
  <2> HIDE DEF x, Fits
  <2>6. /\ x = 0 => decode_mnemonic(w) = {"ecall"}
        /\ x = 1 => decode_mnemonic(w) = {"ebreak"}
        /\ x # 0 /\ x # 1 => decode_mnemonic(w) = {}
    BY <2>4, <2>5
  <2>7. /\ x = 0 => Satisfied(w) = {"ecall"}
        /\ x = 1 => Satisfied(w) = {"ebreak"}
        /\ x # 0 /\ x # 1 => Satisfied(w) = {}
    BY <2>1, <2>2, <2>3, 0 # 1 DEF x
  <2> QED BY <2>6, <2>7
<1>6. CASE ~system
  <2> DEFINE E == DECODE(f.opcode, f.funct3, f.funct7)
             G == DECODE(f.opcode, f.funct3, Unset)
             N == DECODE(f.opcode, Unset, Unset)
  <2>1. Lookup(f) = IF E # {} THEN E ELSE IF G # {} THEN G ELSE N
    BY DEF Lookup
  <2>2. ASSUME NEW m \in Satisfied(w) PROVE m \in E \cup G \cup N /\ m \notin {"ecall", "ebreak"}
    <3>1. m \in DOMAIN ENC /\ Fits(m) /\ IsTyped(m)
      BY <1>1, RowIsTyped
    <3>2. ENC[m].fmt # "SYS0"
      BY <1>6, <3>1 DEF IsTyped, OP_SYSTEM, Unset
    <3>3. m \notin {"ecall", "ebreak"}
      BY <3>2, SystemRows
    <3>4. ENC[m].f3 = Unset => ENC[m].f7 = Unset
      BY <3>1 DEF IsTyped, Unset
    <3> QED BY <3>1, <3>2, <3>3, <3>4 DEF DECODE, _table_key
  <2>3. ASSUME NEW m \in E \cup G \cup N PROVE m \in Satisfied(w)
    <3>1. m \in DOMAIN ENC /\ ENC[m].fmt # "SYS0"
      BY DEF DECODE
    <3>2. /\ ENC[m].opcode = f.opcode /\ ENC[m].f3 \in {f.funct3, Unset}
          /\ ENC[m].f7 \in {f.funct7, Unset}
      BY DEF DECODE, _table_key
    <3>3. m \notin {"ecall", "ebreak"}
      BY <3>1, SystemRows
    <3> QED BY <1>1, <3>1, <3>2, <3>3
  <2> HIDE DEF E, G, N
  <2>4. \A m, n \in Satisfied(w) : m = n
    BY <1>4, <2>2
  <2> QED BY <1>3, <1>6, <2>1, <2>2, <2>3, <2>4
<1> QED BY <1>5, <1>6

LEMMA DecodesTo ==
  ASSUME NEW m \in DOMAIN ENC, NEW w, ENC[m].opcode = Slice(w, 0, 7),
         ENC[m].f3 \in {Slice(w, 12, 3), Unset}, ENC[m].f7 \in {Slice(w, 25, 7), Unset},
         m = "ecall" => Slice(w, 20, 12) = 0, m = "ebreak" => Slice(w, 20, 12) = 1
  PROVE  decode_mnemonic(w) = {m}
<1>1. m \in Satisfied(w)
  BY DEF Satisfied, fields
<1>2. ASSUME NEW n \in Satisfied(w) PROVE n = m
  <2>1. /\ n \in DOMAIN ENC /\ ENC[n].opcode = Slice(w, 0, 7)
        /\ ENC[n].f3 \in {Slice(w, 12, 3), Unset} /\ ENC[n].f7 \in {Slice(w, 25, 7), Unset}
        /\ n = "ecall" => Slice(w, 20, 12) = 0
        /\ n = "ebreak" => Slice(w, 20, 12) = 1
    BY DEF Satisfied, fields
  <2>2. n = m \/ {n, m} \subseteq {"ecall", "ebreak"}
    BY <2>1, OneRow DEF SameKey, Agree
  <2> QED BY <2>1, <2>2, 0 # 1
<1> QED BY <1>1, <1>2, DecodesAny

-----------------------------------------------------------------------------
(* The encoder.                                                            *)

LEMMA Ranges ==
  ASSUME NEW v
  PROVE  /\ _check_range("I", v) <=> v \in Int /\ v >= -2048 /\ v < 2048
         /\ _check_range("S", v) <=> v \in Int /\ v >= -2048 /\ v < 2048
         /\ _check_range("B", v) <=> v \in Int /\ v >= -4096 /\ v <= 4094
         /\ _check_range("U", v) <=> v \in Int /\ v >= -524288 /\ v < 1048576
         /\ _check_range("J", v) <=> v \in Int /\ v >= -1048576 /\ v <= 1048574
         /\ _check_range("SHAMT", v) <=> v \in 0..31
         /\ _check_range("CSR", v) <=> v \in Int /\ v >= 0 /\ v < 4096
         /\ _check_range("ZIMM", v) <=> v \in 0..31
         /\ _check_range("FENCE", v) <=> v \in 0..15
<1>1. /\ IMM_RANGES["I"] = -(2^11)..2^11 - 1 /\ IMM_RANGES["S"] = -(2^11)..2^11 - 1
      /\ IMM_RANGES["B"] = -(2^12)..2^12 - 2 /\ IMM_RANGES["CSR"] = 0..2^12 - 1
  BY Literals, SMT DEF IMM_RANGES
<1>2. /\ IMM_RANGES["SHAMT"] = 0..31 /\ IMM_RANGES["ZIMM"] = 0..31
      /\ IMM_RANGES["FENCE"] = 0..15
  BY SMT DEF IMM_RANGES
<1>3. _check_range("U", v) <=> v \in Int /\ v >= -524288 /\ v < 1048576
  BY Literals, SMT DEF _check_range, IMM_RANGES
<1>4. _check_range("J", v) <=> v \in Int /\ v >= -1048576 /\ v <= 1048574
  BY Literals, SMT DEF _check_range, IMM_RANGES
<1>5. v \in -(2^11)..2^11 - 1 <=> v \in Int /\ v >= -2048 /\ v < 2048
  BY Literals, SMT
<1>6. v \in -(2^12)..2^12 - 2 <=> v \in Int /\ v >= -4096 /\ v <= 4094
  BY Literals, SMT
<1>7. v \in 0..2^12 - 1 <=> v \in Int /\ v >= 0 /\ v < 4096
  BY Literals, SMT
<1>8. /\ _check_range("I", v) <=> v \in Int /\ v >= -2048 /\ v < 2048
      /\ _check_range("S", v) <=> v \in Int /\ v >= -2048 /\ v < 2048
  BY <1>1, <1>5, SMT DEF _check_range
<1>9. _check_range("B", v) <=> v \in Int /\ v >= -4096 /\ v <= 4094
  BY <1>1, <1>6, SMT DEF _check_range
<1>10. _check_range("CSR", v) <=> v \in Int /\ v >= 0 /\ v < 4096
  BY <1>1, <1>7, SMT DEF _check_range
<1>11. /\ _check_range("SHAMT", v) <=> v \in 0..31
       /\ _check_range("ZIMM", v) <=> v \in 0..31
       /\ _check_range("FENCE", v) <=> v \in 0..15
  BY <1>2 DEF _check_range
<1> QED BY <1>3, <1>4, <1>8, <1>9, <1>10, <1>11, SMT

LEMMA SmallRanges ==
  ASSUME NEW v
  PROVE  /\ _check_range("SHAMT", v) <=> v \in 0..31
         /\ _check_range("ZIMM", v) <=> v \in 0..31
         /\ _check_range("FENCE", v) <=> v \in 0..15
BY Ranges, SMT

(* What a word gives back of a request a for the mnemonic m.               *)
IsRead(m, a, w) ==
  /\ decode_mnemonic(w) = {m}
  /\ UsesRd(m) => Slice(w, 7, 5) = a.rd
  /\ UsesRs1(m) => Slice(w, 15, 5) = a.rs1
  /\ UsesRs2(m) => Slice(w, 20, 5) = a.rs2
ImmediateIs(m, imm, w) ==
  LET f == ENC[m].fmt
  IN /\ f = "S" => unpack_s(w) = imm
     /\ f = "B" => unpack_b(w) = imm
     /\ f = "J" => unpack_j(w) = imm
     /\ f = "U" => Slice(w, 12, 20) = imm % 1048576
     /\ f = "I" /\ ENC[m].f7 # Unset => Slice(w, 20, 12) % 32 = imm
     /\ f = "I" /\ ENC[m].f7 = Unset => SignExtend(Slice(w, 20, 12), 12) = imm
     /\ f = "Z" => Slice(w, 20, 12) = imm
     /\ f = "FENCE" => Slice(w, 28, 4) = imm

IsMade(m, a, w) == 0 \in w /\ IsRead(m, a, w) /\ ImmediateIs(m, a.imm, w)

(* An opcode is odd, so a word is never empty.                             *)
LEMMA NotEmpty ==
  ASSUME NEW w, NEW opcode \in 0..127, opcode % 2 = 1, Slice(w, 0, 7) = opcode
  PROVE  0 \in w
<1>1. Slice(w, 0, 7) % 2^1 = Slice(w, 0, 1)
  BY SliceOfSlice, 1 \in 0..7, 7 \in 0..32, 0 \in Nat
<1>2. Grows(w, 0, 0)
  BY SliceGrows, 0 \in Nat, 0 \in 0..31
<1>3. 2^1 = 2 /\ 2^0 = 1
  BY SMT
<1>4. Slice(w, 0, 1) = IF 0 \in w THEN 1 ELSE 0
  BY <1>2, <1>3, 0 + 1 = 1, 0 + 0 = 0 DEF Grows
<1> QED BY <1>1, <1>3, <1>4

LEMMA NotSystem ==
  ASSUME NEW m \in DOMAIN ENC, ENC[m].fmt # "SYS0"
  PROVE  m # "ecall" /\ m # "ebreak"
BY SystemRows

LEMMA MadeR ==
  ASSUME NEW m \in DOMAIN ENC, ENC[m].fmt = "R", NEW a, NEW w \in instruction_handler(m, a)
  PROVE  IsMade(m, a, w)
<1> DEFINE e == ENC[m]
<1>1. e.opcode \in 0..127 /\ e.opcode % 2 = 1 /\ e.f3 \in 0..7 /\ e.f7 \in {0, 32}
  BY RowIsTyped DEF IsTyped, F7_NORM, F7_ALT
<1>2. /\ a.rd \in 0..31 /\ a.rs1 \in 0..31 /\ a.rs2 \in 0..31
      /\ w = Encode(e.opcode, a.rd, e.f3, a.rs1, a.rs2, e.f7)
  BY DEF instruction_handler, pack_r, Reg
<1> HIDE DEF e
<1>3. SlicedR(w, e.opcode, a.rd, e.f3, a.rs1, a.rs2, e.f7)
  <2>1. e.f7 \in 0..127
    BY <1>1
  <2> QED BY <1>1, <1>2, <2>1, BitsOfR, Zenon
<1>4. /\ Slice(w, 0, 7) = e.opcode /\ Slice(w, 7, 5) = a.rd /\ Slice(w, 12, 3) = e.f3
      /\ Slice(w, 15, 5) = a.rs1 /\ Slice(w, 20, 5) = a.rs2 /\ Slice(w, 25, 7) = e.f7
  BY <1>3 DEF SlicedR
<1>5. decode_mnemonic(w) = {m}
  BY <1>4, DecodesTo, NotSystem DEF e
<1>6. 0 \in w
  BY <1>1, <1>4, NotEmpty
<1> QED BY <1>4, <1>5, <1>6 DEF IsMade, IsRead, ImmediateIs, UsesRd, UsesRs1, UsesRs2

LEMMA MadeI ==
  ASSUME NEW m \in DOMAIN ENC, ENC[m].fmt = "I", ENC[m].f7 = Unset, NEW a,
         NEW w \in instruction_handler(m, a)
  PROVE  IsMade(m, a, w)
<1> DEFINE e == ENC[m]
<1>1. e.opcode \in 0..127 /\ e.opcode % 2 = 1 /\ e.f3 \in 0..7
  BY RowIsTyped DEF IsTyped
<1>2. instruction_handler(m, a) = pack_i(a.rd, a.rs1, e.f3, a.imm, e.opcode)
  BY DEF instruction_handler
<1>3. /\ a.rd \in 0..31 /\ a.rs1 \in 0..31 /\ _check_range("I", a.imm)
      /\ w = Field(a.imm, 12, 20) \cup Encode(e.opcode, a.rd, e.f3, a.rs1, 0, 0)
  BY <1>2 DEF pack_i, Reg
<1> HIDE DEF e
<1>4. a.imm \in Int /\ a.imm >= -2048 /\ a.imm < 2048
  BY <1>3, Ranges, SMT
<1>5. /\ Slice(w, 0, 7) = e.opcode /\ Slice(w, 7, 5) = a.rd /\ Slice(w, 12, 3) = e.f3
      /\ Slice(w, 15, 5) = a.rs1 /\ Slice(w, 20, 12) = a.imm % 4096
  <2>1. a.imm \in Int
    BY <1>4, SMT
  <2>2. SlicedI(w, e.opcode, a.rd, e.f3, a.rs1, a.imm)
    BY <1>1, <1>3, <2>1, BitsOfI, Zenon
  <2> QED BY <2>2, SMT DEF SlicedI
<1>6. decode_mnemonic(w) = {m}
  BY <1>5, DecodesTo, NotSystem, SMT DEF e
<1>7. 0 \in w
  BY <1>1, <1>5, NotEmpty, SMT
<1>8. SignExtend(Slice(w, 20, 12), 12) = a.imm
  BY <1>4, <1>5, SignedAgain, Literals, SMT DEF IsSigned
<1> QED BY <1>5, <1>6, <1>7, <1>8, SMT DEF IsMade, IsRead, ImmediateIs, UsesRd, UsesRs1, UsesRs2, e

LEMMA MadeShift ==
  ASSUME NEW m \in DOMAIN ENC, ENC[m].fmt = "I", ENC[m].f7 # Unset, NEW a,
         NEW w \in instruction_handler(m, a)
  PROVE  IsMade(m, a, w)
<1> DEFINE e == ENC[m]
<1>1. e.opcode \in 0..127 /\ e.opcode % 2 = 1 /\ e.f3 \in 0..7 /\ e.f7 \in {0, 32}
  BY RowIsTyped DEF IsTyped, F7_NORM, F7_ALT
<1>2. instruction_handler(m, a) = pack_shift_i(a.rd, a.rs1, a.imm, e.f3, e.f7, e.opcode)
  BY DEF instruction_handler
<1>3. /\ a.rd \in 0..31 /\ a.rs1 \in 0..31 /\ _check_range("SHAMT", a.imm)
      /\ w = Encode(e.opcode, a.rd, e.f3, a.rs1, a.imm, e.f7)
  BY <1>2 DEF pack_shift_i, Reg
<1> HIDE DEF e
<1>4. a.imm \in 0..31
  BY <1>3, SmallRanges
<1>5. SlicedR(w, e.opcode, a.rd, e.f3, a.rs1, a.imm, e.f7)
  <2>1. e.f7 \in 0..127
    BY <1>1
  <2> QED BY <1>1, <1>3, <1>4, <2>1, BitsOfR, Zenon
<1>6. /\ Slice(w, 0, 7) = e.opcode /\ Slice(w, 7, 5) = a.rd /\ Slice(w, 12, 3) = e.f3
      /\ Slice(w, 15, 5) = a.rs1 /\ Slice(w, 20, 5) = a.imm /\ Slice(w, 25, 7) = e.f7
  BY <1>5 DEF SlicedR
<1>7. decode_mnemonic(w) = {m}
  BY <1>6, DecodesTo, NotSystem DEF e
<1>8. 0 \in w
  BY <1>1, <1>6, NotEmpty
<1>9. Slice(w, 20, 12) % 32 = a.imm
  <2>1. Slice(w, 20, 12) % 2^5 = Slice(w, 20, 5)
    BY SliceOfSlice, 5 \in 0..12, 12 \in 0..32, 20 \in Nat
  <2> QED BY <1>6, <2>1, 2^5 = 32
<1> QED BY <1>6, <1>7, <1>8, <1>9 DEF IsMade, IsRead, ImmediateIs, UsesRd, UsesRs1, UsesRs2, e

LEMMA MadeS ==
  ASSUME NEW m \in DOMAIN ENC, ENC[m].fmt = "S", NEW a, NEW w \in instruction_handler(m, a)
  PROVE  IsMade(m, a, w)
<1> DEFINE e == ENC[m]
<1>1. e.opcode \in 0..127 /\ e.opcode % 2 = 1 /\ e.f3 \in 0..7 /\ e.f7 = Unset
  BY RowIsTyped DEF IsTyped
<1>2. instruction_handler(m, a) = pack_s(a.rs1, a.rs2, e.f3, a.imm, e.opcode)
  BY DEF instruction_handler
<1>3. /\ a.rs1 \in 0..31 /\ a.rs2 \in 0..31 /\ _check_range("S", a.imm)
      /\ w = Place(a.imm, 5, 7, 25) \cup Place(a.imm, 0, 5, 7)
               \cup Encode(e.opcode, 0, e.f3, a.rs1, a.rs2, 0)
  BY <1>2 DEF pack_s, Reg
<1> HIDE DEF e
<1>4. a.imm \in Int /\ a.imm >= -2048 /\ a.imm < 2048
  BY <1>3, Ranges, SMT
<1>5. /\ Slice(w, 0, 7) = e.opcode /\ Slice(w, 12, 3) = e.f3
      /\ Slice(w, 15, 5) = a.rs1 /\ Slice(w, 20, 5) = a.rs2
      /\ Slice(w, 25, 7) = (a.imm \div 32) % 128 /\ Slice(w, 7, 5) = a.imm % 32
  <2>1. a.imm \in Int
    BY <1>4, SMT
  <2>2. SlicedS(w, e.opcode, e.f3, a.rs1, a.rs2, a.imm)
    BY <1>1, <1>3, <2>1, BitsOfS, Zenon
  <2> QED BY <2>2, SMT DEF SlicedS
<1>6. decode_mnemonic(w) = {m}
  BY <1>1, <1>5, DecodesTo, NotSystem, SMT DEF e
<1>7. 0 \in w
  BY <1>1, <1>5, NotEmpty, SMT
<1>8. unpack_s(w) = a.imm
  BY <1>4, <1>5, ImmediateOfS, SMT
<1> QED BY <1>5, <1>6, <1>7, <1>8, SMT DEF IsMade, IsRead, ImmediateIs, UsesRd, UsesRs1, UsesRs2, e

LEMMA MadeB ==
  ASSUME NEW m \in DOMAIN ENC, ENC[m].fmt = "B", NEW a, NEW w \in instruction_handler(m, a)
  PROVE  IsMade(m, a, w)
<1> DEFINE e == ENC[m]
<1>1. e.opcode \in 0..127 /\ e.opcode % 2 = 1 /\ e.f3 \in 0..7 /\ e.f7 = Unset
  BY RowIsTyped DEF IsTyped
<1>2. instruction_handler(m, a) = pack_b(a.rs1, a.rs2, e.f3, a.imm, e.opcode)
  BY DEF instruction_handler
<1>3. /\ a.rs1 \in 0..31 /\ a.rs2 \in 0..31 /\ _check_range("B", a.imm) /\ a.imm % 2 = 0
      /\ w = Place(a.imm, 12, 1, 31) \cup Place(a.imm, 5, 6, 25) \cup Place(a.imm, 1, 4, 8)
               \cup Place(a.imm, 11, 1, 7) \cup Encode(e.opcode, 0, e.f3, a.rs1, a.rs2, 0)
  BY <1>2 DEF pack_b, Reg
<1> HIDE DEF e
<1>4. a.imm \in Int /\ a.imm >= -4096 /\ a.imm < 4096
  BY <1>3, Ranges, SMT
<1>5. /\ Slice(w, 0, 7) = e.opcode /\ Slice(w, 12, 3) = e.f3
      /\ Slice(w, 15, 5) = a.rs1 /\ Slice(w, 20, 5) = a.rs2
      /\ Slice(w, 31, 1) = (a.imm \div 4096) % 2 /\ Slice(w, 25, 6) = (a.imm \div 32) % 64
      /\ Slice(w, 8, 4) = (a.imm \div 2) % 16 /\ Slice(w, 7, 1) = (a.imm \div 2048) % 2
  <2>1. a.imm \in Int
    BY <1>4, SMT
  <2>2. SlicedB(w, e.opcode, e.f3, a.rs1, a.rs2, a.imm)
    BY <1>1, <1>3, <2>1, BitsOfB, Zenon
  <2> QED BY <2>2, SMT DEF SlicedB
<1>6. decode_mnemonic(w) = {m}
  BY <1>1, <1>5, DecodesTo, NotSystem, SMT DEF e
<1>7. 0 \in w
  BY <1>1, <1>5, NotEmpty, SMT
<1>8. unpack_b(w) = a.imm
  BY <1>3, <1>4, <1>5, ImmediateOfB, SMT
<1> QED BY <1>5, <1>6, <1>7, <1>8, SMT DEF IsMade, IsRead, ImmediateIs, UsesRd, UsesRs1, UsesRs2, e

LEMMA MadeU ==
  ASSUME NEW m \in DOMAIN ENC, ENC[m].fmt = "U", NEW a, NEW w \in instruction_handler(m, a)
  PROVE  IsMade(m, a, w)
<1> DEFINE e == ENC[m]
<1>1. e.opcode \in 0..127 /\ e.opcode % 2 = 1 /\ e.f3 = Unset /\ e.f7 = Unset
  BY RowIsTyped DEF IsTyped
<1>2. instruction_handler(m, a) = pack_u(a.rd, a.imm, e.opcode)
  BY DEF instruction_handler
<1>3. /\ a.rd \in 0..31 /\ _check_range("U", a.imm)
      /\ w = Field(a.imm, 20, 12) \cup Encode(e.opcode, a.rd, 0, 0, 0, 0)
  BY <1>2 DEF pack_u, Reg
<1> HIDE DEF e
<1>4. a.imm \in Int
  BY <1>3, Ranges, SMT
<1>5. /\ Slice(w, 0, 7) = e.opcode /\ Slice(w, 7, 5) = a.rd
      /\ Slice(w, 12, 20) = a.imm % 1048576
  <2>1. a.imm \in Int
    BY <1>4, SMT
  <2>2. SlicedU(w, e.opcode, a.rd, a.imm)
    BY <1>1, <1>3, <2>1, BitsOfU, Zenon
  <2> QED BY <2>2, SMT DEF SlicedU
<1>6. decode_mnemonic(w) = {m}
  BY <1>1, <1>5, DecodesTo, NotSystem, SMT DEF e
<1>7. 0 \in w
  BY <1>1, <1>5, NotEmpty, SMT
<1> QED BY <1>5, <1>6, <1>7, SMT DEF IsMade, IsRead, ImmediateIs, UsesRd, UsesRs1, UsesRs2, e

LEMMA MadeJ ==
  ASSUME NEW m \in DOMAIN ENC, ENC[m].fmt = "J", NEW a, NEW w \in instruction_handler(m, a)
  PROVE  IsMade(m, a, w)
<1> DEFINE e == ENC[m]
<1>1. e.opcode \in 0..127 /\ e.opcode % 2 = 1 /\ e.f3 = Unset /\ e.f7 = Unset
  BY RowIsTyped DEF IsTyped
<1>2. instruction_handler(m, a) = pack_j(a.rd, a.imm, e.opcode)
  BY DEF instruction_handler
<1>3. /\ a.rd \in 0..31 /\ _check_range("J", a.imm) /\ a.imm % 2 = 0
      /\ w = Place(a.imm, 20, 1, 31) \cup Place(a.imm, 1, 10, 21) \cup Place(a.imm, 11, 1, 20)
               \cup Place(a.imm, 12, 8, 12) \cup Encode(e.opcode, a.rd, 0, 0, 0, 0)
  BY <1>2 DEF pack_j, Reg
<1> HIDE DEF e
<1>4. a.imm \in Int /\ a.imm >= -1048576 /\ a.imm < 1048576
  BY <1>3, Ranges, SMT
<1>5. /\ Slice(w, 0, 7) = e.opcode /\ Slice(w, 7, 5) = a.rd
      /\ Slice(w, 31, 1) = (a.imm \div 1048576) % 2 /\ Slice(w, 21, 10) = (a.imm \div 2) % 1024
      /\ Slice(w, 20, 1) = (a.imm \div 2048) % 2 /\ Slice(w, 12, 8) = (a.imm \div 4096) % 256
  <2>1. a.imm \in Int
    BY <1>4, SMT
  <2>2. SlicedJ(w, e.opcode, a.rd, a.imm)
    BY <1>1, <1>3, <2>1, BitsOfJ, Zenon
  <2> QED BY <2>2, SMT DEF SlicedJ
<1>6. decode_mnemonic(w) = {m}
  BY <1>1, <1>5, DecodesTo, NotSystem, SMT DEF e
<1>7. 0 \in w
  BY <1>1, <1>5, NotEmpty, SMT
<1>8. unpack_j(w) = a.imm
  BY <1>3, <1>4, <1>5, ImmediateOfJ, SMT
<1> QED BY <1>5, <1>6, <1>7, <1>8, SMT DEF IsMade, IsRead, ImmediateIs, UsesRd, UsesRs1, UsesRs2, e

LEMMA MadeZ ==
  ASSUME NEW m \in DOMAIN ENC, ENC[m].fmt = "Z", NEW a, NEW w \in instruction_handler(m, a)
  PROVE  IsMade(m, a, w)
<1> DEFINE e == ENC[m]
<1>1. e.opcode \in 0..127 /\ e.opcode % 2 = 1 /\ e.f3 \in 0..7 /\ e.f7 = Unset
  BY RowIsTyped DEF IsTyped
<1>2. instruction_handler(m, a) = pack_z(a.rd, a.imm, e.f3, a.rs1, e.opcode)
  BY DEF instruction_handler
<1>3. /\ a.rd \in 0..31 /\ _check_range("CSR", a.imm) /\ _check_range("ZIMM", a.rs1)
      /\ w = Field(a.imm, 12, 20) \cup Encode(e.opcode, a.rd, e.f3, a.rs1, 0, 0)
  BY <1>2 DEF pack_z, Reg
<1> HIDE DEF e
<1>4. a.imm \in Int /\ a.imm >= 0 /\ a.imm < 4096 /\ a.rs1 \in 0..31
  BY <1>3, Ranges, SMT
<1>5. /\ Slice(w, 0, 7) = e.opcode /\ Slice(w, 7, 5) = a.rd /\ Slice(w, 12, 3) = e.f3
      /\ Slice(w, 15, 5) = a.rs1 /\ Slice(w, 20, 12) = a.imm % 4096
  <2>1. a.imm \in Int
    BY <1>4, SMT
  <2>3. a.rs1 \in 0..31
    BY <1>3, SmallRanges
  <2>2. SlicedI(w, e.opcode, a.rd, e.f3, a.rs1, a.imm)
    BY <1>1, <1>3, <2>1, <2>3, BitsOfI, Zenon
  <2> QED BY <2>2, SMT DEF SlicedI
<1>6. decode_mnemonic(w) = {m}
  BY <1>1, <1>5, DecodesTo, NotSystem, SMT DEF e
<1>7. 0 \in w
  BY <1>1, <1>5, NotEmpty, SMT
<1>8. a.imm % 4096 = a.imm
  BY <1>4, SMT
<1> QED BY <1>5, <1>6, <1>7, <1>8, SMT DEF IsMade, IsRead, ImmediateIs, UsesRd, UsesRs1, UsesRs2, e

LEMMA MadeFence ==
  ASSUME NEW m \in DOMAIN ENC, ENC[m].fmt = "FENCE", NEW a, NEW w \in instruction_handler(m, a)
  PROVE  IsMade(m, a, w)
<1> DEFINE e == ENC[m]
<1>1. e.opcode \in 0..127 /\ e.opcode % 2 = 1 /\ e.f3 = 0 /\ e.f7 = Unset
  BY RowIsTyped DEF IsTyped
<1>2. instruction_handler(m, a) = pack_fence(a.imm, a.rs1, a.rs2, e.opcode)
  BY DEF instruction_handler
<1>3. /\ _check_range("FENCE", a.imm) /\ _check_range("FENCE", a.rs1) /\ _check_range("FENCE", a.rs2)
      /\ w = Field(a.imm, 4, 28) \cup Field(a.rs1, 4, 24) \cup Field(a.rs2, 4, 20)
               \cup Field(e.opcode, 7, 0)
  BY <1>2 DEF pack_fence
<1> HIDE DEF e
<1>4. a.imm \in 0..15 /\ a.rs1 \in 0..15 /\ a.rs2 \in 0..15
  BY <1>3, SmallRanges
<1>5. Slice(w, 0, 7) = e.opcode /\ Slice(w, 12, 3) = 0 /\ Slice(w, 28, 4) = a.imm
  <2>1. SlicedFence(w, e.opcode, a.imm)
    <3>1. e.opcode \in 0..127
      BY <1>1
    <3>2. w = Field(a.imm, 4, 28) \cup Field(a.rs1, 4, 24) \cup Field(a.rs2, 4, 20)
               \cup Field(e.opcode, 7, 0)
      BY <1>3
    <3> QED BY <1>4, <3>1, <3>2, BitsOfFence, Zenon
  <2> QED BY <2>1 DEF SlicedFence
<1>6. decode_mnemonic(w) = {m}
  BY <1>1, <1>5, DecodesTo, NotSystem DEF e
<1>7. 0 \in w
  BY <1>1, <1>5, NotEmpty
<1> QED BY <1>5, <1>6, <1>7 DEF IsMade, IsRead, ImmediateIs, UsesRd, UsesRs1, UsesRs2, e

LEMMA MadeSystem ==
  ASSUME NEW m \in DOMAIN ENC, ENC[m].fmt = "SYS0", NEW a, NEW w \in instruction_handler(m, a)
  PROVE  IsMade(m, a, w)
<1> DEFINE n == IF m = "ecall" THEN 0 ELSE 1
<1>1. m \in {"ecall", "ebreak"} /\ ENC[m].opcode = 115 /\ ENC[m].f3 = 0 /\ ENC[m].f7 = Unset
  BY RowIsTyped DEF IsTyped, OP_SYSTEM
<1>2. w = Field(115, 7, 0) \cup Field(n, 1, 20) /\ n \in 0..1
  BY DEF instruction_handler
<1>3. Slice(w, 0, 7) = 115 /\ Slice(w, 12, 3) = 0 /\ Slice(w, 20, 12) = n
  <2> HIDE DEF n
  <2> QED BY <1>2, BitsOfSys0, 115 \in 0..127 DEF SlicedSys0
<1>4. decode_mnemonic(w) = {m}
  BY <1>1, <1>3, DecodesTo
<1>5. 0 \in w
  BY <1>3, NotEmpty, 115 % 2 = 1, 115 \in 0..127
<1> QED BY <1>4, <1>5 DEF IsMade, IsRead, ImmediateIs, UsesRd, UsesRs1, UsesRs2

(* Every word the assembler makes decodes to what it was made of.          *)
LEMMA HandlerMakes ==
  ASSUME NEW m \in DOMAIN ENC, NEW a, NEW w \in instruction_handler(m, a)
  PROVE  IsMade(m, a, w)
<1>1. ENC[m].fmt \in {"R", "I", "S", "B", "U", "J", "Z", "FENCE", "SYS0"}
  BY RowIsTyped DEF IsTyped
<1> QED BY <1>1, MadeR, MadeI, MadeShift, MadeS, MadeB, MadeU, MadeJ, MadeZ, MadeFence, MadeSystem

-----------------------------------------------------------------------------
(* The specification.                                                      *)

LEMMA FenceRow ==
  ASSUME NEW m \in DOMAIN ENC
  PROVE  ENC[m].fmt = "FENCE" <=> m = "fence"
<1>1. Rows(m)
  BY RowsOf
<1>2. ASSUME ENC[m].fmt = "FENCE" PROVE m = "fence"
  BY <1>1, <1>2 DEF Rows, IsRow, FenceF3
<1>3. ASSUME m = "fence" PROVE ENC[m].fmt = "FENCE"
  BY <1>1, <1>3 DEF Rows, IsRow, RegisterF3, AlternateF3, ImmediateF3, ShiftF3, SraiF3, BranchF3,
     LoadF3, StoreF3, JalrF3, JalF3, LuiF3, AuipcF3, SystemF3, CsrF3
<1> QED BY <1>2, <1>3

LEMMA NotMnemonics ==
  "none" \notin DOMAIN ENC /\ "read" \notin DOMAIN ENC
<1> SUFFICES ASSUME NEW m \in DOMAIN ENC, m \in {"none", "read"} PROVE FALSE
  OBVIOUS
<1> QED BY RowsOf DEF Rows, IsRow, RegisterF3, AlternateF3, ImmediateF3, ShiftF3, SraiF3, BranchF3,
           LoadF3, StoreF3, JalrF3, JalF3, LuiF3, AuipcF3, SystemF3, FenceF3, CsrF3

(* What Assemble asks for.                                                 *)
IsRequest(m, a) ==
  /\ a.rd \in Int /\ a.rs1 \in Int /\ a.rs2 \in Int /\ a.imm \in Int
  /\ ~UsesRd(m) => a.rd = 0
  /\ ~UsesRs1(m) => IF ENC[m].fmt = "FENCE" THEN a.rs1 \in 0..15 ELSE a.rs1 = 0
  /\ ~UsesRs2(m) => IF ENC[m].fmt = "FENCE" THEN a.rs2 \in 0..15 ELSE a.rs2 = 0
  /\ ~UsesImm(m) => a.imm = 0

(* What a field holds.                                                     *)
InField(m, v) ==
  LET f == ENC[m].fmt
  IN /\ f = "I" /\ ENC[m].f7 # Unset => v \in 0..31
     /\ f \in {"I", "S"} /\ ENC[m].f7 = Unset => v >= -2048 /\ v < 2048
     /\ f = "B" => v >= -4096 /\ v < 4096 /\ v % 2 = 0
     /\ f = "J" => v >= -1048576 /\ v < 1048576 /\ v % 2 = 0
     /\ f = "U" => v >= -524288 /\ v < 1048576
     /\ f = "Z" => v >= 0 /\ v < 4096
     /\ f = "FENCE" => v \in 0..15

LEMMA HandlerRefuses ==
  ASSUME NEW m \in DOMAIN ENC, NEW a, IsRequest(m, a)
  PROVE  instruction_handler(m, a) # {} <=>
           InField(m, a.imm) /\ {a.rd, a.rs1, a.rs2} \subseteq 0..31
<1> DEFINE e == ENC[m]
           v == a.imm
<1> DEFINE refuses == instruction_handler(m, a) # {} <=>
                         InField(m, v) /\ {a.rd, a.rs1, a.rs2} \subseteq 0..31
<1> SUFFICES refuses
  OBVIOUS
<1>1. IsTyped(m)
  BY RowIsTyped
<1>2. e.fmt \in {"R", "I", "S", "B", "U", "J", "Z", "FENCE", "SYS0"}
  BY <1>1 DEF IsTyped
<1>3. a.rd \in Int /\ a.rs1 \in Int /\ a.rs2 \in Int /\ v \in Int
  BY DEF IsRequest
<1> USE DEF UsesRd, UsesRs1, UsesRs2, UsesImm, Reg
<1>4. CASE e.fmt = "R"
  BY <1>4, SMT DEF instruction_handler, pack_r, IsRequest, InField
<1>5. CASE e.fmt = "I" /\ e.f7 = Unset
  <2>1. instruction_handler(m, a) = pack_i(a.rd, a.rs1, e.f3, v, e.opcode)
    BY <1>5 DEF instruction_handler
  <2>2. a.rs2 = 0
    BY <1>5 DEF IsRequest
  <2>3. InField(m, v) <=> v >= -2048 /\ v < 2048
    BY <1>5, SMT DEF InField
  <2> HIDE DEF e, v, refuses
  <2>4. InField(m, v) <=> _check_range("I", v)
    BY <1>3, <2>3, Ranges, SMT
  <2>5. instruction_handler(m, a) # {} <=> a.rd \in 0..31 /\ a.rs1 \in 0..31 /\ _check_range("I", v)
    BY <2>1 DEF pack_i
  <2> QED BY <2>2, <2>4, <2>5 DEF refuses
<1>6. CASE e.fmt = "I" /\ e.f7 # Unset
  <2>1. instruction_handler(m, a) = pack_shift_i(a.rd, a.rs1, v, e.f3, e.f7, e.opcode)
    BY <1>6 DEF instruction_handler
  <2>2. a.rs2 = 0 /\ <<e.f3, e.f7>> \in {<<1, F7_NORM>>, <<5, F7_NORM>>, <<5, F7_ALT>>}
    BY <1>1, <1>6 DEF IsRequest, IsTyped
  <2>3. InField(m, v) <=> v \in 0..31
    BY <1>6, SMT DEF InField
  <2> HIDE DEF e, v, refuses
  <2>4. InField(m, v) <=> _check_range("SHAMT", v)
    BY <1>3, <2>3, SmallRanges
  <2>5. instruction_handler(m, a) # {} <=> a.rd \in 0..31 /\ a.rs1 \in 0..31 /\ _check_range("SHAMT", v)
    BY <2>1, <2>2 DEF pack_shift_i
  <2> QED BY <2>2, <2>4, <2>5 DEF refuses
<1>7. CASE e.fmt = "S"
  <2>1. instruction_handler(m, a) = pack_s(a.rs1, a.rs2, e.f3, v, e.opcode)
    BY <1>7 DEF instruction_handler
  <2>2. a.rd = 0
    BY <1>7 DEF IsRequest
  <2>3. InField(m, v) <=> v >= -2048 /\ v < 2048
    BY <1>1, <1>7, SMT DEF InField, IsTyped
  <2> HIDE DEF e, v, refuses
  <2>4. InField(m, v) <=> _check_range("S", v)
    BY <1>3, <2>3, Ranges, SMT
  <2>5. instruction_handler(m, a) # {} <=> a.rs1 \in 0..31 /\ a.rs2 \in 0..31 /\ _check_range("S", v)
    BY <2>1 DEF pack_s
  <2> QED BY <2>2, <2>4, <2>5 DEF refuses
<1>8. CASE e.fmt = "B"
  <2>1. instruction_handler(m, a) = pack_b(a.rs1, a.rs2, e.f3, v, e.opcode)
    BY <1>8 DEF instruction_handler
  <2>2. a.rd = 0
    BY <1>8 DEF IsRequest
  <2>3. InField(m, v) <=> v >= -4096 /\ v < 4096 /\ v % 2 = 0
    BY <1>8, SMT DEF InField
  <2>4. v % 2 = 0 => (v < 4096 <=> v <= 4094)
    BY <1>3, SMT
  <2> HIDE DEF e, v, refuses
  <2>5. InField(m, v) <=> _check_range("B", v) /\ v % 2 = 0
    BY <1>3, <2>3, <2>4, Ranges, SMT
  <2>6. instruction_handler(m, a) # {} <=> a.rs1 \in 0..31 /\ a.rs2 \in 0..31 /\ _check_range("B", v) /\ v % 2 = 0
    BY <2>1 DEF pack_b
  <2> QED BY <2>2, <2>5, <2>6 DEF refuses
<1>9. CASE e.fmt = "U"
  <2>1. instruction_handler(m, a) = pack_u(a.rd, v, e.opcode)
    BY <1>9 DEF instruction_handler
  <2>2. a.rs1 = 0 /\ a.rs2 = 0
    BY <1>9 DEF IsRequest
  <2>3. InField(m, v) <=> v >= -524288 /\ v < 1048576
    BY <1>9, SMT DEF InField
  <2> HIDE DEF e, v, refuses
  <2>4. InField(m, v) <=> _check_range("U", v)
    BY <1>3, <2>3, Ranges, SMT
  <2>5. instruction_handler(m, a) # {} <=> a.rd \in 0..31 /\ _check_range("U", v)
    BY <2>1 DEF pack_u
  <2> QED BY <2>2, <2>4, <2>5 DEF refuses
<1>10. CASE e.fmt = "J"
  <2>1. instruction_handler(m, a) = pack_j(a.rd, v, e.opcode)
    BY <1>10 DEF instruction_handler
  <2>2. a.rs1 = 0 /\ a.rs2 = 0
    BY <1>10 DEF IsRequest
  <2>3. InField(m, v) <=> v >= -1048576 /\ v < 1048576 /\ v % 2 = 0
    BY <1>10, SMT DEF InField
  <2>4. v % 2 = 0 => (v < 1048576 <=> v <= 1048574)
    BY <1>3, SMT
  <2> HIDE DEF e, v, refuses
  <2>5. InField(m, v) <=> _check_range("J", v) /\ v % 2 = 0
    BY <1>3, <2>3, <2>4, Ranges, SMT
  <2>6. instruction_handler(m, a) # {} <=> a.rd \in 0..31 /\ _check_range("J", v) /\ v % 2 = 0
    BY <2>1 DEF pack_j
  <2> QED BY <2>2, <2>5, <2>6 DEF refuses
<1>11. CASE e.fmt = "Z"
  <2>1. instruction_handler(m, a) = pack_z(a.rd, v, e.f3, a.rs1, e.opcode)
    BY <1>11 DEF instruction_handler
  <2>2. a.rs2 = 0
    BY <1>11 DEF IsRequest
  <2>3. InField(m, v) <=> v >= 0 /\ v < 4096
    BY <1>11, SMT DEF InField
  <2>4. _check_range("ZIMM", a.rs1) <=> a.rs1 \in 0..31
    BY SmallRanges
  <2> HIDE DEF e, v, refuses
  <2>5. InField(m, v) <=> _check_range("CSR", v)
    BY <1>3, <2>3, Ranges, SMT
  <2>6. instruction_handler(m, a) # {} <=> a.rd \in 0..31 /\ a.rs1 \in 0..31 /\ _check_range("CSR", v)
    BY <2>1, <2>4 DEF pack_z
  <2> QED BY <2>2, <2>5, <2>6 DEF refuses
<1>12. CASE e.fmt = "FENCE"
  <2>1. instruction_handler(m, a) = pack_fence(v, a.rs1, a.rs2, e.opcode)
    BY <1>12 DEF instruction_handler
  <2>2. a.rd = 0 /\ a.rs1 \in 0..15 /\ a.rs2 \in 0..15
    BY <1>12 DEF IsRequest
  <2>3. InField(m, v) <=> v \in 0..15
    BY <1>12, SMT DEF InField
  <2>4. /\ _check_range("FENCE", a.rs1) <=> a.rs1 \in 0..15
        /\ _check_range("FENCE", a.rs2) <=> a.rs2 \in 0..15
        /\ _check_range("FENCE", v) <=> v \in 0..15
    BY SmallRanges
  <2> HIDE DEF e, v, refuses
  <2>5. InField(m, v) <=> _check_range("FENCE", v)
    BY <1>3, <2>3, SmallRanges
  <2>6. instruction_handler(m, a) # {} <=> _check_range("FENCE", v)
    BY <2>1, <2>2, <2>4 DEF pack_fence
  <2> QED BY <2>2, <2>5, <2>6 DEF refuses
<1>13. CASE e.fmt = "SYS0"
  <2>1. InField(m, v)
    BY <1>13, SMT DEF InField
  <2>2. a.rd = 0 /\ a.rs1 = 0 /\ a.rs2 = 0
    BY <1>13 DEF IsRequest
  <2>3. instruction_handler(m, a) # {}
    BY <1>13 DEF instruction_handler
  <2> QED BY <2>1, <2>2, <2>3
<1> QED BY <1>2, <1>4, <1>5, <1>6, <1>7, <1>8, <1>9, <1>10, <1>11, <1>12, <1>13

(* Nothing has been asked, a word has been read, or a request has the word *)
(* that the assembler makes of it, or none.                                *)
Kept ==
  \/ request = none /\ word = {}
  \/ request.m = "read"
  \/ /\ request.m \in DOMAIN ENC /\ IsRequest(request.m, request)
     /\ \/ word \in instruction_handler(request.m, request)
        \/ word = {} /\ instruction_handler(request.m, request) = {}

LEMMA AssembleKeeps ==
  ASSUME Assemble
  PROVE  Kept'
<1>1. PICK m \in DOMAIN ENC :
        \E rd \in (IF UsesRd(m) THEN Regs ELSE {0}),
           rs1 \in (IF UsesRs1(m) THEN Regs ELSE IF m = "fence" THEN 0..15 ELSE {0}),
           rs2 \in (IF UsesRs2(m) THEN Regs ELSE IF m = "fence" THEN 0..15 ELSE {0}),
           imm \in (IF UsesImm(m) THEN Imms[m] ELSE {0}) :
          /\ request' = [m |-> m, rd |-> rd, rs1 |-> rs1, rs2 |-> rs2, imm |-> imm]
          /\ word' \in instruction_handler(m, request') \cup
               (IF instruction_handler(m, request') = {} THEN {{}} ELSE {})
  BY DEF Assemble
<1>2. PICK rd \in (IF UsesRd(m) THEN Regs ELSE {0}),
           rs1 \in (IF UsesRs1(m) THEN Regs ELSE IF m = "fence" THEN 0..15 ELSE {0}),
           rs2 \in (IF UsesRs2(m) THEN Regs ELSE IF m = "fence" THEN 0..15 ELSE {0}),
           imm \in (IF UsesImm(m) THEN Imms[m] ELSE {0}) :
          /\ request' = [m |-> m, rd |-> rd, rs1 |-> rs1, rs2 |-> rs2, imm |-> imm]
          /\ word' \in instruction_handler(m, request') \cup
               (IF instruction_handler(m, request') = {} THEN {{}} ELSE {})
  BY <1>1
<1>3. /\ request'.m = m /\ request'.rd = rd /\ request'.rs1 = rs1 /\ request'.rs2 = rs2
      /\ request'.imm = imm
  BY <1>2
<1>4. Regs \subseteq Int /\ Imms[m] \subseteq Int
  BY CodecAssumption
<1>5. ENC[m].fmt = "FENCE" <=> m = "fence"
  BY FenceRow
<1>6. IsRequest(m, request')
  BY <1>2, <1>3, <1>4, <1>5 DEF IsRequest
<1>7. \/ word' \in instruction_handler(m, request')
      \/ word' = {} /\ instruction_handler(m, request') = {}
  BY <1>2
<1> QED BY <1>3, <1>6, <1>7 DEF Kept

LEMMA KeptAlways ==
  Codec => []Kept
<1>1. NoRequest => Kept
  BY DEF NoRequest, Kept
<1>2. Kept /\ [Assemble \/ Read]_<<request, word>> => Kept'
  <2> SUFFICES ASSUME Kept, [Assemble \/ Read]_<<request, word>> PROVE Kept'
    OBVIOUS
  <2>1. CASE Assemble
    BY <2>1, AssembleKeeps
  <2>2. CASE Read
    BY <2>2 DEF Read, none, Kept
  <2>3. CASE UNCHANGED <<request, word>>
    BY <2>3 DEF Kept
  <2> QED BY <2>1, <2>2, <2>3
<1> QED BY <1>1, <1>2, PTL DEF Codec

LEMMA AssembledIsMade ==
  ASSUME Kept, Assembled
  PROVE  IsMade(request.m, request, word) /\ IsRequest(request.m, request)
<1>1. request.m \in DOMAIN ENC /\ word # {}
  BY DEF Assembled
<1>2. request # none /\ request.m # "read"
  BY <1>1, NotMnemonics DEF none
<1>3. IsRequest(request.m, request) /\ word \in instruction_handler(request.m, request)
  BY <1>1, <1>2 DEF Kept
<1> QED BY <1>1, <1>3, HandlerMakes

(* Whatever the registers and the immediates that are asked for, a word    *)
(* that the assembler emits (instruction_handler of tools/rv32asm.py, the  *)
(* packers of tools/rv32enc.py) decodes to the mnemonic and the operands   *)
(* it was made of.                                                         *)
THEOREM AssembledRoundTrips ==
  Codec => []RoundTrips
<1>1. ASSUME Kept PROVE RoundTrips
  <2> SUFFICES ASSUME Assembled
               PROVE  LET f == fields(word)
                      IN /\ decode_mnemonic(word) = {request.m}
                         /\ UsesRd(request.m) => f.rd = request.rd
                         /\ UsesRs1(request.m) => f.rs1 = request.rs1
                         /\ UsesRs2(request.m) => f.rs2 = request.rs2
                         /\ Immediate(word) = IF fmt = "U" THEN request.imm % 2^20
                                              ELSE request.imm
    BY DEF RoundTrips
  <2> DEFINE a == request
  <2>1. IsRead(a.m, a, word) /\ ImmediateIs(a.m, a.imm, word) /\ IsRequest(a.m, a)
    BY <1>1, AssembledIsMade DEF IsMade
  <2>2. a.m \in DOMAIN ENC
    BY DEF Assembled
  <2>3. /\ fields(word).rd = Slice(word, 7, 5) /\ fields(word).rs1 = Slice(word, 15, 5)
        /\ fields(word).rs2 = Slice(word, 20, 5)
        /\ fields(word).imm12 = Slice(word, 20, 12) /\ fields(word).imm20 = Slice(word, 12, 20)
    BY DEF fields
  <2>4. fmt \in {"R", "I", "S", "B", "U", "J", "Z", "FENCE", "SYS0"}
    BY <2>2, RowIsTyped DEF IsTyped, fmt
  <2>5. Immediate(word) = IF fmt = "U" THEN request.imm % 2^20 ELSE request.imm
    <3>1. CASE fmt \in {"R", "SYS0"}
      <4>1. a.imm = 0
        BY <2>1, <3>1 DEF IsRequest, UsesImm, fmt
      <4> QED BY <3>1, <4>1 DEF Immediate
    <3>2. CASE fmt \in {"S", "B", "J", "Z", "FENCE"}
      BY <2>1, <2>3, <3>2, SMT DEF ImmediateIs, Immediate, fmt
    <3>3. CASE fmt = "U"
      BY <2>1, <2>3, <3>3, Literals, SMT DEF ImmediateIs, Immediate, fmt
    <3>4. CASE fmt = "I"
      BY <2>1, <2>3, <3>4, SMT DEF ImmediateIs, Immediate, fmt
    <3> QED BY <2>4, <3>1, <3>2, <3>3, <3>4
  <2> QED BY <2>1, <2>3, <2>5 DEF IsRead
<1>2. Kept => RoundTrips
  BY <1>1
<1> QED BY <1>2, KeptAlways, PTL

LEMMA UnsignedAgain ==
  ASSUME NEW v \in Int
  PROVE  /\ v % 16 = v <=> v \in 0..15
         /\ v % 32 = v <=> v \in 0..31
         /\ v % 4096 = v <=> v >= 0 /\ v < 4096
         /\ v % 1048576 = v <=> v >= 0 /\ v < 1048576
BY SMT

(* The code refuses an operand (_check_reg, _check_range and the odd       *)
(* displacements of tools/rv32enc.py) exactly when the field it goes to    *)
(* would lose a bit of it.                                                 *)
THEOREM RefusedIfAndOnlyIfLost ==
  Codec => []RefusedIffLost
<1>1. ASSUME Kept PROVE RefusedIffLost
  <2> DEFINE a == request
             m == request.m
             v == request.imm
             e == ENC[m]
             Signed(n) == SignExtend(v % 2^n, n) = v
             Unsigned(n) == v % 2^n = v
             Holds == CASE e.fmt = "I" /\ e.f7 # Unset -> Unsigned(5)
                        [] e.fmt \in {"I", "S"} /\ e.f7 = Unset -> Signed(12)
                        [] e.fmt = "B" -> Signed(13) /\ v % 2 = 0
                        [] e.fmt = "J" -> Signed(21) /\ v % 2 = 0
                        [] e.fmt = "U" -> Signed(20) \/ Unsigned(20)
                        [] e.fmt = "Z" -> Unsigned(12)
                        [] e.fmt = "FENCE" -> Unsigned(4)
                        [] OTHER -> TRUE
  <2> SUFFICES ASSUME m \in DOMAIN ENC
               PROVE  word # {} <=> Holds /\ {a.rd, a.rs1, a.rs2} \subseteq 0..31
    BY DEF RefusedIffLost, fmt
  <2>1. m # "read" /\ request # none
    BY NotMnemonics DEF none
  <2>2. /\ IsRequest(m, a)
        /\ word \in instruction_handler(m, a) \/ (word = {} /\ instruction_handler(m, a) = {})
    BY <1>1, <2>1 DEF Kept
  <2>3. word # {} <=> instruction_handler(m, a) # {}
    <3>1. ASSUME word \in instruction_handler(m, a) PROVE word # {}
      BY <3>1, HandlerMakes DEF IsMade
    <3> QED BY <2>2, <3>1
  <2>4. word # {} <=> InField(m, v) /\ {a.rd, a.rs1, a.rs2} \subseteq 0..31
    BY <2>2, <2>3, HandlerRefuses
  <2>5. v \in Int
    BY <2>2 DEF IsRequest
  <2>6. /\ e.fmt \in {"R", "I", "S", "B", "U", "J", "Z", "FENCE", "SYS0"}
        /\ e.fmt = "S" => e.f7 = Unset
    BY RowIsTyped DEF IsTyped
  <2> HIDE DEF v, m
  <2>7. /\ Signed(12) <=> (v >= -2048 /\ v < 2048)
        /\ Signed(13) <=> (v >= -4096 /\ v < 4096)
        /\ Signed(20) <=> (v >= -524288 /\ v < 524288)
        /\ Signed(21) <=> (v >= -1048576 /\ v < 1048576)
    <3>1. \A n : Signed(n) <=> IsSigned(v, n)
      BY DEF IsSigned
    <3> HIDE DEF Signed
    <3> QED BY <2>5, <3>1, SignedAgain, SMT
  <2>8. /\ Unsigned(4) <=> v \in 0..15
        /\ Unsigned(5) <=> v \in 0..31
        /\ Unsigned(12) <=> v >= 0 /\ v < 4096
        /\ Unsigned(20) <=> v >= 0 /\ v < 1048576
    BY <2>5, UnsignedAgain, Literals, 2^4 = 16, SMT
  <2> HIDE DEF Signed, Unsigned, e
  <2>9. Holds <=> InField(m, v)
    <3>1. CASE e.fmt \in {"R", "SYS0"}
      BY <3>1, SMT DEF InField, e
    <3>2. CASE e.fmt = "I"
      BY <2>7, <2>8, <3>2, SMT DEF InField, e
    <3>3. CASE e.fmt = "S"
      BY <2>6, <2>7, <3>3, SMT DEF InField, e
    <3>4. CASE e.fmt \in {"B", "J"}
      BY <2>7, <3>4, SMT DEF InField, e
    <3>5. CASE e.fmt = "U"
      BY <2>5, <2>7, <2>8, <3>5, SMT DEF InField, e
    <3>6. CASE e.fmt \in {"Z", "FENCE"}
      BY <2>8, <3>6, SMT DEF InField, e
    <3> QED BY <2>6, <3>1, <3>2, <3>3, <3>4, <3>5, <3>6
  <2> QED BY <2>4, <2>9
<1>2. Kept => RefusedIffLost
  BY <1>1
<1> QED BY <1>2, KeptAlways, PTL

(* The lookups of decode_mnemonic find the row of ENC that a word          *)
(* satisfies, and nothing for a reserved word: of any word, for DecodesAny *)
(* asks nothing of where the word comes from.                              *)
THEOREM EveryWordDecodes ==
  Codec => []DecodesTheTable
<1>1. DecodesTheTable
  BY DecodesAny DEF DecodesTheTable
<1> QED BY <1>1, PTL

=============================================================================
