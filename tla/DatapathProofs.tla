--------------------------- MODULE DatapathProofs ---------------------------
(***************************************************************************)
(* One instruction in the datapath, for every word, statement, register    *)
(* file and pc: the properties of Datapath, proved bit by bit.             *)
(*                                                                         *)
(* From the bottom: numbers of rows of bits; the sums and the order of the *)
(* reference, in limbs with a carry, are those of the words, bit by bit;   *)
(* every helper keeps 64 bits.  Then the fields and immediates of a word,  *)
(* as the code puts them together, and the word an assembler makes of a    *)
(* statement: Encodes says what a statement's meaning needs of a word.     *)
(* What Encodes a statement does what it means (EncodedMeans) and          *)
(* assembled words Encode theirs (AssembledMeans).  Likewise the diagram:  *)
(* Spelled says that a name has a word's codes; no word has two such names *)
(* (SameName), so that the statement read back is the one assembled        *)
(* (ReadFromAssembled), or one the word encodes (ReadFromEncodes).         *)
(*                                                                         *)
(* The prover knows powers of two only for given exponents and has no      *)
(* induction for operators: Power is opaque with a table of its values,    *)
(* and what holds of all positions is proved by the absence of a least     *)
(* counterexample.                                                         *)
(***************************************************************************)
EXTENDS Datapath, TLAPS, WellFoundedInduction

-----------------------------------------------------------------------------
(* Induction over positions, as the absence of a least counterexample.     *)

Below == {pair \in Nat \X Nat : pair[1] < pair[2]}

(* A property of naturals that is not false first anywhere is never false. *)
LEMMA NoLeastCounterexample ==
  ASSUME NEW Bad \in SUBSET Nat,
         \A m \in Bad : \E n \in Bad : n < m
  PROVE  Bad = {}
<1>1. IsWellFoundedOn(Below, Nat)
  BY NatLessThanWellFounded DEF OpToRel, Below
<1> SUFFICES ASSUME Bad # {}
             PROVE  FALSE
  OBVIOUS
<1>2. \E m \in Bad : \A n \in Bad : <<n, m>> \notin Below
  BY <1>1, WFMin
<1> QED
  BY <1>2 DEF Below

(* Induction up to n, for a set of numbers. *)
LEMMA InductionTo ==
  ASSUME NEW n \in Nat, NEW Good, 0 \in Good,
         \A k \in 0..(n - 1) : k \in Good => k + 1 \in Good
  PROVE  0..n \subseteq Good
<1> DEFINE Bad == {m \in Nat : m \in 0..n /\ m \notin Good}
<1>1. ASSUME NEW m \in Bad
      PROVE  \E k \in Bad : k < m
  <2>1. m # 0 /\ m \in 0..n /\ m \notin Good
    OBVIOUS
  <2>2. m - 1 \in 0..(n - 1) /\ (m - 1) + 1 = m
    BY <2>1
  <2>3. m - 1 \notin Good
    BY <2>1, <2>2
  <2> QED
    BY <2>2, <2>3
<1>2. Bad = {}
  BY <1>1, NoLeastCounterexample
<1> QED
  BY <1>2

-----------------------------------------------------------------------------
(* The number of a row of bits. *)

SumBody(x, n, f) ==
  [k \in 0..n |-> IF k = 0 THEN 0 ELSE f[k - 1] + x[k - 1] * 2^(k - 1)]

PartialSums(x, n) == CHOOSE f : f = SumBody(x, n, f)

LEMMA ToNatIsSum ==
  ASSUME NEW x, NEW n
  PROVE  ToNat(x, n) = PartialSums(x, n)[n]
BY Zenon DEF ToNat, PartialSums, SumBody

LEMMA SumsExist ==
  ASSUME NEW x
  PROVE  \A n \in Nat : \E f : f = SumBody(x, n, f)
<1> DEFINE Bad == {m \in Nat : ~ \E f : f = SumBody(x, m, f)}
<1>1. ASSUME NEW m \in Bad
      PROVE  \E n \in Bad : n < m
  <2>1. m # 0
    <3>1. [k \in 0..0 |-> 0] = SumBody(x, 0, [k \in 0..0 |-> 0])
      BY DEF SumBody
    <3> QED
      BY <3>1
  <2>2. SUFFICES ASSUME m - 1 \notin Bad
                 PROVE  FALSE
    BY <2>1
  <2>3. PICK f : f = SumBody(x, m - 1, f)
    BY <2>1, <2>2
  <2> DEFINE last == f[m - 1] + x[m - 1] * 2^(m - 1)
             g == [k \in 0..m |-> IF k = m THEN last ELSE f[k]]
  <2>4. ASSUME NEW k \in 0..m
        PROVE  g[k] = IF k = 0 THEN 0 ELSE g[k - 1] + x[k - 1] * 2^(k - 1)
    <3>1. CASE k = 0
      BY <2>1, <2>3, <3>1 DEF SumBody
    <3>2. CASE k # 0
      <4>1. k - 1 \in 0..(m - 1) /\ k - 1 # m /\ g[k - 1] = f[k - 1]
        BY <3>2
      <4>2. CASE k = m
        BY <2>1, <4>1, <4>2
      <4>3. CASE k # m
        <5>1. k \in 0..(m - 1) /\ g[k] = f[k]
          BY <4>3
        <5>2. f[k] = f[k - 1] + x[k - 1] * 2^(k - 1)
          BY <2>3, <3>2, <5>1 DEF SumBody
        <5> QED
          BY <3>2, <4>1, <5>1, <5>2
      <4> QED
        BY <4>2, <4>3
    <3> QED
      BY <3>1, <3>2
  <2>5. g = [k \in 0..m |-> g[k]]
    OBVIOUS
  <2> HIDE DEF g
  <2>6. g = SumBody(x, m, g)
    BY <2>4, <2>5 DEF SumBody
  <2> QED
    BY <2>6
<1>2. Bad = {}
  BY <1>1, NoLeastCounterexample
<1> QED
  BY <1>2

LEMMA SumSteps ==
  ASSUME NEW x, NEW n \in Nat
  PROVE  \A k \in 0..n :
           PartialSums(x, n)[k] =
             IF k = 0 THEN 0 ELSE PartialSums(x, n)[k - 1] + x[k - 1] * 2^(k - 1)
<1>1. \E f : f = SumBody(x, n, f)
  BY SumsExist
<1> DEFINE s == PartialSums(x, n)
<1>2. s = SumBody(x, n, s)
  BY <1>1 DEF PartialSums
<1> HIDE DEF s
<1>3. \A k \in 0..n : s[k] = IF k = 0 THEN 0 ELSE s[k - 1] + x[k - 1] * 2^(k - 1)
  BY <1>2 DEF SumBody
<1> QED
  BY <1>3 DEF s

LEMMA ToNatStep ==
  ASSUME NEW x, NEW n \in Nat
  PROVE  ToNat(x, n + 1) = ToNat(x, n) + x[n] * 2^n
<1> DEFINE s == PartialSums(x, n)
           t == PartialSums(x, n + 1)
           Bad == {k \in Nat : k <= n /\ s[k] # t[k]}
<1>1. \A k \in 0..n : s[k] = IF k = 0 THEN 0 ELSE s[k - 1] + x[k - 1] * 2^(k - 1)
  BY SumSteps
<1>2. \A k \in 0..(n + 1) : t[k] = IF k = 0 THEN 0 ELSE t[k - 1] + x[k - 1] * 2^(k - 1)
  BY SumSteps
<1>3. ToNat(x, n) = s[n] /\ ToNat(x, n + 1) = t[n + 1]
  BY ToNatIsSum
<1> HIDE DEF s, t
<1>4. ASSUME NEW m \in Bad
      PROVE  \E k \in Bad : k < m
  <2>1. m \in 0..n /\ m \in 0..(n + 1) /\ s[m] # t[m]
    OBVIOUS
  <2>2. m # 0
    BY <1>1, <1>2, <2>1
  <2>3. s[m] = s[m - 1] + x[m - 1] * 2^(m - 1) /\ t[m] = t[m - 1] + x[m - 1] * 2^(m - 1)
    BY <1>1, <1>2, <2>1, <2>2
  <2>4. m - 1 \in Bad
    BY <2>1, <2>2, <2>3
  <2> QED
    BY <2>2, <2>4
<1>5. Bad = {}
  BY <1>4, NoLeastCounterexample
<1>6. s[n] = t[n]
  BY <1>5
<1>7. t[n + 1] = t[(n + 1) - 1] + x[(n + 1) - 1] * 2^((n + 1) - 1)
  BY <1>2
<1>8. (n + 1) - 1 = n
  OBVIOUS
<1> QED
  BY <1>3, <1>6, <1>7, <1>8

LEMMA ToNat0 ==
  ASSUME NEW x
  PROVE  ToNat(x, 0) = 0
BY SumSteps, ToNatIsSum

(* The prover computes a power of two only for a given exponent. *)
Power(k) == 2^k

LEMMA Powers ==
  ASSUME NEW k \in 0..30
  PROVE  Power(k) \in Nat \ {0} /\ Power(k + 1) = 2 * Power(k)
<1>1. /\ Power(0) = 1 /\ Power(1) = 2 /\ Power(2) = 4 /\ Power(3) = 8
      /\ Power(4) = 16 /\ Power(5) = 32 /\ Power(6) = 64 /\ Power(7) = 128
      /\ Power(8) = 256 /\ Power(9) = 512 /\ Power(10) = 1024 /\ Power(11) = 2048
      /\ Power(12) = 4096 /\ Power(13) = 8192 /\ Power(14) = 16384 /\ Power(15) = 32768
      /\ Power(16) = 65536 /\ Power(17) = 131072 /\ Power(18) = 262144 /\ Power(19) = 524288
      /\ Power(20) = 1048576 /\ Power(21) = 2097152 /\ Power(22) = 4194304 /\ Power(23) = 8388608
      /\ Power(24) = 16777216 /\ Power(25) = 33554432 /\ Power(26) = 67108864 /\ Power(27) = 134217728
      /\ Power(28) = 268435456 /\ Power(29) = 536870912 /\ Power(30) = 1073741824 /\ Power(31) = 2147483648
  BY DEF Power
<1>2. \/ k = 0 \/ k = 1 \/ k = 2 \/ k = 3 \/ k = 4 \/ k = 5 \/ k = 6 \/ k = 7
      \/ k = 8 \/ k = 9 \/ k = 10 \/ k = 11 \/ k = 12 \/ k = 13 \/ k = 14 \/ k = 15
      \/ k = 16 \/ k = 17 \/ k = 18 \/ k = 19 \/ k = 20 \/ k = 21 \/ k = 22 \/ k = 23
      \/ k = 24 \/ k = 25 \/ k = 26 \/ k = 27 \/ k = 28 \/ k = 29 \/ k = 30
  OBVIOUS
<1> QED
  BY <1>1, <1>2, SMT

LEMMA BitOf ==
  ASSUME NEW x \in Bits, NEW i \in Position
  PROVE  x[i] \in Int /\ (x[i] = 0 \/ x[i] = 1)
BY DEF Bits, Bit

(* One bit more. *)
LEMMA NextBit ==
  ASSUME NEW x \in Bits, NEW k \in 0..16
  PROVE  /\ x[k] = 0 => ToNat(x, k + 1) = ToNat(x, k) + 0 * Power(k)
         /\ x[k] = 1 => ToNat(x, k + 1) = ToNat(x, k) + 1 * Power(k)
         /\ x[k] = 0 \/ x[k] = 1
         /\ Power(k) \in Nat \ {0} /\ Power(k + 1) = 2 * Power(k)
<1>1. k \in Nat /\ k \in Position
  BY DEF Position
<1>2. ToNat(x, k + 1) = ToNat(x, k) + x[k] * Power(k)
  BY <1>1, ToNatStep, Zenon DEF Power
<1> QED
  BY <1>1, <1>2, BitOf, Powers

LEMMA ToNatBound ==
  ASSUME NEW x \in Bits, NEW k \in 0..16
  PROVE  ToNat(x, k) \in Nat /\ ToNat(x, k) < Power(k)
<1> DEFINE Good == {j \in 0..16 : ToNat(x, j) \in Nat /\ ToNat(x, j) < Power(j)}
<1>1. 0 \in Good
  BY ToNat0, Powers
<1>2. ASSUME NEW j \in 0..15, j \in Good
      PROVE  j + 1 \in Good
  BY <1>2, NextBit
<1> HIDE DEF Good
<1>3. 0..16 \subseteq Good
  BY <1>1, <1>2, InductionTo
<1> QED
  BY <1>3 DEF Good

-----------------------------------------------------------------------------
(* The bits of a number.                                                   *)

LEMMA QuotientUnique ==
  ASSUME NEW p \in Nat \ {0}, NEW q \in Int, NEW r \in 0..(p - 1),
         NEW m \in Int, m = p * q + r
  PROVE  m \div p = q
<1> DEFINE j == m \div p
           s == m % p
<1>1. j \in Int /\ s \in 0..(p - 1) /\ m = p * j + s
  OBVIOUS
<1> HIDE DEF j, s
<1>2. p * (q - j) = s - r
  BY <1>1
<1>3. CASE q - j >= 1
  <2>1. p * (q - j) >= p
    BY <1>1, <1>3, SMTT(20)
  <2> QED
    BY <1>1, <1>2, <2>1
<1>4. CASE q - j <= -1
  <2>1. p * (q - j) <= -p
    BY <1>1, <1>4, SMTT(20)
  <2> QED
    BY <1>1, <1>2, <2>1
<1> QED
  BY <1>1, <1>3, <1>4 DEF j

LEMMA HalfQuotient ==
  ASSUME NEW p \in Nat \ {0}, NEW m \in Nat
  PROVE  /\ m \div p \in Nat
         /\ (m \div p) % 2 = 0 \/ (m \div p) % 2 = 1
         /\ (m \div p) % 2 = 0 => p * (m \div p) = 2 * p * (m \div (2 * p))
         /\ (m \div p) % 2 = 1 => p * (m \div p) = p + 2 * p * (m \div (2 * p))
<1> DEFINE q == m \div p
           r == m % p
           h == q \div 2
           b == q % 2
<1>1. q \in Nat /\ r \in 0..(p - 1) /\ m = p * q + r
  OBVIOUS
<1> HIDE DEF q, r
<1>2. h \in Nat /\ (b = 0 \/ b = 1) /\ q = 2 * h + b
  BY <1>1
<1> HIDE DEF h, b
<1>3. m = (2 * p) * h + (p * b + r)
  BY <1>1, <1>2
<1>4. p * b + r \in 0..(2 * p - 1)
  BY <1>1, <1>2
<1>5. 2 * p \in Nat \ {0}
  OBVIOUS
<1>6. m \div (2 * p) = h
  BY <1>2, <1>3, <1>4, <1>5, QuotientUnique
<1>7. p * q = 2 * p * h + p * b
  BY <1>1, <1>2
<1> QED
  BY <1>1, <1>2, <1>6, <1>7 DEF q, b

(* A number is its lowest bits and the rest. *)
LEMMA NumberOfBits ==
  ASSUME NEW m \in Nat, NEW n \in 0..16, NEW x \in Bits,
         \A i \in 0..(n - 1) : x[i] = (m \div Power(i)) % 2
  PROVE  m = ToNat(x, n) + Power(n) * (m \div Power(n))
<1> DEFINE Good == {j \in 0..16 : m = ToNat(x, j) + Power(j) * (m \div Power(j))}
<1>1. 0 \in Good
  BY ToNat0 DEF Power
<1>2. ASSUME NEW j \in 0..(n - 1), j \in Good
      PROVE  j + 1 \in Good
  <2>1. m = ToNat(x, j) + Power(j) * (m \div Power(j))
    BY <1>2
  <2>2. x[j] = (m \div Power(j)) % 2
    OBVIOUS
  <2>3. /\ x[j] = 0 => ToNat(x, j + 1) = ToNat(x, j) + 0 * Power(j)
        /\ x[j] = 1 => ToNat(x, j + 1) = ToNat(x, j) + 1 * Power(j)
        /\ x[j] = 0 \/ x[j] = 1
        /\ Power(j) \in Nat \ {0} /\ Power(j + 1) = 2 * Power(j)
        /\ ToNat(x, j) \in Nat
    <3>1. j \in 0..16
      OBVIOUS
    <3> QED
      BY <3>1, NextBit, ToNatBound
  <2> DEFINE p == Power(j)
             q == m \div p
             h == m \div (2 * p)
  <2>4. (q % 2 = 0 => p * q = 2 * p * h) /\ (q % 2 = 1 => p * q = p + 2 * p * h)
    BY <2>3, HalfQuotient
  <2>5. m = ToNat(x, j + 1) + (2 * p) * h
    BY <2>1, <2>2, <2>3, <2>4
  <2>6. m = ToNat(x, j + 1) + Power(j + 1) * (m \div Power(j + 1))
    BY <2>3, <2>5, Zenon
  <2> QED
    BY <2>6
<1> HIDE DEF Good
<1>3. n \in Nat /\ n \in 0..n
  OBVIOUS
<1>4. 0..n \subseteq Good
  BY <1>1, <1>2, <1>3, InductionTo
<1> QED
  BY <1>3, <1>4 DEF Good

LEMMA Bits3 ==
  ASSUME NEW m \in 0..7, NEW x \in Bits,
         \A i \in 0..2 : x[i] = (m \div Power(i)) % 2
  PROVE  ToNat(x, 3) = m
<1>1. m = ToNat(x, 3) + Power(3) * (m \div Power(3))
  BY NumberOfBits
<1> QED
  BY <1>1, ToNatBound DEF Power

LEMMA Bits5 ==
  ASSUME NEW m \in 0..31, NEW x \in Bits,
         \A i \in 0..4 : x[i] = (m \div Power(i)) % 2
  PROVE  ToNat(x, 5) = m
<1>1. m = ToNat(x, 5) + Power(5) * (m \div Power(5))
  BY NumberOfBits
<1> QED
  BY <1>1, ToNatBound DEF Power

LEMMA Bits7 ==
  ASSUME NEW m \in 0..127, NEW x \in Bits,
         \A i \in 0..6 : x[i] = (m \div Power(i)) % 2
  PROVE  ToNat(x, 7) = m
<1>1. m = ToNat(x, 7) + Power(7) * (m \div Power(7))
  BY NumberOfBits
<1> QED
  BY <1>1, ToNatBound DEF Power

(* Numbers of k bits are compared at the highest bit at which they differ. *)
LEMMA CompareBit ==
  ASSUME NEW x \in Bits, NEW y \in Bits, NEW k \in 0..16
  PROVE  /\ ToNat(x, k + 1) = ToNat(y, k + 1)
              <=> x[k] = y[k] /\ ToNat(x, k) = ToNat(y, k)
         /\ ToNat(x, k + 1) < ToNat(y, k + 1)
              <=> \/ x[k] < y[k]
                  \/ x[k] = y[k] /\ ToNat(x, k) < ToNat(y, k)
<1>1. /\ ToNat(x, k) \in Nat /\ ToNat(x, k) < Power(k)
      /\ ToNat(y, k) \in Nat /\ ToNat(y, k) < Power(k)
      /\ Power(k) \in Nat
  BY NextBit, ToNatBound
<1>2. /\ x[k] = 0 => ToNat(x, k + 1) = ToNat(x, k)
      /\ x[k] = 1 => ToNat(x, k + 1) = ToNat(x, k) + Power(k)
      /\ x[k] = 0 \/ x[k] = 1
  BY <1>1, NextBit
<1>3. /\ y[k] = 0 => ToNat(y, k + 1) = ToNat(y, k)
      /\ y[k] = 1 => ToNat(y, k + 1) = ToNat(y, k) + Power(k)
      /\ y[k] = 0 \/ y[k] = 1
  BY <1>1, NextBit
<1> QED
  BY <1>1, <1>2, <1>3

LEMMA SameBits ==
  ASSUME NEW x \in Bits, NEW y \in Bits, NEW n \in 0..16
  PROVE  ToNat(x, n) = ToNat(y, n) <=> \A i \in 0..(n - 1) : x[i] = y[i]
<1> DEFINE Good == {k \in 0..16 :
                      ToNat(x, k) = ToNat(y, k) <=> \A i \in 0..(k - 1) : x[i] = y[i]}
<1>1. 0 \in Good
  BY ToNat0
<1>2. ASSUME NEW k \in 0..(n - 1), k \in Good
      PROVE  k + 1 \in Good
  <2>1. k \in 0..16 /\ k + 1 \in 0..16
    OBVIOUS
  <2>2. ToNat(x, k + 1) = ToNat(y, k + 1) <=> x[k] = y[k] /\ ToNat(x, k) = ToNat(y, k)
    BY <2>1, CompareBit
  <2>3. \A i : i \in 0..((k + 1) - 1) <=> i \in 0..(k - 1) \/ i = k
    BY <2>1
  <2> QED
    BY <1>2, <2>1, <2>2, <2>3
<1> HIDE DEF Good
<1>3. n \in Nat /\ n \in 0..n
  OBVIOUS
<1>4. 0..n \subseteq Good
  BY <1>1, <1>2, <1>3, InductionTo
<1> QED
  BY <1>3, <1>4 DEF Good

-----------------------------------------------------------------------------
(* Sums.                                                                   *)

(* The carry, bit by bit. *)
LEMMA CarryStep ==
  ASSUME NEW x \in Bits, NEW y \in Bits, NEW c \in Bit, NEW i \in Position
  PROVE  /\ Carry(x, y, c, 0) <=> c = 1
         /\ Carry(x, y, c, i + 1) <=>
              \/ x[i] + y[i] = 2
              \/ x[i] + y[i] > 0 /\ Carry(x, y, c, i)
<1>1. Carry(x, y, c, 0) <=> c = 1
  BY DEF Carry
<1>2. /\ \A k : k \in 0..((i + 1) - 1) <=> k \in 0..(i - 1) \/ k = i
      /\ \A j \in 0..(i - 1) : \A k :
           k \in (j + 1)..((i + 1) - 1) <=> k \in (j + 1)..(i - 1) \/ k = i
      /\ \A k : k \notin (i + 1)..((i + 1) - 1)
  BY DEF Position
<1>3. (x[i] = 0 \/ x[i] = 1) /\ (y[i] = 0 \/ y[i] = 1)
  BY BitOf
<1>4. Carry(x, y, c, i + 1) <=>
        \/ c = 1 /\ (\A k \in 0..(i - 1) : x[k] + y[k] > 0) /\ x[i] + y[i] > 0
        \/ x[i] + y[i] = 2
        \/ /\ \E j \in 0..(i - 1) :
                x[j] + y[j] = 2 /\ \A k \in (j + 1)..(i - 1) : x[k] + y[k] > 0
           /\ x[i] + y[i] > 0
  <2>1. (\A k \in 0..((i + 1) - 1) : x[k] + y[k] > 0)
          <=> (\A k \in 0..(i - 1) : x[k] + y[k] > 0) /\ x[i] + y[i] > 0
    BY <1>2, Zenon
  <2>2. (\E j \in 0..((i + 1) - 1) :
           x[j] + y[j] = 2 /\ \A k \in (j + 1)..((i + 1) - 1) : x[k] + y[k] > 0)
          <=> \/ x[i] + y[i] = 2
              \/ /\ \E j \in 0..(i - 1) :
                      x[j] + y[j] = 2 /\ \A k \in (j + 1)..(i - 1) : x[k] + y[k] > 0
                 /\ x[i] + y[i] > 0
    <3>1. (\E j \in 0..((i + 1) - 1) :
             x[j] + y[j] = 2 /\ \A k \in (j + 1)..((i + 1) - 1) : x[k] + y[k] > 0)
            <=> \/ x[i] + y[i] = 2
                \/ \E j \in 0..(i - 1) :
                     x[j] + y[j] = 2 /\ \A k \in (j + 1)..((i + 1) - 1) : x[k] + y[k] > 0
      BY <1>2, Zenon
    <3>2. \A j \in 0..(i - 1) :
            (\A k \in (j + 1)..((i + 1) - 1) : x[k] + y[k] > 0)
              <=> (\A k \in (j + 1)..(i - 1) : x[k] + y[k] > 0) /\ x[i] + y[i] > 0
      BY <1>2, Zenon
    <3> QED
      BY <3>1, <3>2, Zenon
  <2> QED
    BY <2>1, <2>2, Zenon DEF Carry
<1> QED
  BY <1>1, <1>4, Zenon DEF Carry

carryBit(x, y, c, i) == IF Carry(x, y, c, i) THEN 1 ELSE 0

LEMMA SumType ==
  ASSUME NEW x \in Bits, NEW y \in Bits, NEW c
  PROVE  SumWithCarry(x, y, c) \in Bits
<1>1. ASSUME NEW i \in Position
      PROVE  (x[i] + y[i] + (IF Carry(x, y, c, i) THEN 1 ELSE 0)) % 2 \in Bit
  <2>1. (x[i] = 0 \/ x[i] = 1) /\ (y[i] = 0 \/ y[i] = 1)
    BY BitOf
  <2> QED
    BY <2>1 DEF Bit
<1> QED
  BY <1>1 DEF SumWithCarry, Bits

LEMMA NotType ==
  ASSUME NEW x \in Bits
  PROVE  NotBits(x) \in Bits
<1>1. ASSUME NEW i \in Position
      PROVE  1 - x[i] \in Bit
  BY BitOf DEF Bit
<1> QED
  BY <1>1 DEF NotBits, Bits

LEMMA AddType ==
  ASSUME NEW x \in Bits, NEW y \in Bits
  PROVE  Add(x, y) \in Bits /\ Sub(x, y) \in Bits
BY SumType, NotType DEF Add, Sub

LEMMA LogicType ==
  ASSUME NEW x \in Bits, NEW y \in Bits
  PROVE  AndBits(x, y) \in Bits /\ OrBits(x, y) \in Bits /\ XorBits(x, y) \in Bits
<1>1. ASSUME NEW i \in Position
      PROVE  x[i] * y[i] \in Bit /\ (x[i] + y[i]) % 2 \in Bit
  <2>1. (x[i] = 0 \/ x[i] = 1) /\ (y[i] = 0 \/ y[i] = 1)
    BY BitOf
  <2> QED
    BY <2>1 DEF Bit
<1> QED
  BY <1>1 DEF AndBits, OrBits, XorBits, Bits, Bit

LEMMA ShiftType ==
  ASSUME NEW x \in Bits, NEW n \in Nat
  PROVE  /\ ShiftLeft(x, n) \in Bits /\ ShiftRight(x, n) \in Bits
         /\ ShiftRightArith(x, n) \in Bits
         /\ Low32(x) \in Bits /\ Masked(x, n) \in Bits
<1>1. \A i \in Position : x[i] \in {0, 1}
  BY BitOf
<1>2. \A i \in Position : /\ i >= n => i - n \in Position
                          /\ i + n < 64 => i + n \in Position
                          /\ 63 \in Position
  BY DEF Position
<1> QED
  BY <1>1, <1>2 DEF ShiftLeft, ShiftRight, ShiftRightArith, Low32, Masked, Bits, Bit

(* A bit of a sum and the carry behind it. *)
LEMMA SumBit ==
  ASSUME NEW x \in Bits, NEW y \in Bits, NEW c \in Bit, NEW i \in Position
  PROVE  x[i] + y[i] + carryBit(x, y, c, i)
           = SumWithCarry(x, y, c)[i] + 2 * carryBit(x, y, c, i + 1)
<1>1. SumWithCarry(x, y, c)[i] = (x[i] + y[i] + carryBit(x, y, c, i)) % 2
  BY DEF SumWithCarry, carryBit
<1>2. (x[i] = 0 \/ x[i] = 1) /\ (y[i] = 0 \/ y[i] = 1)
  BY BitOf
<1>3. carryBit(x, y, c, i + 1) =
        IF x[i] + y[i] = 2 \/ (x[i] + y[i] > 0 /\ carryBit(x, y, c, i) = 1)
        THEN 1 ELSE 0
  BY CarryStep DEF carryBit
<1>4. carryBit(x, y, c, i) = 0 \/ carryBit(x, y, c, i) = 1
  BY DEF carryBit
<1> QED
  BY <1>1, <1>2, <1>3, <1>4

(* The lowest bits of a row of limbs add up, with the carries at both ends. *)
LEMMA LimbSums ==
  ASSUME NEW x \in Bits, NEW y \in Bits, NEW c \in Bit, NEW k \in 0..3
  PROVE  Limb(x, k) + Limb(y, k) + carryBit(x, y, c, 16 * k)
           = Limb(SumWithCarry(x, y, c), k)
               + LimbSpan * carryBit(x, y, c, 16 * k + 16)
<1> DEFINE z == SumWithCarry(x, y, c)
           u == ShiftRight(x, 16 * k)
           v == ShiftRight(y, 16 * k)
           w == ShiftRight(z, 16 * k)
           d(j) == carryBit(x, y, c, 16 * k + j)
           Good == {j \in 0..16 :
                      ToNat(u, j) + ToNat(v, j) + d(0) = ToNat(w, j) + Power(j) * d(j)}
<1>1. z \in Bits /\ u \in Bits /\ v \in Bits /\ w \in Bits
  <2>1. z \in Bits /\ 16 * k \in Nat
    BY SumType
  <2> HIDE DEF z
  <2> QED
    BY <2>1, ShiftType
<1>2. \A j : d(j) = 0 \/ d(j) = 1
  BY DEF carryBit
<1>3. \A j \in 0..15 :
        /\ u[j] + v[j] + d(j) = w[j] + 2 * d(j + 1)
        /\ (u[j] = 0 \/ u[j] = 1) /\ (v[j] = 0 \/ v[j] = 1) /\ (w[j] = 0 \/ w[j] = 1)
  <2> SUFFICES ASSUME NEW j \in 0..15
               PROVE  /\ u[j] + v[j] + d(j) = w[j] + 2 * d(j + 1)
                      /\ (u[j] = 0 \/ u[j] = 1) /\ (v[j] = 0 \/ v[j] = 1)
                      /\ (w[j] = 0 \/ w[j] = 1)
    OBVIOUS
  <2>1. j \in Position /\ 16 * k + j \in Position /\ j + 16 * k = 16 * k + j
        /\ 16 * k + j < 64
    BY DEF Position
  <2>2. u[j] = x[16 * k + j] /\ v[j] = y[16 * k + j] /\ w[j] = z[16 * k + j]
    BY <2>1 DEF ShiftRight
  <2>3. x[16 * k + j] + y[16 * k + j] + d(j) = z[16 * k + j] + 2 * d(j + 1)
    <3>1. (16 * k + j) + 1 = 16 * k + (j + 1)
      OBVIOUS
    <3> QED
      BY <2>1, <3>1, SumBit
  <2> QED
    BY <1>1, <2>1, <2>2, <2>3, BitOf
<1> HIDE DEF u, v, w, z, d
<1>4. 0 \in Good
  <2>1. d(0) \in Int
    BY <1>2
  <2> QED
    BY <2>1, ToNat0 DEF Power
<1>5. ASSUME NEW j \in 0..15, j \in Good
      PROVE  j + 1 \in Good
  <2>1. /\ u[j] + v[j] + d(j) = w[j] + 2 * d(j + 1)
        /\ (u[j] = 0 \/ u[j] = 1) /\ (v[j] = 0 \/ v[j] = 1) /\ (w[j] = 0 \/ w[j] = 1)
        /\ (d(j) = 0 \/ d(j) = 1) /\ (d(j + 1) = 0 \/ d(j + 1) = 1)
        /\ (d(0) = 0 \/ d(0) = 1)
    BY <1>2, <1>3
  <2> DEFINE p == Power(j)
  <2>2. p \in Nat /\ Power(j + 1) = 2 * p
    BY Powers
  <2>3. /\ ToNat(u, j + 1) = ToNat(u, j) + u[j] * p /\ ToNat(u, j) \in Int
        /\ ToNat(v, j + 1) = ToNat(v, j) + v[j] * p /\ ToNat(v, j) \in Int
        /\ ToNat(w, j + 1) = ToNat(w, j) + w[j] * p /\ ToNat(w, j) \in Int
    <3>1. \A t \in Bits : /\ t[j] = 0 => ToNat(t, j + 1) = ToNat(t, j) + 0 * p
                          /\ t[j] = 1 => ToNat(t, j + 1) = ToNat(t, j) + 1 * p
                          /\ ToNat(t, j) \in Int
      BY NextBit, ToNatBound
    <3> HIDE DEF p
    <3> QED
      BY <1>1, <2>1, <2>2, <3>1
  <2>4. ToNat(u, j) + ToNat(v, j) + d(0) = ToNat(w, j) + p * d(j)
    BY <1>5
  <2> HIDE DEF p
  <2>5. ToNat(u, j + 1) + ToNat(v, j + 1) + d(0) = ToNat(w, j + 1) + (2 * p) * d(j + 1)
    BY <2>1, <2>2, <2>3, <2>4
  <2> QED
    BY <2>2, <2>5
<1> HIDE DEF Good
<1>6. 0..16 \subseteq Good
  BY <1>4, <1>5, InductionTo
<1>7. ToNat(u, 16) + ToNat(v, 16) + d(0) = ToNat(w, 16) + Power(16) * d(16)
  BY <1>6 DEF Good
<1>8. d(0) = carryBit(x, y, c, 16 * k) /\ Power(16) = LimbSpan
  BY DEF d, Power, LimbSpan
<1> QED
  BY <1>7, <1>8 DEF u, v, w, z, d, Limb

LimbBody(x, y, f) ==
  [k \in 0..3 |-> Limb(x, k) + Limb(y, k) + IF k = 0 THEN 0 ELSE f[k - 1] \div LimbSpan]

LEMMA LimbSumIs ==
  ASSUME NEW x, NEW y
  PROVE  LimbSum(x, y) = CHOOSE f : f = LimbBody(x, y, f)
BY Zenon DEF LimbSum, LimbBody

LEMMA LimbType ==
  ASSUME NEW x \in Bits, NEW k \in 0..3
  PROVE  Limb(x, k) \in Nat /\ Limb(x, k) < LimbSpan
<1>1. 16 * k \in Nat
  OBVIOUS
<1>2. ShiftRight(x, 16 * k) \in Bits
  BY <1>1, ShiftType
<1> QED
  BY <1>2, ToNatBound DEF Limb, Power, LimbSpan

LEMMA CarryOut ==
  ASSUME NEW z \in Nat, z < LimbSpan, NEW c \in {0, 1}, NEW t, t = z + LimbSpan * c
  PROVE  t \div LimbSpan = c
<1>1. CASE c = 0
  BY <1>1 DEF LimbSpan
<1>2. CASE c = 1
  BY <1>2 DEF LimbSpan
<1> QED
  BY <1>1, <1>2

(* A limb of the sum has the bits of the sum and the carry out of it. *)
LEMMA LimbOfSum ==
  ASSUME NEW x \in Bits, NEW y \in Bits, NEW k \in 0..3
  PROVE  LimbSum(x, y)[k] =
           Limb(Add(x, y), k) + LimbSpan * carryBit(x, y, 0, 16 * k + 16)
<1> DEFINE f == LimbSum(x, y)
           g0 == Limb(x, 0) + Limb(y, 0) + 0
           g1 == Limb(x, 1) + Limb(y, 1) + g0 \div LimbSpan
           g2 == Limb(x, 2) + Limb(y, 2) + g1 \div LimbSpan
           g3 == Limb(x, 3) + Limb(y, 3) + g2 \div LimbSpan
           g == [j \in 0..3 |-> IF j = 0 THEN g0 ELSE IF j = 1 THEN g1
                                ELSE IF j = 2 THEN g2 ELSE g3]
           e(j) == Limb(x, j) + Limb(y, j)
           z(j) == Limb(Add(x, y), j)
           d(j) == carryBit(x, y, 0, 16 * j)
<1>1. g = LimbBody(x, y, g)
  <2>1. ASSUME NEW j \in 0..3
        PROVE  g[j] = Limb(x, j) + Limb(y, j) + IF j = 0 THEN 0 ELSE g[j - 1] \div LimbSpan
    <3>1. g[0] = g0 /\ g[1] = g1 /\ g[2] = g2 /\ g[3] = g3
      OBVIOUS
    <3>2. /\ g0 = Limb(x, 0) + Limb(y, 0) + 0
          /\ g1 = Limb(x, 1) + Limb(y, 1) + g[0] \div LimbSpan
          /\ g2 = Limb(x, 2) + Limb(y, 2) + g[1] \div LimbSpan
          /\ g3 = Limb(x, 3) + Limb(y, 3) + g[2] \div LimbSpan
      BY <3>1
    <3> HIDE DEF g, g0, g1, g2, g3
    <3>3. j = 0 \/ j = 1 \/ j = 2 \/ j = 3
      OBVIOUS
    <3> QED
      BY <3>1, <3>2, <3>3
  <2>2. g = [j \in 0..3 |-> g[j]]
    OBVIOUS
  <2> HIDE DEF g
  <2> QED
    BY <2>1, <2>2 DEF LimbBody
<1>2. f = LimbBody(x, y, f)
  <2> HIDE DEF g
  <2>1. \E h : h = LimbBody(x, y, h)
    BY <1>1
  <2> QED
    BY <2>1, LimbSumIs
<1> HIDE DEF f
<1>3. \A j \in 0..3 : f[j] = Limb(x, j) + Limb(y, j) + IF j = 0 THEN 0 ELSE f[j - 1] \div LimbSpan
  BY <1>2 DEF LimbBody
<1>4. /\ f[0] = e(0) + 0 /\ f[1] = e(1) + f[0] \div LimbSpan
      /\ f[2] = e(2) + f[1] \div LimbSpan /\ f[3] = e(3) + f[2] \div LimbSpan
  BY <1>3
<1>5. \A j \in 0..3 :
        /\ e(j) + d(j) = z(j) + LimbSpan * d(j + 1)
        /\ e(j) \in Nat /\ z(j) \in Nat /\ z(j) < LimbSpan
        /\ d(j) \in {0, 1} /\ d(j + 1) \in {0, 1}
  <2> SUFFICES ASSUME NEW j \in 0..3
               PROVE  /\ e(j) + d(j) = z(j) + LimbSpan * d(j + 1)
                      /\ e(j) \in Nat /\ z(j) \in Nat /\ z(j) < LimbSpan
                      /\ d(j) \in {0, 1} /\ d(j + 1) \in {0, 1}
    OBVIOUS
  <2>1. 0 \in Bit /\ 16 * (j + 1) = 16 * j + 16
    BY DEF Bit
  <2>2. Add(x, y) \in Bits
    BY AddType
  <2> QED
    BY <2>1, <2>2, LimbSums, LimbType DEF Add, carryBit
<1>6. d(0) = 0
  BY CarryStep DEF carryBit, Bit, Position
<1> HIDE DEF e, z, d
<1> HIDE DEF g, g0, g1, g2, g3
<1>7. /\ e(0) + d(0) = z(0) + LimbSpan * d(1) /\ e(1) + d(1) = z(1) + LimbSpan * d(2)
      /\ e(2) + d(2) = z(2) + LimbSpan * d(3) /\ e(3) + d(3) = z(3) + LimbSpan * d(4)
  <2>1. 0 + 1 = 1 /\ 1 + 1 = 2 /\ 2 + 1 = 3 /\ 3 + 1 = 4
    OBVIOUS
  <2> QED
    BY <1>5, <2>1
<1>8. /\ d(1) \in {0, 1} /\ d(2) \in {0, 1} /\ d(3) \in {0, 1}
      /\ \A j \in 0..3 : z(j) \in Nat /\ z(j) < LimbSpan /\ e(j) \in Nat
  BY <1>5
<1>9. f[0] = z(0) + LimbSpan * d(1)
  BY <1>4, <1>6, <1>7, <1>8 DEF LimbSpan
<1>10. f[1] = z(1) + LimbSpan * d(2)
  <2>1. f[0] \div LimbSpan = d(1)
    BY <1>8, <1>9, CarryOut
  <2> QED
    BY <1>4, <1>7, <1>8, <2>1 DEF LimbSpan
<1>11. f[2] = z(2) + LimbSpan * d(3)
  <2>1. f[1] \div LimbSpan = d(2)
    BY <1>8, <1>10, CarryOut
  <2> QED
    BY <1>4, <1>7, <1>8, <2>1 DEF LimbSpan
<1>12. f[3] = z(3) + LimbSpan * d(4)
  <2>1. f[2] \div LimbSpan = d(3)
    BY <1>8, <1>11, CarryOut
  <2> QED
    BY <1>4, <1>7, <1>8, <2>1 DEF LimbSpan
<1>13. f[k] = z(k) + LimbSpan * d(k + 1)
  <2>1. k = 0 \/ k = 1 \/ k = 2 \/ k = 3
    OBVIOUS
  <2> QED
    BY <1>9, <1>10, <1>11, <1>12, <2>1
<1>14. 16 * (k + 1) = 16 * k + 16
  OBVIOUS
<1> QED
  BY <1>13, <1>14, Zenon DEF f, z, d

(* The bits of a number with sixteen bits and a carry. *)
LEMMA LimbBits ==
  ASSUME NEW w \in Bits, NEW c \in {0, 1}, NEW m, m = ToNat(w, 16) + LimbSpan * c,
         NEW j \in 0..15
  PROVE  (m \div Power(j)) % 2 = w[j]
<1> DEFINE v == [i \in Position |-> IF i < 16 THEN (m \div Power(i)) % 2 ELSE 0]
<1>1. m \in Nat /\ ToNat(w, 16) \in Nat /\ ToNat(w, 16) < LimbSpan /\ Power(16) = LimbSpan
  BY ToNatBound DEF Power, LimbSpan
<1>2. ASSUME NEW i \in 0..15
      PROVE  (m \div Power(i)) % 2 \in {0, 1}
  <2>1. Power(i) \in Nat \ {0}
    BY Powers
  <2>2. m \div Power(i) \in Int
    BY <1>1, <2>1
  <2> QED
    BY <2>2
<1>3. \A i \in 0..15 : i \in Position /\ i < 16
  BY DEF Position
<1>4. \A i \in Position : i < 16 => i \in 0..15
  BY DEF Position
<1>5. v \in Bits
  BY <1>2, <1>4 DEF Bits, Bit
<1>6. \A i \in 0..15 : v[i] = (m \div Power(i)) % 2
  BY <1>3
<1> HIDE DEF v
<1>7. m = ToNat(v, 16) + Power(16) * (m \div Power(16))
  BY <1>1, <1>5, <1>6, NumberOfBits
<1>8. ToNat(v, 16) \in Nat /\ ToNat(v, 16) < LimbSpan
  BY <1>1, <1>5, ToNatBound DEF LimbSpan, Power
<1>9. m \div LimbSpan = c
  BY <1>1, CarryOut
<1>10. ToNat(v, 16) = ToNat(w, 16)
  BY <1>1, <1>7, <1>8, <1>9 DEF LimbSpan
<1>11. v[j] = w[j]
  BY <1>5, <1>10, SameBits
<1> QED
  BY <1>6, <1>11

(* The sum of numbers is the sum of bits. *)
LEMMA SumIsAdd ==
  ASSUME NEW x \in Bits, NEW y \in Bits
  PROVE  Sum(x, y) = Add(x, y)
<1> DEFINE z == Add(x, y)
<1>1. z \in Bits
  BY AddType
<1>2. ASSUME NEW i \in Position
      PROVE  (LimbSum(x, y)[i \div 16] \div 2^(i % 16)) % 2 = z[i]
  <2> DEFINE k == i \div 16
             j == i % 16
             w == ShiftRight(z, 16 * k)
             c == carryBit(x, y, 0, 16 * k + 16)
  <2>1. k \in 0..3 /\ j \in 0..15 /\ j + 16 * k = i /\ i < 64
    BY DEF Position
  <2>2. LimbSum(x, y)[k] = ToNat(w, 16) + LimbSpan * c
    <3>1. LimbSum(x, y)[k] = Limb(z, k) + LimbSpan * c
      BY <2>1, LimbOfSum
    <3> HIDE DEF z, k, c
    <3> QED
      BY <3>1 DEF Limb
  <2>3. c \in {0, 1}
    BY DEF carryBit
  <2> HIDE DEF z, c, k, j
  <2>4. w \in Bits
    BY <1>1, <2>1, ShiftType
  <2>5. w[j] = z[i]
    BY <2>1 DEF ShiftRight, Position
  <2> HIDE DEF w
  <2> DEFINE m == LimbSum(x, y)[k]
  <2>6. m = ToNat(w, 16) + LimbSpan * c
    BY <2>2
  <2> HIDE DEF m
  <2>7. (m \div Power(j)) % 2 = w[j]
    BY <2>1, <2>3, <2>4, <2>6, LimbBits
  <2> QED
    BY <2>5, <2>7 DEF m, k, j, Power
<1>3. z = [i \in Position |-> z[i]]
  BY <1>1 DEF Bits
<1> HIDE DEF z
<1>4. Sum(x, y) = z
  BY <1>2, <1>3 DEF Sum
<1> QED
  BY <1>4 DEF z

(* Small numbers as words. *)
LEMMA FromNatType ==
  ASSUME NEW n \in Nat
  PROVE  FromNat(n) \in Bits
<1>1. ASSUME NEW i \in Position
      PROVE  (IF i < 31 THEN (n \div 2^i) % 2 ELSE 0) \in {0, 1}
  <2>1. CASE i < 31
    <3>1. i \in 0..30
      BY <2>1 DEF Position
    <3>2. Power(i) \in Nat \ {0}
      BY <3>1, Powers
    <3>3. (n \div Power(i)) % 2 \in {0, 1}
      <4> DEFINE p == Power(i)
                 q == n \div p
      <4>1. q \in Int
        BY <3>2
      <4> HIDE DEF q
      <4>2. q % 2 \in {0, 1}
        BY <4>1
      <4> QED
        BY <4>2 DEF q
    <3> QED
      BY <2>1, <3>3 DEF Power
  <2>2. CASE ~(i < 31)
    BY <2>2
  <2> QED
    BY <2>1, <2>2
<1> QED
  BY <1>1, Zenon DEF FromNat, Bits, Bit

LEMMA PowersGrow ==
  ASSUME NEW k \in 1..30
  PROVE  Power(k) >= 2
<1>1. k - 1 \in 0..30 /\ (k - 1) + 1 = k
  OBVIOUS
<1> QED
  BY <1>1, Powers

LEMMA ZeroIs ==
  FromNat(0) \in Bits /\ \A i \in Position : FromNat(0)[i] = 0
<1>1. ASSUME NEW i \in Position
      PROVE  FromNat(0)[i] = 0
  <2>1. FromNat(0)[i] = IF i < 31 THEN (0 \div Power(i)) % 2 ELSE 0
    BY Zenon DEF FromNat, Power
  <2>2. ASSUME i < 31
        PROVE  (0 \div Power(i)) % 2 = 0
    <3>1. Power(i) \in Nat \ {0}
      BY <2>2, Powers DEF Position
    <3> QED
      BY <3>1
  <2> QED
    BY <2>1, <2>2
<1> QED
  BY <1>1, FromNatType

LEMMA OneIs ==
  FromNat(1) \in Bits /\ \A i \in Position : FromNat(1)[i] = IF i = 0 THEN 1 ELSE 0
<1>1. ASSUME NEW i \in Position
      PROVE  FromNat(1)[i] = IF i = 0 THEN 1 ELSE 0
  <2>1. FromNat(1)[i] = IF i < 31 THEN (1 \div Power(i)) % 2 ELSE 0
    BY Zenon DEF FromNat, Power
  <2>2. Power(0) = 1
    BY DEF Power
  <2>3. ASSUME i < 31, i # 0
        PROVE  (1 \div Power(i)) % 2 = 0
    <3>1. Power(i) \in Nat /\ Power(i) >= 2
      BY <2>3, Powers, PowersGrow DEF Position
    <3>2. 1 \div Power(i) = 0
      BY <3>1
    <3> QED
      BY <3>2
  <2> QED
    BY <2>1, <2>2, <2>3
<1> QED
  BY <1>1, FromNatType

(* To subtract is to add the complement and one, in either order. *)
LEMMA DifferenceIsSub ==
  ASSUME NEW x \in Bits, NEW y \in Bits
  PROVE  Difference(x, y) = Sub(x, y)
<1> DEFINE n == NotBits(y)
           one == FromNat(1)
           t == Add(n, one)
           r == Add(x, t)
           s == Sub(x, y)
           p(i) == carryBit(n, one, 0, i)
           q(i) == IF i = 0 THEN 1 ELSE p(i)
           d(i) == carryBit(x, t, 0, i)
           c(i) == carryBit(x, n, 1, i)
           Good == {i \in 0..63 : c(i) = d(i) + q(i)}
<1>1. /\ n \in Bits /\ one \in Bits /\ t \in Bits /\ r \in Bits /\ s \in Bits
      /\ 0 \in Bit /\ 1 \in Bit
  <2>1. n \in Bits /\ one \in Bits /\ 0 \in Bit /\ 1 \in Bit
    BY NotType, OneIs DEF Bit
  <2> HIDE DEF n, one
  <2>2. t \in Bits
    BY <2>1, AddType
  <2> HIDE DEF t
  <2> QED
    BY <2>1, <2>2, AddType
<1>2. s = SumWithCarry(x, n, 1) /\ t = SumWithCarry(n, one, 0) /\ r = SumWithCarry(x, t, 0)
  BY DEF Sub, Add
<1>3. \A i \in Position : one[i] = IF i = 0 THEN 1 ELSE 0
  BY OneIs
<1>4. p(0) = 0 /\ d(0) = 0 /\ c(0) = 1
  <2> HIDE DEF n, one, t
  <2>1. 0 \in Position
    BY DEF Position
  <2> QED
    BY <1>1, <2>1, CarryStep DEF carryBit
<1>5. Difference(x, y) = r
  <2>1. Sum(n, one) = t
    <3> HIDE DEF n, one
    <3> QED
      BY <1>1, SumIsAdd DEF t
  <2> HIDE DEF t
  <2>2. Sum(x, t) = r
    BY <1>1, SumIsAdd DEF r
  <2> QED
    BY <2>1, <2>2, Zenon DEF Difference, n, one
<1>6. \A i \in 0..64 : p(i) \in {0, 1} /\ d(i) \in {0, 1} /\ c(i) \in {0, 1}
  BY DEF carryBit
<1>7. ASSUME NEW i \in Position
      PROVE  /\ n[i] + one[i] + p(i) = t[i] + 2 * p(i + 1)
             /\ x[i] + t[i] + d(i) = r[i] + 2 * d(i + 1)
             /\ x[i] + n[i] + c(i) = s[i] + 2 * c(i + 1)
             /\ n[i] \in {0, 1} /\ t[i] \in {0, 1} /\ r[i] \in {0, 1}
             /\ s[i] \in {0, 1} /\ x[i] \in {0, 1}
  <2>1. /\ n[i] + one[i] + p(i) = SumWithCarry(n, one, 0)[i] + 2 * p(i + 1)
        /\ x[i] + t[i] + d(i) = SumWithCarry(x, t, 0)[i] + 2 * d(i + 1)
        /\ x[i] + n[i] + c(i) = SumWithCarry(x, n, 1)[i] + 2 * c(i + 1)
    <3> HIDE DEF n, one, t
    <3> QED
      BY <1>1, SumBit
  <2> HIDE DEF n, one, t, r, s, p, c, d
  <2> QED
    BY <1>1, <1>2, <2>1, BitOf
<1> HIDE DEF n, one, t, r, s, p, c, d
<1>8. ASSUME NEW i \in 0..63, i \in Good
      PROVE  c(i + 1) = d(i + 1) + q(i + 1) /\ r[i] = s[i]
  <2>1. /\ i \in Position /\ i + 1 # 0 /\ i \in 0..64 /\ i + 1 \in 0..64
        /\ c(i) = d(i) + q(i)
    BY <1>8 DEF Position
  <2>2. one[i] + p(i) = q(i)
    BY <1>3, <1>4, <1>6, <2>1
  <2>3. q(i + 1) = p(i + 1)
    BY <2>1
  <2>4. q(i) \in {0, 1}
    BY <1>6, <2>1
  <2>5. /\ n[i] + one[i] + p(i) = t[i] + 2 * p(i + 1)
        /\ x[i] + t[i] + d(i) = r[i] + 2 * d(i + 1)
        /\ x[i] + n[i] + c(i) = s[i] + 2 * c(i + 1)
        /\ n[i] \in {0, 1} /\ t[i] \in {0, 1} /\ r[i] \in {0, 1}
        /\ s[i] \in {0, 1} /\ x[i] \in {0, 1} /\ one[i] \in {0, 1}
    BY <1>3, <1>7, <2>1
  <2>6. p(i + 1) \in {0, 1} /\ d(i + 1) \in {0, 1} /\ c(i + 1) \in {0, 1}
        /\ p(i) \in {0, 1} /\ d(i) \in {0, 1} /\ c(i) \in {0, 1}
    BY <1>6, <2>1
  <2> HIDE DEF q
  <2> QED
    BY <2>1, <2>2, <2>3, <2>4, <2>5, <2>6
<1>9. 0 \in Good
  BY <1>4
<1>10. 0..63 \subseteq Good
  <2>1. \A i \in 0..(63 - 1) : i \in Good => i + 1 \in Good
    BY <1>8
  <2> HIDE DEF Good
  <2> QED
    BY <1>9, <2>1, InductionTo
<1>11. r = s
  <2>1. \A i \in Position : r[i] = s[i]
    BY <1>8, <1>10 DEF Position
  <2> QED
    BY <1>1, <2>1 DEF Bits
<1> QED
  BY <1>5, <1>11 DEF s

(* The smaller number has a zero at the highest bit at which they differ. *)
LEMMA SmallerBits ==
  ASSUME NEW x \in Bits, NEW y \in Bits, NEW n \in 0..16
  PROVE  ToNat(x, n) < ToNat(y, n) <=>
           \E i \in 0..(n - 1) : x[i] < y[i] /\ \A k \in (i + 1)..(n - 1) : x[k] = y[k]
<1> DEFINE Differ(m) ==
             \E i \in 0..(m - 1) : x[i] < y[i] /\ \A k \in (i + 1)..(m - 1) : x[k] = y[k]
           Good == {m \in 0..16 : ToNat(x, m) < ToNat(y, m) <=> Differ(m)}
<1>1. 0 \in Good
  BY ToNat0
<1>2. ASSUME NEW m \in 0..(n - 1), m \in Good
      PROVE  m + 1 \in Good
  <2>1. m \in 0..16 /\ m + 1 \in 0..16 /\ m \in Position
    BY DEF Position
  <2>2. ToNat(x, m + 1) < ToNat(y, m + 1)
          <=> x[m] < y[m] \/ (x[m] = y[m] /\ ToNat(x, m) < ToNat(y, m))
    BY <2>1, CompareBit
  <2>3. /\ \A i : i \in 0..((m + 1) - 1) <=> i \in 0..(m - 1) \/ i = m
        /\ \A i \in 0..(m - 1) : \A k :
             k \in (i + 1)..((m + 1) - 1) <=> k \in (i + 1)..(m - 1) \/ k = m
        /\ \A k : k \notin (m + 1)..((m + 1) - 1)
    BY <2>1
  <2>4. Differ(m + 1) <=> x[m] < y[m] \/ (x[m] = y[m] /\ Differ(m))
    <3>1. Differ(m + 1) <=>
            \/ x[m] < y[m]
            \/ \E i \in 0..(m - 1) :
                 x[i] < y[i] /\ \A k \in (i + 1)..((m + 1) - 1) : x[k] = y[k]
      BY <2>3, Zenon
    <3>2. \A i \in 0..(m - 1) :
            (\A k \in (i + 1)..((m + 1) - 1) : x[k] = y[k])
              <=> (\A k \in (i + 1)..(m - 1) : x[k] = y[k]) /\ x[m] = y[m]
      BY <2>3, Zenon
    <3> QED
      BY <3>1, <3>2, Zenon
  <2>5. ToNat(x, m) < ToNat(y, m) <=> Differ(m)
    BY <1>2
  <2> HIDE DEF Differ
  <2> QED
    BY <2>1, <2>2, <2>4, <2>5
<1> HIDE DEF Good
<1>3. n \in Nat /\ n \in 0..n
  OBVIOUS
<1>4. 0..n \subseteq Good
  BY <1>1, <1>2, <1>3, InductionTo
<1> QED
  BY <1>3, <1>4 DEF Good

(* The bits of a limb. *)
LEMMA LimbsCompared ==
  ASSUME NEW x \in Bits, NEW y \in Bits, NEW k \in 0..3
  PROVE  /\ Limb(x, k) = Limb(y, k) <=> \A i \in 0..15 : x[16 * k + i] = y[16 * k + i]
         /\ Limb(x, k) < Limb(y, k) <=>
              \E i \in 0..15 : /\ x[16 * k + i] < y[16 * k + i]
                               /\ \A j \in (i + 1)..15 : x[16 * k + j] = y[16 * k + j]
<1> DEFINE u == ShiftRight(x, 16 * k)
           v == ShiftRight(y, 16 * k)
<1>1. u \in Bits /\ v \in Bits
  <2>1. 16 * k \in Nat
    OBVIOUS
  <2> QED
    BY <2>1, ShiftType
<1>2. \A i \in 0..15 : u[i] = x[16 * k + i] /\ v[i] = y[16 * k + i]
  BY DEF ShiftRight, Position
<1>3. Limb(x, k) = ToNat(u, 16) /\ Limb(y, k) = ToNat(v, 16)
  BY DEF Limb
<1> HIDE DEF u, v
<1>4. ToNat(u, 16) = ToNat(v, 16) <=> \A i \in 0..15 : u[i] = v[i]
  BY <1>1, SameBits
<1>5. ToNat(u, 16) < ToNat(v, 16) <=>
        \E i \in 0..15 : u[i] < v[i] /\ \A j \in (i + 1)..15 : u[j] = v[j]
  BY <1>1, SmallerBits
<1>6. \A i \in 0..15 : \A j \in (i + 1)..15 : j \in 0..15
  OBVIOUS
<1> QED
  BY <1>2, <1>3, <1>4, <1>5, <1>6

(* The order of numbers is the order of bits. *)
LEMMA SmallerIsLess ==
  ASSUME NEW x \in Bits, NEW y \in Bits
  PROVE  Smaller(x, y, FALSE) <=> Less(x, y)
<1>1. Smaller(x, y, FALSE) <=>
        \E k \in 0..3 :
          Limb(x, k) < Limb(y, k) /\ \A j \in (k + 1)..3 : Limb(x, j) = Limb(y, j)
  BY DEF Smaller
<1>2. ASSUME NEW k \in 0..3, Limb(x, k) < Limb(y, k),
             \A j \in (k + 1)..3 : Limb(x, j) = Limb(y, j)
      PROVE  Less(x, y)
  <2>1. PICK i \in 0..15 : /\ x[16 * k + i] < y[16 * k + i]
                           /\ \A j \in (i + 1)..15 : x[16 * k + j] = y[16 * k + j]
    BY <1>2, LimbsCompared
  <2>2. ASSUME NEW m \in ((16 * k + i) + 1)..63
        PROVE  x[m] = y[m]
    <3> DEFINE h == m \div 16
               j == m % 16
    <3>1. h \in k..3 /\ j \in 0..15 /\ m = 16 * h + j
      OBVIOUS
    <3> HIDE DEF h, j
    <3>2. CASE h = k
      <4>1. j \in (i + 1)..15
        BY <3>1, <3>2
      <4> QED
        BY <2>1, <3>1, <3>2, <4>1
    <3>3. CASE h # k
      <4>1. h \in (k + 1)..3 /\ h \in 0..3
        BY <3>1, <3>3
      <4>2. Limb(x, h) = Limb(y, h)
        BY <1>2, <4>1
      <4> QED
        BY <3>1, <4>1, <4>2, LimbsCompared
    <3> QED
      BY <3>2, <3>3
  <2>3. 16 * k + i \in Position
    BY DEF Position
  <2> QED
    BY <2>1, <2>2, <2>3 DEF Less
<1>3. ASSUME Less(x, y)
      PROVE  \E k \in 0..3 :
               Limb(x, k) < Limb(y, k) /\ \A j \in (k + 1)..3 : Limb(x, j) = Limb(y, j)
  <2>1. PICK m \in Position : x[m] < y[m] /\ \A j \in (m + 1)..63 : x[j] = y[j]
    BY <1>3 DEF Less
  <2> DEFINE k == m \div 16
             i == m % 16
  <2>2. k \in 0..3 /\ i \in 0..15 /\ m = 16 * k + i
    BY DEF Position
  <2> HIDE DEF k, i
  <2>3. Limb(x, k) < Limb(y, k)
    <3>1. \A j \in (i + 1)..15 : 16 * k + j \in (m + 1)..63
      BY <2>2
    <3>2. \A j \in (i + 1)..15 : x[16 * k + j] = y[16 * k + j]
      BY <2>1, <3>1
    <3> QED
      BY <2>1, <2>2, <3>2, LimbsCompared
  <2>4. ASSUME NEW h \in (k + 1)..3
        PROVE  Limb(x, h) = Limb(y, h)
    <3>1. h \in 0..3 /\ \A j \in 0..15 : 16 * h + j \in (m + 1)..63
      BY <2>2
    <3> QED
      BY <2>1, <3>1, LimbsCompared
  <2> QED
    BY <2>2, <2>3, <2>4
<1> QED
  BY <1>1, <1>2, <1>3

(* To take the highest limb as signed is to turn the sign bit round. *)
LEMMA SmallerIsLessSigned ==
  ASSUME NEW x \in Bits, NEW y \in Bits
  PROVE  Smaller(x, y, TRUE) <=> LessSigned(x, y)
<1> DEFINE flip(z) == [z EXCEPT ![63] = 1 - @]
           limb(z, k) == IF TRUE /\ k = 3 /\ z[63] = 1 THEN Limb(z, k) - LimbSpan ELSE Limb(z, k)
<1>1. ASSUME NEW z \in Bits
      PROVE  /\ flip(z) \in Bits
             /\ \A k \in 0..2 : Limb(flip(z), k) = limb(z, k)
             /\ Limb(flip(z), 3) = limb(z, 3) + 32768 /\ limb(z, 3) \in Int
  <2>1. flip(z) \in Bits /\ (\A i \in 0..62 : flip(z)[i] = z[i]) /\ flip(z)[63] = 1 - z[63]
        /\ (z[63] = 0 \/ z[63] = 1)
    <3>1. z[63] = 0 \/ z[63] = 1
      BY BitOf DEF Position
    <3> QED
      BY <3>1 DEF Bits, Bit, Position
  <2>2. ASSUME NEW k \in 0..2
        PROVE  Limb(flip(z), k) = limb(z, k)
    <3>1. k \in 0..3 /\ k # 3 /\ \A i \in 0..15 : 16 * k + i \in 0..62
      OBVIOUS
    <3> HIDE DEF flip
    <3>2. \A i \in 0..15 : flip(z)[16 * k + i] = z[16 * k + i]
      BY <2>1, <3>1
    <3>3. Limb(flip(z), k) = Limb(z, k)
      BY <2>1, <3>1, <3>2, LimbsCompared
    <3> QED
      BY <3>1, <3>3
  <2> DEFINE u == ShiftRight(z, 48)
             v == ShiftRight(flip(z), 48)
  <2>3. u \in Bits /\ v \in Bits
    <3> HIDE DEF flip
    <3> QED
      BY <2>1, ShiftType
  <2>4. (\A i \in 0..14 : u[i] = v[i]) /\ u[15] = z[63] /\ v[15] = 1 - z[63]
    <3> HIDE DEF flip
    <3>1. \A i \in 0..15 : u[i] = z[i + 48] /\ v[i] = flip(z)[i + 48]
      BY DEF ShiftRight, Position
    <3> QED
      BY <2>1, <3>1
  <2>5. Limb(z, 3) = ToNat(u, 16) /\ Limb(flip(z), 3) = ToNat(v, 16)
    <3>1. 16 * 3 = 48
      OBVIOUS
    <3> HIDE DEF flip
    <3> QED
      BY <3>1 DEF Limb
  <2> HIDE DEF u, v, flip
  <2>6. ToNat(u, 15) = ToNat(v, 15) /\ ToNat(u, 15) \in Int
    <3>1. \A i \in 0..(15 - 1) : u[i] = v[i]
      BY <2>4
    <3> QED
      BY <2>3, <3>1, SameBits, ToNatBound
  <2>7. Power(15) = 32768
    BY DEF Power
  <2>8. 15 \in 0..30 /\ 15 + 1 = 16
    OBVIOUS
  <2>9. /\ u[15] = 0 => ToNat(u, 16) = ToNat(u, 15)
        /\ u[15] = 1 => ToNat(u, 16) = ToNat(u, 15) + 32768
        /\ v[15] = 0 => ToNat(v, 16) = ToNat(v, 15)
        /\ v[15] = 1 => ToNat(v, 16) = ToNat(v, 15) + 32768
    BY <2>3, <2>6, <2>7, <2>8, NextBit
  <2> QED
    BY <2>1, <2>2, <2>4, <2>5, <2>6, <2>9 DEF LimbSpan
<1>2. Smaller(x, y, TRUE) <=>
        \E k \in 0..3 : limb(x, k) < limb(y, k) /\ \A j \in (k + 1)..3 : limb(x, j) = limb(y, j)
  BY Zenon DEF Smaller
<1>3. LessSigned(x, y) <=> Less(flip(x), flip(y))
  BY Zenon DEF LessSigned
<1>4. Less(flip(x), flip(y)) <=>
        \E k \in 0..3 : /\ Limb(flip(x), k) < Limb(flip(y), k)
                        /\ \A j \in (k + 1)..3 : Limb(flip(x), j) = Limb(flip(y), j)
  <2>1. flip(x) \in Bits /\ flip(y) \in Bits
    BY <1>1
  <2> HIDE DEF flip
  <2> QED
    BY <2>1, SmallerIsLess DEF Smaller
<1> HIDE DEF flip, limb
<1>5. \A k \in 0..3 : /\ Limb(flip(x), k) < Limb(flip(y), k) <=> limb(x, k) < limb(y, k)
                      /\ Limb(flip(x), k) = Limb(flip(y), k) <=> limb(x, k) = limb(y, k)
  BY <1>1
<1>6. \A k \in 0..3 : \A j \in (k + 1)..3 : j \in 0..3
  OBVIOUS
<1>7. ASSUME NEW k \in 0..3
      PROVE  /\ Limb(flip(x), k) < Limb(flip(y), k)
             /\ \A j \in (k + 1)..3 : Limb(flip(x), j) = Limb(flip(y), j)
             <=> limb(x, k) < limb(y, k) /\ \A j \in (k + 1)..3 : limb(x, j) = limb(y, j)
  BY <1>5, <1>6, Zenon
<1> QED
  BY <1>2, <1>3, <1>4, <1>7, Zenon

SameLow(x, y) == \A i \in 0..31 : x[i] = y[i]

(* The low bits of a sum are made by the low bits of its terms. *)
LEMMA LowSum ==
  ASSUME NEW x \in Bits, NEW y \in Bits, NEW u \in Bits, NEW v \in Bits, NEW c \in Bit,
         SameLow(x, u), SameLow(y, v)
  PROVE  SameLow(SumWithCarry(x, y, c), SumWithCarry(u, v, c))
<1> SUFFICES ASSUME NEW i \in 0..31
             PROVE  SumWithCarry(x, y, c)[i] = SumWithCarry(u, v, c)[i]
  BY DEF SameLow
<1>1. i \in Position /\ (\A j \in 0..(i - 1) : j \in 0..31)
      /\ (\A j \in 0..(i - 1) : \A k \in (j + 1)..(i - 1) : k \in 0..31)
  BY DEF Position
<1>2. Carry(x, y, c, i) <=> Carry(u, v, c, i)
  BY <1>1 DEF Carry, SameLow
<1> QED
  BY <1>1, <1>2 DEF SumWithCarry, SameLow

LEMMA LowDifference ==
  ASSUME NEW x \in Bits, NEW y \in Bits, NEW u \in Bits, NEW v \in Bits,
         SameLow(x, u), SameLow(y, v)
  PROVE  SameLow(Sub(x, y), Sub(u, v))
<1>1. NotBits(y) \in Bits /\ NotBits(v) \in Bits /\ 1 \in Bit
  BY NotType DEF Bit
<1>2. SameLow(NotBits(y), NotBits(v))
  BY DEF NotBits, Position, SameLow
<1> QED
  BY <1>1, <1>2, LowSum DEF Sub

LEMMA SignedWordType ==
  ASSUME NEW x \in Bits
  PROVE  /\ Low32(x) \in Bits /\ SignedWord(x) \in Bits
         /\ SameLow(Low32(x), x) /\ SameLow(SignedWord(x), x)
<1>1. \A i \in Position : x[i] \in {0, 1}
  BY BitOf
<1>2. Low32(x) \in Bits
  BY <1>1 DEF Low32, Bits, Bit
<1>3. \A i \in 0..31 : i \in Position /\ i < 32 /\ ~(i > 31)
  BY DEF Position
<1>4. \A i \in 0..31 : Low32(x)[i] = x[i]
  BY <1>3 DEF Low32
<1>5. \A i \in Position : SignedWord(x)[i] =
        IF i > 31 /\ Low32(x)[31] = 1 THEN 1 ELSE Low32(x)[i]
  BY DEF SignedWord, Sext64
<1>6. SignedWord(x) \in Bits
  BY <1>2, Zenon DEF SignedWord, Sext64, Bits, Bit
<1> QED
  BY <1>2, <1>3, <1>4, <1>5, <1>6 DEF SameLow

LEMMA SignedWordOf ==
  ASSUME NEW x \in Bits, NEW y \in Bits, SameLow(x, y)
  PROVE  SignedWord(x) = SignedWord(y)
<1>1. \A i \in Position : i < 32 => i \in 0..31
  BY DEF Position
<1>2. Low32(x) = Low32(y)
  BY <1>1 DEF Low32, SameLow
<1> QED
  BY <1>2, Zenon DEF SignedWord

(* A word that stands for an operation, and the operand z it is given for   *)
(* the operand y, of which a shift uses the lowest bits only.               *)
Selects(w, body, y, z, last) ==
  /\ Funct3(w) = ArithmeticFunct3[body]
  /\ body \in {"add", "sub"} => (Subtracts(w) <=> body = "sub")
  /\ body \in {"srl", "sra"} => (ArithmeticShift(w) <=> body = "sra")
  /\ body \in ShiftBodies => \A i \in 0..last : z[i] = y[i]
  /\ body \notin ShiftBodies => z = y

WideSelects(w, body, y, z) == Selects(w, body, y, z, 5)

NarrowSelects(w, body, y, z) == Selects(w, body, y, z, 4)

WideOperate(body, x, y) == Operate(body, x, y, 6)

NarrowOperate(body, x, y) ==
  SignedWord(Operate(body, IF body = "srl" THEN Low32(x) ELSE SignedWord(x), y, 5))

(* The wide operations, one by one. *)
LEMMA WideOperates ==
  ASSUME NEW w, NEW x \in Bits, NEW y \in Bits, NEW z \in Bits,
         NEW body \in RegisterBodies,
         WideSelects(w, body, y, z)
  PROVE  WideResult(w, x, z) = WideOperate(body, x, y)
<1> SUFFICES ASSUME
         Funct3(w) = ArithmeticFunct3[body],
         body \in {"add", "sub"} => (Subtracts(w) <=> body = "sub"),
         body \in {"srl", "sra"} => (ArithmeticShift(w) <=> body = "sra"),
         body \in ShiftBodies => \A i \in 0..5 : z[i] = y[i],
         body \notin ShiftBodies => z = y
      PROVE  WideResult(w, x, z) = Operate(body, x, y, 6)
  BY DEF Selects, WideSelects, WideOperate
<1>1. /\ Sum(x, y) = Add(x, y) /\ Difference(x, y) = Sub(x, y)
      /\ Smaller(x, y, TRUE) <=> LessSigned(x, y)
      /\ Smaller(x, y, FALSE) <=> Less(x, y)
  BY SumIsAdd, DifferenceIsSub, SmallerIsLess, SmallerIsLessSigned
<1>2. ASSUME body \in ShiftBodies
      PROVE  ToNat(z, 6) = ToNat(y, 6)
  <2>1. \A i \in 0..(6 - 1) : z[i] = y[i]
    BY <1>2
  <2> QED
    BY <2>1, SameBits
<1>3. Truth(Smaller(x, y, TRUE)) = Truth(LessSigned(x, y))
      /\ Truth(Smaller(x, y, FALSE)) = Truth(Less(x, y))
  BY <1>1, Zenon DEF Truth
<1>4. CASE body = "add"
  BY <1>1, <1>4 DEF WideResult, Operate, ArithmeticFunct3, ShiftBodies
<1>5. CASE body = "sub"
  BY <1>1, <1>5 DEF WideResult, Operate, ArithmeticFunct3, ShiftBodies
<1>6. CASE body = "sll"
  <2>1. ToNat(z, 6) = ToNat(y, 6)
    BY <1>2, <1>6 DEF ShiftBodies
  <2>2. WideResult(w, x, z) = ShiftLeft(x, ToNat(z, 6))
    BY <1>6 DEF WideResult, ArithmeticFunct3
  <2>3. Operate(body, x, y, 6) = ShiftLeft(x, ToNat(y, 6))
    BY <1>6 DEF Operate
  <2> QED
    BY <2>1, <2>2, <2>3
<1>7. CASE body = "slt"
  <2>1. Funct3(w) = 2 /\ z = y
    BY <1>7 DEF ArithmeticFunct3, ShiftBodies
  <2>2. WideResult(w, x, z) = Truth(LessSigned(x, z))
    BY <2>1 DEF WideResult
  <2>3. Operate(body, x, y, 6) = Truth(Smaller(x, y, TRUE))
    BY <1>7 DEF Operate
  <2> QED
    BY <1>3, <2>1, <2>2, <2>3, Zenon
<1>8. CASE body = "sltu"
  <2>1. Funct3(w) = 3 /\ z = y
    BY <1>8 DEF ArithmeticFunct3, ShiftBodies
  <2>2. WideResult(w, x, z) = Truth(Less(x, z))
    BY <2>1 DEF WideResult
  <2>3. Operate(body, x, y, 6) = Truth(Smaller(x, y, FALSE))
    BY <1>8 DEF Operate
  <2> QED
    BY <1>3, <2>1, <2>2, <2>3, Zenon
<1>9. CASE body = "xor"
  BY <1>9 DEF WideResult, Operate, ArithmeticFunct3, ShiftBodies
<1>10. CASE body = "srl"
  <2>1. ToNat(z, 6) = ToNat(y, 6)
    BY <1>2, <1>10 DEF ShiftBodies
  <2>2. WideResult(w, x, z) = ShiftRight(x, ToNat(z, 6))
    BY <1>10 DEF WideResult, ArithmeticFunct3
  <2>3. Operate(body, x, y, 6) = ShiftRight(x, ToNat(y, 6))
    BY <1>10 DEF Operate
  <2> QED
    BY <2>1, <2>2, <2>3
<1>11. CASE body = "sra"
  <2>1. ToNat(z, 6) = ToNat(y, 6)
    BY <1>2, <1>11 DEF ShiftBodies
  <2>2. WideResult(w, x, z) = ShiftRightArith(x, ToNat(z, 6))
    BY <1>11 DEF WideResult, ArithmeticFunct3
  <2>3. Operate(body, x, y, 6) = ShiftRightArith(x, ToNat(y, 6))
    BY <1>11 DEF Operate
  <2> QED
    BY <2>1, <2>2, <2>3
<1>12. CASE body = "or"
  BY <1>12 DEF WideResult, Operate, ArithmeticFunct3, ShiftBodies
<1>13. CASE body = "and"
  BY <1>13 DEF WideResult, Operate, ArithmeticFunct3, ShiftBodies
<1> QED
  BY <1>4, <1>5, <1>6, <1>7, <1>8, <1>9, <1>10, <1>11, <1>12, <1>13
     DEF RegisterBodies, ShiftBodies

NarrowBodies == {"add", "sub", "sll", "srl", "sra"}

(* The narrow ones need the low words of their operands only. *)
LEMMA NarrowOperates ==
  ASSUME NEW w, NEW x \in Bits, NEW y \in Bits, NEW z \in Bits,
         NEW body \in NarrowBodies,
         NarrowSelects(w, body, y, z)
  PROVE  NarrowResult(w, x, z) = NarrowOperate(body, x, y)
<1> SUFFICES ASSUME
         Funct3(w) = ArithmeticFunct3[body],
         body \in {"add", "sub"} => (Subtracts(w) <=> body = "sub"),
         body \in {"srl", "sra"} => (ArithmeticShift(w) <=> body = "sra"),
         body \in ShiftBodies => \A i \in 0..4 : z[i] = y[i],
         body \notin ShiftBodies => z = y
      PROVE  NarrowResult(w, x, z) =
               SignedWord(Operate(body, IF body = "srl" THEN Low32(x) ELSE SignedWord(x), y, 5))
  BY DEF Selects, NarrowSelects, NarrowOperate
<1> DEFINE n == ToNat(y, 5)
           s == SignedWord(x)
           l == Low32(x)
<1>1. /\ s \in Bits /\ l \in Bits /\ Low32(y) \in Bits
      /\ SameLow(s, x) /\ SameLow(l, x) /\ SameLow(l, s) /\ SameLow(Low32(y), y)
  BY SignedWordType DEF SameLow
<1>2. ASSUME body \in ShiftBodies
      PROVE  ToNat(z, 5) = n
  <2>1. \A i \in 0..(5 - 1) : z[i] = y[i]
    BY <1>2
  <2> QED
    BY <2>1, SameBits
<1>3. n \in Nat
  BY ToNatBound
<1> HIDE DEF n, s, l
<1>4. CASE body = "add"
  <2> DEFINE a == Add(l, Low32(y))
             b == Add(s, y)
  <2>1. a \in Bits /\ b \in Bits
    BY <1>1, AddType
  <2>2. SameLow(a, b)
    BY <1>1, LowSum DEF Bit, Add
  <2>3. Sum(s, y) = b
    BY <1>1, SumIsAdd
  <2> HIDE DEF a, b
  <2>4. SignedWord(a) = SignedWord(b)
    BY <2>1, <2>2, SignedWordOf
  <2>5. NarrowResult(w, x, z) = SignedWord(a)
    BY <1>4 DEF NarrowResult, ArithmeticFunct3, ShiftBodies, SignedWord, a, l
  <2>6. Operate(body, s, y, 5) = b
    BY <1>4, <2>3 DEF Operate
  <2> QED
    BY <1>4, <2>4, <2>5, <2>6 DEF s
<1>5. CASE body = "sub"
  <2> DEFINE a == Sub(l, Low32(y))
             b == Sub(s, y)
  <2>1. a \in Bits /\ b \in Bits
    BY <1>1, AddType
  <2>2. SameLow(a, b)
    BY <1>1, LowDifference
  <2>3. Difference(s, y) = b
    BY <1>1, DifferenceIsSub
  <2> HIDE DEF a, b
  <2>4. SignedWord(a) = SignedWord(b)
    BY <2>1, <2>2, SignedWordOf
  <2>5. NarrowResult(w, x, z) = SignedWord(a)
    BY <1>5 DEF NarrowResult, ArithmeticFunct3, ShiftBodies, SignedWord, a, l
  <2>6. Operate(body, s, y, 5) = b
    BY <1>5, <2>3 DEF Operate
  <2> QED
    BY <1>5, <2>4, <2>5, <2>6 DEF s
<1>6. CASE body = "sll"
  <2> DEFINE a == ShiftLeft(l, n)
             b == ShiftLeft(s, n)
  <2>1. a \in Bits /\ b \in Bits
    BY <1>1, <1>3, ShiftType
  <2>2. SameLow(a, b)
    <3>1. \A i \in 0..31 : i \in Position /\ (i >= n => i - n \in 0..31)
      BY <1>3 DEF Position
    <3> QED
      BY <1>1, <3>1 DEF ShiftLeft, SameLow
  <2> HIDE DEF a, b
  <2>4. SignedWord(a) = SignedWord(b)
    BY <2>1, <2>2, SignedWordOf
  <2>5. NarrowResult(w, x, z) = SignedWord(a)
    BY <1>2, <1>6 DEF NarrowResult, ArithmeticFunct3, ShiftBodies, SignedWord, a, l
  <2>6. Operate(body, s, y, 5) = b
    BY <1>6 DEF Operate, b, n
  <2> QED
    BY <1>6, <2>4, <2>5, <2>6 DEF s
<1>7. CASE body = "srl"
  <2>1. NarrowResult(w, x, z) = SignedWord(ShiftRight(l, n))
    BY <1>2, <1>7 DEF NarrowResult, ArithmeticFunct3, ShiftBodies, SignedWord, l
  <2>2. Operate(body, l, y, 5) = ShiftRight(l, n)
    BY <1>7 DEF Operate, n
  <2> QED
    BY <1>7, <2>1, <2>2 DEF l
<1>8. CASE body = "sra"
  <2>1. NarrowResult(w, x, z) = SignedWord(ShiftRightArith(s, n))
    BY <1>2, <1>8 DEF NarrowResult, ArithmeticFunct3, ShiftBodies, SignedWord, s
  <2>2. Operate(body, s, y, 5) = ShiftRightArith(s, n)
    BY <1>8 DEF Operate, n
  <2> QED
    BY <1>8, <2>1, <2>2 DEF s
<1> QED
  BY <1>4, <1>5, <1>6, <1>7, <1>8 DEF NarrowBodies

-----------------------------------------------------------------------------
(* Types.                                                                  *)

LEMMA ExtractType ==
  ASSUME NEW x \in Bits, NEW start \in Position, NEW end \in Position
  PROVE  ExtractBits(x, start, end) \in Bits
<1>1. \A i \in Position : x[i] \in {0, 1}
  BY BitOf
<1>2. \A i \in Position : i <= start - end => end + i \in Position
  BY DEF Position
<1> QED
  BY <1>1, <1>2 DEF ExtractBits, Bits, Bit

LEMMA SextType ==
  ASSUME NEW x \in Bits, NEW signBit \in Position
  PROVE  Sext64(x, signBit) \in Bits
BY Zenon DEF Sext64, Bits, Bit

LEMMA TruthType ==
  ASSUME NEW condition
  PROVE  Truth(condition) \in Bits
<1>1. FromNat(0) \in Bits /\ FromNat(1) \in Bits
  BY FromNatType
<1> QED
  BY <1>1 DEF Truth

LEMMA ImmediateTypes ==
  ASSUME NEW w \in Bits
  PROVE  ImmI(w) \in Bits /\ ImmS(w) \in Bits /\ ImmB(w) \in Bits /\ ImmU(w) \in Bits
         /\ ImmJ(w) \in Bits
<1>0. /\ 0 \in Position /\ 1 \in Position /\ 4 \in Position /\ 5 \in Position
      /\ 6 \in Position /\ 7 \in Position /\ 8 \in Position /\ 9 \in Position
      /\ 11 \in Position /\ 12 \in Position /\ 18 \in Position /\ 19 \in Position
      /\ 20 \in Position /\ 25 \in Position /\ 31 \in Position
  BY DEF Position
<1>1. ImmI(w) \in Bits
  <2>1. ExtractBits(w, 31, 20) \in Bits
    BY <1>0, ExtractType
  <2> QED
    BY <1>0, <2>1, SextType DEF ImmI
<1>2. ImmS(w) \in Bits
  <2>1. ExtractBits(w, 31, 25) \in Bits /\ ExtractBits(w, 11, 7) \in Bits
    BY <1>0, ExtractType
  <2>2. ShiftLeft(ExtractBits(w, 31, 25), 5) \in Bits
    BY <2>1, ShiftType
  <2>3. OrBits(ShiftLeft(ExtractBits(w, 31, 25), 5), ExtractBits(w, 11, 7)) \in Bits
    BY <2>1, <2>2, LogicType
  <2> QED
    BY <1>0, <2>3, SextType DEF ImmS
<1>3. ImmB(w) \in Bits
  <2> DEFINE imm7 == ExtractBits(w, 31, 25)
             imm5 == ExtractBits(w, 11, 7)
             a == ShiftLeft(ExtractBits(imm7, 6, 6), 12)
             b == ShiftLeft(ExtractBits(imm7, 5, 0), 5)
             c == ShiftLeft(ExtractBits(imm5, 4, 1), 1)
             d == ShiftLeft(ExtractBits(imm5, 0, 0), 11)
  <2>1. imm7 \in Bits /\ imm5 \in Bits
    BY <1>0, ExtractType
  <2> HIDE DEF imm7, imm5
  <2>2. /\ ExtractBits(imm7, 6, 6) \in Bits /\ ExtractBits(imm7, 5, 0) \in Bits
        /\ ExtractBits(imm5, 4, 1) \in Bits /\ ExtractBits(imm5, 0, 0) \in Bits
    BY <1>0, <2>1, ExtractType
  <2>3. a \in Bits /\ b \in Bits /\ c \in Bits /\ d \in Bits
    BY <2>2, ShiftType
  <2> HIDE DEF a, b, c, d
  <2>4. OrBits(a, b) \in Bits /\ OrBits(c, d) \in Bits
    BY <2>3, LogicType
  <2>5. OrBits(OrBits(a, b), OrBits(c, d)) \in Bits
    BY <2>4, LogicType
  <2>6. Sext64(OrBits(OrBits(a, b), OrBits(c, d)), 12) \in Bits
    BY <1>0, <2>5, SextType
  <2> QED
    BY <2>6, Zenon DEF ImmB, imm7, imm5, a, b, c, d
<1>4. ImmU(w) \in Bits
  <2>1. ExtractBits(w, 31, 12) \in Bits
    BY <1>0, ExtractType
  <2>2. UpperBits(w) \in Bits
    BY <2>1, ShiftType DEF UpperBits
  <2> QED
    BY <1>0, <2>2, SextType DEF ImmU
<1>5. ImmJ(w) \in Bits
  <2> DEFINE imm20 == ExtractBits(w, 31, 12)
             a == ShiftLeft(ExtractBits(imm20, 19, 19), 20)
             b == ShiftLeft(ExtractBits(imm20, 7, 0), 12)
             c == ShiftLeft(ExtractBits(imm20, 18, 9), 1)
             d == ShiftLeft(ExtractBits(imm20, 8, 8), 11)
  <2>1. imm20 \in Bits
    BY <1>0, ExtractType
  <2> HIDE DEF imm20
  <2>2. /\ ExtractBits(imm20, 19, 19) \in Bits /\ ExtractBits(imm20, 7, 0) \in Bits
        /\ ExtractBits(imm20, 18, 9) \in Bits /\ ExtractBits(imm20, 8, 8) \in Bits
    BY <1>0, <2>1, ExtractType
  <2>3. a \in Bits /\ b \in Bits /\ c \in Bits /\ d \in Bits
    BY <2>2, ShiftType
  <2> HIDE DEF a, b, c, d
  <2>4. OrBits(a, b) \in Bits /\ OrBits(c, d) \in Bits
    BY <2>3, LogicType
  <2>5. OrBits(OrBits(a, b), OrBits(c, d)) \in Bits
    BY <2>4, LogicType
  <2>6. Sext64(OrBits(OrBits(a, b), OrBits(c, d)), 20) \in Bits
    BY <1>0, <2>5, SextType
  <2> QED
    BY <2>6, Zenon DEF ImmJ, imm20, a, b, c, d
<1> QED
  BY <1>1, <1>2, <1>3, <1>4, <1>5

LEMMA WideType ==
  ASSUME NEW w, NEW x \in Bits, NEW y \in Bits
  PROVE  WideResult(w, x, y) \in Bits
<1> DEFINE n == ToNat(y, 6)
<1>1. n \in Nat
  BY ToNatBound
<1> HIDE DEF n
<1>2. /\ Sub(x, y) \in Bits /\ Add(x, y) \in Bits
      /\ XorBits(x, y) \in Bits /\ OrBits(x, y) \in Bits /\ AndBits(x, y) \in Bits
      /\ ShiftLeft(x, n) \in Bits /\ ShiftRight(x, n) \in Bits
      /\ ShiftRightArith(x, n) \in Bits
  BY <1>1, AddType, LogicType, ShiftType
<1>3. Truth(LessSigned(x, y)) \in Bits /\ Truth(Less(x, y)) \in Bits
  BY TruthType
<1> QED
  BY <1>2, <1>3, Zenon DEF WideResult, n

LEMMA NarrowType ==
  ASSUME NEW w, NEW x \in Bits, NEW y \in Bits
  PROVE  NarrowResult(w, x, y) \in Bits
<1> DEFINE n == ToNat(y, 5)
           l == Low32(x)
           m == Low32(y)
           s == Sext64(Low32(x), 31)
           of32 ==
             IF Funct3(w) = 0 THEN (IF Subtracts(w) THEN Sub(l, m) ELSE Add(l, m))
             ELSE IF Funct3(w) = 1 THEN ShiftLeft(l, n)
             ELSE IF ArithmeticShift(w) THEN ShiftRightArith(s, n)
             ELSE ShiftRight(l, n)
<1>1. n \in Nat /\ l \in Bits /\ m \in Bits /\ s \in Bits
  BY ToNatBound, SignedWordType, SextType DEF Position
<1>2. NarrowResult(w, x, y) = Sext64(Low32(of32), 31)
  BY Zenon DEF NarrowResult
<1> HIDE DEF n, l, m, s
<1>3. /\ Sub(l, m) \in Bits /\ Add(l, m) \in Bits /\ ShiftLeft(l, n) \in Bits
      /\ ShiftRight(l, n) \in Bits /\ ShiftRightArith(s, n) \in Bits
  BY <1>1, AddType, ShiftType
<1>4. of32 \in Bits
  BY <1>3, Zenon
<1> HIDE DEF of32
<1>5. SignedWord(of32) \in Bits
  BY <1>4, SignedWordType
<1> QED
  BY <1>2, <1>5 DEF SignedWord

(* Instructions whose fields are words, whatever they hold. *)
FlagNames ==
  {"isHalt", "isNop", "isLegal", "readsMem", "writesMem", "doesArithLogic", "writesRd",
   "readsRs1", "readsRs2"}

Insts ==
  [word : Bits, PC : Bits, flags : [FlagNames -> BOOLEAN], op1Val : Bits, op2Val : Bits,
   nextPC : Bits, arithResult : Bits, memAddress : Bits]

LEMMA FlagsType ==
  DOMAIN NoFlags = FlagNames /\ NoFlags \in [FlagNames -> BOOLEAN]
  /\ \A w : SimDecode(w) \in [FlagNames -> BOOLEAN]
<1>1. \A w : /\ IsHaltWord(w) \in BOOLEAN /\ IsNopWord(w) \in BOOLEAN
             /\ LegalWord(w) \in BOOLEAN
             /\ \A ops : HasOpcode(w, ops) \in BOOLEAN
  BY DEF IsHaltWord, IsNopWord, LegalWord, HasOpcode
<1>2. \A w : SimDecode(w) \in [FlagNames -> BOOLEAN]
  BY <1>1 DEF SimDecode, FlagNames
<1>3. DOMAIN SimDecode(NopWord) = FlagNames
  BY DEF SimDecode, FlagNames
<1> QED
  BY <1>2, <1>3 DEF NoFlags

LEMMA FetchedType ==
  ASSUME NEW w \in Bits, NEW pc \in Bits
  PROVE  Fetched(w, pc) \in Insts /\ Fetched(w, pc).word = w /\ Fetched(w, pc).PC = pc
<1>1. FromNat(0) \in Bits /\ FromNat(4) \in Bits
  BY FromNatType
<1>2. Add(pc, FromNat(4)) \in Bits
  BY <1>1, AddType
<1> QED
  BY <1>1, <1>2, FlagsType DEF Fetched, Insts

(* What simOperandCollection, simNextPCResolution, simArithLogic and       *)
(* simAddrGen compute, and what they leave alone.                          *)
NextPCOf(i) ==
  IF Opcode(i.word) = OP_JALR THEN [Add(i.op1Val, ImmI(i.word)) EXCEPT ![0] = 0]
  ELSE IF Opcode(i.word) = OP_BRANCH /\ BranchTaken(i) THEN Add(i.PC, ImmB(i.word))
  ELSE IF Opcode(i.word) = OP_JAL THEN Add(i.PC, ImmJ(i.word))
  ELSE Add(i.PC, FromNat(4))

ArithOf(i, y) ==
  IF Opcode(i.word) = OP_INT THEN WideResult(i.word, i.op1Val, y)
  ELSE IF Opcode(i.word) = OP_INTIMM THEN WideResult(i.word, i.op1Val, ImmI(i.word))
  ELSE IF Opcode(i.word) = OP_INTW THEN NarrowResult(i.word, i.op1Val, y)
  ELSE IF Opcode(i.word) = OP_INTIMMW THEN NarrowResult(i.word, i.op1Val, ImmI(i.word))
  ELSE IF Opcode(i.word) = OP_LUI THEN ImmU(i.word)
  ELSE IF Opcode(i.word) = OP_AUIPC THEN Add(i.PC, ImmU(i.word))
  ELSE Add(i.PC, FromNat(4))

AddressOf(i) ==
  IF i.flags.readsMem THEN Add(i.op1Val, ImmI(i.word))
  ELSE IF i.flags.writesMem THEN Add(i.op1Val, ImmS(i.word))
  ELSE i.memAddress

OperandOf(reads, regs, r) == IF reads THEN ReadRegister(regs, r) ELSE FromNat(0)

LEMMA NextPCType ==
  ASSUME NEW i \in Insts
  PROVE  NextPCOf(i) \in Bits
<1>1. i.word \in Bits /\ i.PC \in Bits /\ i.op1Val \in Bits /\ FromNat(4) \in Bits
  BY FromNatType DEF Insts
<1>2. ImmI(i.word) \in Bits /\ ImmB(i.word) \in Bits /\ ImmJ(i.word) \in Bits
  BY <1>1, ImmediateTypes
<1>3. /\ Add(i.op1Val, ImmI(i.word)) \in Bits /\ Add(i.PC, ImmB(i.word)) \in Bits
      /\ Add(i.PC, ImmJ(i.word)) \in Bits /\ Add(i.PC, FromNat(4)) \in Bits
  BY <1>1, <1>2, AddType
<1>4. \A x \in Bits : [x EXCEPT ![0] = 0] \in Bits
  BY DEF Bits, Bit
<1> QED
  BY <1>3, <1>4, Zenon DEF NextPCOf

LEMMA ArithType ==
  ASSUME NEW i \in Insts, NEW y \in Bits
  PROVE  ArithOf(i, y) \in Bits
<1>1. i.word \in Bits /\ i.PC \in Bits /\ i.op1Val \in Bits /\ FromNat(4) \in Bits
  BY FromNatType DEF Insts
<1>2. ImmI(i.word) \in Bits /\ ImmU(i.word) \in Bits
  BY <1>1, ImmediateTypes
<1>3. /\ Add(i.PC, ImmU(i.word)) \in Bits /\ Add(i.PC, FromNat(4)) \in Bits
      /\ WideResult(i.word, i.op1Val, y) \in Bits
      /\ WideResult(i.word, i.op1Val, ImmI(i.word)) \in Bits
      /\ NarrowResult(i.word, i.op1Val, y) \in Bits
      /\ NarrowResult(i.word, i.op1Val, ImmI(i.word)) \in Bits
  BY <1>1, <1>2, AddType, WideType, NarrowType
<1> QED
  BY <1>2, <1>3, Zenon DEF ArithOf

LEMMA MaskedOp2Type ==
  ASSUME NEW i \in Insts
  PROVE  MaskedOp2Val(i) \in Bits
<1>1. i.op2Val \in Bits
  BY DEF Insts
<1>2. Masked(i.op2Val, 6) \in Bits /\ Masked(i.op2Val, 5) \in Bits
  BY <1>1, ShiftType
<1> QED
  BY <1>1, <1>2, Zenon DEF MaskedOp2Val

LEMMA AddressType ==
  ASSUME NEW i \in Insts
  PROVE  AddressOf(i) \in Bits
<1>1. i.word \in Bits /\ i.op1Val \in Bits /\ i.memAddress \in Bits
  BY DEF Insts
<1>2. ImmI(i.word) \in Bits /\ ImmS(i.word) \in Bits
  BY <1>1, ImmediateTypes
<1>3. Add(i.op1Val, ImmI(i.word)) \in Bits /\ Add(i.op1Val, ImmS(i.word)) \in Bits
  BY <1>1, <1>2, AddType
<1> QED
  BY <1>1, <1>3, Zenon DEF AddressOf

(* The registers a word names exist. *)
LEMMA RegisterFields ==
  ASSUME NEW w \in Bits
  PROVE  Rd(w) \in Register /\ Rs1(w) \in Register /\ Rs2(w) \in Register
<1>1. /\ 7 \in Position /\ 11 \in Position /\ 15 \in Position /\ 19 \in Position
      /\ 20 \in Position /\ 24 \in Position /\ Power(5) = 32
  BY DEF Position, Power
<1>2. /\ ExtractBits(w, 11, 7) \in Bits /\ ExtractBits(w, 19, 15) \in Bits
      /\ ExtractBits(w, 24, 20) \in Bits
  BY <1>1, ExtractType
<1>3. \A x \in Bits : ToNat(x, 5) \in 0..31
  <2>1. 5 \in 0..16
    OBVIOUS
  <2> QED
    BY <1>1, <2>1, ToNatBound
<1>4. 11 - 7 + 1 = 5 /\ 19 - 15 + 1 = 5 /\ 24 - 20 + 1 = 5
  OBVIOUS
<1> QED
  BY <1>2, <1>3, <1>4 DEF Rd, Rs1, Rs2, Field, Register

LEMMA OperandType ==
  ASSUME NEW regs \in [Register -> Bits], NEW r \in Register, NEW reads
  PROVE  OperandOf(reads, regs, r) \in Bits
<1>1. FromNat(0) \in Bits
  BY FromNatType
<1> QED
  BY <1>1 DEF OperandOf, ReadRegister

LEMMA SimIDFields ==
  ASSUME NEW i \in Insts, NEW regs \in [Register -> Bits]
  PROVE  LET j == SimID(i, regs)
             f == SimDecode(i.word)
         IN /\ j \in Insts
            /\ j.word = i.word /\ j.PC = i.PC /\ j.flags = f
            /\ j.arithResult = i.arithResult /\ j.memAddress = i.memAddress
            /\ ~f.isLegal =>
                 j.nextPC = EXCEPTION_HANDLER /\ j.op1Val = i.op1Val /\ j.op2Val = i.op2Val
            /\ f.isLegal =>
                 /\ j.op1Val = IF f.readsRs1 THEN ReadRegister(regs, Rs1(i.word)) ELSE i.op1Val
                 /\ j.op2Val = IF f.readsRs2 THEN ReadRegister(regs, Rs2(i.word)) ELSE i.op2Val
                 /\ j.nextPC = NextPCOf(j)
<1> DEFINE f == SimDecode(i.word)
           d == [i EXCEPT !.flags = f]
           x == IF f.readsRs1 THEN ReadRegister(regs, Rs1(i.word)) ELSE i.op1Val
           y == IF f.readsRs2 THEN ReadRegister(regs, Rs2(i.word)) ELSE i.op2Val
           o == [d EXCEPT !.op1Val = x, !.op2Val = y]
           n == NextPCOf(o)
           j == SimID(i, regs)
<1>1. f \in [FlagNames -> BOOLEAN]
  BY FlagsType
<1>2. EXCEPTION_HANDLER \in Bits
  BY FromNatType DEF EXCEPTION_HANDLER
<1>3. x \in Bits /\ y \in Bits
  <2>1. i.word \in Bits /\ i.op1Val \in Bits /\ i.op2Val \in Bits /\ FromNat(0) \in Bits
    BY FromNatType DEF Insts
  <2>2. Rs1(i.word) \in Register /\ Rs2(i.word) \in Register
    BY <2>1, RegisterFields
  <2>3. ReadRegister(regs, Rs1(i.word)) \in Bits /\ ReadRegister(regs, Rs2(i.word)) \in Bits
    BY <2>1, <2>2 DEF ReadRegister
  <2> QED
    BY <2>1, <2>3, Zenon
<1>4. d \in Insts /\ d.flags = f /\ d.word = i.word /\ d.PC = i.PC
      /\ d.op1Val = i.op1Val /\ d.op2Val = i.op2Val
      /\ d.arithResult = i.arithResult /\ d.memAddress = i.memAddress
  <2> HIDE DEF f
  <2> QED
    BY <1>1 DEF Insts
<1>5. CASE ~f.isLegal
  <2>1. j = [d EXCEPT !.nextPC = EXCEPTION_HANDLER]
    BY <1>4, <1>5, Zenon DEF SimID
  <2> HIDE DEF d, f, j
  <2>2. /\ j \in Insts /\ j.word = i.word /\ j.PC = i.PC /\ j.flags = f
        /\ j.arithResult = i.arithResult /\ j.memAddress = i.memAddress
        /\ j.nextPC = EXCEPTION_HANDLER /\ j.op1Val = i.op1Val /\ j.op2Val = i.op2Val
    BY <1>2, <1>4, <2>1 DEF Insts
  <2> QED
    BY <1>5, <2>2 DEF f, j
<1>6. CASE f.isLegal
  <2>1. o = SimOperandCollection(d, regs)
    <3> HIDE DEF d, f
    <3> QED
      BY <1>4 DEF SimOperandCollection, Insts
  <2>2. j = SimNextPCResolution(o)
    BY <1>4, <1>6, <2>1, Zenon DEF SimID
  <2>3. SimNextPCResolution(o) = [o EXCEPT !.nextPC = n]
    BY Zenon DEF SimNextPCResolution, JalrTarget, NextPCOf
  <2>4. /\ o \in Insts /\ o.word = i.word /\ o.PC = i.PC /\ o.flags = f
        /\ o.arithResult = i.arithResult /\ o.memAddress = i.memAddress
        /\ o.op1Val = x /\ o.op2Val = y
    <3> HIDE DEF d, f, x, y
    <3> QED
      BY <1>3, <1>4 DEF Insts
  <2>5. n \in Bits
    <3> HIDE DEF o
    <3> QED
      BY <2>4, NextPCType
  <2>6. j = [o EXCEPT !.nextPC = n]
    BY <2>2, <2>3
  <2> HIDE DEF j, n, o, x, y, f, d
  <2>7. /\ j \in Insts /\ j.word = i.word /\ j.PC = i.PC /\ j.flags = f
        /\ j.arithResult = i.arithResult /\ j.memAddress = i.memAddress
        /\ j.op1Val = x /\ j.op2Val = y /\ j.nextPC = n
        /\ j.word = o.word /\ j.PC = o.PC /\ j.op1Val = o.op1Val /\ j.op2Val = o.op2Val
    BY <2>4, <2>5, <2>6 DEF Insts
  <2>8. NextPCOf(j) = n
    BY <2>7 DEF NextPCOf, BranchTaken, n
  <2> QED
    BY <1>6, <2>7, <2>8, Zenon DEF f, j, x, y
<1> QED
  BY <1>5, <1>6

LEMMA SimEXFields ==
  ASSUME NEW i \in Insts
  PROVE  LET j == SimEX(i)
             computes == i.flags.isLegal /\ i.flags.doesArithLogic
         IN /\ j \in Insts
            /\ j.word = i.word /\ j.PC = i.PC /\ j.flags = i.flags
            /\ j.op1Val = i.op1Val /\ j.nextPC = i.nextPC /\ j.memAddress = i.memAddress
            /\ j.op2Val = IF computes THEN MaskedOp2Val(i) ELSE i.op2Val
            /\ j.arithResult = IF computes THEN ArithOf(i, MaskedOp2Val(i)) ELSE i.arithResult
<1> DEFINE computes == i.flags.isLegal /\ i.flags.doesArithLogic
           j == SimEX(i)
           y == MaskedOp2Val(i)
           a == ArithOf(i, y)
<1>1. y \in Bits
  BY MaskedOp2Type
<1>2. a \in Bits
  <2> HIDE DEF y
  <2> QED
    BY <1>1, ArithType
<1>3. j = IF computes THEN [i EXCEPT !.op2Val = y, !.arithResult = a] ELSE i
  BY Zenon DEF SimEX, SimArithLogic, ArithOf
<1> HIDE DEF j, y, a
<1>4. /\ j \in Insts
      /\ j.word = i.word /\ j.PC = i.PC /\ j.flags = i.flags
      /\ j.op1Val = i.op1Val /\ j.nextPC = i.nextPC /\ j.memAddress = i.memAddress
      /\ j.op2Val = IF computes THEN y ELSE i.op2Val
      /\ j.arithResult = IF computes THEN a ELSE i.arithResult
  BY <1>1, <1>2, <1>3 DEF Insts
<1> QED
  BY <1>4, Zenon DEF j, y, a

LEMMA SimMEMFields ==
  ASSUME NEW i \in Insts
  PROVE  LET j == SimMEM(i)
         IN /\ j \in Insts
            /\ j.word = i.word /\ j.PC = i.PC /\ j.flags = i.flags
            /\ j.op1Val = i.op1Val /\ j.nextPC = i.nextPC /\ j.op2Val = i.op2Val
            /\ j.arithResult = i.arithResult
            /\ j.memAddress = IF i.flags.isLegal THEN AddressOf(i) ELSE i.memAddress
<1> DEFINE accesses == i.flags.isLegal /\ (i.flags.readsMem \/ i.flags.writesMem)
           j == SimMEM(i)
           a == AddressOf(i)
<1>1. a \in Bits
  BY AddressType
<1>2. j = IF accesses THEN [i EXCEPT !.memAddress = a] ELSE i
  <2>1. [i EXCEPT !.memAddress = a] = SimAddrGen(i)
    BY Zenon DEF SimAddrGen, AddressOf
  <2> QED
    BY <2>1, Zenon DEF SimMEM
<1>3. i.flags.isLegal /\ ~accesses => a = i.memAddress
  BY DEF AddressOf
<1> HIDE DEF j, a
<1>4. /\ j \in Insts
      /\ j.word = i.word /\ j.PC = i.PC /\ j.flags = i.flags
      /\ j.op1Val = i.op1Val /\ j.nextPC = i.nextPC /\ j.op2Val = i.op2Val
      /\ j.arithResult = i.arithResult
      /\ j.memAddress = IF i.flags.isLegal THEN a ELSE i.memAddress
  BY <1>1, <1>2, <1>3 DEF Insts
<1> QED
  BY <1>4, Zenon DEF j, a

-----------------------------------------------------------------------------
(* The kinds of statements.                                                *)

IsForm(s, prefix, bodies, suffix) ==
  s.name[1] = prefix /\ Body(s) \in bodies /\ s.name[3] = suffix

IsRegister(s) == IsForm(s, "", RegisterBodies, "")
IsNarrowRegister(s) == IsForm(s, "", NarrowBodies, "w")
IsImmediate(s) == IsForm(s, "", RegisterBodies \ {"sub"}, "i")
IsNarrowImmediate(s) == IsForm(s, "", NarrowBodies \ {"sub"}, "iw")
IsLoad(s) == IsForm(s, "l", LoadBodies, "")
IsStore(s) == IsForm(s, "s", StoreBodies, "")
IsBranch(s) == IsForm(s, "b", ConditionBodies, "")
IsSpecial(s) == IsForm(s, "", SpecialBodies, "")

LEMMA Forms ==
  ASSUME NEW s, s.name \in StatementNames
  PROVE  \/ IsRegister(s)
         \/ IsNarrowRegister(s)
         \/ IsImmediate(s)
         \/ IsNarrowImmediate(s)
         \/ IsLoad(s)
         \/ IsStore(s)
         \/ IsBranch(s)
         \/ IsSpecial(s)
<1> DEFINE n == s.name
<1>1. NarrowBodies = {"add", "sub"} \cup ShiftBodies
      /\ NarrowBodies \ {"sub"} = {"add"} \cup ShiftBodies
  BY DEF NarrowBodies, ShiftBodies
<1> HIDE DEF n
<1>2. \/ n[1] = "" /\ n[2] \in RegisterBodies /\ n[3] = ""
      \/ n[1] = "" /\ n[2] \in NarrowBodies /\ n[3] = "w"
      \/ n[1] = "" /\ n[2] \in RegisterBodies \ {"sub"} /\ n[3] = "i"
      \/ n[1] = "" /\ n[2] \in NarrowBodies \ {"sub"} /\ n[3] = "iw"
      \/ n[1] = "l" /\ n[2] \in LoadBodies /\ n[3] = ""
      \/ n[1] = "s" /\ n[2] \in StoreBodies /\ n[3] = ""
      \/ n[1] = "b" /\ n[2] \in ConditionBodies /\ n[3] = ""
      \/ n[1] = "" /\ n[2] \in SpecialBodies /\ n[3] = ""
  <2>1. n \in StatementNames
    BY DEF n
  <2> QED
    BY <1>1, <2>1 DEF StatementNames
<1> QED
  BY <1>2 DEF IsForm, IsRegister, IsNarrowRegister, IsImmediate, IsNarrowImmediate, IsLoad, IsStore, IsBranch, IsSpecial, Body, n

LEMMA RegisterForm ==
  ASSUME NEW s, IsRegister(s)
  PROVE  /\ Format(s) = "R" /\ ~Narrow(s) /\ OpcodeOf(s) = OP_INT
         /\ Funct3Of(s) = ArithmeticFunct3[Body(s)] /\ Body(s) \notin SpecialBodies
BY DEF IsForm, IsRegister, RegisterBodies, ShiftBodies, SpecialBodies, Format, Narrow, OpcodeOf, OP_INT,
       Funct3Of, ArithmeticFunct3

LEMMA NarrowRegisterForm ==
  ASSUME NEW s, IsNarrowRegister(s)
  PROVE  /\ Format(s) = "R" /\ Narrow(s) /\ OpcodeOf(s) = OP_INTW
         /\ Funct3Of(s) = ArithmeticFunct3[Body(s)] /\ Body(s) \notin SpecialBodies
BY DEF IsForm, IsNarrowRegister, NarrowBodies, ShiftBodies, SpecialBodies, Format, Narrow, OpcodeOf, OP_INTW,
       Funct3Of, ArithmeticFunct3

LEMMA ImmediateForm ==
  ASSUME NEW s, IsImmediate(s)
  PROVE  /\ Format(s) = (IF Body(s) \in ShiftBodies THEN "shift" ELSE "I")
         /\ ~Narrow(s) /\ OpcodeOf(s) = OP_INTIMM
         /\ Funct3Of(s) = ArithmeticFunct3[Body(s)] /\ Body(s) \notin SpecialBodies
BY DEF IsForm, IsImmediate, RegisterBodies, ShiftBodies, SpecialBodies, Format, Narrow, OpcodeOf, OP_INTIMM,
       Funct3Of, ArithmeticFunct3

LEMMA NarrowImmediateForm ==
  ASSUME NEW s, IsNarrowImmediate(s)
  PROVE  /\ Format(s) = (IF Body(s) \in ShiftBodies THEN "shift" ELSE "I")
         /\ Narrow(s) /\ OpcodeOf(s) = OP_INTIMMW
         /\ Funct3Of(s) = ArithmeticFunct3[Body(s)] /\ Body(s) \notin SpecialBodies
BY DEF IsForm, IsNarrowImmediate, NarrowBodies, ShiftBodies, SpecialBodies, Format, Narrow, OpcodeOf, OP_INTIMMW,
       Funct3Of, ArithmeticFunct3

LEMMA LoadForm ==
  ASSUME NEW s, IsLoad(s)
  PROVE  /\ Format(s) = "I" /\ OpcodeOf(s) = OP_LOAD
         /\ Funct3Of(s) = WidthFunct3[Body(s)] /\ Body(s) \notin SpecialBodies
BY DEF IsForm, IsLoad, LoadBodies, SpecialBodies, Format, OpcodeOf, OP_LOAD, Funct3Of

LEMMA StoreForm ==
  ASSUME NEW s, IsStore(s)
  PROVE  /\ Format(s) = "S" /\ OpcodeOf(s) = OP_STORE
         /\ Funct3Of(s) = WidthFunct3[Body(s)] /\ Body(s) \notin SpecialBodies
BY DEF IsForm, IsStore, StoreBodies, SpecialBodies, Format, OpcodeOf, OP_STORE, Funct3Of

LEMMA BranchForm ==
  ASSUME NEW s, IsBranch(s)
  PROVE  /\ Format(s) = "B" /\ OpcodeOf(s) = OP_BRANCH
         /\ Funct3Of(s) = ConditionFunct3[Body(s)] /\ Body(s) \notin SpecialBodies
BY DEF IsForm, IsBranch, ConditionBodies, SpecialBodies, Format, OpcodeOf, OP_BRANCH, Funct3Of

LEMMA SpecialForm ==
  ASSUME NEW s, IsSpecial(s)
  PROVE  /\ Body(s) = "lui" => Format(s) = "U" /\ OpcodeOf(s) = OP_LUI
         /\ Body(s) = "auipc" => Format(s) = "U" /\ OpcodeOf(s) = OP_AUIPC
         /\ Body(s) = "jal" => Format(s) = "J" /\ OpcodeOf(s) = OP_JAL
         /\ Body(s) = "jalr" => Format(s) = "I" /\ OpcodeOf(s) = OP_JALR
         /\ Funct3Of(s) = 0
BY DEF IsForm, IsSpecial, SpecialBodies, Format, OpcodeOf, OP_LUI, OP_AUIPC, OP_JAL, OP_JALR, Funct3Of,
       ArithmeticFunct3

LEMMA CodeTables ==
  /\ \A b \in RegisterBodies : ArithmeticFunct3[b] \in 0..7
  /\ \A b \in NarrowBodies : b \in RegisterBodies
  /\ \A b \in LoadBodies : WidthFunct3[b] \in 0..7
  /\ \A b \in StoreBodies : WidthFunct3[b] \in 0..7
  /\ \A b \in ConditionBodies : ConditionFunct3[b] \in 0..7
<1>1. \A b \in RegisterBodies : ArithmeticFunct3[b] \in 0..7
  BY DEF RegisterBodies, ShiftBodies, ArithmeticFunct3
<1>2. \A b \in NarrowBodies : b \in RegisterBodies
  BY DEF RegisterBodies, ShiftBodies, NarrowBodies
<1>3. \A b \in LoadBodies : WidthFunct3[b] \in 0..7
  BY DEF LoadBodies, WidthFunct3
<1>4. \A b \in StoreBodies : WidthFunct3[b] \in 0..7
  BY DEF StoreBodies, WidthFunct3
<1>5. \A b \in ConditionBodies : ConditionFunct3[b] \in 0..7
  BY DEF ConditionBodies, ConditionFunct3
<1> QED
  BY <1>1, <1>2, <1>3, <1>4, <1>5

(* Opcodes, funct3 and funct7 fit in their fields. *)
Opcodes ==
  {OP_INT, OP_INTW, OP_INTIMM, OP_INTIMMW, OP_LOAD, OP_STORE, OP_BRANCH, OP_LUI, OP_AUIPC,
   OP_JAL, OP_JALR}

Formats == {"R", "I", "S", "B", "U", "J", "shift"}

CodesFit(s) ==
  OpcodeOf(s) \in Opcodes /\ Funct3Of(s) \in 0..7 /\ Format(s) \in Formats

LEMMA AllCodesFit ==
  ASSUME NEW s, s.name \in StatementNames
  PROVE  CodesFit(s) /\ Funct7Of(s) \in {0, 32}
<1>1. Funct7Of(s) \in {0, 32}
  BY DEF Funct7Of
<1>2. CASE IsRegister(s)
  BY <1>1, <1>2, RegisterForm, CodeTables, Zenon DEF IsForm, IsRegister, CodesFit, Opcodes, Formats
<1>3. CASE IsNarrowRegister(s)
  BY <1>1, <1>3, NarrowRegisterForm, CodeTables, Zenon DEF IsForm, IsNarrowRegister, CodesFit, Opcodes, Formats
<1>4. CASE IsImmediate(s)
  <2>1. Body(s) \in RegisterBodies
    BY <1>4 DEF IsForm, IsImmediate
  <2> QED
    BY <1>1, <1>4, <2>1, ImmediateForm, CodeTables, Zenon DEF CodesFit, Opcodes, Formats
<1>5. CASE IsNarrowImmediate(s)
  <2>1. Body(s) \in RegisterBodies
    BY <1>5, CodeTables DEF IsForm, IsNarrowImmediate
  <2> QED
    BY <1>1, <1>5, <2>1, NarrowImmediateForm, CodeTables, Zenon DEF CodesFit, Opcodes, Formats
<1>6. CASE IsLoad(s)
  BY <1>1, <1>6, LoadForm, CodeTables, Zenon DEF IsForm, IsLoad, CodesFit, Opcodes, Formats
<1>7. CASE IsStore(s)
  BY <1>1, <1>7, StoreForm, CodeTables, Zenon DEF IsForm, IsStore, CodesFit, Opcodes, Formats
<1>8. CASE IsBranch(s)
  BY <1>1, <1>8, BranchForm, CodeTables, Zenon DEF IsForm, IsBranch, CodesFit, Opcodes, Formats
<1>9. CASE IsSpecial(s)
  <2>1. 0 \in 0..7
    OBVIOUS
  <2>2. Body(s) = "lui" \/ Body(s) = "auipc" \/ Body(s) = "jal" \/ Body(s) = "jalr"
    BY <1>9 DEF IsForm, IsSpecial, SpecialBodies
  <2> QED
    BY <1>1, <1>9, <2>1, <2>2, SpecialForm, Zenon DEF CodesFit, Opcodes, Formats
<1> QED
  BY <1>2, <1>3, <1>4, <1>5, <1>6, <1>7, <1>8, <1>9, Forms, Zenon

-----------------------------------------------------------------------------
(* Fields of a word.                                                       *)

HasNumber(w, end, n, m) == \A i \in 0..(n - 1) : w[end + i] = (m \div Power(i)) % 2

LEMMA FieldValue ==
  ASSUME NEW w \in Bits, NEW start \in Position, NEW end \in Position, NEW n \in 1..7,
         start - end + 1 = n, NEW m \in Nat, m < Power(n), HasNumber(w, end, n, m)
  PROVE  Field(w, start, end) = m
<1> DEFINE x == ExtractBits(w, start, end)
<1>1. x \in Bits
  BY ExtractType
<1>2. \A i \in 0..(n - 1) : x[i] = (m \div Power(i)) % 2
  <2>1. \A i \in 0..(n - 1) : x[i] = w[end + i]
    BY DEF ExtractBits, Position
  <2> QED
    BY <2>1 DEF HasNumber
<1>3. Field(w, start, end) = ToNat(x, n)
  BY DEF Field
<1> HIDE DEF x
<1>4. n \in 0..16
  OBVIOUS
<1>5. m = ToNat(x, n) + Power(n) * (m \div Power(n))
  BY <1>1, <1>2, <1>4, NumberOfBits
<1>6. Power(n) \in Nat \ {0}
  BY Powers
<1>7. m \div Power(n) = 0
  <2>1. m \in 0..(Power(n) - 1) /\ m = Power(n) * 0 + m
    BY <1>6
  <2> QED
    BY <1>6, <2>1, QuotientUnique
<1>8. ToNat(x, n) \in Nat
  BY <1>1, <1>4, ToNatBound
<1> QED
  BY <1>3, <1>5, <1>6, <1>7, <1>8

(* The upper six bits of funct7, which is how the code tells a shift. *)
LEMMA Funct7Halves ==
  ASSUME NEW w \in Bits
  PROVE  /\ Funct7(w) \in 0..127 /\ Field(w, 31, 26) \in 0..63
         /\ Funct7(w) = 2 * Field(w, 31, 26) + w[25]
         /\ Funct7(w) \div 2 = Field(w, 31, 26)
<1> DEFINE x == ExtractBits(w, 31, 25)
           y == ExtractBits(w, 31, 26)
<1>1. x \in Bits /\ y \in Bits
  <2>1. 31 \in Position /\ 25 \in Position /\ 26 \in Position
    BY DEF Position
  <2> QED
    BY <2>1, ExtractType
<1>2. /\ x[0] = w[25] /\ x[1] = y[0] /\ x[2] = y[1] /\ x[3] = y[2] /\ x[4] = y[3]
      /\ x[5] = y[4] /\ x[6] = y[5]
  BY DEF ExtractBits, Position
<1>3. Funct7(w) = ToNat(x, 7) /\ Field(w, 31, 26) = ToNat(y, 6)
  BY DEF Funct7, Field
<1>4. w[25] \in {0, 1}
  BY BitOf DEF Position
<1> HIDE DEF x, y
<1>5. \A i \in 0..6 : (x[i] = 0 \/ x[i] = 1) /\ (y[i] = 0 \/ y[i] = 1)
  BY <1>1, BitOf DEF Position
<1>6. /\ ToNat(x, 0) = 0 /\ ToNat(y, 0) = 0
      /\ ToNat(x, 0 + 1) = ToNat(x, 0) + x[0] * 2^0
      /\ ToNat(x, 1 + 1) = ToNat(x, 1) + x[1] * 2^1
      /\ ToNat(x, 2 + 1) = ToNat(x, 2) + x[2] * 2^2
      /\ ToNat(x, 3 + 1) = ToNat(x, 3) + x[3] * 2^3
      /\ ToNat(x, 4 + 1) = ToNat(x, 4) + x[4] * 2^4
      /\ ToNat(x, 5 + 1) = ToNat(x, 5) + x[5] * 2^5
      /\ ToNat(x, 6 + 1) = ToNat(x, 6) + x[6] * 2^6
      /\ ToNat(y, 0 + 1) = ToNat(y, 0) + y[0] * 2^0
      /\ ToNat(y, 1 + 1) = ToNat(y, 1) + y[1] * 2^1
      /\ ToNat(y, 2 + 1) = ToNat(y, 2) + y[2] * 2^2
      /\ ToNat(y, 3 + 1) = ToNat(y, 3) + y[3] * 2^3
      /\ ToNat(y, 4 + 1) = ToNat(y, 4) + y[4] * 2^4
      /\ ToNat(y, 5 + 1) = ToNat(y, 5) + y[5] * 2^5
  BY ToNat0, ToNatStep
<1>7. /\ ToNat(x, 7) = x[0] * 1 + x[1] * 2 + x[2] * 4 + x[3] * 8 + x[4] * 16 + x[5] * 32 + x[6] * 64
      /\ ToNat(y, 6) = y[0] * 1 + y[1] * 2 + y[2] * 4 + y[3] * 8 + y[4] * 16 + y[5] * 32
  BY <1>5, <1>6
<1>8. ToNat(x, 7) = 2 * ToNat(y, 6) + x[0]
  BY <1>2, <1>5, <1>7
<1>9. ToNat(y, 6) \in 0..63
  <2>1. 6 \in 0..16 /\ Power(6) = 64
    BY DEF Power
  <2> QED
    BY <1>1, <2>1, ToNatBound
<1> HIDE DEF HasNumber
<1> QED
  BY <1>2, <1>3, <1>4, <1>8, <1>9

LEMMA Funct3Bound ==
  ASSUME NEW w \in Bits
  PROVE  Funct3(w) \in 0..7
<1>1. 14 \in Position /\ 12 \in Position /\ 3 \in 0..16 /\ Power(3) = 8
  BY DEF Position, Power
<1>2. ExtractBits(w, 14, 12) \in Bits
  BY <1>1, ExtractType
<1>3. ToNat(ExtractBits(w, 14, 12), 3) \in 0..7
  BY <1>1, <1>2, ToNatBound
<1> QED
  BY <1>3 DEF Funct3, Field

-----------------------------------------------------------------------------
(* The immediates, bit by bit.                                             *)

LEMMA ExtractedBit ==
  ASSUME NEW x, NEW start, NEW end, NEW i \in Position
  PROVE  ExtractBits(x, start, end)[i] = IF i <= start - end THEN x[end + i] ELSE 0
BY DEF ExtractBits

LEMMA ShiftedBit ==
  ASSUME NEW x, NEW n, NEW i \in Position
  PROVE  ShiftLeft(x, n)[i] = IF i >= n THEN x[i - n] ELSE 0
BY DEF ShiftLeft

LEMMA ExtendedBit ==
  ASSUME NEW x, NEW n, NEW i \in Position
  PROVE  Sext64(x, n)[i] = IF i > n /\ x[n] = 1 THEN 1 ELSE x[i]
BY Zenon DEF Sext64

LEMMA OredBit ==
  ASSUME NEW x \in Bits, NEW y \in Bits, NEW i \in Position
  PROVE  /\ x[i] = 0 => OrBits(x, y)[i] = y[i]
         /\ y[i] = 0 => OrBits(x, y)[i] = x[i]
BY BitOf DEF OrBits

LEMMA ImmIBit ==
  ASSUME NEW w \in Bits, NEW i \in Position
  PROVE  ImmI(w)[i] = w[IF i <= 11 THEN 20 + i ELSE 31]
<1> DEFINE x == ExtractBits(w, 31, 20)
<1>1. 11 \in Position /\ 31 \in Position
  BY DEF Position
<1>2. /\ x[11] = w[31]
      /\ x[i] = IF i <= 11 THEN w[20 + i] ELSE 0
  BY <1>1, ExtractedBit
<1>3. w[31] = 0 \/ w[31] = 1
  BY <1>1, BitOf
<1>4. ImmI(w)[i] = IF i > 11 /\ x[11] = 1 THEN 1 ELSE x[i]
  BY ExtendedBit DEF ImmI
<1> HIDE DEF x
<1> QED
  BY <1>2, <1>3, <1>4 DEF Position

LEMMA ImmSBit ==
  ASSUME NEW w \in Bits, NEW i \in Position
  PROVE  ImmS(w)[i] = w[IF i <= 4 THEN 7 + i ELSE IF i <= 11 THEN 20 + i ELSE 31]
<1> DEFINE x == ExtractBits(w, 31, 25)
           y == ExtractBits(w, 11, 7)
           a == ShiftLeft(x, 5)
           z == OrBits(a, y)
<1>1. /\ 11 \in Position /\ 31 \in Position /\ 25 \in Position /\ 7 \in Position
      /\ 6 \in Position
  BY DEF Position
<1>2. x \in Bits /\ y \in Bits /\ a \in Bits
  BY <1>1, ExtractType, ShiftType
<1>3. \A j \in Position : /\ x[j] = IF j <= 6 THEN w[25 + j] ELSE 0
                          /\ y[j] = IF j <= 4 THEN w[7 + j] ELSE 0
  BY ExtractedBit
<1> HIDE DEF x, y
<1>4. \A j \in Position : a[j] = IF j >= 5 THEN x[j - 5] ELSE 0
  BY ShiftedBit
<1>5. ImmS(w)[i] = IF i > 11 /\ z[11] = 1 THEN 1 ELSE z[i]
  BY ExtendedBit DEF ImmS, x, y
<1> HIDE DEF a
<1>6. \A j \in Position : (a[j] = 0 => z[j] = y[j]) /\ (y[j] = 0 => z[j] = a[j])
  BY <1>2, OredBit
<1> HIDE DEF z
<1>7. \A j \in Position : z[j] = IF j <= 4 THEN w[7 + j] ELSE IF j <= 11 THEN w[20 + j] ELSE 0
  <2> TAKE j \in Position
  <2>1. CASE j <= 4
    BY <1>3, <1>4, <1>6, <2>1 DEF Position
  <2>2. CASE j > 4
    <3>1. j - 5 \in Position /\ 25 + (j - 5) = 20 + j
      BY <2>2 DEF Position
    <3> QED
      BY <1>3, <1>4, <1>6, <2>2, <3>1 DEF Position
  <2> QED
    BY <2>1, <2>2 DEF Position
<1>8. w[31] = 0 \/ w[31] = 1
  BY <1>1, BitOf
<1>9. z[11] = w[31]
  BY <1>1, <1>7
<1> QED
  BY <1>5, <1>7, <1>8, <1>9 DEF Position

LEMMA ImmUBit ==
  ASSUME NEW w \in Bits, NEW i \in Position
  PROVE  /\ UpperBits(w)[i] = IF i < 12 \/ i > 31 THEN 0 ELSE w[i]
         /\ ImmU(w)[i] = IF i < 12 THEN 0 ELSE w[IF i <= 31 THEN i ELSE 31]
<1> DEFINE x == ExtractBits(w, 31, 12)
           u == UpperBits(w)
<1>1. \A j \in Position : x[j] = IF j <= 19 THEN w[12 + j] ELSE 0
  BY ExtractedBit
<1>2. \A j \in Position : u[j] = IF j >= 12 THEN x[j - 12] ELSE 0
  BY ShiftedBit DEF UpperBits
<1>3. ImmU(w)[i] = IF i > 31 /\ u[31] = 1 THEN 1 ELSE u[i]
  BY ExtendedBit DEF ImmU
<1> HIDE DEF x, u
<1>4. \A j \in Position : u[j] = IF j < 12 \/ j > 31 THEN 0 ELSE w[j]
  <2> TAKE j \in Position
  <2>1. CASE j >= 12
    <3>1. j - 12 \in Position /\ 12 + (j - 12) = j
      BY <2>1 DEF Position
    <3> QED
      BY <1>1, <1>2, <2>1, <3>1 DEF Position
  <2> QED
    BY <1>2, <2>1 DEF Position
<1>5. 31 \in Position /\ (w[31] = 0 \/ w[31] = 1)
  BY BitOf DEF Position
<1>6. u[31] = w[31]
  BY <1>4, <1>5
<1> QED
  BY <1>3, <1>4, <1>5, <1>6 DEF Position, u

(* A piece of a branch or jump immediate: bits of the word that two        *)
(* extractions take and a shift puts into place.                           *)
IsPiece(p, w, n, lowest, length) ==
  /\ p \in Bits
  /\ \A j \in Position :
       p[j] = IF j >= n /\ j < n + length THEN w[lowest + (j - n)] ELSE 0

(* Bits from..to of bits start..end, put at n. *)
Cut(start, end, from, to, n, lowest, length) ==
  /\ start \in Position /\ end \in Position /\ from \in Position /\ to \in Position
  /\ n \in Position /\ from - to >= 0 /\ end + from <= start
  /\ lowest = end + to /\ length = from - to + 1

LEMMA Piece ==
  ASSUME NEW w \in Bits, NEW start, NEW end, NEW from, NEW to, NEW n, NEW lowest, NEW length,
         Cut(start, end, from, to, n, lowest, length)
  PROVE  IsPiece(ShiftLeft(ExtractBits(ExtractBits(w, start, end), from, to), n),
                 w, n, lowest, length)
<1> USE DEF Cut
<1> DEFINE p == ShiftLeft(ExtractBits(ExtractBits(w, start, end), from, to), n)
           x == ExtractBits(w, start, end)
           y == ExtractBits(x, from, to)
<1>0. p = ShiftLeft(y, n)
  OBVIOUS
<1> HIDE DEF p
<1>1. x \in Bits
  BY ExtractType
<1>2. \A j \in Position : x[j] = IF j <= start - end THEN w[end + j] ELSE 0
  BY ExtractedBit
<1> HIDE DEF x
<1>3. y \in Bits /\ n \in Nat
  <2>1. y \in Bits
    BY <1>1, ExtractType
  <2> QED
    BY <2>1 DEF Position
<1>4. \A j \in Position : y[j] = IF j <= from - to THEN x[to + j] ELSE 0
  BY ExtractedBit
<1> HIDE DEF y
<1>5. p \in Bits
  BY <1>0, <1>3, ShiftType
<1>6. \A j \in Position : p[j] = IF j >= n THEN y[j - n] ELSE 0
  BY <1>0, ShiftedBit
<1>7. ASSUME NEW j \in Position
      PROVE  p[j] = IF j >= n /\ j < n + length THEN w[lowest + (j - n)] ELSE 0
  <2>1. CASE j < n
    BY <1>6, <2>1 DEF Position
  <2>2. CASE j >= n /\ j - n > from - to
    <3>1. j - n \in Position /\ ~(j - n <= from - to) /\ ~(j < n + length)
      BY <2>2 DEF Position
    <3> QED
      BY <1>4, <1>6, <2>2, <3>1
  <2>3. CASE j >= n /\ j - n <= from - to
    <3>1. /\ j - n \in Position /\ to + (j - n) \in Position /\ to + (j - n) <= start - end
          /\ j < n + length /\ end + (to + (j - n)) = lowest + (j - n)
      BY <2>3 DEF Position
    <3> QED
      BY <1>2, <1>4, <1>6, <2>3, <3>1
  <2> QED
    BY <2>1, <2>2, <2>3 DEF Position
<1> QED
  BY <1>5, <1>7 DEF IsPiece, p

LEMMA ImmBBit ==
  ASSUME NEW w \in Bits, NEW i \in Position
  PROVE  ImmB(w)[i] = IF i = 0 THEN 0
                      ELSE w[IF i <= 4 THEN 7 + i ELSE IF i <= 10 THEN 20 + i
                             ELSE IF i = 11 THEN 7 ELSE 31]
<1> DEFINE imm7 == ExtractBits(w, 31, 25)
           imm5 == ExtractBits(w, 11, 7)
           a == ShiftLeft(ExtractBits(imm7, 6, 6), 12)
           b == ShiftLeft(ExtractBits(imm7, 5, 0), 5)
           c == ShiftLeft(ExtractBits(imm5, 4, 1), 1)
           d == ShiftLeft(ExtractBits(imm5, 0, 0), 11)
           h == OrBits(a, b)
           l == OrBits(c, d)
           z == OrBits(h, l)
<1>1. /\ 0 \in Position /\ 1 \in Position /\ 4 \in Position /\ 5 \in Position
      /\ 6 \in Position /\ 7 \in Position /\ 11 \in Position /\ 12 \in Position
      /\ 25 \in Position /\ 31 \in Position
  BY DEF Position
<1>2. IsPiece(a, w, 12, 31, 1)
  <2>1. Cut(31, 25, 6, 6, 12, 31, 1)
    BY DEF Cut, Position
  <2> QED
    BY <2>1, Piece
<1>3. IsPiece(b, w, 5, 25, 6)
  <2>1. Cut(31, 25, 5, 0, 5, 25, 6)
    BY DEF Cut, Position
  <2> QED
    BY <2>1, Piece
<1>4. IsPiece(c, w, 1, 8, 4)
  <2>1. Cut(11, 7, 4, 1, 1, 8, 4)
    BY DEF Cut, Position
  <2> QED
    BY <2>1, Piece
<1>5. IsPiece(d, w, 11, 7, 1)
  <2>1. Cut(11, 7, 0, 0, 11, 7, 1)
    BY DEF Cut, Position
  <2> QED
    BY <2>1, Piece
<1>6. ImmB(w)[i] = IF i > 12 /\ z[12] = 1 THEN 1 ELSE z[i]
  <2>1. ImmB(w) = Sext64(z, 12)
    BY Zenon DEF ImmB
  <2> HIDE DEF z
  <2> QED
    BY <2>1, ExtendedBit
<1> HIDE DEF a, b, c, d
<1>7. /\ h \in Bits /\ l \in Bits
      /\ \A j \in Position : (a[j] = 0 => h[j] = b[j]) /\ (b[j] = 0 => h[j] = a[j])
      /\ \A j \in Position : (c[j] = 0 => l[j] = d[j]) /\ (d[j] = 0 => l[j] = c[j])
  BY <1>2, <1>3, <1>4, <1>5, OredBit, LogicType DEF IsPiece
<1> HIDE DEF h, l
<1>8. \A j \in Position : (h[j] = 0 => z[j] = l[j]) /\ (l[j] = 0 => z[j] = h[j])
  BY <1>7, OredBit
<1> HIDE DEF z
<1>9. \A j \in Position :
        /\ h[j] = IF j = 12 THEN w[31] ELSE IF j >= 5 /\ j <= 10 THEN w[20 + j] ELSE 0
        /\ l[j] = IF j >= 1 /\ j <= 4 THEN w[7 + j] ELSE IF j = 11 THEN w[7] ELSE 0
  BY <1>2, <1>3, <1>4, <1>5, <1>7 DEF Position, IsPiece
<1>10. \A j \in Position :
        z[j] = IF j = 12 THEN w[31] ELSE IF j >= 5 /\ j <= 10 THEN w[20 + j]
               ELSE IF j >= 1 /\ j <= 4 THEN w[7 + j] ELSE IF j = 11 THEN w[7] ELSE 0
  BY <1>8, <1>9 DEF Position
<1>11. w[31] = 0 \/ w[31] = 1
  BY <1>1, BitOf
<1>12. z[12] = w[31]
  BY <1>1, <1>10
<1> QED
  BY <1>6, <1>10, <1>11, <1>12 DEF Position

LEMMA ImmJBit ==
  ASSUME NEW w \in Bits, NEW i \in Position
  PROVE  ImmJ(w)[i] = IF i = 0 THEN 0
                      ELSE w[IF i <= 10 THEN 20 + i ELSE IF i = 11 THEN 20
                             ELSE IF i <= 19 THEN i ELSE 31]
<1> DEFINE imm20 == ExtractBits(w, 31, 12)
           a == ShiftLeft(ExtractBits(imm20, 19, 19), 20)
           b == ShiftLeft(ExtractBits(imm20, 7, 0), 12)
           c == ShiftLeft(ExtractBits(imm20, 18, 9), 1)
           d == ShiftLeft(ExtractBits(imm20, 8, 8), 11)
           h == OrBits(a, b)
           l == OrBits(c, d)
           z == OrBits(h, l)
<1>1. /\ 0 \in Position /\ 1 \in Position /\ 7 \in Position /\ 8 \in Position
      /\ 9 \in Position /\ 11 \in Position /\ 12 \in Position /\ 18 \in Position
      /\ 19 \in Position /\ 20 \in Position /\ 31 \in Position
  BY DEF Position
<1>2. IsPiece(a, w, 20, 31, 1)
  <2>1. Cut(31, 12, 19, 19, 20, 31, 1)
    BY DEF Cut, Position
  <2> QED
    BY <2>1, Piece
<1>3. IsPiece(b, w, 12, 12, 8)
  <2>1. Cut(31, 12, 7, 0, 12, 12, 8)
    BY DEF Cut, Position
  <2> QED
    BY <2>1, Piece
<1>4. IsPiece(c, w, 1, 21, 10)
  <2>1. Cut(31, 12, 18, 9, 1, 21, 10)
    BY DEF Cut, Position
  <2> QED
    BY <2>1, Piece
<1>5. IsPiece(d, w, 11, 20, 1)
  <2>1. Cut(31, 12, 8, 8, 11, 20, 1)
    BY DEF Cut, Position
  <2> QED
    BY <2>1, Piece
<1>6. ImmJ(w)[i] = IF i > 20 /\ z[20] = 1 THEN 1 ELSE z[i]
  <2>1. ImmJ(w) = Sext64(z, 20)
    BY Zenon DEF ImmJ
  <2> HIDE DEF z
  <2> QED
    BY <2>1, ExtendedBit
<1> HIDE DEF a, b, c, d
<1>7. /\ h \in Bits /\ l \in Bits
      /\ \A j \in Position : (a[j] = 0 => h[j] = b[j]) /\ (b[j] = 0 => h[j] = a[j])
      /\ \A j \in Position : (c[j] = 0 => l[j] = d[j]) /\ (d[j] = 0 => l[j] = c[j])
  BY <1>2, <1>3, <1>4, <1>5, OredBit, LogicType DEF IsPiece
<1> HIDE DEF h, l
<1>8. \A j \in Position : (h[j] = 0 => z[j] = l[j]) /\ (l[j] = 0 => z[j] = h[j])
  BY <1>7, OredBit
<1> HIDE DEF z
<1>9. \A j \in Position :
        /\ h[j] = IF j = 20 THEN w[31] ELSE IF j >= 12 /\ j <= 19 THEN w[j] ELSE 0
        /\ l[j] = IF j >= 1 /\ j <= 10 THEN w[20 + j] ELSE IF j = 11 THEN w[20] ELSE 0
  BY <1>2, <1>3, <1>4, <1>5, <1>7 DEF Position, IsPiece
<1>10. \A j \in Position :
        z[j] = IF j = 20 THEN w[31] ELSE IF j >= 12 /\ j <= 19 THEN w[j]
               ELSE IF j >= 1 /\ j <= 10 THEN w[20 + j] ELSE IF j = 11 THEN w[20] ELSE 0
  BY <1>8, <1>9 DEF Position
<1>11. w[31] = 0 \/ w[31] = 1
  BY <1>1, BitOf
<1>12. z[20] = w[31]
  BY <1>1, <1>10
<1> QED
  BY <1>6, <1>10, <1>11, <1>12 DEF Position

-----------------------------------------------------------------------------
(* The bits of an assembled word.                                          *)

LEMMA ImmediateBits ==
  ASSUME NEW format \in Formats, NEW p \in Position
  PROVE  /\ ImmediateBitAt(format, p) \in Int
         /\ ImmediateBitAt(format, p) >= 0 => ImmediateBitAt(format, p) \in Position
BY DEF ImmediateBitAt, Formats, Position

LEMMA FieldBitIs ==
  ASSUME NEW s, NEW p
  PROVE  FieldBit(s, p) =
           IF p <= 6 THEN (OpcodeOf(s) \div Power(p - 0)) % 2
           ELSE IF p <= 11 THEN (s.rd \div Power(p - 7)) % 2
           ELSE IF p <= 14 THEN (Funct3Of(s) \div Power(p - 12)) % 2
           ELSE IF p <= 19 THEN (s.rs1 \div Power(p - 15)) % 2
           ELSE IF p <= 24 THEN (s.rs2 \div Power(p - 20)) % 2
           ELSE (Funct7Of(s) \div Power(p - 25)) % 2
BY Zenon DEF FieldBit, Power

LEMMA AssembledBit ==
  ASSUME NEW s, NEW p \in Position, ~(p > 31)
  PROVE  /\ ImmediateBitAt(Format(s), p) >= 0 =>
              Assemble(s)[p] = s.imm[ImmediateBitAt(Format(s), p)]
         /\ ~(ImmediateBitAt(Format(s), p) >= 0) => Assemble(s)[p] = FieldBit(s, p)
BY Zenon DEF Assemble

LEMMA StatementFields ==
  ASSUME NEW s, WellFormed(s)
  PROVE  /\ s.name \in StatementNames /\ s.imm \in Bits
         /\ s.rd \in 0..31 /\ s.rs1 \in 0..31 /\ s.rs2 \in 0..31
         /\ OpcodeOf(s) \in Opcodes /\ Funct3Of(s) \in 0..7 /\ Format(s) \in Formats
         /\ Funct7Of(s) \in {0, 32}
         /\ s = [name |-> s.name, rd |-> s.rd, rs1 |-> s.rs1, rs2 |-> s.rs2, imm |-> s.imm]
<1>1. s \in Statement
  BY DEF WellFormed
<1>2. /\ s.name \in StatementNames /\ s.imm \in Bits
      /\ s.rd \in Register /\ s.rs1 \in Register /\ s.rs2 \in Register
      /\ s = [name |-> s.name, rd |-> s.rd, rs1 |-> s.rs1, rs2 |-> s.rs2, imm |-> s.imm]
  BY <1>1 DEF Statement
<1>3. CodesFit(s) /\ Funct7Of(s) \in {0, 32}
  BY <1>2, AllCodesFit
<1> QED
  BY <1>2, <1>3 DEF CodesFit, Register

LEMMA OpcodeNumbers ==
  ASSUME NEW op \in Opcodes
  PROVE  op \in 0..127 /\ (op \div Power(1)) % 2 = 1
BY DEF Opcodes, Power, OP_INT, OP_INTW, OP_INTIMM, OP_INTIMMW, OP_LOAD, OP_STORE, OP_BRANCH,
       OP_LUI, OP_AUIPC, OP_JAL, OP_JALR

LEMMA AssembledType ==
  ASSUME NEW s, WellFormed(s)
  PROVE  Assemble(s) \in Bits
<1>1. /\ s.imm \in Bits /\ s.rd \in Nat /\ s.rs1 \in Nat /\ s.rs2 \in Nat
      /\ OpcodeOf(s) \in Nat /\ Funct3Of(s) \in Nat /\ Format(s) \in Formats
      /\ Funct7Of(s) \in Nat
  BY StatementFields, OpcodeNumbers
<1>2. ASSUME NEW m \in Nat, NEW k \in 0..30
      PROVE  (m \div Power(k)) % 2 \in {0, 1}
  <2>1. Power(k) \in Nat \ {0}
    BY <1>2, Powers
  <2> QED
    BY <1>2, <2>1, HalfQuotient
<1>3. ASSUME NEW p \in Position
      PROVE  Assemble(s)[p] \in {0, 1}
  <2>1. CASE p > 31
    BY <2>1, Zenon DEF Assemble
  <2>2. CASE ~(p > 31) /\ ImmediateBitAt(Format(s), p) >= 0
    <3>1. ImmediateBitAt(Format(s), p) \in Position
      BY <1>1, <2>2, ImmediateBits
    <3>2. s.imm[ImmediateBitAt(Format(s), p)] \in {0, 1}
      BY <1>1, <3>1, BitOf
    <3> QED
      BY <2>2, <3>2, AssembledBit
  <2>3. CASE ~(p > 31) /\ ~(ImmediateBitAt(Format(s), p) >= 0)
    <3>1. FieldBit(s, p) \in {0, 1}
      <4>1. /\ p <= 6 => p - 0 \in 0..30
            /\ ~(p <= 6) => p - 7 \in 0..30
            /\ ~(p <= 11) => p - 12 \in 0..30
            /\ ~(p <= 14) => p - 15 \in 0..30
            /\ ~(p <= 19) => p - 20 \in 0..30
            /\ ~(p <= 24) => p - 25 \in 0..30
        BY <2>3 DEF Position
      <4> QED
        BY <1>1, <1>2, <4>1, FieldBitIs, Zenon
    <3> QED
      BY <2>3, <3>1, AssembledBit
  <2> QED
    BY <2>1, <2>2, <2>3
<1>4. Assemble(s) = [p \in Position |-> Assemble(s)[p]]
  BY Zenon DEF Assemble
<1> QED
  BY <1>3, <1>4, Zenon DEF Bits, Bit

(* What the fields of an assembled word read back.                         *)
LEMMA AssembledOpcode ==
  ASSUME NEW s, WellFormed(s)
  PROVE  Opcode(Assemble(s)) = OpcodeOf(s) /\ Assemble(s)[1] = 1
<1> DEFINE w == Assemble(s)
<1>1. w \in Bits /\ OpcodeOf(s) \in 0..127 /\ Format(s) \in Formats
      /\ (OpcodeOf(s) \div Power(1)) % 2 = 1
  BY AssembledType, StatementFields, OpcodeNumbers
<1>2. ASSUME NEW i \in 0..6
      PROVE  w[0 + i] = (OpcodeOf(s) \div Power(i)) % 2
  <2>1. 0 + i \in Position /\ ~(0 + i > 31) /\ 0 + i <= 6 /\ (0 + i) - 0 = i
    BY DEF Position
  <2>2. ~(ImmediateBitAt(Format(s), 0 + i) >= 0)
    BY <1>1 DEF ImmediateBitAt, Formats
  <2>3. w[0 + i] = FieldBit(s, 0 + i)
    BY <2>1, <2>2, AssembledBit
  <2> QED
    BY <2>1, <2>3, FieldBitIs
<1>3. HasNumber(w, 0, 7, OpcodeOf(s))
  BY <1>2 DEF HasNumber
<1>4. 6 \in Position /\ 0 \in Position /\ Power(7) = 128 /\ 6 - 0 + 1 = 7
  BY DEF Position, Power
<1>5. w[1] = 1
  BY <1>1, <1>2
<1> HIDE DEF w
<1>6. Field(w, 6, 0) = OpcodeOf(s)
  BY <1>1, <1>3, <1>4, FieldValue
<1> QED
  BY <1>5, <1>6 DEF Opcode, w

LEMMA AssembledRd ==
  ASSUME NEW s, WellFormed(s), Format(s) \notin {"S", "B"}
  PROVE  Rd(Assemble(s)) = s.rd
<1> DEFINE w == Assemble(s)
<1>1. w \in Bits /\ s.rd \in 0..31 /\ Format(s) \in Formats
  BY AssembledType, StatementFields
<1>2. ASSUME NEW i \in 0..4
      PROVE  w[7 + i] = (s.rd \div Power(i)) % 2
  <2>1. 7 + i \in Position /\ ~(7 + i > 31) /\ ~(7 + i <= 6) /\ 7 + i <= 11 /\ (7 + i) - 7 = i
    BY DEF Position
  <2>2. ~(ImmediateBitAt(Format(s), 7 + i) >= 0)
    BY <1>1 DEF ImmediateBitAt, Formats
  <2>3. w[7 + i] = FieldBit(s, 7 + i)
    BY <2>1, <2>2, AssembledBit
  <2> QED
    BY <2>1, <2>3, FieldBitIs
<1>3. HasNumber(w, 7, 5, s.rd)
  BY <1>2 DEF HasNumber
<1>4. 11 \in Position /\ 7 \in Position /\ Power(5) = 32 /\ 11 - 7 + 1 = 5
  BY DEF Position, Power
<1> HIDE DEF w
<1>5. Field(w, 11, 7) = s.rd
  BY <1>1, <1>3, <1>4, FieldValue
<1> QED
  BY <1>5 DEF Rd, w

LEMMA AssembledFunct3 ==
  ASSUME NEW s, WellFormed(s), Format(s) \notin {"U", "J"}
  PROVE  Funct3(Assemble(s)) = Funct3Of(s)
<1> DEFINE w == Assemble(s)
<1>1. w \in Bits /\ Funct3Of(s) \in 0..7 /\ Format(s) \in Formats
  BY AssembledType, StatementFields
<1>2. ASSUME NEW i \in 0..2
      PROVE  w[12 + i] = (Funct3Of(s) \div Power(i)) % 2
  <2>1. /\ 12 + i \in Position /\ ~(12 + i > 31)
        /\ ~(12 + i <= 6) /\ ~(12 + i <= 11) /\ 12 + i <= 14 /\ (12 + i) - 12 = i
    BY DEF Position
  <2>2. ~(ImmediateBitAt(Format(s), 12 + i) >= 0)
    BY <1>1 DEF ImmediateBitAt, Formats
  <2>3. w[12 + i] = FieldBit(s, 12 + i)
    BY <2>1, <2>2, AssembledBit
  <2> QED
    BY <2>1, <2>3, FieldBitIs
<1>3. HasNumber(w, 12, 3, Funct3Of(s))
  BY <1>2 DEF HasNumber
<1>4. 14 \in Position /\ 12 \in Position /\ Power(3) = 8 /\ 14 - 12 + 1 = 3
  BY DEF Position, Power
<1> HIDE DEF w
<1>5. Field(w, 14, 12) = Funct3Of(s)
  BY <1>1, <1>3, <1>4, FieldValue
<1> QED
  BY <1>5 DEF Funct3, w

LEMMA AssembledRs1 ==
  ASSUME NEW s, WellFormed(s), Format(s) \notin {"U", "J"}
  PROVE  Rs1(Assemble(s)) = s.rs1
<1> DEFINE w == Assemble(s)
<1>1. w \in Bits /\ s.rs1 \in 0..31 /\ Format(s) \in Formats
  BY AssembledType, StatementFields
<1>2. ASSUME NEW i \in 0..4
      PROVE  w[15 + i] = (s.rs1 \div Power(i)) % 2
  <2>1. /\ 15 + i \in Position /\ ~(15 + i > 31)
        /\ ~(15 + i <= 6) /\ ~(15 + i <= 11) /\ ~(15 + i <= 14) /\ 15 + i <= 19 /\ (15 + i) - 15 = i
    BY DEF Position
  <2>2. ~(ImmediateBitAt(Format(s), 15 + i) >= 0)
    BY <1>1 DEF ImmediateBitAt, Formats
  <2>3. w[15 + i] = FieldBit(s, 15 + i)
    BY <2>1, <2>2, AssembledBit
  <2> QED
    BY <2>1, <2>3, FieldBitIs
<1>3. HasNumber(w, 15, 5, s.rs1)
  BY <1>2 DEF HasNumber
<1>4. 19 \in Position /\ 15 \in Position /\ Power(5) = 32 /\ 19 - 15 + 1 = 5
  BY DEF Position, Power
<1> HIDE DEF w
<1>5. Field(w, 19, 15) = s.rs1
  BY <1>1, <1>3, <1>4, FieldValue
<1> QED
  BY <1>5 DEF Rs1, w

LEMMA AssembledRs2 ==
  ASSUME NEW s, WellFormed(s), Format(s) \in {"R", "S", "B"}
  PROVE  Rs2(Assemble(s)) = s.rs2
<1> DEFINE w == Assemble(s)
<1>1. w \in Bits /\ s.rs2 \in 0..31 /\ Format(s) \in Formats
  BY AssembledType, StatementFields
<1>2. ASSUME NEW i \in 0..4
      PROVE  w[20 + i] = (s.rs2 \div Power(i)) % 2
  <2>1. /\ 20 + i \in Position /\ ~(20 + i > 31)
        /\ ~(20 + i <= 6) /\ ~(20 + i <= 11) /\ ~(20 + i <= 14) /\ ~(20 + i <= 19) /\ 20 + i <= 24 /\ (20 + i) - 20 = i
    BY DEF Position
  <2>2. ~(ImmediateBitAt(Format(s), 20 + i) >= 0)
    BY <1>1 DEF ImmediateBitAt, Formats
  <2>3. w[20 + i] = FieldBit(s, 20 + i)
    BY <2>1, <2>2, AssembledBit
  <2> QED
    BY <2>1, <2>3, FieldBitIs
<1>3. HasNumber(w, 20, 5, s.rs2)
  BY <1>2 DEF HasNumber
<1>4. 24 \in Position /\ 20 \in Position /\ Power(5) = 32 /\ 24 - 20 + 1 = 5
  BY DEF Position, Power
<1> HIDE DEF w
<1>5. Field(w, 24, 20) = s.rs2
  BY <1>1, <1>3, <1>4, FieldValue
<1> QED
  BY <1>5 DEF Rs2, w

(* The assembler writes funct7 where there is one, its upper six bits for a  *)
(* shift by an immediate.                                                    *)
LEMMA AssembledFunct7 ==
  ASSUME NEW s, WellFormed(s), Format(s) \in {"R", "shift"}
  PROVE  /\ Field(Assemble(s), 31, 26) = Funct7Of(s) \div 2
         /\ Format(s) = "R" \/ Narrow(s) => Funct7(Assemble(s)) = Funct7Of(s)
<1> DEFINE w == Assemble(s)
           f == Funct7Of(s)
<1>1. w \in Bits /\ f \in {0, 32} /\ Format(s) \in Formats
  BY AssembledType, StatementFields
<1>2. ASSUME NEW i \in 0..6, Format(s) = "R" \/ i > 0
      PROVE  w[25 + i] = (f \div Power(i)) % 2
  <2>1. /\ 25 + i \in Position /\ ~(25 + i > 31) /\ (25 + i) - 25 = i
        /\ ~(25 + i <= 6) /\ ~(25 + i <= 11) /\ ~(25 + i <= 14) /\ ~(25 + i <= 19)
        /\ ~(25 + i <= 24)
    BY DEF Position
  <2>2. ~(ImmediateBitAt(Format(s), 25 + i) >= 0)
    BY <1>2 DEF ImmediateBitAt, Formats
  <2>3. w[25 + i] = FieldBit(s, 25 + i)
    BY <2>1, <2>2, AssembledBit
  <2> QED
    BY <2>1, <2>3, FieldBitIs
<1>3. ASSUME NEW i \in 0..5
      PROVE  w[26 + i] = ((f \div 2) \div Power(i)) % 2
  <2>1. /\ i + 1 \in 0..6 /\ i + 1 > 0 /\ 25 + (i + 1) = 26 + i
        /\ Power(i) \in Nat \ {0} /\ Power(i + 1) = 2 * Power(i)
    BY Powers
  <2>2. w[26 + i] = (f \div Power(i + 1)) % 2
    BY <1>2, <2>1
  <2>3. /\ 32 \div (2 * 1) = (32 \div 2) \div 1 /\ 32 \div (2 * 2) = (32 \div 2) \div 2
        /\ 32 \div (2 * 4) = (32 \div 2) \div 4 /\ 32 \div (2 * 8) = (32 \div 2) \div 8
        /\ 32 \div (2 * 16) = (32 \div 2) \div 16 /\ 32 \div (2 * 32) = (32 \div 2) \div 32
        /\ 0 \div (2 * 1) = (0 \div 2) \div 1 /\ 0 \div (2 * 2) = (0 \div 2) \div 2
        /\ 0 \div (2 * 4) = (0 \div 2) \div 4 /\ 0 \div (2 * 8) = (0 \div 2) \div 8
        /\ 0 \div (2 * 16) = (0 \div 2) \div 16 /\ 0 \div (2 * 32) = (0 \div 2) \div 32
    OBVIOUS
  <2>4. Power(i) \in {1, 2, 4, 8, 16, 32}
    <3>1. /\ Power(0) = 1 /\ Power(1) = 2 /\ Power(2) = 4 /\ Power(3) = 8
          /\ Power(4) = 16 /\ Power(5) = 32
      BY DEF Power
    <3> QED
      BY <3>1
  <2>5. f \div (2 * Power(i)) = (f \div 2) \div Power(i)
    <3> HIDE DEF f
    <3> QED
      BY <1>1, <2>3, <2>4
  <2> HIDE DEF w, f
  <2>6. (f \div Power(i + 1)) % 2 = ((f \div 2) \div Power(i)) % 2
    BY <2>1, <2>5, Zenon
  <2> QED
    BY <2>2, <2>6
<1>4. HasNumber(w, 26, 6, f \div 2)
  BY <1>3 DEF HasNumber
<1>5. /\ 31 \in Position /\ 26 \in Position /\ 25 \in Position /\ Power(6) = 64
      /\ 31 - 26 + 1 = 6 /\ Power(0) = 1
  BY DEF Position, Power
<1>6. f \div 2 \in Nat /\ f \div 2 < 64 /\ 2 * (f \div 2) = f /\ (f \div 1) % 2 = 0
  <2> HIDE DEF f
  <2> QED
    BY <1>1
<1>7. Field(w, 31, 26) = f \div 2
  <2> HIDE DEF w, f
  <2> QED
    BY <1>1, <1>4, <1>5, <1>6, FieldValue
<1>8. ASSUME Format(s) = "R" \/ Narrow(s)
      PROVE  w[25] = 0
  <2>1. CASE Format(s) = "R"
    <3>1. 0 \in 0..6 /\ 25 + 0 = 25
      OBVIOUS
    <3>2. w[25] = (f \div Power(0)) % 2
      BY <1>2, <2>1, <3>1
    <3> QED
      BY <1>5, <1>6, <3>2
  <2>2. CASE Format(s) = "shift" /\ Narrow(s)
    <3>1. ImmediateBitAt(Format(s), 25) = 5
      BY <2>2 DEF ImmediateBitAt
    <3>2. w[25] = s.imm[5]
      BY <1>5, <3>1, AssembledBit
    <3>3. 5 \in Position
      BY DEF Position
    <3>4. s.imm[5] = 0
      BY <2>2, <3>3 DEF WellFormed
    <3> QED
      BY <3>2, <3>4
  <2> QED
    BY <1>8, <2>1, <2>2
<1>9. Funct7(w) = 2 * Field(w, 31, 26) + w[25]
  BY <1>1, Funct7Halves
<1>10. Format(s) = "R" \/ Narrow(s) => Funct7(w) = f
  BY <1>6, <1>7, <1>8, <1>9
<1> QED
  BY <1>7, <1>10

EqualBits(x, y) == \A i \in Position : x[i] = y[i]

LEMMA SameWord ==
  ASSUME NEW x \in Bits, NEW y \in Bits, EqualBits(x, y)
  PROVE  x = y
<1>1. x = [i \in Position |-> x[i]] /\ y = [i \in Position |-> y[i]]
  BY DEF Bits
<1>2. \A i \in Position : x[i] = y[i]
  BY DEF EqualBits
<1> QED
  BY <1>1, <1>2

(* The immediates of an assembled word are those of its statement.         *)
LEMMA AssembledI ==
  ASSUME NEW s, WellFormed(s), Format(s) = "I"
  PROVE  ImmI(Assemble(s)) = s.imm
<1> DEFINE w == Assemble(s)
<1>1. w \in Bits /\ s.imm \in Bits
  BY AssembledType, StatementFields
<1>2. ASSUME NEW i \in Position
      PROVE  ImmI(w)[i] = s.imm[i]
  <2>1. CASE i <= 11
    <3>1. 20 + i \in Position /\ ~(20 + i > 31) /\ ImmediateBitAt("I", 20 + i) = i /\ i >= 0
      BY <2>1 DEF Position, ImmediateBitAt
    <3>2. w[20 + i] = s.imm[i]
      BY <3>1, AssembledBit
    <3>3. ImmI(w)[i] = w[20 + i]
      <4> HIDE DEF w
      <4> QED
        BY <1>1, <2>1, ImmIBit DEF Position
    <3>4. s.imm[i] = s.imm[i]
      BY <2>1 DEF WellFormed, Position
    <3> QED
      BY <3>2, <3>3, <3>4
  <2>2. CASE i > 11
    <3>1. 31 \in Position /\ ~(31 > 31) /\ ImmediateBitAt("I", 31) = 11 /\ 11 >= 0
      BY <2>2 DEF Position, ImmediateBitAt
    <3>2. w[31] = s.imm[11]
      BY <3>1, AssembledBit
    <3>3. ImmI(w)[i] = w[31]
      <4> HIDE DEF w
      <4> QED
        BY <1>1, <2>2, ImmIBit DEF Position
    <3>4. s.imm[i] = s.imm[11]
      BY <2>2 DEF WellFormed, Position
    <3> QED
      BY <3>2, <3>3, <3>4
  <2> QED
    BY <2>1, <2>2 DEF Position
<1>3. ImmI(w) \in Bits
  BY <1>1, ImmediateTypes
<1>4. EqualBits(ImmI(w), s.imm)
  BY <1>2 DEF EqualBits
<1> QED
  BY <1>1, <1>3, <1>4, SameWord

LEMMA AssembledS ==
  ASSUME NEW s, WellFormed(s), Format(s) = "S"
  PROVE  ImmS(Assemble(s)) = s.imm
<1> DEFINE w == Assemble(s)
<1>1. w \in Bits /\ s.imm \in Bits
  BY AssembledType, StatementFields
<1>2. ASSUME NEW i \in Position
      PROVE  ImmS(w)[i] = s.imm[i]
  <2>1. CASE i <= 4
    <3>1. 7 + i \in Position /\ ~(7 + i > 31) /\ ImmediateBitAt("S", 7 + i) = i /\ i >= 0
      BY <2>1 DEF Position, ImmediateBitAt
    <3>2. w[7 + i] = s.imm[i]
      BY <3>1, AssembledBit
    <3>3. ImmS(w)[i] = w[7 + i]
      <4> HIDE DEF w
      <4> QED
        BY <1>1, <2>1, ImmSBit DEF Position
    <3>4. s.imm[i] = s.imm[i]
      BY <2>1 DEF WellFormed, Position
    <3> QED
      BY <3>2, <3>3, <3>4
  <2>2. CASE i > 4 /\ i <= 11
    <3>1. 20 + i \in Position /\ ~(20 + i > 31) /\ ImmediateBitAt("S", 20 + i) = i /\ i >= 0
      BY <2>2 DEF Position, ImmediateBitAt
    <3>2. w[20 + i] = s.imm[i]
      BY <3>1, AssembledBit
    <3>3. ImmS(w)[i] = w[20 + i]
      <4> HIDE DEF w
      <4> QED
        BY <1>1, <2>2, ImmSBit DEF Position
    <3>4. s.imm[i] = s.imm[i]
      BY <2>2 DEF WellFormed, Position
    <3> QED
      BY <3>2, <3>3, <3>4
  <2>3. CASE i > 11
    <3>1. 31 \in Position /\ ~(31 > 31) /\ ImmediateBitAt("S", 31) = 11 /\ 11 >= 0
      BY <2>3 DEF Position, ImmediateBitAt
    <3>2. w[31] = s.imm[11]
      BY <3>1, AssembledBit
    <3>3. ImmS(w)[i] = w[31]
      <4> HIDE DEF w
      <4> QED
        BY <1>1, <2>3, ImmSBit DEF Position
    <3>4. s.imm[i] = s.imm[11]
      BY <2>3 DEF WellFormed, Position
    <3> QED
      BY <3>2, <3>3, <3>4
  <2> QED
    BY <2>1, <2>2, <2>3 DEF Position
<1>3. ImmS(w) \in Bits
  BY <1>1, ImmediateTypes
<1>4. EqualBits(ImmS(w), s.imm)
  BY <1>2 DEF EqualBits
<1> QED
  BY <1>1, <1>3, <1>4, SameWord

LEMMA AssembledB ==
  ASSUME NEW s, WellFormed(s), Format(s) = "B"
  PROVE  ImmB(Assemble(s)) = s.imm
<1> DEFINE w == Assemble(s)
<1>1. w \in Bits /\ s.imm \in Bits
  BY AssembledType, StatementFields
<1>2. ASSUME NEW i \in Position
      PROVE  ImmB(w)[i] = s.imm[i]
  <2>1. CASE i = 0
    BY <1>1, <2>1, ImmBBit DEF WellFormed
  <2>2. CASE i > 0 /\ i <= 4
    <3>1. 7 + i \in Position /\ ~(7 + i > 31) /\ ImmediateBitAt("B", 7 + i) = i /\ i >= 0
      BY <2>2 DEF Position, ImmediateBitAt
    <3>2. w[7 + i] = s.imm[i]
      BY <3>1, AssembledBit
    <3>3. ImmB(w)[i] = w[7 + i]
      <4> HIDE DEF w
      <4> QED
        BY <1>1, <2>2, ImmBBit DEF Position
    <3>4. s.imm[i] = s.imm[i]
      BY <2>2 DEF WellFormed, Position
    <3> QED
      BY <3>2, <3>3, <3>4
  <2>3. CASE i > 4 /\ i <= 10
    <3>1. 20 + i \in Position /\ ~(20 + i > 31) /\ ImmediateBitAt("B", 20 + i) = i /\ i >= 0
      BY <2>3 DEF Position, ImmediateBitAt
    <3>2. w[20 + i] = s.imm[i]
      BY <3>1, AssembledBit
    <3>3. ImmB(w)[i] = w[20 + i]
      <4> HIDE DEF w
      <4> QED
        BY <1>1, <2>3, ImmBBit DEF Position
    <3>4. s.imm[i] = s.imm[i]
      BY <2>3 DEF WellFormed, Position
    <3> QED
      BY <3>2, <3>3, <3>4
  <2>4. CASE i = 11
    <3>1. 7 \in Position /\ ~(7 > 31) /\ ImmediateBitAt("B", 7) = 11 /\ 11 >= 0
      BY <2>4 DEF Position, ImmediateBitAt
    <3>2. w[7] = s.imm[11]
      BY <3>1, AssembledBit
    <3>3. ImmB(w)[i] = w[7]
      <4> HIDE DEF w
      <4> QED
        BY <1>1, <2>4, ImmBBit DEF Position
    <3>4. s.imm[i] = s.imm[11]
      BY <2>4 DEF WellFormed, Position
    <3> QED
      BY <3>2, <3>3, <3>4
  <2>5. CASE i > 11
    <3>1. 31 \in Position /\ ~(31 > 31) /\ ImmediateBitAt("B", 31) = 12 /\ 12 >= 0
      BY <2>5 DEF Position, ImmediateBitAt
    <3>2. w[31] = s.imm[12]
      BY <3>1, AssembledBit
    <3>3. ImmB(w)[i] = w[31]
      <4> HIDE DEF w
      <4> QED
        BY <1>1, <2>5, ImmBBit DEF Position
    <3>4. s.imm[i] = s.imm[12]
      BY <2>5 DEF WellFormed, Position
    <3> QED
      BY <3>2, <3>3, <3>4
  <2> QED
    BY <2>1, <2>2, <2>3, <2>4, <2>5 DEF Position
<1>3. ImmB(w) \in Bits
  BY <1>1, ImmediateTypes
<1>4. EqualBits(ImmB(w), s.imm)
  BY <1>2 DEF EqualBits
<1> QED
  BY <1>1, <1>3, <1>4, SameWord

LEMMA AssembledU ==
  ASSUME NEW s, WellFormed(s), Format(s) = "U"
  PROVE  ImmU(Assemble(s)) = s.imm
<1> DEFINE w == Assemble(s)
<1>1. w \in Bits /\ s.imm \in Bits
  BY AssembledType, StatementFields
<1>2. ASSUME NEW i \in Position
      PROVE  ImmU(w)[i] = s.imm[i]
  <2>1. CASE i < 12
    BY <1>1, <2>1, ImmUBit DEF WellFormed
  <2>2. CASE i >= 12 /\ i <= 31
    <3>1. i \in Position /\ ~(i > 31) /\ ImmediateBitAt("U", i) = i /\ i >= 0
      BY <2>2 DEF Position, ImmediateBitAt
    <3>2. w[i] = s.imm[i]
      BY <3>1, AssembledBit
    <3>3. ImmU(w)[i] = w[i]
      <4> HIDE DEF w
      <4> QED
        BY <1>1, <2>2, ImmUBit DEF Position
    <3>4. s.imm[i] = s.imm[i]
      BY <2>2 DEF WellFormed, Position
    <3> QED
      BY <3>2, <3>3, <3>4
  <2>3. CASE i > 31
    <3>1. 31 \in Position /\ ~(31 > 31) /\ ImmediateBitAt("U", 31) = 31 /\ 31 >= 0
      BY <2>3 DEF Position, ImmediateBitAt
    <3>2. w[31] = s.imm[31]
      BY <3>1, AssembledBit
    <3>3. ImmU(w)[i] = w[31]
      <4> HIDE DEF w
      <4> QED
        BY <1>1, <2>3, ImmUBit DEF Position
    <3>4. s.imm[i] = s.imm[31]
      BY <2>3 DEF WellFormed, Position
    <3> QED
      BY <3>2, <3>3, <3>4
  <2> QED
    BY <2>1, <2>2, <2>3 DEF Position
<1>3. ImmU(w) \in Bits
  BY <1>1, ImmediateTypes
<1>4. EqualBits(ImmU(w), s.imm)
  BY <1>2 DEF EqualBits
<1> QED
  BY <1>1, <1>3, <1>4, SameWord

LEMMA AssembledJ ==
  ASSUME NEW s, WellFormed(s), Format(s) = "J"
  PROVE  ImmJ(Assemble(s)) = s.imm
<1> DEFINE w == Assemble(s)
<1>1. w \in Bits /\ s.imm \in Bits
  BY AssembledType, StatementFields
<1>2. ASSUME NEW i \in Position
      PROVE  ImmJ(w)[i] = s.imm[i]
  <2>1. CASE i = 0
    BY <1>1, <2>1, ImmJBit DEF WellFormed
  <2>2. CASE i > 0 /\ i <= 10
    <3>1. 20 + i \in Position /\ ~(20 + i > 31) /\ ImmediateBitAt("J", 20 + i) = i /\ i >= 0
      BY <2>2 DEF Position, ImmediateBitAt
    <3>2. w[20 + i] = s.imm[i]
      BY <3>1, AssembledBit
    <3>3. ImmJ(w)[i] = w[20 + i]
      <4> HIDE DEF w
      <4> QED
        BY <1>1, <2>2, ImmJBit DEF Position
    <3>4. s.imm[i] = s.imm[i]
      BY <2>2 DEF WellFormed, Position
    <3> QED
      BY <3>2, <3>3, <3>4
  <2>3. CASE i = 11
    <3>1. 20 \in Position /\ ~(20 > 31) /\ ImmediateBitAt("J", 20) = 11 /\ 11 >= 0
      BY <2>3 DEF Position, ImmediateBitAt
    <3>2. w[20] = s.imm[11]
      BY <3>1, AssembledBit
    <3>3. ImmJ(w)[i] = w[20]
      <4> HIDE DEF w
      <4> QED
        BY <1>1, <2>3, ImmJBit DEF Position
    <3>4. s.imm[i] = s.imm[11]
      BY <2>3 DEF WellFormed, Position
    <3> QED
      BY <3>2, <3>3, <3>4
  <2>4. CASE i > 11 /\ i <= 19
    <3>1. i \in Position /\ ~(i > 31) /\ ImmediateBitAt("J", i) = i /\ i >= 0
      BY <2>4 DEF Position, ImmediateBitAt
    <3>2. w[i] = s.imm[i]
      BY <3>1, AssembledBit
    <3>3. ImmJ(w)[i] = w[i]
      <4> HIDE DEF w
      <4> QED
        BY <1>1, <2>4, ImmJBit DEF Position
    <3>4. s.imm[i] = s.imm[i]
      BY <2>4 DEF WellFormed, Position
    <3> QED
      BY <3>2, <3>3, <3>4
  <2>5. CASE i > 19
    <3>1. 31 \in Position /\ ~(31 > 31) /\ ImmediateBitAt("J", 31) = 20 /\ 20 >= 0
      BY <2>5 DEF Position, ImmediateBitAt
    <3>2. w[31] = s.imm[20]
      BY <3>1, AssembledBit
    <3>3. ImmJ(w)[i] = w[31]
      <4> HIDE DEF w
      <4> QED
        BY <1>1, <2>5, ImmJBit DEF Position
    <3>4. s.imm[i] = s.imm[20]
      BY <2>5 DEF WellFormed, Position
    <3> QED
      BY <3>2, <3>3, <3>4
  <2> QED
    BY <2>1, <2>2, <2>3, <2>4, <2>5 DEF Position
<1>3. ImmJ(w) \in Bits
  BY <1>1, ImmediateTypes
<1>4. EqualBits(ImmJ(w), s.imm)
  BY <1>2 DEF EqualBits
<1> QED
  BY <1>1, <1>3, <1>4, SameWord

(* The distance of a shift by an immediate. *)
LEMMA AssembledShift ==
  ASSUME NEW s, WellFormed(s), Format(s) = "shift"
  PROVE  /\ \A i \in 0..5 : ImmI(Assemble(s))[i] = s.imm[i]
         /\ Masked(ExtractBits(Assemble(s), 31, 20), 6) = s.imm
<1> DEFINE w == Assemble(s)
           x == ExtractBits(w, 31, 20)
           d == Masked(x, 6)
<1>1. w \in Bits /\ s.imm \in Bits
  BY AssembledType, StatementFields
<1>2. ASSUME NEW i \in 0..5
      PROVE  w[20 + i] = s.imm[i]
  <2>1. 20 + i \in Position /\ ~(20 + i > 31) /\ ImmediateBitAt("shift", 20 + i) = i /\ i >= 0
    BY DEF Position, ImmediateBitAt
  <2> QED
    BY <2>1, AssembledBit
<1> HIDE DEF w
<1>3. ASSUME NEW i \in 0..5
      PROVE  ImmI(w)[i] = s.imm[i]
  <2>1. i \in Position /\ i <= 11
    BY DEF Position
  <2>2. ImmI(w)[i] = w[20 + i]
    BY <1>1, <2>1, ImmIBit DEF Position
  <2> QED
    BY <1>2, <2>2
<1>4. ASSUME NEW i \in Position
      PROVE  d[i] = s.imm[i]
  <2>1. d[i] = IF i < 6 THEN x[i] ELSE 0
    BY DEF Masked
  <2>2. x[i] = IF i <= 31 - 20 THEN w[20 + i] ELSE 0
    BY ExtractedBit
  <2> HIDE DEF d, x
  <2>3. CASE i < 6
    <3>1. i \in 0..5 /\ i <= 31 - 20
      BY <2>3 DEF Position
    <3> QED
      BY <1>2, <2>1, <2>2, <2>3, <3>1
  <2>4. CASE ~(i < 6)
    <3>1. s.imm[i] = 0
      BY <2>4 DEF WellFormed, Position
    <3> QED
      BY <2>1, <2>4, <3>1
  <2> QED
    BY <2>3, <2>4
<1>5. d \in Bits
  <2>1. 31 \in Position /\ 20 \in Position /\ 6 \in Nat
    BY DEF Position
  <2>2. x \in Bits
    BY <1>1, <2>1, ExtractType
  <2> HIDE DEF x
  <2> QED
    BY <2>1, <2>2, ShiftType
<1>6. EqualBits(d, s.imm)
  BY <1>4 DEF EqualBits
<1>7. d = s.imm
  <2> HIDE DEF d
  <2> QED
    BY <1>1, <1>5, <1>6, SameWord
<1> QED
  BY <1>3, <1>7 DEF w

-----------------------------------------------------------------------------
(* A word that simDecode accepts, through the stages.                      *)

Ordinary(w) == Accepted(w) /\ ~IsHaltWord(w) /\ ~IsNopWord(w)

Rs2Readers == RegisterArith \cup {OP_STORE, OP_BRANCH}

Computing == RegisterArith \cup ImmediateArith \cup {OP_JALR, OP_AUIPC, OP_LUI, OP_JAL}

Decoded(w, pc, regs) == SimID(Fetched(w, pc), regs)

Result(w, pc, regs) == SimMEM(SimEX(Decoded(w, pc, regs)))

RegisterFile == [Register -> Bits]

LEMMA DecodedFields ==
  ASSUME NEW w \in Bits, NEW pc \in Bits, NEW regs \in RegisterFile, Ordinary(w)
  PROVE  LET a == Decoded(w, pc, regs)
         IN /\ a \in Insts /\ a.word = w /\ a.PC = pc /\ a.flags = SimDecode(w)
            /\ a.arithResult = FromNat(0) /\ a.memAddress = FromNat(0)
            /\ a.op1Val = IF Opcode(w) \in Rs1Readers THEN ReadRegister(regs, Rs1(w))
                          ELSE FromNat(0)
            /\ a.op2Val = IF Opcode(w) \in Rs2Readers THEN ReadRegister(regs, Rs2(w))
                          ELSE FromNat(0)
            /\ a.nextPC = NextPCOf(a)
<1> DEFINE f == Fetched(w, pc)
           a == Decoded(w, pc, regs)
           d == SimDecode(w)
<1>1. f \in Insts /\ f.word = w /\ f.PC = pc
  BY FetchedType
<1>2. /\ f.op1Val = FromNat(0) /\ f.op2Val = FromNat(0)
      /\ f.arithResult = FromNat(0) /\ f.memAddress = FromNat(0)
  BY Zenon DEF Fetched
<1>3. /\ d.isLegal
      /\ d.readsRs1 <=> Opcode(w) \in Rs1Readers
      /\ d.readsRs2 <=> Opcode(w) \in Rs2Readers
  BY Zenon DEF SimDecode, HasOpcode, LegalWord, Ordinary, Rs2Readers
<1>4. a = SimID(f, regs)
  BY Zenon DEF Decoded
<1> HIDE DEF f, a, d
<1>5. regs \in [Register -> Bits]
  BY DEF RegisterFile
<1>6. /\ a \in Insts /\ a.word = f.word /\ a.PC = f.PC /\ a.flags = SimDecode(f.word)
      /\ a.arithResult = f.arithResult /\ a.memAddress = f.memAddress
      /\ SimDecode(f.word).isLegal =>
           /\ a.op1Val = IF SimDecode(f.word).readsRs1 THEN ReadRegister(regs, Rs1(f.word))
                         ELSE f.op1Val
           /\ a.op2Val = IF SimDecode(f.word).readsRs2 THEN ReadRegister(regs, Rs2(f.word))
                         ELSE f.op2Val
           /\ a.nextPC = NextPCOf(a)
  BY <1>1, <1>4, <1>5, SimIDFields, Zenon
<1>7. SimDecode(f.word) = d
  BY <1>1 DEF d
<1> QED
  BY <1>1, <1>2, <1>3, <1>6, <1>7, Zenon DEF a, d

LEMMA ResultFields ==
  ASSUME NEW w \in Bits, NEW pc \in Bits, NEW regs \in RegisterFile, Ordinary(w)
  PROVE  LET a == Decoded(w, pc, regs)
             c == Result(w, pc, regs)
         IN /\ c.flags.isLegal /\ c.nextPC = NextPCOf(a)
            /\ c.arithResult = IF Opcode(w) \in Computing THEN ArithOf(a, MaskedOp2Val(a))
                               ELSE FromNat(0)
            /\ c.memAddress = IF Opcode(w) = OP_LOAD THEN Add(a.op1Val, ImmI(w))
                              ELSE IF Opcode(w) = OP_STORE THEN Add(a.op1Val, ImmS(w))
                              ELSE FromNat(0)
<1> DEFINE a == Decoded(w, pc, regs)
           b == SimEX(a)
           c == Result(w, pc, regs)
           d == SimDecode(w)
<1>1. /\ d.isLegal
      /\ d.doesArithLogic <=> Opcode(w) \in Computing
      /\ d.readsMem <=> Opcode(w) = OP_LOAD
      /\ d.writesMem <=> Opcode(w) = OP_STORE
  <2>1. \A ops : HasOpcode(w, ops) <=> Opcode(w) \in ops
    BY Zenon DEF HasOpcode, Ordinary
  <2>2. /\ d.isLegal <=> LegalWord(w)
        /\ d.doesArithLogic <=> HasOpcode(w, Computing)
        /\ d.readsMem <=> HasOpcode(w, {OP_LOAD})
        /\ d.writesMem <=> HasOpcode(w, {OP_STORE})
    BY Zenon DEF SimDecode, Computing
  <2>3. LegalWord(w)
    BY DEF LegalWord, Ordinary
  <2> HIDE DEF d
  <2> QED
    BY <2>1, <2>2, <2>3, Zenon
<1>2. /\ a \in Insts /\ a.word = w /\ a.PC = pc /\ a.flags = d /\ a.nextPC = NextPCOf(a)
      /\ a.arithResult = FromNat(0) /\ a.memAddress = FromNat(0)
  <2>1. /\ Decoded(w, pc, regs) \in Insts /\ Decoded(w, pc, regs).word = w
        /\ Decoded(w, pc, regs).PC = pc /\ Decoded(w, pc, regs).flags = SimDecode(w)
        /\ Decoded(w, pc, regs).nextPC = NextPCOf(Decoded(w, pc, regs))
        /\ Decoded(w, pc, regs).arithResult = FromNat(0)
        /\ Decoded(w, pc, regs).memAddress = FromNat(0)
    BY DecodedFields
  <2> QED
    BY <2>1, Zenon
<1>3. c = SimMEM(b) /\ b = SimEX(a)
  BY Zenon DEF Result
<1> HIDE DEF a, b, c, d
<1>4. /\ b \in Insts /\ b.word = a.word /\ b.flags = a.flags
      /\ b.op1Val = a.op1Val /\ b.nextPC = a.nextPC /\ b.memAddress = a.memAddress
      /\ b.arithResult = IF a.flags.isLegal /\ a.flags.doesArithLogic
                           THEN ArithOf(a, MaskedOp2Val(a)) ELSE a.arithResult
  BY <1>2, <1>3, SimEXFields, Zenon
<1>5. /\ c.flags = b.flags /\ c.nextPC = b.nextPC /\ c.arithResult = b.arithResult
      /\ c.memAddress = IF b.flags.isLegal THEN AddressOf(b) ELSE b.memAddress
  BY <1>3, <1>4, SimMEMFields, Zenon
<1>6. AddressOf(b) = IF d.readsMem THEN Add(a.op1Val, ImmI(w))
                     ELSE IF d.writesMem THEN Add(a.op1Val, ImmS(w)) ELSE FromNat(0)
  BY <1>2, <1>4, Zenon DEF AddressOf
<1> QED
  BY <1>1, <1>2, <1>4, <1>5, <1>6, Zenon DEF a, c

-----------------------------------------------------------------------------
(* A word that has what a statement says in the fields the statement's     *)
(* meaning depends on, does what the statement means.                      *)

Encodes(w, s) ==
  /\ s.name \in StatementNames /\ s.imm \in Bits
  /\ Opcode(w) = OpcodeOf(s)
  /\ Format(s) \notin {"U", "J"} /\ Body(s) # "jalr" => Funct3(w) = Funct3Of(s)
  /\ Format(s) = "R" /\ Body(s) \in {"add", "sub"} =>
       (Funct7(w) = FUNCT7_SUB <=> Body(s) = "sub")
  /\ Body(s) \in {"srl", "sra"} => (ArithmeticShift(w) <=> Body(s) = "sra")
  /\ Format(s) \notin {"U", "J"} => Rs1(w) = s.rs1
  /\ Format(s) \in {"R", "S", "B"} => Rs2(w) = s.rs2
  /\ Format(s) = "I" => ImmI(w) = s.imm
  /\ Format(s) = "S" => ImmS(w) = s.imm
  /\ Format(s) = "B" => ImmB(w) = s.imm
  /\ Format(s) = "U" => ImmU(w) = s.imm
  /\ Format(s) = "J" => ImmJ(w) = s.imm
  /\ Format(s) = "shift" =>
       \A i \in 0..(IF Narrow(s) THEN 4 ELSE 5) : ImmI(w)[i] = s.imm[i]

MeansIt(w, s, pc, regs) ==
  LET c == Result(w, pc, regs)
      meaning == Meaning(s, pc, regs)
  IN /\ c.flags.isLegal
     /\ c.arithResult = meaning.result
     /\ c.nextPC = meaning.nextPC
     /\ c.memAddress = meaning.address

LEMMA MeaningOf ==
  ASSUME NEW s, NEW pc, NEW regs
  PROVE  LET x == ReadRegister(regs, s.rs1)
             r == ReadRegister(regs, s.rs2)
             next == Sum(pc, FromNat(4))
             meaning == Meaning(s, pc, regs)
         IN /\ meaning.result =
                 IF s.name[1] # "" THEN FromNat(0)
                 ELSE IF Body(s) = "lui" THEN s.imm
                 ELSE IF Body(s) = "auipc" THEN Sum(pc, s.imm)
                 ELSE IF Body(s) \in {"jal", "jalr"} THEN next
                 ELSE Computes(s, x, IF Format(s) = "R" THEN r ELSE s.imm)
            /\ meaning.address = IF s.name[1] \in {"l", "s"} THEN Sum(x, s.imm) ELSE FromNat(0)
            /\ meaning.nextPC =
                 IF Body(s) = "jalr" THEN [Sum(x, s.imm) EXCEPT ![0] = 0]
                 ELSE IF Body(s) = "jal" \/ (s.name[1] = "b" /\ Holds(Body(s), x, r))
                   THEN Sum(pc, s.imm)
                 ELSE next
BY Zenon DEF Meaning, ReadRegister

LEMMA OperandWords ==
  ASSUME NEW w \in Bits, NEW regs \in RegisterFile
  PROVE  /\ ReadRegister(regs, Rs1(w)) \in Bits /\ ReadRegister(regs, Rs2(w)) \in Bits
         /\ FromNat(0) \in Bits /\ FromNat(4) \in Bits
BY FromNatType, RegisterFields DEF ReadRegister, RegisterFile

LEMMA DistinctOpcodes ==
  /\ \A op \in RegisterArith \cup ImmediateArith :
       /\ op \notin {OP_LOAD, OP_STORE, OP_BRANCH, OP_JAL, OP_JALR, OP_LUI, OP_AUIPC}
       /\ op \in Computing /\ op \in Rs1Readers
  /\ OP_INT \in RegisterArith /\ OP_INTW \in RegisterArith
  /\ OP_INTIMM \in ImmediateArith /\ OP_INTIMMW \in ImmediateArith
  /\ \A op \in RegisterArith : op \in Rs2Readers /\ op \notin ImmediateArith
  /\ OP_INTW # OP_INT /\ OP_INTIMM # OP_INT /\ OP_INTIMM # OP_INTW
  /\ OP_INTIMMW # OP_INT /\ OP_INTIMMW # OP_INTW /\ OP_INTIMMW # OP_INTIMM
BY DEF RegisterArith, ImmediateArith, Computing, Rs1Readers, Rs2Readers,
       OP_INT, OP_INTW, OP_INTIMM, OP_INTIMMW, OP_LOAD, OP_STORE, OP_BRANCH,
       OP_LUI, OP_AUIPC, OP_JAL, OP_JALR

(* A register or immediate operation: what is left is the result.          *)
LEMMA ComputingMeans ==
  ASSUME NEW w \in Bits, NEW s, NEW pc \in Bits, NEW regs \in RegisterFile,
         Ordinary(w), Opcode(w) \in RegisterArith \cup ImmediateArith,
         s.name[1] = "", Body(s) \notin SpecialBodies,
         NEW a, a = Decoded(w, pc, regs),
         ArithOf(a, MaskedOp2Val(a)) =
              Computes(s, ReadRegister(regs, s.rs1),
                       IF Format(s) = "R" THEN ReadRegister(regs, s.rs2) ELSE s.imm)
  PROVE  MeansIt(w, s, pc, regs)
<1> DEFINE c == Result(w, pc, regs)
           meaning == Meaning(s, pc, regs)
<1>1. a.word = w /\ a.PC = pc
  BY DecodedFields
<1>2. /\ c.flags.isLegal /\ c.nextPC = NextPCOf(a)
      /\ c.arithResult = IF Opcode(w) \in Computing THEN ArithOf(a, MaskedOp2Val(a))
                         ELSE FromNat(0)
      /\ c.memAddress = IF Opcode(w) = OP_LOAD THEN Add(a.op1Val, ImmI(w))
                        ELSE IF Opcode(w) = OP_STORE THEN Add(a.op1Val, ImmS(w))
                        ELSE FromNat(0)
  BY ResultFields, Zenon
<1>3. Sum(pc, FromNat(4)) = Add(pc, FromNat(4))
  BY SumIsAdd, FromNatType
<1>4. /\ Opcode(w) # OP_LOAD /\ Opcode(w) # OP_STORE /\ Opcode(w) # OP_BRANCH
      /\ Opcode(w) # OP_JAL /\ Opcode(w) # OP_JALR /\ Opcode(w) \in Computing
  BY DistinctOpcodes, Zenon
<1>5. NextPCOf(a) = Add(pc, FromNat(4))
  BY <1>1, <1>4, Zenon DEF NextPCOf
<1>6. /\ s.name[1] # "l" /\ s.name[1] # "s" /\ s.name[1] # "b"
      /\ Body(s) # "lui" /\ Body(s) # "auipc" /\ Body(s) # "jal" /\ Body(s) # "jalr"
  BY DEF SpecialBodies
<1>7. /\ meaning.result =
           Computes(s, ReadRegister(regs, s.rs1),
                    IF Format(s) = "R" THEN ReadRegister(regs, s.rs2) ELSE s.imm)
      /\ meaning.address = FromNat(0) /\ meaning.nextPC = Sum(pc, FromNat(4))
  BY <1>6, MeaningOf, Zenon
<1>8. ArithOf(a, MaskedOp2Val(a)) = meaning.result
  BY <1>7, Zenon
<1> QED
  BY <1>2, <1>3, <1>4, <1>5, <1>7, <1>8, Zenon DEF MeansIt

LEMMA MaskedLow ==
  ASSUME NEW x
  PROVE  /\ \A i \in 0..5 : Masked(x, 6)[i] = x[i]
         /\ \A i \in 0..4 : Masked(x, 5)[i] = x[i]
BY DEF Masked, Position

LEMMA ShiftFunct3 ==
  /\ \A b \in ShiftBodies :
       ArithmeticFunct3[b] \in {FUNCT3_SLL, FUNCT3_SR} /\ b \in RegisterBodies /\ b # "sub"
  /\ \A b \in RegisterBodies \ ShiftBodies : ArithmeticFunct3[b] \notin {FUNCT3_SLL, FUNCT3_SR}
BY DEF ShiftBodies, RegisterBodies, ArithmeticFunct3, FUNCT3_SLL, FUNCT3_SR

IsDecoded(a, w, pc, regs) ==
  /\ a \in Insts /\ a.word = w /\ a.PC = pc
  /\ Opcode(w) \in Rs1Readers => a.op1Val = ReadRegister(regs, Rs1(w))
  /\ Opcode(w) \in Rs2Readers => a.op2Val = ReadRegister(regs, Rs2(w))

LEMMA DecodedIs ==
  ASSUME NEW w \in Bits, NEW pc \in Bits, NEW regs \in RegisterFile, Ordinary(w)
  PROVE  IsDecoded(Decoded(w, pc, regs), w, pc, regs)
BY DecodedFields DEF IsDecoded

(* What simArithLogic makes of an instruction that encodes a statement.    *)

(* add, sub, slt, ..., sra. *)
LEMMA RegisterResult ==
  ASSUME NEW w \in Bits, NEW s, NEW x \in Bits, NEW y \in Bits,
         NEW a \in Insts, a.word = w, a.op1Val = x, a.op2Val = y,
         NEW z, z = MaskedOp2Val(a), NEW body, body = Body(s),
         Encodes(w, s), IsRegister(s)
  PROVE  ArithOf(a, z) = Computes(s, x, y)
<1>1. /\ Format(s) = "R" /\ ~Narrow(s) /\ OpcodeOf(s) = OP_INT
      /\ Funct3Of(s) = ArithmeticFunct3[body] /\ body \notin SpecialBodies
      /\ s.name[1] = "" /\ body \in RegisterBodies
  BY RegisterForm, Zenon DEF IsForm, IsRegister
<1>2. Opcode(w) = OP_INT /\ Opcode(w) \in RegisterArith
  BY <1>1, DistinctOpcodes DEF Encodes
<1>3. Funct3(w) = ArithmeticFunct3[body]
  <2>1. body # "jalr"
    BY <1>1 DEF SpecialBodies
  <2> QED
    BY <1>1, <2>1 DEF Encodes
<1>4. body \in {"add", "sub"} => (Subtracts(w) <=> body = "sub")
  BY <1>1, <1>2 DEF Encodes, Subtracts
<1>5. body \in {"srl", "sra"} => (ArithmeticShift(w) <=> body = "sra")
  BY DEF Encodes
<1>6. z \in Bits
  BY MaskedOp2Type
<1>7. body \in ShiftBodies => \A i \in 0..5 : z[i] = y[i]
  <2>1. ASSUME body \in ShiftBodies
        PROVE  z = Masked(y, 6)
    <3>1. Funct3(w) \in {FUNCT3_SLL, FUNCT3_SR}
      BY <1>3, <2>1, ShiftFunct3
    <3> QED
      BY <1>2, <3>1, Zenon DEF MaskedOp2Val
  <2> QED
    BY <2>1, MaskedLow
<1>8. body \notin ShiftBodies => z = y
  <2>1. ASSUME body \notin ShiftBodies
        PROVE  z = y
    <3>1. Funct3(w) \notin {FUNCT3_SLL, FUNCT3_SR}
      BY <1>1, <1>3, <2>1, ShiftFunct3
    <3> QED
      BY <3>1, Zenon DEF MaskedOp2Val
  <2> QED
    BY <2>1
<1>9. WideSelects(w, body, y, z)
  BY <1>3, <1>4, <1>5, <1>7, <1>8, Zenon DEF WideSelects, Selects
<1>10. WideResult(w, x, z) = WideOperate(body, x, y)
  <2>1. body \in RegisterBodies
    BY <1>1
  <2> QED
    BY <1>6, <1>9, <2>1, WideOperates
<1>11. ArithOf(a, z) = WideResult(w, x, z)
  BY <1>2, Zenon DEF ArithOf
<1>12. Computes(s, x, y) = WideOperate(body, x, y)
  BY <1>1, Zenon DEF Computes, WideOperate
<1> QED
  BY <1>10, <1>11, <1>12

(* addw, subw, sllw, srlw, sraw. *)
LEMMA NarrowRegisterResult ==
  ASSUME NEW w \in Bits, NEW s, NEW x \in Bits, NEW y \in Bits,
         NEW a \in Insts, a.word = w, a.op1Val = x, a.op2Val = y,
         NEW z, z = MaskedOp2Val(a), NEW body, body = Body(s),
         Encodes(w, s), IsNarrowRegister(s)
  PROVE  ArithOf(a, z) = Computes(s, x, y)
<1>1. /\ Format(s) = "R" /\ Narrow(s) /\ OpcodeOf(s) = OP_INTW
      /\ Funct3Of(s) = ArithmeticFunct3[body] /\ body \notin SpecialBodies
      /\ s.name[1] = "" /\ body \in NarrowBodies
  BY NarrowRegisterForm, Zenon DEF IsForm, IsNarrowRegister
<1>2. Opcode(w) = OP_INTW /\ Opcode(w) \in RegisterArith /\ Opcode(w) # OP_INT
      /\ Opcode(w) # OP_INTIMM
  BY <1>1, DistinctOpcodes DEF Encodes
<1>3. Funct3(w) = ArithmeticFunct3[body]
  <2>1. body # "jalr"
    BY <1>1 DEF SpecialBodies
  <2> QED
    BY <1>1, <2>1 DEF Encodes
<1>4. body \in {"add", "sub"} => (Subtracts(w) <=> body = "sub")
  BY <1>1, <1>2 DEF Encodes, Subtracts
<1>5. body \in {"srl", "sra"} => (ArithmeticShift(w) <=> body = "sra")
  BY DEF Encodes
<1>6. z \in Bits
  BY MaskedOp2Type
<1>7. body \in ShiftBodies => \A i \in 0..4 : z[i] = y[i]
  <2>1. ASSUME body \in ShiftBodies
        PROVE  z = Masked(y, 5)
    <3>1. Funct3(w) \in {FUNCT3_SLL, FUNCT3_SR}
      BY <1>3, <2>1, ShiftFunct3
    <3> QED
      BY <1>2, <3>1, Zenon DEF MaskedOp2Val
  <2> QED
    BY <2>1, MaskedLow
<1>8. body \notin ShiftBodies => z = y
  <2>1. ASSUME body \notin ShiftBodies
        PROVE  z = y
    <3>1. body \in RegisterBodies
      BY <1>1, CodeTables
    <3>2. Funct3(w) \notin {FUNCT3_SLL, FUNCT3_SR}
      BY <1>3, <2>1, <3>1, ShiftFunct3
    <3> QED
      BY <3>2, Zenon DEF MaskedOp2Val
  <2> QED
    BY <2>1
<1>9. NarrowSelects(w, body, y, z)
  BY <1>3, <1>4, <1>5, <1>7, <1>8, Zenon DEF NarrowSelects, Selects
<1>10. NarrowResult(w, x, z) = NarrowOperate(body, x, y)
  <2>1. body \in NarrowBodies
    BY <1>1
  <2> QED
    BY <1>6, <1>9, <2>1, NarrowOperates
<1>11. ArithOf(a, z) = NarrowResult(w, x, z)
  BY <1>2, Zenon DEF ArithOf
<1>12. Computes(s, x, y) = NarrowOperate(body, x, y)
  BY <1>1, Zenon DEF Computes, NarrowOperate
<1> QED
  BY <1>10, <1>11, <1>12

(* addi, slti, ..., srai: whatever y is, the second operand is the immediate. *)
LEMMA ImmediateResult ==
  ASSUME NEW w \in Bits, NEW s, NEW x \in Bits, NEW a \in Insts, a.word = w, a.op1Val = x,
         NEW z, NEW body, body = Body(s),
         Encodes(w, s), IsImmediate(s)
  PROVE  ArithOf(a, z) = Computes(s, x, s.imm)
<1> DEFINE m == ImmI(w)
           y == s.imm
<1>1. /\ Format(s) = (IF body \in ShiftBodies THEN "shift" ELSE "I")
      /\ ~Narrow(s) /\ OpcodeOf(s) = OP_INTIMM
      /\ Funct3Of(s) = ArithmeticFunct3[body] /\ body \notin SpecialBodies
      /\ s.name[1] = ""
  BY ImmediateForm, Zenon DEF IsForm, IsImmediate
<1>2. body \in RegisterBodies /\ body # "sub"
  BY DEF IsForm, IsImmediate
<1>3. Opcode(w) = OP_INTIMM /\ Opcode(w) # OP_INT /\ Opcode(w) \notin RegisterArith
  BY <1>1, DistinctOpcodes DEF Encodes
<1>4. Funct3(w) = ArithmeticFunct3[body]
  <2>1. body # "jalr"
    BY <1>1 DEF SpecialBodies
  <2> QED
    BY <1>1, <2>1 DEF Encodes
<1>5. body \in {"add", "sub"} => (Subtracts(w) <=> body = "sub")
  BY <1>2, <1>3 DEF Subtracts
<1>6. body \in {"srl", "sra"} => (ArithmeticShift(w) <=> body = "sra")
  BY DEF Encodes
<1>7. m \in Bits /\ y \in Bits
  BY ImmediateTypes DEF Encodes
<1>8. body \in ShiftBodies => \A i \in 0..5 : m[i] = y[i]
  BY <1>1 DEF Encodes
<1>9. body \notin ShiftBodies => m = y
  BY <1>1 DEF Encodes
<1> SUFFICES ASSUME NEW n \in Bits, n = m, NEW v \in Bits, v = y
             PROVE  ArithOf(a, z) = Computes(s, x, v)
  BY <1>7
<1>10. WideSelects(w, body, v, n)
  <2> HIDE DEF m, y
  <2> QED
    BY <1>4, <1>5, <1>6, <1>8, <1>9, Zenon DEF WideSelects, Selects
<1>11. WideResult(w, x, n) = WideOperate(body, x, v)
  BY <1>2, <1>10, WideOperates
<1>12. ArithOf(a, z) = WideResult(w, x, n)
  BY <1>3, Zenon DEF ArithOf
<1>13. Computes(s, x, v) = WideOperate(body, x, v)
  BY <1>1, Zenon DEF Computes, WideOperate
<1> QED
  BY <1>11, <1>12, <1>13

(* addiw, slliw, srliw, sraiw. *)
LEMMA NarrowImmediateResult ==
  ASSUME NEW w \in Bits, NEW s, NEW x \in Bits, NEW a \in Insts, a.word = w, a.op1Val = x,
         NEW z, NEW body, body = Body(s),
         Encodes(w, s), IsNarrowImmediate(s)
  PROVE  ArithOf(a, z) = Computes(s, x, s.imm)
<1> DEFINE m == ImmI(w)
           y == s.imm
<1>1. /\ Format(s) = (IF body \in ShiftBodies THEN "shift" ELSE "I")
      /\ Narrow(s) /\ OpcodeOf(s) = OP_INTIMMW
      /\ Funct3Of(s) = ArithmeticFunct3[body] /\ body \notin SpecialBodies
      /\ s.name[1] = ""
  BY NarrowImmediateForm, Zenon DEF IsForm, IsNarrowImmediate
<1>2. body \in NarrowBodies /\ body # "sub"
  BY DEF IsForm, IsNarrowImmediate
<1>3. /\ Opcode(w) = OP_INTIMMW /\ Opcode(w) # OP_INT /\ Opcode(w) # OP_INTIMM
      /\ Opcode(w) # OP_INTW /\ Opcode(w) \notin RegisterArith
  BY <1>1, DistinctOpcodes DEF Encodes
<1>4. Funct3(w) = ArithmeticFunct3[body]
  <2>1. body # "jalr"
    BY <1>1 DEF SpecialBodies
  <2> QED
    BY <1>1, <2>1 DEF Encodes
<1>5. body \in {"add", "sub"} => (Subtracts(w) <=> body = "sub")
  BY <1>2, <1>3 DEF Subtracts
<1>6. body \in {"srl", "sra"} => (ArithmeticShift(w) <=> body = "sra")
  BY DEF Encodes
<1>7. m \in Bits /\ y \in Bits
  BY ImmediateTypes DEF Encodes
<1>8. body \in ShiftBodies => \A i \in 0..4 : m[i] = y[i]
  BY <1>1 DEF Encodes
<1>9. body \notin ShiftBodies => m = y
  BY <1>1 DEF Encodes
<1> SUFFICES ASSUME NEW n \in Bits, n = m, NEW v \in Bits, v = y
             PROVE  ArithOf(a, z) = Computes(s, x, v)
  BY <1>7
<1>10. NarrowSelects(w, body, v, n)
  <2> HIDE DEF m, y
  <2> QED
    BY <1>4, <1>5, <1>6, <1>8, <1>9, Zenon DEF NarrowSelects, Selects
<1>11. NarrowResult(w, x, n) = NarrowOperate(body, x, v)
  BY <1>2, <1>10, NarrowOperates
<1>12. ArithOf(a, z) = NarrowResult(w, x, n)
  BY <1>3, Zenon DEF ArithOf
<1>13. Computes(s, x, v) = NarrowOperate(body, x, v)
  BY <1>1, Zenon DEF Computes, NarrowOperate
<1> QED
  BY <1>11, <1>12, <1>13

LEMMA MoreOpcodes ==
  /\ OP_LOAD \in Rs1Readers /\ OP_STORE \in Rs1Readers /\ OP_BRANCH \in Rs1Readers
  /\ OP_JALR \in Rs1Readers /\ OP_STORE \in Rs2Readers /\ OP_BRANCH \in Rs2Readers
  /\ OP_LOAD \notin Computing /\ OP_STORE \notin Computing /\ OP_BRANCH \notin Computing
  /\ OP_LUI \in Computing /\ OP_AUIPC \in Computing /\ OP_JAL \in Computing
  /\ OP_JALR \in Computing
  /\ OP_LOAD \notin {OP_STORE, OP_BRANCH, OP_JAL, OP_JALR}
  /\ OP_STORE \notin {OP_LOAD, OP_BRANCH, OP_JAL, OP_JALR}
  /\ OP_BRANCH \notin {OP_LOAD, OP_STORE, OP_JAL, OP_JALR}
  /\ OP_LUI \notin {OP_LOAD, OP_STORE, OP_BRANCH, OP_JAL, OP_JALR, OP_INT, OP_INTW,
                    OP_INTIMM, OP_INTIMMW, OP_AUIPC}
  /\ OP_AUIPC \notin {OP_LOAD, OP_STORE, OP_BRANCH, OP_JAL, OP_JALR, OP_INT, OP_INTW,
                      OP_INTIMM, OP_INTIMMW, OP_LUI}
  /\ OP_JAL \notin {OP_LOAD, OP_STORE, OP_BRANCH, OP_JALR, OP_INT, OP_INTW,
                    OP_INTIMM, OP_INTIMMW, OP_LUI, OP_AUIPC}
  /\ OP_JALR \notin {OP_LOAD, OP_STORE, OP_BRANCH, OP_JAL, OP_INT, OP_INTW,
                     OP_INTIMM, OP_INTIMMW, OP_LUI, OP_AUIPC}
BY DEF RegisterArith, ImmediateArith, Computing, Rs1Readers, Rs2Readers,
       OP_INT, OP_INTW, OP_INTIMM, OP_INTIMMW, OP_LOAD, OP_STORE, OP_BRANCH,
       OP_LUI, OP_AUIPC, OP_JAL, OP_JALR

(* The stages of an accepted word in one place, for the other forms.       *)
Steps(a, c, w, pc, regs) ==
  /\ IsDecoded(a, w, pc, regs)
  /\ c.flags.isLegal /\ c.nextPC = NextPCOf(a)
  /\ c.arithResult = IF Opcode(w) \in Computing THEN ArithOf(a, MaskedOp2Val(a))
                     ELSE FromNat(0)
  /\ c.memAddress = IF Opcode(w) = OP_LOAD THEN Add(a.op1Val, ImmI(w))
                    ELSE IF Opcode(w) = OP_STORE THEN Add(a.op1Val, ImmS(w))
                    ELSE FromNat(0)

LEMMA StepsOf ==
  ASSUME NEW w \in Bits, NEW pc \in Bits, NEW regs \in RegisterFile, Ordinary(w)
  PROVE  Steps(Decoded(w, pc, regs), Result(w, pc, regs), w, pc, regs)
<1>1. IsDecoded(Decoded(w, pc, regs), w, pc, regs)
  BY DecodedIs
<1>2. LET a == Decoded(w, pc, regs)
          c == Result(w, pc, regs)
      IN /\ c.flags.isLegal /\ c.nextPC = NextPCOf(a)
         /\ c.arithResult = IF Opcode(w) \in Computing THEN ArithOf(a, MaskedOp2Val(a))
                            ELSE FromNat(0)
         /\ c.memAddress = IF Opcode(w) = OP_LOAD THEN Add(a.op1Val, ImmI(w))
                           ELSE IF Opcode(w) = OP_STORE THEN Add(a.op1Val, ImmS(w))
                           ELSE FromNat(0)
  BY ResultFields, Zenon
<1> QED
  BY <1>1, <1>2, Zenon DEF Steps

MeansFields(c, s, pc, regs) ==
  /\ c.flags.isLegal
  /\ c.arithResult = Meaning(s, pc, regs).result
  /\ c.nextPC = Meaning(s, pc, regs).nextPC
  /\ c.memAddress = Meaning(s, pc, regs).address

LEMMA LoadMeans ==
  ASSUME NEW w \in Bits, NEW s, NEW pc \in Bits, NEW regs \in RegisterFile,
         NEW a, NEW c, Steps(a, c, w, pc, regs), Encodes(w, s), IsLoad(s)
  PROVE  MeansFields(c, s, pc, regs)
<1> DEFINE x == ReadRegister(regs, s.rs1)
<1>1. /\ Format(s) = "I" /\ OpcodeOf(s) = OP_LOAD /\ s.name[1] = "l"
      /\ Body(s) # "jal" /\ Body(s) # "jalr"
  <2>1. Body(s) \notin SpecialBodies /\ s.name[1] = "l"
    BY LoadForm DEF IsForm, IsLoad
  <2> QED
    BY <2>1, LoadForm DEF SpecialBodies
<1>2. /\ Opcode(w) = OP_LOAD /\ Rs1(w) = s.rs1 /\ ImmI(w) = s.imm /\ s.imm \in Bits
  BY <1>1 DEF Encodes
<1>3. /\ Opcode(w) \in Rs1Readers /\ Opcode(w) \notin Computing /\ Opcode(w) # OP_BRANCH
      /\ Opcode(w) # OP_JAL /\ Opcode(w) # OP_JALR
  BY <1>2, MoreOpcodes
<1>4. a.word = w /\ a.PC = pc /\ a.op1Val = x
  BY <1>2, <1>3, Zenon DEF Steps, IsDecoded
<1>5. x \in Bits /\ FromNat(4) \in Bits
  BY <1>2, OperandWords
<1>6. Sum(pc, FromNat(4)) = Add(pc, FromNat(4)) /\ Sum(x, s.imm) = Add(x, s.imm)
  BY <1>2, <1>5, SumIsAdd
<1>7. NextPCOf(a) = Add(pc, FromNat(4))
  BY <1>3, <1>4, Zenon DEF NextPCOf
<1>8. /\ Meaning(s, pc, regs).result = FromNat(0)
      /\ Meaning(s, pc, regs).address = Sum(x, s.imm)
      /\ Meaning(s, pc, regs).nextPC = Sum(pc, FromNat(4))
  <2>1. "l" # "" /\ "l" # "b"
    OBVIOUS
  <2> QED
    BY <1>1, <2>1, MeaningOf, Zenon
<1> QED
  BY <1>2, <1>3, <1>4, <1>6, <1>7, <1>8, Zenon DEF MeansFields, Steps

LEMMA StoreMeans ==
  ASSUME NEW w \in Bits, NEW s, NEW pc \in Bits, NEW regs \in RegisterFile,
         NEW a, NEW c, Steps(a, c, w, pc, regs), Encodes(w, s), IsStore(s)
  PROVE  MeansFields(c, s, pc, regs)
<1> DEFINE x == ReadRegister(regs, s.rs1)
<1>1. /\ Format(s) = "S" /\ OpcodeOf(s) = OP_STORE /\ s.name[1] = "s"
      /\ Body(s) # "jal" /\ Body(s) # "jalr"
  <2>1. Body(s) \notin SpecialBodies /\ s.name[1] = "s"
    BY StoreForm DEF IsForm, IsStore
  <2> QED
    BY <2>1, StoreForm DEF SpecialBodies
<1>2. /\ Opcode(w) = OP_STORE /\ Rs1(w) = s.rs1 /\ ImmS(w) = s.imm /\ s.imm \in Bits
  BY <1>1 DEF Encodes
<1>3. /\ Opcode(w) \in Rs1Readers /\ Opcode(w) \notin Computing /\ Opcode(w) # OP_BRANCH
      /\ Opcode(w) # OP_JAL /\ Opcode(w) # OP_JALR /\ Opcode(w) # OP_LOAD
  BY <1>2, MoreOpcodes
<1>4. a.word = w /\ a.PC = pc /\ a.op1Val = x
  BY <1>2, <1>3, Zenon DEF Steps, IsDecoded
<1>5. x \in Bits /\ FromNat(4) \in Bits
  BY <1>2, OperandWords
<1>6. Sum(pc, FromNat(4)) = Add(pc, FromNat(4)) /\ Sum(x, s.imm) = Add(x, s.imm)
  BY <1>2, <1>5, SumIsAdd
<1>7. NextPCOf(a) = Add(pc, FromNat(4))
  BY <1>3, <1>4, Zenon DEF NextPCOf
<1>8. /\ Meaning(s, pc, regs).result = FromNat(0)
      /\ Meaning(s, pc, regs).address = Sum(x, s.imm)
      /\ Meaning(s, pc, regs).nextPC = Sum(pc, FromNat(4))
  <2>1. "s" # "" /\ "s" # "b"
    OBVIOUS
  <2> QED
    BY <1>1, <2>1, MeaningOf, Zenon
<1> QED
  BY <1>2, <1>3, <1>4, <1>6, <1>7, <1>8, Zenon DEF MeansFields, Steps

LEMMA BranchHolds ==
  ASSUME NEW s, IsBranch(s), NEW w, Funct3(w) = ConditionFunct3[Body(s)],
         NEW x \in Bits, NEW y \in Bits, NEW a, a.word = w, a.op1Val = x, a.op2Val = y
  PROVE  BranchTaken(a) <=> Holds(Body(s), x, y)
<1>1. /\ Smaller(x, y, TRUE) <=> LessSigned(x, y)
      /\ Smaller(x, y, FALSE) <=> Less(x, y)
  BY SmallerIsLess, SmallerIsLessSigned
<1>2. BranchTaken(a) <=>
        \/ Funct3(w) = 0 /\ x = y
        \/ Funct3(w) = 1 /\ x # y
        \/ Funct3(w) = 4 /\ LessSigned(x, y)
        \/ Funct3(w) = 5 /\ ~LessSigned(x, y)
        \/ Funct3(w) = 6 /\ Less(x, y)
        \/ Funct3(w) = 7 /\ ~Less(x, y)
  BY Zenon DEF BranchTaken
<1>3. CASE Body(s) = "eq"
  BY <1>2, <1>3 DEF Holds, ConditionFunct3
<1>4. CASE Body(s) = "ne"
  BY <1>2, <1>4 DEF Holds, ConditionFunct3
<1>5. CASE Body(s) = "lt"
  <2>1. Funct3(w) = 4
    BY <1>5 DEF ConditionFunct3
  <2>2. BranchTaken(a) <=> LessSigned(x, y)
    BY <1>2, <2>1
  <2>3. Holds(Body(s), x, y) <=> Smaller(x, y, TRUE)
    BY <1>5, Zenon DEF Holds
  <2> QED
    BY <1>1, <2>2, <2>3, Zenon
<1>6. CASE Body(s) = "ge"
  <2>1. Funct3(w) = 5
    BY <1>6 DEF ConditionFunct3
  <2>2. BranchTaken(a) <=> ~LessSigned(x, y)
    BY <1>2, <2>1
  <2>3. Holds(Body(s), x, y) <=> ~Smaller(x, y, TRUE)
    BY <1>6, Zenon DEF Holds
  <2> QED
    BY <1>1, <2>2, <2>3, Zenon
<1>7. CASE Body(s) = "ltu"
  <2>1. Funct3(w) = 6
    BY <1>7 DEF ConditionFunct3
  <2>2. BranchTaken(a) <=> Less(x, y)
    BY <1>2, <2>1
  <2>3. Holds(Body(s), x, y) <=> Smaller(x, y, FALSE)
    BY <1>7, Zenon DEF Holds
  <2> QED
    BY <1>1, <2>2, <2>3, Zenon
<1>8. CASE Body(s) = "geu"
  <2>1. Funct3(w) = 7
    BY <1>8 DEF ConditionFunct3
  <2>2. BranchTaken(a) <=> ~Less(x, y)
    BY <1>2, <2>1
  <2>3. Holds(Body(s), x, y) <=> ~Smaller(x, y, FALSE)
    BY <1>8, Zenon DEF Holds
  <2> QED
    BY <1>1, <2>2, <2>3, Zenon
<1> QED
  BY <1>3, <1>4, <1>5, <1>6, <1>7, <1>8 DEF IsBranch, IsForm, ConditionBodies

LEMMA BranchMeans ==
  ASSUME NEW w \in Bits, NEW s, NEW pc \in Bits, NEW regs \in RegisterFile,
         NEW a, NEW c, Steps(a, c, w, pc, regs), Encodes(w, s), IsBranch(s)
  PROVE  MeansFields(c, s, pc, regs)
<1> DEFINE x == ReadRegister(regs, s.rs1)
           y == ReadRegister(regs, s.rs2)
<1>1. /\ Format(s) = "B" /\ OpcodeOf(s) = OP_BRANCH /\ s.name[1] = "b"
      /\ Body(s) # "jal" /\ Body(s) # "jalr" /\ Funct3Of(s) = ConditionFunct3[Body(s)]
  <2>1. Body(s) \notin SpecialBodies /\ s.name[1] = "b"
    BY BranchForm DEF IsForm, IsBranch
  <2> QED
    BY <2>1, BranchForm DEF SpecialBodies
<1>2. /\ Opcode(w) = OP_BRANCH /\ Rs1(w) = s.rs1 /\ Rs2(w) = s.rs2
      /\ ImmB(w) = s.imm /\ s.imm \in Bits /\ Funct3(w) = ConditionFunct3[Body(s)]
  BY <1>1 DEF Encodes
<1>3. /\ Opcode(w) \in Rs1Readers /\ Opcode(w) \in Rs2Readers /\ Opcode(w) \notin Computing
      /\ Opcode(w) # OP_JAL /\ Opcode(w) # OP_JALR /\ Opcode(w) # OP_LOAD
      /\ Opcode(w) # OP_STORE
  BY <1>2, MoreOpcodes
<1>4. a.word = w /\ a.PC = pc /\ a.op1Val = x /\ a.op2Val = y
  BY <1>2, <1>3, Zenon DEF Steps, IsDecoded
<1>5. x \in Bits /\ y \in Bits /\ FromNat(4) \in Bits
  BY <1>2, OperandWords
<1>6. Sum(pc, FromNat(4)) = Add(pc, FromNat(4)) /\ Sum(pc, s.imm) = Add(pc, s.imm)
  BY <1>2, <1>5, SumIsAdd
<1> HIDE DEF x, y
<1>7. BranchTaken(a) <=> Holds(Body(s), x, y)
  BY <1>2, <1>4, <1>5, BranchHolds
<1>8. NextPCOf(a) = IF BranchTaken(a) THEN Add(pc, s.imm) ELSE Add(pc, FromNat(4))
  BY <1>2, <1>3, <1>4, Zenon DEF NextPCOf
<1>9. /\ Meaning(s, pc, regs).result = FromNat(0)
      /\ Meaning(s, pc, regs).address = FromNat(0)
      /\ Meaning(s, pc, regs).nextPC =
           IF Holds(Body(s), x, y) THEN Sum(pc, s.imm) ELSE Sum(pc, FromNat(4))
  <2>1. "b" # "" /\ "b" # "l" /\ "b" # "s"
    OBVIOUS
  <2> QED
    BY <1>1, <2>1, MeaningOf, Zenon DEF x, y
<1>10. c.nextPC = Meaning(s, pc, regs).nextPC
  BY <1>6, <1>7, <1>8, <1>9, Zenon DEF Steps
<1> QED
  BY <1>3, <1>9, <1>10, Zenon DEF MeansFields, Steps

LEMMA UpperMeans ==
  ASSUME NEW w \in Bits, NEW s, NEW pc \in Bits, NEW regs \in RegisterFile,
         NEW a, NEW c, Steps(a, c, w, pc, regs), Encodes(w, s), IsSpecial(s),
         Body(s) = "lui" \/ Body(s) = "auipc"
  PROVE  MeansFields(c, s, pc, regs)
<1>1. /\ Format(s) = "U" /\ s.name[1] = "" /\ Body(s) # "jal" /\ Body(s) # "jalr"
      /\ OpcodeOf(s) = IF Body(s) = "lui" THEN OP_LUI ELSE OP_AUIPC
  <2>1. s.name[1] = ""
    BY DEF IsForm, IsSpecial
  <2> QED
    BY <2>1, SpecialForm
<1>2. /\ Opcode(w) = IF Body(s) = "lui" THEN OP_LUI ELSE OP_AUIPC
      /\ ImmU(w) = s.imm /\ s.imm \in Bits
  BY <1>1 DEF Encodes
<1>3. /\ Opcode(w) \in Computing
      /\ Opcode(w) \notin {OP_LOAD, OP_STORE, OP_BRANCH, OP_JAL, OP_JALR, OP_INT, OP_INTW,
                           OP_INTIMM, OP_INTIMMW}
      /\ Body(s) = "auipc" => Opcode(w) = OP_AUIPC /\ Opcode(w) # OP_LUI
  BY <1>2, MoreOpcodes
<1>4. a.word = w /\ a.PC = pc
  BY Zenon DEF Steps, IsDecoded
<1>5. FromNat(4) \in Bits
  BY OperandWords
<1>6. Sum(pc, FromNat(4)) = Add(pc, FromNat(4)) /\ Sum(pc, s.imm) = Add(pc, s.imm)
  BY <1>2, <1>5, SumIsAdd
<1>7. NextPCOf(a) = Add(pc, FromNat(4))
  BY <1>3, <1>4 DEF NextPCOf
<1>8. ArithOf(a, MaskedOp2Val(a)) = IF Body(s) = "lui" THEN s.imm ELSE Add(pc, s.imm)
  <2>1. CASE Body(s) = "lui"
    BY <1>2, <1>3, <1>4, <2>1 DEF ArithOf
  <2>2. CASE Body(s) # "lui"
    BY <1>2, <1>3, <1>4, <2>2 DEF ArithOf
  <2> QED
    BY <2>1, <2>2
<1>9. /\ Meaning(s, pc, regs).result = IF Body(s) = "lui" THEN s.imm ELSE Sum(pc, s.imm)
      /\ Meaning(s, pc, regs).address = FromNat(0)
      /\ Meaning(s, pc, regs).nextPC = Sum(pc, FromNat(4))
  <2>1. "" # "l" /\ "" # "s" /\ "" # "b"
    OBVIOUS
  <2> QED
    BY <1>1, <2>1, MeaningOf, Zenon
<1>10. Opcode(w) # OP_LOAD /\ Opcode(w) # OP_STORE
  BY <1>3
<1> QED
  BY <1>3, <1>6, <1>7, <1>8, <1>9, <1>10, Zenon DEF MeansFields, Steps

LEMMA JumpMeans ==
  ASSUME NEW w \in Bits, NEW s, NEW pc \in Bits, NEW regs \in RegisterFile,
         NEW a, NEW c, Steps(a, c, w, pc, regs), Encodes(w, s), IsSpecial(s),
         Body(s) = "jal"
  PROVE  MeansFields(c, s, pc, regs)
<1>1. Format(s) = "J" /\ s.name[1] = "" /\ OpcodeOf(s) = OP_JAL
  <2>1. s.name[1] = ""
    BY DEF IsForm, IsSpecial
  <2> QED
    BY <2>1, SpecialForm
<1>2. Opcode(w) = OP_JAL /\ ImmJ(w) = s.imm /\ s.imm \in Bits
  BY <1>1 DEF Encodes
<1>3. /\ Opcode(w) \in Computing
      /\ Opcode(w) \notin {OP_LOAD, OP_STORE, OP_BRANCH, OP_JALR, OP_INT, OP_INTW,
                           OP_INTIMM, OP_INTIMMW, OP_LUI, OP_AUIPC}
  BY <1>2, MoreOpcodes
<1>4. a.word = w /\ a.PC = pc
  BY Zenon DEF Steps, IsDecoded
<1>5. FromNat(4) \in Bits
  BY OperandWords
<1>6. Sum(pc, FromNat(4)) = Add(pc, FromNat(4)) /\ Sum(pc, s.imm) = Add(pc, s.imm)
  BY <1>2, <1>5, SumIsAdd
<1>7. NextPCOf(a) = Add(pc, s.imm)
  BY <1>2, <1>3, <1>4 DEF NextPCOf
<1>8. ArithOf(a, MaskedOp2Val(a)) = Add(pc, FromNat(4))
  BY <1>3, <1>4 DEF ArithOf
<1>9. /\ Meaning(s, pc, regs).result = Sum(pc, FromNat(4))
      /\ Meaning(s, pc, regs).address = FromNat(0)
      /\ Meaning(s, pc, regs).nextPC = Sum(pc, s.imm)
  <2>1. "" # "l" /\ "" # "s" /\ "" # "b" /\ "jal" # "lui" /\ "jal" # "auipc" /\ "jal" # "jalr"
    OBVIOUS
  <2> QED
    BY <1>1, <2>1, MeaningOf, Zenon
<1>10. Opcode(w) # OP_LOAD /\ Opcode(w) # OP_STORE
  BY <1>3
<1> QED
  BY <1>3, <1>6, <1>7, <1>8, <1>9, <1>10, Zenon DEF MeansFields, Steps

LEMMA IndirectJumpMeans ==
  ASSUME NEW w \in Bits, NEW s, NEW pc \in Bits, NEW regs \in RegisterFile,
         NEW a, NEW c, Steps(a, c, w, pc, regs), Encodes(w, s), IsSpecial(s),
         Body(s) = "jalr"
  PROVE  MeansFields(c, s, pc, regs)
<1> DEFINE x == ReadRegister(regs, s.rs1)
<1>1. Format(s) = "I" /\ s.name[1] = "" /\ OpcodeOf(s) = OP_JALR
  <2>1. s.name[1] = ""
    BY DEF IsForm, IsSpecial
  <2> QED
    BY <2>1, SpecialForm
<1>2. Opcode(w) = OP_JALR /\ Rs1(w) = s.rs1 /\ ImmI(w) = s.imm /\ s.imm \in Bits
  BY <1>1 DEF Encodes
<1>3. /\ Opcode(w) \in Computing /\ Opcode(w) \in Rs1Readers
      /\ Opcode(w) \notin {OP_LOAD, OP_STORE, OP_BRANCH, OP_JAL, OP_INT, OP_INTW,
                           OP_INTIMM, OP_INTIMMW, OP_LUI, OP_AUIPC}
  BY <1>2, MoreOpcodes
<1>4. a.word = w /\ a.PC = pc /\ a.op1Val = x
  BY <1>2, <1>3, Zenon DEF Steps, IsDecoded
<1>5. x \in Bits /\ FromNat(4) \in Bits
  BY <1>2, OperandWords
<1>6. Sum(pc, FromNat(4)) = Add(pc, FromNat(4)) /\ Sum(x, s.imm) = Add(x, s.imm)
  BY <1>2, <1>5, SumIsAdd
<1>7. NextPCOf(a) = [Add(x, s.imm) EXCEPT ![0] = 0]
  BY <1>2, <1>4, Zenon DEF NextPCOf
<1>8. ArithOf(a, MaskedOp2Val(a)) = Add(pc, FromNat(4))
  BY <1>3, <1>4 DEF ArithOf
<1>9. /\ Meaning(s, pc, regs).result = Sum(pc, FromNat(4))
      /\ Meaning(s, pc, regs).address = FromNat(0)
      /\ Meaning(s, pc, regs).nextPC = [Sum(x, s.imm) EXCEPT ![0] = 0]
  <2>1. "" # "l" /\ "" # "s" /\ "jalr" # "lui" /\ "jalr" # "auipc"
    OBVIOUS
  <2>2. Meaning(s, pc, regs).result = Sum(pc, FromNat(4))
    BY <1>1, <2>1, MeaningOf, Zenon
  <2>3. Meaning(s, pc, regs).address = FromNat(0)
    BY <1>1, <2>1, MeaningOf, Zenon
  <2>4. Meaning(s, pc, regs).nextPC = [Sum(x, s.imm) EXCEPT ![0] = 0]
    <3>1. Meaning(s, pc, regs).nextPC =
            IF Body(s) = "jalr" THEN [Sum(x, s.imm) EXCEPT ![0] = 0]
            ELSE IF Body(s) = "jal"
                    \/ (s.name[1] = "b" /\ Holds(Body(s), x, ReadRegister(regs, s.rs2)))
              THEN Sum(pc, s.imm)
            ELSE Sum(pc, FromNat(4))
      BY MeaningOf, Zenon
    <3> QED
      BY <3>1
  <2> QED
    BY <2>2, <2>3, <2>4
<1>10. Opcode(w) # OP_LOAD /\ Opcode(w) # OP_STORE
  BY <1>3
<1> QED
  BY <1>3, <1>6, <1>7, <1>8, <1>9, <1>10, Zenon DEF MeansFields, Steps

LEMMA RegisterMeans ==
  ASSUME NEW w \in Bits, NEW s, NEW pc \in Bits, NEW regs \in RegisterFile,
         Ordinary(w), Encodes(w, s), IsRegister(s)
  PROVE  MeansIt(w, s, pc, regs)
<1>1. /\ Format(s) = "R" /\ OpcodeOf(s) = OP_INT /\ s.name[1] = ""
      /\ Body(s) \notin SpecialBodies
  <2>1. s.name[1] = ""
    BY DEF IsForm, IsRegister
  <2> QED
    BY <2>1, RegisterForm
<1>2. /\ Opcode(w) = OP_INT /\ Rs1(w) = s.rs1 /\ Rs2(w) = s.rs2
      /\ Opcode(w) \in RegisterArith
  BY <1>1, DistinctOpcodes DEF Encodes
<1>3. Opcode(w) \in RegisterArith \cup ImmediateArith
  BY <1>2
<1>4. Opcode(w) \in Rs1Readers /\ Opcode(w) \in Rs2Readers
  BY <1>2, <1>3, DistinctOpcodes
<1> DEFINE a == Decoded(w, pc, regs)
           z == MaskedOp2Val(a)
           x == ReadRegister(regs, s.rs1)
           y == ReadRegister(regs, s.rs2)
<1>5. x \in Bits /\ y \in Bits
  BY <1>2, OperandWords
<1>6. a \in Insts /\ a.word = w /\ a.op1Val = x /\ a.op2Val = y
  <2>1. IsDecoded(a, w, pc, regs)
    BY DecodedIs
  <2> QED
    BY <1>2, <1>4, <2>1, Zenon DEF IsDecoded
<1>7. ArithOf(a, z) = Computes(s, x, y)
  <2>1. z = MaskedOp2Val(a)
    OBVIOUS
  <2> HIDE DEF a, x, y, z
  <2> QED
    BY <1>5, <1>6, <2>1, RegisterResult
<1>8. ArithOf(a, MaskedOp2Val(a)) = Computes(s, x, IF Format(s) = "R" THEN y ELSE s.imm)
  <2>1. z = MaskedOp2Val(a)
    OBVIOUS
  <2>2. Format(s) = "R"
    BY <1>1
  <2> HIDE DEF a, x, y, z
  <2> QED
    BY <1>7, <2>1, <2>2, Zenon
<1> QED
  BY <1>1, <1>3, <1>8, ComputingMeans

LEMMA NarrowRegisterMeans ==
  ASSUME NEW w \in Bits, NEW s, NEW pc \in Bits, NEW regs \in RegisterFile,
         Ordinary(w), Encodes(w, s), IsNarrowRegister(s)
  PROVE  MeansIt(w, s, pc, regs)
<1>1. /\ Format(s) = "R" /\ OpcodeOf(s) = OP_INTW /\ s.name[1] = ""
      /\ Body(s) \notin SpecialBodies
  <2>1. s.name[1] = ""
    BY DEF IsForm, IsNarrowRegister
  <2> QED
    BY <2>1, NarrowRegisterForm
<1>2. /\ Opcode(w) = OP_INTW /\ Rs1(w) = s.rs1 /\ Rs2(w) = s.rs2
      /\ Opcode(w) \in RegisterArith
  BY <1>1, DistinctOpcodes DEF Encodes
<1>3. Opcode(w) \in RegisterArith \cup ImmediateArith
  BY <1>2
<1>4. Opcode(w) \in Rs1Readers /\ Opcode(w) \in Rs2Readers
  BY <1>2, <1>3, DistinctOpcodes
<1> DEFINE a == Decoded(w, pc, regs)
           z == MaskedOp2Val(a)
           x == ReadRegister(regs, s.rs1)
           y == ReadRegister(regs, s.rs2)
<1>5. x \in Bits /\ y \in Bits
  BY <1>2, OperandWords
<1>6. a \in Insts /\ a.word = w /\ a.op1Val = x /\ a.op2Val = y
  <2>1. IsDecoded(a, w, pc, regs)
    BY DecodedIs
  <2> QED
    BY <1>2, <1>4, <2>1, Zenon DEF IsDecoded
<1>7. ArithOf(a, z) = Computes(s, x, y)
  <2>1. z = MaskedOp2Val(a)
    OBVIOUS
  <2> HIDE DEF a, x, y, z
  <2> QED
    BY <1>5, <1>6, <2>1, NarrowRegisterResult
<1>8. ArithOf(a, MaskedOp2Val(a)) = Computes(s, x, IF Format(s) = "R" THEN y ELSE s.imm)
  <2>1. z = MaskedOp2Val(a)
    OBVIOUS
  <2>2. Format(s) = "R"
    BY <1>1
  <2> HIDE DEF a, x, y, z
  <2> QED
    BY <1>7, <2>1, <2>2, Zenon
<1> QED
  BY <1>1, <1>3, <1>8, ComputingMeans

LEMMA ImmediateMeans ==
  ASSUME NEW w \in Bits, NEW s, NEW pc \in Bits, NEW regs \in RegisterFile,
         Ordinary(w), Encodes(w, s), IsImmediate(s)
  PROVE  MeansIt(w, s, pc, regs)
<1>1. /\ (Format(s) = "I" \/ Format(s) = "shift") /\ OpcodeOf(s) = OP_INTIMM /\ s.name[1] = ""
      /\ Body(s) \notin SpecialBodies
  <2>1. s.name[1] = ""
    BY DEF IsForm, IsImmediate
  <2> QED
    BY <2>1, ImmediateForm
<1>2. /\ Opcode(w) = OP_INTIMM /\ Rs1(w) = s.rs1
      /\ Opcode(w) \in ImmediateArith
  BY <1>1, DistinctOpcodes DEF Encodes
<1>3. Opcode(w) \in RegisterArith \cup ImmediateArith
  BY <1>2
<1>4. Opcode(w) \in Rs1Readers
  BY <1>2, <1>3, DistinctOpcodes
<1> DEFINE a == Decoded(w, pc, regs)
           z == MaskedOp2Val(a)
           x == ReadRegister(regs, s.rs1)
           y == ReadRegister(regs, s.rs2)
<1>5. x \in Bits
  BY <1>2, OperandWords
<1>6. a \in Insts /\ a.word = w /\ a.op1Val = x
  <2>1. IsDecoded(a, w, pc, regs)
    BY DecodedIs
  <2> QED
    BY <1>2, <1>4, <2>1, Zenon DEF IsDecoded
<1>7. ArithOf(a, z) = Computes(s, x, s.imm)
  <2>1. z = MaskedOp2Val(a)
    OBVIOUS
  <2> HIDE DEF a, x, y, z
  <2> QED
    BY <1>5, <1>6, <2>1, ImmediateResult
<1>8. ArithOf(a, MaskedOp2Val(a)) = Computes(s, x, IF Format(s) = "R" THEN y ELSE s.imm)
  <2>1. z = MaskedOp2Val(a)
    OBVIOUS
  <2>2. Format(s) # "R"
    BY <1>1
  <2> HIDE DEF a, x, y, z
  <2> QED
    BY <1>7, <2>1, <2>2, Zenon
<1> QED
  BY <1>1, <1>3, <1>8, ComputingMeans

LEMMA NarrowImmediateMeans ==
  ASSUME NEW w \in Bits, NEW s, NEW pc \in Bits, NEW regs \in RegisterFile,
         Ordinary(w), Encodes(w, s), IsNarrowImmediate(s)
  PROVE  MeansIt(w, s, pc, regs)
<1>1. /\ (Format(s) = "I" \/ Format(s) = "shift") /\ OpcodeOf(s) = OP_INTIMMW /\ s.name[1] = ""
      /\ Body(s) \notin SpecialBodies
  <2>1. s.name[1] = ""
    BY DEF IsForm, IsNarrowImmediate
  <2> QED
    BY <2>1, NarrowImmediateForm
<1>2. /\ Opcode(w) = OP_INTIMMW /\ Rs1(w) = s.rs1
      /\ Opcode(w) \in ImmediateArith
  BY <1>1, DistinctOpcodes DEF Encodes
<1>3. Opcode(w) \in RegisterArith \cup ImmediateArith
  BY <1>2
<1>4. Opcode(w) \in Rs1Readers
  BY <1>2, <1>3, DistinctOpcodes
<1> DEFINE a == Decoded(w, pc, regs)
           z == MaskedOp2Val(a)
           x == ReadRegister(regs, s.rs1)
           y == ReadRegister(regs, s.rs2)
<1>5. x \in Bits
  BY <1>2, OperandWords
<1>6. a \in Insts /\ a.word = w /\ a.op1Val = x
  <2>1. IsDecoded(a, w, pc, regs)
    BY DecodedIs
  <2> QED
    BY <1>2, <1>4, <2>1, Zenon DEF IsDecoded
<1>7. ArithOf(a, z) = Computes(s, x, s.imm)
  <2>1. z = MaskedOp2Val(a)
    OBVIOUS
  <2> HIDE DEF a, x, y, z
  <2> QED
    BY <1>5, <1>6, <2>1, NarrowImmediateResult
<1>8. ArithOf(a, MaskedOp2Val(a)) = Computes(s, x, IF Format(s) = "R" THEN y ELSE s.imm)
  <2>1. z = MaskedOp2Val(a)
    OBVIOUS
  <2>2. Format(s) # "R"
    BY <1>1
  <2> HIDE DEF a, x, y, z
  <2> QED
    BY <1>7, <2>1, <2>2, Zenon
<1> QED
  BY <1>1, <1>3, <1>8, ComputingMeans

LEMMA EncodedMeans ==
  ASSUME NEW w \in Bits, NEW s, NEW pc \in Bits, NEW regs \in RegisterFile,
         Ordinary(w), Encodes(w, s)
  PROVE  MeansIt(w, s, pc, regs)
<1> DEFINE a == Decoded(w, pc, regs)
           c == Result(w, pc, regs)
<1>1. Steps(a, c, w, pc, regs)
  BY StepsOf
<1>2. MeansFields(c, s, pc, regs) => MeansIt(w, s, pc, regs)
  BY Zenon DEF MeansFields, MeansIt
<1> HIDE DEF a, c
<1>3. CASE IsRegister(s) \/ IsNarrowRegister(s) \/ IsImmediate(s) \/ IsNarrowImmediate(s)
  BY <1>3, RegisterMeans, NarrowRegisterMeans, ImmediateMeans, NarrowImmediateMeans
<1>4. CASE IsLoad(s) \/ IsStore(s) \/ IsBranch(s)
  BY <1>1, <1>2, <1>4, LoadMeans, StoreMeans, BranchMeans
<1>5. CASE IsSpecial(s)
  <2>1. Body(s) = "lui" \/ Body(s) = "auipc" \/ Body(s) = "jal" \/ Body(s) = "jalr"
    BY <1>5 DEF IsForm, IsSpecial, SpecialBodies
  <2> QED
    BY <1>1, <1>2, <1>5, <2>1, UpperMeans, JumpMeans, IndirectJumpMeans
<1> QED
  BY <1>3, <1>4, <1>5, Forms DEF Encodes

-----------------------------------------------------------------------------
(* An assembled word encodes its statement and is accepted.                *)

LEMMA ShiftRightFormats ==
  ASSUME NEW s, s.name \in StatementNames, Body(s) \in {"srl", "sra"}
  PROVE  Format(s) \in {"R", "shift"}
<1>1. Body(s) \in ShiftBodies
  BY DEF ShiftBodies
<1>2. CASE IsRegister(s) \/ IsNarrowRegister(s)
  BY <1>2, RegisterForm, NarrowRegisterForm
<1>3. CASE IsImmediate(s) \/ IsNarrowImmediate(s)
  BY <1>1, <1>3, ImmediateForm, NarrowImmediateForm
<1>4. ~IsLoad(s) /\ ~IsStore(s) /\ ~IsBranch(s) /\ ~IsSpecial(s)
  BY DEF IsForm, IsLoad, IsStore, IsBranch, IsSpecial, LoadBodies, StoreBodies,
         ConditionBodies, SpecialBodies
<1> QED
  BY <1>2, <1>3, <1>4, Forms

LEMMA AssembledEncodes ==
  ASSUME NEW s, WellFormed(s)
  PROVE  Encodes(Assemble(s), s)
<1> DEFINE w == Assemble(s)
<1>1. s.name \in StatementNames /\ s.imm \in Bits /\ Format(s) \in Formats
  BY StatementFields
<1>2. Opcode(w) = OpcodeOf(s)
  BY AssembledOpcode
<1>3. Format(s) \notin {"U", "J"} => Funct3(w) = Funct3Of(s) /\ Rs1(w) = s.rs1
  BY AssembledFunct3, AssembledRs1
<1>4. Format(s) = "R" /\ Body(s) \in {"add", "sub"} =>
        (Funct7(w) = FUNCT7_SUB <=> Body(s) = "sub")
  <2> SUFFICES ASSUME Format(s) = "R", Body(s) \in {"add", "sub"}
               PROVE  Funct7(w) = FUNCT7_SUB <=> Body(s) = "sub"
    OBVIOUS
  <2>1. Funct7(w) = Funct7Of(s)
    BY AssembledFunct7
  <2> QED
    BY <2>1 DEF Funct7Of, FUNCT7_SUB
<1>5. Body(s) \in {"srl", "sra"} => (ArithmeticShift(w) <=> Body(s) = "sra")
  <2> SUFFICES ASSUME Body(s) \in {"srl", "sra"}
               PROVE  ArithmeticShift(w) <=> Body(s) = "sra"
    OBVIOUS
  <2>1. Field(w, 31, 26) = Funct7Of(s) \div 2
    BY <1>1, ShiftRightFormats, AssembledFunct7
  <2>2. Funct7Of(s) = IF Body(s) = "sra" THEN 32 ELSE 0
    BY DEF Funct7Of
  <2> QED
    BY <2>1, <2>2 DEF ArithmeticShift, FUNCT7_SUB
<1>6. Format(s) \in {"R", "S", "B"} => Rs2(w) = s.rs2
  BY AssembledRs2
<1>7. /\ Format(s) = "I" => ImmI(w) = s.imm
      /\ Format(s) = "S" => ImmS(w) = s.imm
      /\ Format(s) = "B" => ImmB(w) = s.imm
      /\ Format(s) = "U" => ImmU(w) = s.imm
      /\ Format(s) = "J" => ImmJ(w) = s.imm
  BY AssembledI, AssembledS, AssembledB, AssembledU, AssembledJ
<1>8. Format(s) = "shift" => \A i \in 0..(IF Narrow(s) THEN 4 ELSE 5) : ImmI(w)[i] = s.imm[i]
  <2>1. Format(s) = "shift" => \A i \in 0..5 : ImmI(w)[i] = s.imm[i]
    BY AssembledShift
  <2> QED
    BY <2>1
<1> QED
  BY <1>1, <1>2, <1>3, <1>4, <1>5, <1>6, <1>7, <1>8, Zenon DEF Encodes

LEMMA AcceptedCodes ==
  /\ \A b \in RegisterBodies :
       /\ ArithmeticFunct3[b] = FUNCT3_ADD => b \in {"add", "sub"}
       /\ ArithmeticFunct3[b] = FUNCT3_SR => b \in {"srl", "sra"}
  /\ \A b \in NarrowBodies : ArithmeticFunct3[b] \in {FUNCT3_ADD, FUNCT3_SLL, FUNCT3_SR}
  /\ \A b \in LoadBodies : WidthFunct3[b] <= 6
  /\ \A b \in StoreBodies : WidthFunct3[b] <= 3
  /\ \A b \in ConditionBodies : ConditionFunct3[b] \notin {2, 3}
BY DEF RegisterBodies, ShiftBodies, NarrowBodies, LoadBodies, StoreBodies, ConditionBodies,
       ArithmeticFunct3, WidthFunct3, ConditionFunct3, FUNCT3_ADD, FUNCT3_SLL, FUNCT3_SR

LEMMA AssembledFunct7Kinds ==
  ASSUME NEW s, WellFormed(s), Format(s) \in {"R", "shift"}
  PROVE  /\ ShiftKindOf64(Assemble(s))
         /\ Format(s) = "R" \/ Narrow(s) => AddOrSub(Assemble(s)) /\ ShiftKindOf32(Assemble(s))
<1> DEFINE w == Assemble(s)
<1>1. w \in Bits /\ Funct7Of(s) \in {0, 32}
  BY AssembledType, StatementFields
<1>2. Funct7(w) \div 2 = Funct7Of(s) \div 2
  BY <1>1, AssembledFunct7, Funct7Halves
<1>3. Funct7Of(s) \div 2 \in {0, 16}
  BY <1>1
<1>4. ShiftKindOf64(w)
  BY <1>2, <1>3 DEF ShiftKindOf64, FUNCT7_SUB
<1>5. Format(s) = "R" \/ Narrow(s) => Funct7(w) \in {0, 32}
  BY <1>1, AssembledFunct7
<1> QED
  BY <1>4, <1>5 DEF AddOrSub, ShiftKindOf32, FUNCT7_ADD, FUNCT7_SUB

LEMMA AssembledAccepted ==
  ASSUME NEW s, WellFormed(s)
  PROVE  Accepted(Assemble(s))
<1> DEFINE w == Assemble(s)
           f3 == Funct3(w)
           body == Body(s)
<1>1. Opcode(w) = OpcodeOf(s) /\ s.name \in StatementNames
  BY AssembledOpcode, StatementFields
<1>2. Format(s) \notin {"U", "J"} => f3 = Funct3Of(s)
  BY AssembledFunct3
<1>3. CASE IsRegister(s)
  <2>1. /\ Opcode(w) = OP_INT /\ f3 = Funct3Of(s)
        /\ AddOrSub(w) /\ ShiftKindOf64(w)
    BY <1>1, <1>2, <1>3, RegisterForm, AssembledFunct7Kinds
  <2> QED
    BY <2>1 DEF Accepted
<1>4. CASE IsNarrowRegister(s)
  <2>1. /\ Opcode(w) = OP_INTW /\ f3 = ArithmeticFunct3[body]
        /\ AddOrSub(w) /\ ShiftKindOf32(w)
    BY <1>1, <1>2, <1>4, NarrowRegisterForm, AssembledFunct7Kinds
  <2>2. f3 \in {FUNCT3_ADD, FUNCT3_SLL, FUNCT3_SR}
    BY <1>4, <2>1, AcceptedCodes DEF IsNarrowRegister, IsForm
  <2> QED
    BY <2>1, <2>2 DEF Accepted
<1>5. CASE IsImmediate(s)
  <2>1. Opcode(w) = OP_INTIMM /\ f3 = ArithmeticFunct3[body] /\ body \in RegisterBodies
    BY <1>1, <1>2, <1>5, ImmediateForm DEF IsImmediate, IsForm
  <2>2. f3 = FUNCT3_SR => ShiftKindOf64(w)
    <3>1. ASSUME f3 = FUNCT3_SR
          PROVE  Format(s) = "shift"
      <4>1. body \in ShiftBodies
        BY <2>1, <3>1, AcceptedCodes DEF ShiftBodies
      <4> QED
        BY <1>5, <4>1, ImmediateForm
    <3> QED
      BY <3>1, AssembledFunct7Kinds
  <2> QED
    BY <2>1, <2>2 DEF Accepted
<1>6. CASE IsNarrowImmediate(s)
  <2>1. /\ Opcode(w) = OP_INTIMMW /\ f3 = ArithmeticFunct3[body] /\ body \in NarrowBodies
        /\ body \in RegisterBodies /\ Narrow(s)
    BY <1>1, <1>2, <1>6, NarrowImmediateForm, CodeTables DEF IsNarrowImmediate, IsForm
  <2>2. f3 \in {FUNCT3_ADD, FUNCT3_SLL, FUNCT3_SR}
    BY <2>1, AcceptedCodes
  <2>3. f3 = FUNCT3_SR => ShiftKindOf32(w)
    <3>1. ASSUME f3 = FUNCT3_SR
          PROVE  Format(s) = "shift"
      <4>1. body \in ShiftBodies
        BY <2>1, <3>1, AcceptedCodes DEF ShiftBodies
      <4> QED
        BY <1>6, <4>1, NarrowImmediateForm
    <3> QED
      BY <2>1, <3>1, AssembledFunct7Kinds
  <2> QED
    BY <2>1, <2>2, <2>3 DEF Accepted
<1>7. CASE IsLoad(s)
  <2>1. Opcode(w) = OP_LOAD /\ f3 = WidthFunct3[body] /\ body \in LoadBodies
    BY <1>1, <1>2, <1>7, LoadForm DEF IsLoad, IsForm
  <2>2. f3 <= 6
    BY <2>1, AcceptedCodes
  <2> QED
    BY <2>1, <2>2 DEF Accepted
<1>8. CASE IsStore(s)
  <2>1. Opcode(w) = OP_STORE /\ f3 = WidthFunct3[body] /\ body \in StoreBodies
    BY <1>1, <1>2, <1>8, StoreForm DEF IsStore, IsForm
  <2>2. f3 <= 3
    BY <2>1, AcceptedCodes
  <2> QED
    BY <2>1, <2>2 DEF Accepted
<1>9. CASE IsBranch(s)
  <2>1. Opcode(w) = OP_BRANCH /\ f3 = ConditionFunct3[body] /\ body \in ConditionBodies
    BY <1>1, <1>2, <1>9, BranchForm DEF IsBranch, IsForm
  <2>2. f3 \notin {2, 3}
    BY <2>1, AcceptedCodes
  <2> QED
    BY <2>1, <2>2 DEF Accepted
<1>10. CASE IsSpecial(s)
  <2>1. Body(s) = "lui" \/ Body(s) = "auipc" \/ Body(s) = "jal" \/ Body(s) = "jalr"
    BY <1>10 DEF IsForm, IsSpecial, SpecialBodies
  <2>2. Opcode(w) \in {OP_JALR, OP_AUIPC, OP_LUI, OP_JAL}
    BY <1>1, <1>10, <2>1, SpecialForm
  <2> QED
    BY <2>2 DEF Accepted
<1> QED
  BY <1>1, <1>3, <1>4, <1>5, <1>6, <1>7, <1>8, <1>9, <1>10, Forms

LEMMA AssembledNotHalt ==
  ASSUME NEW s, WellFormed(s)
  PROVE  ~IsHaltWord(Assemble(s))
<1>1. Assemble(s)[1] = 1
  BY AssembledOpcode
<1>2. HaltWord[1] = 0
  <2>1. HaltWord[1] = (65261 \div 2^1) % 2
    BY DEF HaltWord, FromHalves, Position
  <2> QED
    BY <2>1
<1> QED
  BY <1>1, <1>2 DEF IsHaltWord

-----------------------------------------------------------------------------
(* The words that leave the stages early.                                  *)

(* What simDecode rejects goes to the handler. *)
LEMMA IllegalGoes ==
  ASSUME NEW w \in Bits, NEW pc \in Bits, NEW regs \in RegisterFile, ~LegalWord(w)
  PROVE  LET c == Result(w, pc, regs)
         IN ~c.flags.isLegal /\ c.nextPC = EXCEPTION_HANDLER
<1> DEFINE f == Fetched(w, pc)
           a == Decoded(w, pc, regs)
           b == SimEX(a)
           c == Result(w, pc, regs)
<1>1. f \in Insts /\ f.word = w
  BY FetchedType
<1>2. ~SimDecode(w).isLegal
  BY Zenon DEF SimDecode
<1>3. a = SimID(f, regs) /\ b = SimEX(a) /\ c = SimMEM(b) /\ regs \in [Register -> Bits]
  BY Zenon DEF Decoded, Result, RegisterFile
<1> HIDE DEF f, a, b, c
<1>4. a \in Insts /\ a.flags = SimDecode(w) /\ a.nextPC = EXCEPTION_HANDLER
  BY <1>1, <1>2, <1>3, SimIDFields, Zenon
<1>5. b \in Insts /\ b.flags = a.flags /\ b.nextPC = a.nextPC
  BY <1>3, <1>4, SimEXFields, Zenon
<1>6. c.flags = b.flags /\ c.nextPC = b.nextPC
  BY <1>3, <1>5, SimMEMFields, Zenon
<1> QED
  BY <1>2, <1>4, <1>5, <1>6, Zenon DEF c

(* A NOP keeps its zeros. *)
LEMMA NopResult ==
  ASSUME NEW w \in Bits, NEW pc \in Bits, NEW regs \in RegisterFile, IsNopWord(w),
         Opcode(w) = OP_INTIMM
  PROVE  LET c == Result(w, pc, regs)
         IN /\ c.flags.isLegal /\ c.nextPC = Add(pc, FromNat(4))
            /\ c.arithResult = FromNat(0) /\ c.memAddress = FromNat(0)
<1> DEFINE f == Fetched(w, pc)
           a == Decoded(w, pc, regs)
           b == SimEX(a)
           c == Result(w, pc, regs)
           d == SimDecode(w)
<1>1. f \in Insts /\ f.word = w /\ f.PC = pc
  BY FetchedType
<1>2. f.arithResult = FromNat(0) /\ f.memAddress = FromNat(0)
  BY Zenon DEF Fetched
<1>3. d.isLegal /\ ~d.doesArithLogic /\ ~d.readsMem /\ ~d.writesMem
  <2>1. \A ops : ~HasOpcode(w, ops)
    BY Zenon DEF HasOpcode
  <2>2. LegalWord(w)
    BY DEF LegalWord
  <2> QED
    BY <2>1, <2>2, Zenon DEF SimDecode
<1>4. a = SimID(f, regs) /\ b = SimEX(a) /\ c = SimMEM(b) /\ regs \in [Register -> Bits]
  BY Zenon DEF Decoded, Result, RegisterFile
<1> HIDE DEF f, a, b, c, d
<1>5. d = SimDecode(f.word)
  BY <1>1 DEF d
<1>6. /\ a \in Insts /\ a.word = w /\ a.PC = pc /\ a.flags = d /\ a.nextPC = NextPCOf(a)
      /\ a.arithResult = FromNat(0) /\ a.memAddress = FromNat(0)
  BY <1>1, <1>2, <1>3, <1>4, <1>5, SimIDFields, Zenon
<1>7. a.nextPC = Add(pc, FromNat(4))
  <2>1. OP_INTIMM \notin {OP_JALR, OP_BRANCH, OP_JAL}
    BY DEF OP_INTIMM, OP_JALR, OP_BRANCH, OP_JAL
  <2> QED
    BY <1>6, <2>1, Zenon DEF NextPCOf
<1>8. /\ b \in Insts /\ b.flags = a.flags /\ b.nextPC = a.nextPC
      /\ b.memAddress = a.memAddress /\ b.arithResult = a.arithResult
  BY <1>3, <1>4, <1>6, SimEXFields, Zenon
<1>9. /\ c.flags = b.flags /\ c.nextPC = b.nextPC /\ c.arithResult = b.arithResult
      /\ c.memAddress = IF b.flags.isLegal THEN AddressOf(b) ELSE b.memAddress
  BY <1>4, <1>8, SimMEMFields, Zenon
<1>10. AddressOf(b) = b.memAddress
  BY <1>3, <1>6, <1>8, Zenon DEF AddressOf
<1> QED
  BY <1>3, <1>6, <1>7, <1>8, <1>9, <1>10, Zenon DEF c

LEMMA NopBits ==
  ASSUME NEW i \in Position
  PROVE  NopWord[i] = IF i \in {0, 1, 4} THEN 1 ELSE 0
<1>1. NopWord[i] = IF i < 31 THEN (19 \div Power(i)) % 2 ELSE 0
  BY Zenon DEF NopWord, FromNat, Power
<1>2. \A k \in 5..30 : Power(k) \in Nat /\ Power(k) >= 32
  <2> DEFINE Good == {k \in 5..30 : Power(k) \in Nat /\ Power(k) >= 32}
  <2>1. Power(5) = 32
    BY DEF Power
  <2>2. ASSUME NEW k \in 5..30, Power(k) \in Nat, Power(k) >= 32
        PROVE  Power(k + 1) \in Nat /\ Power(k + 1) >= 32
    BY <2>2, Powers
  <2>3. /\ 5 \in Good
        /\ \A k \in 5..29 : k \in Good => k + 1 \in Good
    BY <2>1, <2>2
  <2>4. 5..30 \subseteq Good
    <3> HIDE DEF Good
    <3>1. {5, 6, 7, 8, 9, 10, 11, 12} \subseteq Good
      BY <2>3
    <3>2. {13, 14, 15, 16, 17, 18, 19, 20} \subseteq Good
      BY <2>3, <3>1
    <3>3. {21, 22, 23, 24, 25, 26, 27, 28, 29, 30} \subseteq Good
      BY <2>3, <3>2
    <3> QED
      BY <3>1, <3>2, <3>3
  <2> QED
    BY <2>4
<1>3. CASE i \in 5..30
  <2>1. Power(i) \in Nat /\ Power(i) >= 32
    BY <1>2, <1>3
  <2>2. 19 \div Power(i) = 0
    <3> SUFFICES ASSUME NEW p \in Nat, p >= 32
                 PROVE  19 \div p = 0
      BY <2>1
    <3>1. 19 \div p \in Int /\ 19 % p \in 0..(p - 1) /\ 19 = p * (19 \div p) + (19 % p)
      OBVIOUS
    <3>2. ASSUME NEW q \in Int, NEW r \in 0..(p - 1), 19 = p * q + r
          PROVE  q = 0
      BY <3>2
    <3> QED
      BY <3>1, <3>2
  <2> QED
    BY <1>1, <1>3, <2>2
<1>4. CASE i \in 0..4
  <2>1. /\ Power(0) = 1 /\ Power(1) = 2 /\ Power(2) = 4 /\ Power(3) = 8 /\ Power(4) = 16
    BY DEF Power
  <2>2. i = 0 \/ i = 1 \/ i = 2 \/ i = 3 \/ i = 4
    BY <1>4
  <2> QED
    BY <1>1, <2>1, <2>2
<1>5. CASE i > 30
  BY <1>1, <1>5 DEF Position
<1> QED
  BY <1>3, <1>4, <1>5 DEF Position

LEMMA ZeroBits ==
  ASSUME NEW i \in Position
  PROVE  FromNat(0)[i] = 0
<1>1. FromNat(0)[i] = IF i < 31 THEN (0 \div Power(i)) % 2 ELSE 0
  BY Zenon DEF FromNat, Power
<1>2. CASE i < 31
  <2>1. i \in 0..30
    BY <1>2 DEF Position
  <2>2. Power(i) \in Nat \ {0}
    BY <2>1, Powers
  <2> SUFFICES ASSUME NEW p \in Nat \ {0}
               PROVE  (0 \div p) % 2 = 0
    BY <1>1, <1>2, <2>2
  <2>3. ASSUME NEW q \in Int, NEW r \in 0..(p - 1), 0 = p * q + r
        PROVE  q = 0
    BY <2>3
  <2>4. 0 \div p \in Int /\ 0 % p \in 0..(p - 1) /\ 0 = p * (0 \div p) + (0 % p)
    OBVIOUS
  <2> QED
    BY <2>3, <2>4
<1> QED
  BY <1>1, <1>2

LEMMA AddZero == Add(FromNat(0), FromNat(0)) = FromNat(0)
<1> DEFINE z == FromNat(0)
<1>1. z \in Bits
  BY FromNatType
<1>2. \A i \in Position : z[i] = 0
  BY ZeroBits
<1>3. Add(z, z) \in Bits
  BY <1>1, AddType
<1> HIDE DEF z
<1>4. ASSUME NEW i \in Position
      PROVE  Add(z, z)[i] = z[i]
  <2>1. ~Carry(z, z, 0, i)
    BY <1>2 DEF Carry, Position
  <2>2. Add(z, z)[i] = (z[i] + z[i] + (IF Carry(z, z, 0, i) THEN 1 ELSE 0)) % 2
    BY Zenon DEF Add, SumWithCarry
  <2> QED
    BY <1>2, <2>1, <2>2
<1>5. EqualBits(Add(z, z), z)
  BY <1>4 DEF EqualBits
<1> QED
  BY <1>1, <1>3, <1>5, SameWord DEF z

(* An opcode belongs to one form. *)
LEMMA FormsByOpcode ==
  ASSUME NEW s, s.name \in StatementNames
  PROVE  /\ OpcodeOf(s) = OP_INT => IsRegister(s)
         /\ OpcodeOf(s) = OP_INTW => IsNarrowRegister(s)
         /\ OpcodeOf(s) = OP_INTIMM => IsImmediate(s)
         /\ OpcodeOf(s) = OP_INTIMMW => IsNarrowImmediate(s)
         /\ OpcodeOf(s) = OP_LOAD => IsLoad(s)
         /\ OpcodeOf(s) = OP_STORE => IsStore(s)
         /\ OpcodeOf(s) = OP_BRANCH => IsBranch(s)
         /\ OpcodeOf(s) = OP_LUI => IsSpecial(s) /\ Body(s) = "lui"
         /\ OpcodeOf(s) = OP_AUIPC => IsSpecial(s) /\ Body(s) = "auipc"
         /\ OpcodeOf(s) = OP_JAL => IsSpecial(s) /\ Body(s) = "jal"
         /\ OpcodeOf(s) = OP_JALR => IsSpecial(s) /\ Body(s) = "jalr"
<1>1. \/ IsRegister(s) /\ OpcodeOf(s) = OP_INT
      \/ IsNarrowRegister(s) /\ OpcodeOf(s) = OP_INTW
      \/ IsImmediate(s) /\ OpcodeOf(s) = OP_INTIMM
      \/ IsNarrowImmediate(s) /\ OpcodeOf(s) = OP_INTIMMW
      \/ IsLoad(s) /\ OpcodeOf(s) = OP_LOAD
      \/ IsStore(s) /\ OpcodeOf(s) = OP_STORE
      \/ IsBranch(s) /\ OpcodeOf(s) = OP_BRANCH
      \/ IsSpecial(s) /\ Body(s) = "lui" /\ OpcodeOf(s) = OP_LUI
      \/ IsSpecial(s) /\ Body(s) = "auipc" /\ OpcodeOf(s) = OP_AUIPC
      \/ IsSpecial(s) /\ Body(s) = "jal" /\ OpcodeOf(s) = OP_JAL
      \/ IsSpecial(s) /\ Body(s) = "jalr" /\ OpcodeOf(s) = OP_JALR
  <2>1. IsSpecial(s) => Body(s) = "lui" \/ Body(s) = "auipc" \/ Body(s) = "jal" \/ Body(s) = "jalr"
    BY DEF IsForm, IsSpecial, SpecialBodies
  <2>2. /\ IsRegister(s) => OpcodeOf(s) = OP_INT
        /\ IsNarrowRegister(s) => OpcodeOf(s) = OP_INTW
        /\ IsImmediate(s) => OpcodeOf(s) = OP_INTIMM
        /\ IsNarrowImmediate(s) => OpcodeOf(s) = OP_INTIMMW
    BY RegisterForm, NarrowRegisterForm, ImmediateForm, NarrowImmediateForm, Zenon
  <2>3. /\ IsLoad(s) => OpcodeOf(s) = OP_LOAD
        /\ IsStore(s) => OpcodeOf(s) = OP_STORE
        /\ IsBranch(s) => OpcodeOf(s) = OP_BRANCH
    BY LoadForm, StoreForm, BranchForm, Zenon
  <2>4. IsSpecial(s) => \/ Body(s) = "lui" /\ OpcodeOf(s) = OP_LUI
                        \/ Body(s) = "auipc" /\ OpcodeOf(s) = OP_AUIPC
                        \/ Body(s) = "jal" /\ OpcodeOf(s) = OP_JAL
                        \/ Body(s) = "jalr" /\ OpcodeOf(s) = OP_JALR
    BY <2>1, SpecialForm, Zenon
  <2> QED
    BY <2>2, <2>3, <2>4, Forms
<1> QED
  BY <1>1 DEF OP_INT, OP_INTW, OP_INTIMM, OP_INTIMMW, OP_LOAD, OP_STORE, OP_BRANCH,
       OP_LUI, OP_AUIPC, OP_JAL, OP_JALR

LEMMA NopFields ==
  /\ NopWord \in Bits /\ Opcode(NopWord) = OP_INTIMM /\ Funct3(NopWord) = 0
  /\ Rs1(NopWord) = 0 /\ ImmI(NopWord) = FromNat(0)
<1> DEFINE w == NopWord
<1>1. w \in Bits
  BY FromNatType DEF NopWord
<1>2. /\ 6 \in Position /\ 0 \in Position /\ 14 \in Position /\ 12 \in Position
      /\ 19 \in Position /\ 15 \in Position
      /\ Power(7) = 128 /\ Power(3) = 8 /\ Power(5) = 32
  BY DEF Position, Power
<1>3. \A i \in Position : w[i] = IF i \in {0, 1, 4} THEN 1 ELSE 0
  BY NopBits
<1>4. HasNumber(w, 0, 7, 19)
  <2>1. /\ Power(0) = 1 /\ Power(1) = 2 /\ Power(2) = 4 /\ Power(3) = 8 /\ Power(4) = 16
        /\ Power(5) = 32 /\ Power(6) = 64
    BY DEF Power
  <2> HIDE DEF w
  <2>2. ASSUME NEW i \in 0..6
        PROVE  w[0 + i] = (19 \div Power(i)) % 2
    <3>1. i = 0 \/ i = 1 \/ i = 2 \/ i = 3 \/ i = 4 \/ i = 5 \/ i = 6
      OBVIOUS
    <3>2. w[0 + i] = IF i \in {0, 1, 4} THEN 1 ELSE 0
      BY <1>3 DEF Position
    <3> QED
      BY <2>1, <3>1, <3>2
  <2> QED
    BY <2>2 DEF HasNumber
<1>5. ASSUME NEW n \in 1..7
      PROVE  \A i \in 0..(n - 1) : (0 \div Power(i)) % 2 = 0
  <2>1. ASSUME NEW i \in 0..6
        PROVE  (0 \div Power(i)) % 2 = 0
    <3>1. i \in Position /\ i < 31
      BY DEF Position
    <3>2. FromNat(0)[i] = IF i < 31 THEN (0 \div Power(i)) % 2 ELSE 0
      BY <3>1, Zenon DEF FromNat, Power
    <3> QED
      BY <3>1, <3>2, ZeroBits
  <2> QED
    BY <2>1
<1>6. HasNumber(w, 12, 3, 0) /\ HasNumber(w, 15, 5, 0)
  <2> HIDE DEF w
  <2>1. /\ \A i \in 0..(3 - 1) : w[12 + i] = 0
        /\ \A i \in 0..(5 - 1) : w[15 + i] = 0
    BY <1>3 DEF Position
  <2>2. /\ \A i \in 0..(3 - 1) : (0 \div Power(i)) % 2 = 0
        /\ \A i \in 0..(5 - 1) : (0 \div Power(i)) % 2 = 0
    BY <1>5
  <2> QED
    BY <2>1, <2>2 DEF HasNumber
<1>7. ImmI(w) = FromNat(0)
  <2>1. ImmI(w) \in Bits /\ FromNat(0) \in Bits
    BY <1>1, ImmediateTypes, FromNatType
  <2> HIDE DEF w
  <2>2. ASSUME NEW i \in Position
        PROVE  ImmI(w)[i] = FromNat(0)[i]
    <3>1. ImmI(w)[i] = w[IF i <= 11 THEN 20 + i ELSE 31]
      BY <1>1, ImmIBit
    <3>2. (IF i <= 11 THEN 20 + i ELSE 31) \in Position \ {0, 1, 4}
      BY DEF Position
    <3>3. ImmI(w)[i] = 0
      BY <1>3, <3>1, <3>2
    <3> QED
      BY <3>3, ZeroBits
  <2>3. EqualBits(ImmI(w), FromNat(0))
    BY <2>2 DEF EqualBits
  <2> QED
    BY <2>1, <2>3, SameWord
<1> HIDE DEF w
<1>8. Field(w, 6, 0) = 19
  BY <1>1, <1>2, <1>4, FieldValue
<1>9. Field(w, 14, 12) = 0 /\ Field(w, 19, 15) = 0
  BY <1>1, <1>2, <1>6, FieldValue
<1> QED
  BY <1>1, <1>7, <1>8, <1>9 DEF Opcode, Funct3, Rs1, OP_INTIMM, w

LEMMA NopMeans ==
  ASSUME NEW s, WellFormed(s), IsNopWord(Assemble(s)),
         NEW pc \in Bits, NEW regs \in RegisterFile
  PROVE  MeansIt(Assemble(s), s, pc, regs)
<1> DEFINE w == Assemble(s)
           c == Result(w, pc, regs)
           z == FromNat(0)
<1>1. /\ w \in Bits /\ Opcode(w) = OP_INTIMM /\ Funct3(w) = 0 /\ Rs1(w) = 0
      /\ ImmI(w) = z
  BY NopFields DEF IsNopWord
<1>2. /\ c.flags.isLegal /\ c.nextPC = Add(pc, FromNat(4))
      /\ c.arithResult = z /\ c.memAddress = z
  BY <1>1, NopResult, Zenon
<1>3. s.name \in StatementNames /\ OpcodeOf(s) = OP_INTIMM
  BY <1>1, StatementFields, AssembledOpcode
<1>4. IsImmediate(s)
  BY <1>3, FormsByOpcode
<1>5. /\ Format(s) = (IF Body(s) \in ShiftBodies THEN "shift" ELSE "I")
      /\ ~Narrow(s) /\ Funct3Of(s) = ArithmeticFunct3[Body(s)]
      /\ Body(s) \in RegisterBodies /\ Body(s) # "sub" /\ s.name[1] = ""
      /\ Body(s) \notin SpecialBodies
  BY <1>4, ImmediateForm DEF IsImmediate, IsForm
<1>6. Funct3Of(s) = 0
  BY <1>1, <1>5, AssembledFunct3
<1>7. Body(s) = "add"
  BY <1>5, <1>6, AcceptedCodes DEF FUNCT3_ADD
<1>8. Format(s) = "I"
  BY <1>5, <1>7 DEF ShiftBodies
<1>9. s.rs1 = 0 /\ s.imm = z
  BY <1>1, <1>8, AssembledRs1, AssembledI
<1>10. z \in Bits /\ FromNat(4) \in Bits
  BY FromNatType
<1>11. Sum(z, z) = z /\ Sum(pc, FromNat(4)) = Add(pc, FromNat(4))
  BY <1>10, SumIsAdd, AddZero
<1>12. Computes(s, z, z) = Sum(z, z)
  BY <1>5, <1>7, Zenon DEF Computes, Operate
<1> HIDE DEF c, w
<1>13. /\ Meaning(s, pc, regs).result = z /\ Meaning(s, pc, regs).address = z
       /\ Meaning(s, pc, regs).nextPC = Sum(pc, FromNat(4))
  <2>1. ReadRegister(regs, s.rs1) = z
    BY <1>9, Zenon DEF ReadRegister
  <2>2. /\ "" # "l" /\ "" # "s" /\ "" # "b" /\ "add" # "lui" /\ "add" # "auipc" /\ "add" # "jal"
        /\ "add" # "jalr" /\ "I" # "R"
    OBVIOUS
  <2>3. /\ Meaning(s, pc, regs).result =
             Computes(s, ReadRegister(regs, s.rs1),
                      IF Format(s) = "R" THEN ReadRegister(regs, s.rs2) ELSE s.imm)
        /\ Meaning(s, pc, regs).address = z
        /\ Meaning(s, pc, regs).nextPC = Sum(pc, FromNat(4))
    BY <1>5, <1>7, <2>2, MeaningOf, Zenon
  <2>4. (IF Format(s) = "R" THEN ReadRegister(regs, s.rs2) ELSE s.imm) = z
    BY <1>8, <1>9, <2>2, Zenon
  <2> HIDE DEF z
  <2> QED
    BY <1>11, <1>12, <2>1, <2>3, <2>4, Zenon
<1> QED
  BY <1>2, <1>11, <1>13, Zenon DEF MeansIt, c, w

LEMMA AssembledMeans ==
  ASSUME NEW s, WellFormed(s), NEW pc \in Bits, NEW regs \in RegisterFile
  PROVE  MeansIt(Assemble(s), s, pc, regs)
<1>1. CASE IsNopWord(Assemble(s))
  BY <1>1, NopMeans
<1>2. CASE ~IsNopWord(Assemble(s))
  <2>1. Ordinary(Assemble(s)) /\ Assemble(s) \in Bits
    BY <1>2, AssembledAccepted, AssembledNotHalt, AssembledType DEF Ordinary
  <2> QED
    BY <2>1, AssembledEncodes, EncodedMeans
<1> QED
  BY <1>1, <1>2

-----------------------------------------------------------------------------
(* The name that getOpString gives an accepted word is the one name with   *)
(* the word's codes.                                                       *)

Spelled(w, s) ==
  /\ s.name \in StatementNames
  /\ Opcode(w) = OpcodeOf(s)
  /\ Format(s) \notin {"U", "J"} /\ Body(s) # "jalr" => Funct3(w) = Funct3Of(s)
  /\ Format(s) = "R" /\ Body(s) \in {"add", "sub"} =>
       (Funct7(w) = FUNCT7_SUB <=> Body(s) = "sub")
  /\ Body(s) \in {"srl", "sra"} => (ArithmeticShift(w) <=> Body(s) = "sra")

LEMMA PrintedBodies ==
  /\ \A f \in (0..7) \ {5} :
       /\ IntBody[f + 1] \in RegisterBodies \ {"sub", "srl", "sra"}
       /\ ArithmeticFunct3[IntBody[f + 1]] = f
  /\ \A f \in {0, 1} : IntBody[f + 1] \in NarrowBodies
  /\ IntBody[1] = "add"
  /\ ArithmeticFunct3["sub"] = 0 /\ ArithmeticFunct3["srl"] = 5 /\ ArithmeticFunct3["sra"] = 5
  /\ \A f \in 0..6 : MemBody[f + 1] \in LoadBodies /\ WidthFunct3[MemBody[f + 1]] = f
  /\ \A f \in 0..3 : MemBody[f + 1] \in StoreBodies
  /\ DOMAIN BranchBody = {0, 1, 4, 5, 6, 7}
  /\ \A f \in {0, 1, 4, 5, 6, 7} :
       BranchBody[f] \in ConditionBodies /\ ConditionFunct3[BranchBody[f]] = f
<1>1. \A f \in (0..7) \ {5} :
        /\ IntBody[f + 1] \in RegisterBodies \ {"sub", "srl", "sra"}
        /\ ArithmeticFunct3[IntBody[f + 1]] = f
  BY DEF IntBody, RegisterBodies, ShiftBodies, ArithmeticFunct3
<1>2. (\A f \in {0, 1} : IntBody[f + 1] \in NarrowBodies) /\ IntBody[1] = "add"
  BY DEF IntBody, NarrowBodies
<1>3. ArithmeticFunct3["sub"] = 0 /\ ArithmeticFunct3["srl"] = 5 /\ ArithmeticFunct3["sra"] = 5
  BY DEF ArithmeticFunct3
<1>4. \A f \in 0..6 : MemBody[f + 1] \in LoadBodies /\ WidthFunct3[MemBody[f + 1]] = f
  BY DEF MemBody, LoadBodies, WidthFunct3
<1>5. \A f \in 0..3 : MemBody[f + 1] \in StoreBodies
  BY DEF MemBody, StoreBodies
<1>6. DOMAIN BranchBody = {0, 1, 4, 5, 6, 7}
  BY DEF BranchBody
<1>7. \A f \in {0, 1, 4, 5, 6, 7} :
        BranchBody[f] \in ConditionBodies /\ ConditionFunct3[BranchBody[f]] = f
  <2>1. /\ BranchBody[0] = "eq" /\ BranchBody[1] = "ne" /\ BranchBody[4] = "lt"
        /\ BranchBody[5] = "ge" /\ BranchBody[6] = "ltu" /\ BranchBody[7] = "geu"
    <3> DEFINE t == <<"eq", "ne", "", "", "lt", "ge", "ltu", "geu">>
    <3>1. /\ t[1] = "eq" /\ t[2] = "ne" /\ t[5] = "lt" /\ t[6] = "ge" /\ t[7] = "ltu"
          /\ t[8] = "geu"
      OBVIOUS
    <3>2. BranchBody = [f \in {0, 1, 4, 5, 6, 7} |-> t[f + 1]]
      BY Zenon DEF BranchBody
    <3> HIDE DEF t
    <3> QED
      BY <3>1, <3>2
  <2> QED
    BY <2>1 DEF ConditionBodies, ConditionFunct3
<1> QED
  BY <1>1, <1>2, <1>3, <1>4, <1>5, <1>6, <1>7

(* Its names are those of statements. *)
LEMMA FormNames ==
  ASSUME NEW s, NEW a, NEW b, NEW c, s.name = <<a, b, c>>
  PROVE  /\ a = "" /\ b \in RegisterBodies /\ c = "" => IsRegister(s)
         /\ a = "" /\ b \in NarrowBodies /\ c = "w" => IsNarrowRegister(s)
         /\ a = "" /\ b \in RegisterBodies \ {"sub"} /\ c = "i" => IsImmediate(s)
         /\ a = "" /\ b \in NarrowBodies \ {"sub"} /\ c = "iw" => IsNarrowImmediate(s)
         /\ a = "l" /\ b \in LoadBodies /\ c = "" => IsLoad(s)
         /\ a = "s" /\ b \in StoreBodies /\ c = "" => IsStore(s)
         /\ a = "b" /\ b \in ConditionBodies /\ c = "" => IsBranch(s)
         /\ a = "" /\ b \in SpecialBodies /\ c = "" => IsSpecial(s)
         /\ Body(s) = b
<1>1. s.name[1] = a /\ s.name[2] = b /\ s.name[3] = c
  OBVIOUS
<1> QED
  BY <1>1, Zenon DEF IsForm, IsRegister, IsNarrowRegister, IsImmediate, IsNarrowImmediate,
                     IsLoad, IsStore, IsBranch, IsSpecial, Body

LEMMA NamesOfForms ==
  /\ \A b \in RegisterBodies : <<"", b, "">> \in StatementNames
  /\ \A b \in NarrowBodies : <<"", b, "w">> \in StatementNames
  /\ \A b \in RegisterBodies \ {"sub"} : <<"", b, "i">> \in StatementNames
  /\ \A b \in NarrowBodies \ {"sub"} : <<"", b, "iw">> \in StatementNames
  /\ \A b \in LoadBodies : <<"l", b, "">> \in StatementNames
  /\ \A b \in StoreBodies : <<"s", b, "">> \in StatementNames
  /\ \A b \in ConditionBodies : <<"b", b, "">> \in StatementNames
  /\ \A b \in SpecialBodies : <<"", b, "">> \in StatementNames
  /\ IllegalName \notin StatementNames
<1>1. NarrowBodies = {"add", "sub"} \cup ShiftBodies
      /\ NarrowBodies \ {"sub"} = {"add"} \cup ShiftBodies
  BY DEF NarrowBodies, ShiftBodies
<1>2. /\ \A b \in RegisterBodies : <<"", b, "">> \in StatementNames
      /\ \A b \in NarrowBodies : <<"", b, "w">> \in StatementNames
      /\ \A b \in RegisterBodies \ {"sub"} : <<"", b, "i">> \in StatementNames
      /\ \A b \in NarrowBodies \ {"sub"} : <<"", b, "iw">> \in StatementNames
  BY <1>1 DEF StatementNames
<1>3. /\ \A b \in LoadBodies : <<"l", b, "">> \in StatementNames
      /\ \A b \in StoreBodies : <<"s", b, "">> \in StatementNames
      /\ \A b \in ConditionBodies : <<"b", b, "">> \in StatementNames
      /\ \A b \in SpecialBodies : <<"", b, "">> \in StatementNames
  BY DEF StatementNames
<1>4. IllegalName \notin StatementNames
  <2>1. IllegalName[1] = "" /\ IllegalName[2] = "ILLEGAL" /\ IllegalName[3] = ""
    BY DEF IllegalName
  <2>2. "ILLEGAL" \notin RegisterBodies /\ "ILLEGAL" \notin SpecialBodies
    BY DEF RegisterBodies, ShiftBodies, SpecialBodies
  <2> QED
    BY <2>1, <2>2 DEF StatementNames
<1> QED
  BY <1>2, <1>3, <1>4

(* add or sub, sll, slt, ..., srl or sra *)
IntBodyOf(w, subtracts, arithmetic) ==
  IF Funct3(w) = FUNCT3_ADD /\ subtracts THEN "sub"
  ELSE IF Funct3(w) = FUNCT3_SR THEN ShiftBody(arithmetic)
  ELSE IntBody[Funct3(w) + 1]

LEMMA IntBodyFits ==
  ASSUME NEW w \in Bits, NEW subtracts \in BOOLEAN, NEW arithmetic \in BOOLEAN,
         NEW body, body = IntBodyOf(w, subtracts, arithmetic)
  PROVE  /\ body \in RegisterBodies /\ ArithmeticFunct3[body] = Funct3(w)
         /\ body \in {"add", "sub"} => (subtracts <=> body = "sub")
         /\ body \in {"srl", "sra"} => (arithmetic <=> body = "sra")
         /\ Funct3(w) \in {FUNCT3_ADD, FUNCT3_SLL, FUNCT3_SR} => body \in NarrowBodies
         /\ body = "sub" => subtracts
<1>1. Funct3(w) \in 0..7
  BY Funct3Bound
<1>2. /\ "sub" \in NarrowBodies /\ "srl" \in NarrowBodies /\ "sra" \in NarrowBodies
      /\ \A b \in NarrowBodies : b \in RegisterBodies
  BY CodeTables DEF NarrowBodies
<1>3. CASE Funct3(w) = FUNCT3_ADD /\ subtracts
  <2>1. body = "sub" /\ Funct3(w) = 0
    BY <1>3 DEF IntBodyOf, FUNCT3_ADD
  <2> QED
    BY <1>2, <1>3, <2>1, PrintedBodies
<1>4. CASE Funct3(w) = FUNCT3_SR
  <2>1. body = (IF arithmetic THEN "sra" ELSE "srl") /\ Funct3(w) = 5
    BY <1>4 DEF IntBodyOf, ShiftBody, FUNCT3_SR, FUNCT3_ADD
  <2> QED
    BY <1>2, <2>1, PrintedBodies
<1>5. CASE Funct3(w) # FUNCT3_SR /\ ~(Funct3(w) = FUNCT3_ADD /\ subtracts)
  <2>1. body = IntBody[Funct3(w) + 1] /\ Funct3(w) \in (0..7) \ {5}
    BY <1>1, <1>5 DEF IntBodyOf, FUNCT3_SR
  <2>2. body \in RegisterBodies \ {"sub", "srl", "sra"} /\ ArithmeticFunct3[body] = Funct3(w)
    BY <2>1, PrintedBodies
  <2>3. body = "add" => ~subtracts
    <3>1. body = "add" => Funct3(w) = 0
      BY <2>2 DEF ArithmeticFunct3
    <3> QED
      BY <1>5, <3>1 DEF FUNCT3_ADD
  <2>4. Funct3(w) \in {FUNCT3_ADD, FUNCT3_SLL, FUNCT3_SR} => body \in NarrowBodies
    <3>1. Funct3(w) \in {FUNCT3_ADD, FUNCT3_SLL, FUNCT3_SR} => Funct3(w) \in {0, 1}
      BY <1>5 DEF FUNCT3_ADD, FUNCT3_SLL, FUNCT3_SR
    <3> QED
      BY <2>1, <3>1, PrintedBodies
  <2> QED
    BY <2>2, <2>3, <2>4
<1> QED
  BY <1>3, <1>4, <1>5

Readable(w, s) == IF Accepted(w) THEN Spelled(w, s) ELSE s.name = IllegalName

LEMMA ShiftKinds ==
  ASSUME NEW w \in Bits
  PROVE  /\ ShiftKindOf64(w) => (Funct7(w) \div 2 # 0 <=> ArithmeticShift(w))
         /\ ShiftKindOf32(w) => (Funct7(w) # 0 <=> ArithmeticShift(w))
<1>1. /\ Funct7(w) \in 0..127 /\ Field(w, 31, 26) \in 0..63
      /\ Funct7(w) \div 2 = Field(w, 31, 26)
  BY Funct7Halves
<1> QED
  BY <1>1 DEF ShiftKindOf64, ShiftKindOf32, ArithmeticShift, FUNCT7_SUB

LEMMA AcceptedOf ==
  ASSUME NEW w
  PROVE  /\ Opcode(w) = OP_INT =>
              (Accepted(w) <=> /\ Funct3(w) = FUNCT3_ADD => AddOrSub(w)
                               /\ Funct3(w) = FUNCT3_SR => ShiftKindOf64(w))
         /\ Opcode(w) = OP_INTIMM =>
              (Accepted(w) <=> (Funct3(w) = FUNCT3_SR => ShiftKindOf64(w)))
         /\ Opcode(w) = OP_INTW =>
              (Accepted(w) <=> \/ Funct3(w) = FUNCT3_ADD /\ AddOrSub(w)
                               \/ Funct3(w) = FUNCT3_SLL
                               \/ Funct3(w) = FUNCT3_SR /\ ShiftKindOf32(w))
         /\ Opcode(w) = OP_INTIMMW =>
              (Accepted(w) <=> \/ Funct3(w) \in {FUNCT3_ADD, FUNCT3_SLL}
                               \/ Funct3(w) = FUNCT3_SR /\ ShiftKindOf32(w))
         /\ Opcode(w) = OP_LOAD => (Accepted(w) <=> Funct3(w) <= 6)
         /\ Opcode(w) = OP_STORE => (Accepted(w) <=> Funct3(w) <= 3)
         /\ Opcode(w) = OP_BRANCH => (Accepted(w) <=> Funct3(w) \notin {2, 3})
         /\ Opcode(w) \in {OP_JALR, OP_AUIPC, OP_LUI, OP_JAL} => Accepted(w)
         /\ Opcode(w) \notin Opcodes => ~Accepted(w)
BY DEF Accepted, Opcodes, OP_INT, OP_INTW, OP_INTIMM, OP_INTIMMW, OP_LOAD, OP_STORE, OP_BRANCH,
       OP_LUI, OP_AUIPC, OP_JAL, OP_JALR

LEMMA OpStrings ==
  ASSUME NEW w
  PROVE  /\ Opcode(w) = OP_INT => GetOpString(w) = IntName(w, "")
         /\ Opcode(w) = OP_INTIMM => GetOpString(w) = IntName(w, "i")
         /\ Opcode(w) = OP_INTW => GetOpString(w) = IntWName(w, "w")
         /\ Opcode(w) = OP_INTIMMW => GetOpString(w) = IntWName(w, "iw")
         /\ Opcode(w) = OP_LOAD =>
              GetOpString(w) = IF Funct3(w) <= 6 THEN <<"l", MemBody[Funct3(w) + 1], "">>
                               ELSE IllegalName
         /\ Opcode(w) = OP_STORE =>
              GetOpString(w) = IF Funct3(w) <= 3 THEN <<"s", MemBody[Funct3(w) + 1], "">>
                               ELSE IllegalName
         /\ Opcode(w) = OP_BRANCH =>
              GetOpString(w) = IF Funct3(w) \in DOMAIN BranchBody
                               THEN <<"b", BranchBody[Funct3(w)], "">> ELSE IllegalName
         /\ Opcode(w) = OP_JAL => GetOpString(w) = <<"", "jal", "">>
         /\ Opcode(w) = OP_JALR => GetOpString(w) = <<"", "jalr", "">>
         /\ Opcode(w) = OP_LUI => GetOpString(w) = <<"", "lui", "">>
         /\ Opcode(w) = OP_AUIPC => GetOpString(w) = <<"", "auipc", "">>
         /\ Opcode(w) \notin Opcodes => GetOpString(w) = IllegalName
<1>1. /\ OP_INTIMM # OP_INT /\ OP_INTW \notin {OP_INT, OP_INTIMM}
      /\ OP_INTIMMW \notin {OP_INT, OP_INTIMM, OP_INTW}
      /\ OP_LOAD \notin {OP_INT, OP_INTIMM, OP_INTW, OP_INTIMMW, OP_STORE, OP_BRANCH, OP_JAL,
                         OP_JALR, OP_LUI, OP_AUIPC}
      /\ OP_STORE \notin {OP_INT, OP_INTIMM, OP_INTW, OP_INTIMMW, OP_LOAD, OP_BRANCH, OP_JAL,
                         OP_JALR, OP_LUI, OP_AUIPC}
      /\ OP_BRANCH \notin {OP_INT, OP_INTIMM, OP_INTW, OP_INTIMMW, OP_LOAD, OP_STORE, OP_JAL,
                         OP_JALR, OP_LUI, OP_AUIPC}
      /\ OP_JAL \notin {OP_INT, OP_INTIMM, OP_INTW, OP_INTIMMW, OP_LOAD, OP_STORE, OP_BRANCH}
      /\ OP_JALR \notin {OP_INT, OP_INTIMM, OP_INTW, OP_INTIMMW, OP_LOAD, OP_STORE, OP_BRANCH,
                         OP_JAL}
      /\ OP_LUI \notin {OP_INT, OP_INTIMM, OP_INTW, OP_INTIMMW, OP_LOAD, OP_STORE, OP_BRANCH,
                         OP_JAL, OP_JALR}
      /\ OP_AUIPC \notin {OP_INT, OP_INTIMM, OP_INTW, OP_INTIMMW, OP_LOAD, OP_STORE, OP_BRANCH,
                         OP_JAL, OP_JALR, OP_LUI}
  BY DEF OP_INT, OP_INTW, OP_INTIMM, OP_INTIMMW, OP_LOAD, OP_STORE, OP_BRANCH,
         OP_LUI, OP_AUIPC, OP_JAL, OP_JALR
<1>2. /\ Opcode(w) = OP_INT => GetOpString(w) = IntName(w, "")
      /\ Opcode(w) = OP_INTIMM => GetOpString(w) = IntName(w, "i")
      /\ Opcode(w) = OP_INTW => GetOpString(w) = IntWName(w, "w")
      /\ Opcode(w) = OP_INTIMMW => GetOpString(w) = IntWName(w, "iw")
  BY <1>1 DEF GetOpString
<1> SUFFICES ASSUME NEW f, f = Funct3(w)
             PROVE  /\ Opcode(w) = OP_LOAD =>
                         GetOpString(w) = IF f <= 6 THEN <<"l", MemBody[f + 1], "">>
                                          ELSE IllegalName
                    /\ Opcode(w) = OP_STORE =>
                         GetOpString(w) = IF f <= 3 THEN <<"s", MemBody[f + 1], "">>
                                          ELSE IllegalName
                    /\ Opcode(w) = OP_BRANCH =>
                         GetOpString(w) = IF f \in DOMAIN BranchBody
                                          THEN <<"b", BranchBody[f], "">> ELSE IllegalName
                    /\ Opcode(w) = OP_JAL => GetOpString(w) = <<"", "jal", "">>
                    /\ Opcode(w) = OP_JALR => GetOpString(w) = <<"", "jalr", "">>
                    /\ Opcode(w) = OP_LUI => GetOpString(w) = <<"", "lui", "">>
                    /\ Opcode(w) = OP_AUIPC => GetOpString(w) = <<"", "auipc", "">>
                    /\ Opcode(w) \notin Opcodes => GetOpString(w) = IllegalName
  BY <1>2
<1>3. GetOpString(w) =
        IF Opcode(w) = OP_INT THEN IntName(w, "")
        ELSE IF Opcode(w) = OP_INTIMM THEN IntName(w, "i")
        ELSE IF Opcode(w) = OP_INTW THEN IntWName(w, "w")
        ELSE IF Opcode(w) = OP_INTIMMW THEN IntWName(w, "iw")
        ELSE IF Opcode(w) = OP_LOAD /\ f <= 6 THEN <<"l", MemBody[f + 1], "">>
        ELSE IF Opcode(w) = OP_STORE /\ f <= 3 THEN <<"s", MemBody[f + 1], "">>
        ELSE IF Opcode(w) = OP_BRANCH /\ f \in DOMAIN BranchBody
          THEN <<"b", BranchBody[f], "">>
        ELSE IF Opcode(w) = OP_JAL THEN <<"", "jal", "">>
        ELSE IF Opcode(w) = OP_JALR THEN <<"", "jalr", "">>
        ELSE IF Opcode(w) = OP_LUI THEN <<"", "lui", "">>
        ELSE IF Opcode(w) = OP_AUIPC THEN <<"", "auipc", "">>
        ELSE IllegalName
  BY Zenon DEF GetOpString
<1> QED
  BY <1>1, <1>3 DEF Opcodes

LEMMA IntNames ==
  ASSUME NEW w, NEW suffix
  PROVE  LET sub == Opcode(w) = OP_INT /\ Funct7(w) = FUNCT7_SUB
         IN /\ IntName(w, suffix) =
                 IF \/ Funct3(w) = FUNCT3_ADD /\ Opcode(w) = OP_INT /\ ~AddOrSub(w)
                    \/ Funct3(w) = FUNCT3_SR /\ ~ShiftKindOf64(w)
                 THEN IllegalName
                 ELSE <<"", IntBodyOf(w, sub, Funct7(w) \div 2 # 0), suffix>>
            /\ IntWName(w, suffix) =
                 IF \/ Funct3(w) \notin {FUNCT3_ADD, FUNCT3_SLL, FUNCT3_SR}
                    \/ Funct3(w) = FUNCT3_ADD /\ ~AddOrSub(w)
                    \/ Funct3(w) = FUNCT3_SR /\ ~ShiftKindOf32(w)
                 THEN IllegalName
                 ELSE <<"", IntBodyOf(w, Funct7(w) = FUNCT7_SUB, Funct7(w) # 0), suffix>>
BY Zenon DEF IntName, IntWName, IntBodyOf

(* The codes of a form are those of its body. *)
LEMMA SpelledBy ==
  ASSUME NEW w, NEW s, NEW body, body = Body(s),
         Funct3(w) = ArithmeticFunct3[body],
         body \in {"add", "sub"} /\ Opcode(w) \in RegisterArith =>
           (Funct7(w) = FUNCT7_SUB <=> body = "sub"),
         body \in {"srl", "sra"} => (ArithmeticShift(w) <=> body = "sra"),
         \/ IsRegister(s) /\ Opcode(w) = OP_INT
         \/ IsNarrowRegister(s) /\ Opcode(w) = OP_INTW
         \/ IsImmediate(s) /\ Opcode(w) = OP_INTIMM
         \/ IsNarrowImmediate(s) /\ Opcode(w) = OP_INTIMMW,
         s.name \in StatementNames
  PROVE  Spelled(w, s)
<1>1. /\ Opcode(w) = OpcodeOf(s) /\ Funct3Of(s) = ArithmeticFunct3[body]
      /\ Format(s) = "R" => Opcode(w) \in RegisterArith
  <2>1. CASE IsRegister(s) /\ Opcode(w) = OP_INT
    BY <2>1, RegisterForm, DistinctOpcodes, Zenon
  <2>2. CASE IsNarrowRegister(s) /\ Opcode(w) = OP_INTW
    BY <2>2, NarrowRegisterForm, DistinctOpcodes, Zenon
  <2>3. CASE IsImmediate(s) /\ Opcode(w) = OP_INTIMM
    BY <2>3, ImmediateForm
  <2>4. CASE IsNarrowImmediate(s) /\ Opcode(w) = OP_INTIMMW
    BY <2>4, NarrowImmediateForm
  <2> QED
    BY <2>1, <2>2, <2>3, <2>4
<1> QED
  BY <1>1 DEF Spelled

LEMMA RegisterSpelled ==
  ASSUME NEW w \in Bits, NEW s, s.name = GetOpString(w), Opcode(w) = OP_INT
  PROVE  Readable(w, s)
<1> DEFINE sub == Opcode(w) = OP_INT /\ Funct7(w) = FUNCT7_SUB
           arith == Funct7(w) \div 2 # 0
           body == IntBodyOf(w, sub, arith)
<1>1. s.name = IF Accepted(w) THEN <<"", body, "">> ELSE IllegalName
  <2>1. IntName(w, "") =
          IF \/ Funct3(w) = FUNCT3_ADD /\ Opcode(w) = OP_INT /\ ~AddOrSub(w)
             \/ Funct3(w) = FUNCT3_SR /\ ~ShiftKindOf64(w)
          THEN IllegalName ELSE <<"", body, "">>
    BY IntNames, Zenon
  <2> HIDE DEF body
  <2>2. s.name = IntName(w, "")
    BY OpStrings
  <2>3. Accepted(w) <=> /\ Funct3(w) = FUNCT3_ADD => AddOrSub(w)
                        /\ Funct3(w) = FUNCT3_SR => ShiftKindOf64(w)
    BY AcceptedOf
  <2> QED
    BY <2>1, <2>2, <2>3, Zenon
<1>2. ASSUME Accepted(w)
      PROVE  Spelled(w, s)
  <2>1. s.name = <<"", body, "">> /\ (Funct3(w) = FUNCT3_SR => ShiftKindOf64(w))
    BY <1>1, <1>2, AcceptedOf, Zenon
  <2>2. sub \in BOOLEAN /\ arith \in BOOLEAN
    OBVIOUS
  <2>3. /\ sub <=> Funct7(w) = FUNCT7_SUB
        /\ Funct3(w) = FUNCT3_SR => (arith <=> ArithmeticShift(w))
    BY <2>1, ShiftKinds
  <2> HIDE DEF sub, arith
  <2>4. /\ body \in RegisterBodies /\ ArithmeticFunct3[body] = Funct3(w)
        /\ body \in {"add", "sub"} => (sub <=> body = "sub")
        /\ body \in {"srl", "sra"} => (arith <=> body = "sra")
    BY <2>2, IntBodyFits, Zenon
  <2> HIDE DEF body
  <2>5. IsRegister(s) /\ Body(s) = body /\ s.name \in StatementNames
    BY <2>1, <2>4, FormNames, NamesOfForms
  <2>6. body \in {"srl", "sra"} => Funct3(w) = FUNCT3_SR
    BY <2>4, PrintedBodies DEF FUNCT3_SR
  <2>7. /\ body \in {"add", "sub"} => (Funct7(w) = FUNCT7_SUB <=> body = "sub")
        /\ body \in {"srl", "sra"} => (ArithmeticShift(w) <=> body = "sra")
    BY <2>3, <2>4, <2>6, Zenon
  <2> QED
    BY <2>4, <2>5, <2>7, SpelledBy
<1> QED
  BY <1>1, <1>2, Zenon DEF Readable

LEMMA ImmediateSpelled ==
  ASSUME NEW w \in Bits, NEW s, s.name = GetOpString(w), Opcode(w) = OP_INTIMM
  PROVE  Readable(w, s)
<1> DEFINE sub == Opcode(w) = OP_INT /\ Funct7(w) = FUNCT7_SUB
           arith == Funct7(w) \div 2 # 0
           body == IntBodyOf(w, sub, arith)
<1>1. Opcode(w) # OP_INT /\ Opcode(w) \notin RegisterArith
  BY DEF OP_INT, OP_INTW, OP_INTIMM, RegisterArith
<1>2. s.name = IF Accepted(w) THEN <<"", body, "i">> ELSE IllegalName
  <2>1. IntName(w, "i") =
          IF \/ Funct3(w) = FUNCT3_ADD /\ Opcode(w) = OP_INT /\ ~AddOrSub(w)
             \/ Funct3(w) = FUNCT3_SR /\ ~ShiftKindOf64(w)
          THEN IllegalName ELSE <<"", body, "i">>
    BY IntNames, Zenon
  <2> HIDE DEF body
  <2>2. s.name = IntName(w, "i")
    BY OpStrings
  <2>3. Accepted(w) <=> (Funct3(w) = FUNCT3_SR => ShiftKindOf64(w))
    BY AcceptedOf
  <2> QED
    BY <1>1, <2>1, <2>2, <2>3, Zenon
<1>3. ASSUME Accepted(w)
      PROVE  Spelled(w, s)
  <2>1. s.name = <<"", body, "i">> /\ (Funct3(w) = FUNCT3_SR => ShiftKindOf64(w))
    BY <1>2, <1>3, AcceptedOf, Zenon
  <2>2. sub \in BOOLEAN /\ arith \in BOOLEAN /\ ~sub
    BY <1>1
  <2>3. Funct3(w) = FUNCT3_SR => (arith <=> ArithmeticShift(w))
    BY <2>1, ShiftKinds
  <2> HIDE DEF sub, arith
  <2>4. /\ body \in RegisterBodies /\ ArithmeticFunct3[body] = Funct3(w)
        /\ body # "sub"
        /\ body \in {"srl", "sra"} => (arith <=> body = "sra")
    BY <2>2, IntBodyFits, Zenon
  <2> HIDE DEF body
  <2>5. IsImmediate(s) /\ Body(s) = body /\ s.name \in StatementNames
    <3>1. body \in RegisterBodies \ {"sub"}
      BY <2>4
    <3>2. s.name \in StatementNames
      BY <2>1, <3>1, NamesOfForms, Zenon
    <3>3. s.name[1] = "" /\ Body(s) = body /\ s.name[3] = "i"
      <4> DEFINE suffix == "i"
                 prefix == ""
      <4>1. s.name = <<prefix, body, suffix>>
        BY <2>1
      <4> HIDE DEF suffix, prefix
      <4>2. s.name[1] = prefix /\ s.name[2] = body /\ s.name[3] = suffix
        BY <4>1
      <4> QED
        BY <4>2, Zenon DEF Body, prefix, suffix
    <3> QED
      BY <3>1, <3>2, <3>3, Zenon DEF IsImmediate, IsForm
  <2>6. body \in {"srl", "sra"} => Funct3(w) = FUNCT3_SR
    BY <2>4, PrintedBodies DEF FUNCT3_SR
  <2>7. body \in {"srl", "sra"} => (ArithmeticShift(w) <=> body = "sra")
    BY <2>3, <2>4, <2>6, Zenon
  <2> QED
    BY <1>1, <2>4, <2>5, <2>7, SpelledBy
<1> QED
  BY <1>2, <1>3, Zenon DEF Readable

LEMMA NarrowRegisterSpelled ==
  ASSUME NEW w \in Bits, NEW s, s.name = GetOpString(w), Opcode(w) = OP_INTW
  PROVE  Readable(w, s)
<1> DEFINE sub == Funct7(w) = FUNCT7_SUB
           arith == Funct7(w) # 0
           body == IntBodyOf(w, sub, arith)
<1>1. FUNCT3_ADD # FUNCT3_SLL /\ FUNCT3_ADD # FUNCT3_SR /\ FUNCT3_SLL # FUNCT3_SR
  BY DEF FUNCT3_ADD, FUNCT3_SLL, FUNCT3_SR
<1>2. s.name = IF Accepted(w) THEN <<"", body, "w">> ELSE IllegalName
  <2>1. IntWName(w, "w") =
          IF \/ Funct3(w) \notin {FUNCT3_ADD, FUNCT3_SLL, FUNCT3_SR}
             \/ Funct3(w) = FUNCT3_ADD /\ ~AddOrSub(w)
             \/ Funct3(w) = FUNCT3_SR /\ ~ShiftKindOf32(w)
          THEN IllegalName ELSE <<"", body, "w">>
    BY IntNames, Zenon
  <2> HIDE DEF body
  <2>2. s.name = IntWName(w, "w")
    BY OpStrings
  <2>3. Accepted(w) <=> \/ Funct3(w) = FUNCT3_ADD /\ AddOrSub(w)
                        \/ Funct3(w) = FUNCT3_SLL
                        \/ Funct3(w) = FUNCT3_SR /\ ShiftKindOf32(w)
    BY AcceptedOf
  <2> QED
    BY <1>1, <2>1, <2>2, <2>3, Zenon
<1>3. ASSUME Accepted(w)
      PROVE  Spelled(w, s)
  <2>1. /\ s.name = <<"", body, "w">> /\ Funct3(w) \in {FUNCT3_ADD, FUNCT3_SLL, FUNCT3_SR}
        /\ Funct3(w) = FUNCT3_SR => ShiftKindOf32(w)
    BY <1>1, <1>2, <1>3, AcceptedOf, Zenon
  <2>2. sub \in BOOLEAN /\ arith \in BOOLEAN
    OBVIOUS
  <2>3. Funct3(w) = FUNCT3_SR => (arith <=> ArithmeticShift(w))
    BY <2>1, ShiftKinds
  <2> HIDE DEF arith
  <2>4. /\ body \in NarrowBodies /\ ArithmeticFunct3[body] = Funct3(w)
        /\ body \in {"add", "sub"} => (sub <=> body = "sub")
        /\ body \in {"srl", "sra"} => (arith <=> body = "sra")
    BY <2>1, <2>2, IntBodyFits, Zenon
  <2> HIDE DEF body
  <2>5. IsNarrowRegister(s) /\ Body(s) = body /\ s.name \in StatementNames
    BY <2>1, <2>4, FormNames, NamesOfForms
  <2>6. body \in {"srl", "sra"} => Funct3(w) = FUNCT3_SR
    BY <2>4, PrintedBodies DEF FUNCT3_SR
  <2>7. /\ body \in {"add", "sub"} => (Funct7(w) = FUNCT7_SUB <=> body = "sub")
        /\ body \in {"srl", "sra"} => (ArithmeticShift(w) <=> body = "sra")
    BY <2>3, <2>4, <2>6, Zenon
  <2> QED
    BY <2>4, <2>5, <2>7, SpelledBy
<1> QED
  BY <1>2, <1>3, Zenon DEF Readable

LEMMA NarrowImmediateSpelled ==
  ASSUME NEW w \in Bits, NEW s, s.name = GetOpString(w), Opcode(w) = OP_INTIMMW,
         ~AddiwByFunct7(w)
  PROVE  Readable(w, s)
<1> DEFINE sub == Funct7(w) = FUNCT7_SUB
           arith == Funct7(w) # 0
           body == IntBodyOf(w, sub, arith)
<1>1. /\ FUNCT3_ADD # FUNCT3_SLL /\ FUNCT3_ADD # FUNCT3_SR /\ FUNCT3_SLL # FUNCT3_SR
      /\ Opcode(w) \notin RegisterArith
  BY DEF FUNCT3_ADD, FUNCT3_SLL, FUNCT3_SR, OP_INT, OP_INTW, OP_INTIMMW, RegisterArith
<1>2. Funct3(w) = FUNCT3_ADD => AddOrSub(w) /\ Funct7(w) # FUNCT7_SUB
  BY DEF AddiwByFunct7, AddOrSub, FUNCT7_ADD, FUNCT7_SUB
<1>3. s.name = IF Accepted(w) THEN <<"", body, "iw">> ELSE IllegalName
  <2>1. IntWName(w, "iw") =
          IF \/ Funct3(w) \notin {FUNCT3_ADD, FUNCT3_SLL, FUNCT3_SR}
             \/ Funct3(w) = FUNCT3_ADD /\ ~AddOrSub(w)
             \/ Funct3(w) = FUNCT3_SR /\ ~ShiftKindOf32(w)
          THEN IllegalName ELSE <<"", body, "iw">>
    BY IntNames, Zenon
  <2> HIDE DEF body
  <2>2. s.name = IntWName(w, "iw")
    BY OpStrings
  <2>3. Accepted(w) <=> \/ Funct3(w) \in {FUNCT3_ADD, FUNCT3_SLL}
                        \/ Funct3(w) = FUNCT3_SR /\ ShiftKindOf32(w)
    BY AcceptedOf
  <2> QED
    BY <1>1, <1>2, <2>1, <2>2, <2>3, Zenon
<1>4. ASSUME Accepted(w)
      PROVE  Spelled(w, s)
  <2>1. /\ s.name = <<"", body, "iw">> /\ Funct3(w) \in {FUNCT3_ADD, FUNCT3_SLL, FUNCT3_SR}
        /\ Funct3(w) = FUNCT3_SR => ShiftKindOf32(w)
    BY <1>1, <1>3, <1>4, AcceptedOf, Zenon
  <2>2. sub \in BOOLEAN /\ arith \in BOOLEAN
    OBVIOUS
  <2>3. Funct3(w) = FUNCT3_SR => (arith <=> ArithmeticShift(w))
    BY <2>1, ShiftKinds
  <2> HIDE DEF arith
  <2>4. /\ body \in NarrowBodies /\ ArithmeticFunct3[body] = Funct3(w)
        /\ body \in {"add", "sub"} => (sub <=> body = "sub")
        /\ body \in {"srl", "sra"} => (arith <=> body = "sra")
    BY <2>1, <2>2, IntBodyFits, Zenon
  <2> HIDE DEF body
  <2>5. body # "sub"
    <3>1. body = "sub" => Funct3(w) = FUNCT3_ADD
      BY <2>4, PrintedBodies DEF FUNCT3_ADD
    <3> QED
      BY <1>2, <2>4, <3>1
  <2>6. IsNarrowImmediate(s) /\ Body(s) = body /\ s.name \in StatementNames
    <3>1. body \in NarrowBodies \ {"sub"}
      BY <2>4, <2>5
    <3>2. s.name \in StatementNames
      BY <2>1, <3>1, NamesOfForms, Zenon
    <3>3. s.name[1] = "" /\ Body(s) = body /\ s.name[3] = "iw"
      <4> DEFINE suffix == "iw"
                 prefix == ""
      <4>1. s.name = <<prefix, body, suffix>>
        BY <2>1
      <4> HIDE DEF suffix, prefix
      <4>2. s.name[1] = prefix /\ s.name[2] = body /\ s.name[3] = suffix
        BY <4>1
      <4> QED
        BY <4>2, Zenon DEF Body, prefix, suffix
    <3> QED
      BY <3>1, <3>2, <3>3, Zenon DEF IsNarrowImmediate, IsForm
  <2>7. body \in {"srl", "sra"} => Funct3(w) = FUNCT3_SR
    BY <2>4, PrintedBodies DEF FUNCT3_SR
  <2>8. body \in {"srl", "sra"} => (ArithmeticShift(w) <=> body = "sra")
    BY <2>3, <2>4, <2>7, Zenon
  <2> QED
    BY <1>1, <2>4, <2>6, <2>8, SpelledBy
<1> QED
  BY <1>3, <1>4, Zenon DEF Readable

LEMMA LoadSpelled ==
  ASSUME NEW w \in Bits, NEW s, s.name = GetOpString(w), Opcode(w) = OP_LOAD
  PROVE  Readable(w, s)
<1> DEFINE f == Funct3(w)
           body == MemBody[f + 1]
<1>1. f \in 0..7
  BY Funct3Bound
<1>2. GetOpString(w) = (IF f <= 6 THEN <<"l", body, "">> ELSE IllegalName)
  BY OpStrings
<1>3. Accepted(w) <=> f <= 6
  BY AcceptedOf
<1>4. ASSUME Accepted(w)
      PROVE  Spelled(w, s)
  <2>1. f \in 0..6
    BY <1>1, <1>3, <1>4
  <2>2. body \in LoadBodies /\ WidthFunct3[body] = f
    BY <2>1, PrintedBodies
  <2> HIDE DEF body, f
  <2>3. s.name = <<"l", body, "">>
    BY <1>2, <1>3, <1>4
  <2>4. IsLoad(s) /\ Body(s) = body /\ s.name \in StatementNames
    BY <2>2, <2>3, FormNames, NamesOfForms
  <2>5. Format(s) = "I" /\ OpcodeOf(s) = OP_LOAD /\ Funct3Of(s) = f
    BY <2>2, <2>4, LoadForm
  <2>6. body \notin {"srl", "sra"}
    BY <2>2 DEF LoadBodies
  <2> QED
    BY <2>4, <2>5, <2>6 DEF Spelled, f
<1> QED
  BY <1>2, <1>3, <1>4 DEF Readable

LEMMA StoreSpelled ==
  ASSUME NEW w \in Bits, NEW s, s.name = GetOpString(w), Opcode(w) = OP_STORE
  PROVE  Readable(w, s)
<1> DEFINE f == Funct3(w)
           body == MemBody[f + 1]
<1>1. f \in 0..7
  BY Funct3Bound
<1>2. GetOpString(w) = (IF f <= 3 THEN <<"s", body, "">> ELSE IllegalName)
  BY OpStrings
<1>3. Accepted(w) <=> f <= 3
  BY AcceptedOf
<1>4. ASSUME Accepted(w)
      PROVE  Spelled(w, s)
  <2>1. f \in 0..3
    BY <1>1, <1>3, <1>4
  <2>2. body \in StoreBodies /\ WidthFunct3[body] = f
    BY <2>1, PrintedBodies
  <2> HIDE DEF body, f
  <2>3. s.name = <<"s", body, "">>
    BY <1>2, <1>3, <1>4
  <2>4. IsStore(s) /\ Body(s) = body /\ s.name \in StatementNames
    BY <2>2, <2>3, FormNames, NamesOfForms
  <2>5. Format(s) = "S" /\ OpcodeOf(s) = OP_STORE /\ Funct3Of(s) = f
    BY <2>2, <2>4, StoreForm
  <2>6. body \notin {"srl", "sra"}
    BY <2>2 DEF StoreBodies
  <2> QED
    BY <2>4, <2>5, <2>6 DEF Spelled, f
<1> QED
  BY <1>2, <1>3, <1>4 DEF Readable

LEMMA BranchSpelled ==
  ASSUME NEW w \in Bits, NEW s, s.name = GetOpString(w), Opcode(w) = OP_BRANCH
  PROVE  Readable(w, s)
<1> DEFINE f == Funct3(w)
           body == BranchBody[f]
<1>1. f \in 0..7
  BY Funct3Bound
<1>2. GetOpString(w) = (IF f \in DOMAIN BranchBody THEN <<"b", body, "">> ELSE IllegalName)
  BY OpStrings
<1>3. Accepted(w) <=> f \in DOMAIN BranchBody
  <2>1. Accepted(w) <=> f \notin {2, 3}
    BY AcceptedOf
  <2>2. DOMAIN BranchBody = {0, 1, 4, 5, 6, 7}
    BY PrintedBodies
  <2> QED
    BY <1>1, <2>1, <2>2
<1>4. ASSUME Accepted(w)
      PROVE  Spelled(w, s)
  <2>1. f \in {0, 1, 4, 5, 6, 7}
    BY <1>3, <1>4, PrintedBodies
  <2>2. body \in ConditionBodies /\ ConditionFunct3[body] = f
    BY <2>1, PrintedBodies
  <2> HIDE DEF body, f
  <2>3. s.name = <<"b", body, "">>
    BY <1>2, <1>3, <1>4
  <2>4. IsBranch(s) /\ Body(s) = body /\ s.name \in StatementNames
    BY <2>2, <2>3, FormNames, NamesOfForms
  <2>5. Format(s) = "B" /\ OpcodeOf(s) = OP_BRANCH /\ Funct3Of(s) = f
    BY <2>2, <2>4, BranchForm
  <2>6. body \notin {"srl", "sra"}
    BY <2>2 DEF ConditionBodies
  <2> QED
    BY <2>4, <2>5, <2>6 DEF Spelled, f
<1> QED
  BY <1>2, <1>3, <1>4 DEF Readable

LEMMA SpecialSpelled ==
  ASSUME NEW w \in Bits, NEW s, s.name = GetOpString(w),
         Opcode(w) \in {OP_JALR, OP_AUIPC, OP_LUI, OP_JAL}
  PROVE  Readable(w, s)
<1>1. PICK body \in SpecialBodies :
        /\ s.name = <<"", body, "">>
        /\ body = "lui" => Opcode(w) = OP_LUI
        /\ body = "auipc" => Opcode(w) = OP_AUIPC
        /\ body = "jal" => Opcode(w) = OP_JAL
        /\ body = "jalr" => Opcode(w) = OP_JALR
  BY OpStrings DEF SpecialBodies
<1>2. IsSpecial(s) /\ Body(s) = body /\ s.name \in StatementNames
  BY <1>1, FormNames, NamesOfForms
<1>3. body = "lui" \/ body = "auipc" \/ body = "jal" \/ body = "jalr"
  BY DEF SpecialBodies
<1>4. /\ Opcode(w) = OpcodeOf(s) /\ Format(s) # "R"
      /\ Format(s) \in {"U", "J"} \/ body = "jalr"
  BY <1>1, <1>2, <1>3, SpecialForm
<1>5. body \notin {"srl", "sra"}
  BY <1>3
<1>6. Accepted(w)
  BY AcceptedOf
<1> QED
  BY <1>2, <1>4, <1>5, <1>6 DEF Readable, Spelled

LEMMA AllReadable ==
  ASSUME NEW w \in Bits, NEW s, s.name = GetOpString(w), ~AddiwByFunct7(w)
  PROVE  Readable(w, s)
<1>1. CASE Opcode(w) \notin Opcodes
  BY <1>1, AcceptedOf, OpStrings, Zenon DEF Readable
<1>2. CASE Opcode(w) \in Opcodes
  BY <1>2, RegisterSpelled, ImmediateSpelled, NarrowRegisterSpelled, NarrowImmediateSpelled,
     LoadSpelled, StoreSpelled, BranchSpelled, SpecialSpelled DEF Opcodes
<1> QED
  BY <1>1, <1>2

(* Two names with the codes of a word are one name. *)
LEMMA DistinctBodies ==
  /\ \A b, c \in RegisterBodies :
       /\ ArithmeticFunct3[b] = ArithmeticFunct3[c]
       /\ b \in {"add", "sub"} /\ c \in {"add", "sub"} => (b = "sub" <=> c = "sub")
       /\ b \in {"srl", "sra"} /\ c \in {"srl", "sra"} => (b = "sra" <=> c = "sra")
       => b = c
  /\ \A b, c \in LoadBodies : WidthFunct3[b] = WidthFunct3[c] => b = c
  /\ \A b, c \in StoreBodies : WidthFunct3[b] = WidthFunct3[c] => b = c
  /\ \A b, c \in ConditionBodies : ConditionFunct3[b] = ConditionFunct3[c] => b = c
<1>1. ASSUME NEW b \in RegisterBodies, NEW c \in RegisterBodies,
             ArithmeticFunct3[b] = ArithmeticFunct3[c],
             b \in {"add", "sub"} /\ c \in {"add", "sub"} => (b = "sub" <=> c = "sub"),
             b \in {"srl", "sra"} /\ c \in {"srl", "sra"} => (b = "sra" <=> c = "sra")
      PROVE  b = c
  BY <1>1 DEF RegisterBodies, ShiftBodies, ArithmeticFunct3
<1>2. /\ \A b, c \in LoadBodies : WidthFunct3[b] = WidthFunct3[c] => b = c
      /\ \A b, c \in StoreBodies : WidthFunct3[b] = WidthFunct3[c] => b = c
  BY DEF LoadBodies, StoreBodies, WidthFunct3
<1>3. \A b, c \in ConditionBodies : ConditionFunct3[b] = ConditionFunct3[c] => b = c
  BY DEF ConditionBodies, ConditionFunct3
<1> QED
  BY <1>1, <1>2, <1>3

LEMMA NameOfParts ==
  ASSUME NEW s, NEW t, s.name \in StatementNames, t.name \in StatementNames,
         s.name[1] = t.name[1], Body(s) = Body(t), s.name[3] = t.name[3]
  PROVE  s.name = t.name
<1>1. \A n \in StatementNames : n = <<n[1], n[2], n[3]>>
  <2>1. ASSUME NEW A, NEW B, NEW C
        PROVE  \A n \in A \X B \X C : n = <<n[1], n[2], n[3]>>
    OBVIOUS
  <2> QED
    BY <2>1, Zenon DEF StatementNames
<1> QED
  BY <1>1 DEF Body

LEMMA SameName ==
  ASSUME NEW w, NEW s, NEW t, Spelled(w, s), Spelled(w, t)
  PROVE  s.name = t.name
<1>1. /\ s.name \in StatementNames /\ t.name \in StatementNames
      /\ OpcodeOf(s) = Opcode(w) /\ OpcodeOf(t) = Opcode(w)
  BY DEF Spelled
<1>2. Opcode(w) \in Opcodes
  BY <1>1, AllCodesFit DEF CodesFit
<1>3. CASE Opcode(w) \in {OP_INT, OP_INTIMM, OP_INTW, OP_INTIMMW}
  <2>1. /\ s.name[1] = t.name[1] /\ s.name[3] = t.name[3]
        /\ Body(s) \in RegisterBodies /\ Body(t) \in RegisterBodies
        /\ Funct3Of(s) = ArithmeticFunct3[Body(s)] /\ Funct3Of(t) = ArithmeticFunct3[Body(t)]
        /\ Format(s) \notin {"U", "J"} /\ Format(t) \notin {"U", "J"}
        /\ Body(s) \notin SpecialBodies /\ Body(t) \notin SpecialBodies
        /\ \/ Format(s) = "R" /\ Format(t) = "R"
           \/ Body(s) # "sub" /\ Body(t) # "sub"
    <3>1. CASE Opcode(w) = OP_INT
      <4>1. IsRegister(s) /\ IsRegister(t)
        BY <1>1, <3>1, FormsByOpcode
      <4> QED
        BY <4>1, RegisterForm DEF IsRegister, IsForm
    <3>2. CASE Opcode(w) = OP_INTIMM
      <4>1. IsImmediate(s) /\ IsImmediate(t)
        BY <1>1, <3>2, FormsByOpcode
      <4> QED
        BY <4>1, ImmediateForm DEF IsImmediate, IsForm
    <3>3. CASE Opcode(w) = OP_INTW
      <4>1. IsNarrowRegister(s) /\ IsNarrowRegister(t)
        BY <1>1, <3>3, FormsByOpcode
      <4> QED
        BY <4>1, NarrowRegisterForm, CodeTables DEF IsNarrowRegister, IsForm
    <3>4. CASE Opcode(w) = OP_INTIMMW
      <4>1. IsNarrowImmediate(s) /\ IsNarrowImmediate(t)
        BY <1>1, <3>4, FormsByOpcode
      <4> QED
        BY <4>1, NarrowImmediateForm, CodeTables DEF IsNarrowImmediate, IsForm
    <3> QED
      BY <1>3, <3>1, <3>2, <3>3, <3>4
  <2>2. Body(s) # "jalr" /\ Body(t) # "jalr"
    BY <2>1 DEF SpecialBodies
  <2>3. /\ ArithmeticFunct3[Body(s)] = ArithmeticFunct3[Body(t)]
        /\ Body(s) \in {"add", "sub"} /\ Body(t) \in {"add", "sub"} =>
             (Body(s) = "sub" <=> Body(t) = "sub")
        /\ Body(s) \in {"srl", "sra"} /\ Body(t) \in {"srl", "sra"} =>
             (Body(s) = "sra" <=> Body(t) = "sra")
    BY <2>1, <2>2 DEF Spelled
  <2>4. Body(s) = Body(t)
    BY <2>1, <2>3, DistinctBodies
  <2> QED
    BY <1>1, <2>1, <2>4, NameOfParts
<1>4. CASE Opcode(w) \in {OP_LOAD, OP_STORE, OP_BRANCH}
  <2>1. /\ s.name[1] = t.name[1] /\ s.name[3] = t.name[3] /\ Funct3Of(s) = Funct3Of(t)
        /\ \/ IsLoad(s) /\ IsLoad(t)
           \/ IsStore(s) /\ IsStore(t)
           \/ IsBranch(s) /\ IsBranch(t)
    <3>1. \/ IsLoad(s) /\ IsLoad(t)
          \/ IsStore(s) /\ IsStore(t)
          \/ IsBranch(s) /\ IsBranch(t)
      BY <1>1, <1>4, FormsByOpcode
    <3>2. /\ s.name[1] = t.name[1] /\ s.name[3] = t.name[3]
      BY <3>1 DEF IsForm, IsLoad, IsStore, IsBranch
    <3>3. /\ Format(s) \notin {"U", "J"} /\ Format(t) \notin {"U", "J"}
          /\ Body(s) # "jalr" /\ Body(t) # "jalr"
      BY <3>1, LoadForm, StoreForm, BranchForm DEF SpecialBodies
    <3> QED
      BY <3>1, <3>2, <3>3 DEF Spelled
  <2>2. CASE IsLoad(s) /\ IsLoad(t)
    <3>1. Body(s) \in LoadBodies /\ Body(t) \in LoadBodies
      BY <2>2 DEF IsForm, IsLoad
    <3> QED
      BY <1>1, <2>1, <2>2, <3>1, LoadForm, DistinctBodies, NameOfParts
  <2>3. CASE IsStore(s) /\ IsStore(t)
    <3>1. Body(s) \in StoreBodies /\ Body(t) \in StoreBodies
      BY <2>3 DEF IsForm, IsStore
    <3> QED
      BY <1>1, <2>1, <2>3, <3>1, StoreForm, DistinctBodies, NameOfParts
  <2>4. CASE IsBranch(s) /\ IsBranch(t)
    <3>1. Body(s) \in ConditionBodies /\ Body(t) \in ConditionBodies
      BY <2>4 DEF IsForm, IsBranch
    <3> QED
      BY <1>1, <2>1, <2>4, <3>1, BranchForm, DistinctBodies, NameOfParts
  <2> QED
    BY <2>1, <2>2, <2>3, <2>4
<1>5. CASE Opcode(w) \in {OP_LUI, OP_AUIPC, OP_JAL, OP_JALR}
  <2>1. Body(s) = Body(t) /\ IsSpecial(s) /\ IsSpecial(t)
    BY <1>1, <1>5, FormsByOpcode
  <2>2. s.name[1] = t.name[1] /\ s.name[3] = t.name[3]
    BY <2>1 DEF IsForm, IsSpecial
  <2> QED
    BY <1>1, <2>1, <2>2, NameOfParts
<1> QED
  BY <1>2, <1>3, <1>4, <1>5 DEF Opcodes

-----------------------------------------------------------------------------
(* What a reader of the diagram gets back.                                 *)

StatementRecord(t, rd, rs1, rs2, imm) ==
  t = [name |-> t.name, rd |-> rd, rs1 |-> rs1, rs2 |-> rs2, imm |-> imm]

LEMMA ReadBackFields ==
  ASSUME NEW n, NEW r, NEW m, NEW t, t = ReadBack(Shown(n, r, m))
  PROVE  /\ t.name = n
         /\ Format(t) = "R" => StatementRecord(t, r[1], r[2], r[3], m)
         /\ Format(t) = "S" => StatementRecord(t, 0, r[2], r[1], m)
         /\ Format(t) = "B" => StatementRecord(t, 0, r[1], r[2], m)
         /\ Format(t) \in {"U", "J"} => StatementRecord(t, r[1], 0, 0, m)
         /\ Format(t) \notin {"R", "S", "B", "U", "J"} => StatementRecord(t, r[1], r[2], 0, m)
<1> DEFINE named == [NoStatement EXCEPT !.name = n, !.imm = m]
<1>1. named = [name |-> n, rd |-> 0, rs1 |-> 0, rs2 |-> 0, imm |-> m]
  <2> DEFINE q == NoStatement
             p == [q EXCEPT !.name = n]
  <2>1. PICK a, z : q = [name |-> a, rd |-> 0, rs1 |-> 0, rs2 |-> 0, imm |-> z]
    BY Zenon DEF NoStatement
  <2> HIDE DEF q
  <2>2. p = [name |-> n, rd |-> 0, rs1 |-> 0, rs2 |-> 0, imm |-> z]
    BY <2>1
  <2>3. [q EXCEPT !.name = n, !.imm = m] = [p EXCEPT !.imm = m]
    BY Zenon
  <2> HIDE DEF p
  <2>4. [p EXCEPT !.imm = m] = [name |-> n, rd |-> 0, rs1 |-> 0, rs2 |-> 0, imm |-> m]
    BY <2>2
  <2> QED
    BY <2>3, <2>4, Zenon DEF q
<1>2. t = CASE Format(named) = "R" -> [named EXCEPT !.rd = r[1], !.rs1 = r[2], !.rs2 = r[3]]
            [] Format(named) = "S" -> [named EXCEPT !.rs2 = r[1], !.rs1 = r[2]]
            [] Format(named) = "B" -> [named EXCEPT !.rs1 = r[1], !.rs2 = r[2]]
            [] Format(named) \in {"U", "J"} -> [named EXCEPT !.rd = r[1]]
            [] OTHER -> [named EXCEPT !.rd = r[1], !.rs1 = r[2]]
  <2> DEFINE q == Shown(n, r, m)
  <2>1. q.name = n /\ q.regs = r /\ q.imm = m
    BY DEF Shown
  <2> HIDE DEF q
  <2>2. named = [NoStatement EXCEPT !.name = q.name, !.imm = q.imm]
    BY <2>1
  <2> HIDE DEF named
  <2>3. t = ReadBack(q)
    BY DEF q
  <2>4. t = CASE Format(named) = "R" ->
                   [named EXCEPT !.rd = q.regs[1], !.rs1 = q.regs[2], !.rs2 = q.regs[3]]
              [] Format(named) = "S" -> [named EXCEPT !.rs2 = q.regs[1], !.rs1 = q.regs[2]]
              [] Format(named) = "B" -> [named EXCEPT !.rs1 = q.regs[1], !.rs2 = q.regs[2]]
              [] Format(named) \in {"U", "J"} -> [named EXCEPT !.rd = q.regs[1]]
              [] OTHER -> [named EXCEPT !.rd = q.regs[1], !.rs1 = q.regs[2]]
    BY <2>2, <2>3 DEF ReadBack
  <2> QED
    BY <2>1, <2>4, Zenon
<1> HIDE DEF named
<1> DEFINE f == Format(named)
<1>3. /\ f = "R" => t = [name |-> n, rd |-> r[1], rs1 |-> r[2], rs2 |-> r[3], imm |-> m]
      /\ f = "S" => t = [name |-> n, rd |-> 0, rs1 |-> r[2], rs2 |-> r[1], imm |-> m]
      /\ f = "B" => t = [name |-> n, rd |-> 0, rs1 |-> r[1], rs2 |-> r[2], imm |-> m]
      /\ f \in {"U", "J"} => t = [name |-> n, rd |-> r[1], rs1 |-> 0, rs2 |-> 0, imm |-> m]
      /\ f \notin {"R", "S", "B", "U", "J"} =>
           t = [name |-> n, rd |-> r[1], rs1 |-> r[2], rs2 |-> 0, imm |-> m]
  <2> HIDE DEF f
  <2>1. CASE f = "R"
    BY <1>1, <1>2, <2>1 DEF f
  <2>2. CASE f = "S"
    BY <1>1, <1>2, <2>2 DEF f
  <2>3. CASE f = "B"
    BY <1>1, <1>2, <2>3 DEF f
  <2>4. CASE f \in {"U", "J"}
    BY <1>1, <1>2, <2>4 DEF f
  <2>5. CASE f \notin {"R", "S", "B", "U", "J"}
    BY <1>1, <1>2, <2>5 DEF f
  <2> QED
    BY <2>1, <2>2, <2>3, <2>4, <2>5
<1>4. t.name = n
  <2> HIDE DEF f
  <2> QED
    BY <1>3
<1>5. Format(t) = f
  <2>1. named.name = t.name
    BY <1>1, <1>4
  <2> QED
    BY <2>1, Zenon DEF Format, Body
<1> QED
  BY <1>3, <1>4, <1>5, Zenon DEF StatementRecord

LEMMA PrintedForms ==
  ASSUME NEW w, NEW n, n = GetOpString(w), ~IsHaltWord(w), ~IsNopWord(w)
  PROVE  IF n = IllegalName THEN PrintInstr(w) = IllegalShown
         ELSE /\ Opcode(w) \in RegisterArith =>
                   PrintInstr(w) = Shown(n, <<Rd(w), Rs1(w), Rs2(w)>>, FromNat(0))
              /\ Opcode(w) \in ImmediateArith \cup {OP_JALR} =>
                   PrintInstr(w) =
                     Shown(n, <<Rd(w), Rs1(w)>>,
                           IF Funct3(w) \in {FUNCT3_SLL, FUNCT3_SR}
                             THEN Masked(ExtractBits(w, 31, 20), 6) ELSE ImmI(w))
              /\ Opcode(w) = OP_LOAD =>
                   PrintInstr(w) = Shown(n, <<Rd(w), Rs1(w)>>, ImmI(w))
              /\ Opcode(w) = OP_STORE =>
                   PrintInstr(w) = Shown(n, <<Rs2(w), Rs1(w)>>, ImmS(w))
              /\ Opcode(w) = OP_BRANCH =>
                   PrintInstr(w) = Shown(n, <<Rs1(w), Rs2(w)>>, ImmB(w))
              /\ Opcode(w) = OP_JAL => PrintInstr(w) = Shown(n, <<Rd(w)>>, ImmJ(w))
              /\ Opcode(w) \in {OP_LUI, OP_AUIPC} =>
                   PrintInstr(w) = Shown(n, <<Rd(w)>>, Sext64(UpperBits(w), 19))
<1>1. w # HaltWord /\ w # NopWord
  BY DEF IsHaltWord, IsNopWord
<1>2. PrintInstr(w) =
        IF n = IllegalName THEN IllegalShown
        ELSE IF Opcode(w) \in RegisterArith \cup ImmediateArith \cup {OP_JALR} THEN HandleIAndR(w)
        ELSE IF Opcode(w) \in {OP_LOAD, OP_STORE} THEN HandleLAndS(w)
        ELSE IF Opcode(w) = OP_BRANCH THEN HandleBranch(w)
        ELSE HandleSpecial(w)
  BY <1>1, Zenon DEF PrintInstr, IllegalShown
<1>3. /\ HandleIAndR(w) =
           IF Opcode(w) \in RegisterArith
             THEN Shown(n, <<Rd(w), Rs1(w), Rs2(w)>>, FromNat(0))
           ELSE Shown(n, <<Rd(w), Rs1(w)>>,
                      IF Funct3(w) \in {FUNCT3_SLL, FUNCT3_SR}
                        THEN Masked(ExtractBits(w, 31, 20), 6) ELSE ImmI(w))
      /\ HandleLAndS(w) =
           IF Opcode(w) = OP_LOAD THEN Shown(n, <<Rd(w), Rs1(w)>>, ImmI(w))
           ELSE Shown(n, <<Rs2(w), Rs1(w)>>, ImmS(w))
      /\ HandleBranch(w) = Shown(n, <<Rs1(w), Rs2(w)>>, ImmB(w))
      /\ HandleSpecial(w) =
           IF Opcode(w) = OP_JAL THEN Shown(n, <<Rd(w)>>, ImmJ(w))
           ELSE Shown(n, <<Rd(w)>>, Sext64(UpperBits(w), 19))
  BY Zenon DEF HandleIAndR, HandleLAndS, HandleBranch, HandleSpecial, ImmI
<1>4. /\ \A op \in ImmediateArith \cup {OP_JALR} : op \notin RegisterArith
      /\ \A op \in {OP_LOAD, OP_STORE, OP_BRANCH, OP_JAL, OP_LUI, OP_AUIPC} :
           op \notin RegisterArith \cup ImmediateArith \cup {OP_JALR}
      /\ OP_STORE # OP_LOAD
      /\ OP_BRANCH \notin {OP_LOAD, OP_STORE}
      /\ \A op \in {OP_JAL, OP_LUI, OP_AUIPC} : op \notin {OP_LOAD, OP_STORE, OP_BRANCH}
      /\ OP_LUI # OP_JAL /\ OP_AUIPC # OP_JAL
  BY DEF RegisterArith, ImmediateArith, OP_INT, OP_INTW, OP_INTIMM, OP_INTIMMW, OP_LOAD,
         OP_STORE, OP_BRANCH, OP_LUI, OP_AUIPC, OP_JAL, OP_JALR
<1> QED
  BY <1>2, <1>3, <1>4, Zenon

(* An upper immediate extended from bit 19 instead of 31. *)
LEMMA UpperShown ==
  ASSUME NEW w \in Bits, w[19] = 0, w[31] = 0
  PROVE  Sext64(UpperBits(w), 19) = ImmU(w)
<1> DEFINE u == UpperBits(w)
<1>1. 19 \in Position /\ 31 \in Position
  BY DEF Position
<1>2. ImmU(w) \in Bits
  BY ImmediateTypes
<1>3. ASSUME NEW i \in Position
      PROVE  u[i] = ImmU(w)[i]
  <2>1. u[i] = IF i < 12 \/ i > 31 THEN 0 ELSE w[i]
    BY ImmUBit
  <2>2. ImmU(w)[i] = IF i < 12 THEN 0 ELSE w[IF i <= 31 THEN i ELSE 31]
    BY ImmUBit
  <2> HIDE DEF u
  <2> QED
    BY <2>1, <2>2 DEF Position
<1>4. u[19] = 0
  <2>1. u[19] = IF 19 < 12 \/ 19 > 31 THEN 0 ELSE w[19]
    BY <1>1, ImmUBit
  <2> HIDE DEF u
  <2> QED
    BY <2>1
<1>5. Sext64(u, 19) = [i \in Position |-> IF i > 19 /\ u[19] = 1 THEN 1 ELSE u[i]]
  BY Zenon DEF Sext64
<1> HIDE DEF u
<1>6. Sext64(u, 19) = [i \in Position |-> ImmU(w)[i]]
  BY <1>3, <1>4, <1>5
<1>7. ImmU(w) = [i \in Position |-> ImmU(w)[i]]
  BY <1>2 DEF Bits
<1> QED
  BY <1>6, <1>7 DEF u

ReadFrom(w, t) ==
  /\ Spelled(w, t)
  /\ Format(t) = "R" => StatementRecord(t, Rd(w), Rs1(w), Rs2(w), FromNat(0))
  /\ Format(t) = "S" => StatementRecord(t, 0, Rs1(w), Rs2(w), ImmS(w))
  /\ Format(t) = "B" => StatementRecord(t, 0, Rs1(w), Rs2(w), ImmB(w))
  /\ Format(t) = "U" => StatementRecord(t, Rd(w), 0, 0, ImmU(w))
  /\ Format(t) = "J" => StatementRecord(t, Rd(w), 0, 0, ImmJ(w))
  /\ Format(t) = "I" => StatementRecord(t, Rd(w), Rs1(w), 0, ImmI(w))
  /\ Format(t) = "shift" =>
       StatementRecord(t, Rd(w), Rs1(w), 0, Masked(ExtractBits(w, 31, 20), 6))

(* The four ways of printing. *)
Prints(w, regs, imm) == PrintInstr(w) = Shown(GetOpString(w), regs, imm)

LEMMA PrintedName ==
  ASSUME NEW w \in Bits, ~AddiwByFunct7(w), NEW t, t = ReadBack(PrintInstr(w)),
         NEW r, NEW m, Prints(w, r, m), Accepted(w)
  PROVE  Spelled(w, t)
<1>1. t.name = GetOpString(w)
  BY ReadBackFields, Zenon DEF Prints
<1> QED
  BY <1>1, AllReadable DEF Readable

LEMMA PrintedLegal ==
  ASSUME NEW w \in Bits, ~AddiwByFunct7(w)
  PROVE  GetOpString(w) = IllegalName <=> ~Accepted(w)
<1> DEFINE q == [name |-> GetOpString(w)]
<1>1. q.name = GetOpString(w)
  BY Zenon
<1> HIDE DEF q
<1>2. Readable(w, q)
  BY <1>1, AllReadable
<1>3. IllegalName \notin StatementNames
  BY NamesOfForms
<1> QED
  BY <1>1, <1>2, <1>3 DEF Readable, Spelled

LEMMA ReadBackFrom ==
  ASSUME NEW w \in Bits, Ordinary(w), ~Misprinted(w),
         NEW t, t = ReadBack(PrintInstr(w))
  PROVE  ReadFrom(w, t)
<1>1. /\ ~AddiwByFunct7(w) /\ ~UpperByBit19(w) /\ ~JalrByFunct3(w) /\ Accepted(w)
      /\ ~IsHaltWord(w) /\ ~IsNopWord(w)
  BY DEF Misprinted, Ordinary
<1>2. GetOpString(w) # IllegalName
  BY <1>1, PrintedLegal
<1>3. Opcode(w) \in Opcodes
  BY <1>1, AcceptedOf
<1>4. CASE Opcode(w) \in RegisterArith
  <2> DEFINE r == <<Rd(w), Rs1(w), Rs2(w)>>
  <2>1. Prints(w, r, FromNat(0))
    BY <1>1, <1>2, <1>4, PrintedForms, Zenon DEF Prints
  <2>2. Spelled(w, t)
    BY <1>1, <2>1, PrintedName, Zenon
  <2>3. Format(t) = "R"
    BY <1>4, <2>2, FormsByOpcode, RegisterForm, NarrowRegisterForm DEF Spelled, RegisterArith
  <2>4. StatementRecord(t, r[1], r[2], r[3], FromNat(0))
    BY <2>1, <2>3, ReadBackFields, Zenon DEF Prints
  <2>5. r[1] = Rd(w) /\ r[2] = Rs1(w) /\ r[3] = Rs2(w)
    OBVIOUS
  <2> QED
    BY <2>2, <2>3, <2>4, <2>5 DEF ReadFrom
<1>5. CASE Opcode(w) \in ImmediateArith
  <2> DEFINE r == <<Rd(w), Rs1(w)>>
             shift == Masked(ExtractBits(w, 31, 20), 6)
             m == IF Funct3(w) \in {FUNCT3_SLL, FUNCT3_SR} THEN shift ELSE ImmI(w)
  <2>1. Prints(w, r, m)
    BY <1>1, <1>2, <1>5, PrintedForms, Zenon DEF Prints
  <2> HIDE DEF m, shift
  <2>2. Spelled(w, t)
    BY <1>1, <2>1, PrintedName, Zenon
  <2>3. IsImmediate(t) \/ IsNarrowImmediate(t)
    BY <1>5, <2>2, FormsByOpcode DEF Spelled, ImmediateArith
  <2>4. /\ Format(t) = (IF Body(t) \in ShiftBodies THEN "shift" ELSE "I")
        /\ Funct3Of(t) = ArithmeticFunct3[Body(t)] /\ Body(t) \notin SpecialBodies
        /\ Body(t) \in RegisterBodies
    BY <2>3, ImmediateForm, NarrowImmediateForm, CodeTables
       DEF IsImmediate, IsNarrowImmediate, IsForm
  <2>5. Funct3(w) = ArithmeticFunct3[Body(t)]
    BY <2>2, <2>4 DEF Spelled, SpecialBodies
  <2>6. Funct3(w) \in {FUNCT3_SLL, FUNCT3_SR} <=> Body(t) \in ShiftBodies
    BY <2>4, <2>5, ShiftFunct3
  <2>7. StatementRecord(t, r[1], r[2], 0, m)
    <3>1. Format(t) \notin {"R", "S", "B", "U", "J"}
      BY <2>4
    <3> QED
      BY <2>1, <3>1, ReadBackFields, Zenon DEF Prints
  <2>8. r[1] = Rd(w) /\ r[2] = Rs1(w)
    OBVIOUS
  <2>9. m = IF Format(t) = "shift" THEN shift ELSE ImmI(w)
    BY <2>4, <2>6 DEF m
  <2>10. Format(t) = "shift" \/ Format(t) = "I"
    BY <2>4
  <2> HIDE DEF r
  <2> QED
    BY <2>2, <2>7, <2>8, <2>9, <2>10 DEF ReadFrom, shift
<1>6. CASE Opcode(w) \in {OP_LOAD, OP_JALR}
  <2> DEFINE r == <<Rd(w), Rs1(w)>>
  <2>1. Prints(w, r, ImmI(w))
    <3>1. Opcode(w) = OP_JALR => Funct3(w) \notin {FUNCT3_SLL, FUNCT3_SR}
      BY <1>1 DEF JalrByFunct3
    <3> QED
      BY <1>1, <1>2, <1>6, <3>1, PrintedForms DEF Prints
  <2>2. Spelled(w, t)
    BY <1>1, <2>1, PrintedName, Zenon
  <2>3. Format(t) = "I"
    BY <1>6, <2>2, FormsByOpcode, LoadForm, SpecialForm DEF Spelled
  <2>4. StatementRecord(t, r[1], r[2], 0, ImmI(w))
    <3>1. Format(t) \notin {"R", "S", "B", "U", "J"}
      BY <2>3
    <3> QED
      BY <2>1, <3>1, ReadBackFields, Zenon DEF Prints
  <2>5. r[1] = Rd(w) /\ r[2] = Rs1(w)
    OBVIOUS
  <2> QED
    BY <2>2, <2>3, <2>4, <2>5 DEF ReadFrom
<1>7. CASE Opcode(w) = OP_STORE
  <2> DEFINE r == <<Rs2(w), Rs1(w)>>
  <2>1. Prints(w, r, ImmS(w))
    BY <1>1, <1>2, <1>7, PrintedForms, Zenon DEF Prints
  <2>2. Spelled(w, t)
    BY <1>1, <2>1, PrintedName, Zenon
  <2>3. Format(t) = "S"
    BY <1>7, <2>2, FormsByOpcode, StoreForm DEF Spelled
  <2>4. StatementRecord(t, 0, r[2], r[1], ImmS(w))
    BY <2>1, <2>3, ReadBackFields, Zenon DEF Prints
  <2>5. r[1] = Rs2(w) /\ r[2] = Rs1(w)
    OBVIOUS
  <2> QED
    BY <2>2, <2>3, <2>4, <2>5 DEF ReadFrom
<1>8. CASE Opcode(w) = OP_BRANCH
  <2> DEFINE r == <<Rs1(w), Rs2(w)>>
  <2>1. Prints(w, r, ImmB(w))
    BY <1>1, <1>2, <1>8, PrintedForms, Zenon DEF Prints
  <2>2. Spelled(w, t)
    BY <1>1, <2>1, PrintedName, Zenon
  <2>3. Format(t) = "B"
    BY <1>8, <2>2, FormsByOpcode, BranchForm DEF Spelled
  <2>4. StatementRecord(t, 0, r[1], r[2], ImmB(w))
    BY <2>1, <2>3, ReadBackFields, Zenon DEF Prints
  <2>5. r[1] = Rs1(w) /\ r[2] = Rs2(w)
    OBVIOUS
  <2> QED
    BY <2>2, <2>3, <2>4, <2>5 DEF ReadFrom
<1>9. CASE Opcode(w) = OP_JAL
  <2> DEFINE r == <<Rd(w)>>
  <2>1. Prints(w, r, ImmJ(w))
    BY <1>1, <1>2, <1>9, PrintedForms, Zenon DEF Prints
  <2>2. Spelled(w, t)
    BY <1>1, <2>1, PrintedName, Zenon
  <2>3. Format(t) = "J"
    BY <1>9, <2>2, FormsByOpcode, SpecialForm DEF Spelled
  <2>4. StatementRecord(t, r[1], 0, 0, ImmJ(w))
    BY <2>1, <2>3, ReadBackFields, Zenon DEF Prints
  <2>5. r[1] = Rd(w)
    OBVIOUS
  <2> QED
    BY <2>2, <2>3, <2>4, <2>5 DEF ReadFrom
<1>10. CASE Opcode(w) \in {OP_LUI, OP_AUIPC}
  <2> DEFINE r == <<Rd(w)>>
  <2>1. Prints(w, r, Sext64(UpperBits(w), 19))
    BY <1>1, <1>2, <1>10, PrintedForms, Zenon DEF Prints
  <2>2. Spelled(w, t)
    BY <1>1, <2>1, PrintedName, Zenon
  <2>3. Format(t) = "U"
    BY <1>10, <2>2, FormsByOpcode, SpecialForm DEF Spelled
  <2>4. Sext64(UpperBits(w), 19) = ImmU(w)
    <3>1. 19 \in Position /\ 31 \in Position
      BY DEF Position
    <3>2. w[19] = 0 /\ w[31] = 0
      BY <1>1, <1>10, <3>1, BitOf DEF UpperByBit19
    <3> QED
      BY <3>2, UpperShown
  <2>5. StatementRecord(t, r[1], 0, 0, ImmU(w))
    <3>1. Prints(w, r, ImmU(w))
      BY <2>1, <2>4, Zenon
    <3> QED
      BY <2>3, <3>1, ReadBackFields, Zenon DEF Prints
  <2>6. r[1] = Rd(w)
    OBVIOUS
  <2> QED
    BY <2>2, <2>3, <2>5, <2>6 DEF ReadFrom
<1> QED
  BY <1>3, <1>4, <1>5, <1>6, <1>7, <1>8, <1>9, <1>10 DEF Opcodes, RegisterArith, ImmediateArith

(* The fields of a statement that is a record of them. *)
LEMMA RecordFields ==
  ASSUME NEW t, NEW rd, NEW rs1, NEW rs2, NEW imm, StatementRecord(t, rd, rs1, rs2, imm)
  PROVE  t.rd = rd /\ t.rs1 = rs1 /\ t.rs2 = rs2 /\ t.imm = imm
<1> DEFINE r(name) == [name |-> name, rd |-> rd, rs1 |-> rs1, rs2 |-> rs2, imm |-> imm]
<1>1. \A name : /\ r(name).rd = rd /\ r(name).rs1 = rs1 /\ r(name).rs2 = rs2
                /\ r(name).imm = imm
  OBVIOUS
<1>2. t = r(t.name)
  BY Zenon DEF StatementRecord
<1> HIDE DEF r
<1> QED
  BY <1>1, <1>2

(* Two such records with the same name are equal. *)
LEMMA SameRecord ==
  ASSUME NEW s, NEW t, s.name = t.name, NEW rd, NEW rs1, NEW rs2, NEW imm,
         StatementRecord(t, rd, rs1, rs2, imm), StatementRecord(s, rd, rs1, rs2, imm)
  PROVE  s = t
BY Zenon DEF StatementRecord

(* The distance as handleIAndR masks it is the low bits of the immediate   *)
(* that simArithLogic shifts by.                                           *)
LEMMA DistanceShown ==
  ASSUME NEW w \in Bits
  PROVE  /\ Masked(ExtractBits(w, 31, 20), 6) \in Bits
         /\ \A i \in 0..5 : ImmI(w)[i] = Masked(ExtractBits(w, 31, 20), 6)[i]
<1> DEFINE x == ExtractBits(w, 31, 20)
<1>1. x \in Bits
  <2>1. 31 \in Position /\ 20 \in Position
    BY DEF Position
  <2> QED
    BY <2>1, ExtractType
<1>2. Masked(x, 6) \in Bits
  BY <1>1, ShiftType
<1>3. ASSUME NEW i \in 0..5
      PROVE  ImmI(w)[i] = Masked(x, 6)[i]
  <2>1. i \in Position /\ i <= 11 /\ i <= 31 - 20
    BY DEF Position
  <2>2. ImmI(w)[i] = w[20 + i]
    BY <2>1, ImmIBit
  <2>3. x[i] = w[20 + i]
    BY <2>1, ExtractedBit
  <2> HIDE DEF x
  <2>4. Masked(x, 6)[i] = x[i]
    BY MaskedLow
  <2> QED
    BY <2>2, <2>3, <2>4
<1> QED
  BY <1>2, <1>3

LEMMA ReadFromEncodes ==
  ASSUME NEW w \in Bits, NEW t, ReadFrom(w, t)
  PROVE  Encodes(w, t)
<1> DEFINE distance == Masked(ExtractBits(w, 31, 20), 6)
<1>1. Spelled(w, t) /\ t.name \in StatementNames
  BY DEF ReadFrom, Spelled
<1>2. Format(t) \in Formats
  BY <1>1, AllCodesFit DEF CodesFit
<1>3. FromNat(0) \in Bits
  BY FromNatType
<1>4. ImmI(w) \in Bits /\ ImmS(w) \in Bits /\ ImmB(w) \in Bits /\ ImmU(w) \in Bits
      /\ ImmJ(w) \in Bits
  BY ImmediateTypes
<1>5. distance \in Bits /\ \A i \in 0..5 : ImmI(w)[i] = distance[i]
  BY DistanceShown
<1> HIDE DEF distance
<1>6. /\ Format(t) = "R" => t.rs1 = Rs1(w) /\ t.rs2 = Rs2(w) /\ t.imm = FromNat(0)
      /\ Format(t) = "S" => t.rs1 = Rs1(w) /\ t.rs2 = Rs2(w) /\ t.imm = ImmS(w)
      /\ Format(t) = "B" => t.rs1 = Rs1(w) /\ t.rs2 = Rs2(w) /\ t.imm = ImmB(w)
      /\ Format(t) = "U" => t.imm = ImmU(w)
      /\ Format(t) = "J" => t.imm = ImmJ(w)
      /\ Format(t) = "I" => t.rs1 = Rs1(w) /\ t.imm = ImmI(w)
      /\ Format(t) = "shift" => t.rs1 = Rs1(w) /\ t.imm = distance
  <2>1. /\ Format(t) = "R" => t.rs1 = Rs1(w) /\ t.rs2 = Rs2(w) /\ t.imm = FromNat(0)
        /\ Format(t) = "S" => t.rs1 = Rs1(w) /\ t.rs2 = Rs2(w) /\ t.imm = ImmS(w)
        /\ Format(t) = "B" => t.rs1 = Rs1(w) /\ t.rs2 = Rs2(w) /\ t.imm = ImmB(w)
    BY RecordFields DEF ReadFrom
  <2>2. /\ Format(t) = "U" => t.imm = ImmU(w)
        /\ Format(t) = "J" => t.imm = ImmJ(w)
        /\ Format(t) = "I" => t.rs1 = Rs1(w) /\ t.imm = ImmI(w)
    BY RecordFields DEF ReadFrom
  <2>3. Format(t) = "shift" => t.rs1 = Rs1(w) /\ t.imm = distance
    BY RecordFields DEF ReadFrom, distance
  <2> QED
    BY <2>1, <2>2, <2>3
<1>7. t.imm \in Bits
  BY <1>2, <1>3, <1>4, <1>5, <1>6 DEF Formats
<1>8. /\ Format(t) \notin {"U", "J"} => Rs1(w) = t.rs1
      /\ Format(t) \in {"R", "S", "B"} => Rs2(w) = t.rs2
  BY <1>2, <1>6 DEF Formats
<1>9. Format(t) = "shift" =>
        \A i \in 0..(IF Narrow(t) THEN 4 ELSE 5) : ImmI(w)[i] = t.imm[i]
  <2>1. \A i \in 0..(IF Narrow(t) THEN 4 ELSE 5) : i \in 0..5
    OBVIOUS
  <2> QED
    BY <1>5, <1>6, <2>1, Zenon
<1> QED
  BY <1>1, <1>6, <1>7, <1>8, <1>9, Zenon DEF Encodes, Spelled

(* What an assembler leaves empty is zero. *)
LEMMA EmptyFields ==
  ASSUME NEW s, WellFormed(s)
  PROVE  /\ Format(s) = "R" => s.imm = FromNat(0)
         /\ Format(s) \in {"S", "B"} => s.rd = 0
         /\ Format(s) \in {"U", "J"} => s.rs1 = 0
         /\ Format(s) \notin {"R", "S", "B"} => s.rs2 = 0
<1>1. s.imm \in Bits /\ FromNat(0) \in Bits
  BY StatementFields, FromNatType
<1>2. ASSUME Format(s) = "R"
      PROVE  s.imm = FromNat(0)
  <2>1. \A i \in Position : s.imm[i] = 0
    BY <1>2, Zenon DEF WellFormed
  <2>2. EqualBits(s.imm, FromNat(0))
    BY <2>1, ZeroBits, Zenon DEF EqualBits
  <2> QED
    BY <1>1, <2>2, SameWord
<1> QED
  BY <1>2, Zenon DEF WellFormed

(* From the word of a statement only that statement can be read.  All the  *)
(* fields the two have in common are the fields of the word.               *)
LEMMA ReadFromAssembled ==
  ASSUME NEW s, WellFormed(s), NEW w, w = Assemble(s), NEW t, ReadFrom(w, t)
  PROVE  t = s
<1>1. Spelled(w, s)
  BY AssembledEncodes, Zenon DEF Encodes, Spelled
<1>2. s.name = t.name
  BY <1>1, SameName DEF ReadFrom
<1>3. Format(t) = Format(s)
  BY <1>2, Zenon DEF Format, Body
<1>4. Format(s) \in Formats /\ StatementRecord(s, s.rd, s.rs1, s.rs2, s.imm)
  BY StatementFields DEF StatementRecord
<1>5. /\ Format(s) = "R" => s.imm = FromNat(0)
      /\ Format(s) \in {"S", "B"} => s.rd = 0
      /\ Format(s) \in {"U", "J"} => s.rs1 = 0
      /\ Format(s) \notin {"R", "S", "B"} => s.rs2 = 0
  BY EmptyFields
<1>6. /\ Format(s) \notin {"S", "B"} => Rd(w) = s.rd
      /\ Format(s) \notin {"U", "J"} => Rs1(w) = s.rs1
      /\ Format(s) \in {"R", "S", "B"} => Rs2(w) = s.rs2
  BY AssembledRd, AssembledRs1, AssembledRs2
<1>7. CASE Format(s) = "R"
  <2>1. StatementRecord(s, Rd(w), Rs1(w), Rs2(w), FromNat(0))
    BY <1>4, <1>5, <1>6, <1>7
  <2> QED
    BY <1>2, <1>3, <1>7, <2>1, SameRecord DEF ReadFrom
<1>8. CASE Format(s) = "S"
  <2>1. StatementRecord(s, 0, Rs1(w), Rs2(w), ImmS(w))
    BY <1>4, <1>5, <1>6, <1>8, AssembledS
  <2> QED
    BY <1>2, <1>3, <1>8, <2>1, SameRecord DEF ReadFrom
<1>9. CASE Format(s) = "B"
  <2>1. StatementRecord(s, 0, Rs1(w), Rs2(w), ImmB(w))
    BY <1>4, <1>5, <1>6, <1>9, AssembledB
  <2> QED
    BY <1>2, <1>3, <1>9, <2>1, SameRecord DEF ReadFrom
<1>10. CASE Format(s) = "U"
  <2>1. StatementRecord(s, Rd(w), 0, 0, ImmU(w))
    BY <1>4, <1>5, <1>6, <1>10, AssembledU
  <2> QED
    BY <1>2, <1>3, <1>10, <2>1, SameRecord DEF ReadFrom
<1>11. CASE Format(s) = "J"
  <2>1. StatementRecord(s, Rd(w), 0, 0, ImmJ(w))
    BY <1>4, <1>5, <1>6, <1>11, AssembledJ
  <2> QED
    BY <1>2, <1>3, <1>11, <2>1, SameRecord DEF ReadFrom
<1>12. CASE Format(s) = "I"
  <2>1. StatementRecord(s, Rd(w), Rs1(w), 0, ImmI(w))
    BY <1>4, <1>5, <1>6, <1>12, AssembledI
  <2> QED
    BY <1>2, <1>3, <1>12, <2>1, SameRecord DEF ReadFrom
<1>13. CASE Format(s) = "shift"
  <2>1. StatementRecord(s, Rd(w), Rs1(w), 0, Masked(ExtractBits(w, 31, 20), 6))
    BY <1>4, <1>5, <1>6, <1>13, AssembledShift
  <2> QED
    BY <1>2, <1>3, <1>13, <2>1, SameRecord DEF ReadFrom
<1> QED
  BY <1>4, <1>7, <1>8, <1>9, <1>10, <1>11, <1>12, <1>13 DEF Formats

-----------------------------------------------------------------------------
(* The two decoders. *)

(* Of a word that is neither HALT nor NOP nor misprinted, the diagram      *)
(* shows a statement exactly when simDecode accepts it, and then one that  *)
(* the word encodes.                                                       *)
LEMMA ShownIsAccepted ==
  ASSUME NEW w \in Bits, Plain(w)
  PROVE  /\ LegalWord(w) <=> Accepted(w)
         /\ PrintInstr(w) # IllegalShown <=> Accepted(w)
         /\ Accepted(w) => ReadFrom(w, ReadBack(PrintInstr(w)))
<1>1. ~IsHaltWord(w) /\ ~IsNopWord(w) /\ ~Misprinted(w) /\ ~AddiwByFunct7(w)
  BY DEF Plain, Misprinted
<1>2. Accepted(w) => ReadFrom(w, ReadBack(PrintInstr(w)))
  <2> SUFFICES ASSUME Accepted(w)
               PROVE  ReadFrom(w, ReadBack(PrintInstr(w)))
    OBVIOUS
  <2> QED
    BY <1>1, ReadBackFrom DEF Ordinary
<1>3. ASSUME Accepted(w)
      PROVE  PrintInstr(w) # IllegalShown
  <2> SUFFICES ASSUME PrintInstr(w) = IllegalShown
               PROVE  FALSE
    OBVIOUS
  <2> DEFINE t == ReadBack(PrintInstr(w))
             nowhere == << >>
  <2>1. t = ReadBack(Shown(IllegalName, nowhere, FromNat(0)))
    BY Zenon DEF IllegalShown
  <2>2. t.name \in StatementNames
    BY <1>2, <1>3 DEF ReadFrom, Spelled
  <2> HIDE DEF t, nowhere
  <2>3. t.name = IllegalName
    BY <2>1, ReadBackFields
  <2> QED
    BY <2>2, <2>3, NamesOfForms
<1>4. ASSUME ~Accepted(w)
      PROVE  PrintInstr(w) = IllegalShown
  <2> DEFINE n == GetOpString(w)
  <2>1. n = IllegalName
    BY <1>1, <1>4, PrintedLegal
  <2> HIDE DEF n
  <2>2. n = GetOpString(w)
    BY Zenon DEF n
  <2> QED
    BY <1>1, <2>1, <2>2, PrintedForms
<1>5. LegalWord(w) <=> Accepted(w)
  BY <1>1 DEF LegalWord
<1> QED
  BY <1>2, <1>3, <1>4, <1>5

LEMMA HaltIsNotNop == HaltWord # NopWord
<1>1. HaltWord[1] = 0
  <2>1. 1 \in Position /\ 2^1 = 2
    BY DEF Position
  <2>2. (65261 \div 2) % 2 = 0
    OBVIOUS
  <2> QED
    BY <2>1, <2>2 DEF HaltWord, FromHalves
<1>2. NopWord[1] = 1
  BY NopBits DEF Position
<1> QED
  BY <1>1, <1>2

(* Every operation of Stages by the words it stands for. *)
LEMMA OperationWords ==
  ASSUME NEW w, NEW op, op = OperationOf(w)
  PROVE  /\ op = "HALT" <=> IsHaltWord(w)
         /\ op = "NOP" <=> IsNopWord(w)
         /\ op = "ILLEGAL" <=> ~LegalWord(w)
         /\ op = "ADD" <=> HasOpcode(w, RegisterArith)
         /\ op = "ADDI" <=> HasOpcode(w, ImmediateArith)
         /\ op = "LUI" <=> HasOpcode(w, {OP_LUI, OP_AUIPC})
         /\ op = "LOAD" <=> HasOpcode(w, {OP_LOAD})
         /\ op = "STORE" <=> HasOpcode(w, {OP_STORE})
         /\ op = "BEQ" <=> HasOpcode(w, {OP_BRANCH})
         /\ op = "JAL" <=> HasOpcode(w, {OP_JAL})
         /\ op = "JALR" <=> HasOpcode(w, {OP_JALR})
         /\ op # "BNE"
<1>1. IsHaltWord(w) => ~IsNopWord(w)
  BY HaltIsNotNop DEF IsHaltWord, IsNopWord
<1>2. CASE IsHaltWord(w)
  BY <1>1, <1>2 DEF OperationOf, HasOpcode, LegalWord
<1>3. CASE ~IsHaltWord(w) /\ IsNopWord(w)
  BY <1>3 DEF OperationOf, HasOpcode, LegalWord
<1>4. CASE ~IsHaltWord(w) /\ ~IsNopWord(w) /\ ~LegalWord(w)
  BY <1>4 DEF OperationOf, HasOpcode, LegalWord
<1>5. CASE ~IsHaltWord(w) /\ ~IsNopWord(w) /\ LegalWord(w)
  <2>1. Accepted(w) /\ Opcode(w) \in Opcodes
    BY <1>5, AcceptedOf DEF LegalWord
  <2>2. \A ops : HasOpcode(w, ops) <=> Opcode(w) \in ops
    BY <1>5, <2>1 DEF HasOpcode
  <2> QED
    BY <1>5, <2>1, <2>2 DEF OperationOf, RegisterArith, ImmediateArith, Opcodes, OP_INT, OP_INTW,
         OP_INTIMM, OP_INTIMMW, OP_LOAD, OP_STORE, OP_BRANCH, OP_LUI, OP_AUIPC, OP_JAL, OP_JALR
<1> QED
  BY <1>2, <1>3, <1>4, <1>5

(* simDecode gives a word the control signals of its operation. *)
SignalsOf(i) ==
  [isHalt |-> S!IsHalt(i),
   isNop |-> i.word.op = "NOP",
   isLegal |-> S!IsLegal(i),
   readsMem |-> S!ReadsMem(i),
   writesMem |-> S!WritesMem(i),
   doesArithLogic |-> S!DoesArithLogic(i),
   writesRd |-> S!WritesRd(i),
   readsRs1 |-> S!ReadsRs1(i),
   readsRs2 |-> S!ReadsRs2(i)]

LEMMA SignalsAreFlags ==
  ASSUME NEW w, NEW i, i.word.op = OperationOf(w)
  PROVE  SimDecode(w) = SignalsOf(i)
<1> DEFINE op == OperationOf(w)
           code == Opcode(w)
           runs == Accepted(w) /\ ~IsHaltWord(w) /\ ~IsNopWord(w)
<1>1. op = OperationOf(w) /\ i.word.op = op
  OBVIOUS
<1>2. \A ops : HasOpcode(w, ops) = (runs /\ code \in ops)
  BY Zenon DEF HasOpcode
<1> HIDE DEF op, code, runs
<1>3. /\ op = "ADD" <=> runs /\ code \in RegisterArith
      /\ op = "ADDI" <=> runs /\ code \in ImmediateArith
      /\ op = "LUI" <=> runs /\ (code = OP_LUI \/ code = OP_AUIPC)
      /\ op = "LOAD" <=> runs /\ code = OP_LOAD
      /\ op = "STORE" <=> runs /\ code = OP_STORE
      /\ op = "BEQ" <=> runs /\ code = OP_BRANCH
      /\ op = "JAL" <=> runs /\ code = OP_JAL
      /\ op = "JALR" <=> runs /\ code = OP_JALR
      /\ op # "BNE"
  BY <1>1, <1>2, OperationWords, Zenon
<1>4. /\ IsHaltWord(w) <=> S!IsHalt(i)
      /\ IsNopWord(w) <=> i.word.op = "NOP"
      /\ LegalWord(w) <=> S!IsLegal(i)
  BY <1>1, OperationWords, Zenon DEF S!IsHalt, S!IsLegal
<1>5. /\ HasOpcode(w, {OP_LOAD}) <=> S!ReadsMem(i)
      /\ HasOpcode(w, {OP_STORE}) <=> S!WritesMem(i)
  BY <1>1, <1>2, <1>3, Zenon DEF S!ReadsMem, S!WritesMem
<1>6. HasOpcode(w, RegisterArith \cup ImmediateArith \cup {OP_JALR, OP_AUIPC, OP_LUI, OP_JAL})
        <=> S!DoesArithLogic(i)
  BY <1>1, <1>2, <1>3, Zenon DEF S!DoesArithLogic
<1>7. HasOpcode(w, RegisterArith \cup ImmediateArith \cup
                     {OP_LOAD, OP_JALR, OP_AUIPC, OP_LUI, OP_JAL})
        <=> S!WritesRd(i)
  BY <1>1, <1>2, <1>3, Zenon DEF S!WritesRd
<1>8. /\ HasOpcode(w, Rs1Readers) <=> S!ReadsRs1(i)
      /\ HasOpcode(w, RegisterArith \cup {OP_STORE, OP_BRANCH}) <=> S!ReadsRs2(i)
  BY <1>1, <1>2, <1>3, Zenon DEF S!ReadsRs1, Rs1Readers, S!ReadsRs2
<1>9. /\ IsHaltWord(w) = S!IsHalt(i)
      /\ IsNopWord(w) = (i.word.op = "NOP")
      /\ LegalWord(w) = S!IsLegal(i)
  BY <1>4 DEF IsHaltWord, IsNopWord, LegalWord, S!IsHalt, S!IsLegal
<1>10. /\ \A ops : HasOpcode(w, ops) \in BOOLEAN
       /\ S!ReadsMem(i) \in BOOLEAN /\ S!WritesMem(i) \in BOOLEAN
       /\ S!DoesArithLogic(i) \in BOOLEAN /\ S!WritesRd(i) \in BOOLEAN
       /\ S!ReadsRs1(i) \in BOOLEAN /\ S!ReadsRs2(i) \in BOOLEAN
  BY DEF HasOpcode, S!ReadsMem, S!WritesMem, S!DoesArithLogic, S!WritesRd, S!ReadsRs1, S!ReadsRs2
<1>11. \A a, b \in BOOLEAN : (a <=> b) => a = b
  OBVIOUS
<1>12. /\ HasOpcode(w, {OP_LOAD}) = S!ReadsMem(i)
       /\ HasOpcode(w, {OP_STORE}) = S!WritesMem(i)
  BY <1>5, <1>10, <1>11, Zenon
<1>13. HasOpcode(w, RegisterArith \cup ImmediateArith \cup
                      {OP_JALR, OP_AUIPC, OP_LUI, OP_JAL}) = S!DoesArithLogic(i)
  BY <1>6, <1>10, <1>11, Zenon
<1>14. HasOpcode(w, RegisterArith \cup ImmediateArith \cup
                      {OP_LOAD, OP_JALR, OP_AUIPC, OP_LUI, OP_JAL}) = S!WritesRd(i)
  BY <1>7, <1>10, <1>11, Zenon
<1>15. /\ HasOpcode(w, Rs1Readers) = S!ReadsRs1(i)
       /\ HasOpcode(w, RegisterArith \cup {OP_STORE, OP_BRANCH}) = S!ReadsRs2(i)
  BY <1>8, <1>10, <1>11, Zenon
<1> QED
  BY <1>9, <1>12, <1>13, <1>14, <1>15, Zenon DEF SimDecode, SignalsOf

-----------------------------------------------------------------------------
(* The invariant: in every stage the instruction is what the stage helpers *)
(* so far make of its word, its pc and the registers, and the word is what *)
(* the statement was assembled to.                                         *)

Regs == RegisterFiles[file]

Carried ==
  /\ file \in DOMAIN RegisterFiles
  /\ inst.word \in Bits /\ inst.PC \in Bits
  /\ statement # NoStatement => WellFormed(statement) /\ inst.word = Assemble(statement)

Computed ==
  \/ stage = "IF" /\ inst = Fetched(inst.word, inst.PC)
  \/ stage = "ID" /\ inst = Decoded(inst.word, inst.PC, Regs)
  \/ stage = "EX" /\ inst = SimEX(Decoded(inst.word, inst.PC, Regs))
  \/ stage = "MEM" /\ inst = Result(inst.word, inst.PC, Regs)

Inv == Carried /\ Computed

LEMMA FilesAreTyped ==
  ASSUME NEW f \in DOMAIN RegisterFiles
  PROVE  RegisterFiles[f] \in RegisterFile
BY DatapathAssumption, Zenon DEF RegisterFile

(* What the helpers make of a word, and that they keep it and its pc. *)
LEMMA Stations ==
  ASSUME NEW w \in Bits, NEW pc \in Bits, NEW regs \in RegisterFile
  PROVE  /\ Fetched(w, pc) \in Insts
         /\ Fetched(w, pc).word = w /\ Fetched(w, pc).PC = pc
         /\ Decoded(w, pc, regs) \in Insts
         /\ Decoded(w, pc, regs).word = w /\ Decoded(w, pc, regs).PC = pc
         /\ Decoded(w, pc, regs).flags = SimDecode(w)
         /\ SimEX(Decoded(w, pc, regs)) \in Insts
         /\ SimEX(Decoded(w, pc, regs)).word = w /\ SimEX(Decoded(w, pc, regs)).PC = pc
         /\ Result(w, pc, regs) \in Insts
         /\ Result(w, pc, regs).word = w /\ Result(w, pc, regs).PC = pc
<1> DEFINE i == Fetched(w, pc)
           j == Decoded(w, pc, regs)
           k == SimEX(j)
           l == Result(w, pc, regs)
<1>1. i \in Insts /\ i.word = w /\ i.PC = pc
  BY FetchedType
<1>2. j = SimID(i, regs)
  BY Zenon DEF Decoded
<1>3. l = SimMEM(k)
  BY Zenon DEF Result
<1> HIDE DEF i, j, l
<1>4. j \in Insts /\ j.word = w /\ j.PC = pc /\ j.flags = SimDecode(w)
  BY <1>1, <1>2, SimIDFields, Zenon DEF RegisterFile
<1>5. k \in Insts /\ k.word = w /\ k.PC = pc
  BY <1>4, SimEXFields, Zenon
<1> HIDE DEF k
<1>6. l \in Insts /\ l.word = w /\ l.PC = pc
  BY <1>3, <1>5, SimMEMFields, Zenon
<1> QED
  BY <1>1, <1>4, <1>5, <1>6, Zenon DEF i, j, k, l

LEMMA InitInv == Init => Inv
<1> SUFFICES ASSUME Init
             PROVE  Inv
  OBVIOUS
<1>1. PICK pc \in PCs :
        \/ \E s \in Statements :
             /\ statement = s.statement
             /\ file = s.file
             /\ inst = Fetched(Assemble(s.statement), pc)
        \/ \E w \in RawWords :
             /\ statement = NoStatement
             /\ file = w.file
             /\ inst = Fetched(w.word, pc)
  BY Zenon DEF Init
<1>2. pc \in Bits
  BY DatapathAssumption
<1>3. PICK w \in Bits : /\ inst = Fetched(w, pc) /\ file \in DOMAIN RegisterFiles
                        /\ statement # NoStatement =>
                             WellFormed(statement) /\ w = Assemble(statement)
  <2>1. CASE \E s \in Statements : /\ statement = s.statement
                                   /\ file = s.file
                                   /\ inst = Fetched(Assemble(s.statement), pc)
    BY <2>1, DatapathAssumption, AssembledType
  <2>2. CASE \E w \in RawWords : /\ statement = NoStatement
                                 /\ file = w.file
                                 /\ inst = Fetched(w.word, pc)
    BY <2>2, DatapathAssumption
  <2> QED
    BY <1>1, <2>1, <2>2
<1>4. inst.word = w /\ inst.PC = pc
  BY <1>2, <1>3, FetchedType
<1>5. stage = "IF"
  BY DEF Init
<1> QED
  BY <1>2, <1>3, <1>4, <1>5 DEF Inv, Carried, Computed

(* A step computes the next helper and keeps word, pc and registers. *)
LEMMA StepInv ==
  ASSUME Inv, [Next]_vars
  PROVE  Inv'
<1> DEFINE w == inst.word
           pc == inst.PC
<1>1. /\ w \in Bits /\ pc \in Bits /\ Regs \in RegisterFile
  BY FilesAreTyped DEF Inv, Carried, Regs
<1>2. CASE UNCHANGED vars
  BY <1>2 DEF vars, Inv, Carried, Computed, Regs
<1>3. ASSUME UNCHANGED <<statement, file>>, inst'.word = w, inst'.PC = pc
      PROVE  Carried' /\ Regs' = Regs
  BY <1>3 DEF Inv, Carried, Regs
<1>4. CASE ID
  <2>1. /\ stage = "IF" /\ stage' = "ID" /\ UNCHANGED <<statement, file>>
        /\ inst' = SimID(inst, Regs)
    BY <1>4, Zenon DEF ID, Go, Regs
  <2>2. inst = Fetched(w, pc)
    BY <2>1 DEF Inv, Computed
  <2>3. inst' = Decoded(w, pc, Regs)
    BY <2>1, <2>2, Zenon DEF Decoded
  <2>4. inst'.word = w /\ inst'.PC = pc
    BY <1>1, <2>3, Stations
  <2>5. Carried' /\ Regs' = Regs
    BY <1>3, <2>1, <2>4
  <2> QED
    BY <2>1, <2>3, <2>4, <2>5 DEF Inv, Computed
<1>5. CASE EX
  <2>1. /\ stage = "ID" /\ stage' = "EX" /\ UNCHANGED <<statement, file>>
        /\ inst' = SimEX(inst)
    BY <1>5, Zenon DEF EX, Go
  <2>2. inst = Decoded(w, pc, Regs)
    BY <2>1 DEF Inv, Computed
  <2>3. inst' = SimEX(Decoded(w, pc, Regs))
    BY <2>1, <2>2, Zenon
  <2>4. inst'.word = w /\ inst'.PC = pc
    BY <1>1, <2>3, Stations
  <2>5. Carried' /\ Regs' = Regs
    BY <1>3, <2>1, <2>4
  <2> QED
    BY <2>1, <2>3, <2>4, <2>5 DEF Inv, Computed
<1>6. CASE MEM
  <2>1. /\ stage = "EX" /\ stage' = "MEM" /\ UNCHANGED <<statement, file>>
        /\ inst' = SimMEM(inst)
    BY <1>6, Zenon DEF MEM, Go
  <2>2. inst = SimEX(Decoded(w, pc, Regs))
    BY <2>1 DEF Inv, Computed
  <2>3. inst' = Result(w, pc, Regs)
    BY <2>1, <2>2, Zenon DEF Result
  <2>4. inst'.word = w /\ inst'.PC = pc
    BY <1>1, <2>3, Stations
  <2>5. Carried' /\ Regs' = Regs
    BY <1>3, <2>1, <2>4
  <2> QED
    BY <2>1, <2>3, <2>4, <2>5 DEF Inv, Computed
<1> QED
  BY <1>2, <1>4, <1>5, <1>6 DEF Next

LEMMA Invariance == Spec => []Inv
<1>1. Inv /\ [Next]_vars => Inv'
  BY StepInv
<1> QED
  BY InitInv, <1>1, PTL DEF Spec

-----------------------------------------------------------------------------
(* The ranges of TypeOK that are narrower than 64 bits.                    *)

LEMMA LowestBit ==
  /\ FromNat(4)[0] = 0
  /\ EXCEPTION_HANDLER[0] = 0
  /\ \A x, y \in Bits : x[0] = 0 /\ y[0] = 0 => Add(x, y)[0] = 0
  /\ \A x \in Bits : [x EXCEPT ![0] = 0][0] = 0
<1>1. 0 \in Position
  BY DEF Position
<1>2. \A n \in {4, 32768} : FromNat(n)[0] = 0
  <2>1. \A n : FromNat(n)[0] = (n \div Power(0)) % 2
    BY <1>1, SMT DEF FromNat, Power
  <2>2. Power(0) = 1
    BY DEF Power
  <2> QED
    BY <2>1, <2>2
<1>3. ASSUME NEW x \in Bits, NEW y \in Bits, x[0] = 0, y[0] = 0
      PROVE  Add(x, y)[0] = 0
  <2>1. 0..(0 - 1) = {}
    OBVIOUS
  <2>2. ~Carry(x, y, 0, 0)
    BY <2>1 DEF Carry
  <2> QED
    BY <1>1, <1>3, <2>2 DEF Add, SumWithCarry
<1>4. \A x \in Bits : [x EXCEPT ![0] = 0][0] = 0
  BY <1>1 DEF Bits
<1> QED
  BY <1>2, <1>3, <1>4 DEF EXCEPTION_HANDLER

(* Both immediates that are added to the pc are even, and jalr clears the  *)
(* bit itself.                                                             *)
LEMMA NextPCOfIsEven ==
  ASSUME NEW i \in Insts, i.PC[0] = 0
  PROVE  NextPCOf(i)[0] = 0
<1>1. i.word \in Bits /\ i.PC \in Bits /\ i.op1Val \in Bits /\ FromNat(4) \in Bits
  BY FromNatType DEF Insts
<1>2. ImmI(i.word) \in Bits /\ ImmB(i.word) \in Bits /\ ImmJ(i.word) \in Bits
  BY <1>1, ImmediateTypes
<1>3. ImmB(i.word)[0] = 0 /\ ImmJ(i.word)[0] = 0
  <2>1. 0 \in Position
    BY DEF Position
  <2> QED
    BY <1>1, <2>1, ImmBBit, ImmJBit
<1>4. /\ Add(i.PC, ImmB(i.word))[0] = 0 /\ Add(i.PC, ImmJ(i.word))[0] = 0
      /\ Add(i.PC, FromNat(4))[0] = 0
  BY <1>1, <1>2, <1>3, LowestBit
<1>5. [Add(i.op1Val, ImmI(i.word)) EXCEPT ![0] = 0][0] = 0
  <2>1. Add(i.op1Val, ImmI(i.word)) \in Bits
    BY <1>1, <1>2, AddType
  <2> QED
    BY <2>1, LowestBit
<1> QED
  BY <1>4, <1>5, Zenon DEF NextPCOf

IsExtended(x) == \A k \in 32..63 : x[k] = x[31]

LEMMA NarrowResultExtended ==
  ASSUME NEW w, NEW x \in Bits, NEW y \in Bits
  PROVE  IsExtended(NarrowResult(w, x, y))
<1>1. PICK v : NarrowResult(w, x, y) = Sext64(Low32(v), 31)
  BY Zenon DEF NarrowResult
<1> DEFINE z == Low32(v)
<1>2. \A k \in 32..63 : k \in Position /\ z[k] = 0
  BY DEF Low32, Position
<1>3. 31 \in Position
  BY DEF Position
<1>4. \A k \in Position : Sext64(z, 31)[k] = IF k > 31 /\ z[31] = 1 THEN 1 ELSE z[k]
  BY ExtendedBit
<1>5. NarrowResult(w, x, y) \in Bits
  BY NarrowType
<1> HIDE DEF z
<1>6. Sext64(z, 31)[31] = z[31]
  BY <1>3, <1>4
<1>7. Sext64(z, 31) \in Bits
  BY <1>1, <1>5 DEF z
<1>8. Sext64(z, 31)[31] \in {0, 1}
  BY <1>3, <1>7, BitOf
<1>9. \A k \in 32..63 : Sext64(z, 31)[k] = IF z[31] = 1 THEN 1 ELSE 0
  BY <1>2, <1>4
<1> QED
  BY <1>1, <1>6, <1>8, <1>9 DEF IsExtended, z

NarrowOps == {OP_INTW, OP_INTIMMW}

LEMMA ArithOfExtended ==
  ASSUME NEW i \in Insts, NEW y \in Bits, Opcode(i.word) \in NarrowOps
  PROVE  IsExtended(ArithOf(i, y))
<1>1. i.op1Val \in Bits /\ ImmI(i.word) \in Bits
  BY ImmediateTypes DEF Insts
<1>2. /\ IsExtended(NarrowResult(i.word, i.op1Val, y))
      /\ IsExtended(NarrowResult(i.word, i.op1Val, ImmI(i.word)))
  BY <1>1, NarrowResultExtended
<1>3. \/ ArithOf(i, y) = NarrowResult(i.word, i.op1Val, y)
      \/ ArithOf(i, y) = NarrowResult(i.word, i.op1Val, ImmI(i.word))
  <2>1. Opcode(i.word) # OP_INT /\ Opcode(i.word) # OP_INTIMM
    BY DEF NarrowOps, OP_INT, OP_INTIMM, OP_INTW, OP_INTIMMW
  <2> QED
    BY <2>1, Zenon DEF NarrowOps, ArithOf
<1> QED
  BY <1>2, <1>3

(* An instruction within the ranges, in whatever stage.                    *)
Ranged(i) ==
  /\ i.PC[0] = 0 => i.nextPC[0] = 0
  /\ Opcode(i.word) \in NarrowOps => IsExtended(i.arithResult)

LEMMA StationsRanged ==
  ASSUME NEW w \in Bits, NEW pc \in Bits, NEW regs \in RegisterFile
  PROVE  /\ Ranged(Fetched(w, pc))
         /\ Ranged(Decoded(w, pc, regs))
         /\ Ranged(SimEX(Decoded(w, pc, regs)))
         /\ Ranged(Result(w, pc, regs))
<1> DEFINE i == Fetched(w, pc)
           j == Decoded(w, pc, regs)
           k == SimEX(j)
           l == Result(w, pc, regs)
<1>1. i \in Insts /\ j \in Insts /\ k \in Insts
  BY Stations, Zenon
<1>2. i.nextPC = Add(pc, FromNat(4)) /\ i.arithResult = FromNat(0) /\ i.PC = pc
  BY DEF Fetched
<1>3. j = SimID(i, regs)
  BY Zenon DEF Decoded
<1>4. l = SimMEM(k)
  BY Zenon DEF Result
<1> HIDE DEF i, j, l
<1>5. Ranged(i)
  <2>1. FromNat(4) \in Bits
    BY FromNatType
  <2>2. pc[0] = 0 => Add(pc, FromNat(4))[0] = 0
    BY <2>1, LowestBit
  <2>3. IsExtended(FromNat(0))
    <3>1. \A n \in 31..63 : n \in Position
      BY DEF Position
    <3> QED
      BY <3>1, ZeroIs DEF IsExtended
  <2> QED
    BY <1>2, <2>2, <2>3, Zenon DEF Ranged
<1>6. Ranged(j)
  <2>1. /\ j.word = i.word /\ j.PC = i.PC /\ j.arithResult = i.arithResult
        /\ j.nextPC = EXCEPTION_HANDLER \/ j.nextPC = NextPCOf(j)
    BY <1>1, <1>3, SimIDFields, Zenon DEF RegisterFile
  <2>2. j.PC[0] = 0 => j.nextPC[0] = 0
    BY <1>1, <2>1, NextPCOfIsEven, LowestBit, Zenon
  <2> QED
    BY <1>5, <2>1, <2>2, Zenon DEF Ranged
<1>7. Ranged(k)
  <2>1. /\ k.word = j.word /\ k.PC = j.PC /\ k.nextPC = j.nextPC
        /\ k.arithResult = j.arithResult \/ k.arithResult = ArithOf(j, MaskedOp2Val(j))
    BY <1>1, SimEXFields, Zenon
  <2>2. MaskedOp2Val(j) \in Bits
    BY <1>1, MaskedOp2Type
  <2>3. Opcode(j.word) \in NarrowOps => IsExtended(ArithOf(j, MaskedOp2Val(j)))
    BY <1>1, <2>2, ArithOfExtended, Zenon
  <2> QED
    BY <1>6, <2>1, <2>3, Zenon DEF Ranged
<1> HIDE DEF k
<1>8. Ranged(l)
  <2>1. /\ l.word = k.word /\ l.PC = k.PC /\ l.nextPC = k.nextPC
        /\ l.arithResult = k.arithResult
    BY <1>1, <1>4, SimMEMFields, Zenon
  <2> QED
    BY <1>7, <2>1, Zenon DEF Ranged
<1> QED
  BY <1>5, <1>6, <1>7, <1>8, Zenon DEF i, j, k, l

-----------------------------------------------------------------------------
(* Whatever the word, the statement or the registers: what the stage       *)
(* helpers of class Simulator leave in an instruction is 64 bits wide and  *)
(* the flags are set, in every stage; no instruction at an even pc, not    *)
(* even a jalr on an odd register, has an odd next pc; and what a *w       *)
(* operation leaves in arithResult is extended from bit 31.                *)
THEOREM DatapathTyped == Spec => []TypeOK
<1>1. Inv => TypeOK
  <2> SUFFICES ASSUME Inv
               PROVE  TypeOK
    OBVIOUS
  <2>1. /\ inst.word \in Bits /\ inst.PC \in Bits /\ Regs \in RegisterFile
    BY FilesAreTyped DEF Inv, Carried, Regs
  <2>2. inst \in Insts /\ stage \in {"IF", "ID", "EX", "MEM"}
    BY <2>1, Stations DEF Inv, Computed
  <2>3. DOMAIN NoFlags = FlagNames
    BY FlagsType
  <2>4. Ranged(inst)
    <3>1. \/ inst = Fetched(inst.word, inst.PC)
          \/ inst = Decoded(inst.word, inst.PC, Regs)
          \/ inst = SimEX(Decoded(inst.word, inst.PC, Regs))
          \/ inst = Result(inst.word, inst.PC, Regs)
      BY Zenon DEF Inv, Computed
    <3>2. /\ Ranged(Fetched(inst.word, inst.PC))
          /\ Ranged(Decoded(inst.word, inst.PC, Regs))
          /\ Ranged(SimEX(Decoded(inst.word, inst.PC, Regs)))
          /\ Ranged(Result(inst.word, inst.PC, Regs))
      BY <2>1, StationsRanged, Zenon
    <3> QED
      BY <3>1, <3>2, Zenon
  <2>5. NextPCIsEven /\ NarrowIsExtended
    BY <2>4, Zenon DEF Ranged, NextPCIsEven, NarrowIsExtended, IsExtended, NarrowOps
  <2>6. inst \in [word : {inst.word}, PC : Bits, flags : [DOMAIN NoFlags -> BOOLEAN],
                  op1Val : Bits, op2Val : Bits, nextPC : Bits, arithResult : Bits,
                  memAddress : Bits]
    BY <2>2, <2>3 DEF Insts
  <2> QED
    BY <2>2, <2>5, <2>6, Zenon DEF TypeOK
<1> QED
  BY Invariance, <1>1, PTL

(* The operations that Pipeline, Control and the reference are written in  *)
(* are what simDecode distinguishes: after ID the flags of any word are    *)
(* the control signals of its operation.                                   *)
THEOREM EveryWordClassified == Spec => []ClassifiedAsModelled
<1>1. Inv => ClassifiedAsModelled
  <2> SUFFICES ASSUME Inv, stage = "ID"
               PROVE  ClassifiedAsModelled
    BY DEF ClassifiedAsModelled
  <2>1. /\ inst.word \in Bits /\ inst.PC \in Bits /\ Regs \in RegisterFile
    BY FilesAreTyped DEF Inv, Carried, Regs
  <2>2. inst = Decoded(inst.word, inst.PC, Regs)
    BY DEF Inv, Computed
  <2>3. inst.flags = SimDecode(inst.word)
    BY <2>1, <2>2, Stations
  <2> DEFINE i == [word |-> [op |-> OperationOf(inst.word)]]
  <2>4. i.word.op = OperationOf(inst.word)
    BY Zenon
  <2>5. inst.flags = SignalsOf(i)
    <3> HIDE DEF i
    <3> QED
      BY <2>3, <2>4, SignalsAreFlags
  <2> QED
    BY <2>5, Zenon DEF ClassifiedAsModelled, SignalsOf
<1> QED
  BY Invariance, <1>1, PTL

(* The decoder, the immediates, the arithmetic, the next pc and the        *)
(* address of the stage helpers compute what the statement means, for      *)
(* every statement of RV64I, all registers, all immediates and every pc.   *)
THEOREM AssemblyExecuted == Spec => []ExecutesAssembly
<1>1. Inv => ExecutesAssembly
  <2> SUFFICES ASSUME Inv, stage = "MEM", statement # NoStatement
               PROVE  ExecutesAssembly
    BY DEF ExecutesAssembly
  <2>1. /\ inst.PC \in Bits /\ Regs \in RegisterFile
        /\ WellFormed(statement) /\ inst.word = Assemble(statement)
    BY FilesAreTyped DEF Inv, Carried, Regs
  <2>2. inst = Result(inst.word, inst.PC, Regs)
    BY DEF Inv, Computed
  <2>3. MeansIt(inst.word, statement, inst.PC, Regs)
    BY <2>1, AssembledMeans
  <2> QED
    BY <2>2, <2>3, Zenon DEF ExecutesAssembly, MeansIt, Regs
<1> QED
  BY Invariance, <1>1, PTL

(* getOpString and the handle functions of Utilities.cpp print, of every   *)
(* word an assembler makes, the statement it was made from, save for the   *)
(* words Plain excludes.                                                   *)
THEOREM StatementDisplayed == Spec => []DisplayReadsBack
<1>1. Inv => DisplayReadsBack
  <2> SUFFICES ASSUME Inv, statement # NoStatement, Plain(inst.word)
               PROVE  ReadBack(PrintInstr(inst.word)) = statement
    BY Zenon DEF DisplayReadsBack
  <2>1. inst.word \in Bits /\ WellFormed(statement) /\ inst.word = Assemble(statement)
    BY DEF Inv, Carried
  <2>2. Accepted(inst.word)
    BY <2>1, AssembledAccepted
  <2>3. ReadFrom(inst.word, ReadBack(PrintInstr(inst.word)))
    BY <2>1, <2>2, ShownIsAccepted
  <2> QED
    BY <2>1, <2>3, ReadFromAssembled
<1> QED
  BY Invariance, <1>1, PTL

(* The decoder of the diagram and the decoder of the simulator agree on    *)
(* every word that is not HALT or NOP and not one of those Misprinted      *)
(* names: shown as ILLEGAL is trapped, and what is shown is what is done.  *)
THEOREM DisplayExecuted == Spec => []DisplayedIsExecuted
<1>1. Inv => DisplayedIsExecuted
  <2> SUFFICES ASSUME Inv, stage = "MEM", Plain(inst.word)
               PROVE  DisplayedIsExecuted
    BY Zenon DEF DisplayedIsExecuted
  <2> DEFINE w == inst.word
             shown == PrintInstr(w)
             t == ReadBack(shown)
  <2>1. /\ w \in Bits /\ inst.PC \in Bits /\ Regs \in RegisterFile
    BY FilesAreTyped DEF Inv, Carried, Regs
  <2>2. inst = Result(w, inst.PC, Regs)
    BY DEF Inv, Computed
  <2>3. /\ LegalWord(w) <=> Accepted(w)
        /\ shown # IllegalShown <=> Accepted(w)
        /\ Accepted(w) => ReadFrom(w, t)
    BY <2>1, ShownIsAccepted
  <2> HIDE DEF shown, t
  <2>4. CASE Accepted(w)
    <3>1. Ordinary(w)
      BY <2>4 DEF Plain, Ordinary
    <3>2. Encodes(w, t)
      BY <2>1, <2>3, <2>4, ReadFromEncodes
    <3>3. MeansIt(w, t, inst.PC, Regs)
      BY <2>1, <3>1, <3>2, EncodedMeans
    <3> QED
      BY <2>2, <2>3, <2>4, <3>3, Zenon DEF DisplayedIsExecuted, MeansIt, Regs, t, shown
  <2>5. CASE ~Accepted(w)
    <3>1. ~inst.flags.isLegal /\ inst.nextPC = EXCEPTION_HANDLER
      <4>1. ~LegalWord(w)
        BY <2>3, <2>5
      <4> QED
        BY <2>1, <2>2, <4>1, IllegalGoes, Zenon
    <3> QED
      BY <2>3, <2>5, <3>1, Zenon DEF DisplayedIsExecuted, shown
  <2> QED
    BY <2>4, <2>5
<1> QED
  BY Invariance, <1>1, PTL

=============================================================================
