------------------------------ MODULE BitVector ------------------------------
(***************************************************************************)
(* Unsigned 64-bit words as functions from bit positions to bits, the bit  *)
(* helpers of Utilities.cpp, and the C++ operators that the simulator      *)
(* applies to such words.  TLC's integers have 32 bits; no width is        *)
(* shortened here.                                                         *)
(***************************************************************************)
EXTENDS Integers

Bit == {0, 1}

Position == 0..63

Bits == [Position -> Bit]

(* The word with number n, and the one with number 65536 * high + low. *)
FromNat(n) == [i \in Position |-> IF i < 31 THEN (n \div 2^i) % 2 ELSE 0]

FromHalves(high, low) ==
  [i \in Position |-> IF i < 16 THEN (low \div 2^i) % 2
                      ELSE IF i < 32 THEN (high \div 2^(i - 16)) % 2
                      ELSE 0]

(* The number of the lowest n bits, n at most 30. *)
ToNat(x, n) ==
  LET sum[k \in 0..n] == IF k = 0 THEN 0 ELSE sum[k - 1] + x[k - 1] * 2^(k - 1)
  IN sum[n]

ExtractBits(x, start, end) ==
  [i \in Position |-> IF i <= start - end THEN x[end + i] ELSE 0]

(* sext64: the bits above signBit are set when it is. *)
Sext64(x, signBit) ==
  [i \in Position |-> IF i > signBit /\ x[signBit] = 1 THEN 1 ELSE x[i]]

(* The conversion to uint32_t and back. *)
Low32(x) == [i \in Position |-> IF i < 32 THEN x[i] ELSE 0]

Masked(x, n) == [i \in Position |-> IF i < n THEN x[i] ELSE 0]

AndBits(x, y) == [i \in Position |-> x[i] * y[i]]

XorBits(x, y) == [i \in Position |-> (x[i] + y[i]) % 2]

OrBits(x, y) == [i \in Position |-> IF x[i] + y[i] > 0 THEN 1 ELSE 0]

NotBits(x) == [i \in Position |-> 1 - x[i]]

ShiftLeft(x, n) == [i \in Position |-> IF i >= n THEN x[i - n] ELSE 0]

ShiftRight(x, n) == [i \in Position |-> IF i + n < 64 THEN x[i + n] ELSE 0]

ShiftRightArith(x, n) == [i \in Position |-> IF i + n < 64 THEN x[i + n] ELSE x[63]]

(* The carry into bit i of a sum: some lower position generates one (or    *)
(* one comes in) and every position between passes it on.                  *)
Carry(x, y, carryIn, i) ==
  \/ carryIn = 1 /\ \A k \in 0..(i - 1) : x[k] + y[k] > 0
  \/ \E j \in 0..(i - 1) :
       x[j] + y[j] = 2 /\ \A k \in (j + 1)..(i - 1) : x[k] + y[k] > 0

SumWithCarry(x, y, carryIn) ==
  [i \in Position |->
     (x[i] + y[i] + (IF Carry(x, y, carryIn, i) THEN 1 ELSE 0)) % 2]

Add(x, y) == SumWithCarry(x, y, 0)

Sub(x, y) == SumWithCarry(x, NotBits(y), 1)

(* Unsigned comparison: y has a one at the highest position at which they  *)
(* differ; the signed one orders the sign bits the other way.              *)
Less(x, y) ==
  \E i \in Position :
    x[i] < y[i] /\ \A k \in (i + 1)..63 : x[k] = y[k]

LessSigned(x, y) ==
  LET flip(z) == [z EXCEPT ![63] = 1 - @]
  IN Less(flip(x), flip(y))

Truth(condition) == FromNat(IF condition THEN 1 ELSE 0)

=============================================================================
