------------------------------ MODULE Assembly ------------------------------
(***************************************************************************)
(* The reference for one instruction: what an assembler makes of a         *)
(* statement, and what the statement means.  An assembler is no part of    *)
(* the repository; the binaries in src/test were made by one.              *)
(*                                                                         *)
(* A statement is a name in the three parts of getOpString, registers, and *)
(* an immediate that is already the signed number it stands for.           *)
(***************************************************************************)
EXTENDS BitVector

ShiftBodies == {"sll", "srl", "sra"}

RegisterBodies == {"add", "sub", "slt", "sltu", "xor", "or", "and"} \cup ShiftBodies

ConditionBodies == {"eq", "ne", "lt", "ge", "ltu", "geu"}

LoadBodies == {"b", "h", "w", "d", "bu", "hu", "wu"}

StoreBodies == {"b", "h", "w", "d"}

SpecialBodies == {"lui", "auipc", "jal", "jalr"}

(* The names there are. *)
StatementNames ==
  {""} \X RegisterBodies \X {""}
    \cup {""} \X ({"add", "sub"} \cup ShiftBodies) \X {"w"}
    \cup {""} \X (RegisterBodies \ {"sub"}) \X {"i"}
    \cup {""} \X ({"add"} \cup ShiftBodies) \X {"iw"}
    \cup {"l"} \X LoadBodies \X {""}
    \cup {"s"} \X StoreBodies \X {""}
    \cup {"b"} \X ConditionBodies \X {""}
    \cup {""} \X SpecialBodies \X {""}

Register == 0..31

Statement ==
  [name : StatementNames, rd : Register, rs1 : Register, rs2 : Register, imm : Bits]

Body(s) == s.name[2]

Narrow(s) == s.name[3] \in {"w", "iw"}

Format(s) ==
  IF s.name[1] = "l" THEN "I"
  ELSE IF s.name[1] = "s" THEN "S"
  ELSE IF s.name[1] = "b" THEN "B"
  ELSE IF Body(s) \in {"lui", "auipc"} THEN "U"
  ELSE IF Body(s) = "jal" THEN "J"
  ELSE IF Body(s) = "jalr" THEN "I"
  ELSE IF s.name[3] \in {"", "w"} THEN "R"
  ELSE IF Body(s) \notin ShiftBodies THEN "I"
  ELSE "shift"

OpcodeOf(s) ==
  IF s.name[1] = "l" THEN \b0000011
  ELSE IF s.name[1] = "s" THEN \b0100011
  ELSE IF s.name[1] = "b" THEN \b1100011
  ELSE IF Body(s) = "lui" THEN \b0110111
  ELSE IF Body(s) = "auipc" THEN \b0010111
  ELSE IF Body(s) = "jal" THEN \b1101111
  ELSE IF Body(s) = "jalr" THEN \b1100111
  ELSE IF Format(s) = "R" THEN (IF Narrow(s) THEN \b0111011 ELSE \b0110011)
  ELSE IF Narrow(s) THEN \b0011011 ELSE \b0010011

ArithmeticFunct3 ==
  [add |-> 0, sub |-> 0, sll |-> 1, slt |-> 2, sltu |-> 3,
   xor |-> 4, srl |-> 5, sra |-> 5, or |-> 6, and |-> 7]

WidthFunct3 == [b |-> 0, h |-> 1, w |-> 2, d |-> 3, bu |-> 4, hu |-> 5, wu |-> 6]

ConditionFunct3 == [eq |-> 0, ne |-> 1, lt |-> 4, ge |-> 5, ltu |-> 6, geu |-> 7]

Funct3Of(s) ==
  IF s.name[1] \in {"l", "s"} THEN WidthFunct3[Body(s)]
  ELSE IF s.name[1] = "b" THEN ConditionFunct3[Body(s)]
  ELSE IF Body(s) \in DOMAIN ArithmeticFunct3 THEN ArithmeticFunct3[Body(s)]
  ELSE 0

Funct7Of(s) == IF Body(s) \in {"sub", "sra"} THEN \b0100000 ELSE 0

(* What a format has no field for is zero, and the immediate is a number   *)
(* of its field: a distance, or a signed number, even or in whole pages.   *)
WellFormed(s) ==
  /\ s \in Statement
  /\ Format(s) \in {"S", "B"} => s.rd = 0
  /\ Format(s) \in {"U", "J"} => s.rs1 = 0
  /\ Format(s) \notin {"R", "S", "B"} => s.rs2 = 0
  /\ \A i \in Position :
       /\ Format(s) = "R" => s.imm[i] = 0
       /\ Format(s) = "shift" /\ i > (IF Narrow(s) THEN 4 ELSE 5) => s.imm[i] = 0
       /\ Format(s) \in {"I", "S"} /\ i > 11 => s.imm[i] = s.imm[11]
       /\ Format(s) = "B" => (i > 12 => s.imm[i] = s.imm[12]) /\ (i = 0 => s.imm[i] = 0)
       /\ Format(s) = "U" => (i > 31 => s.imm[i] = s.imm[31]) /\ (i < 12 => s.imm[i] = 0)
       /\ Format(s) = "J" => (i > 20 => s.imm[i] = s.imm[20]) /\ (i = 0 => s.imm[i] = 0)

(* The bit of the immediate that is bit p of the word, or -1. *)
ImmediateBitAt(format, p) ==
  IF format = "I" /\ p >= 20 THEN p - 20
  ELSE IF format = "shift" /\ p \in 20..25 THEN p - 20
  ELSE IF format = "S" /\ p >= 25 THEN p - 20
  ELSE IF format = "S" /\ p \in 7..11 THEN p - 7
  ELSE IF format = "B" /\ p = 31 THEN 12
  ELSE IF format = "B" /\ p >= 25 THEN p - 20
  ELSE IF format = "B" /\ p \in 8..11 THEN p - 7
  ELSE IF format = "B" /\ p = 7 THEN 11
  ELSE IF format = "U" /\ p >= 12 THEN p
  ELSE IF format = "J" /\ p = 31 THEN 20
  ELSE IF format = "J" /\ p >= 21 THEN p - 20
  ELSE IF format = "J" /\ p = 20 THEN 11
  ELSE IF format = "J" /\ p \in 12..19 THEN p
  ELSE -1

(* The value of a field and the position of its lowest bit. *)
FieldBit(s, p) ==
  LET bit(n, lowest) == (n \div 2^(p - lowest)) % 2
  IN IF p <= 6 THEN bit(OpcodeOf(s), 0)
     ELSE IF p <= 11 THEN bit(s.rd, 7)
     ELSE IF p <= 14 THEN bit(Funct3Of(s), 12)
     ELSE IF p <= 19 THEN bit(s.rs1, 15)
     ELSE IF p <= 24 THEN bit(s.rs2, 20)
     ELSE bit(Funct7Of(s), 25)

Assemble(s) ==
  [p \in Position |->
     IF p > 31 THEN 0
     ELSE IF ImmediateBitAt(Format(s), p) >= 0
       THEN s.imm[ImmediateBitAt(Format(s), p)]
     ELSE FieldBit(s, p)]

-----------------------------------------------------------------------------
(* Meaning.  Sums and comparisons are those of numbers, in four limbs of   *)
(* sixteen bits.                                                           *)

LimbSpan == 65536

Limb(x, k) == ToNat(ShiftRight(x, 16 * k), 16)

(* Each with the carry out of the one below. *)
LimbSum(x, y) ==
  LET sum[k \in 0..3] ==
        Limb(x, k) + Limb(y, k) + IF k = 0 THEN 0 ELSE sum[k - 1] \div LimbSpan
  IN sum

Sum(x, y) == [i \in Position |-> (LimbSum(x, y)[i \div 16] \div 2^(i % 16)) % 2]

Difference(x, y) == Sum(x, Sum(NotBits(y), FromNat(1)))

(* The order of numbers; the highest limb is signed if the number is. *)
Smaller(x, y, signed) ==
  LET limb(z, k) ==
        IF signed /\ k = 3 /\ z[63] = 1 THEN Limb(z, k) - LimbSpan ELSE Limb(z, k)
  IN \E k \in 0..3 :
       limb(x, k) < limb(y, k) /\ \A j \in (k + 1)..3 : limb(x, j) = limb(y, j)

(* An operation on 64-bit numbers; only the last bits of y are a distance. *)
Operate(body, x, y, distanceBits) ==
  LET n == ToNat(y, distanceBits)
  IN CASE body = "add"  -> Sum(x, y)
       [] body = "sub"  -> Difference(x, y)
       [] body = "slt"  -> Truth(Smaller(x, y, TRUE))
       [] body = "sltu" -> Truth(Smaller(x, y, FALSE))
       [] body = "sll"  -> ShiftLeft(x, n)
       [] body = "srl"  -> ShiftRight(x, n)
       [] body = "sra"  -> ShiftRightArith(x, n)
       [] body = "xor"  -> XorBits(x, y)
       [] body = "or"   -> OrBits(x, y)
       [] body = "and"  -> AndBits(x, y)

SignedWord(x) == Sext64(Low32(x), 31)

(* A narrow operation takes and gives words of 32 bits. *)
Computes(s, x, y) ==
  IF Narrow(s)
    THEN SignedWord(Operate(Body(s), IF Body(s) = "srl" THEN Low32(x) ELSE SignedWord(x),
                            y, 5))
    ELSE Operate(Body(s), x, y, 6)

Holds(condition, x, y) ==
  CASE condition = "eq"  -> x = y
    [] condition = "ne"  -> x # y
    [] condition = "lt"  -> Smaller(x, y, TRUE)
    [] condition = "ge"  -> ~Smaller(x, y, TRUE)
    [] condition = "ltu" -> Smaller(x, y, FALSE)
    [] condition = "geu" -> ~Smaller(x, y, FALSE)

(* What the statement at pc does: the register value, the address of the   *)
(* access, the next pc.                                                    *)
Meaning(s, pc, regs) ==
  LET x == IF s.rs1 = 0 THEN FromNat(0) ELSE regs[s.rs1]
      r == IF s.rs2 = 0 THEN FromNat(0) ELSE regs[s.rs2]
      y == IF Format(s) = "R" THEN r ELSE s.imm
      next == Sum(pc, FromNat(4))
  IN [result |-> IF s.name[1] # "" THEN FromNat(0)
                 ELSE IF Body(s) = "lui" THEN s.imm
                 ELSE IF Body(s) = "auipc" THEN Sum(pc, s.imm)
                 ELSE IF Body(s) \in {"jal", "jalr"} THEN next
                 ELSE Computes(s, x, y),
      address |-> IF s.name[1] \in {"l", "s"} THEN Sum(x, s.imm) ELSE FromNat(0),
      nextPC |-> IF Body(s) = "jalr" THEN [Sum(x, s.imm) EXCEPT ![0] = 0]
                 ELSE IF Body(s) = "jal" \/ (s.name[1] = "b" /\ Holds(Body(s), x, r))
                   THEN Sum(pc, s.imm)
                 ELSE next]

=============================================================================
