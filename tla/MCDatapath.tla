---------------------------- MODULE MCDatapath ----------------------------
(* Instances of the datapath for TLC. *)
EXTENDS Datapath

St(name, rd, rs1, rs2, imm) ==
  [name |-> name, rd |-> rd, rs1 |-> rs1, rs2 |-> rs2, imm |-> imm]

Zero == FromNat(0)

(* Numbers 2^n, and -2^n. *)
PowerOf2(n) == ShiftLeft(FromNat(1), n)
MinusPowerOf2(n) == [i \in Position |-> IF i >= n THEN 1 ELSE 0]

(* One bit of an immediate at a time, its sign, and all of them. *)
Immediates(lowest, sign) ==
  {PowerOf2(n) : n \in lowest..(sign - 1)} \cup {Zero, MinusPowerOf2(sign), MinusPowerOf2(lowest)}

Distances(n) ==
  {PowerOf2(k) : k \in 0..(n - 1)} \cup {Zero, FromNat(2^n - 1)}

Names(prefix, bodies, suffix) == {<<prefix, b, suffix>> : b \in bodies}

RNames ==
  Names("", {"add", "sub", "sll", "slt", "sltu", "xor", "srl", "sra", "or", "and"}, "")
    \cup Names("", {"add", "sub", "sll", "srl", "sra"}, "w")
BNames == Names("b", {"eq", "ne", "lt", "ge", "ltu", "geu"}, "")
INames ==
  Names("", {"add", "slt", "sltu", "xor", "or", "and"}, "i") \cup Names("", {"add"}, "iw")
ShiftNames == Names("", {"sll", "srl", "sra"}, "i")
NarrowShiftNames == Names("", {"sll", "srl", "sra"}, "iw")
LoadNames == Names("l", {"b", "h", "w", "d", "bu", "hu", "wu"}, "")
StoreNames == Names("s", {"b", "h", "w", "d"}, "")

(* Zero, the ends of both signed widths and of the unsigned one, all ones, *)
(* a distance beyond 31, and a mixture.                                    *)
Operands ==
  <<Zero, FromNat(37), MinusPowerOf2(0), PowerOf2(31), PowerOf2(63),
    NotBits(MinusPowerOf2(31)), NotBits(PowerOf2(63)), FromHalves(49153, 32769)>>

Large == 5
Mixed == 8

(* Operands in x1 and x2.  Every other register differs from the rest, and *)
(* x0 holds what the functional simulator wrote to it.                     *)
MCRegisterFiles ==
  [f \in (1..8) \X (1..8) |->
     [r \in 0..31 |-> IF r = 0 THEN Operands[Large]
                      ELSE IF r = 1 THEN Operands[f[1]]
                      ELSE IF r = 2 THEN Operands[f[2]]
                      ELSE FromNat(100 + 1000 * r)]]

OperandStatements ==
  {St(n, 3, 1, 2, Zero) : n \in RNames} \cup {St(n, 0, 1, 2, PowerOf2(5)) : n \in BNames}

OperandCases ==
  {[statement |-> s, file |-> f] :
     s \in OperandStatements, f \in (1..7) \X (1..7)}

(* Immediates of every format. *)
ImmediateStatements ==
  {St(n, 3, 1, 0, imm) : n \in INames \cup LoadNames \cup {<<"", "jalr", "">>},
                         imm \in Immediates(0, 11)}
    \cup {St(n, 3, 1, 0, imm) : n \in ShiftNames, imm \in Distances(6)}
    \cup {St(n, 3, 1, 0, imm) : n \in NarrowShiftNames, imm \in Distances(5)}
    \cup {St(n, 0, 1, 2, imm) : n \in StoreNames, imm \in Immediates(0, 11)}
    \cup {St(n, 0, 1, 1, imm) : n \in BNames, imm \in Immediates(1, 12)}
    \cup {St(<<"", b, "">>, 3, 0, 0, imm) : b \in {"lui", "auipc"}, imm \in Immediates(12, 31)}
    \cup {St(<<"", "jal", "">>, 3, 0, 0, imm) : imm \in Immediates(1, 20)}

ImmediateCases ==
  {[statement |-> s, file |-> <<x, Large>>] :
     s \in ImmediateStatements, x \in {Mixed, Large}}

(* Registers of every format, one bit of a field at a time. *)
FieldValues == {0, 1, 2, 4, 8, 16, 31}

RegisterStatements ==
  {St(<<"", "sub", "">>, d, x, y, Zero) : d \in {0, 31}, x \in FieldValues, y \in FieldValues}
    \cup {St(<<"", "add", "i">>, d, x, 0, Zero) : d \in FieldValues, x \in FieldValues}
    \cup {St(<<"s", "d", "">>, 0, x, y, Zero) : x \in FieldValues, y \in FieldValues}
    \cup {St(<<"b", "lt", "">>, 0, x, y, Zero) : x \in FieldValues, y \in FieldValues}
    \cup {St(<<"", "jal", "">>, d, 0, 0, Zero) : d \in FieldValues}

RegisterCases ==
  {[statement |-> s, file |-> <<Mixed, Large>>] :
     s \in RegisterStatements}

MCStatements == OperandCases \cup ImmediateCases \cup RegisterCases

(* Every opcode and funct3, with the values of funct7 the code tells       *)
(* apart, and with others; HALT and NOP.                                   *)
MCRawWords ==
  {[word |-> FromHalves(f7 * 512 + 32, 32768 + f3 * 4096 + 384 + op), file |-> <<Mixed, Large>>] :
     op \in 0..127, f3 \in 0..7, f7 \in {0, 1, 16, 32, 33, 127}}
    \cup {[word |-> w, file |-> <<Mixed, Large>>] : w \in {HaltWord, NopWord, Zero}}

(* Four below 2^32: the next pc carries into the upper half. *)
MCPCs == {FromHalves(65535, 65532)}

=============================================================================
