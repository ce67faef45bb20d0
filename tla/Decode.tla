------------------------------- MODULE Decode -------------------------------
(***************************************************************************)
(* From 32 bits to control signals and immediates: Simulator::simDecode    *)
(* and the extractions at the head of simNextPCResolution, simArithLogic   *)
(* and simAddrGen.                                                         *)
(***************************************************************************)
EXTENDS BitVector

(* enum OPCODES. *)
OP_INT == \b0110011
OP_INTW == \b0111011
OP_LOAD == \b0000011
OP_INTIMM == \b0010011
OP_INTIMMW == \b0011011
OP_JALR == \b1100111
OP_STORE == \b0100011
OP_BRANCH == \b1100011
OP_AUIPC == \b0010111
OP_LUI == \b0110111
OP_JAL == \b1101111

(* enum FUNCT3, as far as single values are tested, and RI_FUNCT7. *)
FUNCT3_ADD == 0
FUNCT3_SLL == 1
FUNCT3_SR == 5
FUNCT7_ADD == 0
FUNCT7_SUB == \b0100000

HaltWord == FromHalves(65261, 65261)   \* 0xfeedfeed

NopWord == FromNat(19)                 \* 0x00000013

Field(w, start, end) == ToNat(ExtractBits(w, start, end), start - end + 1)

Opcode(w) == Field(w, 6, 0)
Rd(w) == Field(w, 11, 7)
Funct3(w) == Field(w, 14, 12)
Rs1(w) == Field(w, 19, 15)
Rs2(w) == Field(w, 24, 20)
Funct7(w) == Field(w, 31, 25)

(* The shift of an immediate takes one bit of funct7: six are tested. *)
ShiftKindOf64(w) == Funct7(w) \div 2 \in {0, FUNCT7_SUB \div 2}

ShiftKindOf32(w) == Funct7(w) \in {0, FUNCT7_SUB}

AddOrSub(w) == Funct7(w) \in {FUNCT7_ADD, FUNCT7_SUB}

(* The combinations that simDecode does not reject. *)
Accepted(w) ==
  LET op == Opcode(w)
      f3 == Funct3(w)
  IN \/ op = OP_INT /\ (f3 = FUNCT3_ADD => AddOrSub(w))
                    /\ (f3 = FUNCT3_SR => ShiftKindOf64(w))
     \/ op = OP_INTIMM /\ (f3 = FUNCT3_SR => ShiftKindOf64(w))
     \/ op = OP_INTW /\ \/ f3 = FUNCT3_ADD /\ AddOrSub(w)
                        \/ f3 = FUNCT3_SLL
                        \/ f3 = FUNCT3_SR /\ ShiftKindOf32(w)
     \/ op = OP_INTIMMW /\ \/ f3 \in {FUNCT3_ADD, FUNCT3_SLL}
                           \/ f3 = FUNCT3_SR /\ ShiftKindOf32(w)
     \/ op = OP_LOAD /\ f3 <= 6
     \/ op = OP_STORE /\ f3 <= 3
     \/ op = OP_BRANCH /\ f3 \notin {2, 3}
     \/ op \in {OP_JALR, OP_AUIPC, OP_LUI, OP_JAL}

IsHaltWord(w) == w = HaltWord

IsNopWord(w) == w = NopWord

LegalWord(w) == IsHaltWord(w) \/ IsNopWord(w) \/ Accepted(w)

(* Signals are set for what is accepted; HALT and NOP return before. *)
HasOpcode(w, opcodes) ==
  Accepted(w) /\ ~IsHaltWord(w) /\ ~IsNopWord(w) /\ Opcode(w) \in opcodes

RegisterArith == {OP_INT, OP_INTW}

ImmediateArith == {OP_INTIMM, OP_INTIMMW}

Rs1Readers_NotJalr == RegisterArith \cup ImmediateArith \cup {OP_LOAD, OP_STORE, OP_BRANCH}

Rs1Readers ==
  RegisterArith \cup ImmediateArith \cup {OP_LOAD, OP_STORE, OP_BRANCH, OP_JALR}

(* simDecode's flags. *)
SimDecode(w) ==
  [isHalt |-> IsHaltWord(w),
   isNop |-> IsNopWord(w),
   isLegal |-> LegalWord(w),
   readsMem |-> HasOpcode(w, {OP_LOAD}),
   writesMem |-> HasOpcode(w, {OP_STORE}),
   doesArithLogic |-> HasOpcode(w, RegisterArith \cup ImmediateArith \cup
                                   {OP_JALR, OP_AUIPC, OP_LUI, OP_JAL}),
   writesRd |-> HasOpcode(w, RegisterArith \cup ImmediateArith \cup
                             {OP_LOAD, OP_JALR, OP_AUIPC, OP_LUI, OP_JAL}),
   readsRs1 |-> HasOpcode(w, Rs1Readers),
   readsRs2 |-> HasOpcode(w, RegisterArith \cup {OP_STORE, OP_BRANCH})]

-----------------------------------------------------------------------------
(* Immediates, put together from the fields as the code does: the or of    *)
(* shifted extractions.                                                    *)

ImmI(w) == Sext64(ExtractBits(w, 31, 20), 11)

ImmS(w) ==
  Sext64(OrBits(ShiftLeft(ExtractBits(w, 31, 25), 5), ExtractBits(w, 11, 7)), 11)

ImmB_LikeS(w) == ImmS(w)

(* branchTarget takes its pieces from funct7 and rd. *)
ImmB(w) ==
  LET imm7 == ExtractBits(w, 31, 25)
      imm5 == ExtractBits(w, 11, 7)
      high == OrBits(ShiftLeft(ExtractBits(imm7, 6, 6), 12),
                     ShiftLeft(ExtractBits(imm7, 5, 0), 5))
      low == OrBits(ShiftLeft(ExtractBits(imm5, 4, 1), 1),
                    ShiftLeft(ExtractBits(imm5, 0, 0), 11))
  IN Sext64(OrBits(high, low), 12)

(* jalTarget takes its pieces from the upper twenty bits. *)
ImmJ(w) ==
  LET imm20 == ExtractBits(w, 31, 12)
      high == OrBits(ShiftLeft(ExtractBits(imm20, 19, 19), 20),
                     ShiftLeft(ExtractBits(imm20, 7, 0), 12))
      low == OrBits(ShiftLeft(ExtractBits(imm20, 18, 9), 1),
                    ShiftLeft(ExtractBits(imm20, 8, 8), 11))
  IN Sext64(OrBits(high, low), 20)

UpperBits(w) == ShiftLeft(ExtractBits(w, 31, 12), 12)

ImmU(w) == Sext64(UpperBits(w), 31)

=============================================================================
