---------------------------- MODULE Disassembler ----------------------------
(***************************************************************************)
(* What the pipeline diagram shows of an instruction (Utilities.cpp,       *)
(* printInstr): the name getOpString puts together from prefix, body and   *)
(* suffix, the registers in the order of printing, and the immediate.      *)
(* Spelling of registers, numbers and stage status is left out.            *)
(***************************************************************************)
EXTENDS Decode

IllegalName == <<"", "ILLEGAL", "">>

IntBody == <<"add", "sll", "slt", "sltu", "xor", "sr", "or", "and">>

MemBody == <<"b", "h", "w", "d", "bu", "hu", "wu">>

BranchBody ==
  [f3 \in {0, 1, 4, 5, 6, 7} |->
     <<"eq", "ne", "", "", "lt", "ge", "ltu", "geu">>[f3 + 1]]

ShiftBody(arithmetic) == IF arithmetic THEN "sra" ELSE "srl"

(* The body of an OP_INT or OP_INTIMM instruction. *)
IntName(w, suffix) ==
  LET f3 == Funct3(w)
      sub == Opcode(w) = OP_INT /\ Funct7(w) = FUNCT7_SUB
  IN IF \/ f3 = FUNCT3_ADD /\ Opcode(w) = OP_INT /\ ~AddOrSub(w)
        \/ f3 = FUNCT3_SR /\ ~ShiftKindOf64(w)
       THEN IllegalName
     ELSE <<"", IF f3 = FUNCT3_ADD /\ sub THEN "sub"
                ELSE IF f3 = FUNCT3_SR THEN ShiftBody(Funct7(w) \div 2 # 0)
                ELSE IntBody[f3 + 1], suffix>>

(* The body of an OP_INTW or OP_INTIMMW instruction: funct7 selects add or *)
(* sub in both.                                                            *)
IntWName(w, suffix) ==
  LET f3 == Funct3(w)
  IN IF \/ f3 \notin {FUNCT3_ADD, FUNCT3_SLL, FUNCT3_SR}
        \/ f3 = FUNCT3_ADD /\ ~AddOrSub(w)
        \/ f3 = FUNCT3_SR /\ ~ShiftKindOf32(w)
       THEN IllegalName
     ELSE <<"", IF f3 = FUNCT3_ADD /\ Funct7(w) = FUNCT7_SUB THEN "sub"
                ELSE IF f3 = FUNCT3_SR THEN ShiftBody(Funct7(w) # 0)
                ELSE IntBody[f3 + 1], suffix>>

GetOpString(w) ==
  LET op == Opcode(w)
      f3 == Funct3(w)
  IN IF op = OP_INT THEN IntName(w, "")
     ELSE IF op = OP_INTIMM THEN IntName(w, "i")
     ELSE IF op = OP_INTW THEN IntWName(w, "w")
     ELSE IF op = OP_INTIMMW THEN IntWName(w, "iw")
     ELSE IF op = OP_LOAD /\ f3 <= 6 THEN <<"l", MemBody[f3 + 1], "">>
     ELSE IF op = OP_STORE /\ f3 <= 3 THEN <<"s", MemBody[f3 + 1], "">>
     ELSE IF op = OP_BRANCH /\ f3 \in DOMAIN BranchBody
       THEN <<"b", BranchBody[f3], "">>
     ELSE IF op = OP_JAL THEN <<"", "jal", "">>
     ELSE IF op = OP_JALR THEN <<"", "jalr", "">>
     ELSE IF op = OP_LUI THEN <<"", "lui", "">>
     ELSE IF op = OP_AUIPC THEN <<"", "auipc", "">>
     ELSE IllegalName

Shown(name, regs, imm) == [name |-> name, regs |-> regs, imm |-> imm]

HandleIAndR_SignedShift(w) ==
  LET name == GetOpString(w)
  IN IF Opcode(w) \in RegisterArith
       THEN Shown(name, <<Rd(w), Rs1(w), Rs2(w)>>, FromNat(0))
       ELSE Shown(name, <<Rd(w), Rs1(w)>>, ImmI(w))

HandleIAndR(w) ==
  LET name == GetOpString(w)
      imm12 == ExtractBits(w, 31, 20)
  IN IF Opcode(w) \in RegisterArith
       THEN Shown(name, <<Rd(w), Rs1(w), Rs2(w)>>, FromNat(0))
     ELSE IF Funct3(w) \in {FUNCT3_SLL, FUNCT3_SR}
       THEN Shown(name, <<Rd(w), Rs1(w)>>, Masked(imm12, 6))
     ELSE Shown(name, <<Rd(w), Rs1(w)>>, Sext64(imm12, 11))

HandleLAndS_LoadFormat(w) == Shown(GetOpString(w), <<Rs2(w), Rs1(w)>>, ImmI(w))

HandleLAndS(w) ==
  IF Opcode(w) = OP_LOAD
    THEN Shown(GetOpString(w), <<Rd(w), Rs1(w)>>, ImmI(w))
    ELSE Shown(GetOpString(w), <<Rs2(w), Rs1(w)>>, ImmS(w))

HandleBranch(w) == Shown(GetOpString(w), <<Rs1(w), Rs2(w)>>, ImmB(w))

(* sextUpper extends the shifted immediate from bit 19. *)
HandleSpecial(w) ==
  IF Opcode(w) = OP_JAL
    THEN Shown(GetOpString(w), <<Rd(w)>>, ImmJ(w))
    ELSE Shown(GetOpString(w), <<Rd(w)>>, Sext64(UpperBits(w), 19))

PrintInstr(w) ==
  IF w = HaltWord THEN Shown(<<"", "HALT", "">>, << >>, FromNat(0))
  ELSE IF w = NopWord THEN Shown(<<"", "NOP", "">>, << >>, FromNat(0))
  ELSE IF GetOpString(w) = IllegalName THEN Shown(IllegalName, << >>, FromNat(0))
  ELSE IF Opcode(w) \in RegisterArith \cup ImmediateArith \cup {OP_JALR}
    THEN HandleIAndR(w)
  ELSE IF Opcode(w) \in {OP_LOAD, OP_STORE} THEN HandleLAndS(w)
  ELSE IF Opcode(w) = OP_BRANCH THEN HandleBranch(w)
  ELSE HandleSpecial(w)

=============================================================================
