------------------------------ MODULE Datapath ------------------------------
(***************************************************************************)
(* One instruction on its way through the stage helpers of class Simulator *)
(* (simulator.cpp) with its bits: decoded, given its operands, its next    *)
(* pc, its result and the address it accesses; and what the pipeline       *)
(* diagram shows of it meanwhile.  Pipeline abstracts from all of this:    *)
(* its operations and its arithmetic on small numbers stand for what is    *)
(* computed here.  The access to memory is in DataMemory.                  *)
(***************************************************************************)
EXTENDS Disassembler, Assembly

CONSTANTS
  RegisterFiles,   \* register files by index
  Statements,      \* statements of assembly, each with a register file
  RawWords,        \* instruction words, assembled or not, likewise
  PCs              \* addresses of the instruction

ASSUME DatapathAssumption ==
  /\ RegisterFiles \in [DOMAIN RegisterFiles -> [Register -> Bits]]
  /\ \A s \in Statements : WellFormed(s.statement) /\ s.file \in DOMAIN RegisterFiles
  /\ \A w \in RawWords : w.word \in Bits /\ w.file \in DOMAIN RegisterFiles
  /\ PCs \subseteq Bits

EXCEPTION_HANDLER == FromNat(32768)   \* 0x8000

(* What no assembler wrote. *)
NoStatement ==
  [name |-> IllegalName, rd |-> 0, rs1 |-> 0, rs2 |-> 0, imm |-> FromNat(0)]

NoFlags == [f \in DOMAIN SimDecode(NopWord) |-> FALSE]

Fetched(word, pc) ==
  [word |-> word, PC |-> pc, flags |-> NoFlags,
   op1Val |-> FromNat(0), op2Val |-> FromNat(0), nextPC |-> Add(pc, FromNat(4)),
   arithResult |-> FromNat(0), memAddress |-> FromNat(0)]

-----------------------------------------------------------------------------
(* simOperandCollection. *)

ReadRegister(regs, r) == IF r = 0 THEN FromNat(0) ELSE regs[r]

SimOperandCollection(i, regs) ==
  [i EXCEPT
     !.op1Val = IF i.flags.readsRs1 THEN ReadRegister(regs, Rs1(i.word)) ELSE @,
     !.op2Val = IF i.flags.readsRs2 THEN ReadRegister(regs, Rs2(i.word)) ELSE @]

(* simNextPCResolution: it tests the opcode, not the flags. *)
BranchTaken(i) ==
  LET x == i.op1Val
      y == i.op2Val
      f3 == Funct3(i.word)
  IN \/ f3 = 0 /\ x = y
     \/ f3 = 1 /\ x # y
     \/ f3 = 4 /\ LessSigned(x, y)
     \/ f3 = 5 /\ ~LessSigned(x, y)
     \/ f3 = 6 /\ Less(x, y)
     \/ f3 = 7 /\ ~Less(x, y)

JalrTarget_KeepsBit0(i) == Add(i.op1Val, ImmI(i.word))

JalrTarget(i) == [Add(i.op1Val, ImmI(i.word)) EXCEPT ![0] = 0]

SimNextPCResolution(i) ==
  LET op == Opcode(i.word)
  IN [i EXCEPT !.nextPC =
        IF op = OP_JALR THEN JalrTarget(i)
        ELSE IF op = OP_BRANCH /\ BranchTaken(i) THEN Add(i.PC, ImmB(i.word))
        ELSE IF op = OP_JAL THEN Add(i.PC, ImmJ(i.word))
        ELSE Add(i.PC, FromNat(4))]

-----------------------------------------------------------------------------
(* simArithLogic: x and y are the operands, y possibly an immediate. *)

ArithmeticShift(w) == Field(w, 31, 26) = FUNCT7_SUB \div 2

Subtracts(w) == Opcode(w) \in RegisterArith /\ Funct7(w) = FUNCT7_SUB

WideResult(w, x, y) ==
  LET f3 == Funct3(w)
      distance == ToNat(y, 6)
  IN IF f3 = 0 THEN (IF Subtracts(w) THEN Sub(x, y) ELSE Add(x, y))
     ELSE IF f3 = 1 THEN ShiftLeft(x, distance)
     ELSE IF f3 = 2 THEN Truth(LessSigned(x, y))
     ELSE IF f3 = 3 THEN Truth(Less(x, y))
     ELSE IF f3 = 4 THEN XorBits(x, y)
     ELSE IF f3 = 6 THEN OrBits(x, y)
     ELSE IF f3 = 7 THEN AndBits(x, y)
     ELSE IF ArithmeticShift(w) THEN ShiftRightArith(x, distance)
     ELSE ShiftRight(x, distance)

NarrowResult(w, x, y) ==
  LET f3 == Funct3(w)
      distance == ToNat(y, 5)
      of32 ==
        IF f3 = 0 THEN (IF Subtracts(w) THEN Sub(Low32(x), Low32(y))
                                        ELSE Add(Low32(x), Low32(y)))
        ELSE IF f3 = 1 THEN ShiftLeft(Low32(x), distance)
        ELSE IF ArithmeticShift(w)
          THEN ShiftRightArith(Sext64(Low32(x), 31), distance)
        ELSE ShiftRight(Low32(x), distance)
  IN Sext64(Low32(of32), 31)

(* The distance of a shift by a register is cut where it stands. *)
MaskedOp2Val(i) ==
  IF Funct3(i.word) \notin {FUNCT3_SLL, FUNCT3_SR} THEN i.op2Val
  ELSE IF Opcode(i.word) = OP_INT THEN Masked(i.op2Val, 6)
  ELSE IF Opcode(i.word) = OP_INTW THEN Masked(i.op2Val, 5)
  ELSE i.op2Val

SimArithLogic(i) ==
  LET op == Opcode(i.word)
      y == MaskedOp2Val(i)
  IN [i EXCEPT
        !.op2Val = y,
        !.arithResult =
          IF op = OP_INT THEN WideResult(i.word, i.op1Val, y)
          ELSE IF op = OP_INTIMM THEN WideResult(i.word, i.op1Val, ImmI(i.word))
          ELSE IF op = OP_INTW THEN NarrowResult(i.word, i.op1Val, y)
          ELSE IF op = OP_INTIMMW THEN NarrowResult(i.word, i.op1Val, ImmI(i.word))
          ELSE IF op = OP_LUI THEN ImmU(i.word)
          ELSE IF op = OP_AUIPC THEN Add(i.PC, ImmU(i.word))
          ELSE Add(i.PC, FromNat(4))]

SimAddrGen(i) ==
  [i EXCEPT !.memAddress =
     IF i.flags.readsMem THEN Add(i.op1Val, ImmI(i.word))
     ELSE IF i.flags.writesMem THEN Add(i.op1Val, ImmS(i.word))
     ELSE @]

-----------------------------------------------------------------------------
(* The stage helpers.  An illegal instruction gets no operands and goes to *)
(* the handler. *)

SimID(i, regs) ==
  LET decoded == [i EXCEPT !.flags = SimDecode(i.word)]
  IN IF decoded.flags.isLegal
       THEN SimNextPCResolution(SimOperandCollection(decoded, regs))
       ELSE [decoded EXCEPT !.nextPC = EXCEPTION_HANDLER]

SimEX(i) ==
  IF i.flags.isLegal /\ i.flags.doesArithLogic THEN SimArithLogic(i) ELSE i

SimMEM(i) ==
  IF i.flags.isLegal /\ (i.flags.readsMem \/ i.flags.writesMem)
    THEN SimAddrGen(i)
    ELSE i

VARIABLES
  statement,   \* what the word was assembled from, if it was
  file,        \* the registers, by index
  inst,
  stage        \* the stage the instruction is in

vars == <<statement, file, inst, stage>>

Init ==
  /\ \E pc \in PCs :
       \/ \E s \in Statements :
            /\ statement = s.statement
            /\ file = s.file
            /\ inst = Fetched(Assemble(s.statement), pc)
       \/ \E w \in RawWords :
            /\ statement = NoStatement
            /\ file = w.file
            /\ inst = Fetched(w.word, pc)
  /\ stage = "IF"

Go(from, to, computed) ==
  /\ stage = from
  /\ stage' = to
  /\ inst' = computed
  /\ UNCHANGED <<statement, file>>

ID == Go("IF", "ID", SimID(inst, RegisterFiles[file]))

EX == Go("ID", "EX", SimEX(inst))

MEM == Go("EX", "MEM", SimMEM(inst))

Next == ID \/ EX \/ MEM

Spec == Init /\ [][Next]_vars

-----------------------------------------------------------------------------
(* Properties. *)

(* Whatever the bits of a word and its registers are: operands, next pc,   *)
(* result and address are 64-bit words; from an even pc the next pc is     *)
(* even, on every path of simNextPCResolution and to the handler; and the  *)
(* result of 32-bit arithmetic is an extended 32-bit value.                *)
NextPCIsEven == inst.PC[0] = 0 => inst.nextPC[0] = 0

NarrowIsExtended ==
  Opcode(inst.word) \in {OP_INTW, OP_INTIMMW} =>
    \A k \in 32..63 : inst.arithResult[k] = inst.arithResult[31]

TypeOK ==
  /\ inst \in [word : {inst.word}, PC : Bits, flags : [DOMAIN NoFlags -> BOOLEAN],
               op1Val : Bits, op2Val : Bits, nextPC : Bits, arithResult : Bits,
               memAddress : Bits]
  /\ stage \in {"IF", "ID", "EX", "MEM"}
  /\ NextPCIsEven
  /\ NarrowIsExtended

(* A statement of assembly is decoded as legal and computes what it means: *)
(* its result, its next pc and its address.  The code gathers immediates   *)
(* from shifted pieces, sign-extends from a bit it names by number and     *)
(* shifts and compares in C++ types of four widths; one number wrong is    *)
(* a wrong address or target only for some operands.                       *)
ExecutesAssembly ==
  stage = "MEM" /\ statement # NoStatement =>
    LET meaning == Meaning(statement, inst.PC, RegisterFiles[file])
    IN /\ inst.flags.isLegal
       /\ inst.arithResult = meaning.result
       /\ inst.nextPC = meaning.nextPC
       /\ inst.memAddress = meaning.address

(* What Pipeline assumes: the operations of Stages are the only sets of    *)
(* control signals simDecode gives, and a word's opcode tells which.  The  *)
(* stall, forwarding and trap logic is written in terms of these signals.  *)
S == INSTANCE Stages WITH
       NumRegs <- 32, ValueSpan <- 1, Handler <- 0, DataAddresses <- {}

OperationOf(w) ==
  LET op == Opcode(w)
  IN IF IsHaltWord(w) THEN "HALT"
     ELSE IF IsNopWord(w) THEN "NOP"
     ELSE IF ~LegalWord(w) THEN "ILLEGAL"
     ELSE IF op \in RegisterArith THEN "ADD"
     ELSE IF op \in ImmediateArith THEN "ADDI"
     ELSE IF op \in {OP_LUI, OP_AUIPC} THEN "LUI"
     ELSE IF op = OP_LOAD THEN "LOAD"
     ELSE IF op = OP_STORE THEN "STORE"
     ELSE IF op = OP_BRANCH THEN "BEQ"
     ELSE IF op = OP_JAL THEN "JAL"
     ELSE "JALR"

ClassifiedAsModelled ==
  stage = "ID" =>
    LET i == [word |-> [op |-> OperationOf(inst.word)]]
    IN inst.flags =
         [isHalt |-> S!IsHalt(i),
          isNop |-> i.word.op = "NOP",
          isLegal |-> S!IsLegal(i),
          readsMem |-> S!ReadsMem(i),
          writesMem |-> S!WritesMem(i),
          doesArithLogic |-> S!DoesArithLogic(i),
          writesRd |-> S!WritesRd(i),
          readsRs1 |-> S!ReadsRs1(i),
          readsRs2 |-> S!ReadsRs2(i)]

(* The statement a reader of the diagram sees. *)
ReadBack(shown) ==
  LET named == [NoStatement EXCEPT !.name = shown.name, !.imm = shown.imm]
      format == Format(named)
      r == shown.regs
  IN CASE format = "R" -> [named EXCEPT !.rd = r[1], !.rs1 = r[2], !.rs2 = r[3]]
       [] format = "S" -> [named EXCEPT !.rs2 = r[1], !.rs1 = r[2]]
       [] format = "B" -> [named EXCEPT !.rs1 = r[1], !.rs2 = r[2]]
       [] format \in {"U", "J"} -> [named EXCEPT !.rd = r[1]]
       [] OTHER -> [named EXCEPT !.rd = r[1], !.rs1 = r[2]]

IllegalShown == Shown(IllegalName, << >>, FromNat(0))

(* Words that the diagram shows as something else: addiw by the rules of   *)
(* addw, upper immediates extended from bit 19, a jalr with the funct3 of  *)
(* a shift as if its immediate were a distance.                            *)
AddiwByFunct7(w) ==
  Opcode(w) = OP_INTIMMW /\ Funct3(w) = FUNCT3_ADD /\ Funct7(w) # FUNCT7_ADD

UpperByBit19(w) == Opcode(w) \in {OP_LUI, OP_AUIPC} /\ w[19] + w[31] > 0

JalrByFunct3(w) == Opcode(w) = OP_JALR /\ Funct3(w) \in {FUNCT3_SLL, FUNCT3_SR}

Misprinted(w) == AddiwByFunct7(w) \/ UpperByBit19(w) \/ JalrByFunct3(w)

Plain(w) == ~IsHaltWord(w) /\ ~IsNopWord(w) /\ ~Misprinted(w)

(* The diagram shows the statement the word was assembled from: the same   *)
(* name, registers and number.  The diagram is what the tests compare with *)
(* their reference files, and it has a decoder of its own (getOpString and *)
(* the handle functions repeat every field and immediate).                 *)
DisplayReadsBack ==
  stage = "IF" /\ statement # NoStatement /\ Plain(inst.word) =>
    ReadBack(PrintInstr(inst.word)) = statement

(* The two decoders agree on every word, also on those no assembler makes: *)
(* simDecode and simArithLogic ignore bits that getOpString may not.  What *)
(* is shown as a statement computes what that statement means, and what is *)
(* shown as ILLEGAL goes to the handler.                                   *)
DisplayedIsExecuted ==
  stage = "MEM" /\ Plain(inst.word) =>
    LET shown == PrintInstr(inst.word)
        meaning == Meaning(ReadBack(shown), inst.PC, RegisterFiles[file])
    IN /\ inst.flags.isLegal <=> shown # IllegalShown
       /\ IF shown = IllegalShown
            THEN inst.nextPC = EXCEPTION_HANDLER
            ELSE /\ inst.arithResult = meaning.result
                 /\ inst.nextPC = meaning.nextPC
                 /\ inst.memAddress = meaning.address

=============================================================================
