------------------------------- MODULE Stages -------------------------------
(***************************************************************************)
(* Instructions and the stage helpers of class Simulator (simulator.h,     *)
(* simulator.cpp): what IF, ID, EX, MEM and WB compute.  The helpers of    *)
(* the C++ take and return an Instruction and change registers and memory  *)
(* as a side effect; here each effect is an operator of its own.           *)
(*                                                                         *)
(* A program word is a record, not 32 bits: one operation stands for all   *)
(* the operations that simDecode gives the same control signals and that   *)
(* the pipeline therefore cannot tell apart.  Memory is accessed in whole  *)
(* aligned doublewords.  Code is not written by stores, so that it is a    *)
(* constant function from addresses to words.                              *)
(***************************************************************************)
EXTENDS Integers

CONSTANTS
  NumRegs,         \* number of registers
  ValueSpan,       \* values are 0..ValueSpan-1 and arithmetic wraps
  Handler,         \* EXCEPTION_HANDLER
  DataAddresses    \* the doublewords memory has

ASSUME StagesAssumption ==
  /\ NumRegs \in Nat \ {0}
  /\ ValueSpan \in Nat \ {0}
  /\ Handler \in 0..(ValueSpan - 1)
  /\ DataAddresses \subseteq 0..(ValueSpan - 1)

Reg == 0..(NumRegs - 1)

Value == 0..(ValueSpan - 1)

Wrap(n) == n % ValueSpan

(* ADD and ADDI stand for OP_INT, OP_INTW and for OP_INTIMM, OP_INTIMMW;   *)
(* LUI also for OP_AUIPC; BEQ and BNE for the conditional branches.        *)
Operation ==
  {"ADD", "ADDI", "LUI", "LOAD", "STORE", "BEQ", "BNE", "JAL", "JALR",
   "NOP", "HALT", "ILLEGAL"}

Word == [op : Operation, rd : Reg, rs1 : Reg, rs2 : Reg, imm : Value]

PlainWord(op) == [op |-> op, rd |-> 0, rs1 |-> 0, rs2 |-> 0, imm |-> 0]

Status == {"IDLE", "BUBBLE", "SQUASHED", "NORMAL", "SPECULATIVE"}

(* struct Instruction, without the fields that follow from the word (the   *)
(* control signals), that are recomputed where they are used (memAddress,  *)
(* nextPC) or that nothing reads (valToWrite, instructionID, dinCounted).  *)
Instruction ==
  [word : Word,
   PC : Value,
   isNop : BOOLEAN,
   status : Status,
   op1Val : Value,
   op2Val : Value,
   arithResult : Value,
   memResult : Value,
   memException : BOOLEAN]

-----------------------------------------------------------------------------
(* Control signals of simDecode. *)

IsLegal(i) == i.word.op # "ILLEGAL"

IsHalt(i) == i.word.op = "HALT"

ReadsMem(i) == i.word.op = "LOAD"

WritesMem(i) == i.word.op = "STORE"

AccessesMem(i) == ReadsMem(i) \/ WritesMem(i)

DoesArithLogic(i) == i.word.op \in {"ADD", "ADDI", "LUI", "JAL", "JALR"}

WritesRd(i) == i.word.op \in {"ADD", "ADDI", "LUI", "LOAD", "JAL", "JALR"}

ReadsRs1(i) ==
  i.word.op \in {"ADD", "ADDI", "LOAD", "STORE", "BEQ", "BNE", "JALR"}

ReadsRs2(i) == i.word.op \in {"ADD", "STORE", "BEQ", "BNE"}

IsBranch(i) == i.word.op \in {"BEQ", "BNE"}

BranchLike(i) == IsBranch(i) \/ i.word.op = "JALR"

-----------------------------------------------------------------------------
(* Stage helpers. *)

(* nop(status): the micro-architectural NOP. *)
Nop(status) ==
  [word |-> PlainWord("NOP"), PC |-> 0, isNop |-> TRUE, status |-> status,
   op1Val |-> 0, op2Val |-> 0, arithResult |-> 0, memResult |-> 0,
   memException |-> FALSE]

(* Memory that holds no code reads as 0 and memory that does not exist is  *)
(* fetched as 0: both decode as illegal.                                   *)
FetchWord(prog, pc) ==
  IF pc \in DOMAIN prog THEN prog[pc] ELSE PlainWord("ILLEGAL")

SimIF(prog, pc) ==
  [Nop("NORMAL") EXCEPT !.word = FetchWord(prog, pc), !.PC = pc, !.isNop = FALSE]

ReadReg_AsStored(regs, r) == regs[r]

ReadReg(regs, r) == IF r = 0 THEN 0 ELSE regs[r]

SimID(i, regs) ==
  [i EXCEPT
     !.isNop = (i.word.op = "NOP"),
     !.status = "NORMAL",
     !.op1Val = IF ReadsRs1(i) THEN ReadReg(regs, i.word.rs1) ELSE @,
     !.op2Val = IF ReadsRs2(i) THEN ReadReg(regs, i.word.rs2) ELSE @]

FallThrough(pc) == Wrap(pc + 4)

BranchCondition(i) ==
  \/ i.word.op = "BEQ" /\ i.op1Val = i.op2Val
  \/ i.word.op = "BNE" /\ i.op1Val # i.op2Val

(* simNextPCResolution; a jalr target has its lowest bit cleared. *)
NextPC(i) ==
  LET sum == Wrap(i.op1Val + i.word.imm)
  IN IF i.word.op = "JALR" THEN sum - (sum % 2)
     ELSE IF i.word.op = "JAL" \/ BranchCondition(i) THEN Wrap(i.PC + i.word.imm)
     ELSE FallThrough(i.PC)

SimArithLogic(i) ==
  IF i.word.op = "ADD" THEN Wrap(i.op1Val + i.op2Val)
  ELSE IF i.word.op = "ADDI" THEN Wrap(i.op1Val + i.word.imm)
  ELSE IF i.word.op = "LUI" THEN i.word.imm
  ELSE FallThrough(i.PC)

SimEX(i) ==
  [i EXCEPT
     !.status = "NORMAL",
     !.arithResult = IF DoesArithLogic(i) THEN SimArithLogic(i) ELSE @]

MemAddress(i) == Wrap(i.op1Val + i.word.imm)

Faults(i) == AccessesMem(i) /\ MemAddress(i) \notin DataAddresses

(* simMEM: the instruction with what it loaded, or with its exception ... *)
SimMEM(i, mem) ==
  [i EXCEPT
     !.status = "NORMAL",
     !.memException = Faults(i),
     !.memResult = IF ReadsMem(i) /\ ~Faults(i) THEN mem[MemAddress(i)] ELSE @]

(* ... and memory with what it stored. *)
MemAfter(i, mem) ==
  IF WritesMem(i) /\ ~Faults(i)
    THEN [mem EXCEPT ![MemAddress(i)] = i.op2Val]
    ELSE mem

(* What an instruction that writes rd writes to it. *)
Result(i) == IF ReadsMem(i) THEN i.memResult ELSE i.arithResult

Produces_AlsoX0(i, r) == ~i.isNop /\ WritesRd(i) /\ i.word.rd = r

(* Does the instruction write register r?  x0 is never written. *)
Produces(i, r) == ~i.isNop /\ WritesRd(i) /\ i.word.rd = r /\ r # 0

(* Registers after simWB of an instruction without exception. *)
RegsAfter(i, regs) ==
  [r \in Reg |-> IF Produces(i, r) THEN Result(i) ELSE regs[r]]

=============================================================================
