------------------------------ MODULE IsaProofs ------------------------------
(***************************************************************************)
(* The pipeline implements the instruction set: for every supported        *)
(* program, memory and cache geometry, when a D-stall lasts an even number *)
(* of cycles or has no illegal word behind it (QuietStalls), forwarding    *)
(* delivers the values of program order and a run of the pipeline is a run *)
(* of Isa under the mapping of PipelineIsa.                                *)
(*                                                                         *)
(* PipelineProofs says which instruction enters MEM; DataInv says with     *)
(* which operands: those of EX are current, those of ID will be when it    *)
(* moves on, and stages that are both occupied hold neighbours.            *)
(***************************************************************************)
EXTENDS PipelineProofs

(* Every run of the instance is of a supported program. *)
SupportedRuns == \A p \in Programs, l \in Latencies : Supported(p, l.d)

(* What WB holds is in the register file. *)
WBWritten == \A r \in Reg : Produces(oldWB, r) => regs[r] = Result(oldWB)

(* Nothing is between the instructions of two occupied stages. *)
Adjacent ==
  /\ ~oldID.isNop /\ IsLegal(oldID) => ifPC = FallThrough(oldID.PC)
  /\ ~oldID.isNop /\ ~oldEX.isNop => oldID.PC = FallThrough(oldEX.PC)
  /\ ~oldEX.isNop /\ ~oldMEM.isNop => oldEX.PC = FallThrough(oldMEM.PC)
  /\ ~oldMEM.isNop /\ ~oldWB.isNop => oldMEM.PC = FallThrough(oldWB.PC)
  /\ FetchedWord(oldWB)

(* A source of the instruction in ID is current, or an older instruction   *)
(* will forward it; what only WB can forward is taken in this cycle.       *)
IDOperand(r, val) ==
  \/ Produces(oldEX, r)
  \/ Produces(oldMEM, r)
  \/ val = ReadReg(regs, r)
  \/ Produces(oldWB, r) /\ ~idFrozen

IDOperands ==
  ~oldID.isNop =>
    /\ ReadsRs1(oldID) => IDOperand(oldID.word.rs1, oldID.op1Val)
    /\ ReadsRs2(oldID) => IDOperand(oldID.word.rs2, oldID.op2Val)

(* The instruction in EX has its operands and its result, and IF follows   *)
(* where it leads.                                                         *)
EXOperands ==
  ~oldEX.isNop =>
    /\ ReadsRs1(oldEX) => oldEX.op1Val = CurrentValue(oldEX.word.rs1)
    /\ ReadsRs2(oldEX) => oldEX.op2Val = CurrentValue(oldEX.word.rs2)
    /\ DoesArithLogic(oldEX) => oldEX.arithResult = SimArithLogic(oldEX)
    /\ Settled(prog, frontPC) = Settled(prog, NextPC(oldEX))

(* Only an instruction whose address is not known to be good has faulted. *)
FaultExpected == oldMEM.memException => MayFault(oldMEM)

DataInv == WBWritten /\ Adjacent /\ IDOperands /\ EXOperands /\ FaultExpected

(* All that is known of a state. *)
IsaInv == ProofInv /\ Supported(prog, latency.d) /\ DataInv

-----------------------------------------------------------------------------
(* What Supported says of neighbours.                                      *)

LEMMA Predecessor ==
  ASSUME NEW b \in Value
  PROVE  \E a \in Value : FallThrough(a) = b
<1>1. CASE ValueSpan < 5
  BY <1>1, StagesAssumption DEF Value, FallThrough, Wrap
<1>2. CASE ValueSpan >= 5 /\ b >= 4
  <2>1. b - 4 \in Value /\ FallThrough(b - 4) = b
    BY <1>2, StagesAssumption DEF Value, FallThrough, Wrap
  <2> QED
    BY <2>1
<1>3. CASE ValueSpan >= 5 /\ b < 4
  <2>1. b + ValueSpan - 4 \in Value
    BY <1>3, StagesAssumption DEF Value
  <2>2. (b + ValueSpan) % ValueSpan = b
    BY <1>3, StagesAssumption DEF Value
  <2>3. FallThrough(b + ValueSpan - 4) = b
    BY <2>2, StagesAssumption DEF FallThrough, Wrap, Value
  <2> QED
    BY <2>1, <2>3
<1> QED
  BY <1>1, <1>2, <1>3, StagesAssumption DEF Value

(* An instruction of the program, as Supported sees it. *)
LEMMA WordAtAddress ==
  ASSUME NEW i, ~i.isNop, i.word = FetchWord(prog, i.PC)
  PROVE  LET s == SimIF(prog, i.PC)
         IN /\ s.word = i.word /\ s.PC = i.PC
            /\ IsLegal(i) => i.PC \in DOMAIN prog
            /\ \A r : Produces(s, r) = Produces(i, r)
            /\ \A r : DependsOn(s, r) = DependsOn(i, r)
            /\ ReadsMem(s) = ReadsMem(i) /\ WritesMem(s) = WritesMem(i)
            /\ IsHalt(s) = IsHalt(i) /\ MayFault(s) = MayFault(i)
            /\ BranchLike(s) = BranchLike(i)
<1> DEFINE s == SimIF(prog, i.PC)
<1>1. s.word = i.word /\ s.PC = i.PC /\ ~s.isNop
  BY DEF SimIF, Nop
<1>2. IsLegal(i) => i.PC \in DOMAIN prog
  BY DEF IsLegal, FetchWord, PlainWord
<1> HIDE DEF s
<1>3. /\ \A r : Produces(s, r) = Produces(i, r)
      /\ \A r : DependsOn(s, r) = DependsOn(i, r)
      /\ ReadsMem(s) = ReadsMem(i) /\ WritesMem(s) = WritesMem(i)
      /\ IsHalt(s) = IsHalt(i) /\ MayFault(s) = MayFault(i)
      /\ BranchLike(s) = BranchLike(i)
  BY <1>1 DEF Produces, WritesRd, DependsOn, ReadsRs1, ReadsRs2, ReadsMem,
              WritesMem, IsHalt, MayFault, AccessesMem, BranchLike, IsBranch
<1> QED
  BY <1>1, <1>2, <1>3 DEF s

Occupied(i) == /\ i \in Instruction /\ ~i.isNop
               /\ i.word = FetchWord(prog, i.PC)

(* Of two neighbours: no load followed by a store of its result, and no    *)
(* access behind what may fault or halt.                                   *)
LEMMA SupportedPair ==
  ASSUME Supported(prog, latency.d), NEW y, NEW z, Occupied(y), Occupied(z),
         z.PC = FallThrough(y.PC), IsLegal(z)
  PROVE  /\ WritesMem(z) /\ Produces(y, z.word.rs2) => ~ReadsMem(y)
         /\ MayFault(y) \/ IsHalt(y) => ~AccessesMem(z)
<1> DEFINE Y == SimIF(prog, y.PC)
           Z == SimIF(prog, z.PC)
<1>1. PICK a \in Value : FallThrough(a) = y.PC
  BY Predecessor DEF Occupied, Instruction
<1>2. /\ \A r : Produces(Y, r) = Produces(y, r)
      /\ ReadsMem(Y) = ReadsMem(y) /\ IsHalt(Y) = IsHalt(y)
      /\ MayFault(Y) = MayFault(y)
  BY WordAtAddress DEF Occupied
<1>3. /\ Z.word = z.word /\ Z.PC = z.PC /\ z.PC \in DOMAIN prog
      /\ ReadsMem(Z) = ReadsMem(z) /\ WritesMem(Z) = WritesMem(z)
  BY WordAtAddress DEF Occupied
<1>4. /\ StoreDataForwarded(SimIF(prog, a), Y, Z)
      /\ NoAccessInShadow(Y, Z)
  BY <1>1, <1>3 DEF Supported
<1> HIDE DEF Y, Z
<1> QED
  BY <1>2, <1>3, <1>4 DEF StoreDataForwarded, NoAccessInShadow, AccessesMem

(* Of three: what a store needs is produced once, and no operand is lost.  *)
LEMMA SupportedTriple ==
  ASSUME Supported(prog, latency.d), NEW x, NEW y, NEW z,
         Occupied(x), Occupied(y), Occupied(z),
         y.PC = FallThrough(x.PC), z.PC = FallThrough(y.PC), IsLegal(z)
  PROVE  /\ WritesMem(z) /\ Produces(y, z.word.rs2) => ~Produces(x, z.word.rs2)
         /\ \A r, s \in Reg :
              Produces(x, r) /\ ~Produces(y, r) /\ DependsOn(z, r) =>
                /\ ~(ReadsMem(y) /\ Produces(y, s) /\ DependsOn(z, s))
                /\ BranchLike(z) /\ ReadsMem(x) => ~AccessesMem(y)
<1> DEFINE X == SimIF(prog, x.PC)
           Y == SimIF(prog, y.PC)
           Z == SimIF(prog, z.PC)
<1>1. x.PC \in Value
  BY DEF Occupied, Instruction
<1>2. /\ \A r : Produces(X, r) = Produces(x, r)
      /\ ReadsMem(X) = ReadsMem(x)
  BY WordAtAddress DEF Occupied
<1>3. /\ \A r : Produces(Y, r) = Produces(y, r)
      /\ ReadsMem(Y) = ReadsMem(y) /\ WritesMem(Y) = WritesMem(y)
  BY WordAtAddress DEF Occupied
<1>4. /\ Z.word = z.word /\ Z.PC = z.PC /\ z.PC \in DOMAIN prog
      /\ \A r : DependsOn(Z, r) = DependsOn(z, r)
      /\ WritesMem(Z) = WritesMem(z) /\ BranchLike(Z) = BranchLike(z)
  BY WordAtAddress DEF Occupied
<1>5. /\ StoreDataForwarded(X, Y, Z)
      /\ OperandsSurvive(X, Y, Z)
  BY <1>1, <1>4 DEF Supported
<1> HIDE DEF X, Y, Z
<1>6. WritesMem(z) /\ Produces(y, z.word.rs2) => ~Produces(x, z.word.rs2)
  BY <1>2, <1>3, <1>4, <1>5 DEF StoreDataForwarded
<1>7. ASSUME NEW r \in Reg, NEW s \in Reg,
             Produces(x, r), ~Produces(y, r), DependsOn(z, r)
      PROVE  /\ ~(ReadsMem(y) /\ Produces(y, s) /\ DependsOn(z, s))
             /\ BranchLike(z) /\ ReadsMem(x) => ~AccessesMem(y)
  <2>1. Feeds(X, Y, Z)
    BY <1>2, <1>3, <1>4, <1>7 DEF Feeds
  <2>2. Produces(y, s) /\ DependsOn(z, s) => Feeds(Y, Nop("IDLE"), Z)
    BY <1>3, <1>4 DEF Feeds, Produces, Nop
  <2> QED
    BY <1>2, <1>3, <1>4, <1>5, <2>1, <2>2 DEF OperandsSurvive, AccessesMem
<1> QED
  BY <1>6, <1>7

-----------------------------------------------------------------------------
(* Forwarding.                                                             *)

LEMMA IsaInvFacts ==
  ASSUME IsaInv
  PROVE  /\ Inv /\ TypeOK /\ PathInv /\ Settles(prog)
         /\ Supported(prog, latency.d) /\ DataInv
         /\ regs \in [Reg -> Value] /\ regs[0] = 0
BY DEF IsaInv, ProofInv, Inv, TypeOK

LEMMA SourceTypes ==
  ASSUME NEW i \in Instruction
  PROVE  i.word.rs1 \in Reg /\ i.word.rs2 \in Reg /\ i.word.rd \in Reg
BY DEF Instruction, Word

(* The value of a source in program order, as it enters EX. *)
Operand(r) == IF Produces(oldEX, r) THEN oldEX.arithResult ELSE CurrentValue(r)

LEMMA ForwardedToEX ==
  ASSUME WBWritten, NEW r \in Reg, NEW val, IDOperand(r, val)
  PROVE  ForwardToEX(r, val) = Operand(r)
BY DEF WBWritten, IDOperand, ForwardToEX, Operand, CurrentValue, ReadReg, Produces

(* The result that leaves MEM is in newWB. *)
LEMMA WBTakes ==
  ASSUME TypeOK, ~dStallActive, ~wbMemException
  PROVE  /\ newWB.word = oldMEM.word /\ newWB.PC = oldMEM.PC
         /\ newWB.isNop = oldMEM.isNop
         /\ Result(newWB) = Result(oldMEM)
         /\ \A r : Produces(newWB, r) = Produces(oldMEM, r)
<1>1. newWB = [oldMEM EXCEPT !.status = IF oldMEM.isNop THEN @ ELSE "NORMAL"]
  BY DEF newWB, wbMemException
<1>2. /\ newWB.word = oldMEM.word /\ newWB.PC = oldMEM.PC
      /\ newWB.isNop = oldMEM.isNop
      /\ newWB.memResult = oldMEM.memResult
      /\ newWB.arithResult = oldMEM.arithResult
  BY <1>1, OldTypes DEF Instruction
<1> QED
  BY <1>2 DEF Result, ReadsMem, Produces, WritesRd

LEMMA MEMProduces ==
  ASSUME Inv, PathInv, ~dStallActive
  PROVE  /\ \A r : Produces(newMEM, r) = Produces(oldEX, r)
         /\ ReadsMem(newMEM) <=> ~oldEX.isNop /\ ReadsMem(oldEX)
         /\ ~oldEX.isNop /\ ~ReadsMem(oldEX) => Result(newMEM) = oldEX.arithResult
<1>1. CASE oldEX.isNop
  BY <1>1, MEMTakes DEF Produces, ReadsMem
<1>2. CASE ~oldEX.isNop
  <2>1. newMEM.word = oldEX.word /\ ~newMEM.isNop
    BY <1>2, MEMTakes
  <2>2. newMEM = SimMEM(memInput, mem)
    BY <1>2 DEF newMEM, memAccepts, PathInv, WordsFetched
  <2>3. /\ newMEM.arithResult = memInput.arithResult
        /\ memInput.arithResult = oldEX.arithResult
    BY <2>2, OldTypes, KeptByForwarding DEF SimMEM, memInput, Inv, Instruction
  <2> QED
    BY <1>2, <2>1, <2>3 DEF Produces, WritesRd, ReadsMem, Result
<1> QED
  BY <1>1, <1>2

LEMMA ForwardedToBranch ==
  ASSUME Inv, PathInv, WBWritten, ~dStallActive, ~wbMemException,
         NEW r \in Reg, NEW val, IDOperand(r, val), ~Produces(oldEX, r)
  PROVE  ForwardToBranch(r, val) = CurrentValue(r)
<1>1. TypeOK
  BY DEF Inv
<1>2. /\ ~Produces(newMEM, r)
      /\ Produces(newWB, r) = Produces(oldMEM, r)
      /\ Result(newWB) = Result(oldMEM)
  BY <1>1, MEMProduces, WBTakes
<1> QED
  BY <1>2 DEF WBWritten, IDOperand, ForwardToBranch, CurrentValue, ReadReg, Produces

(* What stage EX has, registers by registers. *)
LEMMA EXInputOperands ==
  ASSUME TypeOK, DataInv, ~oldID.isNop
  PROVE  /\ ReadsRs1(oldID) => exInput.op1Val = Operand(oldID.word.rs1)
         /\ ReadsRs2(oldID) => exInput.op2Val = Operand(oldID.word.rs2)
<1>1. oldID \in Instruction
  BY OldTypes
<1>2. /\ ReadsRs1(oldID) => exInput.op1Val = ForwardToEX(oldID.word.rs1, oldID.op1Val)
      /\ ReadsRs2(oldID) => exInput.op2Val = ForwardToEX(oldID.word.rs2, oldID.op2Val)
  BY <1>1 DEF exInput, Instruction
<1> QED
  BY <1>1, <1>2, SourceTypes, ForwardedToEX DEF DataInv, IDOperands

(* A branch that moves on does not wait for EX. *)
LEMMA BranchOperands ==
  ASSUME IsaInv, idMovesOn, ~wbMemException, BranchLike(oldID)
  PROVE  /\ ReadsRs1(oldID) =>
              /\ ~Produces(oldEX, oldID.word.rs1)
              /\ idEval.op1Val = CurrentValue(oldID.word.rs1)
         /\ ReadsRs2(oldID) =>
              /\ ~Produces(oldEX, oldID.word.rs2)
              /\ idEval.op2Val = CurrentValue(oldID.word.rs2)
<1>1. oldID \in Instruction
  BY OldTypes, IsaInvFacts
<1>2. ~dStallActive /\ ~branchNeedsEX /\ ~oldID.isNop
  BY DEF idMovesOn, idFrozen, hazardStall, branchDataStall
<1>3. \A r : DependsOn(oldID, r) => ~Produces(oldEX, r)
  BY <1>2 DEF branchNeedsEX, idIsBranchLike, Produces
<1>4. /\ ReadsRs1(oldID) => ~Produces(oldEX, oldID.word.rs1)
      /\ ReadsRs2(oldID) => ~Produces(oldEX, oldID.word.rs2)
  BY <1>3 DEF DependsOn
<1>5. /\ ReadsRs1(oldID) =>
           idEval.op1Val = ForwardToBranch(oldID.word.rs1, oldID.op1Val)
      /\ ReadsRs2(oldID) =>
           idEval.op2Val = ForwardToBranch(oldID.word.rs2, oldID.op2Val)
  BY <1>1 DEF idEval, Instruction
<1>6. Inv /\ PathInv /\ WBWritten /\ IDOperands
  BY IsaInvFacts DEF DataInv
<1>7. /\ ReadsRs1(oldID) => IDOperand(oldID.word.rs1, oldID.op1Val)
      /\ ReadsRs2(oldID) => IDOperand(oldID.word.rs2, oldID.op2Val)
  BY <1>2, <1>6 DEF IDOperands
<1> QED
  BY <1>1, <1>2, <1>4, <1>5, <1>6, <1>7, SourceTypes, ForwardedToBranch

LEMMA IsaInvOperands == IsaInv => OperandsCurrent
<1> SUFFICES ASSUME IsaInv, idAdvances
             PROVE  /\ ReadsRs1(oldID) =>
                         /\ exInput.op1Val = Operand(oldID.word.rs1)
                         /\ idIsBranchLike =>
                              idEval.op1Val = Operand(oldID.word.rs1)
                    /\ ReadsRs2(oldID) =>
                         /\ exInput.op2Val = Operand(oldID.word.rs2)
                         /\ idIsBranchLike =>
                              idEval.op2Val = Operand(oldID.word.rs2)
  BY DEF OperandsCurrent, Operand
<1>1. idMovesOn /\ ~wbMemException
  BY DEF idAdvances, idMovesOn
<1> QED
  BY <1>1, IsaInvFacts, EXInputOperands, BranchOperands
     DEF idMovesOn, idIsBranchLike, Operand

(* A source is loaded by the instruction in EX only for a store's data. *)
LEMMA NoLoadBefore ==
  ASSUME IsaInv, idMovesOn
  PROVE  /\ ReadsRs1(oldID) /\ Produces(oldEX, oldID.word.rs1) => ~ReadsMem(oldEX)
         /\ ReadsRs2(oldID) /\ Produces(oldEX, oldID.word.rs2) => ~ReadsMem(oldEX)
<1>1. ~dStallActive /\ ~loadUseStall /\ ~branchNeedsEX /\ ~oldID.isNop
  BY DEF idMovesOn, idFrozen, hazardStall, branchDataStall
<1>2. \A r : Produces(oldEX, r) => r = oldEX.word.rd
  BY DEF Produces
<1>3. ReadsRs1(oldID) /\ Produces(oldEX, oldID.word.rs1) => ~ReadsMem(oldEX)
  BY <1>1, <1>2 DEF loadUseStall, branchNeedsEX, idIsBranchLike, DependsOn
<1>4. ReadsRs2(oldID) /\ Produces(oldEX, oldID.word.rs2) /\ ~WritesMem(oldID)
        => ~ReadsMem(oldEX)
  BY <1>1, <1>2 DEF loadUseStall, branchNeedsEX, idIsBranchLike, DependsOn
<1>5. ASSUME WritesMem(oldID), Produces(oldEX, oldID.word.rs2)
      PROVE  ~ReadsMem(oldEX)
  <2>1. ~oldEX.isNop
    BY <1>5 DEF Produces
  <2>2. Occupied(oldEX) /\ Occupied(oldID) /\ IsLegal(oldID)
    BY <1>1, <2>1, OldTypes, IsaInvFacts
       DEF Occupied, PathInv, WordsFetched, FetchedWord, idMovesOn
  <2>3. oldID.PC = FallThrough(oldEX.PC)
    BY <1>1, <2>1, IsaInvFacts DEF DataInv, Adjacent
  <2> QED
    BY <1>5, <2>2, <2>3, SupportedPair, IsaInvFacts
<1> QED
  BY <1>3, <1>4, <1>5

LEMMA IsaInvStoreData == IsaInv => StoreDataCurrent
<1> SUFFICES ASSUME IsaInv, memAccepts, WritesMem(oldEX)
             PROVE  memInput.op2Val = CurrentValue(oldEX.word.rs2)
  BY DEF StoreDataCurrent
<1> DEFINE r == oldEX.word.rs2
<1>1. oldEX \in Instruction /\ r \in Reg /\ ~oldEX.isNop
  BY OldTypes, IsaInvFacts, SourceTypes DEF memAccepts
<1>2. oldEX.op2Val = CurrentValue(r)
  BY <1>1, IsaInvFacts DEF DataInv, EXOperands, ReadsRs2, WritesMem
<1>3. memInput.op2Val = IF Produces(oldWB, r) THEN Result(oldWB) ELSE oldEX.op2Val
  BY <1>1 DEF memInput, Instruction
<1>4. ASSUME Produces(oldWB, r)
      PROVE  CurrentValue(r) = Result(oldWB)
  <2>1. ~oldWB.isNop /\ r # 0
    BY <1>4 DEF Produces
  <2>2. regs[r] = Result(oldWB)
    BY <1>1, <1>4, IsaInvFacts DEF DataInv, WBWritten
  <2>3. ~Produces(oldMEM, r)
    <3> SUFFICES ASSUME Produces(oldMEM, r)
                 PROVE  FALSE
      OBVIOUS
    <3>1. ~oldMEM.isNop
      BY DEF Produces
    <3>2. Occupied(oldWB) /\ Occupied(oldMEM) /\ Occupied(oldEX) /\ IsLegal(oldEX)
      BY <1>1, <2>1, <3>1, OldTypes, IsaInvFacts
         DEF Occupied, PathInv, WordsFetched, FetchedWord, DataInv, Adjacent
    <3>3. oldMEM.PC = FallThrough(oldWB.PC) /\ oldEX.PC = FallThrough(oldMEM.PC)
      BY <1>1, <2>1, <3>1, IsaInvFacts DEF DataInv, Adjacent
    <3> QED
      BY <1>4, <3>2, <3>3, SupportedTriple, IsaInvFacts
  <2> QED
    BY <2>1, <2>2, <2>3 DEF CurrentValue, ReadReg
<1> QED
  BY <1>2, <1>3, <1>4

-----------------------------------------------------------------------------
(* DataInv is preserved.                                                   *)

(* A cycle in the terms of DataInv. *)
LEMMA DataEffect ==
  ASSUME RunCycle
  PROVE  /\ regs' = newRegs /\ mem' = newMemory /\ dCache' = newDCache
         /\ dStallLeft' = newDStallLeft /\ latency' = latency
         /\ dStallActive' <=> newDStallLeft > 0
BY DEF RunCycle, dStallActive

LEMMA NothingProduced ==
  ASSUME NEW i, i.isNop
  PROVE  \A r : ~Produces(i, r)
BY DEF Produces

(* What a D-stall leaves alone. *)
LEMMA StallHolds ==
  ASSUME RunCycle, dStallActive
  PROVE  /\ ~wbMemException /\ idFrozen
         /\ oldID' = oldID /\ oldEX' = oldEX /\ oldMEM' = oldMEM
         /\ oldWB' = Nop("BUBBLE")
         /\ regs' = regs /\ prog' = prog
BY CycleEffect, DataEffect
   DEF wbMemException, idFrozen, Unless, newID, newEX, newMEM, newWB, newRegs

LEMMA AdvanceHolds ==
  ASSUME RunCycle, ~dStallActive, ~wbMemException
  PROVE  /\ oldID' = newID /\ oldEX' = newEX /\ oldMEM' = newMEM
         /\ oldWB' = newWB
         /\ regs' = RegsAfter(oldMEM, regs) /\ prog' = prog
BY CycleEffect, DataEffect DEF Unless, newRegs

LEMMA FlushHolds ==
  ASSUME PathInv, RunCycle, wbMemException
  PROVE  /\ oldID' = Nop("SQUASHED") /\ oldEX' = Nop("SQUASHED")
         /\ oldMEM' = Nop("SQUASHED") /\ oldWB' = Nop("SQUASHED")
         /\ regs' = regs /\ prog' = prog
BY CycleEffect, DataEffect, OnlyMemoryFaults DEF Unless, newRegs, newWB

(* The value of register r with instruction i before the registers rf.     *)
ValueWith(i, rf, r) == IF Produces(i, r) THEN Result(i) ELSE ReadReg(rf, r)

LEMMA ValueAfter ==
  ASSUME NEW i, NEW rf, NEW r \in Reg
  PROVE  ReadReg(RegsAfter(i, rf), r) = ValueWith(i, rf, r)
BY DEF ReadReg, RegsAfter, ValueWith, Produces

(* A result that leaves EX is current in MEM. *)
LEMMA NextValue ==
  ASSUME IsaInv, RunCycle, ~dStallActive, ~wbMemException, NEW r \in Reg,
         Produces(oldEX, r) => ~ReadsMem(oldEX)
  PROVE  ValueWith(oldMEM', regs', r) = Operand(r)
<1>1. oldMEM' = newMEM /\ regs' = RegsAfter(oldMEM, regs)
  BY AdvanceHolds
<1>2. ReadReg(regs', r) = CurrentValue(r)
  BY <1>1, ValueAfter DEF ValueWith, CurrentValue
<1>3. /\ Produces(newMEM, r) = Produces(oldEX, r)
      /\ Produces(oldEX, r) => Result(newMEM) = oldEX.arithResult
  BY IsaInvFacts, MEMProduces DEF Produces
<1> QED
  BY <1>1, <1>2, <1>3 DEF ValueWith, Operand

LEMMA WBWrittenStep ==
  ASSUME IsaInv, RunCycle
  PROVE  WBWritten'
<1> SUFFICES ASSUME NEW r \in Reg, Produces(oldWB', r)
             PROVE  regs'[r] = Result(oldWB')
  BY DEF WBWritten, Produces, WritesRd, Result, ReadsMem
<1>1. ~dStallActive /\ ~wbMemException
  BY StallHolds, FlushHolds, NopHolds, NothingProduced, IsaInvFacts
<1> QED
  BY <1>1, AdvanceHolds, WBTakes, IsaInvFacts DEF RegsAfter

LEMMA AdjacentStep ==
  ASSUME IsaInv, RunCycle
  PROVE  Adjacent'
<1>1. Adjacent /\ Inv /\ PathInv /\ Settles(prog) /\ TypeOK
  BY IsaInvFacts DEF DataInv
<1>2. CASE wbMemException
  <2>1. oldID'.isNop /\ oldEX'.isNop /\ oldMEM'.isNop
    BY <1>1, <1>2, FlushHolds, NopHolds
  <2>2. FetchedWord(oldWB)'
    BY <1>1, <1>2, FlushHolds, NopHolds DEF FetchedWord
  <2> QED
    BY <2>1, <2>2 DEF Adjacent
<1>3. CASE dStallActive
  <2>1. ~illegalHeld => ifPC' = ifPC
    BY <1>1, <1>3, StallHolds, FrontHeld
  <2>2. /\ oldID' = oldID /\ oldEX' = oldEX /\ oldMEM' = oldMEM
        /\ oldWB'.isNop /\ oldWB'.word.op = "NOP"
    BY <1>3, StallHolds, NopHolds
  <2> QED
    BY <1>1, <2>1, <2>2 DEF Adjacent, illegalHeld, IsLegal, FetchedWord
<1>4. CASE ~dStallActive /\ ~wbMemException
  <2>1. /\ oldID' = newID /\ oldEX' = newEX /\ oldMEM' = newMEM
        /\ oldWB' = newWB /\ prog' = prog
    BY <1>4, AdvanceHolds
  <2>2. ~oldID'.isNop /\ IsLegal(oldID)' => ifPC' = FallThrough(oldID'.PC)
    <3>1. CASE idFrozen
      BY <1>1, <1>4, <3>1, FrontHeld DEF Adjacent, illegalHeld, IsLegal
    <3>2. CASE ~idFrozen /\ branchTaken
      BY <1>1, <3>2, FrontBranches
    <3>3. CASE ~idFrozen /\ ~branchTaken
      BY <1>1, <1>4, <3>3, FrontMoves
    <3> QED
      BY <3>1, <3>2, <3>3
  <2>3. ~oldEX'.isNop => idMovesOn /\ oldEX'.PC = oldID.PC
    BY <1>1, <1>4, <2>1, EXTakes
  <2>4. ~oldMEM'.isNop => ~oldEX.isNop /\ oldMEM'.PC = oldEX.PC
    BY <1>1, <1>4, <2>1, MEMTakes
  <2>5. oldWB'.isNop = oldMEM.isNop /\ oldWB'.PC = oldMEM.PC
    BY <1>1, <1>4, <2>1, WBTakes
  <2>6. ~oldID'.isNop /\ ~oldEX'.isNop => oldID'.PC = FallThrough(oldEX'.PC)
    <3> SUFFICES ASSUME ~oldID'.isNop, ~oldEX'.isNop
                 PROVE  oldID'.PC = FallThrough(oldEX'.PC)
      OBVIOUS
    <3>1. idDecodes /\ newID.PC = oldIF.PC
      BY <1>1, <2>1, <2>3, IDTakes DEF idMovesOn
    <3>2. ifPC = FallThrough(oldID.PC)
      BY <1>1, <2>3 DEF Adjacent, idMovesOn
    <3> QED
      BY <2>1, <2>3, <3>1, <3>2 DEF idDecodes, ifPC
  <2>7. FetchedWord(oldWB)'
    <3>1. FetchedWord(oldMEM)
      BY <1>1 DEF PathInv, WordsFetched
    <3>2. oldWB'.word = oldMEM.word
      BY <1>1, <1>4, <2>1, WBTakes
    <3> QED
      BY <2>1, <2>5, <3>1, <3>2 DEF FetchedWord
  <2> QED
    BY <1>1, <2>2, <2>3, <2>4, <2>5, <2>6, <2>7 DEF Adjacent, idMovesOn
<1> QED
  BY <1>2, <1>3, <1>4

(* An instruction held by a hazard in ID is held once for what only WB can *)
(* forward: the next cycle neither waits for memory nor has a hazard.      *)
LEMMA HeldOnce ==
  ASSUME IsaInv, RunCycle, hazardStall, ~wbMemException, NEW r \in Reg,
         DependsOn(oldID, r), Produces(oldMEM, r), ~Produces(oldEX, r)
  PROVE  ~idFrozen'
<1>1. ~dStallActive /\ ~oldID.isNop /\ IsLegal(oldID)
  BY DEF hazardStall, loadUseStall, branchDataStall, branchNeedsEX,
         branchNeedsMEM, idIsBranchLike, IsLegal, DependsOn, ReadsRs1, ReadsRs2
<1>2. Inv /\ PathInv /\ TypeOK /\ Supported(prog, latency.d)
  BY IsaInvFacts
<1>3. /\ Occupied(oldMEM) /\ Occupied(oldID)
      /\ ~oldEX.isNop => /\ Occupied(oldEX)
                         /\ oldEX.PC = FallThrough(oldMEM.PC)
                         /\ oldID.PC = FallThrough(oldEX.PC)
  BY <1>1, OldTypes, IsaInvFacts
     DEF Occupied, PathInv, WordsFetched, FetchedWord, DataInv, Adjacent, Produces
<1>4. oldEX.word.rd \in Reg /\ oldMEM.word.rd \in Reg
  BY <1>2, OldTypes, SourceTypes
<1>5. ~(~oldEX.isNop /\ AccessesMem(oldEX))
  <2> SUFFICES ASSUME ~oldEX.isNop, AccessesMem(oldEX)
               PROVE  FALSE
    OBVIOUS
  <2>1. \A s \in Reg : ~(ReadsMem(oldEX) /\ Produces(oldEX, s) /\ DependsOn(oldID, s))
    BY <1>1, <1>2, <1>3, SupportedTriple
  <2>2. \A s \in Reg :
          Produces(oldMEM, s) /\ ~Produces(oldEX, s) /\ DependsOn(oldID, s)
          /\ BranchLike(oldID) => ~ReadsMem(oldMEM)
    BY <1>1, <1>2, <1>3, SupportedTriple
  <2>3. CASE loadUseStall
    BY <1>4, <2>1, <2>3 DEF loadUseStall, DependsOn
  <2>4. CASE branchNeedsEX
    BY <1>4, <2>1, <2>4
       DEF branchNeedsEX, AccessesMem, Produces, WritesRd, ReadsMem, WritesMem
  <2>5. CASE branchNeedsMEM
    BY <1>4, <2>2, <2>5 DEF branchNeedsMEM, branchNeedsEX, idIsBranchLike, Produces
  <2> QED
    BY <2>3, <2>4, <2>5 DEF hazardStall, branchDataStall
<1>6. ~dStallActive'
  <2>1. ~dCacheAccessed
    BY <1>2, <1>5, KeptByForwarding
       DEF dCacheAccessed, memAccepts, AccessesMem, ReadsMem, WritesMem
  <2>2. dStallLeft = 0
    BY <1>1, <1>2 DEF dStallActive, TypeOK
  <2> QED
    BY <2>1, <2>2, DataEffect DEF newDStallLeft, Decrement
<1>7. oldEX'.isNop /\ oldEX'.word.op = "NOP" /\ ~ReadsMem(oldMEM')
  <2>1. oldEX' = newEX /\ oldMEM' = newMEM
    BY <1>1, AdvanceHolds
  <2>2. ~idMovesOn
    BY DEF idMovesOn, idFrozen
  <2> QED
    BY <1>1, <1>2, <1>5, <2>1, <2>2, EXTakes, MEMProduces DEF AccessesMem
<1> QED
  BY <1>6, <1>7 DEF idFrozen, hazardStall, loadUseStall, branchDataStall,
                    branchNeedsEX, branchNeedsMEM, Produces, ReadsMem

(* What a source held in ID needs is on its way. *)
LEMMA HeldOperand ==
  ASSUME IsaInv, RunCycle, ~wbMemException, idFrozen,
         NEW r \in Reg, NEW val, DependsOn(oldID, r), IDOperand(r, val)
  PROVE  \/ Produces(oldEX', r)
         \/ Produces(oldMEM', r)
         \/ val = ReadReg(regs', r)
         \/ Produces(oldWB', r) /\ ~idFrozen'
<1>1. CASE dStallActive
  BY <1>1, StallHolds DEF IDOperand
<1>2. CASE ~dStallActive
  <2>1. /\ oldMEM' = newMEM /\ oldWB' = newWB
        /\ regs' = RegsAfter(oldMEM, regs)
    BY <1>2, AdvanceHolds
  <2>2. /\ Produces(newMEM, r) = Produces(oldEX, r)
        /\ Produces(newWB, r) = Produces(oldMEM, r)
    BY <1>2, IsaInvFacts, MEMProduces, WBTakes
  <2>3. hazardStall
    BY <1>2 DEF idFrozen
  <2>4. Produces(oldMEM, r) /\ ~Produces(oldEX, r) => ~idFrozen'
    BY <2>3, HeldOnce
  <2>5. ~Produces(oldMEM, r) => ReadReg(regs', r) = ReadReg(regs, r)
    BY <2>1, ValueAfter DEF ValueWith
  <2> QED
    BY <2>1, <2>2, <2>4, <2>5 DEF IDOperand
<1> QED
  BY <1>1, <1>2

LEMMA IDOperandsStep ==
  ASSUME IsaInv, RunCycle
  PROVE  IDOperands'
<1> SUFFICES ASSUME ~oldID'.isNop
             PROVE  /\ ReadsRs1(oldID') =>
                         IDOperand(oldID.word.rs1, oldID.op1Val)'
                    /\ ReadsRs2(oldID') =>
                         IDOperand(oldID.word.rs2, oldID.op2Val)'
  BY DEF IDOperands, ReadsRs1, ReadsRs2
<1>1. ~wbMemException
  BY FlushHolds, IsaInvFacts, NopHolds
<1>2. oldID' = newID
  BY <1>1, CycleEffect DEF Unless
<1>3. oldID \in Instruction /\ oldIF \in Instruction
  BY OldTypes, IsaInvFacts
<1>4. CASE idFrozen
  <2>1. oldID' = oldID
    BY <1>2, <1>4 DEF newID
  <2>2. /\ ReadsRs1(oldID) => IDOperand(oldID.word.rs1, oldID.op1Val)
        /\ ReadsRs2(oldID) => IDOperand(oldID.word.rs2, oldID.op2Val)
    BY <2>1, IsaInvFacts DEF DataInv, IDOperands
  <2>3. ASSUME ReadsRs1(oldID)
        PROVE  IDOperand(oldID.word.rs1, oldID.op1Val)'
    <3>1. DependsOn(oldID, oldID.word.rs1) /\ oldID.word.rs1 \in Reg
      BY <1>3, <2>3, SourceTypes DEF DependsOn
    <3> QED
      BY <1>1, <1>4, <2>1, <2>2, <2>3, <3>1, HeldOperand
         DEF IDOperand, Produces, WritesRd, ReadReg
  <2>4. ASSUME ReadsRs2(oldID)
        PROVE  IDOperand(oldID.word.rs2, oldID.op2Val)'
    <3>1. DependsOn(oldID, oldID.word.rs2) /\ oldID.word.rs2 \in Reg
      BY <1>3, <2>4, SourceTypes DEF DependsOn
    <3> QED
      BY <1>1, <1>4, <2>1, <2>2, <2>4, <3>1, HeldOperand
         DEF IDOperand, Produces, WritesRd, ReadReg
  <2> QED
    BY <2>1, <2>3, <2>4
<1>5. CASE ~idFrozen
  <2>1. idDecodes
    BY <1>2, <1>5, IsaInvFacts, IDTakes
  <2>2. newID = SimID(oldIF, newRegs)
    BY <2>1 DEF newID, idDecodes
  <2>3. newID.word = oldIF.word
    BY <1>3, <2>2, KeptByID
  <2>4. /\ ReadsRs1(oldIF) => newID.op1Val = ReadReg(newRegs, oldIF.word.rs1)
        /\ ReadsRs2(oldIF) => newID.op2Val = ReadReg(newRegs, oldIF.word.rs2)
    BY <1>3, <2>2 DEF SimID, Instruction
  <2>5. regs' = newRegs
    BY DataEffect
  <2> QED
    BY <1>2, <2>3, <2>4, <2>5 DEF IDOperand, ReadReg, ReadsRs1, ReadsRs2
<1> QED
  BY <1>4, <1>5

(* EX takes from ID an instruction with its operands ... *)
LEMMA EXTakesOperands ==
  ASSUME IsaInv, RunCycle, ~wbMemException, idMovesOn
  PROVE  /\ oldEX' = newEX
         /\ newEX.word = oldID.word /\ newEX.PC = oldID.PC /\ ~newEX.isNop
         /\ ReadsRs1(oldID) =>
              newEX.op1Val = ValueWith(oldMEM', regs', oldID.word.rs1)
         /\ ReadsRs2(oldID) =>
              newEX.op2Val = ValueWith(oldMEM', regs', oldID.word.rs2)
         /\ DoesArithLogic(newEX) => newEX.arithResult = SimArithLogic(newEX)
         /\ NextPC(newEX) = NextPC(idEval)
<1>1. ~dStallActive /\ ~hazardStall /\ ~oldID.isNop /\ IsLegal(oldID)
  BY DEF idMovesOn, idFrozen
<1>2. /\ TypeOK /\ DataInv
      /\ oldID \in Instruction /\ exInput \in Instruction
      /\ exInput.word = oldID.word /\ exInput.PC = oldID.PC
      /\ exInput.isNop = oldID.isNop
  BY IsaInvFacts, OldTypes, KeptByForwarding
<1>3. newEX = SimEX(exInput) /\ oldEX' = newEX
  BY <1>1, AdvanceHolds DEF newEX
<1>4. /\ newEX.word = oldID.word /\ newEX.PC = oldID.PC /\ ~newEX.isNop
      /\ newEX.op1Val = exInput.op1Val /\ newEX.op2Val = exInput.op2Val
      /\ DoesArithLogic(exInput) => newEX.arithResult = SimArithLogic(exInput)
  BY <1>1, <1>2, <1>3 DEF SimEX, Instruction
<1>5. /\ ReadsRs1(oldID) => newEX.op1Val = Operand(oldID.word.rs1)
      /\ ReadsRs2(oldID) => newEX.op2Val = Operand(oldID.word.rs2)
  BY <1>1, <1>2, <1>4, EXInputOperands
<1>6. /\ ReadsRs1(oldID) =>
           Operand(oldID.word.rs1) = ValueWith(oldMEM', regs', oldID.word.rs1)
      /\ ReadsRs2(oldID) =>
           Operand(oldID.word.rs2) = ValueWith(oldMEM', regs', oldID.word.rs2)
  BY <1>1, <1>2, SourceTypes, NoLoadBefore, NextValue
<1>7. DoesArithLogic(newEX) => newEX.arithResult = SimArithLogic(newEX)
  BY <1>2, <1>4 DEF DoesArithLogic, SimArithLogic
<1>8. NextPC(newEX) = NextPC(idEval)
  <2>1. idEval.word = oldID.word /\ idEval.PC = oldID.PC
    BY <1>2, KeptByForwarding
  <2>2. CASE BranchLike(oldID)
    <3>1. /\ ReadsRs1(oldID) => idEval.op1Val = newEX.op1Val
          /\ ReadsRs2(oldID) => idEval.op2Val = newEX.op2Val
      BY <1>5, <2>2, BranchOperands DEF Operand
    <3> QED
      BY <1>4, <2>1, <2>2, <3>1
         DEF NextPC, BranchCondition, BranchLike, IsBranch, ReadsRs1, ReadsRs2
  <2>3. CASE ~BranchLike(oldID)
    BY <1>4, <2>1, <2>3 DEF NextPC, BranchCondition, BranchLike, IsBranch
  <2> QED
    BY <2>2, <2>3
<1> QED
  BY <1>3, <1>4, <1>5, <1>6, <1>7, <1>8

(* ... and IF goes where it leads. *)
LEMMA EXOperandsStep ==
  ASSUME IsaInv, RunCycle
  PROVE  EXOperands'
<1> SUFFICES ASSUME ~oldEX'.isNop
             PROVE  EXOperands'
  BY DEF EXOperands
<1>1. ~wbMemException
  BY FlushHolds, IsaInvFacts, NopHolds
<1>2. Inv /\ PathInv /\ Settles(prog) /\ EXOperands
  BY IsaInvFacts DEF DataInv
<1>3. CASE dStallActive
  <2>1. oldEX' = oldEX /\ oldMEM' = oldMEM /\ regs' = regs /\ prog' = prog
    BY <1>3, StallHolds
  <2>2. frontPC' = frontPC
    BY <1>2, <1>3, StallHolds, FrontHeld
  <2> QED
    BY <1>2, <2>1, <2>2
       DEF EXOperands, CurrentValue, Produces, WritesRd, Result, ReadsMem,
           ReadReg, ReadsRs1, ReadsRs2, DoesArithLogic, SimArithLogic, NextPC,
           BranchCondition
<1>4. CASE ~dStallActive
  <2>1. idMovesOn
    BY <1>1, <1>2, <1>4, AdvanceHolds, EXTakes
  <2>2. Settled(prog, frontPC') = Settled(prog, NextPC(idEval)) /\ prog' = prog
    BY <1>1, <1>2, <1>4, <2>1, FrontFollows, AdvanceHolds
  <2>3. /\ oldEX' = newEX
        /\ newEX.word = oldID.word
        /\ ReadsRs1(newEX) =>
             newEX.op1Val = ValueWith(oldMEM', regs', newEX.word.rs1)
        /\ ReadsRs2(newEX) =>
             newEX.op2Val = ValueWith(oldMEM', regs', newEX.word.rs2)
        /\ DoesArithLogic(newEX) => newEX.arithResult = SimArithLogic(newEX)
        /\ NextPC(newEX) = NextPC(idEval)
    BY <1>1, <2>1, EXTakesOperands DEF ReadsRs1, ReadsRs2
  <2> QED
    BY <2>2, <2>3
       DEF EXOperands, CurrentValue, ValueWith, Produces, WritesRd, Result,
           ReadsMem, ReadReg, ReadsRs1, ReadsRs2, DoesArithLogic, SimArithLogic,
           NextPC, BranchCondition
<1> QED
  BY <1>3, <1>4

(* An access with base x0 is at its offset. *)
LEMMA FaultsAsExpected ==
  ASSUME IsaInv, ~oldEX.isNop, Faults(memInput)
  PROVE  MayFault(oldEX)
<1>1. AccessesMem(oldEX) /\ MemAddress(memInput) \notin DataAddresses
  BY KeptByForwarding, IsaInvFacts
     DEF Faults, AccessesMem, ReadsMem, WritesMem
<1>2. memInput.op1Val = oldEX.op1Val /\ memInput.word = oldEX.word
  BY OldTypes, IsaInvFacts DEF memInput, Instruction
<1>3. CASE oldEX.word.rs1 = 0
  <2>1. oldEX.op1Val = CurrentValue(0)
    BY <1>1, <1>3, IsaInvFacts
       DEF DataInv, EXOperands, ReadsRs1, AccessesMem, ReadsMem, WritesMem
  <2>2. oldEX.op1Val = 0
    BY <2>1 DEF CurrentValue, Produces, ReadReg
  <2>3. oldEX.word.imm \in Value
    BY OldTypes, IsaInvFacts DEF Instruction, Word
  <2>4. MemAddress(memInput) = oldEX.word.imm
    BY <1>2, <2>2, <2>3, StagesAssumption DEF MemAddress, Wrap, Value
  <2> QED
    BY <1>1, <2>4 DEF MayFault
<1>4. CASE oldEX.word.rs1 # 0
  BY <1>1, <1>4 DEF MayFault
<1> QED
  BY <1>3, <1>4

LEMMA FaultExpectedStep ==
  ASSUME IsaInv, RunCycle
  PROVE  FaultExpected'
<1>1. CASE wbMemException
  BY <1>1, FlushHolds, NopHolds, IsaInvFacts DEF FaultExpected
<1>2. CASE dStallActive
  BY <1>2, StallHolds, IsaInvFacts
     DEF FaultExpected, DataInv, MayFault, AccessesMem, ReadsMem, WritesMem
<1>3. CASE ~dStallActive /\ ~wbMemException
  <2>1. oldMEM' = newMEM
    BY <1>3, AdvanceHolds
  <2>2. newMEM.memException =>
          ~oldEX.isNop /\ Faults(memInput) /\ newMEM.word = oldEX.word
    BY <1>3, IsaInvFacts, MEMTakes
  <2> QED
    BY <2>1, <2>2, FaultsAsExpected
       DEF FaultExpected, MayFault, AccessesMem, ReadsMem, WritesMem
<1> QED
  BY <1>1, <1>2, <1>3

-----------------------------------------------------------------------------
(* The invariant.                                                          *)

LEMMA IsaInvInit == QuietStalls /\ SupportedRuns /\ Init => IsaInv
<1> SUFFICES ASSUME QuietStalls, SupportedRuns, Init
             PROVE  IsaInv
  OBVIOUS
<1>1. ProofInv
  BY ProofInvInit
<1>2. Supported(prog, latency.d)
  BY DEF Init, SupportedRuns
<1>3. /\ oldID = Nop("IDLE") /\ oldEX = Nop("IDLE")
      /\ oldMEM = Nop("IDLE") /\ oldWB = Nop("IDLE")
  BY DEF Init, oldID, oldEX, oldMEM, oldWB
<1>4. DataInv
  BY <1>3, NopHolds, NothingProduced
     DEF DataInv, WBWritten, Adjacent, IDOperands, EXOperands, FaultExpected
<1> QED
  BY <1>1, <1>2, <1>4 DEF IsaInv

LEMMA IsaInvStep == IsaInv /\ [Next]_vars => IsaInv'
<1> SUFFICES ASSUME IsaInv, [Next]_vars
             PROVE  IsaInv'
  OBVIOUS
<1>1. ProofInv'
  BY ProofInvStep DEF IsaInv
<1>2. Supported(prog, latency.d)'
  <2>1. prog' = prog /\ latency' = latency
    BY DEF Next, RunCycle, Halted, vars
  <2> QED
    BY <2>1 DEF IsaInv, Supported
<1>3. CASE RunCycle
  <2>1. DataInv'
    BY <1>3, WBWrittenStep, AdjacentStep, IDOperandsStep, EXOperandsStep,
       FaultExpectedStep DEF DataInv
  <2> QED
    BY <1>1, <1>2, <2>1 DEF IsaInv
<1>4. CASE UNCHANGED vars
  <2>1. /\ oldIF' = oldIF /\ oldID' = oldID /\ oldEX' = oldEX
        /\ oldMEM' = oldMEM /\ oldWB' = oldWB /\ prog' = prog /\ PC' = PC
        /\ squashNextIF' = squashNextIF /\ regs' = regs
        /\ dStallLeft' = dStallLeft
    BY <1>4 DEF vars, oldIF, oldID, oldEX, oldMEM, oldWB
  <2>2. ifPC' = ifPC /\ frontPC' = frontPC
    BY <2>1 DEF ifPC, frontPC, IsLegal
  <2>3. idFrozen' <=> idFrozen
    BY <2>1 DEF idFrozen, dStallActive, hazardStall, loadUseStall,
                branchDataStall, branchNeedsEX, branchNeedsMEM, idIsBranchLike,
                BranchLike, IsBranch, Produces, WritesRd, ReadsMem, WritesMem,
                ReadsRs1, ReadsRs2, DependsOn
  <2>4. WBWritten' /\ Adjacent'
    BY <2>1, <2>2, IsaInvFacts
       DEF DataInv, WBWritten, Adjacent, Produces, WritesRd, Result, ReadsMem,
           IsLegal, FetchedWord
  <2>5. IDOperands'
    BY <2>1, <2>3, IsaInvFacts
       DEF DataInv, IDOperands, IDOperand, Produces, WritesRd, ReadReg,
           ReadsRs1, ReadsRs2
  <2>6. EXOperands' /\ FaultExpected'
    BY <2>1, <2>2, IsaInvFacts
       DEF DataInv, EXOperands, FaultExpected, MayFault, AccessesMem,
           CurrentValue, Produces, WritesRd, Result, ReadsMem, WritesMem,
           ReadReg, ReadsRs1, ReadsRs2, DoesArithLogic, SimArithLogic, NextPC,
           BranchCondition
  <2> QED
    BY <1>1, <1>2, <2>4, <2>5, <2>6 DEF DataInv, IsaInv
<1> QED
  BY <1>3, <1>4 DEF Next, Halted

(* Forwarding delivers the values of program order to every instruction    *)
(* that leaves ID, whatever stalls held it or the instruction it waits     *)
(* for.                                                                    *)
THEOREM OperandsAreCurrent ==
  ASSUME QuietStalls, SupportedRuns
  PROVE  Spec => []OperandsCurrent
<1>1. Init => IsaInv
  BY IsaInvInit
<1> QED
  BY <1>1, IsaInvStep, IsaInvOperands, PTL DEF Spec

(* A store stores the value its data register has in program order,        *)
(* whether EX had it or WB forwards it to MEM.                             *)
THEOREM StoreDataIsCurrent ==
  ASSUME QuietStalls, SupportedRuns
  PROVE  Spec => []StoreDataCurrent
<1>1. Init => IsaInv
  BY IsaInvInit
<1> QED
  BY <1>1, IsaInvStep, IsaInvStoreData, PTL DEF Spec

-----------------------------------------------------------------------------
(* Isa is instantiated with the operators of the pipeline.                 *)

LEMMA IsaWords ==
  /\ ISA!Value = Value
  /\ ISA!Word = Word
  /\ ISA!Reg = Reg
  /\ \A n : ISA!Wrap(n) = Wrap(n)
  /\ \A a : ISA!FallThrough(a) = FallThrough(a)
  /\ \A p, a : ISA!FetchWord(p, a) = FetchWord(p, a)
BY DEF ISA!Value, Value, ISA!Word, Word, ISA!Operation, Operation, ISA!Reg,
       Reg, ISA!Wrap, Wrap, ISA!FallThrough, FallThrough, ISA!FetchWord,
       FetchWord, ISA!PlainWord, PlainWord

LEMMA IsaSignals ==
  /\ \A p, a : ISA!SimIF(p, a) = SimIF(p, a)
  /\ \A i : /\ ISA!IsHalt(i) = IsHalt(i)
           /\ ISA!ReadsMem(i) = ReadsMem(i)
           /\ ISA!WritesMem(i) = WritesMem(i)
           /\ ISA!AccessesMem(i) = AccessesMem(i)
           /\ ISA!DoesArithLogic(i) = DoesArithLogic(i)
           /\ ISA!WritesRd(i) = WritesRd(i)
           /\ ISA!ReadsRs1(i) = ReadsRs1(i)
           /\ ISA!ReadsRs2(i) = ReadsRs2(i)
           /\ ISA!BranchCondition(i) = BranchCondition(i)
BY IsaWords, Zenon
   DEF ISA!SimIF, SimIF, ISA!Nop, Nop, ISA!PlainWord, PlainWord,
       ISA!IsHalt, IsHalt, ISA!AccessesMem, AccessesMem, ISA!ReadsMem,
       ReadsMem, ISA!WritesMem, WritesMem, ISA!DoesArithLogic, DoesArithLogic,
       ISA!WritesRd, WritesRd, ISA!ReadsRs1, ReadsRs1, ISA!ReadsRs2, ReadsRs2,
       ISA!BranchCondition, BranchCondition

LEMMA IsaStages ==
  /\ \A i, rf : ISA!SimID(i, rf) = SimID(i, rf)
  /\ \A i : ISA!SimEX(i) = SimEX(i)
  /\ \A i : ISA!NextPC(i) = NextPC(i)
  /\ \A i : ISA!MemAddress(i) = MemAddress(i)
  /\ \A i, m : ISA!SimMEM(i, m) = SimMEM(i, m)
  /\ \A i, m : ISA!MemAfter(i, m) = MemAfter(i, m)
  /\ \A i, rf : ISA!RegsAfter(i, rf) = RegsAfter(i, rf)
<1>1. \A rf, r : ISA!ReadReg(rf, r) = ReadReg(rf, r)
  BY Zenon DEF ISA!ReadReg, ReadReg
<1>2. \A i : /\ ISA!SimArithLogic(i) = SimArithLogic(i)
             /\ ISA!MemAddress(i) = MemAddress(i)
             /\ ISA!NextPC(i) = NextPC(i)
  BY IsaWords, IsaSignals, Zenon
     DEF ISA!SimArithLogic, SimArithLogic, ISA!MemAddress, MemAddress,
         ISA!NextPC, NextPC
<1>3. \A i : /\ ISA!Faults(i) = Faults(i)
             /\ ISA!Result(i) = Result(i)
             /\ \A r : ISA!Produces(i, r) = Produces(i, r)
  BY <1>2, IsaSignals, Zenon
     DEF ISA!Faults, Faults, ISA!Result, Result, ISA!Produces, Produces
<1>4. \A i, rf : ISA!SimID(i, rf) = SimID(i, rf)
  BY <1>1, IsaSignals, Zenon DEF ISA!SimID, SimID
<1>5. \A i : ISA!SimEX(i) = SimEX(i)
  BY <1>2, IsaSignals, Zenon DEF ISA!SimEX, SimEX
<1>6. \A i, m : ISA!SimMEM(i, m) = SimMEM(i, m)
  BY <1>2, <1>3, IsaSignals, Zenon DEF ISA!SimMEM, SimMEM
<1>7. \A i, m : ISA!MemAfter(i, m) = MemAfter(i, m)
  BY <1>2, <1>3, IsaSignals, Zenon DEF ISA!MemAfter, MemAfter
<1>8. \A i, rf : ISA!RegsAfter(i, rf) = RegsAfter(i, rf)
  BY <1>3, IsaWords, Zenon DEF ISA!RegsAfter, RegsAfter
<1> QED
  BY <1>2, <1>4, <1>5, <1>6, <1>7, <1>8

LEMMA IsaPassOver ==
  \A p, a : ISA!PassOver(p, a) = PassOver(p, a)
BY IsaWords, Zenon DEF ISA!PassOver, PassOver

LEMMA IsaSettled ==
  \A p, a : ISA!Settled(p, a) = Settled(p, a)
<1> SUFFICES ASSUME NEW p, NEW a
             PROVE  ISA!Settled(p, a) = Settled(p, a)
  OBVIOUS
<1> DEFINE isaPast == [b \in ISA!Value |-> ISA!PassOver(p, b)]
           past == [b \in Value |-> PassOver(p, b)]
<1>1. isaPast = past
  BY IsaWords, IsaPassOver, Zenon
<1>2. Settled(p, a) = WalkOver(past, a)
  BY SettledWalksOver
<1>3. ISA!Settled(p, a) = WalkOver(isaPast, a)
  BY Zenon DEF ISA!Settled, WalkOver
<1> QED
  BY <1>1, <1>2, <1>3, Zenon

LEMMA IsaCache ==
  /\ ISA!DC!EmptyCache = DC!EmptyCache
  /\ \A c, a : ISA!DC!Access(c, a) = DC!Access(c, a)
BY DEF DC!EmptyCache, DC!Access, DC!IsHit, DC!SetIndex, DC!Line,
       DC!Way, DC!NumSets, DC!IndexSpan, DC!OffsetSpan, DC!indexBits,
       DC!offsetBits, DC!Log2, DC!IndexOf, DC!TagOf, DC!Block, DC!ChosenWay,
       DC!VictimWay, DC!FirstWay, DC!HitWays, DC!InvalidWays, DC!OldestWays,
       ISA!DC!EmptyCache, ISA!DC!Access, ISA!DC!IsHit,
       ISA!DC!SetIndex, ISA!DC!Line, ISA!DC!Way, ISA!DC!NumSets,
       ISA!DC!IndexSpan, ISA!DC!OffsetSpan, ISA!DC!indexBits,
       ISA!DC!offsetBits, ISA!DC!Log2, ISA!DC!IndexOf, ISA!DC!TagOf,
       ISA!DC!Block, ISA!DC!ChosenWay, ISA!DC!VictimWay, ISA!DC!FirstWay,
       ISA!DC!HitWays, ISA!DC!InvalidWays, ISA!DC!OldestWays

-----------------------------------------------------------------------------
(* The architectural state.                                                *)

LEMMA NextRegs ==
  architecturalRegs' = IF pendingInMEM' THEN RegsAfter(oldMEM', regs') ELSE regs'
BY DEF architecturalRegs, RegsAfter, Produces, WritesRd, Result, ReadsMem

(* When the pipeline moves on the registers catch up. *)
LEMMA RegsCatchUp ==
  ASSUME IsaInv, RunCycle, ~dStallActive, ~wbMemException
  PROVE  /\ architecturalRegs = regs'
         /\ \A r \in Reg : ReadReg(architecturalRegs, r) = CurrentValue(r)
<1>1. regs' = RegsAfter(oldMEM, regs)
  BY AdvanceHolds
<1>2. ~memFault /\ ~IsHalt(oldWB)
  BY AdvanceEffect, IsaInvFacts
<1>3. architecturalRegs = RegsAfter(oldMEM, regs)
  <2>1. CASE oldMEM.isNop
    <3>1. RegsAfter(oldMEM, regs) = regs
      BY <2>1, NothingProduced, IsaInvFacts DEF RegsAfter
    <3> QED
      BY <2>1, <3>1 DEF architecturalRegs, pendingInMEM
  <2>2. CASE ~oldMEM.isNop
    BY <1>2, <2>2 DEF architecturalRegs, pendingInMEM, memFault
  <2> QED
    BY <2>1, <2>2
<1> QED
  BY <1>1, <1>3, ValueAfter DEF ValueWith, CurrentValue

(* Behind a HALT or a fault nothing accesses memory. *)
LEMMA ShadowIsQuiet ==
  ASSUME IsaInv, RunCycle,
         oldEX.isNop \/ dStallActive \/ memFault \/ IsHalt(oldMEM)
  PROVE  mem' = mem /\ dCache' = dCache
<1>1. mem' = newMemory /\ dCache' = newDCache
  BY DataEffect
<1>2. CASE oldEX.isNop \/ dStallActive
  BY <1>1, <1>2 DEF newMemory, newDCache, dCacheAccessed, memAccepts
<1>3. CASE ~oldEX.isNop /\ (memFault \/ IsHalt(oldMEM))
  <2>1. ~oldMEM.isNop
    BY <1>3, IsaInvFacts DEF memFault, IsHalt, PathInv, WordsFetched, FetchedWord
  <2>2. Occupied(oldMEM) /\ Occupied(oldEX) /\ IsLegal(oldEX)
    BY <1>3, <2>1, OldTypes, IsaInvFacts
       DEF Occupied, PathInv, WordsFetched, FetchedWord
  <2>3. oldEX.PC = FallThrough(oldMEM.PC)
    BY <1>3, <2>1, IsaInvFacts DEF DataInv, Adjacent
  <2>4. MayFault(oldMEM) \/ IsHalt(oldMEM)
    BY <1>3, IsaInvFacts DEF memFault, DataInv, FaultExpected
  <2>5. ~AccessesMem(oldEX)
    BY <2>2, <2>3, <2>4, SupportedPair, IsaInvFacts
  <2>6. ~AccessesMem(memInput) /\ ~WritesMem(memInput)
    BY <2>5, KeptByForwarding, IsaInvFacts DEF AccessesMem, ReadsMem, WritesMem
  <2> QED
    BY <1>1, <2>6 DEF newMemory, newDCache, dCacheAccessed, MemAfter
<1> QED
  BY <1>2, <1>3

(* The oldest instruction as Isa decodes it: with the operands of EX. *)
archDecoded == SimID(SimIF(prog, oldEX.PC), architecturalRegs)

LEMMA DecodedInEX ==
  ASSUME IsaInv, RunCycle, ~dStallActive, ~wbMemException, ~oldEX.isNop
  PROVE  /\ archDecoded \in Instruction
         /\ archDecoded.word = oldEX.word /\ archDecoded.PC = oldEX.PC
         /\ ~archDecoded.isNop
         /\ ReadsRs1(oldEX) => /\ archDecoded.op1Val = oldEX.op1Val
                               /\ memInput.op1Val = oldEX.op1Val
         /\ ReadsRs2(oldEX) => archDecoded.op2Val = oldEX.op2Val
         /\ WritesMem(oldEX) => archDecoded.op2Val = memInput.op2Val
<1> DEFINE f == SimIF(prog, oldEX.PC)
<1>1. /\ oldEX \in Instruction /\ oldEX.status = "NORMAL"
      /\ oldEX.word = FetchWord(prog, oldEX.PC) /\ oldEX.word.op # "NOP"
  BY OldTypes, IsaInvFacts DEF PathInv, WordsFetched, FetchedWord
<1>2. f \in Instruction
  BY <1>1, SimIFType, IsaInvFacts DEF TypeOK, Instruction
<1>3. f.word = oldEX.word /\ f.PC = oldEX.PC
  BY <1>1 DEF SimIF, Nop
<1>4. architecturalRegs \in [Reg -> Value]
  <2>1. architecturalRegs = newRegs
    BY RegsCatchUp, DataEffect
  <2> QED
    BY <2>1, WBType, IsaInvFacts
<1> HIDE DEF f
<1>5. SimID(f, architecturalRegs) \in Instruction
  BY <1>2, <1>4, SimIDType
<1>6. /\ archDecoded = SimID(f, architecturalRegs)
      /\ archDecoded.word = oldEX.word /\ archDecoded.PC = oldEX.PC
      /\ ~archDecoded.isNop
  BY <1>1, <1>2, <1>3, KeptByID DEF archDecoded, f
<1>7. /\ ReadsRs1(f) => archDecoded.op1Val = ReadReg(architecturalRegs, f.word.rs1)
      /\ ReadsRs2(f) => archDecoded.op2Val = ReadReg(architecturalRegs, f.word.rs2)
  BY <1>2, <1>6 DEF SimID, Instruction
<1>8. /\ ReadsRs1(oldEX) => oldEX.op1Val = CurrentValue(oldEX.word.rs1)
      /\ ReadsRs2(oldEX) => oldEX.op2Val = CurrentValue(oldEX.word.rs2)
  BY IsaInvFacts DEF DataInv, EXOperands
<1>9. /\ ReadsRs1(oldEX) => archDecoded.op1Val = oldEX.op1Val
      /\ ReadsRs2(oldEX) => archDecoded.op2Val = oldEX.op2Val
  BY <1>1, <1>3, <1>7, <1>8, RegsCatchUp, SourceTypes DEF ReadsRs1, ReadsRs2
<1>10. memInput.op1Val = oldEX.op1Val
  BY <1>1 DEF memInput, Instruction
<1>11. WritesMem(oldEX) => memInput.op2Val = oldEX.op2Val
  <2>1. memAccepts
    BY <1>1 DEF memAccepts
  <2> QED
    BY <1>8, <2>1, IsaInvStoreData DEF StoreDataCurrent, ReadsRs2, WritesMem
<1> QED
  BY <1>5, <1>6, <1>9, <1>10, <1>11 DEF ReadsRs2, WritesMem

(* It does to memory, and leads, as EX says. *)
LEMMA SameEffect ==
  ASSUME IsaInv, RunCycle, ~dStallActive, ~wbMemException, ~oldEX.isNop
  PROVE  /\ IsHalt(archDecoded) = IsHalt(oldEX)
         /\ AccessesMem(archDecoded) = AccessesMem(memInput)
         /\ Faults(archDecoded) = Faults(memInput)
         /\ NextPC(archDecoded) = NextPC(oldEX)
         /\ mem' = MemAfter(archDecoded, mem)
         /\ dCache' = IF AccessesMem(archDecoded) /\ ~Faults(archDecoded)
                        THEN DC!Access(dCache, MemAddress(archDecoded))
                        ELSE dCache
<1>1. memInput.word = oldEX.word
  BY KeptByForwarding, IsaInvFacts
<1>2. /\ archDecoded.word = oldEX.word /\ archDecoded.PC = oldEX.PC
      /\ ReadsRs1(oldEX) => /\ archDecoded.op1Val = oldEX.op1Val
                            /\ memInput.op1Val = oldEX.op1Val
      /\ ReadsRs2(oldEX) => archDecoded.op2Val = oldEX.op2Val
      /\ WritesMem(oldEX) => archDecoded.op2Val = memInput.op2Val
  BY DecodedInEX
<1>3. /\ IsHalt(archDecoded) = IsHalt(oldEX)
      /\ AccessesMem(archDecoded) = AccessesMem(memInput)
      /\ AccessesMem(archDecoded) = AccessesMem(oldEX)
      /\ WritesMem(archDecoded) = WritesMem(memInput)
      /\ WritesMem(archDecoded) = WritesMem(oldEX)
  BY <1>1, <1>2 DEF IsHalt, AccessesMem, ReadsMem, WritesMem
<1>4. AccessesMem(oldEX) => MemAddress(archDecoded) = MemAddress(memInput)
  BY <1>1, <1>2 DEF AccessesMem, ReadsMem, WritesMem, ReadsRs1, MemAddress
<1>5. Faults(archDecoded) = Faults(memInput)
  BY <1>3, <1>4 DEF Faults
<1>6. NextPC(archDecoded) = NextPC(oldEX)
  BY <1>2 DEF NextPC, BranchCondition, ReadsRs1, ReadsRs2
<1>7. memAccepts
  BY IsaInvFacts DEF memAccepts, PathInv, WordsFetched
<1>8. mem' = MemAfter(archDecoded, mem)
  <2>1. mem' = MemAfter(memInput, mem)
    BY <1>7, DataEffect DEF newMemory
  <2> QED
    BY <1>2, <1>3, <1>4, <1>5, <2>1 DEF MemAfter, AccessesMem
<1>9. dCache' = IF AccessesMem(archDecoded) /\ ~Faults(archDecoded)
                  THEN DC!Access(dCache, MemAddress(archDecoded)) ELSE dCache
  BY <1>3, <1>4, <1>5, <1>7, DataEffect DEF newDCache, dCacheAccessed
<1> QED
  BY <1>3, <1>5, <1>6, <1>8, <1>9

archExecuted == SimMEM(SimEX(archDecoded), mem)

(* It writes what MEM will write. *)
LEMMA SameResult ==
  ASSUME IsaInv, RunCycle, ~dStallActive, ~wbMemException, ~oldEX.isNop
  PROVE  /\ archExecuted.memException = Faults(memInput)
         /\ ~Faults(memInput) =>
              RegsAfter(oldMEM', regs') = RegsAfter(archExecuted, architecturalRegs)
<1> DEFINE D == archDecoded
           E == SimEX(D)
<1>1. D \in Instruction /\ D.word = oldEX.word /\ D.PC = oldEX.PC /\ ~D.isNop
  BY DecodedInEX
<1>2. E \in Instruction
  BY <1>1, SimEXType
<1>3. /\ E.word = D.word /\ E.isNop = D.isNop /\ E.op1Val = D.op1Val
      /\ DoesArithLogic(D) => E.arithResult = SimArithLogic(D)
  BY <1>1 DEF SimEX, Instruction
<1>4. MemAddress(E) = MemAddress(D) /\ Faults(E) = Faults(D)
  BY <1>3 DEF MemAddress, Faults, AccessesMem, ReadsMem, WritesMem
<1>5. /\ archExecuted.word = D.word /\ archExecuted.isNop = D.isNop
      /\ archExecuted.memException = Faults(D)
      /\ archExecuted.arithResult = E.arithResult
      /\ ReadsMem(D) /\ ~Faults(D) => archExecuted.memResult = mem[MemAddress(D)]
  <2> HIDE DEF E
  <2>1. archExecuted = SimMEM(E, mem)
    BY DEF archExecuted, E
  <2> QED
    BY <1>2, <1>3, <1>4, <2>1 DEF SimMEM, Instruction, ReadsMem
<1>6. Faults(D) = Faults(memInput)
  BY SameEffect
<1>7. ASSUME ~Faults(memInput)
      PROVE  RegsAfter(oldMEM', regs') = RegsAfter(archExecuted, architecturalRegs)
  <2>1. oldMEM' = newMEM /\ architecturalRegs = regs'
    BY AdvanceHolds, RegsCatchUp
  <2>2. newMEM = SimMEM(memInput, mem)
    BY IsaInvFacts DEF newMEM, memAccepts, PathInv, WordsFetched
  <2>3. /\ memInput \in Instruction /\ memInput.word = oldEX.word
        /\ ~memInput.isNop /\ memInput.arithResult = oldEX.arithResult
    BY KeptByForwarding, OldTypes, IsaInvFacts DEF memInput, Instruction
  <2>4. /\ newMEM.word = oldEX.word /\ ~newMEM.isNop
        /\ newMEM.arithResult = oldEX.arithResult
        /\ ReadsMem(oldEX) => newMEM.memResult = mem[MemAddress(memInput)]
    BY <1>7, <2>2, <2>3 DEF SimMEM, Instruction, ReadsMem
  <2>5. ASSUME WritesRd(oldEX)
        PROVE  Result(newMEM) = Result(archExecuted)
    <3>1. CASE ReadsMem(oldEX)
      <4>1. MemAddress(D) = MemAddress(memInput)
        BY <1>1, <2>3, <3>1, DecodedInEX DEF MemAddress, ReadsMem, ReadsRs1
      <4> QED
        BY <1>1, <1>5, <1>6, <1>7, <2>4, <3>1, <4>1 DEF Result, ReadsMem
    <3>2. CASE ~ReadsMem(oldEX)
      <4>1. DoesArithLogic(oldEX)
        BY <2>5, <3>2 DEF WritesRd, ReadsMem, DoesArithLogic
      <4>2. oldEX.arithResult = SimArithLogic(oldEX)
        BY <4>1, IsaInvFacts DEF DataInv, EXOperands
      <4>3. SimArithLogic(D) = SimArithLogic(oldEX)
        BY <1>1, <4>1, DecodedInEX
           DEF SimArithLogic, DoesArithLogic, ReadsRs1, ReadsRs2
      <4>4. E.arithResult = SimArithLogic(D)
        BY <1>1, <1>3, <4>1 DEF DoesArithLogic
      <4> QED
        BY <1>1, <1>5, <2>4, <3>2, <4>2, <4>3, <4>4 DEF Result, ReadsMem
    <3> QED
      BY <3>1, <3>2
  <2>6. /\ \A r : Produces(newMEM, r) = Produces(archExecuted, r)
        /\ \A r : Produces(newMEM, r) => Result(newMEM) = Result(archExecuted)
    BY <1>1, <1>5, <2>4, <2>5 DEF Produces, WritesRd
  <2> HIDE DEF D, E
  <2> QED
    BY <2>1, <2>6 DEF RegsAfter
<1> QED
  BY <1>5, <1>6, <1>7

-----------------------------------------------------------------------------
(* A cycle is a step of Isa or none.                                       *)

LEMMA EntersIsIsaStep ==
  ASSUME IsaInv, RunCycle, ~dStallActive, ~wbMemException,
         HaltEnters \/ FaultEnters \/ InstructionEnters
  PROVE  ISA!Next
<1>1. /\ ~haltPassed /\ ~oldEX.isNop
      /\ Settled(prog, oldestPC) = oldEX.PC
      /\ prog' = prog
  BY CycleEffect DEF HaltEnters, FaultEnters, InstructionEnters, Enters
<1>2. ISA!decoded = archDecoded /\ ISA!executed = archExecuted
  <2>1. ISA!decoded = archDecoded
    BY <1>1, IsaSignals, IsaStages DEF ISA!decoded, archDecoded
  <2> QED
    BY <2>1, IsaStages DEF ISA!executed, archExecuted
<1>3. /\ IsHalt(archDecoded) = IsHalt(oldEX)
      /\ AccessesMem(archDecoded) = AccessesMem(memInput)
      /\ Faults(archDecoded) = Faults(memInput)
      /\ NextPC(archDecoded) = NextPC(oldEX)
      /\ mem' = MemAfter(archDecoded, mem)
      /\ dCache' = IF AccessesMem(archDecoded) /\ ~Faults(archDecoded)
                     THEN DC!Access(dCache, MemAddress(archDecoded))
                     ELSE dCache
      /\ archExecuted.memException = Faults(memInput)
      /\ ~Faults(memInput) =>
           RegsAfter(oldMEM', regs') = RegsAfter(archExecuted, architecturalRegs)
  BY <1>1, SameEffect, SameResult
<1>4. architecturalRegs = regs'
  BY RegsCatchUp
<1>5. CASE HaltEnters
  <2>1. IsHalt(oldEX) /\ haltPassed' /\ pendingInMEM'
        /\ Settled(prog, oldestPC') = oldEX.PC
        /\ architecturalRetired' = architecturalRetired + 1
    BY <1>5 DEF HaltEnters
  <2>2. ~AccessesMem(archDecoded) /\ ~WritesMem(archDecoded)
    BY <1>3, <2>1 DEF IsHalt, AccessesMem, ReadsMem, WritesMem
  <2>3. mem' = mem /\ dCache' = dCache
    BY <1>3, <2>2 DEF MemAfter
  <2>4. architecturalRegs' = architecturalRegs
    <3>1. oldMEM'.word = oldEX.word
      BY <1>1, AdvanceHolds, MEMTakes, IsaInvFacts
    <3>2. \A r : ~Produces(oldMEM', r)
      BY <2>1, <3>1 DEF Produces, WritesRd, IsHalt
    <3>3. regs' \in [Reg -> Value]
      BY DataEffect, WBType, IsaInvFacts
    <3>4. RegsAfter(oldMEM', regs') = regs'
      BY <3>2, <3>3 DEF RegsAfter
    <3> QED
      BY <1>4, <2>1, <3>4, NextRegs
  <2>5. haltPassed' = TRUE
    BY <2>1 DEF haltPassed
  <2>6. ISA!IsHalt(ISA!decoded)
    BY <1>2, <1>3, <2>1, IsaSignals
  <2>7. ISA!Halt
    BY <1>1, <2>1, <2>3, <2>4, <2>5, <2>6 DEF ISA!Halt
  <2> QED
    BY <1>1, <2>7 DEF ISA!Next
<1>6. CASE FaultEnters
  <2>1. Faults(memInput) /\ ~haltPassed' /\ ~pendingInMEM'
        /\ oldestPC' = Handler
        /\ architecturalRetired' = architecturalRetired
    BY <1>6 DEF FaultEnters
  <2>2. ISA!executed.memException
    BY <1>2, <1>3, <2>1
  <2>3. mem' = mem /\ dCache' = dCache
    BY <1>3, <2>1 DEF MemAfter
  <2>4. architecturalRegs' = architecturalRegs
    BY <1>4, <2>1, NextRegs
  <2>5. haltPassed' = haltPassed
    BY <1>1, <2>1 DEF haltPassed
  <2>6. ISA!Trap
    BY <1>1, <2>1, <2>2, <2>3, <2>4, <2>5, IsaSettled DEF ISA!Trap
  <2> QED
    BY <1>1, <2>6 DEF ISA!Next
<1>7. CASE InstructionEnters
  <2>1. ~IsHalt(oldEX) /\ ~Faults(memInput)
        /\ ~haltPassed' /\ pendingInMEM'
        /\ Settled(prog, oldestPC') = Settled(prog, frontPC)
        /\ architecturalRetired' = architecturalRetired + 1
    BY <1>7 DEF InstructionEnters
  <2>2. Settled(prog, oldestPC') = ISA!Settled(prog, ISA!NextPC(ISA!decoded))
    <3>1. Settled(prog, frontPC) = Settled(prog, NextPC(oldEX))
      BY <1>1, IsaInvFacts DEF DataInv, EXOperands
    <3> QED
      BY <1>2, <1>3, <2>1, <3>1, IsaSettled, IsaStages
  <2>3. architecturalRegs' = ISA!RegsAfter(ISA!executed, architecturalRegs)
    BY <1>2, <1>3, <2>1, NextRegs, IsaStages
  <2>4. mem' = ISA!MemAfter(ISA!decoded, mem)
    BY <1>2, <1>3, IsaStages
  <2>5. dCache' = IF ISA!AccessesMem(ISA!decoded)
                    THEN ISA!DC!Access(dCache, ISA!MemAddress(ISA!decoded))
                    ELSE dCache
    BY <1>2, <1>3, <2>1, IsaSignals, IsaStages, IsaCache
  <2>6. ~ISA!IsHalt(ISA!decoded) /\ ~ISA!executed.memException
    BY <1>2, <1>3, <2>1, IsaSignals
  <2>7. haltPassed' = haltPassed
    BY <1>1, <2>1 DEF haltPassed
  <2>8. ISA!Execute
    BY <1>1, <2>1, <2>2, <2>3, <2>4, <2>5, <2>6, <2>7 DEF ISA!Execute
  <2> QED
    BY <1>1, <2>8 DEF ISA!Next
<1> QED
  BY <1>5, <1>6, <1>7

(* What does not move the path changes nothing else. *)
LEMMA SteadyIsStutter ==
  ASSUME Steady, architecturalRegs' = architecturalRegs,
         mem' = mem, dCache' = dCache
  PROVE  UNCHANGED ISA!isaVars
BY DEF Steady, ISA!isaVars

LEMMA StallIsStutter ==
  ASSUME IsaInv, RunCycle, dStallActive
  PROVE  UNCHANGED ISA!isaVars
<1>1. Steady
  BY StallIsSteady, IsaInvFacts
<1>2. mem' = mem /\ dCache' = dCache
  BY ShadowIsQuiet
<1>3. oldMEM' = oldMEM /\ oldWB' = Nop("BUBBLE") /\ regs' = regs
  BY StallHolds
<1>4. ~IsHalt(oldWB) /\ ~IsHalt(oldWB)'
  BY <1>3, CycleEffect, NopHolds, IsaInvFacts DEF PathInv, Running, IsHalt
<1>5. pendingInMEM' = pendingInMEM
  BY <1>3, <1>4 DEF pendingInMEM
<1>6. architecturalRegs' = architecturalRegs
  BY <1>3, <1>5, NextRegs, Zenon DEF architecturalRegs
<1> QED
  BY <1>1, <1>2, <1>6, SteadyIsStutter

LEMMA FlushIsStutter ==
  ASSUME IsaInv, RunCycle, wbMemException
  PROVE  UNCHANGED ISA!isaVars
<1>1. Steady /\ memFault
  BY FlushIsSteady, OnlyMemoryFaults, IsaInvFacts
<1>2. mem' = mem /\ dCache' = dCache
  BY <1>1, ShadowIsQuiet
<1>3. ~pendingInMEM /\ ~pendingInMEM' /\ regs' = regs
  BY <1>1, FlushHolds, NopHolds, IsaInvFacts DEF pendingInMEM, memFault
<1>4. architecturalRegs' = architecturalRegs
  BY <1>3, NextRegs DEF architecturalRegs
<1> QED
  BY <1>1, <1>2, <1>4, SteadyIsStutter

LEMMA AdvanceIsIsaStep ==
  ASSUME IsaInv, RunCycle, ~dStallActive, ~wbMemException
  PROVE  [ISA!Next]_(ISA!isaVars)
<1>1. CASE HaltEnters \/ FaultEnters \/ InstructionEnters
  BY <1>1, EntersIsIsaStep
<1>2. CASE Steady /\ (IsHalt(oldMEM) \/ (oldEX.isNop /\ ~pendingInMEM'))
  <2>1. mem' = mem /\ dCache' = dCache
    BY <1>2, ShadowIsQuiet
  <2>2. ~pendingInMEM'
    BY <1>2, AdvanceEffect, IsaInvFacts DEF pendingInMEM
  <2>3. architecturalRegs' = architecturalRegs
    BY <2>2, RegsCatchUp, NextRegs
  <2> QED
    BY <1>2, <2>1, <2>3, SteadyIsStutter
<1> QED
  BY <1>1, <1>2, AdvanceCases, IsaInvFacts

LEMMA IsaInitial == Init => ISA!Init
<1> SUFFICES ASSUME Init
             PROVE  ISA!Init
  OBVIOUS
<1>1. oldMEM = Nop("IDLE")
  BY DEF Init, oldMEM
<1>2. Path!Init
  BY PathInitial
<1>3. architecturalRegs = [r \in Reg |-> 0]
  BY <1>1, NopHolds DEF Init, architecturalRegs, pendingInMEM
<1>4. /\ Settled(prog, oldestPC) = ISA!Settled(prog, 0)
      /\ architecturalRetired = 0 /\ haltPassed = FALSE
      /\ prog \in [DOMAIN prog -> ISA!Word]
  BY <1>2, SameSettled, SameWords, IsaSettled, IsaWords DEF Path!Init
<1> QED
  BY <1>3, <1>4, IsaWords, IsaCache DEF Init, ISA!Init

LEMMA IsaStep == IsaInv /\ [Next]_vars => [ISA!Next]_(ISA!isaVars)
<1> SUFFICES ASSUME IsaInv, [Next]_vars
             PROVE  [ISA!Next]_(ISA!isaVars)
  OBVIOUS
<1>1. CASE RunCycle
  BY <1>1, StallIsStutter, FlushIsStutter, AdvanceIsIsaStep
<1>2. CASE UNCHANGED vars
  <2>1. oldMEM' = oldMEM /\ oldWB' = oldWB /\ regs' = regs
        /\ mem' = mem /\ dCache' = dCache /\ prog' = prog
    BY <1>2 DEF vars, oldMEM, oldWB
  <2>2. /\ oldestPC' = oldestPC /\ architecturalRetired' = architecturalRetired
        /\ haltPassed' = haltPassed
    BY <1>2 DEF vars, oldestPC, architecturalRetired, haltPassed, pendingInMEM,
                memFault, oldIF, oldID, oldEX, oldMEM, oldWB, IsHalt, IsLegal
  <2>3. pendingInMEM' = pendingInMEM
    BY <2>1 DEF pendingInMEM, IsHalt
  <2>4. architecturalRegs' = architecturalRegs
    BY <2>1, <2>3, NextRegs, Zenon DEF architecturalRegs
  <2> QED
    BY <2>1, <2>2, <2>4 DEF ISA!isaVars
<1> QED
  BY <1>1, <1>2 DEF Next, Halted

(* The pipeline executes the instruction set, with the registers, memory,  *)
(* D-cache, count and precise exceptions of one instruction at a time, for *)
(* every supported program and every geometry of the caches.               *)
THEOREM ImplementsIsa ==
  ASSUME QuietStalls, SupportedRuns
  PROVE  Spec => ISASpec
<1>1. Init => IsaInv
  BY IsaInvInit
<1> QED
  BY <1>1, IsaInvStep, IsaInitial, IsaStep, PTL DEF Spec, ISASpec, ISA!Spec

=============================================================================
