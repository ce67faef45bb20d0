---------------------------- MODULE PipelineIsa ----------------------------
(***************************************************************************)
(* The pipeline implements the instruction set: the mapping of its state   *)
(* to the state of Isa, and the programs for which it does.                *)
(*                                                                         *)
(* An instruction takes effect when it enters MEM: memory and D-cache      *)
(* change in that cycle, so the abstract registers include the result that *)
(* MEM still holds, and the abstract pc is the oldest instruction before   *)
(* MEM.                                                                    *)
(***************************************************************************)
EXTENDS Pipeline, ControlFlow

ASSUME SettlesAssumption == \A p \in Programs : Settles(p)

(* The instruction in MEM has had its effect and will reach WB. *)
pendingInMEM ==
  ~oldMEM.isNop /\ ~oldMEM.memException /\ ~IsHalt(oldWB)

(* HALT is the last instruction: nothing after it is executed. *)
haltPassed == IsHalt(oldMEM) \/ IsHalt(oldWB)

(* The oldest instruction that has had no effect yet. *)
oldestPC ==
  IF IsHalt(oldWB) THEN oldWB.PC
  ELSE IF IsHalt(oldMEM) THEN oldMEM.PC
  ELSE IF memFault THEN Handler
  ELSE IF ~oldEX.isNop THEN oldEX.PC
  ELSE IF ~oldID.isNop /\ IsLegal(oldID) THEN oldID.PC
  ELSE IF ~oldID.isNop \/ squashNextIF THEN Handler
  ELSE IF ~oldIF.isNop THEN oldIF.PC
  ELSE PC

architecturalRegs == IF pendingInMEM THEN RegsAfter(oldMEM, regs) ELSE regs

architecturalRetired == IF pendingInMEM THEN dynRetired + 1 ELSE dynRetired

ISA ==
  INSTANCE Isa WITH
    pc <- Settled(prog, oldestPC),
    regs <- architecturalRegs,
    retired <- architecturalRetired,
    halted <- haltPassed

ISASpec == ISA!Spec

Path ==
  INSTANCE ControlPath WITH
    pc <- Settled(prog, oldestPC),
    retired <- architecturalRetired,
    halted <- haltPassed

PathSpec == Path!Spec

-----------------------------------------------------------------------------
(* The programs the pipeline executes like the instruction set.  Outside   *)
(* of them the code loses an operand, stores a wrong value, lets a         *)
(* squashed instruction access memory or executes the handler's first      *)
(* instruction twice.  x, y and z are words that follow each other.        *)

(* Store data comes from the right producer. *)
StoreDataForwarded(x, y, z) ==
  LET r == z.word.rs2
  IN WritesMem(z) /\ Produces(y, r) => ~ReadsMem(y) /\ ~Produces(x, r)

(* z takes an operand from x unless y overwrites it. *)
Feeds(x, y, z) ==
  \E r \in Reg : Produces(x, r) /\ ~Produces(y, r) /\ DependsOn(z, r)

(* No operand that was waiting in WB is lost while z is held in ID. *)
OperandsSurvive(x, y, z) ==
  /\ ReadsMem(y) /\ Feeds(y, Nop("IDLE"), z) => ~Feeds(x, y, z)
  /\ BranchLike(z) /\ ReadsMem(x) /\ Feeds(x, y, z) => ~AccessesMem(y)

MayFault(i) ==
  AccessesMem(i) /\ (i.word.rs1 # 0 \/ i.word.imm \notin DataAddresses)

(* The access of z happens although y is a HALT or faults. *)
NoAccessInShadow(y, z) == MayFault(y) \/ IsHalt(y) => ~AccessesMem(z)

(* z does not raise its exception in the cycle an odd D-stall starts. *)
NoIllegalInDStall(d, x, y, z) ==
  ~IsLegal(z) /\ d % 2 = 1 => ~AccessesMem(x) /\ ~AccessesMem(y)

Supported(p, d) ==
  \A a \in Value :
    LET x == SimIF(p, a)
        y == SimIF(p, FallThrough(a))
        z == SimIF(p, FallThrough(FallThrough(a)))
    IN z.PC \in DOMAIN p =>
         /\ StoreDataForwarded(x, y, z)
         /\ OperandsSurvive(x, y, z)
         /\ NoAccessInShadow(y, z)
         /\ NoIllegalInDStall(d, x, y, z)

=============================================================================
