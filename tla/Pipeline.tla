------------------------------ MODULE Pipeline ------------------------------
(***************************************************************************)
(* The five-stage pipeline of cycle.cpp: one RunCycle step is one          *)
(* iteration of the loop in runCycles().  The definitions follow the order *)
(* of the loop body: old... is the snapshot of the pipeline registers,     *)
(* new... what a stage computes in this cycle before the exception squash, *)
(* and RunCycle commits.                                                   *)
(*                                                                         *)
(* The program and the miss latencies are chosen by Init and never change. *)
(***************************************************************************)
EXTENDS Stages

CONSTANTS
  ICacheSize, IBlockSize, IWays,   \* geometry of the I-cache
  DCacheSize, DBlockSize, DWays,   \* geometry of the D-cache
  Programs,        \* the programs: functions from code addresses to words
  Latencies,       \* the miss latencies: records [i, d]
  InitialMemory,   \* contents of the data memory at reset
  MaxCycles        \* bound on the cycles of a run

IC == INSTANCE CacheOps WITH
        CacheSize <- ICacheSize, BlockSize <- IBlockSize, Ways <- IWays

DC == INSTANCE CacheOps WITH
        CacheSize <- DCacheSize, BlockSize <- DBlockSize, Ways <- DWays

(* Both caches have a set: see CacheOps. *)
ASSUME CacheAssumption ==
  /\ {ICacheSize, IBlockSize, IWays} \subseteq Nat \ {0}
  /\ {DCacheSize, DBlockSize, DWays} \subseteq Nat \ {0}
  /\ IC!NumSets \in Nat \ {0} /\ DC!NumSets \in Nat \ {0}
  /\ IC!IndexSpan \in 1..IC!NumSets /\ DC!IndexSpan \in 1..DC!NumSets
  /\ IC!OffsetSpan \in 1..IBlockSize /\ DC!OffsetSpan \in 1..DBlockSize

ASSUME PipelineAssumption ==
  /\ \A p \in Programs : DOMAIN p \subseteq Value /\ p \in [DOMAIN p -> Word]
  /\ Latencies \subseteq [i : Nat, d : Nat]
  /\ InitialMemory \in [DataAddresses -> Value]
  /\ MaxCycles \in Nat

VARIABLES
  prog,                \* the program
  latency,             \* config.missLatency of the two caches
  PC,                  \* address IF uses in the next cycle
  pipelineInfo,        \* the five pipeline registers
  squashNextIF,        \* pending squash of the instruction in IF
  iStallLeft,          \* remaining I-cache stall cycles
  dStallLeft,          \* remaining D-cache stall cycles
  justFinishedIStall,  \* the last cycle only waited for the I-cache
  iCache, dCache,
  regs, mem,           \* architectural state of class Simulator
  loadUseStallCount, dynRetired, cycleCount,   \* statistics
  status               \* what runCycles returns: "SUCCESS" or "HALT"

vars ==
  <<prog, latency, PC, pipelineInfo, squashNextIF, iStallLeft, dStallLeft,
    justFinishedIStall, iCache, dCache, regs, mem, loadUseStallCount,
    dynRetired, cycleCount, status>>

Init ==
  /\ prog \in Programs
  /\ latency \in Latencies
  /\ PC = 0
  /\ pipelineInfo = [ifInst |-> Nop("IDLE"), idInst |-> Nop("IDLE"),
                     exInst |-> Nop("IDLE"), memInst |-> Nop("IDLE"),
                     wbInst |-> Nop("IDLE")]
  /\ squashNextIF = FALSE
  /\ iStallLeft = 0
  /\ dStallLeft = 0
  /\ justFinishedIStall = FALSE
  /\ iCache = IC!EmptyCache
  /\ dCache = DC!EmptyCache
  /\ regs = [r \in Reg |-> 0]
  /\ mem = InitialMemory
  /\ loadUseStallCount = 0
  /\ dynRetired = 0
  /\ cycleCount = 0
  /\ status = "SUCCESS"

-----------------------------------------------------------------------------
(* The snapshot taken at the start of a cycle. *)

oldIF == pipelineInfo.ifInst
oldID == pipelineInfo.idInst
oldEX == pipelineInfo.exInst
oldMEM == pipelineInfo.memInst
oldWB == pipelineInfo.wbInst

Decrement_StopsAtOne(n) == IF n > 1 THEN n - 1 ELSE n

Decrement(n) == IF n > 0 THEN n - 1 ELSE n

(* The D-stall is tested before the counter is decremented, the I-stall    *)
(* after.                                                                  *)
dStallActive == dStallLeft > 0

iStallActive == Decrement(iStallLeft) > 0

-----------------------------------------------------------------------------
(* WB. *)

memFault == ~oldMEM.isNop /\ oldMEM.memException

wbMemException == ~dStallActive /\ (memFault \/ ~IsLegal(oldMEM))

newWB ==
  IF dStallActive THEN Nop("BUBBLE")
  ELSE IF memFault THEN Nop("SQUASHED")
  ELSE [oldMEM EXCEPT !.status = IF oldMEM.isNop THEN @ ELSE "NORMAL"]

newRegs ==
  IF dStallActive \/ wbMemException THEN regs ELSE RegsAfter(oldMEM, regs)

retires == ~dStallActive /\ ~wbMemException /\ ~oldMEM.isNop

-----------------------------------------------------------------------------
(* Hazard detection. *)

DependsOn(i, r) ==
  \/ ReadsRs1(i) /\ i.word.rs1 = r
  \/ ReadsRs2(i) /\ i.word.rs2 = r

idIsBranchLike == ~oldID.isNop /\ BranchLike(oldID)

(* A store's data is not a hazard: MEM forwards it. *)
loadUseStall ==
  /\ ~dStallActive
  /\ ~oldID.isNop
  /\ ~idIsBranchLike
  /\ ReadsMem(oldEX) /\ Produces(oldEX, oldEX.word.rd)
  /\ \/ ReadsRs1(oldID) /\ oldID.word.rs1 = oldEX.word.rd
     \/ ReadsRs2(oldID) /\ oldID.word.rs2 = oldEX.word.rd /\ ~WritesMem(oldID)

branchNeedsEX ==
  /\ idIsBranchLike
  /\ Produces(oldEX, oldEX.word.rd)
  /\ DependsOn(oldID, oldEX.word.rd)

branchNeedsMEM ==
  /\ idIsBranchLike
  /\ ~branchNeedsEX
  /\ ReadsMem(oldMEM) /\ Produces(oldMEM, oldMEM.word.rd)
  /\ DependsOn(oldID, oldMEM.word.rd)

branchDataStall == ~dStallActive /\ (branchNeedsEX \/ branchNeedsMEM)

hazardStall == loadUseStall \/ branchDataStall

exBubbleFromBranchStall_Never == FALSE

exBubbleFromBranchStall == oldEX.isNop /\ oldEX.status = "BUBBLE"

loadUseEvent ==
  \/ loadUseStall
  \/ ~dStallActive /\ branchNeedsEX /\ ReadsMem(oldEX)
  \/ ~dStallActive /\ branchNeedsMEM /\ ~exBubbleFromBranchStall

-----------------------------------------------------------------------------
(* MEM and the D-cache. *)

memInput_AnyRegister ==
  IF WritesMem(oldEX) /\ ~oldWB.isNop /\ WritesRd(oldWB)
    THEN [oldEX EXCEPT !.op2Val = Result(oldWB)]
    ELSE oldEX

(* WB -> MEM forwarding of store data. *)
memInput ==
  IF WritesMem(oldEX) /\ Produces(oldWB, oldEX.word.rs2)
    THEN [oldEX EXCEPT !.op2Val = Result(oldWB)]
    ELSE oldEX

memAccepts_DespiteStall == ~oldEX.isNop /\ oldEX.status # "SQUASHED"

memAccepts == ~dStallActive /\ ~oldEX.isNop /\ oldEX.status # "SQUASHED"

newMEM ==
  IF dStallActive THEN oldMEM
  ELSE IF memAccepts THEN SimMEM(memInput, mem)
  ELSE Nop(oldEX.status)

newMemory == IF memAccepts THEN MemAfter(memInput, mem) ELSE mem

dCacheAccessed_AlsoByFault == memAccepts /\ AccessesMem(memInput)

(* Only an access without exception reaches the D-cache. *)
dCacheAccessed == memAccepts /\ AccessesMem(memInput) /\ ~Faults(memInput)

newDCache ==
  IF dCacheAccessed THEN DC!Access(dCache, MemAddress(memInput)) ELSE dCache

newDStallLeft_OneMore ==
  IF dCacheAccessed /\ ~DC!IsHit(dCache, MemAddress(memInput))
    THEN latency.d + 1
    ELSE Decrement(dStallLeft)

newDStallLeft ==
  IF dCacheAccessed /\ ~DC!IsHit(dCache, MemAddress(memInput))
    THEN latency.d
    ELSE Decrement(dStallLeft)

-----------------------------------------------------------------------------
(* EX with forwarding. *)

ForwardToEX_OldestWins(r, val) ==
  IF Produces(oldWB, r) THEN Result(oldWB)
  ELSE IF Produces(oldMEM, r) THEN Result(oldMEM)
  ELSE IF Produces(oldEX, r) THEN oldEX.arithResult
  ELSE val

(* MEM -> EX has priority over the older stages.  The result of oldEX is   *)
(* its arithResult, also for a load.                                       *)
ForwardToEX(r, val) ==
  IF Produces(oldEX, r) THEN oldEX.arithResult
  ELSE IF Produces(oldMEM, r) THEN Result(oldMEM)
  ELSE IF Produces(oldWB, r) THEN Result(oldWB)
  ELSE val

exInput ==
  [oldID EXCEPT
     !.op1Val = IF ReadsRs1(oldID) THEN ForwardToEX(oldID.word.rs1, @) ELSE @,
     !.op2Val = IF ReadsRs2(oldID) THEN ForwardToEX(oldID.word.rs2, @) ELSE @]

newEX ==
  IF dStallActive THEN oldEX
  ELSE IF ~IsLegal(oldID) THEN Nop("SQUASHED")
  ELSE IF hazardStall THEN Nop("BUBBLE")
  ELSE IF oldID.isNop THEN oldID
  ELSE SimEX(exInput)

-----------------------------------------------------------------------------
(* ID: branch resolution for the instruction in ID, then decode of IF. *)

(* A branch is resolved with the results that reach MEM and WB in this     *)
(* cycle, then with that of oldWB.                                         *)
ForwardToBranch(r, val) ==
  IF Produces(newMEM, r) THEN Result(newMEM)
  ELSE IF Produces(newWB, r) THEN Result(newWB)
  ELSE IF Produces(oldWB, r) THEN Result(oldWB)
  ELSE val

idEval ==
  [oldID EXCEPT
     !.op1Val = IF ReadsRs1(oldID) THEN ForwardToBranch(oldID.word.rs1, @) ELSE @,
     !.op2Val = IF ReadsRs2(oldID) THEN ForwardToBranch(oldID.word.rs2, @) ELSE @]

(* An illegal instruction in ID that has not been squashed yet. *)
illegalInID == ~squashNextIF /\ ~oldID.isNop /\ ~IsLegal(oldID)

branchTaken ==
  /\ ~hazardStall /\ ~dStallActive
  /\ ~illegalInID /\ ~wbMemException
  /\ idIsBranchLike \/ oldID.word.op = "JAL"
  /\ NextPC(idEval) # FallThrough(oldID.PC)

idFrozen == dStallActive \/ hazardStall

idDecodes ==
  /\ ~idFrozen /\ ~squashNextIF /\ ~branchTaken
  /\ ~iStallActive /\ ~oldIF.isNop

newID ==
  IF idFrozen THEN oldID
  ELSE IF squashNextIF \/ branchTaken THEN Nop("SQUASHED")
  ELSE IF iStallActive THEN Nop("BUBBLE")
  ELSE IF oldIF.isNop THEN Nop(IF oldIF.status = "IDLE" THEN "IDLE" ELSE "BUBBLE")
  ELSE SimID(oldIF, newRegs)

idIllegalException == illegalInID \/ (idDecodes /\ ~IsLegal(newID))

-----------------------------------------------------------------------------
(* IF and the I-cache. *)

iStallAfterID_KeepsWaiting == Decrement(iStallLeft)

(* The stall counter as ID leaves it: a taken branch cancels the wait for  *)
(* the wrong path.                                                         *)
iStallAfterID ==
  IF branchTaken /\ ~squashNextIF THEN 0 ELSE Decrement(iStallLeft)

(* What IF shows when it has no instruction: an address. *)
Shown(pc, st) == [Nop(st) EXCEPT !.PC = pc]

(* IF keeps the cache and the PC. *)
Keep(inst) ==
  [inst |-> inst, PC |-> PC, iCache |-> iCache, iStallLeft |-> iStallAfterID]

(* IF takes the word at PC without asking the cache. *)
Resume ==
  [Keep(SimIF(prog, PC)) EXCEPT !.PC = FallThrough(PC)]

Lookup_MissDoesNotFill(target, hitStatus, missStatus, stall) ==
  IF IC!IsHit(iCache, target)
    THEN [inst |-> [SimIF(prog, target) EXCEPT !.status = hitStatus],
          PC |-> FallThrough(target),
          iCache |-> IC!Access(iCache, target),
          iStallLeft |-> stall]
    ELSE [inst |-> Shown(target, missStatus),
          PC |-> target,
          iCache |-> [iCache EXCEPT !.misses = @ + 1],
          iStallLeft |-> latency.i]

(* IF asks the cache for target: on a hit it fetches, on a miss it waits   *)
(* at target.                                                              *)
Lookup(target, hitStatus, missStatus, stall) ==
  IF IC!IsHit(iCache, target)
    THEN [inst |-> [SimIF(prog, target) EXCEPT !.status = hitStatus],
          PC |-> FallThrough(target),
          iCache |-> IC!Access(iCache, target),
          iStallLeft |-> stall]
    ELSE [inst |-> Shown(target, missStatus),
          PC |-> target,
          iCache |-> IC!Access(iCache, target),
          iStallLeft |-> latency.i]

(* The wrong-path fetch next to an illegal instruction: the cache is       *)
(* asked, its answer ignored, and the next fetch is the handler's.         *)
FetchPastIllegal ==
  [inst |-> Shown(PC, "NORMAL"),
   PC |-> Handler,
   iCache |-> IC!Access(iCache, PC),
   iStallLeft |-> iStallAfterID]

(* A hazard stall: IF keeps its instruction, marked speculative when a     *)
(* branch is waited for.                                                   *)
HoldForHazard ==
  Keep(IF iStallActive THEN Shown(PC, "NORMAL")
       ELSE IF branchDataStall THEN [oldIF EXCEPT !.status = "SPECULATIVE"]
       ELSE oldIF)

newIDIsJump ==
  ~newID.isNop /\ (IsBranch(newID) \/ newID.word.op \in {"JAL", "JALR"})

(* Nothing but the I-cache holds up IF. *)
onlyIStall ==
  /\ ~wbMemException /\ ~idIllegalException /\ ~branchTaken
  /\ ~idFrozen /\ iStallActive

fetch ==
  IF wbMemException THEN Lookup(Handler, "NORMAL", "NORMAL", 0)
  ELSE IF idIllegalException THEN FetchPastIllegal
  ELSE IF branchTaken THEN Lookup(NextPC(idEval), "NORMAL", "IDLE", iStallAfterID)
  ELSE IF dStallActive /\ ~iStallActive
    THEN IF oldIF.isNop THEN Resume ELSE Keep(oldIF)
  ELSE IF hazardStall THEN HoldForHazard
  ELSE IF iStallActive THEN Keep(Shown(PC, "NORMAL"))
  ELSE IF justFinishedIStall THEN Resume
  ELSE Lookup(PC, IF newIDIsJump THEN "SPECULATIVE" ELSE "NORMAL",
              "NORMAL", iStallAfterID)

-----------------------------------------------------------------------------
(* Commit. *)

Unless_Never(squashed, inst) == inst

(* A memory exception squashes what is younger than the faulting           *)
(* instruction.                                                            *)
Unless(squashed, inst) == IF squashed THEN Nop("SQUASHED") ELSE inst

RunCycle ==
  /\ status = "SUCCESS"
  /\ cycleCount < MaxCycles
  /\ LET fetched == fetch
     IN /\ pipelineInfo' =
             [ifInst |-> fetched.inst,
              idInst |-> Unless(wbMemException, newID),
              exInst |-> Unless(wbMemException, newEX),
              memInst |-> Unless(wbMemException, newMEM),
              wbInst |-> newWB]
        /\ PC' = fetched.PC
        /\ iCache' = fetched.iCache
        /\ iStallLeft' = fetched.iStallLeft
  /\ dStallLeft' = newDStallLeft
  /\ dCache' = newDCache
  /\ regs' = newRegs
  /\ mem' = newMemory
  /\ squashNextIF' = (idIllegalException /\ ~wbMemException)
  /\ justFinishedIStall' = onlyIStall
  /\ loadUseStallCount' =
       IF loadUseEvent THEN loadUseStallCount + 1 ELSE loadUseStallCount
  /\ dynRetired' = IF retires THEN dynRetired + 1 ELSE dynRetired
  /\ cycleCount' = cycleCount + 1
  /\ status' = IF IsHalt(newWB) THEN "HALT" ELSE "SUCCESS"
  /\ UNCHANGED <<prog, latency>>

(* runTillHalt() has returned. *)
Halted == status = "HALT" /\ UNCHANGED vars

Next == RunCycle \/ Halted

Spec == Init /\ [][Next]_vars

(* runTillHalt() calls runCycles(1) until it returns HALT. *)
FairSpec == Spec /\ WF_vars(RunCycle)


-----------------------------------------------------------------------------
(* Properties. *)

(* Every field holds a value of its C++ type, no stall lasts longer than   *)
(* the miss penalty, and x0 reads as zero.                                 *)
TypeOK ==
  /\ DOMAIN prog \subseteq Value /\ \A a \in DOMAIN prog : prog[a] \in Word
  /\ latency \in [i : Nat, d : Nat]
  /\ PC \in Value
  /\ pipelineInfo \in [ifInst : Instruction, idInst : Instruction,
                       exInst : Instruction, memInst : Instruction,
                       wbInst : Instruction]
  /\ squashNextIF \in BOOLEAN
  /\ iStallLeft \in 0..latency.i
  /\ dStallLeft \in 0..latency.d
  /\ justFinishedIStall \in BOOLEAN
  /\ iCache \in IC!CacheType
  /\ dCache \in DC!CacheType
  /\ regs \in [Reg -> Value] /\ regs[0] = 0
  /\ mem \in [DataAddresses -> Value]
  /\ loadUseStallCount \in Nat /\ dynRetired \in Nat /\ cycleCount \in Nat
  /\ status \in {"SUCCESS", "HALT"}

(* The value register r has for the instruction behind oldMEM: what oldMEM *)
(* is about to write, or the register file, which has the rest.            *)
CurrentValue(r) ==
  IF Produces(oldMEM, r) THEN Result(oldMEM) ELSE ReadReg(regs, r)

idAdvances ==
  ~idFrozen /\ ~wbMemException /\ ~oldID.isNop /\ IsLegal(oldID)

(* Forwarding delivers the values of program order: an instruction that    *)
(* leaves ID takes each operand from the youngest older instruction that   *)
(* writes it, however long stalls held either of them.  (A store that      *)
(* waits for a load gets its data in MEM.)                                 *)
OperandsCurrent ==
  LET Expected(r) ==
        IF Produces(oldEX, r) THEN oldEX.arithResult ELSE CurrentValue(r)
  IN idAdvances =>
       /\ ReadsRs1(oldID) =>
            /\ exInput.op1Val = Expected(oldID.word.rs1)
            /\ idIsBranchLike => idEval.op1Val = Expected(oldID.word.rs1)
       /\ ReadsRs2(oldID) /\ ~(ReadsMem(oldEX) /\ Produces(oldEX, oldID.word.rs2)) =>
            /\ exInput.op2Val = Expected(oldID.word.rs2)
            /\ idIsBranchLike => idEval.op2Val = Expected(oldID.word.rs2)

(* A store that enters MEM stores the value its data register has in       *)
(* program order.                                                          *)
StoreDataCurrent ==
  memAccepts /\ WritesMem(oldEX) /\ ~wbMemException =>
    memInput.op2Val = CurrentValue(oldEX.word.rs2)

(* Instructions younger than one that takes a memory exception are         *)
(* squashed: in the cycle of the exception memory does not change.         *)
FaultSquashesYounger == [][wbMemException => mem' = mem]_vars

(* What is fetched behind an illegal instruction is never decoded.         *)
WrongPathSquashed ==
  [][~oldID.isNop /\ ~IsLegal(oldID) /\ oldID' # oldID => oldID'.isNop]_vars

(* IF delivers an instruction only when its block is in the I-cache, also  *)
(* when it resumes after a stall without asking the cache.  What it shows  *)
(* behind an illegal instruction is discarded.                             *)
FetchedIsCached ==
  [][~oldIF'.isNop /\ oldIF' # oldIF /\ (oldID.isNop \/ IsLegal(oldID))
       => IC!IsHit(iCache', oldIF'.PC)]_vars

(* Two promises that FetchedIsCached and WrongPathSquashed rest on.        *)
illegalHeld == ~oldID.isNop /\ ~IsLegal(oldID)

(* While an illegal instruction is in ID its squash is pending every       *)
(* second cycle of a D-stall, and always when the stall is over, because   *)
(* the number of its cycles is even; meanwhile IF does not wait.           *)
SquashAwaits ==
  /\ squashNextIF => illegalHeld
  /\ illegalHeld =>
       /\ squashNextIF <=> dStallLeft % 2 = 0
       /\ iStallLeft = 0 /\ ~justFinishedIStall

(* The block of what IF holds, or of what it waits for, is in the I-cache  *)
(* from the miss on: neither stall, squash nor branch can make IF resume   *)
(* at an address that was not asked for.                                   *)
AwaitedIsCached ==
  /\ iStallLeft > 0 \/ justFinishedIStall => IC!IsHit(iCache, PC)
  /\ cycleCount > 0 /\ ~illegalHeld =>
       IC!IsHit(iCache, IF oldIF.isNop THEN PC ELSE oldIF.PC)
  /\ cycleCount = 0 => oldIF.isNop /\ oldID.isNop /\ dStallLeft = 0

FetchInvariant == SquashAwaits /\ AwaitedIsCached

(* An instruction whose fetch missed is delivered after the stall without  *)
(* a second access to the I-cache.                                         *)
ResumeDoesNotRecount ==
  [][oldIF.isNop /\ oldIF.PC = PC /\ cycleCount > 0
     /\ ~oldIF'.isNop /\ oldIF'.PC = PC
     /\ ~wbMemException /\ ~branchTaken
       => iCache' = iCache]_vars

(* The simulator reaches the HALT of its program. *)
Halts == <>(status = "HALT")

=============================================================================
