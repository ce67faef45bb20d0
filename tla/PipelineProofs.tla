--------------------------- MODULE PipelineProofs ---------------------------
(***************************************************************************)
(* The pipeline for every program, memory, cache geometry and latency: its *)
(* types, and which instructions it executes.                              *)
(*                                                                         *)
(* Types first: no cycle leaves a field outside its type, a stall is never *)
(* longer than the miss latency, and x0 is always zero.  Then that the     *)
(* load-use statistic counts no instruction twice.                         *)
(*                                                                         *)
(* The rest is about control, when a D-stall lasts an even number of       *)
(* cycles, or when no illegal word comes within two words behind an        *)
(* access (QuietStalls).  Two promises of the fetch stage come first: what *)
(* is fetched behind an illegal instruction is never decoded, and IF       *)
(* delivers nothing whose block is not in the I-cache.  Both rest on       *)
(* FetchInvariant, which is kept while no illegal word is decoded with an  *)
(* access in EX that stalls an odd number of cycles (QuietDecode).  That   *)
(* this never happens is AccessFollowed: how far what is fetched may be    *)
(* behind the access.                                                      *)
(*                                                                         *)
(* Last the path: the pipeline implements ControlPath under the mapping of *)
(* PipelineIsa.  The argument follows the program order of the pipeline    *)
(* from MEM back to IF.  PathInv says that each stage holds the word of    *)
(* its address and that the address of a stage is, past words that do      *)
(* nothing, where the next older stage leads.  A cycle either leaves the   *)
(* oldest unexecuted instruction where it is or executes it.               *)
(***************************************************************************)
EXTENDS PipelineStats, PipelineIsa, StagesProofs

(* The facts about the cache operators, for the two caches. *)
IProofs == INSTANCE CacheOpsProofs WITH
             CacheSize <- ICacheSize, BlockSize <- IBlockSize, Ways <- IWays

DProofs == INSTANCE CacheOpsProofs WITH
             CacheSize <- DCacheSize, BlockSize <- DBlockSize, Ways <- DWays

(* They speak of the same operators. *)
LEMMA SameICache ==
  /\ IProofs!CacheType = IC!CacheType
  /\ IProofs!EmptyCache = IC!EmptyCache
  /\ \A c, a : /\ IProofs!Access(c, a) = IC!Access(c, a)
               /\ IProofs!IsHit(c, a) = IC!IsHit(c, a)
BY DEF IC!CacheType, IC!EmptyCache, IC!Access, IC!IsHit, IC!SetIndex, IC!Line,
       IC!Way, IC!NumSets, IC!IndexSpan, IC!OffsetSpan, IC!indexBits,
       IC!offsetBits, IC!Log2, IC!IndexOf, IC!TagOf, IC!Block, IC!ChosenWay,
       IC!VictimWay, IC!FirstWay, IC!HitWays, IC!InvalidWays, IC!OldestWays,
       IProofs!CacheType, IProofs!EmptyCache, IProofs!Access, IProofs!IsHit,
       IProofs!SetIndex, IProofs!Line, IProofs!Way, IProofs!NumSets,
       IProofs!IndexSpan, IProofs!OffsetSpan, IProofs!indexBits,
       IProofs!offsetBits, IProofs!Log2, IProofs!IndexOf, IProofs!TagOf,
       IProofs!Block, IProofs!ChosenWay, IProofs!VictimWay, IProofs!FirstWay,
       IProofs!HitWays, IProofs!InvalidWays, IProofs!OldestWays

LEMMA IGeometry ==
  /\ IProofs!GeometryAssumption
  /\ IProofs!SpanAssumption
BY CacheAssumption
   DEF IC!NumSets, IC!IndexSpan, IC!OffsetSpan, IC!indexBits, IC!offsetBits,
       IC!Log2, IProofs!NumSets, IProofs!IndexSpan, IProofs!OffsetSpan,
       IProofs!indexBits, IProofs!offsetBits, IProofs!Log2

LEMMA SameDCache ==
  /\ DProofs!CacheType = DC!CacheType
  /\ DProofs!EmptyCache = DC!EmptyCache
  /\ \A c, a : /\ DProofs!Access(c, a) = DC!Access(c, a)
               /\ DProofs!IsHit(c, a) = DC!IsHit(c, a)
BY DEF DC!CacheType, DC!EmptyCache, DC!Access, DC!IsHit, DC!SetIndex, DC!Line,
       DC!Way, DC!NumSets, DC!IndexSpan, DC!OffsetSpan, DC!indexBits,
       DC!offsetBits, DC!Log2, DC!IndexOf, DC!TagOf, DC!Block, DC!ChosenWay,
       DC!VictimWay, DC!FirstWay, DC!HitWays, DC!InvalidWays, DC!OldestWays,
       DProofs!CacheType, DProofs!EmptyCache, DProofs!Access, DProofs!IsHit,
       DProofs!SetIndex, DProofs!Line, DProofs!Way, DProofs!NumSets,
       DProofs!IndexSpan, DProofs!OffsetSpan, DProofs!indexBits,
       DProofs!offsetBits, DProofs!Log2, DProofs!IndexOf, DProofs!TagOf,
       DProofs!Block, DProofs!ChosenWay, DProofs!VictimWay, DProofs!FirstWay,
       DProofs!HitWays, DProofs!InvalidWays, DProofs!OldestWays

LEMMA DGeometry ==
  /\ DProofs!GeometryAssumption
  /\ DProofs!SpanAssumption
BY CacheAssumption
   DEF DC!NumSets, DC!IndexSpan, DC!OffsetSpan, DC!indexBits, DC!offsetBits,
       DC!Log2, DProofs!NumSets, DProofs!IndexSpan, DProofs!OffsetSpan,
       DProofs!indexBits, DProofs!offsetBits, DProofs!Log2

(* The I-cache is a cache, and has the block that was asked for last. *)
LEMMA ICacheFacts ==
  ASSUME NEW c \in IC!CacheType, NEW a \in Nat
  PROVE  /\ IC!Access(c, a) \in IC!CacheType
         /\ IC!IsHit(IC!Access(c, a), a)
         /\ IC!EmptyCache \in IC!CacheType
BY SameICache, IGeometry, IProofs!AccessType, IProofs!AccessHits,
   IProofs!EmptyCacheType

(* So is the D-cache. *)
LEMMA DCacheFacts ==
  ASSUME NEW c \in DC!CacheType, NEW a \in Nat
  PROVE  /\ DC!Access(c, a) \in DC!CacheType
         /\ DC!EmptyCache \in DC!CacheType
BY SameDCache, DGeometry, DProofs!AccessType, DProofs!EmptyCacheType

-----------------------------------------------------------------------------
(* Types of what each stage computes. *)

LEMMA OldTypes ==
  ASSUME TypeOK
  PROVE  /\ oldIF \in Instruction /\ oldID \in Instruction
         /\ oldEX \in Instruction /\ oldMEM \in Instruction
         /\ oldWB \in Instruction
BY DEF TypeOK, oldIF, oldID, oldEX, oldMEM, oldWB

(* WB. *)
LEMMA WBType ==
  ASSUME TypeOK
  PROVE  /\ newWB \in Instruction
         /\ newRegs \in [Reg -> Value] /\ newRegs[0] = 0
<1>1. Nop("BUBBLE") \in Instruction /\ Nop("SQUASHED") \in Instruction
  BY NopType DEF Status
<1>2. newWB \in Instruction
  BY <1>1, OldTypes DEF newWB, Instruction, Status
<1>3. regs \in [Reg -> Value] /\ regs[0] = 0
  BY DEF TypeOK
<1> QED
  BY <1>2, <1>3, OldTypes, RegsAfterType DEF newRegs

(* MEM: the instruction, memory, the D-cache and its stall. *)
LEMMA MEMType ==
  ASSUME TypeOK
  PROVE  /\ newMEM \in Instruction
         /\ newMemory \in [DataAddresses -> Value]
         /\ newDCache \in DC!CacheType
         /\ newDStallLeft \in 0..latency.d
<1>1. mem \in [DataAddresses -> Value] /\ dCache \in DC!CacheType
  BY DEF TypeOK
<1>2. memInput \in Instruction
  BY OldTypes, ResultType DEF memInput, Instruction
<1>3. oldEX.status \in Status
  BY OldTypes DEF Instruction
<1>4. newMEM \in Instruction
  BY <1>1, <1>2, <1>3, OldTypes, NopType, SimMEMType DEF newMEM
<1>5. newMemory \in [DataAddresses -> Value]
  BY <1>1, <1>2, SimMEMType DEF newMemory
<1>6. MemAddress(memInput) \in Nat
  BY <1>2, MemAddressType, ValueIsNat
<1>7. newDCache \in DC!CacheType
  BY <1>1, <1>6, DCacheFacts DEF newDCache
<1>8. newDStallLeft \in 0..latency.d
  BY DEF newDStallLeft, Decrement, TypeOK
<1> QED
  BY <1>4, <1>5, <1>7, <1>8

(* EX with its forwarded operands. *)
LEMMA EXType ==
  ASSUME TypeOK
  PROVE  newEX \in Instruction
<1>1. \A r, val : val \in Value => ForwardToEX(r, val) \in Value
  BY OldTypes, ResultType DEF ForwardToEX, Instruction
<1>2. exInput \in Instruction
  BY <1>1, OldTypes DEF exInput, Instruction
<1>3. Nop("BUBBLE") \in Instruction /\ Nop("SQUASHED") \in Instruction
  BY NopType DEF Status
<1> QED
  BY <1>2, <1>3, OldTypes, SimEXType DEF newEX

(* ID, and the operands a branch is resolved with. *)
LEMMA IDType ==
  ASSUME TypeOK
  PROVE  /\ newID \in Instruction
         /\ idEval \in Instruction
<1>1. \A r, val : val \in Value => ForwardToBranch(r, val) \in Value
  BY OldTypes, WBType, MEMType, ResultType DEF ForwardToBranch
<1>2. idEval \in Instruction
  BY <1>1, OldTypes DEF idEval, Instruction
<1>3. \A st \in {"BUBBLE", "SQUASHED", "IDLE"} : Nop(st) \in Instruction
  BY NopType DEF Status
<1>4. SimID(oldIF, newRegs) \in Instruction
  BY OldTypes, WBType, SimIDType
<1> QED
  BY <1>2, <1>3, <1>4, OldTypes DEF newID

-----------------------------------------------------------------------------
(* IF: every way it can go gives an instruction, an address, a cache and a *)
(* stall within the miss latency.                                          *)

FetchResult ==
  [inst : Instruction, PC : Value, iCache : IC!CacheType,
   iStallLeft : 0..latency.i]

LEMMA IStallType ==
  ASSUME TypeOK
  PROVE  iStallAfterID \in 0..latency.i
BY DEF TypeOK, iStallAfterID, Decrement

LEMMA ShownType ==
  ASSUME NEW pc \in Value, NEW st \in Status
  PROVE  Shown(pc, st) \in Instruction
BY NopType DEF Shown, Instruction

LEMMA KeepType ==
  ASSUME TypeOK, NEW inst \in Instruction
  PROVE  Keep(inst) \in FetchResult
BY IStallType DEF Keep, FetchResult, TypeOK

LEMMA ResumeType ==
  ASSUME TypeOK
  PROVE  Resume \in FetchResult
<1>1. SimIF(prog, PC) \in Instruction
  BY SimIFType DEF TypeOK
<1>2. FallThrough(PC) \in Value
  BY FallThroughType DEF TypeOK
<1> QED
  BY <1>1, <1>2, KeepType DEF Resume, FetchResult

LEMMA LookupType ==
  ASSUME TypeOK, NEW target \in Value, NEW hitStatus \in Status,
         NEW missStatus \in Status, NEW stall \in 0..latency.i
  PROVE  Lookup(target, hitStatus, missStatus, stall) \in FetchResult
<1>1. SimIF(prog, target) \in Instruction
  BY SimIFType DEF TypeOK
<1>2. [SimIF(prog, target) EXCEPT !.status = hitStatus] \in Instruction
  BY <1>1 DEF Instruction
<1>3. FallThrough(target) \in Value
  BY FallThroughType
<1>4. IC!Access(iCache, target) \in IC!CacheType
  BY ICacheFacts, ValueIsNat DEF TypeOK
<1>5. latency.i \in 0..latency.i
  BY DEF TypeOK
<1> QED
  BY <1>2, <1>3, <1>4, <1>5, ShownType DEF Lookup, FetchResult

LEMMA FetchType ==
  ASSUME TypeOK
  PROVE  fetch \in FetchResult
<1>1. PC \in Value /\ Handler \in Value
  BY StagesAssumption DEF TypeOK, Value
<1>2. {"NORMAL", "IDLE", "SPECULATIVE"} \subseteq Status
  BY DEF Status
<1>3. 0 \in 0..latency.i
  BY DEF TypeOK
<1>4. Lookup(Handler, "NORMAL", "NORMAL", 0) \in FetchResult
  BY <1>1, <1>2, <1>3, LookupType
<1>5. FetchPastIllegal \in FetchResult
  <2>1. IC!Access(iCache, PC) \in IC!CacheType
    BY <1>1, ICacheFacts, ValueIsNat DEF TypeOK
  <2> QED
    BY <1>1, <1>2, <2>1, ShownType, IStallType DEF FetchPastIllegal, FetchResult
<1>6. Lookup(NextPC(idEval), "NORMAL", "IDLE", iStallAfterID) \in FetchResult
  BY <1>2, IDType, NextPCType, IStallType, LookupType
<1>7. Keep(oldIF) \in FetchResult /\ Keep(Shown(PC, "NORMAL")) \in FetchResult
  BY <1>1, <1>2, OldTypes, ShownType, KeepType
<1>8. HoldForHazard \in FetchResult
  <2>1. [oldIF EXCEPT !.status = "SPECULATIVE"] \in Instruction
    BY <1>2, OldTypes DEF Instruction
  <2> QED
    BY <1>7, <2>1, KeepType DEF HoldForHazard
<1>9. \A st \in {"NORMAL", "SPECULATIVE"} :
        Lookup(PC, st, "NORMAL", iStallAfterID) \in FetchResult
  BY <1>1, <1>2, IStallType, LookupType
<1> QED
  BY <1>4, <1>5, <1>6, <1>7, <1>8, <1>9, ResumeType DEF fetch

-----------------------------------------------------------------------------
(* The step and the theorem. *)

LEMMA UnlessType ==
  ASSUME NEW squashed \in BOOLEAN, NEW inst \in Instruction
  PROVE  Unless(squashed, inst) \in Instruction
BY NopType DEF Unless, Status

LEMMA InitType == Init => TypeOK
<1> SUFFICES ASSUME Init
             PROVE  TypeOK
  OBVIOUS
<1>1. Nop("IDLE") \in Instruction
  BY NopType DEF Status
<1>2. DOMAIN prog \subseteq Value /\ \A a \in DOMAIN prog : prog[a] \in Word
  BY PipelineAssumption DEF Init
<1>3. latency \in [i : Nat, d : Nat]
  BY PipelineAssumption DEF Init
<1>4. PC \in Value /\ regs \in [Reg -> Value] /\ regs[0] = 0
  BY ValueIsNat DEF Init
<1>5. IC!EmptyCache \in IC!CacheType /\ DC!EmptyCache \in DC!CacheType
  BY SameICache, SameDCache, IGeometry, DGeometry, IProofs!EmptyCacheType,
     DProofs!EmptyCacheType
<1>6. mem \in [DataAddresses -> Value]
  BY PipelineAssumption DEF Init
<1>7. pipelineInfo \in [ifInst : Instruction, idInst : Instruction,
                        exInst : Instruction, memInst : Instruction,
                        wbInst : Instruction]
  BY <1>1 DEF Init
<1>8. iStallLeft \in 0..latency.i /\ dStallLeft \in 0..latency.d
  BY <1>3 DEF Init
<1>9. iCache \in IC!CacheType /\ dCache \in DC!CacheType
  BY <1>5 DEF Init
<1> QED
  BY <1>2, <1>3, <1>4, <1>6, <1>7, <1>8, <1>9 DEF Init, TypeOK

LEMMA RunCycleType ==
  ASSUME TypeOK, RunCycle
  PROVE  TypeOK'
<1>1. fetch \in FetchResult
  BY FetchType
<1>2. /\ PC' \in Value
      /\ iCache' \in IC!CacheType
      /\ iStallLeft' \in 0..latency.i
  BY <1>1 DEF RunCycle, FetchResult
<1>3. pipelineInfo' \in [ifInst : Instruction, idInst : Instruction,
                         exInst : Instruction, memInst : Instruction,
                         wbInst : Instruction]
  <2>1. wbMemException \in BOOLEAN
    BY DEF wbMemException
  <2>2. /\ Unless(wbMemException, newID) \in Instruction
        /\ Unless(wbMemException, newEX) \in Instruction
        /\ Unless(wbMemException, newMEM) \in Instruction
    BY <2>1, IDType, EXType, MEMType, UnlessType
  <2>3. fetch.inst \in Instruction
    BY <1>1 DEF FetchResult
  <2> QED
    BY <2>2, <2>3, WBType DEF RunCycle
<1>4. /\ regs' \in [Reg -> Value] /\ regs'[0] = 0
      /\ mem' \in [DataAddresses -> Value]
      /\ dCache' \in DC!CacheType
      /\ dStallLeft' \in 0..latency.d
  BY WBType, MEMType DEF RunCycle
<1>5. squashNextIF' \in BOOLEAN /\ justFinishedIStall' \in BOOLEAN
  BY DEF RunCycle, onlyIStall
<1>6. /\ loadUseStallCount' \in Nat /\ dynRetired' \in Nat
      /\ cycleCount' \in Nat /\ status' \in {"SUCCESS", "HALT"}
  BY DEF RunCycle, TypeOK
<1>7. prog' = prog /\ latency' = latency
  BY DEF RunCycle
<1> QED
  BY <1>2, <1>3, <1>4, <1>5, <1>6, <1>7 DEF TypeOK

(* Type correctness of the whole simulator state, for every program,       *)
(* latency, geometry and register count: in particular no stall counter    *)
(* leaves 0..missLatency and x0 is never written.                          *)
THEOREM PipelineTypeCorrect == Spec => []TypeOK
<1>1. TypeOK /\ [Next]_vars => TypeOK'
  <2> SUFFICES ASSUME TypeOK, [Next]_vars
               PROVE  TypeOK'
    OBVIOUS
  <2>1. CASE RunCycle
    BY <2>1, RunCycleType
  <2>2. CASE UNCHANGED vars
    BY <2>2 DEF vars, TypeOK
  <2> QED
    BY <2>1, <2>2 DEF Next, Halted
<1> QED
  BY <1>1, InitType, PTL DEF Spec

-----------------------------------------------------------------------------
(* The load-use statistic.                                                 *)

(* Behind an instruction that has waited for a load there is the bubble it *)
(* left in EX: it stays there as long as the instruction stays in ID,      *)
(* because a hazard makes another one and a D-stall keeps it.              *)
BubbleBehindWaiter == waited => oldEX.isNop /\ oldEX.status = "BUBBLE"

StatsInvariant ==
  /\ loadUseStallCount \in Nat /\ waiters \in Nat
  /\ LoadUseNotRecounted
  /\ BubbleBehindWaiter

(* An event is counted only for an instruction that waits for a load.      *)
LEMMA EventIsWait == ASSUME loadUseEvent PROVE waitsForLoad
  BY DEF loadUseEvent, waitsForLoad, branchDataStall, branchNeedsEX, branchNeedsMEM

(* No event is counted for one that has waited already: each kind needs an *)
(* instruction in EX or something else than the bubble.                    *)
LEMMA WaiterIsNotCounted ==
  ASSUME waited, BubbleBehindWaiter PROVE ~loadUseEvent
  BY DEF BubbleBehindWaiter, loadUseEvent, loadUseStall, branchNeedsEX,
         exBubbleFromBranchStall, Produces

(* A hazard stall is for an instruction that reads, a legal one.           *)
LEMMA StalledIsLegal == ASSUME hazardStall PROVE IsLegal(oldID)
<1>1. ReadsRs1(oldID) \/ ReadsRs2(oldID)
  BY DEF hazardStall, loadUseStall, branchDataStall, branchNeedsEX,
         branchNeedsMEM, DependsOn
<1> QED
  BY <1>1 DEF ReadsRs1, ReadsRs2, IsLegal

(* An instruction that waits, or has waited and stays, leaves a bubble.    *)
LEMMA WaiterLeavesBubble ==
  ASSUME BubbleBehindWaiter, idFrozen, waited \/ waitsForLoad
  PROVE  newEX.isNop /\ newEX.status = "BUBBLE"
<1>1. CASE dStallActive
  <2>1. waited
    BY <1>1 DEF waitsForLoad, loadUseStall, branchDataStall
  <2> QED
    BY <1>1, <2>1 DEF newEX, BubbleBehindWaiter
<1>2. CASE ~dStallActive
  <2>1. hazardStall /\ IsLegal(oldID)
    BY <1>2, StalledIsLegal DEF idFrozen
  <2>2. newEX = Nop("BUBBLE")
    BY <1>2, <2>1 DEF newEX
  <2> QED
    BY <2>2 DEF Nop
<1> QED
  BY <1>1, <1>2

LEMMA CycleKeepsStats ==
  ASSUME StatsInvariant, RunCycleStats
  PROVE  StatsInvariant'
<1>1. /\ loadUseStallCount' \in Nat /\ waiters' \in Nat
      /\ LoadUseNotRecounted'
  <2>1. CASE loadUseEvent
    <3>1. waitsForLoad /\ ~waited
      BY <2>1, EventIsWait, WaiterIsNotCounted DEF StatsInvariant
    <3>2. /\ loadUseStallCount' = loadUseStallCount + 1
          /\ waiters' = waiters + 1
      BY <2>1, <3>1 DEF RunCycleStats, RunCycle
    <3> QED
      BY <3>2 DEF StatsInvariant, LoadUseNotRecounted
  <2>2. CASE ~loadUseEvent
    <3>1. /\ loadUseStallCount' = loadUseStallCount
          /\ waiters' \in {waiters, waiters + 1}
      BY <2>2 DEF RunCycleStats, RunCycle
    <3> QED
      BY <3>1 DEF StatsInvariant, LoadUseNotRecounted
  <2> QED
    BY <2>1, <2>2
<1>2. BubbleBehindWaiter'
  <2> SUFFICES ASSUME waited'
               PROVE  oldEX'.isNop /\ oldEX'.status = "BUBBLE"
    BY DEF BubbleBehindWaiter
  <2>1. idFrozen /\ ~wbMemException /\ (waited \/ waitsForLoad)
    BY DEF RunCycleStats
  <2>2. oldEX' = newEX
    <3>1. oldEX' = Unless(wbMemException, newEX)
      BY DEF RunCycleStats, RunCycle, oldEX
    <3> QED
      BY <2>1, <3>1 DEF Unless
  <2> QED
    BY <2>1, <2>2, WaiterLeavesBubble DEF StatsInvariant
<1> QED
  BY <1>1, <1>2 DEF StatsInvariant

(* For every program, latency and geometry: no instruction that waits for  *)
(* a load is counted twice in the load-use statistic.                      *)
THEOREM LoadUseNeverRecounted == StatsSpec => []LoadUseNotRecounted
<1>1. InitStats => StatsInvariant
  BY DEF InitStats, Init, StatsInvariant, LoadUseNotRecounted, BubbleBehindWaiter
<1>2. StatsInvariant /\ [NextStats]_statsVars => StatsInvariant'
  <2> SUFFICES ASSUME StatsInvariant, [NextStats]_statsVars
               PROVE  StatsInvariant'
    OBVIOUS
  <2>1. CASE RunCycleStats
    BY <2>1, CycleKeepsStats
  <2>2. CASE UNCHANGED statsVars
    BY <2>2 DEF statsVars, vars, StatsInvariant, LoadUseNotRecounted,
                BubbleBehindWaiter, oldEX
  <2>3. CASE Halted /\ UNCHANGED <<waited, waiters, unretired>>
    BY <2>2, <2>3 DEF Halted, statsVars
  <2> QED
    BY <2>1, <2>2, <2>3 DEF NextStats
<1>3. StatsInvariant => LoadUseNotRecounted
  BY DEF StatsInvariant
<1> QED
  BY <1>1, <1>2, <1>3, PTL DEF StatsSpec

-----------------------------------------------------------------------------
(* Control. *)

(* With an odd penalty the first promise is broken if the stall begins in  *)
(* the cycle in which an illegal word is decoded: the access is then one   *)
(* of the two words before it.                                             *)
NoIllegalBehindAccess(p) ==
  \A a \in Value :
    AccessesMem(SimIF(p, a)) =>
      /\ IsLegal(SimIF(p, FallThrough(a)))
      /\ IsLegal(SimIF(p, FallThrough(FallThrough(a))))

QuietStalls ==
  \A p \in Programs, l \in Latencies : l.d % 2 = 0 \/ NoIllegalBehindAccess(p)

QuietDecode ==
  latency.d % 2 = 1 =>
    ~(/\ ~oldEX.isNop /\ AccessesMem(oldEX)
      /\ ~illegalHeld /\ ~oldIF.isNop /\ ~IsLegal(oldIF))

Inv == TypeOK /\ FetchInvariant

-----------------------------------------------------------------------------
(* An illegal instruction in ID. *)

LEMMA NopLegal ==
  ASSUME NEW st
  PROVE  Nop(st).isNop /\ IsLegal(Nop(st))
BY DEF Nop, IsLegal, PlainWord

(* It waits for nothing and branches nowhere. *)
LEMMA IllegalIsInert ==
  ASSUME illegalHeld
  PROVE  ~hazardStall /\ ~idIsBranchLike /\ ~branchTaken
BY DEF illegalHeld, IsLegal, hazardStall, loadUseStall, branchDataStall,
       branchNeedsEX, branchNeedsMEM, idIsBranchLike, BranchLike, IsBranch,
       ReadsRs1, ReadsRs2, branchTaken

(* During a D-stall it stays in ID ...                                     *)
LEMMA IllegalStays ==
  ASSUME Inv, illegalHeld, dStallActive
  PROVE  /\ ~wbMemException
         /\ newID = oldID
         /\ idIllegalException <=> ~squashNextIF
         /\ newDStallLeft = dStallLeft - 1
<1>1. idFrozen /\ ~idDecodes /\ ~wbMemException /\ newID = oldID
  BY DEF idFrozen, idDecodes, wbMemException, newID
<1>2. idIllegalException <=> ~squashNextIF
  BY <1>1 DEF idIllegalException, illegalInID, illegalHeld
<1>3. newDStallLeft = dStallLeft - 1
  BY DEF newDStallLeft, dCacheAccessed, memAccepts, Decrement, dStallActive,
         Inv, TypeOK
<1> QED
  BY <1>1, <1>2, <1>3

(* ... and becomes a bubble when the stall is over.                        *)
LEMMA IllegalLeaves ==
  ASSUME Inv, illegalHeld, ~dStallActive
  PROVE  /\ squashNextIF
         /\ newID = Nop("SQUASHED")
         /\ ~idIllegalException
<1>1. dStallLeft = 0
  BY DEF dStallActive, Inv, TypeOK
<1>2. squashNextIF
  BY <1>1 DEF Inv, FetchInvariant, SquashAwaits
<1>3. ~idFrozen
  BY IllegalIsInert DEF idFrozen
<1> QED
  BY <1>2, <1>3 DEF newID, idIllegalException, illegalInID, idDecodes

(* One enters ID only by being decoded. *)
LEMMA IllegalEnters ==
  ASSUME Inv, ~illegalHeld
  PROVE  /\ ~squashNextIF
         /\ idIllegalException <=> idDecodes /\ ~IsLegal(newID)
         /\ ~newID.isNop /\ ~IsLegal(newID) => idDecodes
         /\ idDecodes /\ ~IsLegal(newID) => ~newID.isNop
<1>1. ~squashNextIF /\ ~illegalInID
  BY DEF Inv, FetchInvariant, SquashAwaits, illegalInID, illegalHeld
<1>2. ~newID.isNop /\ ~IsLegal(newID) => idDecodes
  BY NopLegal DEF newID, idDecodes, illegalHeld
<1>3. idDecodes => newID = SimID(oldIF, newRegs)
  BY DEF newID, idDecodes
<1>4. /\ SimID(oldIF, newRegs).word = oldIF.word
      /\ SimID(oldIF, newRegs).isNop = (oldIF.word.op = "NOP")
  BY OldTypes, WBType, SimIDType DEF Inv
<1>5. idDecodes /\ ~IsLegal(newID) => ~newID.isNop
  BY <1>3, <1>4 DEF IsLegal
<1> QED
  BY <1>1, <1>2, <1>5 DEF idIllegalException

(* IF counts down or is free. *)
LEMMA StallOver ==
  ASSUME TypeOK, ~iStallActive
  PROVE  iStallAfterID = 0
BY DEF iStallActive, iStallAfterID, Decrement, TypeOK

-----------------------------------------------------------------------------
(* SquashAwaits is preserved. *)

LEMMA SquashAwaitsStep ==
  ASSUME Inv, QuietDecode, RunCycle
  PROVE  SquashAwaits'
<1> DEFINE ID == Unless(wbMemException, newID)
<1>1. /\ oldID' = ID
      /\ squashNextIF' = (idIllegalException /\ ~wbMemException)
      /\ dStallLeft' = newDStallLeft
      /\ iStallLeft' = fetch.iStallLeft
      /\ justFinishedIStall' = onlyIStall
  BY DEF RunCycle, oldID
<1>2. wbMemException => ID = Nop("SQUASHED")
  BY DEF Unless
<1>3. ~wbMemException => ID = newID
  BY DEF Unless
<1>4. CASE illegalHeld /\ dStallActive
  <2>1. /\ ~wbMemException /\ newID = oldID
        /\ idIllegalException <=> ~squashNextIF
        /\ newDStallLeft = dStallLeft - 1
    BY <1>4, IllegalStays
  <2>2. squashNextIF <=> dStallLeft % 2 = 0
    BY <1>4 DEF Inv, FetchInvariant, SquashAwaits
  <2>3. squashNextIF' <=> dStallLeft' % 2 = 0
    <3>1. dStallLeft \in Nat \ {0}
      BY <1>4 DEF Inv, TypeOK, dStallActive
    <3>2. dStallLeft % 2 = 0 <=> ~((dStallLeft - 1) % 2 = 0)
      BY <3>1
    <3> QED
      BY <1>1, <2>1, <2>2, <3>2
  <2>4. ~iStallActive
    BY <1>4 DEF Inv, FetchInvariant, SquashAwaits, iStallActive, Decrement
  <2>5. fetch \in {FetchPastIllegal, Resume, Keep(oldIF)}
    BY <1>4, <2>1, <2>4, IllegalIsInert DEF fetch
  <2>6. fetch.iStallLeft = 0
    BY <2>4, <2>5, StallOver DEF FetchPastIllegal, Resume, Keep, Inv
  <2>7. ~onlyIStall
    BY <2>4 DEF onlyIStall
  <2>8. illegalHeld'
    BY <1>1, <1>3, <1>4, <2>1 DEF illegalHeld
  <2> QED
    BY <1>1, <2>3, <2>6, <2>7, <2>8 DEF SquashAwaits
<1>5. CASE illegalHeld /\ ~dStallActive
  <2>1. newID = Nop("SQUASHED") /\ ~idIllegalException
    BY <1>5, IllegalLeaves
  <2>2. oldID'.isNop
    BY <1>1, <1>2, <1>3, <2>1, NopLegal
  <2> QED
    BY <1>1, <2>1, <2>2 DEF SquashAwaits, illegalHeld
<1>6. CASE ~illegalHeld /\ idIllegalException /\ ~wbMemException
  <2>1. idDecodes /\ ~IsLegal(newID) /\ ~newID.isNop
    BY <1>6, IllegalEnters
  <2>2. ~dStallActive /\ ~iStallActive
    BY <2>1 DEF idDecodes, idFrozen
  <2>3. newDStallLeft = 0 \/ (newDStallLeft = latency.d /\ dCacheAccessed)
    BY <2>2 DEF newDStallLeft, Decrement, dStallActive, Inv, TypeOK
  <2>4. dStallLeft' % 2 = 0
    <3>1. newID.word = oldIF.word /\ ~oldIF.isNop
      BY <2>1, OldTypes, WBType, SimIDType DEF idDecodes, newID, Inv
    <3>2. dCacheAccessed => ~oldEX.isNop /\ AccessesMem(oldEX)
      <4>1. memInput.word = oldEX.word
        BY OldTypes DEF memInput, Instruction, Inv
      <4> QED
        BY <4>1 DEF dCacheAccessed, memAccepts, AccessesMem, ReadsMem, WritesMem
    <3>3. dCacheAccessed => latency.d % 2 = 0
      BY <1>6, <2>1, <3>1, <3>2 DEF QuietDecode, IsLegal, Inv, TypeOK
    <3> QED
      BY <1>1, <2>3, <3>3
  <2>5. fetch = FetchPastIllegal
    BY <1>6 DEF fetch
  <2>6. fetch.iStallLeft = 0
    BY <2>2, <2>5, StallOver DEF FetchPastIllegal, Inv
  <2>7. ~onlyIStall
    BY <1>6 DEF onlyIStall
  <2>8. illegalHeld'
    BY <1>1, <1>3, <1>6, <2>1 DEF illegalHeld
  <2> QED
    BY <1>1, <1>6, <2>4, <2>6, <2>7, <2>8 DEF SquashAwaits
<1>7. CASE ~illegalHeld /\ ~(idIllegalException /\ ~wbMemException)
  <2>1. ~illegalHeld'
    <3>1. CASE wbMemException
      BY <1>1, <1>2, <3>1, NopLegal DEF illegalHeld
    <3>2. CASE ~wbMemException
      BY <1>1, <1>3, <1>7, <3>2, IllegalEnters DEF illegalHeld
    <3> QED
      BY <3>1, <3>2
  <2> QED
    BY <1>1, <1>7, <2>1 DEF SquashAwaits
<1> QED
  BY <1>4, <1>5, <1>6, <1>7

-----------------------------------------------------------------------------
(* AwaitedIsCached is preserved.  Of what IF gives, two things matter: the *)
(* block it delivers or goes to wait for is cached, and what a stall waits *)
(* for is cached.                                                          *)

Delivered(f) == IC!IsHit(f.iCache, IF f.inst.isNop THEN f.PC ELSE f.inst.PC)

Awaited(f) == f.iStallLeft > 0 => IC!IsHit(f.iCache, f.PC)

LEMMA LookupGood ==
  ASSUME TypeOK, NEW target \in Value, NEW hitStatus, NEW missStatus
  PROVE  LET f == Lookup(target, hitStatus, missStatus, 0)
         IN Delivered(f) /\ Awaited(f)
<1> DEFINE f == Lookup(target, hitStatus, missStatus, 0)
<1>1. IC!IsHit(IC!Access(iCache, target), target)
  BY ICacheFacts, ValueIsNat DEF TypeOK
<1>2. CASE IC!IsHit(iCache, target)
  <2>1. /\ f.inst = [SimIF(prog, target) EXCEPT !.status = hitStatus]
        /\ f.iCache = IC!Access(iCache, target)
        /\ f.iStallLeft = 0
    BY <1>2 DEF Lookup
  <2>2. f.inst.PC = target /\ ~f.inst.isNop
    BY <2>1 DEF SimIF, Nop
  <2> QED
    BY <1>1, <2>1, <2>2 DEF Delivered, Awaited
<1>3. CASE ~IC!IsHit(iCache, target)
  <2>1. /\ f.inst = Shown(target, missStatus)
        /\ f.PC = target
        /\ f.iCache = IC!Access(iCache, target)
    BY <1>3 DEF Lookup
  <2>2. f.inst.isNop
    BY <2>1 DEF Shown, Nop
  <2> QED
    BY <1>1, <2>1, <2>2 DEF Delivered, Awaited
<1> QED
  BY <1>2, <1>3

(* IF waits at PC, which has missed. *)
LEMMA WaitGood ==
  ASSUME IC!IsHit(iCache, PC), NEW st
  PROVE  Delivered(Keep(Shown(PC, st))) /\ Awaited(Keep(Shown(PC, st)))
BY DEF Delivered, Awaited, Keep, Shown, Nop

(* IF resumes when no stall is left. *)
LEMMA ResumeGood ==
  ASSUME iStallAfterID = 0
  PROVE  /\ Awaited(Resume)
         /\ IC!IsHit(iCache, PC) => Delivered(Resume)
<1>1. /\ Resume.iStallLeft = iStallAfterID
      /\ Resume.inst = SimIF(prog, PC)
      /\ Resume.iCache = iCache
  BY DEF Resume, Keep
<1>2. ~Resume.inst.isNop /\ Resume.inst.PC = PC
  BY <1>1 DEF SimIF, Nop
<1> QED
  BY <1>1, <1>2 DEF Delivered, Awaited

(* IF keeps what it has. *)
LEMMA KeepGood ==
  ASSUME iStallAfterID = 0, NEW inst, inst.isNop = oldIF.isNop, inst.PC = oldIF.PC
  PROVE  /\ Awaited(Keep(inst))
         /\ IC!IsHit(iCache, IF oldIF.isNop THEN PC ELSE oldIF.PC)
               => Delivered(Keep(inst))
BY DEF Delivered, Awaited, Keep

(* The next state has the illegal instruction in ID. *)
illegalNext ==
  \/ idIllegalException /\ ~wbMemException
  \/ illegalHeld /\ dStallActive

LEMMA FetchGood ==
  ASSUME Inv
  PROVE  Awaited(fetch) /\ (illegalNext \/ Delivered(fetch))
<1>1. PC \in Value /\ Handler \in Value /\ NextPC(idEval) \in Value
  BY StagesAssumption, IDType, NextPCType DEF Inv, TypeOK, Value
<1>2. iStallLeft > 0 \/ justFinishedIStall => IC!IsHit(iCache, PC)
  BY DEF Inv, FetchInvariant, AwaitedIsCached
<1>3. ~illegalHeld /\ cycleCount # 0 =>
        IC!IsHit(iCache, IF oldIF.isNop THEN PC ELSE oldIF.PC)
  BY DEF Inv, TypeOK, FetchInvariant, AwaitedIsCached
<1>4. cycleCount = 0 => oldID.isNop /\ ~dStallActive
  BY DEF Inv, FetchInvariant, AwaitedIsCached, dStallActive
<1>5. iStallActive => iStallLeft > 0
  BY DEF iStallActive, Decrement, Inv, TypeOK
<1>6. ~iStallActive => iStallAfterID = 0
  BY StallOver DEF Inv
<1>7. illegalHeld => ~iStallActive
  BY DEF Inv, FetchInvariant, SquashAwaits, iStallActive, Decrement
<1>8. CASE wbMemException
  BY <1>1, <1>8, LookupGood DEF fetch, Inv
<1>9. CASE ~wbMemException /\ idIllegalException
  <2>1. ~iStallActive
    BY <1>7, <1>9 DEF idIllegalException, illegalInID, illegalHeld, idDecodes
  <2> QED
    BY <1>6, <1>9, <2>1 DEF fetch, FetchPastIllegal, Awaited, illegalNext
<1>10. CASE ~wbMemException /\ ~idIllegalException /\ branchTaken
  <2>1. ~squashNextIF
    BY <1>10, IllegalIsInert DEF Inv, FetchInvariant, SquashAwaits
  <2>2. iStallAfterID = 0
    BY <1>10, <2>1 DEF iStallAfterID
  <2> QED
    BY <1>1, <1>10, <2>2, LookupGood DEF fetch, Inv
<1> DEFINE Free == ~wbMemException /\ ~idIllegalException /\ ~branchTaken
<1>11. CASE Free /\ dStallActive /\ ~iStallActive
  <2>1. illegalNext \/ IC!IsHit(iCache, IF oldIF.isNop THEN PC ELSE oldIF.PC)
    BY <1>3, <1>4, <1>11 DEF illegalNext
  <2>2. fetch = IF oldIF.isNop THEN Resume ELSE Keep(oldIF)
    BY <1>11 DEF fetch
  <2> QED
    BY <1>6, <1>11, <2>1, <2>2, ResumeGood, KeepGood
<1>12. CASE Free /\ ~(dStallActive /\ ~iStallActive) /\ hazardStall
  <2>1. fetch = HoldForHazard
    BY <1>12 DEF fetch
  <2>2. CASE iStallActive
    BY <1>2, <1>5, <2>1, <2>2, WaitGood DEF HoldForHazard
  <2>3. CASE ~iStallActive
    <3>1. ~oldID.isNop
      BY <1>12 DEF hazardStall, loadUseStall, branchDataStall, branchNeedsEX,
                   branchNeedsMEM, idIsBranchLike
    <3>2. IC!IsHit(iCache, IF oldIF.isNop THEN PC ELSE oldIF.PC)
      BY <1>3, <1>4, <1>12, <3>1, IllegalIsInert
    <3>3. PICK inst \in {oldIF, [oldIF EXCEPT !.status = "SPECULATIVE"]} :
            fetch = Keep(inst)
      BY <2>1, <2>3 DEF HoldForHazard
    <3>4. inst.isNop = oldIF.isNop /\ inst.PC = oldIF.PC
      BY <3>3, OldTypes DEF Inv, Instruction
    <3> QED
      BY <1>6, <2>3, <3>2, <3>3, <3>4, KeepGood
  <2> QED
    BY <2>2, <2>3
<1>13. CASE Free /\ ~hazardStall /\ iStallActive
  BY <1>2, <1>5, <1>13, WaitGood DEF fetch
<1>14. CASE Free /\ ~dStallActive /\ ~hazardStall /\ ~iStallActive
  <2>1. CASE justFinishedIStall
    BY <1>2, <1>6, <1>14, <2>1, ResumeGood DEF fetch
  <2>2. CASE ~justFinishedIStall
    BY <1>1, <1>6, <1>14, <2>2, LookupGood DEF fetch, Inv
  <2> QED
    BY <2>1, <2>2
<1> QED
  BY <1>8, <1>9, <1>10, <1>11, <1>12, <1>13, <1>14

LEMMA AwaitedIsCachedStep ==
  ASSUME Inv, RunCycle
  PROVE  AwaitedIsCached'
<1>1. /\ oldIF' = fetch.inst /\ PC' = fetch.PC
      /\ iCache' = fetch.iCache /\ iStallLeft' = fetch.iStallLeft
      /\ oldID' = Unless(wbMemException, newID)
      /\ justFinishedIStall' = onlyIStall
      /\ cycleCount' = cycleCount + 1
  BY DEF RunCycle, oldIF, oldID
<1>2. Awaited(fetch) /\ (illegalNext \/ Delivered(fetch))
  BY FetchGood
<1>3. onlyIStall => IC!IsHit(iCache', PC')
  <2> SUFFICES ASSUME onlyIStall
               PROVE  IC!IsHit(iCache', PC')
    OBVIOUS
  <2>1. iStallLeft > 0
    BY DEF onlyIStall, iStallActive, Decrement, Inv, TypeOK
  <2>2. IC!IsHit(iCache, PC)
    BY <2>1 DEF Inv, FetchInvariant, AwaitedIsCached
  <2>3. fetch = Keep(Shown(PC, "NORMAL"))
    BY DEF onlyIStall, idFrozen, fetch
  <2> QED
    BY <1>1, <2>2, <2>3 DEF Keep
<1>4. illegalNext => illegalHeld'
  <2>1. CASE illegalHeld /\ dStallActive
    BY <1>1, <2>1, IllegalStays DEF illegalHeld, Unless
  <2>2. CASE illegalHeld /\ ~dStallActive
    BY <2>2, IllegalLeaves DEF illegalNext
  <2>3. CASE ~illegalHeld
    BY <1>1, <2>3, IllegalEnters DEF illegalNext, illegalHeld, Unless
  <2> QED
    BY <2>1, <2>2, <2>3
<1>5. ~illegalHeld' => IC!IsHit(iCache', IF oldIF'.isNop THEN PC' ELSE oldIF'.PC)
  BY <1>1, <1>2, <1>4 DEF Delivered
<1>6. iStallLeft' > 0 => IC!IsHit(iCache', PC')
  BY <1>1, <1>2 DEF Awaited
<1>7. cycleCount' # 0
  BY <1>1 DEF Inv, TypeOK
<1> QED
  BY <1>1, <1>3, <1>5, <1>6, <1>7 DEF AwaitedIsCached

-----------------------------------------------------------------------------
(* Both are kept while no illegal word is decoded with an access in EX. *)

LEMMA InvInit == Init => Inv
<1> SUFFICES ASSUME Init
             PROVE  Inv
  OBVIOUS
<1>1. TypeOK
  BY InitType
<1>2. oldIF = Nop("IDLE") /\ oldID = Nop("IDLE")
  BY DEF Init, oldIF, oldID
<1>3. SquashAwaits
  BY <1>2, NopLegal DEF Init, SquashAwaits, illegalHeld
<1>4. AwaitedIsCached
  BY <1>2, NopLegal DEF Init, AwaitedIsCached
<1> QED
  BY <1>1, <1>3, <1>4 DEF Inv, FetchInvariant

LEMMA InvStep == Inv /\ QuietDecode /\ [Next]_vars => Inv'
<1> SUFFICES ASSUME Inv, QuietDecode, [Next]_vars
             PROVE  Inv'
  OBVIOUS
<1>1. CASE RunCycle
  <2>1. TypeOK'
    BY <1>1, RunCycleType DEF Inv
  <2> QED
    BY <1>1, <2>1, SquashAwaitsStep, AwaitedIsCachedStep
       DEF Inv, FetchInvariant
<1>2. CASE UNCHANGED vars
  BY <1>2 DEF vars, Inv, TypeOK, FetchInvariant, SquashAwaits, AwaitedIsCached,
              illegalHeld, oldIF, oldID
<1> QED
  BY <1>1, <1>2 DEF Next, Halted

-----------------------------------------------------------------------------
(* The place and the word of every stage.                                  *)


(* The address whose instruction IF gives, now or when a stall is over. *)
ifPC == IF oldIF.isNop THEN PC ELSE oldIF.PC

FrontOf(f) == IF f.inst.isNop THEN f.PC ELSE f.inst.PC

(* The oldest instruction that has not reached EX. *)
frontPC ==
  IF ~oldID.isNop /\ IsLegal(oldID) THEN oldID.PC
  ELSE IF ~oldID.isNop \/ squashNextIF THEN Handler
  ELSE ifPC

FetchedWord(i) ==
  IF i.isNop THEN i.word.op = "NOP" ELSE i.word = FetchWord(prog, i.PC)

(* A stage holds the word of its address or nothing; a NOP is nothing from *)
(* ID on, an illegal word from EX on, and only an access has an exception. *)
WordsFetched ==
  /\ FetchedWord(oldIF) /\ FetchedWord(oldID)
  /\ FetchedWord(oldEX) /\ FetchedWord(oldMEM)
  /\ oldID.word.op = "NOP" => oldID.isNop
  /\ oldEX.word.op = "NOP" => oldEX.isNop
  /\ IsLegal(oldEX) /\ IsLegal(oldMEM)
  /\ ~oldEX.isNop => oldEX.status = "NORMAL"
  /\ oldMEM.memException => AccessesMem(oldMEM)

(* PC is the address behind the instruction in IF; IF is empty while it    *)
(* waits and next to an illegal instruction.                               *)
FetchPlace ==
  /\ ~oldIF.isNop => PC = FallThrough(oldIF.PC)
  /\ iStallLeft > 0 => oldIF.isNop
  /\ squashNextIF => oldIF.isNop /\ PC = Handler

(* IF comes after the instruction in ID, and what is behind EX is where    *)
(* the instruction in EX leads.                                            *)
Chained ==
  /\ ~oldID.isNop /\ IsLegal(oldID) =>
       Settled(prog, ifPC) = Settled(prog, FallThrough(oldID.PC))
  /\ ~oldEX.isNop =>
       \E t \in Targets(prog, oldEX.PC) :
         Settled(prog, frontPC) = Settled(prog, t)

(* Neither is more than two words behind an access or a HALT in EX, the    *)
(* second of them behind a word or a NOP in ID.  In EX directly behind one *)
(* that faults, or behind HALT, is the next word or nothing.               *)
AccessFollowed ==
  /\ ~oldID.isNop /\ IsLegal(oldID) => ifPC = FallThrough(oldID.PC)
  /\ ~oldEX.isNop /\ (AccessesMem(oldEX) \/ IsHalt(oldEX)) =>
       IF oldID.isNop
         THEN \/ ifPC = FallThrough(oldEX.PC)
              \/ ifPC = FallThrough(FallThrough(oldEX.PC))
         ELSE IsLegal(oldID) => oldID.PC = FallThrough(oldEX.PC)
  /\ ~oldEX.isNop /\ (memFault \/ IsHalt(oldMEM)) =>
       oldEX.PC = FallThrough(oldMEM.PC)

(* After the HALT of WB there is no cycle. *)
Running == status = "SUCCESS" => ~IsHalt(oldWB)

PathInv == WordsFetched /\ FetchPlace /\ Chained /\ Running

-----------------------------------------------------------------------------
(* ControlPath is instantiated with the operators of the pipeline.         *)

LEMMA SameWords ==
  /\ Path!Value = Value
  /\ Path!Word = Word
  /\ \A n : Path!Wrap(n) = Wrap(n)
  /\ \A a : Path!FallThrough(a) = FallThrough(a)
  /\ \A p, a : Path!FetchWord(p, a) = FetchWord(p, a)
BY DEF Path!Value, Value, Path!Word, Word, Path!Operation, Operation, Path!Reg,
       Reg, Path!Wrap, Wrap, Path!FallThrough, FallThrough, Path!FetchWord,
       FetchWord, Path!PlainWord, PlainWord

LEMMA SameInstructions ==
  /\ \A p, a : Path!SimIF(p, a) = SimIF(p, a)
  /\ \A i : Path!IsHalt(i) = IsHalt(i)
  /\ \A i : Path!AccessesMem(i) = AccessesMem(i)
  /\ \A i : Path!IsBranch(i) = IsBranch(i)
BY SameWords, Zenon
   DEF Path!SimIF, SimIF, Path!Nop, Nop, Path!PlainWord, PlainWord,
       Path!IsHalt, IsHalt, Path!AccessesMem, AccessesMem, Path!ReadsMem,
       ReadsMem, Path!WritesMem, WritesMem, Path!IsBranch, IsBranch

LEMMA SamePassOver ==
  \A p, a : Path!PassOver(p, a) = PassOver(p, a)
BY SameWords, Zenon DEF Path!PassOver, PassOver

LEMMA SameSettled ==
  \A p, a : Path!Settled(p, a) = Settled(p, a)
<1> SUFFICES ASSUME NEW p, NEW a
             PROVE  Path!Settled(p, a) = Settled(p, a)
  OBVIOUS
<1> DEFINE pathPast == [b \in Path!Value |-> Path!PassOver(p, b)]
           past == [b \in Value |-> PassOver(p, b)]
<1>1. pathPast = past
  BY SameWords, SamePassOver, Zenon
<1>2. Settled(p, a) = WalkOver(past, a)
  BY SettledWalksOver
<1>3. Path!Settled(p, a) = WalkOver(pathPast, a)
  BY Zenon DEF Path!Settled, WalkOver
<1> QED
  BY <1>1, <1>2, <1>3, Zenon

LEMMA SameTargets ==
  \A p, a : Path!Targets(p, a) = Targets(p, a)
BY SameWords, SameInstructions, Zenon DEF Path!Targets, Targets

-----------------------------------------------------------------------------
(* What the stages keep: the word and the address of an instruction.       *)

LEMMA KeptByID ==
  ASSUME NEW i \in Instruction, NEW rf
  PROVE  /\ SimID(i, rf).word = i.word
         /\ SimID(i, rf).PC = i.PC
         /\ SimID(i, rf).isNop = (i.word.op = "NOP")
BY DEF SimID, Instruction

LEMMA KeptByEX ==
  ASSUME NEW i \in Instruction
  PROVE  /\ SimEX(i).word = i.word
         /\ SimEX(i).PC = i.PC
         /\ SimEX(i).isNop = i.isNop
         /\ SimEX(i).status = "NORMAL"
BY DEF SimEX, Instruction

LEMMA KeptByMEM ==
  ASSUME NEW i \in Instruction, NEW m
  PROVE  /\ SimMEM(i, m).word = i.word
         /\ SimMEM(i, m).PC = i.PC
         /\ SimMEM(i, m).isNop = i.isNop
         /\ SimMEM(i, m).memException = Faults(i)
BY DEF SimMEM, Instruction

(* Forwarding changes operands only. *)
LEMMA KeptByForwarding ==
  ASSUME TypeOK
  PROVE  /\ exInput.word = oldID.word /\ exInput.PC = oldID.PC
         /\ exInput.isNop = oldID.isNop
         /\ idEval.word = oldID.word /\ idEval.PC = oldID.PC
         /\ memInput.word = oldEX.word /\ memInput.PC = oldEX.PC
         /\ memInput.isNop = oldEX.isNop
         /\ exInput \in Instruction /\ memInput \in Instruction
<1>1. \A r, val : val \in Value => ForwardToEX(r, val) \in Value
  BY OldTypes, ResultType DEF ForwardToEX, Instruction
<1>2. exInput \in Instruction
  BY <1>1, OldTypes DEF exInput, Instruction
<1>3. memInput \in Instruction
  BY OldTypes, ResultType DEF memInput, Instruction
<1>4. /\ exInput.word = oldID.word /\ exInput.PC = oldID.PC
      /\ exInput.isNop = oldID.isNop
  BY OldTypes DEF exInput, Instruction
<1>5. idEval.word = oldID.word /\ idEval.PC = oldID.PC
  BY OldTypes DEF idEval, Instruction
<1>6. /\ memInput.word = oldEX.word /\ memInput.PC = oldEX.PC
      /\ memInput.isNop = oldEX.isNop
  BY OldTypes DEF memInput, Instruction
<1> QED
  BY <1>2, <1>3, <1>4, <1>5, <1>6

LEMMA NopHolds ==
  ASSUME NEW st
  PROVE  /\ Nop(st).isNop
         /\ Nop(st).word.op = "NOP"
         /\ ~Nop(st).memException
         /\ IsLegal(Nop(st)) /\ ~IsHalt(Nop(st))
         /\ FetchedWord(Nop(st))
BY DEF Nop, PlainWord, IsLegal, IsHalt, FetchedWord

(* The word fetched at an address is what control does there. *)
LEMMA PassOverWord ==
  ASSUME NEW i, i.word = FetchWord(prog, i.PC)
  PROVE  PassOver(prog, i.PC) =
           IF i.word.op = "NOP" THEN FallThrough(i.PC)
           ELSE IF i.word.op = "ILLEGAL" THEN Handler
           ELSE i.PC
BY DEF PassOver

(* A resolved branch goes to a target of its word. *)
LEMMA NextInTargets ==
  ASSUME NEW i \in Instruction, i.word = FetchWord(prog, i.PC)
  PROVE  NextPC(i) \in Targets(prog, i.PC)
<1> DEFINE f == SimIF(prog, i.PC)
           sum == Wrap(i.op1Val + i.word.imm)
<1>1. f.word = i.word
  BY DEF SimIF, Nop
<1>2. sum \in Value
  BY SumType DEF Instruction, Word
<1>3. sum - (sum % 2) \in {v \in Value : v % 2 = 0}
  BY <1>2, StagesAssumption DEF Value
<1> HIDE DEF f, sum
<1>4. CASE i.word.op = "JALR"
  <2>1. NextPC(i) = sum - (sum % 2)
    BY <1>4 DEF NextPC, sum
  <2>2. Targets(prog, i.PC) = {v \in Value : v % 2 = 0}
    BY <1>1, <1>4 DEF Targets, f
  <2> QED
    BY <1>3, <2>1, <2>2
<1>5. CASE i.word.op = "JAL"
  BY <1>1, <1>5 DEF NextPC, Targets, f
<1>6. CASE i.word.op \notin {"JAL", "JALR"}
  BY <1>1, <1>6 DEF NextPC, Targets, BranchCondition, IsBranch, f
<1> QED
  BY <1>4, <1>5, <1>6

-----------------------------------------------------------------------------
(* IF.                                                                     *)

Placed(f) ==
  /\ FetchedWord(f.inst)
  /\ ~f.inst.isNop => f.PC = FallThrough(f.inst.PC)
  /\ f.iStallLeft > 0 => f.inst.isNop

LEMMA LookupPlaced ==
  ASSUME NEW target, NEW hitStatus, NEW missStatus, NEW stall, ~(stall > 0)
  PROVE  LET f == Lookup(target, hitStatus, missStatus, stall)
         IN Placed(f) /\ FrontOf(f) = target
<1> DEFINE f == Lookup(target, hitStatus, missStatus, stall)
<1>1. CASE IC!IsHit(iCache, target)
  <2>1. /\ f.inst = [SimIF(prog, target) EXCEPT !.status = hitStatus]
        /\ f.PC = FallThrough(target)
        /\ f.iStallLeft = stall
    BY <1>1 DEF Lookup
  <2>2. /\ f.inst.PC = target /\ ~f.inst.isNop
        /\ f.inst.word = FetchWord(prog, target)
    BY <2>1 DEF SimIF, Nop
  <2> QED
    BY <2>1, <2>2 DEF Placed, FetchedWord, FrontOf
<1>2. CASE ~IC!IsHit(iCache, target)
  <2>1. f.inst = Shown(target, missStatus) /\ f.PC = target
    BY <1>2 DEF Lookup
  <2>2. f.inst.isNop /\ f.inst.word.op = "NOP"
    BY <2>1 DEF Shown, Nop, PlainWord
  <2> QED
    BY <2>1, <2>2 DEF Placed, FetchedWord, FrontOf
<1> QED
  BY <1>1, <1>2

LEMMA WaitPlaced ==
  ASSUME NEW st
  PROVE  /\ Placed(Keep(Shown(PC, st)))
         /\ FrontOf(Keep(Shown(PC, st))) = PC
BY DEF Placed, FetchedWord, FrontOf, Keep, Shown, Nop, PlainWord

LEMMA ResumePlaced ==
  ASSUME ~(iStallAfterID > 0)
  PROVE  Placed(Resume) /\ FrontOf(Resume) = PC
<1>1. /\ Resume.inst = SimIF(prog, PC)
      /\ Resume.PC = FallThrough(PC)
      /\ Resume.iStallLeft = iStallAfterID
  BY DEF Resume, Keep
<1>2. /\ ~Resume.inst.isNop /\ Resume.inst.PC = PC
      /\ Resume.inst.word = FetchWord(prog, PC)
  BY <1>1 DEF SimIF, Nop
<1> QED
  BY <1>1, <1>2 DEF Placed, FetchedWord, FrontOf

LEMMA KeepPlaced ==
  ASSUME ~(iStallAfterID > 0), PathInv, NEW inst,
         inst.isNop = oldIF.isNop, inst.PC = oldIF.PC, inst.word = oldIF.word
  PROVE  Placed(Keep(inst)) /\ FrontOf(Keep(inst)) = ifPC
BY DEF Placed, FetchedWord, FrontOf, Keep, PathInv, WordsFetched, FetchPlace, ifPC

(* Where IF goes in a cycle. *)
fetchGoesTo ==
  IF wbMemException \/ idIllegalException THEN Handler
  ELSE IF branchTaken THEN NextPC(idEval)
  ELSE IF idFrozen THEN ifPC
  ELSE PC

LEMMA FetchPlaced ==
  ASSUME Inv, PathInv
  PROVE  /\ Placed(fetch)
         /\ FrontOf(fetch) = fetchGoesTo
         /\ idIllegalException /\ ~wbMemException =>
              fetch.inst.isNop /\ fetch.PC = Handler
<1>1. iStallActive => ifPC = PC
  BY DEF iStallActive, Decrement, ifPC, Inv, TypeOK, PathInv, FetchPlace
<1>2. ~iStallActive => ~(iStallAfterID > 0)
  BY StallOver DEF Inv
<1>3. branchTaken => ~idIllegalException /\ ~wbMemException /\ ~(iStallAfterID > 0)
  <2>1. branchTaken => ~squashNextIF
    BY IllegalIsInert DEF Inv, FetchInvariant, SquashAwaits
  <2>2. branchTaken => ~idIllegalException
    BY DEF branchTaken, idIllegalException, idDecodes
  <2>3. branchTaken => ~wbMemException
    BY DEF branchTaken
  <2> QED
    BY <2>1, <2>2, <2>3 DEF iStallAfterID
<1>4. CASE wbMemException
  BY <1>4, LookupPlaced DEF fetch, fetchGoesTo
<1>5. CASE ~wbMemException /\ idIllegalException
  <2>1. fetch = FetchPastIllegal
    BY <1>5 DEF fetch
  <2>2. /\ fetch.inst.isNop /\ fetch.PC = Handler
        /\ fetch.inst.word.op = "NOP"
    BY <2>1 DEF FetchPastIllegal, Shown, Nop, PlainWord
  <2> QED
    BY <1>5, <2>2 DEF Placed, FetchedWord, FrontOf, fetchGoesTo
<1>6. CASE branchTaken
  <2>1. fetch = Lookup(NextPC(idEval), "NORMAL", "IDLE", iStallAfterID)
    BY <1>3, <1>6 DEF fetch
  <2> QED
    BY <1>3, <1>6, <2>1, LookupPlaced DEF fetchGoesTo
<1> DEFINE Free == ~wbMemException /\ ~idIllegalException /\ ~branchTaken
<1>7. CASE Free /\ dStallActive /\ ~iStallActive
  <2>1. fetch = IF oldIF.isNop THEN Resume ELSE Keep(oldIF)
    BY <1>7 DEF fetch
  <2>2. fetchGoesTo = ifPC
    BY <1>7 DEF fetchGoesTo, idFrozen
  <2>3. CASE oldIF.isNop
    BY <1>2, <1>7, <2>1, <2>2, <2>3, ResumePlaced DEF ifPC
  <2>4. CASE ~oldIF.isNop
    BY <1>2, <1>7, <2>1, <2>2, <2>4, KeepPlaced
  <2> QED
    BY <1>7, <2>3, <2>4
<1>8. CASE Free /\ ~(dStallActive /\ ~iStallActive) /\ hazardStall
  <2>1. fetch = HoldForHazard
    BY <1>8 DEF fetch
  <2>2. fetchGoesTo = ifPC
    BY <1>8 DEF fetchGoesTo, idFrozen
  <2>3. CASE iStallActive
    BY <1>1, <1>8, <2>1, <2>2, <2>3, WaitPlaced DEF HoldForHazard
  <2>4. CASE ~iStallActive
    <3>1. PICK inst \in {oldIF, [oldIF EXCEPT !.status = "SPECULATIVE"]} :
            fetch = Keep(inst)
      BY <2>1, <2>4 DEF HoldForHazard
    <3>2. /\ inst.isNop = oldIF.isNop /\ inst.PC = oldIF.PC
          /\ inst.word = oldIF.word
      BY <3>1, OldTypes DEF Inv, Instruction
    <3> QED
      BY <1>2, <1>8, <2>2, <2>4, <3>1, <3>2, KeepPlaced
  <2> QED
    BY <2>3, <2>4
<1>9. CASE Free /\ ~hazardStall /\ iStallActive
  <2>1. fetch = Keep(Shown(PC, "NORMAL"))
    BY <1>9 DEF fetch
  <2>2. fetchGoesTo = PC
    BY <1>1, <1>9 DEF fetchGoesTo
  <2> QED
    BY <1>9, <2>1, <2>2, WaitPlaced
<1>10. CASE Free /\ ~dStallActive /\ ~hazardStall /\ ~iStallActive
  <2>1. fetchGoesTo = PC
    BY <1>10 DEF fetchGoesTo, idFrozen
  <2>2. CASE justFinishedIStall
    <3>1. fetch = Resume
      BY <1>10, <2>2 DEF fetch
    <3> QED
      BY <1>2, <1>10, <2>1, <3>1, ResumePlaced
  <2>3. CASE ~justFinishedIStall
    <3>1. PICK st : fetch = Lookup(PC, st, "NORMAL", iStallAfterID)
      BY <1>10, <2>3 DEF fetch
    <3> QED
      BY <1>2, <1>10, <2>1, <3>1, LookupPlaced
  <2> QED
    BY <2>2, <2>3
<1> QED
  BY <1>4, <1>5, <1>6, <1>7, <1>8, <1>9, <1>10

-----------------------------------------------------------------------------
(* ID, EX and MEM: what they take from the stage behind them.              *)

LEMMA IDTakes ==
  ASSUME Inv, ~idFrozen
  PROVE  /\ idDecodes => /\ newID.word = oldIF.word /\ newID.PC = oldIF.PC
                         /\ newID.isNop = (oldIF.word.op = "NOP")
         /\ ~idDecodes => newID.isNop /\ newID.word.op = "NOP"
<1>1. idDecodes => newID = SimID(oldIF, newRegs)
  BY DEF newID, idDecodes
<1>2. ~idDecodes => \E st : newID = Nop(st)
  BY DEF newID, idDecodes
<1> QED
  BY <1>1, <1>2, OldTypes, KeptByID, NopHolds DEF Inv

(* The instruction in ID goes to EX. *)
idMovesOn == ~idFrozen /\ ~oldID.isNop /\ IsLegal(oldID)

LEMMA EXTakes ==
  ASSUME Inv, PathInv, ~dStallActive
  PROVE  /\ idMovesOn => /\ newEX.word = oldID.word /\ newEX.PC = oldID.PC
                         /\ ~newEX.isNop /\ newEX.status = "NORMAL"
         /\ ~idMovesOn => newEX.isNop /\ newEX.word.op = "NOP"
<1>1. CASE idMovesOn
  <2>1. newEX = SimEX(exInput)
    BY <1>1 DEF newEX, idMovesOn, idFrozen
  <2> QED
    BY <1>1, <2>1, KeptByForwarding, KeptByEX DEF Inv, idMovesOn
<1>2. CASE ~idMovesOn
  <2>1. (\E st : newEX = Nop(st)) \/ (newEX = oldID /\ oldID.isNop)
    BY <1>2 DEF newEX, idMovesOn, idFrozen
  <2>2. oldID.isNop => oldID.word.op = "NOP"
    BY DEF PathInv, WordsFetched, FetchedWord
  <2> QED
    BY <1>2, <2>1, <2>2, NopHolds
<1> QED
  BY <1>1, <1>2

LEMMA MEMTakes ==
  ASSUME Inv, PathInv, ~dStallActive
  PROVE  /\ ~oldEX.isNop => /\ newMEM.word = oldEX.word
                            /\ newMEM.PC = oldEX.PC
                            /\ ~newMEM.isNop
                            /\ newMEM.memException = Faults(memInput)
         /\ oldEX.isNop => /\ newMEM.isNop /\ newMEM.word.op = "NOP"
                           /\ ~newMEM.memException
<1>1. CASE ~oldEX.isNop
  <2>1. oldEX.status = "NORMAL"
    BY <1>1 DEF PathInv, WordsFetched
  <2>2. newMEM = SimMEM(memInput, mem)
    BY <1>1, <2>1 DEF newMEM, memAccepts
  <2> QED
    BY <1>1, <2>2, KeptByForwarding, KeptByMEM DEF Inv
<1>2. CASE oldEX.isNop
  <2>1. \E st : newMEM = Nop(st)
    BY <1>2 DEF newMEM, memAccepts
  <2> QED
    BY <1>2, <2>1, NopHolds
<1> QED
  BY <1>1, <1>2

(* A cycle in the terms of the proof. *)
LEMMA CycleEffect ==
  ASSUME RunCycle
  PROVE  /\ status = "SUCCESS" /\ prog' = prog
         /\ oldIF' = fetch.inst /\ PC' = fetch.PC
         /\ iStallLeft' = fetch.iStallLeft
         /\ oldID' = Unless(wbMemException, newID)
         /\ oldEX' = Unless(wbMemException, newEX)
         /\ oldMEM' = Unless(wbMemException, newMEM)
         /\ oldWB' = newWB
         /\ squashNextIF' = (idIllegalException /\ ~wbMemException)
         /\ dynRetired' = IF retires THEN dynRetired + 1 ELSE dynRetired
         /\ status' = IF IsHalt(newWB) THEN "HALT" ELSE "SUCCESS"
         /\ ifPC' = FrontOf(fetch)
BY DEF RunCycle, oldIF, oldID, oldEX, oldMEM, oldWB, ifPC, FrontOf

(* MEM is legal, so that WB takes only memory exceptions. *)
LEMMA OnlyMemoryFaults ==
  ASSUME PathInv
  PROVE  wbMemException <=> ~dStallActive /\ memFault
BY DEF wbMemException, PathInv, WordsFetched

LEMMA WordsFetchedStep ==
  ASSUME Inv, PathInv, RunCycle
  PROVE  WordsFetched'
<1>1. FetchedWord(fetch.inst)
  BY FetchPlaced DEF Placed
<1> DEFINE Good(i) == FetchedWord(i) /\ (i.word.op = "NOP" => i.isNop)
           GoodEX(i) == /\ Good(i) /\ IsLegal(i)
                        /\ ~i.isNop => i.status = "NORMAL"
           GoodMEM(i) == /\ FetchedWord(i) /\ IsLegal(i)
                         /\ i.memException => AccessesMem(i)
<1>2. \A st : Good(Nop(st)) /\ GoodEX(Nop(st)) /\ GoodMEM(Nop(st))
  BY NopHolds
<1>3. Good(newID)
  <2>1. CASE idFrozen
    BY <2>1 DEF newID, PathInv, WordsFetched
  <2>2. CASE ~idFrozen /\ idDecodes
    <3>1. ~oldIF.isNop
      BY <2>2 DEF idDecodes
    <3>2. oldIF.word = FetchWord(prog, oldIF.PC)
      BY <3>1 DEF PathInv, WordsFetched, FetchedWord
    <3> QED
      BY <2>2, <3>2, IDTakes DEF FetchedWord
  <2>3. CASE ~idFrozen /\ ~idDecodes
    BY <2>3, IDTakes DEF FetchedWord
  <2> QED
    BY <2>1, <2>2, <2>3
<1>4. GoodEX(newEX)
  <2>1. CASE dStallActive
    BY <2>1 DEF newEX, PathInv, WordsFetched
  <2>2. CASE ~dStallActive /\ idMovesOn
    <3>1. oldID.word = FetchWord(prog, oldID.PC)
      BY <2>2 DEF idMovesOn, PathInv, WordsFetched, FetchedWord
    <3>2. oldID.word.op # "NOP" /\ IsLegal(oldID)
      BY <2>2 DEF idMovesOn, PathInv, WordsFetched
    <3> QED
      BY <2>2, <3>1, <3>2, EXTakes DEF FetchedWord, IsLegal
  <2>3. CASE ~dStallActive /\ ~idMovesOn
    BY <2>3, EXTakes DEF FetchedWord, IsLegal
  <2> QED
    BY <2>1, <2>2, <2>3
<1>5. GoodMEM(newMEM)
  <2>1. CASE dStallActive
    BY <2>1 DEF newMEM, PathInv, WordsFetched
  <2>2. CASE ~dStallActive /\ ~oldEX.isNop
    <3>1. oldEX.word = FetchWord(prog, oldEX.PC) /\ IsLegal(oldEX)
      BY <2>2 DEF PathInv, WordsFetched, FetchedWord
    <3>2. Faults(memInput) => AccessesMem(oldEX)
      BY KeptByForwarding
         DEF Faults, AccessesMem, ReadsMem, WritesMem, Inv
    <3> QED
      BY <2>2, <3>1, <3>2, MEMTakes
         DEF FetchedWord, IsLegal, AccessesMem, ReadsMem, WritesMem
  <2>3. CASE ~dStallActive /\ oldEX.isNop
    BY <2>3, MEMTakes DEF FetchedWord, IsLegal
  <2> QED
    BY <2>1, <2>2, <2>3
<1>6. /\ FetchedWord(oldIF') /\ Good(oldID') /\ GoodEX(oldEX') /\ GoodMEM(oldMEM')
  BY <1>1, <1>2, <1>3, <1>4, <1>5, CycleEffect, Zenon DEF Unless
<1> QED
  BY <1>6, CycleEffect DEF WordsFetched, FetchedWord, FetchWord, IsLegal,
                           AccessesMem, ReadsMem, WritesMem

LEMMA FetchPlaceStep ==
  ASSUME Inv, PathInv, RunCycle
  PROVE  FetchPlace'
BY CycleEffect, FetchPlaced DEF FetchPlace, Placed

LEMMA RunningStep ==
  ASSUME RunCycle
  PROVE  Running'
BY CycleEffect DEF Running, IsHalt

-----------------------------------------------------------------------------
(* Where the front of the pipeline is after a cycle.                       *)

LEMMA FrontFlushed ==
  ASSUME Inv, PathInv, RunCycle, wbMemException
  PROVE  /\ oldID'.isNop /\ oldEX'.isNop /\ oldMEM'.isNop
         /\ frontPC' = Handler
<1>1. oldID'.isNop /\ oldEX'.isNop /\ oldMEM'.isNop /\ ~squashNextIF'
  BY CycleEffect, NopHolds DEF Unless
<1>2. ifPC' = Handler
  BY CycleEffect, FetchPlaced DEF fetchGoesTo
<1> QED
  BY <1>1, <1>2 DEF frontPC

(* While ID is held the front stays. *)
LEMMA FrontHeld ==
  ASSUME Inv, PathInv, RunCycle, ~wbMemException, idFrozen
  PROVE  /\ oldID' = oldID
         /\ frontPC' = frontPC
         /\ ~illegalHeld => ifPC' = ifPC
<1>1. oldID' = oldID
  BY CycleEffect DEF Unless, newID
<1>2. ~branchTaken /\ ~idDecodes
  BY DEF branchTaken, idFrozen, idDecodes
<1>3. idIllegalException <=> illegalInID
  BY <1>2 DEF idIllegalException
<1>4. ~illegalHeld => ~squashNextIF /\ ~idIllegalException
  BY <1>3 DEF Inv, FetchInvariant, SquashAwaits, illegalInID, illegalHeld
<1>5. ~illegalHeld => ifPC' = ifPC /\ ~squashNextIF'
  BY <1>2, <1>4, CycleEffect, FetchPlaced DEF fetchGoesTo
<1>6. CASE illegalHeld
  BY <1>1, <1>6 DEF frontPC, illegalHeld, IsLegal
<1>7. CASE ~illegalHeld
  BY <1>1, <1>4, <1>5, <1>7 DEF frontPC, illegalHeld, IsLegal
<1> QED
  BY <1>1, <1>5, <1>6, <1>7

(* A taken branch leaves only its target in front. *)
LEMMA FrontBranches ==
  ASSUME Inv, PathInv, RunCycle, branchTaken
  PROVE  oldID'.isNop /\ frontPC' = NextPC(idEval)
<1>1. ~wbMemException /\ ~idFrozen /\ ~idDecodes /\ ~idIllegalException
  BY DEF branchTaken, idFrozen, idDecodes, idIllegalException
<1>2. oldID'.isNop
  BY <1>1, CycleEffect, IDTakes DEF Unless
<1>3. ifPC' = NextPC(idEval) /\ ~squashNextIF'
  BY <1>1, CycleEffect, FetchPlaced DEF fetchGoesTo
<1> QED
  BY <1>2, <1>3 DEF frontPC

(* Otherwise ID takes what IF has, past a word that does nothing. *)
LEMMA FrontMoves ==
  ASSUME Inv, PathInv, RunCycle, Settles(prog),
         ~wbMemException, ~idFrozen, ~branchTaken
  PROVE  /\ illegalHeld => oldID'.isNop /\ frontPC' = Handler
         /\ ~illegalHeld => Settled(prog, frontPC') = Settled(prog, ifPC)
         /\ ~oldID'.isNop /\ IsLegal(oldID)' =>
              /\ idDecodes /\ oldID'.PC = oldIF.PC
              /\ ifPC' = FallThrough(oldIF.PC)
<1>1. oldID' = newID /\ squashNextIF' = idIllegalException
  BY CycleEffect DEF Unless, idIllegalException, illegalInID, idDecodes
<1>2. ifPC' = IF idIllegalException THEN Handler ELSE PC
  BY CycleEffect, FetchPlaced DEF fetchGoesTo
<1>3. idDecodes => /\ ~oldIF.isNop /\ ifPC = oldIF.PC
                   /\ PC = FallThrough(oldIF.PC)
                   /\ oldIF.word = FetchWord(prog, oldIF.PC)
                   /\ oldIF.PC \in Value
  BY OldTypes DEF idDecodes, ifPC, PathInv, WordsFetched, FetchedWord,
                  FetchPlace, Inv, Instruction
<1>4. CASE illegalHeld
  <2>1. ~dStallActive
    BY DEF idFrozen
  <2>2. squashNextIF /\ newID = Nop("SQUASHED") /\ ~idIllegalException
    BY <1>4, <2>1, IllegalLeaves
  <2>3. PC = Handler
    BY <2>2 DEF PathInv, FetchPlace
  <2>4. oldID'.isNop /\ frontPC' = Handler
    BY <1>1, <1>2, <2>2, <2>3, NopHolds DEF frontPC
  <2> QED
    BY <1>4, <2>4
<1>5. CASE ~illegalHeld /\ ~idDecodes
  <2>1. ~squashNextIF /\ ~idIllegalException /\ newID.isNop
    BY <1>5, IllegalEnters, IDTakes
  <2>2. oldIF.isNop
    BY <1>5, <2>1 DEF idDecodes, iStallActive, Decrement, PathInv, FetchPlace,
                      Inv, TypeOK
  <2>3. frontPC' = PC /\ ifPC = PC
    BY <1>1, <1>2, <2>1, <2>2 DEF frontPC, ifPC
  <2> QED
    BY <1>1, <1>5, <2>1, <2>3
<1>6. CASE ~illegalHeld /\ idDecodes
  <2>1. /\ newID.word = oldIF.word /\ newID.PC = oldIF.PC
        /\ newID.isNop = (oldIF.word.op = "NOP")
    BY <1>6, IDTakes
  <2>2. idIllegalException <=> oldIF.word.op = "ILLEGAL"
    BY <1>6, <2>1, IllegalEnters DEF IsLegal
  <2>3. PassOver(prog, oldIF.PC) =
          IF oldIF.word.op = "NOP" THEN FallThrough(oldIF.PC)
          ELSE IF oldIF.word.op = "ILLEGAL" THEN Handler
          ELSE oldIF.PC
    BY <1>3, <1>6, PassOverWord
  <2>4. IsLegal(oldID)' <=> oldIF.word.op # "ILLEGAL"
    BY <1>1, <2>1 DEF IsLegal
  <2>5. CASE oldIF.word.op = "NOP"
    <3>1. frontPC' = PassOver(prog, oldIF.PC)
      BY <1>1, <1>2, <1>3, <1>6, <2>1, <2>2, <2>3, <2>5 DEF frontPC
    <3> QED
      BY <1>1, <1>3, <1>6, <2>1, <2>5, <3>1, SettledPasses
  <2>6. CASE oldIF.word.op = "ILLEGAL"
    <3>1. frontPC' = PassOver(prog, oldIF.PC)
      BY <1>1, <2>1, <2>3, <2>4, <2>6 DEF frontPC
    <3> QED
      BY <1>3, <1>6, <2>4, <2>6, <3>1, SettledPasses
  <2>7. CASE oldIF.word.op \notin {"NOP", "ILLEGAL"}
    <3>1. frontPC' = oldIF.PC
      BY <1>1, <2>1, <2>4, <2>7 DEF frontPC
    <3>2. ifPC' = FallThrough(oldIF.PC)
      BY <1>2, <1>3, <1>6, <2>2, <2>7
    <3> QED
      BY <1>1, <1>3, <1>6, <2>1, <3>1, <3>2
  <2> QED
    BY <2>5, <2>6, <2>7
<1> QED
  BY <1>4, <1>5, <1>6

(* Behind the instruction that goes to EX is what it leads to. *)
LEMMA FrontFollows ==
  ASSUME Inv, PathInv, RunCycle, Settles(prog), ~wbMemException, idMovesOn
  PROVE  /\ Settled(prog, frontPC') = Settled(prog, NextPC(idEval))
         /\ NextPC(idEval) \in Targets(prog, oldID.PC)
<1>1. ~idFrozen /\ ~illegalHeld
  BY DEF idMovesOn, illegalHeld
<1>2. /\ idEval \in Instruction
      /\ idEval.word = oldID.word /\ idEval.PC = oldID.PC
  BY IDType, KeptByForwarding DEF Inv
<1>3. oldID.word = FetchWord(prog, oldID.PC)
  BY DEF idMovesOn, PathInv, WordsFetched, FetchedWord
<1>4. NextPC(idEval) \in Targets(prog, oldID.PC)
  BY <1>2, <1>3, NextInTargets
<1>5. CASE branchTaken
  BY <1>4, <1>5, FrontBranches
<1>6. CASE ~branchTaken
  <2>1. Settled(prog, frontPC') = Settled(prog, ifPC)
    BY <1>1, <1>6, FrontMoves
  <2>2. Settled(prog, ifPC) = Settled(prog, FallThrough(oldID.PC))
    BY DEF idMovesOn, PathInv, Chained
  <2>3. NextPC(idEval) = FallThrough(oldID.PC)
    <3>1. CASE idIsBranchLike \/ oldID.word.op = "JAL"
      BY <1>1, <1>6, <3>1
         DEF branchTaken, idFrozen, illegalInID, illegalHeld
    <3>2. CASE ~idIsBranchLike /\ oldID.word.op # "JAL"
      BY <1>2, <3>2 DEF idIsBranchLike, idMovesOn, BranchLike, IsBranch,
                        NextPC, BranchCondition
    <3> QED
      BY <3>1, <3>2
  <2> QED
    BY <1>4, <2>1, <2>2, <2>3
<1> QED
  BY <1>5, <1>6

LEMMA ChainedStep ==
  ASSUME Inv, PathInv, RunCycle, Settles(prog)
  PROVE  Chained'
<1>1. CASE wbMemException
  BY <1>1, FrontFlushed DEF Chained
<1>2. CASE ~wbMemException /\ dStallActive
  <2>1. idFrozen
    BY <1>2 DEF idFrozen
  <2>2. oldID' = oldID /\ frontPC' = frontPC /\ (~illegalHeld => ifPC' = ifPC)
    BY <1>2, <2>1, FrontHeld
  <2>3. oldEX' = oldEX /\ prog' = prog
    BY <1>2, CycleEffect DEF Unless, newEX
  <2> QED
    BY <2>2, <2>3 DEF PathInv, Chained, illegalHeld, IsLegal
<1>3. CASE ~wbMemException /\ ~dStallActive
  <2>1. oldEX' = newEX /\ prog' = prog
    BY <1>3, CycleEffect DEF Unless
  <2>2. ~oldID'.isNop /\ IsLegal(oldID)' =>
          Settled(prog, ifPC') = Settled(prog, FallThrough(oldID'.PC))
    <3>1. CASE idFrozen
      BY <1>3, <3>1, FrontHeld DEF PathInv, Chained, illegalHeld, IsLegal
    <3>2. CASE ~idFrozen /\ branchTaken
      BY <3>2, FrontBranches
    <3>3. CASE ~idFrozen /\ ~branchTaken
      BY <1>3, <3>3, FrontMoves
    <3> QED
      BY <3>1, <3>2, <3>3
  <2>3. ~oldEX'.isNop =>
          \E t \in Targets(prog, oldEX'.PC) :
            Settled(prog, frontPC') = Settled(prog, t)
    <3> SUFFICES ASSUME idMovesOn
                 PROVE  \E t \in Targets(prog, oldID.PC) :
                          Settled(prog, frontPC') = Settled(prog, t)
      BY <1>3, <2>1, EXTakes
    <3> QED
      BY <1>3, FrontFollows
  <2> QED
    BY <2>1, <2>2, <2>3 DEF Chained
<1> QED
  BY <1>1, <1>2, <1>3

-----------------------------------------------------------------------------
(* What comes behind an access, by its address and not past NOPs.          *)

LEMMA AccessFollowedStep ==
  ASSUME Inv, PathInv, AccessFollowed, RunCycle, Settles(prog)
  PROVE  AccessFollowed'
<1>1. CASE wbMemException
  <2>1. oldEX'.isNop
    BY <1>1, CycleEffect, NopHolds DEF Unless
  <2> QED
    BY <1>1, <2>1, FrontFlushed DEF AccessFollowed
<1>2. CASE ~wbMemException /\ dStallActive
  <2>1. idFrozen
    BY <1>2 DEF idFrozen
  <2>2. oldID' = oldID /\ (~illegalHeld => ifPC' = ifPC)
    BY <1>2, <2>1, FrontHeld
  <2>3. oldEX' = oldEX /\ oldMEM' = oldMEM
    BY <1>2, CycleEffect DEF Unless, newEX, newMEM
  <2> QED
    BY <2>2, <2>3
       DEF AccessFollowed, illegalHeld, IsLegal, IsHalt, AccessesMem, ReadsMem,
           WritesMem, memFault
<1>3. CASE ~wbMemException /\ ~dStallActive
  <2>1. oldEX' = newEX
    BY <1>3, CycleEffect DEF Unless
  <2>2. ~oldID'.isNop /\ IsLegal(oldID)' => ifPC' = FallThrough(oldID'.PC)
    <3>1. CASE idFrozen
      BY <1>3, <3>1, FrontHeld DEF AccessFollowed, illegalHeld, IsLegal
    <3>2. CASE ~idFrozen /\ branchTaken
      BY <3>2, FrontBranches
    <3>3. CASE ~idFrozen /\ ~branchTaken
      BY <1>3, <3>3, FrontMoves
    <3> QED
      BY <3>1, <3>2, <3>3
  <2>3. ASSUME ~oldEX'.isNop, AccessesMem(oldEX)' \/ IsHalt(oldEX)'
        PROVE  IF oldID'.isNop
                 THEN \/ ifPC' = FallThrough(oldEX'.PC)
                      \/ ifPC' = FallThrough(FallThrough(oldEX'.PC))
                 ELSE IsLegal(oldID)' => oldID'.PC = FallThrough(oldEX'.PC)
    <3>1. idMovesOn /\ oldEX'.word = oldID.word /\ oldEX'.PC = oldID.PC
      BY <1>3, <2>1, <2>3, EXTakes
    <3>2. (AccessesMem(oldID) \/ IsHalt(oldID)) /\ ~idFrozen /\ ~illegalHeld
      BY <2>3, <3>1
         DEF AccessesMem, ReadsMem, WritesMem, IsHalt, idMovesOn, illegalHeld
    <3>3. ~branchTaken
      BY <3>2 DEF AccessesMem, ReadsMem, WritesMem, IsHalt, branchTaken,
                  idIsBranchLike, BranchLike, IsBranch
    <3>4. ifPC = FallThrough(oldEX'.PC)
      BY <3>1 DEF AccessFollowed, idMovesOn
    <3>5. CASE ~oldID'.isNop
      <4>1. IsLegal(oldID)' => idDecodes /\ oldID'.PC = oldIF.PC
        BY <1>3, <3>2, <3>3, <3>5, FrontMoves
      <4>2. idDecodes => ifPC = oldIF.PC
        BY DEF idDecodes, ifPC
      <4> QED
        BY <3>4, <3>5, <4>1, <4>2
    <3>6. CASE oldID'.isNop
      <4>1. newID.isNop
        BY <1>3, <3>6, CycleEffect DEF Unless
      <4>2. ~idIllegalException /\ ~squashNextIF
        BY <3>2, <4>1, IllegalEnters
      <4>3. ifPC' = PC
        BY <1>3, <3>2, <3>3, <4>2, CycleEffect, FetchPlaced DEF fetchGoesTo
      <4>4. CASE idDecodes
        <5>1. ~oldIF.isNop /\ ifPC = oldIF.PC /\ PC = FallThrough(oldIF.PC)
          BY <4>4 DEF idDecodes, ifPC, PathInv, FetchPlace
        <5> QED
          BY <3>4, <3>6, <4>3, <5>1
      <4>5. CASE ~idDecodes
        <5>1. oldIF.isNop
          BY <3>2, <3>3, <4>2, <4>5
             DEF idDecodes, iStallActive, Decrement, PathInv, FetchPlace, Inv, TypeOK
        <5> QED
          BY <3>4, <3>6, <4>3, <5>1 DEF ifPC
      <4> QED
        BY <4>4, <4>5
    <3> QED
      BY <3>5, <3>6
  <2>4. ASSUME ~oldEX'.isNop, memFault' \/ IsHalt(oldMEM)'
        PROVE  oldEX'.PC = FallThrough(oldMEM'.PC)
    <3>1. oldMEM' = newMEM
      BY <1>3, CycleEffect DEF Unless
    <3>2. ~oldEX.isNop /\ newMEM.word = oldEX.word /\ newMEM.PC = oldEX.PC
      BY <1>3, <2>4, <3>1, MEMTakes DEF memFault, IsHalt
    <3>3. AccessesMem(oldEX) \/ IsHalt(oldEX)
      <4>1. memFault' => Faults(memInput)
        BY <1>3, <3>1, <3>2, MEMTakes DEF memFault
      <4>2. memInput.word = oldEX.word
        BY OldTypes DEF memInput, Instruction, Inv
      <4> QED
        BY <2>4, <3>1, <3>2, <4>1, <4>2
           DEF IsHalt, Faults, AccessesMem, ReadsMem, WritesMem
    <3>4. idMovesOn /\ oldEX'.PC = oldID.PC
      BY <1>3, <2>1, <2>4, EXTakes
    <3> QED
      BY <3>1, <3>2, <3>3, <3>4 DEF AccessFollowed, idMovesOn
  <2> QED
    BY <2>2, <2>3, <2>4 DEF AccessFollowed
<1> QED
  BY <1>1, <1>2, <1>3

(* As QuietStalls, for the run that is under way. *)
quietRun == latency.d % 2 = 0 \/ NoIllegalBehindAccess(prog)

LEMMA FollowedIsQuiet ==
  ASSUME TypeOK, WordsFetched, AccessFollowed, quietRun
  PROVE  QuietDecode
<1> SUFFICES ASSUME latency.d % 2 = 1, ~oldEX.isNop, AccessesMem(oldEX),
                    ~illegalHeld, ~oldIF.isNop, ~IsLegal(oldIF)
             PROVE  FALSE
  BY DEF QuietDecode
<1> DEFINE a == oldEX.PC
<1>1. a \in Value
  BY OldTypes DEF Instruction
<1>2. oldEX.word = FetchWord(prog, a) /\ oldIF.word = FetchWord(prog, oldIF.PC)
  BY DEF WordsFetched, FetchedWord
<1>3. \A b : SimIF(prog, b).word = FetchWord(prog, b)
  BY DEF SimIF, Nop
<1>4. AccessesMem(SimIF(prog, a)) /\ ~IsLegal(SimIF(prog, oldIF.PC))
  BY <1>2, <1>3 DEF AccessesMem, ReadsMem, WritesMem, IsLegal
<1>5. oldIF.PC = FallThrough(a) \/ oldIF.PC = FallThrough(FallThrough(a))
  BY DEF AccessFollowed, illegalHeld, ifPC
<1>6. NoIllegalBehindAccess(prog)
  BY DEF quietRun
<1> HIDE DEF a
<1> QED
  BY <1>1, <1>4, <1>5, <1>6 DEF NoIllegalBehindAccess

-----------------------------------------------------------------------------
(* A cycle is a step of ControlPath or none.                               *)

Steady ==
  /\ prog' = prog
  /\ Settled(prog, oldestPC') = Settled(prog, oldestPC)
  /\ architecturalRetired' = architecturalRetired
  /\ haltPassed' = haltPassed

(* Nothing moves in a D-stall. *)
LEMMA StallIsSteady ==
  ASSUME Inv, PathInv, RunCycle, dStallActive
  PROVE  Steady
<1>1. ~wbMemException /\ idFrozen /\ ~retires
  BY DEF wbMemException, idFrozen, retires
<1>2. frontPC' = frontPC
  BY <1>1, FrontHeld
<1>3. oldMEM' = oldMEM /\ oldEX' = oldEX /\ oldWB' = Nop("BUBBLE")
  BY <1>1, CycleEffect DEF Unless, newMEM, newEX, newWB
<1>4. prog' = prog /\ dynRetired' = dynRetired /\ ~IsHalt(oldWB)
  BY <1>1, CycleEffect DEF PathInv, Running
<1>5. ~IsHalt(oldWB)' /\ IsHalt(oldMEM)' = IsHalt(oldMEM) /\ memFault' = memFault
  BY <1>3, NopHolds DEF IsHalt, memFault
<1>6. oldestPC' = oldestPC
  BY <1>2, <1>3, <1>4, <1>5 DEF oldestPC, frontPC, ifPC
<1>7. pendingInMEM' = pendingInMEM
  BY <1>3, <1>4, <1>5 DEF pendingInMEM
<1>8. haltPassed' = haltPassed
  BY <1>4, <1>5 DEF haltPassed
<1>9. architecturalRetired' = architecturalRetired
  BY <1>4, <1>7, Zenon DEF architecturalRetired
<1> QED
  BY <1>4, <1>6, <1>8, <1>9 DEF Steady

(* The trap was taken when the faulting instruction entered MEM. *)
LEMMA FlushIsSteady ==
  ASSUME Inv, PathInv, RunCycle, wbMemException
  PROVE  Steady
<1>1. ~dStallActive /\ memFault /\ ~retires
  BY OnlyMemoryFaults DEF retires
<1>2. /\ oldEX'.isNop /\ oldMEM'.isNop /\ frontPC' = Handler
      /\ ~IsHalt(oldMEM)' /\ ~IsHalt(oldWB)' /\ prog' = prog
      /\ dynRetired' = dynRetired
  <2>1. oldMEM' = Nop("SQUASHED") /\ oldWB' = Nop("SQUASHED")
    BY <1>1, CycleEffect DEF Unless, newWB
  <2> QED
    BY <1>1, <2>1, CycleEffect, FrontFlushed, NopHolds DEF IsHalt
<1>3. ~IsHalt(oldWB)
  BY CycleEffect DEF PathInv, Running
<1>4. ~IsHalt(oldMEM)
  BY <1>1 DEF memFault, PathInv, WordsFetched, AccessesMem, ReadsMem, WritesMem,
              IsHalt
<1> QED
  BY <1>1, <1>2, <1>3, <1>4
     DEF Steady, oldestPC, frontPC, ifPC, architecturalRetired, pendingInMEM,
         haltPassed, memFault

(* What is oldest behind MEM after a cycle is what was oldest behind EX. *)
LEMMA OldestBehindEX ==
  ASSUME Inv, PathInv, RunCycle, Settles(prog), ~dStallActive, ~wbMemException
  PROVE  Settled(prog, IF ~oldEX'.isNop THEN oldEX'.PC ELSE frontPC')
           = Settled(prog, frontPC)
<1>1. oldEX' = newEX
  BY CycleEffect DEF Unless
<1>2. CASE idMovesOn
  <2>1. ~oldEX'.isNop /\ oldEX'.PC = oldID.PC
    BY <1>1, <1>2, EXTakes
  <2>2. frontPC = oldID.PC
    BY <1>2 DEF frontPC, idMovesOn
  <2> QED
    BY <2>1, <2>2
<1>3. CASE ~idMovesOn
  <2>1. oldEX'.isNop
    BY <1>1, <1>3, EXTakes
  <2>2. CASE idFrozen
    BY <2>1, <2>2, FrontHeld
  <2>3. CASE ~idFrozen /\ illegalHeld
    <3>1. frontPC = Handler
      BY <2>3 DEF frontPC, illegalHeld
    <3> QED
      BY <2>1, <2>3, <3>1, FrontMoves, IllegalIsInert
  <2>4. CASE ~idFrozen /\ ~illegalHeld
    <3>1. oldID.isNop
      BY <1>3, <2>4 DEF idMovesOn, illegalHeld
    <3>2. oldID.word.op = "NOP"
      BY <3>1 DEF PathInv, WordsFetched, FetchedWord
    <3>3. ~branchTaken
      BY <3>1, <3>2 DEF branchTaken, idIsBranchLike
    <3>4. frontPC = ifPC
      BY <2>4, <3>1 DEF frontPC, Inv, FetchInvariant, SquashAwaits
    <3> QED
      BY <2>1, <2>4, <3>3, <3>4, FrontMoves
  <2> QED
    BY <2>2, <2>3, <2>4
<1> QED
  BY <1>2, <1>3

(* The cycle that moves the pipeline on. *)
LEMMA AdvanceEffect ==
  ASSUME Inv, PathInv, RunCycle, ~dStallActive, ~wbMemException
  PROVE  /\ ~memFault /\ ~IsHalt(oldWB)
         /\ oldMEM' = newMEM
         /\ IsHalt(oldWB)' = IsHalt(oldMEM)
         /\ oldWB'.PC = oldMEM.PC
         /\ architecturalRetired = dynRetired'
<1>1. ~memFault /\ ~IsHalt(oldWB)
  BY OnlyMemoryFaults, CycleEffect DEF PathInv, Running
<1>2. oldMEM' = newMEM /\ oldWB' = newWB
  BY CycleEffect DEF Unless
<1>3. newWB = [oldMEM EXCEPT !.status = IF oldMEM.isNop THEN @ ELSE "NORMAL"]
  BY <1>1 DEF newWB
<1>4. newWB.word = oldMEM.word /\ newWB.PC = oldMEM.PC
  BY <1>3, OldTypes DEF Inv, Instruction
<1>5. pendingInMEM <=> retires
  BY <1>1 DEF pendingInMEM, retires, memFault
<1>6. architecturalRetired = dynRetired'
  BY <1>5, CycleEffect, Zenon DEF architecturalRetired
<1> QED
  BY <1>1, <1>2, <1>4, <1>6 DEF IsHalt

(* What may happen when an instruction enters MEM. *)
Enters ==
  /\ ~haltPassed /\ ~oldEX.isNop
  /\ Settled(prog, oldestPC) = oldEX.PC
  /\ oldEX.word = FetchWord(prog, oldEX.PC)

HaltEnters ==
  /\ Enters /\ IsHalt(oldEX)
  /\ haltPassed' /\ pendingInMEM'
  /\ Settled(prog, oldestPC') = oldEX.PC
  /\ architecturalRetired' = architecturalRetired + 1

FaultEnters ==
  /\ Enters /\ ~IsHalt(oldEX) /\ Faults(memInput)
  /\ ~haltPassed' /\ ~pendingInMEM'
  /\ oldestPC' = Handler
  /\ architecturalRetired' = architecturalRetired

InstructionEnters ==
  /\ Enters /\ ~IsHalt(oldEX) /\ ~Faults(memInput)
  /\ ~haltPassed' /\ pendingInMEM'
  /\ Settled(prog, oldestPC') = Settled(prog, frontPC)
  /\ architecturalRetired' = architecturalRetired + 1

LEMMA AdvanceCases ==
  ASSUME Inv, PathInv, RunCycle, Settles(prog), ~dStallActive, ~wbMemException
  PROVE  \/ Steady /\ (IsHalt(oldMEM) \/ (oldEX.isNop /\ ~pendingInMEM'))
         \/ HaltEnters
         \/ FaultEnters
         \/ InstructionEnters
<1>1. /\ ~memFault /\ ~IsHalt(oldWB)
      /\ oldMEM' = newMEM
      /\ IsHalt(oldWB)' = IsHalt(oldMEM)
      /\ oldWB'.PC = oldMEM.PC
      /\ architecturalRetired = dynRetired'
  BY AdvanceEffect
<1>2. prog' = prog
  BY CycleEffect
<1> DEFINE behind == IF ~oldEX.isNop THEN oldEX.PC ELSE frontPC
<1>3. ~IsHalt(oldMEM) => oldestPC = behind /\ ~haltPassed
  BY <1>1 DEF oldestPC, frontPC, ifPC, haltPassed
<1>4. ~IsHalt(oldMEM) /\ ~IsHalt(oldMEM)' /\ ~memFault' =>
        Settled(prog, oldestPC') = Settled(prog, frontPC)
  <2> SUFFICES ASSUME ~IsHalt(oldMEM), ~IsHalt(oldMEM)', ~memFault'
               PROVE  Settled(prog, oldestPC') = Settled(prog, frontPC)
    OBVIOUS
  <2>1. oldestPC' = IF ~oldEX'.isNop THEN oldEX'.PC ELSE frontPC'
    BY <1>1 DEF oldestPC, frontPC, ifPC
  <2> QED
    BY <2>1, OldestBehindEX
<1>5. CASE IsHalt(oldMEM)
  <2>1. oldestPC = oldMEM.PC /\ oldestPC' = oldMEM.PC
    BY <1>1, <1>5 DEF oldestPC
  <2>2. haltPassed /\ haltPassed'
    BY <1>1, <1>5 DEF haltPassed
  <2>3. architecturalRetired' = dynRetired'
    BY <1>1, <1>5 DEF architecturalRetired, pendingInMEM
  <2> QED
    BY <1>1, <1>2, <1>5, <2>1, <2>2, <2>3 DEF Steady, haltPassed
<1>6. CASE ~IsHalt(oldMEM) /\ oldEX.isNop
  <2>1. oldMEM'.isNop /\ oldMEM'.word.op = "NOP"
    BY <1>1, <1>6, MEMTakes
  <2>2. ~memFault' /\ ~IsHalt(oldMEM)' /\ ~pendingInMEM'
    BY <2>1 DEF memFault, IsHalt, pendingInMEM
  <2>3. architecturalRetired' = dynRetired'
    BY <2>2 DEF architecturalRetired
  <2>4. ~haltPassed'
    BY <1>1, <1>6, <2>2 DEF haltPassed
  <2>5. Settled(prog, oldestPC') = Settled(prog, oldestPC)
    BY <1>3, <1>4, <1>6, <2>2
  <2> QED
    BY <1>1, <1>2, <1>3, <1>6, <2>2, <2>3, <2>4, <2>5 DEF Steady, haltPassed
<1>7. CASE ~IsHalt(oldMEM) /\ ~oldEX.isNop
  <2>1. /\ oldMEM'.word = oldEX.word /\ oldMEM'.PC = oldEX.PC /\ ~oldMEM'.isNop
        /\ oldMEM'.memException = Faults(memInput)
    BY <1>1, <1>7, MEMTakes
  <2>2. Settled(prog, oldEX.PC) = oldEX.PC /\ Enters
    <3>1. /\ oldEX.word = FetchWord(prog, oldEX.PC)
          /\ oldEX.word.op \notin {"NOP", "ILLEGAL"}
      BY <1>7 DEF PathInv, WordsFetched, FetchedWord, IsLegal
    <3>2. oldEX.PC \in Value
      BY OldTypes DEF Inv, Instruction
    <3>3. Settled(prog, oldEX.PC) = oldEX.PC
      BY <3>1, <3>2, PassOverWord, SettledStays
    <3> QED
      BY <1>3, <1>7, <3>1, <3>3 DEF Enters
  <2>3. CASE IsHalt(oldEX)
    <3>1. IsHalt(oldMEM)' /\ ~Faults(memInput)
      BY <2>1, <2>3, KeptByForwarding
         DEF IsHalt, Faults, AccessesMem, ReadsMem, WritesMem, Inv
    <3>2. pendingInMEM' /\ haltPassed' /\ oldestPC' = oldEX.PC
      BY <1>1, <1>7, <2>1, <3>1 DEF pendingInMEM, haltPassed, oldestPC
    <3>3. architecturalRetired' = architecturalRetired + 1
      BY <1>1, <3>2 DEF architecturalRetired
    <3> QED
      BY <2>2, <2>3, <3>2, <3>3 DEF HaltEnters
  <2>4. CASE ~IsHalt(oldEX)
    <3>1. ~IsHalt(oldMEM)' /\ ~haltPassed'
      BY <1>1, <1>7, <2>1, <2>4 DEF IsHalt, haltPassed
    <3>2. CASE Faults(memInput)
      <4>1. memFault' /\ ~pendingInMEM'
        BY <2>1, <3>2 DEF memFault, pendingInMEM
      <4>2. oldestPC' = Handler
        BY <1>1, <1>7, <3>1, <4>1 DEF oldestPC
      <4>3. architecturalRetired' = architecturalRetired
        BY <1>1, <4>1 DEF architecturalRetired
      <4> QED
        BY <2>2, <2>4, <3>1, <3>2, <4>1, <4>2, <4>3 DEF FaultEnters
    <3>3. CASE ~Faults(memInput)
      <4>1. ~memFault' /\ pendingInMEM'
        BY <1>1, <1>7, <2>1, <3>3 DEF memFault, pendingInMEM
      <4>2. architecturalRetired' = architecturalRetired + 1
        BY <1>1, <4>1 DEF architecturalRetired
      <4>3. Settled(prog, oldestPC') = Settled(prog, frontPC)
        BY <1>4, <1>7, <3>1, <4>1
      <4> QED
        BY <2>2, <2>4, <3>1, <3>3, <4>1, <4>2, <4>3 DEF InstructionEnters
    <3> QED
      BY <3>2, <3>3
  <2> QED
    BY <2>3, <2>4
<1> QED
  BY <1>5, <1>6, <1>7

(* Each of them is a step of ControlPath. *)
LEMMA EntersIsPathStep ==
  ASSUME Inv, PathInv, prog' = prog, HaltEnters \/ FaultEnters \/ InstructionEnters
  PROVE  Path!Next
<1>1. /\ ~haltPassed /\ ~oldEX.isNop
      /\ Settled(prog, oldestPC) = oldEX.PC
      /\ oldEX.word = FetchWord(prog, oldEX.PC)
  BY DEF HaltEnters, FaultEnters, InstructionEnters, Enters
<1>2. Path!SimIF(prog, Settled(prog, oldestPC)).word = oldEX.word
  BY <1>1, SameInstructions DEF SimIF, Nop
<1>3. CASE HaltEnters
  <2>1. Path!IsHalt(Path!SimIF(prog, Settled(prog, oldestPC)))
    BY <1>2, <1>3, SameInstructions DEF HaltEnters, IsHalt
  <2>2. (haltPassed = TRUE)'
    BY <1>3 DEF HaltEnters, haltPassed
  <2>3. Path!Halt
    BY <1>1, <1>3, <2>1, <2>2 DEF HaltEnters, Path!Halt
  <2> QED
    BY <1>1, <2>3 DEF Path!Next
<1>4. CASE FaultEnters
  <2>1. Path!AccessesMem(Path!SimIF(prog, Settled(prog, oldestPC)))
    BY <1>2, <1>4, KeptByForwarding, SameInstructions
       DEF FaultEnters, Faults, AccessesMem, ReadsMem, WritesMem, Inv
  <2>2. haltPassed' = haltPassed
    BY <1>1, <1>4 DEF FaultEnters, haltPassed
  <2>3. Path!Trap
    BY <1>4, <2>1, <2>2, SameSettled DEF FaultEnters, Path!Trap
  <2> QED
    BY <1>1, <2>3 DEF Path!Next
<1>5. CASE InstructionEnters
  <2>1. PICK t \in Targets(prog, oldEX.PC) :
          Settled(prog, frontPC) = Settled(prog, t)
    BY <1>1 DEF PathInv, Chained
  <2>2. ~Path!IsHalt(Path!SimIF(prog, Settled(prog, oldestPC)))
    BY <1>2, <1>5, SameInstructions DEF InstructionEnters, IsHalt
  <2>3. \E b \in Path!Targets(prog, Settled(prog, oldestPC)) :
          Settled(prog, oldestPC') = Path!Settled(prog, b)
    BY <1>1, <1>5, <2>1, SameTargets, SameSettled DEF InstructionEnters
  <2>4. haltPassed' = haltPassed
    BY <1>1, <1>5 DEF InstructionEnters, haltPassed
  <2>5. Path!Execute
    BY <1>5, <2>2, <2>3, <2>4 DEF InstructionEnters, Path!Execute
  <2> QED
    BY <1>1, <2>5 DEF Path!Next
<1> QED
  BY <1>3, <1>4, <1>5

-----------------------------------------------------------------------------
(* The invariant and the theorems.                                         *)

ProofInv == Inv /\ PathInv /\ AccessFollowed /\ Settles(prog) /\ quietRun

LEMMA ProofInvInit == QuietStalls /\ Init => ProofInv
<1> SUFFICES ASSUME QuietStalls, Init
             PROVE  ProofInv
  OBVIOUS
<1>1. Inv
  BY InvInit
<1>2. /\ oldIF = Nop("IDLE") /\ oldID = Nop("IDLE") /\ oldEX = Nop("IDLE")
      /\ oldMEM = Nop("IDLE") /\ oldWB = Nop("IDLE")
  BY DEF Init, oldIF, oldID, oldEX, oldMEM, oldWB
<1>3. PathInv
  BY <1>2, NopHolds DEF Init, PathInv, WordsFetched, FetchPlace, Chained, Running
<1>4. AccessFollowed
  BY <1>2, NopHolds DEF AccessFollowed, memFault
<1>5. Settles(prog) /\ quietRun
  BY SettlesAssumption DEF Init, QuietStalls, quietRun
<1> QED
  BY <1>1, <1>3, <1>4, <1>5 DEF ProofInv

LEMMA ProofInvStep == ProofInv /\ [Next]_vars => ProofInv'
<1> SUFFICES ASSUME ProofInv, [Next]_vars
             PROVE  ProofInv'
  OBVIOUS
<1>1. Inv'
  BY InvStep, FollowedIsQuiet DEF ProofInv, Inv, PathInv
<1>2. CASE RunCycle
  <2>1. PathInv'
    BY <1>2, WordsFetchedStep, FetchPlaceStep, ChainedStep, RunningStep
       DEF ProofInv, PathInv
  <2>2. AccessFollowed'
    BY <1>2, AccessFollowedStep DEF ProofInv
  <2>3. Settles(prog)' /\ quietRun'
    BY <1>2, CycleEffect
       DEF ProofInv, Settles, quietRun, NoIllegalBehindAccess, RunCycle
  <2> QED
    BY <1>1, <2>1, <2>2, <2>3 DEF ProofInv
<1>3. CASE UNCHANGED vars
  <2>1. /\ oldIF' = oldIF /\ oldID' = oldID /\ oldEX' = oldEX
        /\ oldMEM' = oldMEM /\ oldWB' = oldWB /\ prog' = prog /\ PC' = PC
        /\ squashNextIF' = squashNextIF /\ iStallLeft' = iStallLeft
        /\ status' = status /\ latency' = latency
    BY <1>3 DEF vars, oldIF, oldID, oldEX, oldMEM, oldWB
  <2>2. ifPC' = ifPC /\ frontPC' = frontPC
    BY <2>1 DEF ifPC, frontPC, IsLegal
  <2>3. WordsFetched'
    BY <2>1 DEF ProofInv, PathInv, WordsFetched, FetchedWord, FetchWord, IsLegal,
                AccessesMem, ReadsMem, WritesMem
  <2>4. FetchPlace' /\ Running'
    BY <2>1 DEF ProofInv, PathInv, FetchPlace, Running, IsHalt
  <2>5. Chained'
    BY <2>1, <2>2 DEF ProofInv, PathInv, Chained, IsLegal
  <2>6. AccessFollowed'
    BY <2>1, <2>2
       DEF ProofInv, AccessFollowed, IsLegal, IsHalt, AccessesMem, ReadsMem,
           WritesMem, memFault
  <2>7. Settles(prog)' /\ quietRun'
    BY <2>1 DEF ProofInv, Settles, quietRun, NoIllegalBehindAccess
  <2> QED
    BY <1>1, <2>3, <2>4, <2>5, <2>6, <2>7 DEF ProofInv, PathInv
<1> QED
  BY <1>2, <1>3 DEF Next, Halted

(* The squash of an illegal instruction is pending whenever ID is free     *)
(* again, and the block IF holds or waits for is in the I-cache, in every  *)
(* state of every program.                                                 *)
THEOREM FetchInvariantHolds ==
  ASSUME QuietStalls
  PROVE  Spec => []FetchInvariant
<1>1. Init => ProofInv
  BY ProofInvInit
<1>2. ProofInv => FetchInvariant
  BY DEF ProofInv, Inv
<1> QED
  BY <1>1, <1>2, ProofInvStep, PTL DEF Spec

(* The instruction fetched next to an illegal one, which IF delivers with  *)
(* the handler's address already in PC, never reaches ID.                  *)
THEOREM WrongPathNeverDecoded ==
  ASSUME QuietStalls
  PROVE  Spec => WrongPathSquashed
<1> DEFINE Squashed == ~oldID.isNop /\ ~IsLegal(oldID) /\ oldID' # oldID
                         => oldID'.isNop
<1>1. Init => ProofInv
  BY ProofInvInit
<1>2. ProofInv /\ [Next]_vars => [Squashed]_vars
  <2> SUFFICES ASSUME ProofInv, Inv, RunCycle, illegalHeld, oldID' # oldID
               PROVE  oldID'.isNop
    BY DEF Next, Halted, illegalHeld, ProofInv
  <2>1. oldID' = Unless(wbMemException, newID)
    BY DEF RunCycle, oldID
  <2>2. ~dStallActive
    BY <2>1, IllegalStays DEF Unless
  <2>3. newID = Nop("SQUASHED")
    BY <2>2, IllegalLeaves
  <2> QED
    BY <2>1, <2>3, NopLegal DEF Unless
<1> QED
  BY <1>1, <1>2, ProofInvStep, PTL DEF Spec, WrongPathSquashed

(* IF never delivers an instruction whose block is not in the I-cache,     *)
(* although it asks the cache only once per instruction and resumes after  *)
(* stalls without asking.                                                  *)
THEOREM DeliveredFromCache ==
  ASSUME QuietStalls
  PROVE  Spec => FetchedIsCached
<1> DEFINE Cached == ~oldIF'.isNop /\ oldIF' # oldIF
                       /\ (oldID.isNop \/ IsLegal(oldID))
                       => IC!IsHit(iCache', oldIF'.PC)
<1>1. Init => ProofInv
  BY ProofInvInit
<1>2. ProofInv /\ [Next]_vars => [Cached]_vars
  <2> SUFFICES ASSUME ProofInv, Inv, RunCycle, ~illegalHeld, ~oldIF'.isNop
               PROVE  IC!IsHit(iCache', oldIF'.PC)
    BY DEF Next, Halted, illegalHeld, ProofInv
  <2>1. oldIF' = fetch.inst /\ iCache' = fetch.iCache
    BY DEF RunCycle, oldIF
  <2>2. ~illegalNext
    <3> SUFFICES ASSUME idIllegalException, ~wbMemException
                 PROVE  FALSE
      BY DEF illegalNext
    <3>1. fetch = FetchPastIllegal
      BY DEF fetch
    <3>2. fetch.inst.isNop
      BY <3>1 DEF FetchPastIllegal, Shown, Nop
    <3> QED
      BY <2>1, <3>2
  <2> QED
    BY <2>1, <2>2, FetchGood DEF Delivered
<1> QED
  BY <1>1, <1>2, ProofInvStep, PTL DEF Spec, FetchedIsCached

-----------------------------------------------------------------------------
(* Accesses and retirement.                                                *)

AccessInv == ProofInv /\ AccessesRetire

LEMMA AccessesRetireStep ==
  ASSUME AccessInv, RunCycleStats
  PROVE  AccessesRetire'
<1> DEFINE InMEM(i) == ~i.isNop /\ AccessesMem(i) /\ ~i.memException
<1>1. RunCycle /\ Inv /\ PathInv /\ AccessFollowed
  BY DEF RunCycleStats, AccessInv, ProofInv
<1>2. status = "SUCCESS" /\ oldMEM' = Unless(wbMemException, newMEM)
      /\ status' = IF IsHalt(newWB) THEN "HALT" ELSE "SUCCESS"
  BY <1>1, CycleEffect
<1>3. unretired = IF InMEM(oldMEM) THEN 1 ELSE 0
  BY <1>2 DEF AccessInv, AccessesRetire
<1>4. unretired' = unretired + (IF accessMade THEN 1 ELSE 0)
                             - (IF accessRetires THEN 1 ELSE 0)
  BY DEF RunCycleStats
<1>5. AccessesRetire' <=>
        unretired' = IF status' = "SUCCESS" /\ InMEM(oldMEM') THEN 1 ELSE 0
  BY DEF AccessesRetire, AccessesMem, ReadsMem, WritesMem
<1>6. memInput.word = oldEX.word
  BY <1>1, OldTypes DEF memInput, Instruction, Inv
<1>7. dCacheAccessed => ~oldEX.isNop
  BY DEF dCacheAccessed, memAccepts
<1>8. CASE dStallActive
  <2>1. ~accessMade /\ ~accessRetires
    BY <1>8 DEF accessMade, dCacheAccessed, memAccepts, accessRetires, retires
  <2>2. oldMEM' = oldMEM
    BY <1>2, <1>8 DEF wbMemException, Unless, newMEM
  <2>3. status' = "SUCCESS"
    BY <1>2, <1>8, NopHolds DEF newWB, IsHalt
  <2> QED
    BY <1>3, <1>4, <1>5, <2>1, <2>2, <2>3
<1>9. CASE ~dStallActive /\ memFault
  <2>1. wbMemException
    BY <1>9 DEF wbMemException
  <2>2. dCacheAccessed => inShadow
    BY <1>1, <1>7, <1>9 DEF AccessFollowed, inShadow
  <2>3. ~accessMade /\ ~accessRetires
    BY <2>1, <2>2 DEF accessMade, accessRetires, retires
  <2>4. ~InMEM(oldMEM) /\ ~InMEM(oldMEM')
    BY <1>2, <1>9, <2>1, NopHolds DEF memFault, Unless
  <2> QED
    BY <1>3, <1>4, <1>5, <2>3, <2>4
<1>10. CASE ~dStallActive /\ ~memFault /\ IsHalt(oldMEM)
  <2>1. dCacheAccessed => inShadow
    BY <1>1, <1>7, <1>10 DEF AccessFollowed, inShadow
  <2>2. ~AccessesMem(oldMEM)
    BY <1>10 DEF IsHalt, AccessesMem, ReadsMem, WritesMem
  <2>3. ~accessMade /\ ~accessRetires
    BY <2>1, <2>2 DEF accessMade, accessRetires
  <2>4. status' = "HALT"
    BY <1>2, <1>10 DEF newWB, IsHalt
  <2> QED
    BY <1>3, <1>4, <1>5, <2>2, <2>3, <2>4
<1>11. CASE ~dStallActive /\ ~memFault /\ ~IsHalt(oldMEM)
  <2>1. ~wbMemException
    BY <1>1, <1>11, OnlyMemoryFaults
  <2>2. oldMEM' = newMEM
    BY <1>2, <2>1 DEF Unless
  <2>3. status' = "SUCCESS"
    BY <1>2, <1>11 DEF newWB, IsHalt
  <2>4. accessRetires <=> InMEM(oldMEM)
    BY <1>11, <2>1 DEF accessRetires, retires, memFault
  <2>5. accessMade <=> InMEM(oldMEM')
    <3>1. accessMade <=> dCacheAccessed
      BY <1>11 DEF accessMade, inShadow
    <3>2. CASE oldEX.isNop
      BY <1>1, <1>7, <1>11, <2>2, <3>1, <3>2, MEMTakes
    <3>3. CASE ~oldEX.isNop
      <4>1. /\ newMEM.word = oldEX.word /\ ~newMEM.isNop
            /\ newMEM.memException = Faults(memInput)
        BY <1>1, <1>11, <3>3, MEMTakes
      <4>2. memAccepts
        BY <1>1, <1>11, <3>3 DEF memAccepts, PathInv, WordsFetched
      <4> QED
        BY <1>6, <2>2, <3>1, <4>1, <4>2
           DEF dCacheAccessed, AccessesMem, ReadsMem, WritesMem
    <3> QED
      BY <3>2, <3>3
  <2> HIDE DEF InMEM
  <2> QED
    BY <1>3, <1>4, <1>5, <2>3, <2>4, <2>5
<1> QED
  BY <1>8, <1>9, <1>10, <1>11

(* Supported or not, a program accesses memory and D-cache once for every  *)
(* instruction that retires, and for no other but the one word directly    *)
(* behind a fault or HALT: the shadow of the late squash is no longer.     *)
THEOREM AccessesRetireOnce ==
  ASSUME QuietStalls
  PROVE  StatsSpec => []AccessesRetire
<1>1. InitStats => AccessInv
  <2> SUFFICES ASSUME InitStats
               PROVE  AccessInv
    OBVIOUS
  <2>1. ProofInv
    BY ProofInvInit DEF InitStats
  <2>2. oldMEM = Nop("IDLE")
    BY DEF InitStats, Init, oldMEM
  <2> QED
    BY <2>1, <2>2, NopHolds DEF InitStats, AccessInv, AccessesRetire
<1>2. AccessInv /\ [NextStats]_statsVars => AccessInv'
  <2> SUFFICES ASSUME AccessInv, [NextStats]_statsVars
               PROVE  AccessInv'
    OBVIOUS
  <2>1. [Next]_vars
    BY DEF NextStats, RunCycleStats, statsVars, Next, Halted
  <2>2. ProofInv'
    BY <2>1, ProofInvStep DEF AccessInv
  <2>3. CASE RunCycleStats
    BY <2>2, <2>3, AccessesRetireStep DEF AccessInv
  <2>4. CASE UNCHANGED <<vars, unretired>>
    <3>1. pipelineInfo' = pipelineInfo /\ status' = status /\ unretired' = unretired
      BY <2>4 DEF vars
    <3>2. AccessesRetire'
      BY <3>1 DEF AccessInv, AccessesRetire, oldMEM, AccessesMem, ReadsMem, WritesMem
    <3> QED
      BY <2>2, <3>2 DEF AccessInv
  <2> QED
    BY <2>3, <2>4 DEF NextStats, statsVars, Halted
<1>3. AccessInv => AccessesRetire
  BY DEF AccessInv
<1> QED
  BY <1>1, <1>2, <1>3, PTL DEF StatsSpec

-----------------------------------------------------------------------------
(* The path.                                                               *)

LEMMA PathInitial == Init => Path!Init
<1> SUFFICES ASSUME Init
             PROVE  Path!Init
  OBVIOUS
<1>1. /\ oldIF = Nop("IDLE") /\ oldID = Nop("IDLE") /\ oldEX = Nop("IDLE")
      /\ oldMEM = Nop("IDLE") /\ oldWB = Nop("IDLE")
  BY DEF Init, oldIF, oldID, oldEX, oldMEM, oldWB
<1>2. oldestPC = 0
  BY <1>1, NopHolds DEF Init, oldestPC, memFault
<1>3. architecturalRetired = 0 /\ haltPassed = FALSE
  BY <1>1, NopHolds DEF Init, architecturalRetired, pendingInMEM, haltPassed
<1>4. prog \in [DOMAIN prog -> Path!Word]
  BY PipelineAssumption, SameWords DEF Init
<1> QED
  BY <1>2, <1>3, <1>4, SameSettled DEF Path!Init

LEMMA PathStep == ProofInv /\ [Next]_vars => [Path!Next]_(Path!pathVars)
<1> SUFFICES ASSUME ProofInv, [Next]_vars
             PROVE  [Path!Next]_(Path!pathVars)
  OBVIOUS
<1>1. prog' = prog
  BY DEF Next, RunCycle, Halted, vars
<1>2. CASE RunCycle
  <2>1. Steady \/ Path!Next
    BY <1>1, <1>2, StallIsSteady, FlushIsSteady, AdvanceCases, EntersIsPathStep
       DEF ProofInv
  <2>2. Steady => UNCHANGED Path!pathVars
    BY <1>1 DEF Steady, Path!pathVars
  <2> QED
    BY <2>1, <2>2
<1>3. CASE UNCHANGED vars
  <2>1. /\ oldestPC' = oldestPC /\ architecturalRetired' = architecturalRetired
        /\ haltPassed' = haltPassed
    BY <1>3 DEF vars, oldestPC, architecturalRetired, haltPassed, pendingInMEM,
                memFault, oldIF, oldID, oldEX, oldMEM, oldWB, IsHalt, IsLegal
  <2> QED
    BY <1>1, <2>1 DEF Path!pathVars
<1> QED
  BY <1>2, <1>3 DEF Next, Halted

(* Whatever stalls, squashes and branches do, the pipeline executes the    *)
(* instructions of a path of the program: none twice, none skipped, none   *)
(* from the wrong side of a branch, none behind a fault or a HALT, and     *)
(* dynamic instructions count them.                                        *)
THEOREM ExecutesPath ==
  ASSUME QuietStalls
  PROVE  Spec => PathSpec
<1>1. Init => ProofInv
  BY ProofInvInit
<1> QED
  BY <1>1, ProofInvStep, PathInitial, PathStep, PTL
     DEF Spec, PathSpec, Path!Spec

=============================================================================
