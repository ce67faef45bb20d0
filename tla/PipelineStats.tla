--------------------------- MODULE PipelineStats ---------------------------
(***************************************************************************)
(* History variables beside the pipeline: what its load-use statistic is   *)
(* to count, and the accesses whose instructions are still to retire.      *)
(***************************************************************************)
EXTENDS Pipeline

VARIABLES
  waited,    \* the instruction in ID has waited for a load
  waiters,   \* number of instructions that have waited for a load
  unretired  \* accesses to memory and D-cache that no retirement followed

statsVars == <<vars, waited, waiters, unretired>>

(* The instruction in ID is held until a load delivers, not by a D-stall   *)
(* or for the result of an operation.                                      *)
waitsForLoad ==
  \/ loadUseStall
  \/ branchDataStall /\ IF branchNeedsEX THEN ReadsMem(oldEX) ELSE ReadsMem(oldMEM)

(* The instruction in EX is the next word behind one that faults, or       *)
(* behind HALT: its access happens in the cycle that squashes it.          *)
inShadow == (memFault \/ IsHalt(oldMEM)) /\ oldEX.PC = FallThrough(oldMEM.PC)

accessMade == dCacheAccessed /\ ~inShadow

accessRetires == retires /\ AccessesMem(oldMEM)

InitStats == Init /\ waited = FALSE /\ waiters = 0 /\ unretired = 0

RunCycleStats ==
  /\ RunCycle
  /\ waited' = (idFrozen /\ ~wbMemException /\ (waited \/ waitsForLoad))
  /\ waiters' = IF waitsForLoad /\ ~waited THEN waiters + 1 ELSE waiters
  /\ unretired' = unretired + (IF accessMade THEN 1 ELSE 0)
                            - (IF accessRetires THEN 1 ELSE 0)

NextStats == RunCycleStats \/ (Halted /\ UNCHANGED <<waited, waiters, unretired>>)

StatsSpec == InitStats /\ [][NextStats]_statsVars

(* The statistics only watch: fairness is that of the pipeline.            *)
FairStatsSpec == StatsSpec /\ WF_vars(RunCycle)

(* "count stats once per hazard" (cycle.cpp): no instruction that waits    *)
(* for a load is counted twice.  A branch behind a load waits two cycles,  *)
(* and longer when the load misses in the D-cache; a bubble in EX tells    *)
(* the code that it has counted already.                                   *)
LoadUseNotRecounted == loadUseStallCount <= waiters

(* "count once per dependent load" (cycle.cpp): the statistic is the       *)
(* number of instructions that had to wait for a load.                     *)
LoadUseCountedOnce == loadUseStallCount = waiters

(* The code accesses memory and D-cache two cycles before it knows that    *)
(* the instruction retires.  Still every access is of an instruction that  *)
(* retires, and is made once, whatever stalls hold it and exceptions       *)
(* squash it: what memory has seen and is not retired is in MEM.  The only *)
(* others are those of the one word directly behind a fault or HALT.       *)
AccessesRetire ==
  unretired =
    IF /\ status = "SUCCESS"
       /\ ~oldMEM.isNop /\ AccessesMem(oldMEM) /\ ~oldMEM.memException
      THEN 1
      ELSE 0

=============================================================================
