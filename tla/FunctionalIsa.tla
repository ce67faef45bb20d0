---------------------------- MODULE FunctionalIsa ----------------------------
(***************************************************************************)
(* The functional simulator executes the instruction set of Isa up to the  *)
(* first exception.  Isa has more state than the functional simulator      *)
(* keeps; three history variables supply it.                               *)
(***************************************************************************)
EXTENDS Functional, ControlFlow

ASSUME SettlesAssumption == \A p \in Programs : Settles(p)

CONSTANTS DCacheSize, DBlockSize, DWays   \* a D-cache for Isa

DC == INSTANCE CacheOps WITH
        CacheSize <- DCacheSize, BlockSize <- DBlockSize, Ways <- DWays

VARIABLES
  dCache,      \* what the accesses so far leave in the D-cache
  lastPC,      \* address of the last instruction
  uncounted,   \* instructions so far that Isa does not count
  trapped      \* a memory exception was ignored

history == <<dCache, lastPC, uncounted, trapped>>

HInit ==
  /\ Init
  /\ dCache = DC!EmptyCache
  /\ lastPC = 0
  /\ uncounted = 0
  /\ trapped = FALSE

Remember ==
  /\ dCache' = IF AccessesMem(collected) THEN DC!Access(dCache, MemAddress(collected))
                                         ELSE dCache
  /\ lastPC' = PC
  /\ uncounted' = IF fetched.word.op \in {"NOP", "ILLEGAL"} THEN uncounted + 1
                                                            ELSE uncounted
  /\ trapped' = (trapped \/ accessed.memException)

HNext ==
  \/ Iterate /\ Remember
  \/ (RunInstructions \/ Return \/ Finished) /\ UNCHANGED history

HSpec == HInit /\ [][HNext]_<<vars, history>>

FairHSpec == HSpec /\ WF_<<vars, history>>(HNext)

ISA ==
  INSTANCE Isa WITH
    pc <- Settled(prog, IF status = "SUCCESS" THEN PC ELSE lastPC),
    regs <- [regs EXCEPT ![0] = 0],
    retired <- din - uncounted,
    halted <- status = "HALT"

(* Up to the first memory exception every instruction has the effect it    *)
(* has in Isa, which the pipeline implements as well: the same registers   *)
(* although x0 is written, the same memory, the same next instruction, and *)
(* the same number of instructions but for NOPs and illegal ones.  With a  *)
(* memory exception the simulators part: this one goes on behind it.       *)
ExecutesIsa ==
  ISA!Init /\ [][trapped' \/ ISA!Next]_(ISA!isaVars)

=============================================================================
