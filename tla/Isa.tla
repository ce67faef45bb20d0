-------------------------------- MODULE Isa --------------------------------
(***************************************************************************)
(* What the pipelined simulator promises its user: the instructions of the *)
(* program executed one at a time (Simulator::simInstruction), with        *)
(* precise exceptions: an illegal instruction or a memory exception has no *)
(* effect but to continue at the handler.  There is no pipeline and no     *)
(* time; the D-cache sees the accesses in program order.                   *)
(*                                                                         *)
(* NOPs are not instructions of their own here (the cycle simulator does   *)
(* not count them), nor is an illegal instruction: pc always rests at a    *)
(* word that does something.                                               *)
(***************************************************************************)
EXTENDS ControlFlow

CONSTANTS
  DCacheSize, DBlockSize, DWays,   \* geometry of the D-cache
  InitialMemory

DC == INSTANCE CacheOps WITH
        CacheSize <- DCacheSize, BlockSize <- DBlockSize, Ways <- DWays

VARIABLES
  prog,      \* the program
  pc,        \* address of the instruction executed next
  regs, mem, dCache,
  retired,   \* number of instructions executed
  halted

isaVars == <<prog, pc, regs, mem, dCache, retired, halted>>

(* The instruction at pc with its operands and its results. *)
decoded == SimID(SimIF(prog, pc), regs)

executed == SimMEM(SimEX(decoded), mem)

Init ==
  /\ prog \in [DOMAIN prog -> Word]
  /\ pc = Settled(prog, 0)
  /\ regs = [r \in Reg |-> 0]
  /\ mem = InitialMemory
  /\ dCache = DC!EmptyCache
  /\ retired = 0
  /\ halted = FALSE

Halt ==
  /\ IsHalt(decoded)
  /\ halted' = TRUE
  /\ retired' = retired + 1
  /\ UNCHANGED <<prog, pc, regs, mem, dCache>>

(* A memory exception: nothing happens but the jump to the handler. *)
Trap ==
  /\ executed.memException
  /\ pc' = Settled(prog, Handler)
  /\ UNCHANGED <<prog, regs, mem, dCache, retired, halted>>

Execute ==
  /\ ~IsHalt(decoded) /\ ~executed.memException
  /\ pc' = Settled(prog, NextPC(decoded))
  /\ regs' = RegsAfter(executed, regs)
  /\ mem' = MemAfter(decoded, mem)
  /\ dCache' = IF AccessesMem(decoded)
                 THEN DC!Access(dCache, MemAddress(decoded))
                 ELSE dCache
  /\ retired' = retired + 1
  /\ UNCHANGED <<prog, halted>>

Next == ~halted /\ (Halt \/ Trap \/ Execute)

Spec == Init /\ [][Next]_isaVars

=============================================================================
