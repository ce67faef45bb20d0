----------------------------- MODULE ControlPath -----------------------------
(***************************************************************************)
(* Control flow without data: the instructions a program executes form a   *)
(* path of its control-flow graph.  A branch may go either way, an access  *)
(* may fault; nothing is skipped, repeated or executed out of order, and   *)
(* each instruction counts once.  Isa refines this.                        *)
(***************************************************************************)
EXTENDS ControlFlow

VARIABLES
  prog,      \* the program
  pc,        \* address of the instruction executed next
  retired,   \* number of instructions executed
  halted

pathVars == <<prog, pc, retired, halted>>

Init ==
  /\ prog \in [DOMAIN prog -> Word]
  /\ pc = Settled(prog, 0)
  /\ retired = 0
  /\ halted = FALSE

Halt ==
  /\ IsHalt(SimIF(prog, pc))
  /\ halted' = TRUE
  /\ retired' = retired + 1
  /\ UNCHANGED <<prog, pc>>

Trap ==
  /\ AccessesMem(SimIF(prog, pc))
  /\ pc' = Settled(prog, Handler)
  /\ UNCHANGED <<prog, retired, halted>>

Execute ==
  /\ ~IsHalt(SimIF(prog, pc))
  /\ \E a \in Targets(prog, pc) : pc' = Settled(prog, a)
  /\ retired' = retired + 1
  /\ UNCHANGED <<prog, halted>>

Next == ~halted /\ (Halt \/ Trap \/ Execute)

Spec == Init /\ [][Next]_pathVars

=============================================================================
