----------------------------- MODULE Functional -----------------------------
(***************************************************************************)
(* The functional simulator: funct.cpp and Simulator::simInstruction.      *)
(* Instructions are executed one at a time and completely; the caller asks *)
(* for a number of them, 0 for as many as there are, and asks again until  *)
(* the answer is not SUCCESS.                                              *)
(***************************************************************************)
EXTENDS Stages

CONSTANTS
  Programs,        \* the programs: functions from code addresses to words
  InitialMemory,   \* contents of the data memory at reset
  Counts           \* how many instructions the caller asks for

ASSUME FunctionalAssumption ==
  /\ \A p \in Programs : DOMAIN p \subseteq Value /\ p \in [DOMAIN p -> Word]
  /\ InitialMemory \in [DataAddresses -> Value]
  /\ Counts \subseteq Nat

VARIABLES
  prog,              \* the program
  PC,                \* static PC of funct.cpp
  regs, mem, din,    \* state of class Simulator
  running,           \* inside runInstructions()
  instructions,      \* its argument
  numInstructions,   \* its local count
  status             \* what it returned last: "SUCCESS", "HALT" or "ERROR"

simulatorVars == <<PC, regs, mem, din>>

callVars == <<running, instructions, numInstructions>>

vars == <<prog, simulatorVars, callVars, status>>

Init ==
  /\ prog \in Programs
  /\ PC = 0
  /\ regs = [r \in Reg |-> 0]
  /\ mem = InitialMemory
  /\ din = 0
  /\ running = FALSE
  /\ instructions = 0
  /\ numInstructions = 0
  /\ status = "SUCCESS"

-----------------------------------------------------------------------------
(* simInstruction. *)

(* The instruction with its operands, its result and its exception.        *)
fetched == SimIF(prog, PC)

collected == SimID(fetched, regs)

accessed == SimMEM(SimEX(collected), mem)

returnsEarly == ~IsLegal(fetched) \/ IsHalt(fetched)

(* A memory exception is noted and has no other effect: what was not       *)
(* loaded is 0.  simCommit writes x0 like any register; it is the reading  *)
(* of operands that makes it 0.                                            *)
committedRegs ==
  IF WritesRd(accessed) THEN [regs EXCEPT ![accessed.word.rd] = Result(accessed)]
  ELSE regs

(* An instruction that returns early has the nextPC it was made with.      *)
nextPCOf == IF returnsEarly THEN 0 ELSE NextPC(collected)

SimInstruction_CountsCompleted ==
  /\ din' = IF returnsEarly THEN din ELSE din + 1
  /\ PC' = nextPCOf
  /\ IF returnsEarly
       THEN UNCHANGED <<regs, mem>>
       ELSE /\ regs' = committedRegs
            /\ mem' = MemAfter(collected, mem)

SimInstruction ==
  /\ din' = din + 1
  /\ PC' = nextPCOf
  /\ IF returnsEarly
       THEN UNCHANGED <<regs, mem>>
       ELSE /\ regs' = committedRegs
            /\ mem' = MemAfter(collected, mem)

-----------------------------------------------------------------------------
(* runInstructions. *)

RunInstructions ==
  /\ ~running /\ status = "SUCCESS"
  /\ running' = TRUE
  /\ instructions' \in Counts
  /\ numInstructions' = 0
  /\ UNCHANGED <<prog, simulatorVars, status>>

WantsMore_OneMore(wanted, done) == wanted = 0 \/ done <= wanted

WantsMore_ZeroIsNone(wanted, done) == done < wanted

WantsMore(wanted, done) == wanted = 0 \/ done < wanted

StatusOf(i) ==
  IF IsHalt(i) THEN "HALT" ELSE IF ~IsLegal(i) THEN "ERROR" ELSE "SUCCESS"

Iterate ==
  /\ running /\ WantsMore(instructions, numInstructions)
  /\ SimInstruction
  /\ numInstructions' = numInstructions + 1
  /\ status' = StatusOf(fetched)
  /\ running' = (status' = "SUCCESS")
  /\ UNCHANGED <<prog, instructions>>

Return ==
  /\ running /\ ~WantsMore(instructions, numInstructions)
  /\ running' = FALSE
  /\ UNCHANGED <<prog, simulatorVars, instructions, numInstructions, status>>

(* runTillHalt() has returned. *)
Finished == status # "SUCCESS" /\ UNCHANGED vars

Next == RunInstructions \/ Iterate \/ Return \/ Finished

Spec == Init /\ [][Next]_vars

(* One thread that does nothing else. *)
FairSpec == Spec /\ WF_vars(Next)

-----------------------------------------------------------------------------
(* Properties. *)

(* Every variable has a value of its C++ type (x0 any one); what a call    *)
(* has executed is part of what the simulator has executed, the HALT or    *)
(* illegal word it ends at included; and the program that has ended is not *)
(* run on and leaves the PC of the instruction that returned early.        *)
TypeOK ==
  /\ DOMAIN prog \subseteq Value /\ \A a \in DOMAIN prog : prog[a] \in Word
  /\ PC \in Value
  /\ regs \in [Reg -> Value]
  /\ mem \in [DataAddresses -> Value]
  /\ din \in Nat
  /\ running \in BOOLEAN
  /\ instructions \in Counts \cup {0}
  /\ numInstructions \in 0..din
  /\ status \in {"SUCCESS", "HALT", "ERROR"}
  /\ status # "SUCCESS" => ~running /\ PC = 0

(* "return SUCCESS if count of executed instructions == desired            *)
(* intructions" (funct.cpp): a call that returns SUCCESS has executed as   *)
(* many as it was asked for, and one that was asked for 0 never does.      *)
SuccessMeansAll ==
  [][running /\ ~running' /\ status' = "SUCCESS"
       => numInstructions = instructions /\ instructions > 0]_vars

(* Every program ends, however its run is cut into calls, also one that    *)
(* goes on behind a memory exception.                                      *)
Ends == <>(status # "SUCCESS")

=============================================================================
