----------------------------- MODULE MCPipeline -----------------------------
(* Instances of the pipeline for TLC. *)
EXTENDS PipelineIsa, ProgramFamilies

MCMemory == Memory
MCDataAddresses == DOMAIN Memory

AllPrograms == Bodies(3, Alphabet) \cup Loops
ShortPrograms == Bodies(2, Alphabet)
DataPrograms == Bodies(3, DataAlphabet)
IllegalPrograms ==
  {Image(<<x, y, Illegal0>>) : x \in Alphabet, y \in Alphabet \ {Halt0}}

(* Miss penalties: two cycles, one cycle (too short for                   *)
(* justFinishedIStall), and an odd D-stall (see NoIllegalInDStall).        *)
TwoCycles == {[i |-> 2, d |-> 2]}
OddStalls == {[i |-> 2, d |-> 3]}
OneCycle == {[i |-> 1, d |-> 1]}

SupportedPrograms ==
  {p \in Bodies(3, Alphabet) \cup Bodies(4, DataAlphabet) \cup Loops :
     Supported(p, 3)}

=============================================================================
