---------------------------- MODULE MCFunctional ----------------------------
(* An instance of the functional simulator for TLC. *)
EXTENDS FunctionalIsa, ProgramFamilies

MCMemory == Memory
MCDataAddresses == DOMAIN Memory

(* x0 as destination and as source. *)
ZeroAlphabet ==
  {W("ADDI", 0, 1, 0, 5), W("LOAD", 0, 0, 0, 96), W("ADD", 1, 0, 2, 0),
   W("STORE", 0, 0, 0, 96), Load2}

MCPrograms == Bodies(3, Alphabet) \cup Bodies(3, ZeroAlphabet) \cup Loops

(* As many as there are, one (runTillHalt), and batches of two. *)
MCCounts == {0, 1, 2}

=============================================================================
