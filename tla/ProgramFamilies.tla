--------------------------- MODULE ProgramFamilies ---------------------------
(***************************************************************************)
(* The programs the pipeline is model-checked on: every body of a given    *)
(* length over a small alphabet, followed by HALT, with an exception       *)
(* handler and two doublewords of data.                                    *)
(***************************************************************************)
EXTENDS Stages, Sequences, TLC

W(op, rd, rs1, rs2, imm) ==
  [op |-> op, rd |-> rd, rs1 |-> rs1, rs2 |-> rs2, imm |-> imm]

HandlerAddress == 64

Memory == (96 :> 8) @@ (104 :> 12)

(* Loads are from 96, from 104, from what x1 points at, and from nowhere.  *)
Load1 == W("LOAD", 1, 0, 0, 96)
Load2 == W("LOAD", 2, 0, 0, 104)
LoadAtX1 == W("LOAD", 2, 1, 0, 96)
LoadFault == W("LOAD", 1, 0, 0, 112)
Store1 == W("STORE", 0, 0, 1, 96)
StoreFault == W("STORE", 0, 0, 1, 112)
Increment1 == W("ADDI", 1, 1, 0, 1)
Add == W("ADD", 1, 1, 2, 0)
SkipIfEqual == W("BEQ", 0, 1, 2, 8)
SkipUnlessEqual == W("BNE", 0, 1, 2, 8)
Skip == W("JAL", 0, 0, 0, 8)
JumpForward == W("JALR", 2, 1, 0, 12)
Nop0 == PlainWord("NOP")
Halt0 == PlainWord("HALT")
Illegal0 == PlainWord("ILLEGAL")

(* Every operation; no jump goes back, so that every program ends. *)
Alphabet ==
  {Load1, Load2, LoadAtX1, LoadFault, Store1, StoreFault, Increment1, Add,
   SkipIfEqual, SkipUnlessEqual, Skip, JumpForward, Nop0, Halt0, Illegal0}

(* What competes for operands. *)
DataAlphabet == {Load1, LoadAtX1, Store1, Increment1, Add, SkipUnlessEqual}

HandlerCode == <<W("ADDI", 3, 3, 0, 1), Halt0>>

(* The image of a body: from address 0, with the handler at its place. *)
Image(body) ==
  LET code == body \o <<Halt0>>
      codeAddress == {4 * (k - 1) : k \in DOMAIN code}
      handlerAddress == {HandlerAddress + 4 * (k - 1) : k \in DOMAIN HandlerCode}
  IN [a \in codeAddress \cup handlerAddress |->
        IF a \in codeAddress
          THEN code[(a \div 4) + 1]
          ELSE HandlerCode[((a - HandlerAddress) \div 4) + 1]]

Bodies(n, words) == {Image(b) : b \in [1..n -> words]}

(* Loops, which run from a warm I-cache: x1 counts to the value at 104,    *)
(* by threes, or to the value a load in the loop gives.                    *)
Loops ==
  {Image(<<Load2, W("ADDI", 1, 1, 0, 3), W("BNE", 0, 1, 2, 124)>>),
   Image(<<W("ADDI", 1, 1, 0, 6), Load2, Nop0, W("BNE", 0, 1, 2, 116)>>),
   Image(<<W("ADDI", 1, 1, 0, 4), Store1, Nop0, W("LOAD", 3, 0, 0, 96),
           W("LOAD", 2, 0, 0, 104), W("BNE", 0, 2, 3, 108)>>)}

=============================================================================
