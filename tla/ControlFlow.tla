----------------------------- MODULE ControlFlow -----------------------------
(***************************************************************************)
(* Where control goes in a program: past the words that do nothing.        *)
(***************************************************************************)
EXTENDS Stages

CONSTANT SkipBound   \* no more NOPs and illegal words than this in a row

ASSUME SkipAssumption == SkipBound \in Nat

(* A NOP has no effect but to continue, an illegal word none but to        *)
(* continue at the handler.                                                *)
PassOver(prog, a) ==
  LET op == FetchWord(prog, a).op
  IN IF op = "NOP" THEN FallThrough(a)
     ELSE IF op = "ILLEGAL" THEN Handler
     ELSE a

(* The first word from a on that does something. *)
Settled(prog, a) ==
  LET past == [b \in Value |-> PassOver(prog, b)]
      at[n \in 0..SkipBound] == IF n = 0 THEN a ELSE past[at[n - 1]]
  IN at[SkipBound]

(* SkipBound is enough for a program: wherever a walk over words that do   *)
(* nothing starts, it is over by then (an illegal handler leads to itself, *)
(* which is an end as well).                                               *)
Settles(prog) ==
  \A a \in Value : PassOver(prog, Settled(prog, a)) = Settled(prog, a)

(* Where control may go from a word that does something. *)
Targets(prog, a) ==
  LET i == SimIF(prog, a)
      target == Wrap(a + i.word.imm)
  IN IF i.word.op = "JAL" THEN {target}
     ELSE IF i.word.op = "JALR" THEN {v \in Value : v % 2 = 0}
     ELSE IF IsBranch(i) THEN {target, FallThrough(a)}
     ELSE {FallThrough(a)}

=============================================================================
