---------------------------- MODULE StagesProofs ----------------------------
(***************************************************************************)
(* What the stage helpers of class Simulator return, for every number of   *)
(* registers, width of values and memory, and where control settles.       *)
(***************************************************************************)
EXTENDS ControlFlow, TLAPS, WellFoundedInduction

(* Arithmetic wraps: the result is a value. *)
LEMMA WrapType ==
  ASSUME NEW n \in Int
  PROVE  Wrap(n) \in Value
BY StagesAssumption DEF Wrap, Value

(* So a sum of values does. *)
LEMMA SumType ==
  ASSUME NEW a \in Value, NEW b \in Value
  PROVE  Wrap(a + b) \in Value
BY StagesAssumption, WrapType DEF Value

LEMMA ValueIsNat == Value \subseteq Nat /\ 0 \in Value /\ 0 \in Reg
BY StagesAssumption DEF Value, Reg

(* The micro-architectural NOP, for each status. *)
LEMMA NopType ==
  ASSUME NEW st \in Status
  PROVE  /\ Nop(st) \in Instruction
         /\ Nop(st).isNop
         /\ Nop(st).word.op = "NOP"
         /\ [Nop(st) EXCEPT !.isNop = FALSE] \in Instruction
BY ValueIsNat DEF Nop, Instruction, PlainWord, Word, Operation

(* simIF delivers an instruction, also from where there is no code. *)
LEMMA SimIFType ==
  ASSUME NEW prog, DOMAIN prog \subseteq Value,
         \A a \in DOMAIN prog : prog[a] \in Word,
         NEW pc \in Value
  PROVE  /\ SimIF(prog, pc) \in Instruction
         /\ SimIF(prog, pc).PC = pc
         /\ ~SimIF(prog, pc).isNop
<1>1. PlainWord("ILLEGAL") \in Word
  BY ValueIsNat DEF PlainWord, Word, Operation
<1>2. FetchWord(prog, pc) \in Word
  BY <1>1 DEF FetchWord
<1>3. Nop("NORMAL") \in Instruction
  BY NopType DEF Status
<1> QED
  BY <1>2, <1>3 DEF SimIF, Instruction

(* simID: an instruction with operands from the register file; an illegal  *)
(* word is not a NOP.                                                      *)
LEMMA SimIDType ==
  ASSUME NEW i \in Instruction, NEW regs \in [Reg -> Value]
  PROVE  /\ SimID(i, regs) \in Instruction
         /\ SimID(i, regs).word = i.word
         /\ SimID(i, regs).isNop = (i.word.op = "NOP")
<1>1. i.word.rs1 \in Reg /\ i.word.rs2 \in Reg
  BY DEF Instruction, Word
<1>2. ReadReg(regs, i.word.rs1) \in Value /\ ReadReg(regs, i.word.rs2) \in Value
  BY <1>1, ValueIsNat DEF ReadReg
<1>3. (i.word.op = "NOP") \in BOOLEAN
  OBVIOUS
<1> QED
  BY <1>2, <1>3 DEF SimID, Instruction, Status

LEMMA FallThroughType ==
  ASSUME NEW pc \in Value
  PROVE  FallThrough(pc) \in Value
BY StagesAssumption, WrapType DEF FallThrough, Value

(* simNextPCResolution stays among the addresses. *)
LEMMA NextPCType ==
  ASSUME NEW i \in Instruction
  PROVE  NextPC(i) \in Value
<1>1. i.PC \in Value /\ i.op1Val \in Value /\ i.word.imm \in Value
  BY DEF Instruction, Word
<1>3. \A v \in Value : v - (v % 2) \in Value
  BY StagesAssumption DEF Value
<1> QED
  BY <1>1, <1>3, SumType, FallThroughType DEF NextPC

(* simEX: every operation has a value. *)
LEMMA SimEXType ==
  ASSUME NEW i \in Instruction
  PROVE  SimEX(i) \in Instruction
<1>1. /\ i.PC \in Value /\ i.op1Val \in Value /\ i.op2Val \in Value
      /\ i.word.imm \in Value
  BY DEF Instruction, Word
<1>3. SimArithLogic(i) \in Value
  BY <1>1, SumType, FallThroughType DEF SimArithLogic
<1> QED
  BY <1>3 DEF SimEX, Instruction, Status

LEMMA MemAddressType ==
  ASSUME NEW i \in Instruction
  PROVE  MemAddress(i) \in Value
BY SumType DEF MemAddress, Instruction, Word

(* simMEM: what is loaded is a value, and what is stored leaves a memory. *)
LEMMA SimMEMType ==
  ASSUME NEW i \in Instruction, NEW mem \in [DataAddresses -> Value]
  PROVE  /\ SimMEM(i, mem) \in Instruction
         /\ MemAfter(i, mem) \in [DataAddresses -> Value]
<1>1. ~Faults(i) /\ AccessesMem(i) => MemAddress(i) \in DataAddresses
  BY DEF Faults
<1>2. Faults(i) \in BOOLEAN
  BY DEF Faults, AccessesMem, ReadsMem, WritesMem
<1>3. ReadsMem(i) => AccessesMem(i)
  BY DEF AccessesMem
<1>4. WritesMem(i) => AccessesMem(i)
  BY DEF AccessesMem
<1>5. SimMEM(i, mem) \in Instruction
  BY <1>1, <1>2, <1>3 DEF SimMEM, Instruction, Status
<1>6. MemAfter(i, mem) \in [DataAddresses -> Value]
  BY <1>1, <1>4 DEF MemAfter, Instruction
<1> QED
  BY <1>5, <1>6

LEMMA ResultType ==
  ASSUME NEW i \in Instruction
  PROVE  Result(i) \in Value
BY DEF Result, Instruction

(* simWB leaves a register file in which x0 is still zero. *)
LEMMA RegsAfterType ==
  ASSUME NEW i \in Instruction, NEW regs \in [Reg -> Value], regs[0] = 0
  PROVE  /\ RegsAfter(i, regs) \in [Reg -> Value]
         /\ RegsAfter(i, regs)[0] = 0
BY ResultType, ValueIsNat DEF RegsAfter, Produces

-----------------------------------------------------------------------------
(* Where control settles.  The walk of Settled is a recursive function: it *)
(* exists, and what it computes, by induction as the absence of a least    *)
(* counterexample.                                                         *)

Below == {pair \in Nat \X Nat : pair[1] < pair[2]}

(* A property of naturals that is not false first anywhere is never false. *)
LEMMA NoLeastCounterexample ==
  ASSUME NEW Bad \in SUBSET Nat,
         \A m \in Bad : \E n \in Bad : n < m
  PROVE  Bad = {}
<1>1. IsWellFoundedOn(Below, Nat)
  BY NatLessThanWellFounded DEF OpToRel, Below
<1> SUFFICES ASSUME Bad # {}
             PROVE  FALSE
  OBVIOUS
<1>2. \E m \in Bad : \A n \in Bad : <<n, m>> \notin Below
  BY <1>1, WFMin
<1> QED
  BY <1>2 DEF Below

Past(prog) == [b \in Value |-> PassOver(prog, b)]

WalkBody(prog, a, last, f) ==
  [n \in 0..last |-> IF n = 0 THEN a ELSE Past(prog)[f[n - 1]]]

Walk(prog, a) == CHOOSE f : f = WalkBody(prog, a, SkipBound, f)

LEMMA SettledIsWalk ==
  ASSUME NEW prog, NEW a
  PROVE  Settled(prog, a) = Walk(prog, a)[SkipBound]
BY Zenon DEF Settled, Walk, WalkBody, Past

LEMMA WalkExists ==
  ASSUME NEW prog, NEW a
  PROVE  \A last \in Nat : \E f : f = WalkBody(prog, a, last, f)
<1> DEFINE Bad == {m \in Nat : ~ \E f : f = WalkBody(prog, a, m, f)}
<1>1. ASSUME NEW m \in Bad
      PROVE  \E n \in Bad : n < m
  <2>1. m # 0
    <3>1. [n \in 0..0 |-> a] = WalkBody(prog, a, 0, [n \in 0..0 |-> a])
      BY DEF WalkBody
    <3> QED
      BY <3>1
  <2>2. SUFFICES ASSUME m - 1 \notin Bad
                 PROVE  FALSE
    BY <2>1
  <2>3. PICK f : f = WalkBody(prog, a, m - 1, f)
    BY <2>1, <2>2
  <2> DEFINE g == [n \in 0..m |-> IF n = m THEN Past(prog)[f[m - 1]]
                                           ELSE f[n]]
  <2>4. ASSUME NEW n \in 0..m
        PROVE  g[n] = IF n = 0 THEN a ELSE Past(prog)[g[n - 1]]
    <3>1. CASE n = 0
      BY <2>1, <2>3, <3>1 DEF WalkBody
    <3>2. CASE n # 0
      <4>1. n - 1 \in 0..(m - 1) /\ n - 1 # m /\ g[n - 1] = f[n - 1]
        BY <3>2
      <4>2. CASE n = m
        BY <2>1, <4>1, <4>2
      <4>3. CASE n # m
        <5>1. n \in 0..(m - 1) /\ g[n] = f[n]
          BY <4>3
        <5>2. f[n] = Past(prog)[f[n - 1]]
          BY <2>3, <3>2, <5>1 DEF WalkBody
        <5> QED
          BY <3>2, <4>1, <5>1, <5>2
      <4> QED
        BY <4>2, <4>3
    <3> QED
      BY <3>1, <3>2
  <2>5. g = [n \in 0..m |-> g[n]]
    OBVIOUS
  <2> HIDE DEF g
  <2>6. g = WalkBody(prog, a, m, g)
    BY <2>4, <2>5 DEF WalkBody
  <2> QED
    BY <2>6
<1>2. Bad = {}
  BY <1>1, NoLeastCounterexample
<1> QED
  BY <1>2

LEMMA PassOverType ==
  ASSUME NEW prog, NEW a \in Value
  PROVE  PassOver(prog, a) \in Value
BY StagesAssumption, FallThroughType DEF PassOver, Value

LEMMA WalkSteps ==
  ASSUME NEW prog, NEW a \in Value
  PROVE  /\ Walk(prog, a)[0] = a
         /\ \A n \in 0..SkipBound : Walk(prog, a)[n] \in Value
         /\ \A n \in 1..SkipBound :
              Walk(prog, a)[n] = PassOver(prog, Walk(prog, a)[n - 1])
<1> DEFINE w == Walk(prog, a)
           Bad == {n \in Nat : n \in 0..SkipBound /\ w[n] \notin Value}
<1>1. \E f : f = WalkBody(prog, a, SkipBound, f)
  BY WalkExists, SkipAssumption
<1>2. w = WalkBody(prog, a, SkipBound, w)
  BY <1>1 DEF Walk
<1> HIDE DEF w
<1>3. \A n \in 0..SkipBound :
        w[n] = IF n = 0 THEN a ELSE Past(prog)[w[n - 1]]
  BY <1>2 DEF WalkBody
<1>4. ASSUME NEW n \in 1..SkipBound, w[n - 1] \in Value
      PROVE  w[n] = PassOver(prog, w[n - 1]) /\ w[n] \in Value
  <2>1. w[n] = Past(prog)[w[n - 1]]
    BY <1>3, SkipAssumption
  <2> QED
    BY <1>4, <2>1, PassOverType DEF Past
<1>5. ASSUME NEW m \in Bad
      PROVE  \E n \in Bad : n < m
  <2>1. m # 0
    BY <1>3, SkipAssumption
  <2>2. m \in 1..SkipBound /\ m - 1 \in 0..SkipBound /\ w[m] \notin Value
    BY <2>1, SkipAssumption
  <2>3. w[m - 1] \notin Value
    BY <1>4, <2>2
  <2> QED
    BY <2>2, <2>3, SkipAssumption
<1>6. Bad = {}
  BY <1>5, NoLeastCounterexample
<1>7. \A n \in 0..SkipBound : w[n] \in Value
  BY <1>6, SkipAssumption
<1>8. \A n \in 1..SkipBound : w[n] = PassOver(prog, w[n - 1])
  <2> SUFFICES ASSUME NEW n \in 1..SkipBound
               PROVE  w[n] = PassOver(prog, w[n - 1])
    OBVIOUS
  <2>1. n - 1 \in 0..SkipBound
    BY SkipAssumption
  <2> QED
    BY <1>4, <1>7, <2>1
<1> QED
  BY <1>3, <1>7, <1>8, SkipAssumption DEF w

LEMMA SettledType ==
  ASSUME NEW prog, NEW a \in Value
  PROVE  Settled(prog, a) \in Value
BY SettledIsWalk, WalkSteps, SkipAssumption

(* Control rests where there is something to do. *)
LEMMA SettledStays ==
  ASSUME NEW prog, NEW a \in Value, PassOver(prog, a) = a
  PROVE  Settled(prog, a) = a
<1> DEFINE w == Walk(prog, a)
           Bad == {n \in Nat : n \in 0..SkipBound /\ w[n] # a}
<1>1. /\ w[0] = a
      /\ \A n \in 1..SkipBound : w[n] = PassOver(prog, w[n - 1])
  BY WalkSteps
<1> HIDE DEF w
<1>2. ASSUME NEW m \in Bad
      PROVE  \E n \in Bad : n < m
  <2>1. m \in 1..SkipBound /\ w[m] # a
    BY <1>1, SkipAssumption
  <2>2. w[m - 1] # a
    BY <1>1, <2>1
  <2> QED
    BY <2>1, <2>2, SkipAssumption
<1>3. Bad = {}
  BY <1>2, NoLeastCounterexample
<1>4. w[SkipBound] = a
  BY <1>3, SkipAssumption
<1> QED
  BY <1>4, SettledIsWalk DEF w

(* Passing over a word leads to the same place. *)
LEMMA SettledPasses ==
  ASSUME NEW prog, Settles(prog), NEW a \in Value
  PROVE  Settled(prog, PassOver(prog, a)) = Settled(prog, a)
<1> DEFINE b == PassOver(prog, a)
           v == Walk(prog, a)
           w == Walk(prog, b)
           Bad == {n \in Nat : n + 1 \in 1..SkipBound /\ w[n] # v[n + 1]}
<1>1. /\ v[0] = a
      /\ \A n \in 1..SkipBound : v[n] = PassOver(prog, v[n - 1])
  BY WalkSteps
<1>0. b \in Value
  BY PassOverType
<1>2. /\ w[0] = b
      /\ \A n \in 1..SkipBound : w[n] = PassOver(prog, w[n - 1])
  BY <1>0, WalkSteps
<1>3. Settled(prog, a) = v[SkipBound] /\ Settled(prog, b) = w[SkipBound]
  BY SettledIsWalk
<1>4. PassOver(prog, v[SkipBound]) = v[SkipBound]
  BY <1>3 DEF Settles
<1>5. b = PassOver(prog, a)
  OBVIOUS
<1> HIDE DEF b, v, w
<1>6. ASSUME NEW m \in Bad
      PROVE  \E n \in Bad : n < m
  <2>1. m # 0
    <3>1. 1 \in 1..SkipBound => v[1] = PassOver(prog, v[1 - 1])
      BY <1>1
    <3>2. v[1 - 1] = a
      BY <1>1
    <3>3. 1 \in 1..SkipBound => w[0] = v[1]
      BY <1>2, <1>5, <3>1, <3>2
    <3>4. m + 1 \in 1..SkipBound /\ w[m] # v[m + 1]
      OBVIOUS
    <3> HIDE DEF Bad
    <3> QED
      BY <3>3, <3>4
  <2>2. w[m] = PassOver(prog, w[m - 1]) /\ v[m + 1] = PassOver(prog, v[m])
    BY <1>1, <1>2, <2>1, SkipAssumption
  <2>3. m - 1 \in Bad
    BY <2>1, <2>2, SkipAssumption
  <2> QED
    BY <2>3
<1>7. Bad = {}
  BY <1>6, NoLeastCounterexample
<1>8. CASE SkipBound = 0
  BY <1>1, <1>2, <1>3, <1>4, <1>5, <1>8 DEF b
<1>9. CASE SkipBound # 0
  <2>1. w[SkipBound - 1] = v[SkipBound]
    BY <1>7, <1>9, SkipAssumption
  <2>2. w[SkipBound] = PassOver(prog, w[SkipBound - 1])
    BY <1>2, <1>9, SkipAssumption
  <2> QED
    BY <1>3, <1>4, <2>1, <2>2 DEF b
<1> QED
  BY <1>8, <1>9

(* The same walk over any function: for an instance of this module, whose  *)
(* words that do nothing are those of the module itself.                   *)
WalkOver(past, a) ==
  LET at[n \in 0..SkipBound] == IF n = 0 THEN a ELSE past[at[n - 1]]
  IN at[SkipBound]

LEMMA SettledWalksOver ==
  ASSUME NEW prog, NEW a
  PROVE  Settled(prog, a) = WalkOver([b \in Value |-> PassOver(prog, b)], a)
BY Zenon DEF Settled, WalkOver

=============================================================================
