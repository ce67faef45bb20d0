-------------------------- MODULE FunctionalProofs --------------------------
(***************************************************************************)
(* The functional simulator is type correct, and a call that returns       *)
(* SUCCESS has executed what it was asked for: for every program, memory   *)
(* and way to cut the run into calls.                                      *)
(***************************************************************************)
EXTENDS FunctionalIsa, StagesProofs

LEMMA InitType == Init => TypeOK
<1>1. 0 \in Value /\ 0 \in Nat /\ 0 \in 0..0
  BY ValueIsNat
<1> QED
  BY <1>1, FunctionalAssumption DEF Init, TypeOK

(* The instruction of this step, through the stages. *)
LEMMA InstructionType ==
  ASSUME TypeOK
  PROVE  /\ fetched \in Instruction
         /\ collected \in Instruction
         /\ accessed \in Instruction
<1>1. /\ DOMAIN prog \subseteq Value
      /\ \A a \in DOMAIN prog : prog[a] \in Word
      /\ PC \in Value /\ regs \in [Reg -> Value] /\ mem \in [DataAddresses -> Value]
  BY DEF TypeOK
<1>2. fetched \in Instruction
  BY <1>1, SimIFType DEF fetched
<1>3. collected \in Instruction
  BY <1>1, <1>2, SimIDType DEF collected
<1>4. SimEX(collected) \in Instruction
  BY <1>3, SimEXType
<1>5. accessed \in Instruction
  BY <1>1, <1>4, SimMEMType DEF accessed
<1> QED
  BY <1>2, <1>3, <1>5

(* simInstruction leaves a PC, registers and a memory, also when it        *)
(* returns early or ignores a memory exception; if early, the PC is 0.     *)
LEMMA SimInstructionType ==
  ASSUME TypeOK, SimInstruction
  PROVE  /\ PC' \in Value /\ (returnsEarly => PC' = 0)
         /\ regs' \in [Reg -> Value]
         /\ mem' \in [DataAddresses -> Value]
         /\ din' = din + 1
<1>1. collected \in Instruction /\ accessed \in Instruction
  BY InstructionType
<1>2. nextPCOf \in Value
  BY <1>1, NextPCType, ValueIsNat DEF nextPCOf
<1>3. Result(accessed) \in Value
  BY <1>1, ResultType
<1>4. committedRegs \in [Reg -> Value]
  BY <1>3 DEF committedRegs, TypeOK
<1>5. MemAfter(collected, mem) \in [DataAddresses -> Value]
  BY <1>1, SimMEMType DEF TypeOK
<1> QED
  BY <1>2, <1>4, <1>5 DEF SimInstruction, nextPCOf, TypeOK

LEMMA IterateType ==
  ASSUME TypeOK, Iterate
  PROVE  TypeOK'
<1>1. SimInstruction
  BY DEF Iterate
<1>2. /\ PC' \in Value /\ (returnsEarly => PC' = 0)
      /\ regs' \in [Reg -> Value] /\ mem' \in [DataAddresses -> Value]
      /\ din' = din + 1
  BY <1>1, SimInstructionType
<1>3. status' \in {"SUCCESS", "HALT", "ERROR"}
  BY DEF Iterate, StatusOf
<1>4. /\ DOMAIN prog' \subseteq Value /\ \A a \in DOMAIN prog' : prog'[a] \in Word
  BY DEF Iterate, TypeOK
<1>5. /\ running' \in BOOLEAN
      /\ instructions' \in Counts \cup {0}
  BY DEF Iterate, TypeOK
<1>6. din' \in Nat /\ numInstructions' \in 0..din'
  BY <1>2 DEF Iterate, TypeOK
<1>7. status' # "SUCCESS" => ~running' /\ PC' = 0
  BY <1>2 DEF Iterate, StatusOf, returnsEarly
<1> QED
  BY <1>2, <1>3, <1>4, <1>5, <1>6, <1>7 DEF TypeOK

LEMMA CallType ==
  ASSUME TypeOK, RunInstructions \/ Return \/ Finished \/ UNCHANGED vars
  PROVE  TypeOK'
<1>1. CASE RunInstructions
  BY <1>1 DEF RunInstructions, TypeOK, simulatorVars
<1>2. CASE Return
  BY <1>2 DEF Return, TypeOK, simulatorVars
<1>3. CASE Finished \/ UNCHANGED vars
  BY <1>3 DEF Finished, TypeOK, vars, simulatorVars, callVars
<1> QED
  BY <1>1, <1>2, <1>3

(* Every variable keeps a value of its C++ type (x0 any value); no call    *)
(* has executed more than the simulator counts, whatever it ended at, and  *)
(* behind the end of the program nothing runs and the PC is 0.             *)
THEOREM FunctionalTypeCorrect == Spec => []TypeOK
<1>1. TypeOK /\ [Next]_vars => TypeOK'
  BY IterateType, CallType DEF Next
<1> QED
  BY <1>1, InitType, PTL DEF Spec

-----------------------------------------------------------------------------
(* Within a call. *)

(* A call never executes more than it was asked for. *)
NotTooMany == instructions = 0 \/ numInstructions <= instructions

(* A call that wants no more was asked for some, and has them. *)
LEMMA EnoughIsAll ==
  ASSUME TypeOK, NotTooMany, ~WantsMore(instructions, numInstructions)
  PROVE  numInstructions = instructions /\ instructions > 0
BY FunctionalAssumption DEF TypeOK, NotTooMany, WantsMore

LEMMA NotTooManyStep ==
  ASSUME TypeOK, NotTooMany, [Next]_vars
  PROVE  NotTooMany'
<1>1. instructions \in Nat /\ numInstructions \in Nat
  BY FunctionalAssumption DEF TypeOK
<1>2. CASE RunInstructions
  <2>1. instructions' \in Nat /\ numInstructions' = 0
    BY <1>2, FunctionalAssumption DEF RunInstructions
  <2> QED
    BY <2>1 DEF NotTooMany
<1>3. CASE Iterate
  BY <1>1, <1>3 DEF Iterate, WantsMore, NotTooMany
<1>4. CASE Return \/ Finished \/ UNCHANGED vars
  BY <1>4 DEF Return, Finished, vars, callVars, NotTooMany
<1> QED
  BY <1>2, <1>3, <1>4 DEF Next

(* Only Return ends a call with SUCCESS: an iteration that ends it has met *)
(* HALT or an illegal instruction.                                         *)
LEMMA SuccessIsReturn ==
  ASSUME [Next]_vars, running, ~running', status' = "SUCCESS"
  PROVE  ~WantsMore(instructions, numInstructions)
<1>1. ~RunInstructions
  BY DEF RunInstructions
<1>2. ~Iterate
  BY DEF Iterate
<1>3. ~Finished /\ ~UNCHANGED vars
  BY DEF Finished, vars, callVars
<1> QED
  BY <1>1, <1>2, <1>3 DEF Next, Return

(* A call of runInstructions() that returns SUCCESS has executed exactly   *)
(* as many instructions as it was asked for, and one that was asked for    *)
(* all (0) never returns SUCCESS.                                          *)
THEOREM SuccessMeansAllExecuted == Spec => SuccessMeansAll
<1>1. Init => NotTooMany
  BY DEF Init, NotTooMany
<1>2. TypeOK /\ NotTooMany /\ [Next]_vars => NotTooMany'
  BY NotTooManyStep
<1>3. TypeOK /\ NotTooMany /\ [Next]_vars
        => [running /\ ~running' /\ status' = "SUCCESS"
              => numInstructions = instructions /\ instructions > 0]_vars
  BY SuccessIsReturn, EnoughIsAll
<1> QED
  BY <1>1, <1>2, <1>3, FunctionalTypeCorrect, PTL DEF Spec, SuccessMeansAll

-----------------------------------------------------------------------------
(* Isa is instantiated with the operators of the functional simulator.     *)

LEMMA SameWords ==
  /\ ISA!Value = Value
  /\ ISA!Word = Word
  /\ ISA!Reg = Reg
  /\ \A n : ISA!Wrap(n) = Wrap(n)
  /\ \A a : ISA!FallThrough(a) = FallThrough(a)
  /\ \A p, a : ISA!FetchWord(p, a) = FetchWord(p, a)
BY DEF ISA!Value, Value, ISA!Word, Word, ISA!Operation, Operation, ISA!Reg,
       Reg, ISA!Wrap, Wrap, ISA!FallThrough, FallThrough, ISA!FetchWord,
       FetchWord, ISA!PlainWord, PlainWord

LEMMA SameSignals ==
  /\ \A p, a : ISA!SimIF(p, a) = SimIF(p, a)
  /\ \A i : /\ ISA!IsHalt(i) = IsHalt(i)
           /\ ISA!ReadsMem(i) = ReadsMem(i)
           /\ ISA!WritesMem(i) = WritesMem(i)
           /\ ISA!AccessesMem(i) = AccessesMem(i)
           /\ ISA!DoesArithLogic(i) = DoesArithLogic(i)
           /\ ISA!WritesRd(i) = WritesRd(i)
           /\ ISA!ReadsRs1(i) = ReadsRs1(i)
           /\ ISA!ReadsRs2(i) = ReadsRs2(i)
           /\ ISA!BranchCondition(i) = BranchCondition(i)
BY SameWords, Zenon
   DEF ISA!SimIF, SimIF, ISA!Nop, Nop, ISA!PlainWord, PlainWord,
       ISA!IsHalt, IsHalt, ISA!AccessesMem, AccessesMem, ISA!ReadsMem,
       ReadsMem, ISA!WritesMem, WritesMem, ISA!DoesArithLogic, DoesArithLogic,
       ISA!WritesRd, WritesRd, ISA!ReadsRs1, ReadsRs1, ISA!ReadsRs2, ReadsRs2,
       ISA!BranchCondition, BranchCondition

LEMMA SameStages ==
  /\ \A i, rf : ISA!SimID(i, rf) = SimID(i, rf)
  /\ \A i : ISA!SimEX(i) = SimEX(i)
  /\ \A i : ISA!NextPC(i) = NextPC(i)
  /\ \A i : ISA!MemAddress(i) = MemAddress(i)
  /\ \A i, m : ISA!SimMEM(i, m) = SimMEM(i, m)
  /\ \A i, m : ISA!MemAfter(i, m) = MemAfter(i, m)
  /\ \A i, rf : ISA!RegsAfter(i, rf) = RegsAfter(i, rf)
<1>1. \A rf, r : ISA!ReadReg(rf, r) = ReadReg(rf, r)
  BY Zenon DEF ISA!ReadReg, ReadReg
<1>2. \A i : /\ ISA!SimArithLogic(i) = SimArithLogic(i)
             /\ ISA!MemAddress(i) = MemAddress(i)
             /\ ISA!NextPC(i) = NextPC(i)
  BY SameWords, SameSignals, Zenon
     DEF ISA!SimArithLogic, SimArithLogic, ISA!MemAddress, MemAddress,
         ISA!NextPC, NextPC
<1>3. \A i : /\ ISA!Faults(i) = Faults(i)
             /\ ISA!Result(i) = Result(i)
             /\ \A r : ISA!Produces(i, r) = Produces(i, r)
  BY <1>2, SameSignals, Zenon
     DEF ISA!Faults, Faults, ISA!Result, Result, ISA!Produces, Produces
<1>4. \A i, rf : ISA!SimID(i, rf) = SimID(i, rf)
  BY <1>1, SameSignals, Zenon DEF ISA!SimID, SimID
<1>5. \A i : ISA!SimEX(i) = SimEX(i)
  BY <1>2, SameSignals, Zenon DEF ISA!SimEX, SimEX
<1>6. \A i, m : ISA!SimMEM(i, m) = SimMEM(i, m)
  BY <1>2, <1>3, SameSignals, Zenon DEF ISA!SimMEM, SimMEM
<1>7. \A i, m : ISA!MemAfter(i, m) = MemAfter(i, m)
  BY <1>2, <1>3, SameSignals, Zenon DEF ISA!MemAfter, MemAfter
<1>8. \A i, rf : ISA!RegsAfter(i, rf) = RegsAfter(i, rf)
  BY <1>3, SameWords, Zenon DEF ISA!RegsAfter, RegsAfter
<1> QED
  BY <1>2, <1>4, <1>5, <1>6, <1>7, <1>8

LEMMA SamePassOver ==
  \A p, a : ISA!PassOver(p, a) = PassOver(p, a)
BY SameWords, Zenon DEF ISA!PassOver, PassOver

LEMMA SameSettled ==
  \A p, a : ISA!Settled(p, a) = Settled(p, a)
<1> SUFFICES ASSUME NEW p, NEW a
             PROVE  ISA!Settled(p, a) = Settled(p, a)
  OBVIOUS
<1> DEFINE isaPast == [b \in ISA!Value |-> ISA!PassOver(p, b)]
           past == [b \in Value |-> PassOver(p, b)]
<1>1. isaPast = past
  BY SameWords, SamePassOver, Zenon
<1>2. Settled(p, a) = WalkOver(past, a)
  BY SettledWalksOver
<1>3. ISA!Settled(p, a) = WalkOver(isaPast, a)
  BY Zenon DEF ISA!Settled, WalkOver
<1> QED
  BY <1>1, <1>2, <1>3, Zenon

LEMMA SameCache ==
  /\ ISA!DC!EmptyCache = DC!EmptyCache
  /\ \A c, a : ISA!DC!Access(c, a) = DC!Access(c, a)
BY DEF DC!EmptyCache, DC!Access, DC!IsHit, DC!SetIndex, DC!Line,
       DC!Way, DC!NumSets, DC!IndexSpan, DC!OffsetSpan, DC!indexBits,
       DC!offsetBits, DC!Log2, DC!IndexOf, DC!TagOf, DC!Block, DC!ChosenWay,
       DC!VictimWay, DC!FirstWay, DC!HitWays, DC!InvalidWays, DC!OldestWays,
       ISA!DC!EmptyCache, ISA!DC!Access, ISA!DC!IsHit,
       ISA!DC!SetIndex, ISA!DC!Line, ISA!DC!Way, ISA!DC!NumSets,
       ISA!DC!IndexSpan, ISA!DC!OffsetSpan, ISA!DC!indexBits,
       ISA!DC!offsetBits, ISA!DC!Log2, ISA!DC!IndexOf, ISA!DC!TagOf,
       ISA!DC!Block, ISA!DC!ChosenWay, ISA!DC!VictimWay, ISA!DC!FirstWay,
       ISA!DC!HitWays, ISA!DC!InvalidWays, ISA!DC!OldestWays

-----------------------------------------------------------------------------
(* Up to the first memory exception an iteration is a step of Isa or none. *)

(* x0 as operands show it. *)
shownRegs == [regs EXCEPT ![0] = 0]

restPC == Settled(prog, IF status = "SUCCESS" THEN PC ELSE lastPC)

Unmoved ==
  /\ prog' = prog /\ restPC' = restPC /\ shownRegs' = shownRegs
  /\ mem' = mem /\ dCache' = dCache
  /\ din' - uncounted' = din - uncounted
  /\ (status = "HALT")' = (status = "HALT")

LEMMA UnmovedIsStutter ==
  ASSUME Unmoved
  PROVE  UNCHANGED ISA!isaVars
BY DEF Unmoved, ISA!isaVars, restPC, shownRegs

HistoryInv ==
  /\ TypeOK
  /\ uncounted \in Nat
  /\ Settles(prog)
  /\ running => status = "SUCCESS"

(* What is written to x0 is not seen. *)
LEMMA SameOperands ==
  ASSUME TypeOK
  PROVE  SimID(fetched, shownRegs) = collected
<1>1. fetched \in Instruction
  BY InstructionType
<1>2. \A r \in Reg : ReadReg(shownRegs, r) = ReadReg(regs, r)
  BY DEF ReadReg, shownRegs, TypeOK
<1>3. fetched.word.rs1 \in Reg /\ fetched.word.rs2 \in Reg
  BY <1>1 DEF Instruction, Word
<1> QED
  BY <1>2, <1>3, Zenon DEF SimID, collected

(* What is committed, without x0, is what Isa has after the instruction. *)
LEMMA SameCommit ==
  ASSUME TypeOK, ~accessed.isNop
  PROVE  [committedRegs EXCEPT ![0] = 0] = RegsAfter(accessed, shownRegs)
<1>1. accessed \in Instruction /\ accessed.word.rd \in Reg
  BY InstructionType DEF Instruction, Word
<1>2. regs \in [Reg -> Value] /\ 0 \in Reg
  BY ValueIsNat DEF TypeOK
<1>3. CASE WritesRd(accessed)
  BY <1>1, <1>2, <1>3 DEF committedRegs, RegsAfter, shownRegs, Produces
<1>4. CASE ~WritesRd(accessed)
  BY <1>1, <1>2, <1>4 DEF committedRegs, RegsAfter, shownRegs, Produces
<1> QED
  BY <1>3, <1>4

LEMMA FetchedFacts ==
  ASSUME TypeOK
  PROVE  /\ fetched.word = FetchWord(prog, PC)
         /\ collected.word = fetched.word /\ collected.PC = PC
         /\ accessed.word = fetched.word
         /\ accessed.isNop = (fetched.word.op = "NOP")
         /\ PC \in Value
<1>1. fetched \in Instruction /\ collected \in Instruction
  BY InstructionType
<1>2. fetched.word = FetchWord(prog, PC) /\ fetched.PC = PC
  BY DEF fetched, SimIF, Nop
<1>3. /\ collected.word = fetched.word /\ collected.PC = PC
      /\ collected.isNop = (fetched.word.op = "NOP")
  BY <1>1, <1>2 DEF collected, SimID, Instruction
<1>4. /\ SimEX(collected).word = fetched.word
      /\ SimEX(collected).isNop = collected.isNop
      /\ SimEX(collected) \in Instruction
  BY <1>1, <1>3, SimEXType DEF SimEX, Instruction
<1>5. accessed.word = fetched.word /\ accessed.isNop = collected.isNop
  BY <1>4 DEF accessed, SimMEM, Instruction
<1> QED
  BY <1>2, <1>3, <1>5 DEF TypeOK

(* A NOP and an illegal word are passed over. *)
LEMMA NothingDone ==
  ASSUME HistoryInv, Iterate, Remember, fetched.word.op \in {"NOP", "ILLEGAL"}
  PROVE  Unmoved
<1>1. /\ fetched.word = FetchWord(prog, PC) /\ collected.word = fetched.word
      /\ collected.PC = PC /\ PC \in Value
      /\ accessed.word = fetched.word
  BY FetchedFacts DEF HistoryInv
<1>2. status = "SUCCESS" /\ prog' = prog
  BY DEF Iterate, HistoryInv
<1>3. dCache' = dCache /\ lastPC' = PC /\ uncounted' = uncounted + 1
  BY <1>1 DEF Remember, AccessesMem, ReadsMem, WritesMem
<1>4. din' = din + 1 /\ din \in Nat /\ uncounted \in Nat
  BY DEF Iterate, SimInstruction, HistoryInv, TypeOK
<1>5. din' - uncounted' = din - uncounted
  BY <1>3, <1>4
<1>6. regs' = regs /\ mem' = mem
  BY <1>1 DEF Iterate, SimInstruction, committedRegs, WritesRd, MemAfter,
              WritesMem
<1>7. status' # "HALT"
  BY DEF Iterate, StatusOf, IsHalt
<1>8. restPC' = restPC
  <2>1. CASE fetched.word.op = "NOP"
    <3>1. status' = "SUCCESS" /\ ~returnsEarly
      BY <2>1 DEF Iterate, StatusOf, IsHalt, IsLegal, returnsEarly
    <3>2. PC' = FallThrough(PC)
      BY <1>1, <2>1, <3>1 DEF Iterate, SimInstruction, nextPCOf, NextPC,
                              BranchCondition
    <3>3. PC' = PassOver(prog, PC)
      BY <1>1, <2>1, <3>2 DEF PassOver
    <3>4. Settled(prog, PC') = Settled(prog, PC)
      BY <1>1, <3>3, SettledPasses DEF HistoryInv
    <3> QED
      BY <1>2, <3>1, <3>4 DEF restPC
  <2>2. CASE fetched.word.op = "ILLEGAL"
    <3>1. status' = "ERROR"
      BY <2>2 DEF Iterate, StatusOf, IsHalt, IsLegal
    <3> QED
      BY <1>2, <1>3, <3>1 DEF restPC
  <2> QED
    BY <2>1, <2>2
<1> QED
  BY <1>2, <1>3, <1>5, <1>6, <1>7, <1>8 DEF Unmoved, shownRegs

(* Any other instruction is executed. *)
LEMMA InstructionDone ==
  ASSUME HistoryInv, Iterate, Remember, ~trapped',
         fetched.word.op \notin {"NOP", "ILLEGAL"}
  PROVE  ISA!Next
<1>1. /\ fetched.word = FetchWord(prog, PC) /\ collected.word = fetched.word
      /\ collected.PC = PC /\ PC \in Value
      /\ accessed.word = fetched.word /\ ~accessed.isNop
  BY FetchedFacts DEF HistoryInv
<1>2. status = "SUCCESS" /\ prog' = prog
  BY DEF Iterate, HistoryInv
<1>3. /\ lastPC' = PC /\ uncounted' = uncounted /\ ~accessed.memException
      /\ dCache' = IF AccessesMem(collected)
                     THEN DC!Access(dCache, MemAddress(collected)) ELSE dCache
  BY DEF Remember
<1>4. din' - uncounted' = (din - uncounted) + 1
  <2>1. din' = din + 1 /\ din \in Nat /\ uncounted \in Nat
    BY DEF Iterate, SimInstruction, HistoryInv, TypeOK
  <2> QED
    BY <1>3, <2>1
<1>5. restPC = PC
  <2>1. PassOver(prog, PC) = PC
    BY <1>1 DEF PassOver
  <2> QED
    BY <1>1, <1>2, <2>1, SettledStays DEF restPC
<1>6. ISA!decoded = collected /\ ISA!executed = accessed
  <2>1. ISA!SimIF(prog, restPC) = fetched
    BY <1>5, SameSignals DEF fetched
  <2>2. SimID(fetched, shownRegs) = collected
    BY SameOperands DEF HistoryInv
  <2>3. ISA!decoded = collected
    BY <2>1, <2>2, SameStages DEF ISA!decoded, restPC, shownRegs
  <2> QED
    BY <2>3, SameStages DEF ISA!executed, accessed
<1>7. CASE IsHalt(fetched)
  <2>1. /\ status' = "HALT" /\ regs' = regs /\ mem' = mem
    BY <1>7 DEF Iterate, StatusOf, SimInstruction, returnsEarly
  <2>2. dCache' = dCache /\ ISA!IsHalt(ISA!decoded)
    BY <1>1, <1>3, <1>6, <1>7, SameSignals
       DEF IsHalt, AccessesMem, ReadsMem, WritesMem
  <2>3. restPC' = restPC
    BY <1>2, <1>3, <2>1 DEF restPC
  <2>4. ISA!Halt
    BY <1>2, <1>4, <2>1, <2>2, <2>3 DEF ISA!Halt, restPC, shownRegs
  <2> QED
    BY <1>2, <2>4 DEF ISA!Next
<1>8. CASE ~IsHalt(fetched)
  <2>1. /\ status' = "SUCCESS" /\ ~returnsEarly
        /\ regs' = committedRegs /\ mem' = MemAfter(collected, mem)
        /\ PC' = NextPC(collected)
    BY <1>8 DEF Iterate, StatusOf, SimInstruction, returnsEarly, IsLegal, nextPCOf
  <2>2. shownRegs' = ISA!RegsAfter(ISA!executed, shownRegs)
    BY <1>1, <1>6, <2>1, SameCommit, SameStages DEF shownRegs, HistoryInv
  <2>3. restPC' = ISA!Settled(prog, ISA!NextPC(ISA!decoded))
    BY <1>2, <1>6, <2>1, SameSettled, SameStages DEF restPC
  <2>4. mem' = ISA!MemAfter(ISA!decoded, mem)
    BY <1>6, <2>1, SameStages
  <2>5. dCache' = IF ISA!AccessesMem(ISA!decoded)
                    THEN ISA!DC!Access(dCache, ISA!MemAddress(ISA!decoded))
                    ELSE dCache
    BY <1>3, <1>6, SameSignals, SameStages, SameCache
  <2>6. ~ISA!IsHalt(ISA!decoded) /\ ~ISA!executed.memException
    BY <1>1, <1>3, <1>6, <1>8, SameSignals DEF IsHalt
  <2>7. ISA!Execute
    BY <1>2, <1>4, <2>1, <2>2, <2>3, <2>4, <2>5, <2>6
       DEF ISA!Execute, restPC, shownRegs
  <2> QED
    BY <1>2, <2>7 DEF ISA!Next
<1> QED
  BY <1>7, <1>8

LEMMA HistoryInvStep ==
  ASSUME HistoryInv, [HNext]_<<vars, history>>
  PROVE  HistoryInv'
<1>1. [Next]_vars /\ prog' = prog
  BY DEF HNext, Next, vars, Iterate, RunInstructions, Return, Finished
<1>2. TypeOK'
  BY <1>1, IterateType, CallType DEF HistoryInv, Next
<1>3. uncounted' \in Nat
  BY DEF HNext, Remember, history, HistoryInv
<1>4. Settles(prog)'
  BY <1>1 DEF HistoryInv, Settles
<1>5. running' => status' = "SUCCESS"
  BY <1>1 DEF HistoryInv, Next, Iterate, RunInstructions, Return, Finished,
              vars, callVars
<1> QED
  BY <1>2, <1>3, <1>4, <1>5 DEF HistoryInv

LEMMA HistoryStep ==
  ASSUME HistoryInv, [HNext]_<<vars, history>>
  PROVE  [trapped' \/ ISA!Next]_(ISA!isaVars)
<1>1. CASE Iterate /\ Remember
  BY <1>1, NothingDone, InstructionDone, UnmovedIsStutter
<1>2. CASE ~(Iterate /\ Remember)
  <2>1. UNCHANGED <<prog, PC, regs, mem, din, status, dCache, lastPC, uncounted>>
    BY <1>2 DEF HNext, RunInstructions, Return, Finished, vars, history,
                simulatorVars
  <2>2. Unmoved
    BY <2>1 DEF Unmoved, restPC, shownRegs
  <2> QED
    BY <2>2, UnmovedIsStutter
<1> QED
  BY <1>1, <1>2

LEMMA HistoryInitial ==
  ASSUME HInit
  PROVE  HistoryInv /\ ISA!Init
<1>1. HistoryInv
  BY InitType, SettlesAssumption DEF HInit, Init, HistoryInv
<1>2. shownRegs = [r \in Reg |-> 0]
  BY DEF HInit, Init, shownRegs
<1>3. prog \in [DOMAIN prog -> ISA!Word]
  BY FunctionalAssumption, SameWords DEF HInit, Init
<1>4. restPC = ISA!Settled(prog, 0)
  BY SameSettled DEF HInit, Init, restPC
<1>5. ISA!Init
  BY <1>2, <1>3, <1>4, SameWords, SameCache
     DEF HInit, Init, ISA!Init, restPC, shownRegs
<1> QED
  BY <1>1, <1>5

(* Up to the first memory exception the functional simulator executes the  *)
(* instruction set of Isa, for every program, memory and way to cut the    *)
(* run into calls: x0 is written but never seen, NOPs and illegal words    *)
(* are passed over, and the rest has the same effect and the same count.   *)
THEOREM FunctionalImplementsIsa == HSpec => ExecutesIsa
<1>1. HInit => HistoryInv /\ ISA!Init
  BY HistoryInitial
<1>2. HistoryInv /\ [HNext]_<<vars, history>> => HistoryInv'
  BY HistoryInvStep
<1>3. HistoryInv /\ [HNext]_<<vars, history>>
        => [trapped' \/ ISA!Next]_(ISA!isaVars)
  BY HistoryStep
<1> QED
  BY <1>1, <1>2, <1>3, PTL DEF HSpec, ExecutesIsa

=============================================================================
