# A TLA+ model of the RV64I pipeline simulator

This directory specifies, model-checks and proves properties of the simulator
in `src/`: a cycle-level model of a five-stage RISC-V pipeline with an I-cache
and a D-cache, and a functional simulator that executes the same programs one
instruction at a time.

## 1. The system

| component | code | state | operations |
|---|---|---|---|
| Cache | `cache.cpp/.h` | `sets` (lines: valid, tag, stamp), `hits`, `misses`, `globalLRUCounter` | constructor, `access` |
| Cycle simulator | `cycle.cpp/.h` | file-static: `pipelineInfo` (five instructions), `PC`, `squashNextIF`, `iStallLeft`, `dStallLeft`, `justFinishedIStall`, statistics; owns a `Simulator` and two `Cache`s | `initSimulator`, `runCycles`, `runTillHalt`, `finalizeSimulator` |
| Stage helpers | `simulator.cpp/.h` | `class Simulator`: register file, memory, `PC`, `din` | `simIF`, `simID` (decode, operands), `simNextPCResolution`, `simEX`, `simMEM`, `simWB`, `simInstruction` |
| Memory store | `MemoryStore.cpp/.h` | a byte array | constructor (image file, program file), `getMemValue`, `setMemValue` by size, print |
| Functional simulator | `funct.cpp/.h` | a `Simulator` and `PC` | `initSimulator`, `runInstructions`, `runTillHalt` |
| Bit helpers, disassembler, dumps | `Utilities.cpp/.h`, `RegisterInfo.h` | none | `extractBits`, `sext32`/`sext64`, `printInstr`, dumps |
| Entry points | `sim_cycle.cpp`, `sim_funct.cpp` | none | parse arguments, run, finalize |

How they interact: one iteration of the loop in `runCycles` copies the pipeline
registers (`old...`), computes WB, the hazards, MEM, EX, ID and IF in this order
from the copies and from what the stages before it in this order have already
computed, calls `Cache::access` from MEM and from IF, lets the stage helpers
change registers (WB) and memory (MEM) as side effects, squashes, and commits.
There are no threads. What is hard is the interleaving *within* a cycle and
*across* cycles of events that are in flight together: two stall counters,
hazard stalls, a taken branch, a pending squash, an illegal instruction, a
memory exception and HALT, each of which freezes, replaces or redirects other
stages, and each of which a test program meets in a few of the possible
alignments only.

What makes each component correct:

- **Cache**: exact LRU replacement per set; the hit scan finds the one line of
  a block; hits and misses are those of a recency stack; index, tag and offset
  identify a block for every geometry.
- **Pipeline**: each instruction of the program takes effect exactly once, in
  program order, with the operand values of program order; exceptions are
  precise (older instructions complete, younger ones leave no trace); the
  D-cache sees the accesses in program order; an instruction is delivered only
  from a cached block; every program that ends is simulated to its end.
- **Memory store**: memory begins as the two files say; a read returns the bytes
  last written; an access that does not fit raises an exception and changes
  nothing, except that an unaligned store across the end of memory leaves the
  bytes that do fit.
- **Decoding and arithmetic**: an instruction computes what its assembly
  statement means, for every operation, operand and immediate; the pipeline
  diagram shows that statement.
- **Functional simulator**: it executes the same instruction set as the pipeline
  up to the first exception, however its run is cut into calls, and ends.

`PROJECT.json` lists the hazards, at the line where each bites, and the
property that covers it.

## 2. The modules

| module | models |
|---|---|
| `CacheOps` | the cache as operators on one record: address split, hit scan, victim scan, `Access` |
| `LruCache` | one cache under any sequence of accesses, with the history variable `lastUse`; its invariants |
| `LruStack` | the abstract cache: a list of tags per set, most recent first |
| `Stages` | instructions, control signals, and the stage helpers as operators |
| `Pipeline` | one iteration of the loop in `runCycles` as the action `RunCycle`; the properties of single cycles |
| `ControlFlow` | where control goes in a program: past the words that do nothing (`Settled`), and from the others (`Targets`) |
| `Isa` | abstract: instructions one at a time, precise exceptions, no pipeline, no time |
| `ControlPath` | abstract: the control flow of `Isa` without data |
| `PipelineIsa` | the refinement mappings `Pipeline` => `Isa` and `Pipeline` => `ControlPath`; the programs for which the first holds |
| `PipelineStats` | history variables beside `Pipeline`: what the load-use statistic is to count, and the accesses whose instructions are still to retire |
| `MemoryStore` | the byte array as operators: which bytes of an access are reached, what a read or write does |
| `DataMemory` | the life of one `MemoryStore`: constructor, image file, program file, then `simMemAccess` for loads and stores |
| `AtomicMemory` | abstract: accesses of whole spans of a function from addresses to bytes |
| `BitVector` | 64-bit words as functions from positions to bits, the bit helpers and the C++ operators |
| `Decode` | `simDecode` and the immediates, from the bits of a word |
| `Disassembler` | `printInstr` and `getOpString`: what the pipeline diagram shows |
| `Assembly` | reference: what an assembler makes of a statement and what the statement means |
| `Datapath` | one instruction, with its bits, through `simID`, `simEX` and `simMEM` |
| `Functional` | `runInstructions` and `simInstruction` |
| `FunctionalIsa` | the refinement mapping `Functional` => `Isa`, with history variables for what `Isa` counts in addition |
| `ProgramFamilies` | the programs TLC runs |
| `MCLruCache`, `MCPipeline`, `MCPipelineStats`, `MCDataMemory`, `MCDatapath`, `MCFunctional` | instances for TLC |
| `CacheOpsProofs`, `LruCacheProofs` | theorems about the cache |
| `StagesProofs`, `PipelineProofs`, `IsaProofs` | theorems about the pipeline: operators; types, statistics and control flow; data |
| `FunctionalProofs` | theorems about the functional simulator |
| `DataMemoryProofs` | theorems about memory, with the lemmas on remainders they rest on |
| `DatapathProofs` | theorems about single instructions, with the lemmas on bits and numbers they rest on |

```
CacheOps --> LruCache --> MCLruCache        Stages --> Pipeline ------+
   |            |                              |  (two INSTANCEs of    |
   |            +-- INSTANCE LruStack          |   CacheOps)           |
   |                                           +--> ControlFlow --+    |
   +--> CacheOpsProofs --> LruCacheProofs             |           |    |
                                                      v           v    v
                                                Isa, ControlPath <-- PipelineIsa
                                                  (INSTANCE)            |
                                         ProgramFamilies --> MCPipeline <
                       Pipeline --> PipelineStats --> MCPipelineStats

Stages --> Functional --> FunctionalIsa --> MCFunctional
                               |  (INSTANCE of Isa and of CacheOps)

BitVector --> Decode --> Disassembler --> Datapath --> MCDatapath
     |                                     |  (INSTANCE of Stages)
     +------> Assembly --------------------+

MemoryStore --> DataMemory --> MCDataMemory
                     |  (INSTANCE of AtomicMemory)
```

The pipeline takes words as decoded, small numbers and whole doublewords. The
modules below it justify this: `Datapath` shows that `simDecode` gives no sets of
control signals but those of `Stages` and that each operation computes what it
should, with its bits and widths; `DataMemory` that loads and stores of every
width behave like accesses of one atomic memory. `Functional` is built from the
same `Stages` as `Pipeline`, and both refine `Isa`.

A name with an underscore (`memInput_AnyRegister`) is a faulty variant of the
definition that follows it: the mistake one could make in that line of the
code. Nothing uses it but the sensitivity tests, which put it in the place of
the correct definition and expect the property named beside it in
`PROJECT.json` to fail.

### How state and actions correspond to the code

*Pipeline.* The variables are the file-static variables of `cycle.cpp` under
their names, the registers and memory of the `Simulator`, and the two caches.
`prog` and `latency` are inputs, chosen by `Init`. `RunCycle` is one whole
iteration of the loop: `oldIF` ... `oldWB` are the snapshot, each `new...`
operator is what the code assigns in the section of that stage, in the order of
the code (so `newID` reads `newRegs`, because WB runs before ID in the cycle;
branch resolution reads `newMEM` and `newWB`), `Unless` is the squash of a memory
exception, and the primed conjuncts are the commit. `fetch` gives the IF section
in the order of its tests, one operator per branch: `Lookup` (ask the cache),
`Keep`, `Resume` (take the word without asking the cache), `HoldForHazard`,
`FetchPastIllegal`. The D-stall is tested before its counter is decremented and
the I-stall after, as in the code.

*Data.* A program word is a record of operation, registers and immediate. One
operation stands for all that `simDecode` gives the same control signals (ADD for
OP_INT and OP_INTW, BEQ/BNE for the conditional branches, LUI also for AUIPC);
addresses and values are `0 .. ValueSpan-1` and wrap. Memory is accessed in whole
aligned doublewords. Code is not written by stores. Fields of `Instruction` that
follow from the word, or that nothing reads, are left out; control signals are
operators of the word.

*Memory.* `memArr` is the byte array; `phase` says how far the constructor is.
`ReadEntry` is one iteration of the loop in `prepareMemory`: the stream is
tested before the extractions (`streamGood`), so that the last iteration runs
behind the end of the file with what a failed extraction leaves, 0, and an
address that does not fit fails the assertion (`"aborted"`). `LoadFromFile` is the
loop over the program's bytes. `Load` and `Store` are the two branches of
`simMemAccess`. `Reached` is the loop in `getOrSetValue` up to the exception
of `memArr.at`; `SetMemValue` writes just those bytes. Bytes are
`0 .. ByteSpan-1`, the upper half negative; addresses wrap at `AddressSpan`, in place
of 2^64.

*Datapath.* `inst` is an `Instruction` with its bits, and `ID`, `EX`, `MEM` are the
stage helpers, in full: flags, operands, `nextPC`, `arithResult`, `memAddress`.
`Assembly` is no code of the repository. It is written from the instruction
formats, bit by bit and not by shifts and masks, so that the two do not share
mistakes; `StatementNames` are the statements there are, and `WellFormed` is what an
assembler accepts.

*Functional simulator.* `Iterate` is one pass through the loop in
`runInstructions`, `RunInstructions` and `Return` its call and its normal end;
the caller asks again until the answer is HALT or ERROR, with 1 as `runTillHalt`
does or with any other number. `simCommit` writes x0 and the 0 of a load that
failed, as in the code; it is `simOperandCollection` that reads x0 as 0.

*Cache.* `Access` is `Cache::access`; the scans take the first way that
qualifies. `Log2` rounds down as the conversion in the constructor does, so sets
from `IndexSpan` on are unused when their number is not a power of two.
`GeometryAssumption` excludes a cache with no set, where the code indexes an
empty vector.

The transcription of the pipeline was compared with the compiled simulator:
on 540 random programs, under nine combinations of cache geometry and miss
latencies from 0 to 5, the pipeline registers after every cycle and the final
registers, memory and statistics were the same.

## 3. The checks

`tlc -config X.cfg M` for each row.

| run | configuration | question |
|---|---|---|
| `lru_cache` | `MCLruCache.cfg` | Is replacement exact LRU, and does the stamped table implement the recency stack? |
| `pipeline_refines` | `MCPipelineRefines.cfg` | Does the pipeline execute supported programs as the instruction set says? |
| `pipeline_control` | `MCPipelineControl.cfg` | Is control flow right, is only cached code delivered, and does the simulation end, for every program? |
| `load_store` | `MCDataMemory.cfg` | Are loads and stores of every width those of an atomic memory that begins as the files say? |
| `decode_execute` | `MCDatapath.cfg` | Is each instruction decoded, executed and displayed as what it is? |
| `functional` | `MCFunctional.cfg` | Does the functional simulator execute the instruction set the pipeline implements? |
| `lost_operand`, `store_data`, `squashed_store`, `handler_twice`, `recount`, `load_use_count` | `MCPipelineLostOperand`, `...StoreData`, `...Fault`, `...Illegal`, `...Recount`, `...LoadUse` | Six statements of the repository about its own code that it does not keep; see section 4. |

(`pipeline_control` and `load_use_count` are run with `MCPipelineStats`, the other
pipeline runs with `MCPipeline`.)

**`lru_cache`.** Every sequence of seven accesses to five blocks. The cache has
72 bytes, blocks of 8 and 3 ways: three sets, of which rounding leaves two in
use. Four blocks share a set of three lines, so that eviction, the refill of an
evicted block, and every order of recency occur; seven accesses fill the set,
evict, and bring back. One address lies inside its block. `EvictedAreOldest`: a
block that was used and is gone is older than every line of its set.
`LruInvariant` is the inductive invariant (section 5). `ReuseDistance`: an access
hits exactly when fewer than `Ways` other blocks of the set were used since the
last use of its own. `StackSpec`: refinement of `LruStack`.

**`pipeline_refines`.** `ISASpec` is the refinement of `Isa`: an instruction takes
effect when it enters MEM, where memory and D-cache change; the abstract
registers include the result MEM still holds; the abstract `pc` is the oldest
instruction that has had no effect, passed over NOPs and illegal words. It
compares, cycle by cycle, registers, memory, the whole state of the D-cache
(hence its hits and misses), the number of retired instructions and halting.
`OperandsCurrent`: an instruction that leaves ID takes each operand, for EX and
for branch resolution, from the youngest older writer.  `StoreDataCurrent`: the
same for store data in MEM. The programs are all bodies of three words over an
alphabet of 15 words that has every operation, loads and stores that fault, and
dependent and independent operands; all bodies of four words over the six words
that compete for operands; and three loops, which run from a warm I-cache; of
these the ones that `Supported` admits (below). The latencies are 2 (I) and 3 (D).
The D-cache has one line, so that two doublewords evict each other; the I-cache
two blocks of four words, direct mapped.

**`pipeline_control`.** All bodies of three words over the whole alphabet, and
the loops, supported or not, with latencies 2 and 2 and an I-cache of one
two-way set of two-word blocks. `PathSpec`: what is executed is a path of the
control-flow graph, each instruction once, in order (refinement of
`ControlPath`, which leaves out data). `FetchedIsCached`: IF delivers an
instruction only when its block is in the I-cache, also when it resumes after a
stall without asking. `WrongPathSquashed`: what is fetched behind an illegal
instruction is never decoded. `Halts`: the simulation ends. `TypeOK` includes
that no stall exceeds the miss latency and that x0 reads as zero.
`FetchInvariant` is the inductive invariant of section 5. `LoadUseNotRecounted`:
the load-use statistic counts no instruction twice, although a branch waits two
cycles for a load, and longer if the load misses. `AccessesRetire`: memory and
D-cache are accessed two cycles before it is known that the instruction retires;
what has accessed them and is not retired is at most the instruction in MEM, so
that each access is made once, through any stalls, by an instruction that retires,
and nothing behind a fault, a HALT, a taken branch or an illegal word gets as far.
The one word directly behind a fault or HALT is excepted (`inShadow`): that it does
access memory is clause 3 of section 4. Unlike `ISASpec`, this holds of the programs that
`Supported` excludes, which have stores there.

**`load_store`.** A memory of 16 bytes in an address space of 32, so that
accesses end before, at, across and behind the end of memory and wrap around the
address space; bytes 0..3, of which 2 and 3 are negative. Eleven kinds of
access at eight addresses, aligned and not, with two values that have every
sign at every width, twice in a row, after a constructor that read one of six
image files (none, empty, overlapping words, cut behind an address, across the
end, out of range) and one of two programs. Two accesses suffice: what an access
does depends on memory only through the bytes it covers, and the first one can
leave any of the widths there. `AtomicSpec`: refinement of `AtomicMemory`, on the
contents the files stand for, so that the word 0 stored by the iteration behind
the end of the file is shown to be always covered by the program.
`TornOnlyPastEnd`: a store that fails changes memory only when unaligned, and then
exactly up to the end. `LoadsTheNumber`: sign extension, as numbers.
`Constructed`: the constructor ends.

**`decode_execute`.** One instruction per behaviour. `ExecutesAssembly` compares it
with `Assembly`: for each register operation and branch all pairs of seven
operands (0, all ones, a distance above 31, a bit 31, a bit 63, the largest
signed number of either width, and a mixture); for each immediate operation one
bit of the immediate at a time, its sign alone and with all bits; for each
format one bit of each register field at a time. The immediates are a linear
function of the bits, so that one bit at a time finds every misplaced bit. The
address is four below 2^32, so that `PC + 4` and targets carry into the
upper half. `DisplayedIsExecuted` takes raw words: all 128 opcodes with all
funct3 and six values of funct7, two of which no assembler makes: the
simulator executes what it shows (or shows and raises ILLEGAL), for the words that
`simDecode` accepts beyond the instruction set, such as the encoding of `mulh`,
which is executed and shown as `sll`. `ClassifiedAsModelled`: every such word has
the control signals of one operation of `Stages`. The theorems of section 5 cover every
statement and word; TLC takes these because there the sums, shifts and fields are
computed and not reasoned about.

**`functional`.** The programs of three words of the pipeline's alphabet, of three
words that write and read x0, and the loops; each in calls of one, two and any
number of instructions, mixed. `ExecutesIsa`: up to the first memory exception
each step is a step of `Isa` or a stutter, with the same registers, memory and
next instruction. `SuccessMeansAll`: a call that returns SUCCESS has executed what
it was asked for. `Ends`.

*Bounds.* The pipeline holds five instructions and every interaction in the code
is between instructions at most three apart (a producer in WB, MEM or EX and a
consumer in ID; a faulting access and what is behind it), so a body of three
words followed by HALT, with a cold start before it and the handler behind it,
meets each pair and triple of neighbours, and four words the cases in which
the third waits while the first leaves WB. A latency of two
cycles gives a stall a first, a middle and a last cycle, so that it can begin
before, during and after every other event; an odd and an even D-stall differ
(section 4), hence the two configurations. `MaxCycles` =
64 stops no run: the longest takes 62 states, and `pipeline_control` is checked
for deadlock, which a cycle limit that is reached before HALT would be.
`SkipBound` = 5 exceeds the longest row of words without effect; that it is
enough for every program is the assumption `SettlesAssumption`. Values up to
127 hold two doublewords, the code, the handler at 64, and an address with no
memory behind it. Longer programs were tried outside these runs: some 5,600
random supported programs of six and seven words under seven geometries and
latencies satisfied `ISASpec`.

*Fairness.* `FairSpec` has weak fairness of `RunCycle` alone: `runTillHalt` is a
loop that calls `runCycles(1)` until it returns HALT, and nothing else can stop
it. In `DataMemory` the constructor is a loop in one thread that runs to its end
(`WF(Construct)`); nothing obliges a program to make an access. In `FunctionalIsa`
the one thread of `sim_funct` runs the loop of `runTillHalt` (`WF(HNext)`).
`Halts` is stated for programs that end in the instruction set; no jump of
the alphabet goes back except in the loops, which count. Deadlock is checked
in the pipeline's, the memory's and the functional simulator's passing runs;
`Halted`, `Stopped` and `Finished` are the stutter after the last step. The cache
run switches it off, because the run ends at `MaxAccesses`, and `decode_execute`
because an instruction ends behind MEM.

## 4. Where the code departs from what it says

`Supported` in `PipelineIsa` states which programs the pipeline executes like
the instruction set. It has four clauses, each necessary: without any one of
them `ISASpec` fails within the run's programs.

1. `StoreDataForwarded` (run `store_data`, `cycle.cpp:246-248`). Store data is
   forwarded from WB, the instruction *two* before the store, over the newer
   value that EX forwarded; and never from the load directly before the store.
2. `OperandsSurvive` (run `lost_operand`, `cycle.cpp:326-350`, `376`). An
   instruction held in ID keeps the operands it read when it was decoded. A
   producer that leaves WB while it waits is neither in the register values it
   holds nor in a forwarding path any more.
3. `NoAccessInShadow` (run `squashed_store`, `cycle.cpp:243-271`). The
   instruction behind one that faults, or behind HALT, makes its memory access
   in the cycle that squashes it. `AccessesRetire` shows that it is the only one,
   also in programs with such an access: no other squashed instruction touches
   memory or the D-cache.
4. `NoIllegalInDStall` (run `handler_twice`, `cycle.cpp:115-116`). A D-stall
   that starts when an illegal instruction is decoded consumes the pending
   squash while ID is frozen; after an odd number of stall cycles the handler's
   first instruction is executed twice.

A fifth, run `recount`, is about statistics only: with an I-miss latency of one
cycle `justFinishedIStall` is never set and a resumed fetch counts a hit for an
instruction whose miss was counted. A longer latency does not exclude it: a hazard
stall in the last cycle of the I-stall clears the flag (`cycle.cpp:481`), as for
`ADDI x1,x1,1; BEQ x1,x2` in front of a block that misses with a latency of two.

A sixth, run `load_use_count` (`cycle.cpp:198`, `226`), too: a branch that waits for
a load is not counted if the bubble in EX is one an I-stall left there.

`PROJECT.json` quotes, for each of the six, the line that says otherwise.

The other modules met differences that no line of the repository denies; the
properties name them.

- The diagram (`Misprinted` in `Datapath`): `addiw` is named by the rules of `addw`,
  so that an immediate outside 0..31 is shown as ILLEGAL, or as `subiw` from 1024
  to 1055 (`Utilities.cpp:74-84`); `lui` and `auipc` with bit 19 or 31 set show an
  immediate extended from bit 19 instead of bit 31 (`Utilities.cpp:316`), and a
  `jalr` with funct3 1 or 5 shows six bits of its own (`Utilities.cpp:235`). What
  is executed is right in each case.
- An unaligned store across the end of memory raises its exception after it has
  stored the bytes that fit (`MemoryStore.cpp:79`).
- The functional simulator goes on behind a memory exception, with 0 as what was
  loaded, and stops at an illegal instruction; the pipeline goes to the handler in
  both cases.

## 5. The proofs

`tlapm M.tla` for each module of proofs. They hold for all values of the constants.

| theorem | says |
|---|---|
| `LruCacheProofs!TypeCorrect` | the cache keeps its type |
| `LruCacheProofs!LruInvariantHolds` | `LruInvariant` holds for every geometry, address set and number of accesses |
| `LruCacheProofs!EvictionIsLru` | so replacement is LRU (`EvictedAreOldest`) |
| `LruCacheProofs!ReuseDistanceHolds` | `ReuseDistance`: the reuse distance decides between hit and miss |
| `LruCacheProofs!CacheImplementsStack` | `StackSpec`: the stamped table implements `LruStack` |
| `CacheOpsProofs!AccessCachesItsBlock` | an access brings in the block that `IndexOf` and `TagOf` make of its address and no other, and takes out none, or one of the same set if that is full |
| `PipelineProofs!PipelineTypeCorrect` | the pipeline keeps its type: stalls within the latencies, x0 zero |
| `PipelineProofs!FetchInvariantHolds` | `FetchInvariant`, with `QuietStalls` |
| `PipelineProofs!WrongPathNeverDecoded` | `WrongPathSquashed`, with `QuietStalls` |
| `PipelineProofs!DeliveredFromCache` | `FetchedIsCached`, with `QuietStalls` |
| `PipelineProofs!ExecutesPath` | `PathSpec`: every program executes a path of its control-flow graph, with `QuietStalls` |
| `IsaProofs!OperandsAreCurrent` | `OperandsCurrent`, for supported programs with `QuietStalls` |
| `IsaProofs!StoreDataIsCurrent` | `StoreDataCurrent`, likewise |
| `IsaProofs!ImplementsIsa` | `ISASpec`: the pipeline implements `Isa`, likewise |
| `PipelineProofs!AccessesRetireOnce` | `AccessesRetire`, for every program, supported or not, with `QuietStalls` |
| `PipelineProofs!LoadUseNeverRecounted` | `LoadUseNotRecounted`, for all latencies |
| `FunctionalProofs!FunctionalTypeCorrect` | the functional simulator keeps its types, counts what its calls report, and leaves PC 0 at the end |
| `FunctionalProofs!SuccessMeansAllExecuted` | `SuccessMeansAll`, for every way to cut a run |
| `FunctionalProofs!FunctionalImplementsIsa` | `ExecutesIsa`: up to the first memory exception the functional simulator implements `Isa` |
| `DataMemoryProofs!DataMemoryTypeCorrect` | memory keeps its type |
| `DataMemoryProofs!MemoryIsAtomic` | `AtomicSpec`: memory implements `AtomicMemory`, for every size, address space and pair of files |
| `DataMemoryProofs!StoresTornOnlyPastEnd` | `TornOnlyPastEnd`, for every size and address space |
| `DataMemoryProofs!LoadsDeliverNumbers` | `LoadsTheNumber`, for every width, address and base of the digits |
| `DatapathProofs!DatapathTyped` | flags are set, values are 64-bit words, next pcs even and 32-bit results extended, whatever the bits of a word are |
| `DatapathProofs!EveryWordClassified` | `ClassifiedAsModelled`: every word has the control signals of an operation of `Stages` |
| `DatapathProofs!AssemblyExecuted` | `ExecutesAssembly`, for every statement, register file and pc |
| `DatapathProofs!StatementDisplayed` | `DisplayReadsBack`, for every statement whose word is not `Misprinted` |
| `DatapathProofs!DisplayExecuted` | `DisplayedIsExecuted`: the two decoders agree on every word that is not `Misprinted` |

*The cache.* `EvictedAreOldest` is not inductive: that a victim is the oldest
block of its set follows only if the stamps in the table are the last uses of
the blocks (`StampIsLastUse`), which needs that a block is never in two lines
(`NoDuplicateLines`: a hit refreshes one of them), and if two blocks never have
the same last use (`UsesNumbered`: ties would go to the first way).
`LruInvariant` is their conjunction. The lemmas of `CacheOpsProofs` give what one
`Access` changes: the scans find a way (a nonempty set of naturals has a least
element), and only the chosen line of the indexed set changes. The proof of
each conjunct splits on whether a line is the one just written.

*The reuse distance.* `ReuseDistance` is an action property, from `LruInvariant`. If
the block is in a line, every block used since is in a newer line
(`ResidentIsRecent`: had one been evicted, it would be older than this line), so
there are fewer of them than ways; if it is not, the lines of its set are full
and each holds a block used since (`EvictedIsDistant`). Both counts are injections
between ways and blocks.

*The recency stack.* The mapping lists a set by `Recency`, the number of its lines
that are as new. Stamps of valid lines differ (`StampsAreDistinct`, from
`UsesNumbered`), so `Recency` numbers the valid ways from one
(`RecencyInjective`, `RecencyOnto`). After an access the stamped line is first, what was newer
than it moves down by one and what was older stays (`StampedRecency`): on a hit that is
`MoveToFront`, on a miss `Push`, with the victim last in the list.

*The pipeline's type.* `StagesProofs` has one lemma per stage helper,
`PipelineProofs` one per stage, in the order of the cycle, and one per way the
fetch section can go; the facts about the two caches are those of
`CacheOpsProofs`, instantiated twice.

*The fetch stage.* That IF delivers only what is cached is not inductive
either. IF resumes without asking the cache after an I-stall, after a D-stall and
after an I-stall that ended inside a D-stall, so `AwaitedIsCached` follows the
block IF holds or waits for from its miss until it is delivered, through
stalls, hazards and branches that reuse the stall counter. The only fetch whose
block is not asked for is the one next to an illegal instruction, where `PC`
already names the handler. It is harmless as long as ID does not take it in,
which depends on a parity: the squash is raised again every second cycle of a
D-stall, so that it is pending at the end of the stall exactly when the number
of cycles is even (`SquashAwaits`). With an odd number it goes wrong if the stall
begins in the very cycle that decodes the illegal word; then an access is in EX
(`QuietDecode` excludes this), and it is one of the two words before the illegal
one. Hence the hypothesis `QuietStalls`: of each program and latency of the instance,
the D-stall is even or no illegal word comes within two words behind an access. Otherwise
the run `handler_twice` is the counterexample. That the hypothesis, which is about
addresses, excludes the state, which is about stages, is `AccessFollowed`:
past an access or HALT in EX, ID holds the next word and IF the one behind it, or ID is
empty and IF has got one or two words further; and what is in EX directly behind
a fault or HALT in MEM is the next word. The invariant `ProofInv` contains
it, and it was checked with TLC, for even latencies and for odd ones on quiet
programs, before it was proved.

*The path.* `PathSpec` needs to know where control is while the pipeline is full:
`PathInv` says that each stage holds the word of its address (`WordsFetched`), where
IF is (`FetchPlace`), that the oldest instruction of the front end leads to the
next (`Chained`), and that nothing runs behind HALT (`Running`). `oldestPC` passes
from stage to stage; words without effect lie between, which is why the mapping
is through `Settled`. `Settled` walks by a recursive function of bounded depth,
and the lemmas about it (`SettledStays`, `SettledPasses`) are proved without
induction over data, from the least place at which two walks differ. A cycle is
then one of five: a stall or a flush, in which nothing takes effect
(`StallIsSteady`, `FlushIsSteady`), or the entry into MEM of HALT, of a fault, or of
an instruction (`AdvanceCases`). Supported or not, every program does this: data
never decides where control goes except through branches, and `ControlPath`
allows both ways.

*Accesses and retirement.* `AccessesRetire` is inductive beside `ProofInv` once it is
known who can be in EX when MEM turns out to fault or to be HALT. An access is
made from EX; a cycle later it is in MEM, where it stays while the D-stall lasts
(`dStallActive` keeps MEM from asking again) and from where it retires or, if it
faulted, has left no trace. The one way to be squashed after an access is from EX,
while MEM faults or halts, and there `AccessFollowed` says that EX holds the next
word: the shadow is one word long.

*Forwarding and the instruction set.* `DataInv` says with which values this happens:
WB's result is in the registers (`WBWritten`), the stages that are occupied hold
words that follow each other (`Adjacent`), an operand in ID is current or will be
forwarded by one of the three instructions ahead, WB's only if ID is not held
(`IDOperands`), an operand in EX is current, its result is that of its operands and
IF goes where it leads (`EXOperands`), and nothing faults unforeseen
(`FaultExpected`). `OperandsCurrent` and `StoreDataCurrent` say that values are
right as they are used; that they stay right while one instruction waits and
another leaves is `IDOperands`, and it is here that the code's own gaps show. The
hypothesis `SupportedRuns` (each program of the instance satisfies `Supported`
with each latency) excludes just those, clause by clause: `StoreDataForwarded`
is used in `NoLoadBefore` and `IsaInvStoreData`, `OperandsSurvive` in `HeldOnce`,
`NoAccessInShadow` in `ShadowIsQuiet`. `Supported` looks at three neighbouring words only, and
the proof is that no interaction in the pipeline reaches further. `IsaInv`, the
conjunction of everything above, was checked as an invariant with TLC before it
was proved.

The theorems of `IsaProofs` have the hypothesis `QuietStalls` too. In a supported program
clause 4 of `Supported` excludes an illegal word within two words behind an access, so
with an odd latency `QuietStalls` adds only what is behind the program: memory without
code is fetched as an illegal word, also behind a HALT, where it is never executed.
A program that ends with an access and a HALT is thus proved for even
latencies only. `pipeline_refines` has such programs and an odd latency, so
that for these the refinement is model-checked.

*The load-use statistic.* That an instruction is not counted again while it waits
is not inductive: the code does not remember that it has counted but looks at
the bubble in EX. `BubbleBehindWaiter` says that the bubble is there for as long
as the instruction waits: a hazard makes one, a D-stall keeps it, and a squash
removes both. The other direction, that each is counted, is false (section 4).

*The functional simulator.* The type invariant is inductive: an instruction counts when
it is fetched (`simulator.cpp:574`), so that `numInstructions` never passes `din`, and one that
returns early still has the `nextPC` it was made with. Its instruction step
is composed of the lemmas of `StagesProofs`, which it shares with the pipeline,
but for x0, which this simulator lets become anything. `SuccessMeansAll` needs
`NotTooMany`: a call has never executed more than it was asked for. A call that
returns SUCCESS has left the loop by its condition, and the two together give
equality. `ExecutesIsa` needs only that the history variables are consistent (`HistoryInv`):
the mapping hides what was written to x0 (`shownRegs`), of which operands are
independent (`SameOperands`), and passes over NOPs, so that an iteration on one of
them is a stutter.

*Memory.* `OffsetAt` and `Relative` are inverse to each other (`OffsetOfRelative`,
`RelativeOfOffset`), and an address exists exactly when its place does
(`ExistsIffPlace`), so that the loop over the places of an access and the set of
addresses that `AtomicMemory` names are the same bytes; these facts about
remainders are derived from the uniqueness of division. That memory begins as
the files say is not inductive until it says what memory holds while the
constructor runs: `Built` follows, for each place behind the program, the newest
of the entries read so far, and `AllRead` says that the stream fails at the last
entry and not before. The iteration behind the end of the file needs the program to
have at least four bytes. For `TornOnlyPastEnd`, the bytes that an access that
fails gets to are in a row in memory (`ReachedInRow`) and end where memory ends
(`ReachedToEnd`); an aligned access that begins in memory fits (`AlignedFits`).
`LoadsTheNumber` needs that what was loaded stays in memory until the next access
(`LoadInv`); then the eight digits of the result and those in memory are summed
from the highest down, and the digits above the width come to 0, or, if they
extend a sign, to -1 (`ZeroExtended`, `SignExtended`).

*The datapath.* Here the invariant is simple and the operators are not: `Carried`
says that the word is the one the statement was assembled to and `Computed` that
`inst` is what the stage helpers so far make of it, so that each property becomes a
statement about `SimMEM(SimEX(SimID(...)))` of an arbitrary word. `DatapathProofs`
builds it up from the bits.

- Numbers: a row of bits is the sum of its `Power`s, two rows with the same number
  are the same row, and the sum of `Assembly`, four limbs with a carry, is bit for bit
  the sum that `BitVector` carries through 64 positions; likewise the two orders,
  signed and unsigned.
- Fields: what `simDecode` extracts from an assembled word are the numbers of the
  statement (`AssembledOpcode`, ...), and the immediates that the code puts together
  from shifted pieces are, bit by bit, those the formats scatter
  (`AssembledI` to `AssembledShift`).
- Ranges (`StationsRanged`): bit 0 of the two immediates that are added to the pc is
  zero and `jalr` clears it, so that no next pc is odd (`NextPCOfIsEven`); a 32-bit result
  is extended from bit 31 whatever the operation (`NarrowResultExtended`).
- Meaning: `Encodes` says what of a word a statement's meaning depends on. A word that
  encodes a statement computes what it means (`EncodedMeans`, one lemma per format);
  an assembled word encodes its statement, and NOP, which the simulator does not
  execute, does nothing in the reference either (`AssembledMeans`).
- Display: `Spelled` says that a name is that of a word's codes. Every name the
  disassembler puts together is (`Readable`), and no two names of `StatementNames` are
  spelled by the same codes (`SameName`). So the statement read back is the one
  that was assembled (`ReadFromAssembled`), and for a word nobody assembled
  it is one the word encodes (`ReadFromEncodes`), which by `EncodedMeans` is executed.

*Assumptions.* `GeometryAssumption` and `CacheAssumption`: sizes are positive and
a cache has a set. `SpanAssumption` (and the last lines of `CacheAssumption`): the
power of two that rounding log2 down gives lies between one and the number it
rounds; the provers do not compute with exponents, so this arithmetic fact is an
assumption about the constants, which TLC evaluates in every run.
`StagesAssumption`, `PipelineAssumption` and `FunctionalAssumption`: widths and
register counts are positive, the handler and the data are addresses, programs
consist of words, latencies and counts are natural numbers. `SkipAssumption` and
`SettlesAssumption`: in no program are there more than `SkipBound` words without
effect in a row, so that `Settled` arrives. `MemoryAssumption`:
memory is no larger than the address space. `AlignmentAssumption`: the sizes of
both and the start address are multiples of eight, as 64 KB, 2^64 and 0 are.
`DataMemoryAssumption`: the files consist of bytes and words, a file that does
not exist has no entries, one that is cut has a last entry to be cut, and a
program has at least one instruction. `DatapathAssumption`: registers, raw words and
pcs are words of 64 bits, and statements are such as an assembler accepts
(`WellFormed`): their name is one of `StatementNames`, their immediate fits
the field of their format, and what the format has no field for is zero.
`QuietStalls` and `SupportedRuns` are no assumptions of the modules but hypotheses of the theorems that need them.

*Only model-checked.* Liveness (`Halts`, `Ends`, `Constructed`), because fairness and
ENABLED are outside what the prover handles. `ISASpec`, `OperandsCurrent` and
`StoreDataCurrent` for odd D-stalls in programs with an illegal word within two words
behind an access, as there is behind an access and a HALT that end the program.
The other properties of the pipeline with a hypothesis are neither proved nor checked
for these; `WrongPathSquashed` is false there.

## 6. What is not modelled, and the plan

Not modelled: the dumps of pipeline states, statistics, registers and memory, and
how the disassembler spells registers, numbers and stage status (formatting);
argument parsing in the two `main`s; self-modifying code; a second
`initSimulator` in one process (`justFinishedIStall` and the static `PC` of
`funct.cpp` would keep their values); another call after HALT, which would run
the program again from 0; a file system that fails in the middle of a file. A
cycle count that wraps around 64 bits is out of reach of any run.

Abstracted: `Pipeline` accesses whole aligned doublewords, so that an access
across two D-cache blocks, which the code counts as one access of the first
(`cycle.cpp:260`), does not occur there.

The order of the work, most important behaviour first; 1 to 9 and most of 10 are done:

1. `CacheOps`, `LruCache`, `LruStack` with the LRU invariant and its proof.
2. `Stages`, `Pipeline` with the properties of a cycle.
3. `Isa`, `ControlPath`, `PipelineIsa`: the two refinements.
4. `MemoryStore`, `DataMemory`, `AtomicMemory`: bytes, widths, the end of memory.
5. `BitVector`, `Decode`, `Datapath`, `Disassembler`, against `Assembly`.
6. `Functional`, `FunctionalIsa`: the comparison with `Isa`.
7. `PipelineStats`: the load-use statistic.
8. The proofs of section 5: the cache, the pipeline down to the instruction set, the
   functional simulator, memory.
9. The proofs about the datapath, for every statement and every word; `LoadsTheNumber`.
10. Odd D-stalls in the proofs about the pipeline. Still to be tried: `PathSpec` and
    `ISASpec` when the illegal word is fetched behind a HALT and never executed.
