----------------------------- MODULE DataMemory -----------------------------
(***************************************************************************)
(* The memory of a simulation from its construction to its last access:    *)
(* the constructor fills it with zeros, overlays the words of the file     *)
(* init_mem_image (prepareMemory) and then the bytes of the program        *)
(* (loadFromFile); loads and stores reach it through                       *)
(* Simulator::simMemAccess.                                                *)
(***************************************************************************)
EXTENDS MemoryStore, Sequences

CONSTANTS
  Images,       \* contents of init_mem_image: records [exists, entries, cut]
  Binaries,     \* program files: sequences of bytes
  Addresses,    \* the addresses that loads and stores use
  Values,       \* the values that stores store
  MaxAccesses   \* bound on the number of accesses

(* An entry is an address and a word.  A file that is cut ends behind the  *)
(* address of its last entry, and one that does not exist has no entries.  *)
(* A program has at least one instruction.                                 *)
ASSUME DataMemoryAssumption ==
  /\ \A im \in Images :
       /\ im.exists \in BOOLEAN /\ im.cut \in BOOLEAN
       /\ im.entries \in Seq([addr : Address, word : Double])
       /\ im.cut => im.entries # << >>
       /\ ~im.exists => im.entries = << >>
  /\ \A b \in Binaries : b \in Seq(Byte) /\ Len(b) >= 4
  /\ Addresses \subseteq Address /\ Values \subseteq Double
  /\ MaxAccesses \in Nat

(* MEMORY_SIZE is 64 KB, memory begins at 0, and addresses have 64 bits.   *)
ASSUME AlignmentAssumption ==
  MemorySize % 8 = 0 /\ StartAddr % 8 = 0 /\ AddressSpan % 8 = 0

VARIABLES
  image, binary,   \* the two files, chosen by Init
  phase,           \* "image", "program", "ready" or "aborted"
  entriesRead,     \* iterations of the loop in prepareMemory
  streamGood,      \* the state of the stream initMem
  memArr,          \* the bytes
  access,          \* the last access and its result
  accesses         \* number of accesses

vars ==
  <<image, binary, phase, entriesRead, streamGood, memArr, access, accesses>>

Loads == {"LB", "LH", "LW", "LD", "LBU", "LHU", "LWU"}

Stores == {"SB", "SH", "SW", "SD"}

(* The size that simMemAccess takes from funct3. *)
SizeOf(op) ==
  IF op \in {"LB", "LBU", "SB"} THEN 1
  ELSE IF op \in {"LH", "LHU", "SH"} THEN 2
  ELSE IF op \in {"LW", "LWU", "SW"} THEN 4
  ELSE 8

SignExtends_NotLW(op) == op \in {"LB", "LH"}

SignExtends(op) == op \in {"LB", "LH", "LW"}

(* sext64 at a byte boundary. *)
ExtendFrom(value, size) ==
  [i \in 0..7 |-> IF i >= size /\ value[size - 1] >= ByteSpan \div 2
                    THEN ByteSpan - 1 ELSE value[i]]

NoAccess ==
  [op |-> "NONE", memAddress |-> 0, op2Val |-> Zero,
   memException |-> FALSE, memResult |-> Zero]

Init ==
  /\ image \in Images
  /\ binary \in Binaries
  /\ phase = "image"
  /\ entriesRead = 0
  /\ streamGood = image.exists
  /\ memArr = [p \in Place |-> 0]
  /\ access = NoAccess
  /\ accesses = 0

(* Both extractions of the n-th iteration succeed. *)
Extracted(im, n) ==
  n \in DOMAIN im.entries /\ ~(im.cut /\ n = Len(im.entries))

(* curVal and addr in the n-th iteration: an extraction from a stream that *)
(* is at its end yields 0 and makes the stream fail, but the loop has      *)
(* already been entered.                                                   *)
Entry(im, n) ==
  [addr |-> IF n \in DOMAIN im.entries THEN im.entries[n].addr ELSE 0,
   word |-> IF Extracted(im, n) THEN im.entries[n].word ELSE Zero]

StreamGoodAfter_NeverFails(n) == TRUE

(* The state of initMem that the loop condition sees after n iterations.   *)
StreamGoodAfter(n) == Extracted(image, n)

(* One iteration of the loop in prepareMemory.  A word that does not fit   *)
(* fails the assertion in the constructor.                                 *)
ReadEntry ==
  /\ phase = "image" /\ streamGood
  /\ LET n == entriesRead + 1
     IN /\ memArr' = SetMemValue(memArr, Entry(image, n).addr, Entry(image, n).word, 4)
        /\ streamGood' = StreamGoodAfter(n)
        /\ entriesRead' = IF n <= Len(image.entries) THEN n ELSE entriesRead
        /\ phase' = IF AccessFails(Entry(image, n).addr, 4) THEN "aborted" ELSE phase
  /\ UNCHANGED <<image, binary, access, accesses>>

ImageRead ==
  /\ phase = "image" /\ ~streamGood
  /\ phase' = "program"
  /\ UNCHANGED <<image, binary, entriesRead, streamGood, memArr, access, accesses>>

(* Each byte is a write of its own at its address; a byte that does not    *)
(* fit is reported and left out.                                           *)
LoadFromFile ==
  /\ phase = "program"
  /\ memArr' = [p \in Place |->
                  IF OffsetAt(0, p) < Len(binary)
                    THEN binary[OffsetAt(0, p) + 1] ELSE memArr[p]]
  /\ phase' = "ready"
  /\ UNCHANGED <<image, binary, entriesRead, streamGood, access, accesses>>

(* simMemAccess of a load. *)
Load(op, address) ==
  LET value == GetMemValue(memArr, address, SizeOf(op))
      fails == AccessFails(address, SizeOf(op))
  IN /\ access' = [op |-> op, memAddress |-> address, op2Val |-> Zero,
                   memException |-> fails,
                   memResult |-> IF fails THEN Zero
                                 ELSE IF SignExtends(op)
                                   THEN ExtendFrom(value, SizeOf(op))
                                 ELSE value]
     /\ UNCHANGED memArr

(* simMemAccess of a store. *)
Store(op, address, value) ==
  /\ memArr' = SetMemValue(memArr, address, value, SizeOf(op))
  /\ access' = [op |-> op, memAddress |-> address, op2Val |-> value,
                memException |-> AccessFails(address, SizeOf(op)),
                memResult |-> Zero]

MemAccess ==
  /\ phase = "ready" /\ accesses < MaxAccesses
  /\ \E address \in Addresses :
       \/ \E op \in Loads : Load(op, address)
       \/ \E op \in Stores, value \in Values : Store(op, address, value)
  /\ accesses' = accesses + 1
  /\ UNCHANGED <<image, binary, phase, entriesRead, streamGood>>

(* The process has been aborted, or the last access has been made. *)
Stopped ==
  /\ phase = "aborted" \/ accesses = MaxAccesses
  /\ UNCHANGED vars

Construct == ReadEntry \/ ImageRead \/ LoadFromFile

Next == Construct \/ MemAccess \/ Stopped

Spec == Init /\ [][Next]_vars

(* The constructor runs to its end. *)
FairSpec == Spec /\ WF_vars(Construct)

-----------------------------------------------------------------------------
(* Properties. *)

TypeOK ==
  /\ image \in Images /\ binary \in Binaries
  /\ phase \in {"image", "program", "ready", "aborted"}
  /\ entriesRead \in 0..Len(image.entries)
  /\ streamGood \in BOOLEAN
  /\ memArr \in [Place -> Byte]
  /\ access \in [op : Loads \cup Stores \cup {"NONE"}, memAddress : Address,
                 op2Val : Double, memException : BOOLEAN, memResult : Double]
  /\ accesses \in 0..MaxAccesses

(* What the files say an address holds at the start: the byte of the       *)
(* program, or else the one of the last image entry that covers it, or     *)
(* else zero.                                                              *)
FirstByte(im, bin, a) ==
  LET covering == {n \in DOMAIN im.entries :
                     (a - im.entries[n].addr) % AddressSpan < 4}
      newest == CHOOSE n \in covering : \A k \in covering : k <= n
  IN IF a < Len(bin) THEN bin[a + 1]
     ELSE IF covering = {} THEN 0
     ELSE Entry(im, newest).word[(a - Entry(im, newest).addr) % AddressSpan]

FileContents(im, bin) ==
  [a \in {(StartAddr + p) % AddressSpan : p \in Place} |-> FirstByte(im, bin, a)]

(* The memory as a function of addresses. *)
AddressedMemory ==
  [a \in {(StartAddr + p) % AddressSpan : p \in Place} |-> memArr[Relative(a, 0)]]

RequestOf(kind, address, size, value) ==
  [kind |-> kind, address |-> address, size |-> size, value |-> value]

accessRequest ==
  IF access.op \in Loads
    THEN RequestOf("read", access.memAddress, SizeOf(access.op), << >>)
  ELSE IF access.op \in Stores
    THEN RequestOf("write", access.memAddress, SizeOf(access.op), access.op2Val)
  ELSE RequestOf("none", 0, 0, << >>)

accessAnswer ==
  [refused |-> access.memException,
   read |-> IF access.op \in Loads /\ ~access.memException
              THEN [i \in 1..SizeOf(access.op) |-> access.memResult[i - 1]]
              ELSE << >>]

(* Loads and stores of every size are those of AtomicMemory, on a memory   *)
(* that begins as the two files say, however they overlap and wherever     *)
(* they end.                                                               *)
Atomic ==
  INSTANCE AtomicMemory WITH
    Requests <-
      {RequestOf("read", a, n, << >>) : a \in Addresses, n \in Size} \cup
      {RequestOf("write", a, n, v) : a \in Addresses, n \in Size, v \in Values},
    Contents <- {FileContents(im, bin) : im \in Images, bin \in Binaries},
    mem <- IF phase = "ready" THEN AddressedMemory ELSE FileContents(image, binary),
    request <- accessRequest,
    answer <- accessAnswer

AtomicSpec == Atomic!Spec

(* A store that raises an exception changes memory only if it is not       *)
(* aligned, and then exactly the bytes from its address to the end of      *)
(* memory; an aligned store is all or nothing (MemorySize is a multiple of *)
(* eight).                                                                 *)
TornOnlyPastEnd ==
  [][accesses' # accesses /\ access'.memException =>
       LET address == access'.memAddress
           first == Relative(address, 0)
       IN /\ address % SizeOf(access'.op) = 0 => memArr' = memArr
          /\ memArr' # memArr =>
               \A p \in Place :
                 memArr'[p] = IF p < first THEN memArr[p]
                              ELSE access'.op2Val[p - first]]_vars

(* The number whose n lowest digits to the base ByteSpan these are. *)
Number(digits, n) ==
  LET sum[k \in 0..n] ==
        IF k = 0 THEN 0 ELSE sum[k - 1] * ByteSpan + digits[n - k]
  IN sum[n]

(* In two's complement the highest of them counts as a signed byte. *)
SignedByte(b) == IF b >= ByteSpan \div 2 THEN b - ByteSpan ELSE b

SignedNumber(digits, n) == Number([digits EXCEPT ![n - 1] = SignedByte(@)], n)

(* A signed load delivers the signed number that is in memory, an unsigned *)
(* load the unsigned one, for every width.                                 *)
LoadsTheNumber ==
  access.op \in Loads /\ ~access.memException =>
    LET n == SizeOf(access.op)
        bytes == [i \in 0..7 |-> IF i < n THEN memArr[Relative(access.memAddress, i)]
                                          ELSE 0]
    IN IF access.op \in {"LBU", "LHU", "LWU"}
         THEN Number(access.memResult, 8) = Number(bytes, n)
         ELSE SignedNumber(access.memResult, 8) = SignedNumber(bytes, n)

(* The constructor ends: the loop over init_mem_image is left at the end   *)
(* of the file, whether the file is empty, complete or cut.                *)
Constructed == <>(phase \in {"ready", "aborted"})

=============================================================================
