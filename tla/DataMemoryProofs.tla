-------------------------- MODULE DataMemoryProofs --------------------------
(***************************************************************************)
(* Memory is type correct, a store that fails is torn only past the end of *)
(* memory, loads and stores implement AtomicMemory, and what a load        *)
(* extends is the number in memory: for every memory size, address space,  *)
(* image file and program.                                                 *)
(***************************************************************************)
EXTENDS DataMemory, TLAPS

(* Integer division. *)

LEMMA DivMod ==
  ASSUME NEW n \in Nat \ {0}, NEW x \in Int
  PROVE  /\ x = n * (x \div n) + (x % n)
         /\ x % n \in 0..(n - 1)
         /\ x \div n \in Int
OBVIOUS

LEMMA RemainderUnique ==
  ASSUME NEW n \in Nat \ {0}, NEW q \in Int, NEW k \in Int,
         NEW r \in 0..(n - 1), NEW s \in 0..(n - 1),
         n * q + r = n * k + s
  PROVE  r = s
<1>1. n * (q - k) = s - r
  OBVIOUS
<1>2. CASE q - k >= 1
  <2>1. n * (q - k) >= n
    BY <1>2, SMTT(20)
  <2> QED
    BY <1>1, <2>1
<1>3. CASE q - k <= -1
  <2>1. n * (q - k) <= -n
    BY <1>3, SMTT(20)
  <2> QED
    BY <1>1, <2>1
<1>4. CASE q = k
  BY <1>1, <1>4
<1> QED
  BY <1>2, <1>3, <1>4

LEMMA RemainderIs ==
  ASSUME NEW n \in Nat \ {0}, NEW k \in Int, NEW r \in 0..(n - 1),
         NEW x \in Int, x = n * k + r
  PROVE  x % n = r
BY DivMod, RemainderUnique

(* A multiple of n more or less does not matter. *)
LEMMA SameRemainder ==
  ASSUME NEW n \in Nat \ {0}, NEW k \in Int, NEW x \in Int, NEW y \in Int,
         x = y + n * k
  PROVE  x % n = y % n
<1>1. y = n * (y \div n) + (y % n) /\ y % n \in 0..(n - 1) /\ y \div n \in Int
  BY DivMod
<1> DEFINE j == y \div n
           q == j + k
           r == y % n
<1>2. j \in Int /\ r \in 0..(n - 1) /\ y = n * j + r /\ q = j + k
  BY <1>1
<1> HIDE DEF q, r, j
<1>3. x = n * q + r /\ q \in Int
  <2>1. n * (j + k) = n * j + n * k
    BY <1>2
  <2> QED
    BY <1>2, <2>1
<1>4. x % n = r
  BY <1>2, <1>3, RemainderIs
<1> QED
  BY <1>4 DEF r

-----------------------------------------------------------------------------
(* Places and offsets. *)

LEMMA SpanFacts ==
  /\ AddressSpan \in Nat \ {0}
  /\ StartAddr \in Int
  /\ MemorySize \in Nat /\ MemorySize <= AddressSpan
  /\ Place \subseteq 0..(AddressSpan - 1)
BY MemoryAssumption DEF Place

LEMMA SameSpan ==
  ASSUME NEW k \in Int, NEW x \in Int, NEW y \in Int, x = y + AddressSpan * k
  PROVE  x % AddressSpan = y % AddressSpan
BY SameRemainder, SpanFacts, ZenonT(60)

LEMMA RelativeType ==
  ASSUME NEW a \in Int, NEW i \in Int
  PROVE  /\ Relative(a, i) \in 0..(AddressSpan - 1)
         /\ OffsetAt(a, i) \in 0..(AddressSpan - 1)
BY SpanFacts, DivMod DEF Relative, OffsetAt

(* Up to the end of the address space the bytes of an access are in a row. *)
LEMMA RelativeInRow ==
  ASSUME NEW a \in Int, NEW i \in Int, Relative(a, 0) + i \in 0..(AddressSpan - 1)
  PROVE  Relative(a, i) = Relative(a, 0) + i
<1> DEFINE x == a - StartAddr
           k == x \div AddressSpan
           r == x % AddressSpan
<1>1. x = AddressSpan * k + r /\ k \in Int /\ r \in Int /\ x \in Int
  BY SpanFacts, DivMod
<1>2. Relative(a, 0) = r /\ Relative(a, i) = (x + i) % AddressSpan
  BY SpanFacts DEF Relative
<1> HIDE DEF x, k, r
<1>3. x + i = AddressSpan * k + (r + i) /\ r + i \in 0..(AddressSpan - 1)
  BY <1>1, <1>2, SpanFacts
<1>4. (x + i) % AddressSpan = r + i
  <2> DEFINE s == r + i
             y == x + i
  <2>1. y = AddressSpan * k + s /\ s \in 0..(AddressSpan - 1) /\ y \in Int
    BY <1>1, <1>3
  <2> HIDE DEF s, y
  <2>2. y % AddressSpan = s
    BY <1>1, <2>1, RemainderIs, SpanFacts
  <2> QED
    BY <2>2 DEF s, y
<1> QED
  BY <1>2, <1>4

(* The offset of the place at which an offset is. *)
LEMMA OffsetOfRelative ==
  ASSUME NEW a \in Int, NEW i \in 0..(AddressSpan - 1)
  PROVE  OffsetAt(a, Relative(a, i)) = i
<1> DEFINE x == a - StartAddr + i
           k == x \div AddressSpan
           p == x % AddressSpan
           y == p + StartAddr - a
           minus == -k
<1>1. x = AddressSpan * k + p /\ k \in Int /\ p \in Int /\ x \in Int
  BY SpanFacts, DivMod
<1>2. OffsetAt(a, Relative(a, i)) = y % AddressSpan
  BY DEF OffsetAt, Relative
<1> HIDE DEF k, p
<1>3. AddressSpan * minus = -(AddressSpan * k) /\ minus \in Int
  BY <1>1, SpanFacts
<1>4. y = AddressSpan * minus + i /\ minus \in Int /\ y \in Int
  BY <1>1, <1>3, SpanFacts
<1> HIDE DEF x, y, minus
<1>5. y % AddressSpan = i
  BY <1>4, RemainderIs, SpanFacts
<1> QED
  BY <1>2, <1>5

(* And the place of an offset of a place. *)
LEMMA RelativeOfOffset ==
  ASSUME NEW a \in Int, NEW p \in 0..(AddressSpan - 1)
  PROVE  Relative(a, OffsetAt(a, p)) = p
<1> DEFINE x == p + StartAddr - a
           k == x \div AddressSpan
           o == x % AddressSpan
           y == a - StartAddr + o
           minus == -k
<1>1. x = AddressSpan * k + o /\ k \in Int /\ o \in Int /\ x \in Int
  BY SpanFacts, DivMod
<1>2. Relative(a, OffsetAt(a, p)) = y % AddressSpan
  BY DEF OffsetAt, Relative
<1> HIDE DEF k, o
<1>3. AddressSpan * minus = -(AddressSpan * k) /\ minus \in Int
  BY <1>1, SpanFacts
<1>4. y = AddressSpan * minus + p /\ minus \in Int /\ y \in Int
  BY <1>1, <1>3, SpanFacts
<1> HIDE DEF x, y, minus
<1>5. y % AddressSpan = p
  BY <1>4, RemainderIs, SpanFacts
<1> QED
  BY <1>2, <1>5

(* Behind the first byte the offset is the distance from it. *)
LEMMA OffsetInRow ==
  ASSUME NEW a \in Int, NEW p \in 0..(AddressSpan - 1), p >= Relative(a, 0)
  PROVE  OffsetAt(a, p) = p - Relative(a, 0)
<1> DEFINE i == p - Relative(a, 0)
<1>1. Relative(a, 0) \in 0..(AddressSpan - 1)
  BY RelativeType
<1>2. i \in 0..(AddressSpan - 1) /\ Relative(a, 0) + i = p
  BY <1>1, SpanFacts
<1> HIDE DEF i
<1>3. Relative(a, i) = p
  BY <1>2, RelativeInRow
<1>4. OffsetAt(a, p) = i
  BY <1>2, <1>3, OffsetOfRelative
<1> QED
  BY <1>4 DEF i

-----------------------------------------------------------------------------
(* Accesses. *)

(* All of memory is the whole address space: no access fails. *)
LEMMA FullSpaceNeverFails ==
  ASSUME NEW a \in Int, NEW n \in Nat, MemorySize = AddressSpan
  PROVE  ~AccessFails(a, n)
<1>1. \A i \in 0..(n - 1) : Relative(a, i) \in Place
  BY RelativeType DEF Place
<1> QED
  BY <1>1, SpanFacts DEF AccessFails, Reached

(* The bytes that an access that fails gets to are in a row in memory. *)
LEMMA ReachedInRow ==
  ASSUME NEW a \in Int, NEW n \in Nat, AccessFails(a, n), NEW i \in Reached(a, n)
  PROVE  Relative(a, i) = Relative(a, 0) + i /\ Relative(a, 0) + i < MemorySize
<1> DEFINE first == Relative(a, 0)
<1>1. MemorySize < AddressSpan
  <2>1. MemorySize # AddressSpan
    BY FullSpaceNeverFails
  <2> QED
    BY <2>1, SpanFacts
<1>2. i \in 0..(n - 1) /\ \A j \in 0..i : Relative(a, j) \in Place
  BY DEF Reached
<1>3. first \in Place /\ first \in 0..(AddressSpan - 1) /\ first < MemorySize
  <2>1. 0 \in 0..i
    BY <1>2
  <2>2. first \in Place
    BY <1>2, <2>1
  <2>3. first \in 0..(AddressSpan - 1)
    BY RelativeType
  <2> QED
    BY <2>2, <2>3, SpanFacts DEF Place
<1>4. first + i < MemorySize
  <2> SUFFICES ASSUME first + i >= MemorySize
               PROVE  FALSE
    BY <1>2, <1>3, SpanFacts
  <2> DEFINE j == MemorySize - first
  <2>1. j \in 0..i /\ j \in Int /\ first + j = MemorySize
    BY <1>2, <1>3, SpanFacts
  <2> HIDE DEF j
  <2>2. Relative(a, j) = MemorySize
    BY <1>1, <2>1, RelativeInRow, SpanFacts
  <2> QED
    BY <1>2, <2>1, <2>2, SpanFacts DEF Place
<1> QED
  BY <1>1, <1>2, <1>3, <1>4, RelativeInRow, SpanFacts

(* An access that fails and begins in memory gets to its end. *)
LEMMA ReachedToEnd ==
  ASSUME NEW a \in Int, NEW n \in Nat, AccessFails(a, n), Relative(a, 0) \in Place
  PROVE  /\ Relative(a, 0) + n > MemorySize
         /\ \A p \in Place : p >= Relative(a, 0) => p - Relative(a, 0) \in Reached(a, n)
<1> DEFINE first == Relative(a, 0)
<1>1. first \in Nat /\ first < MemorySize
  BY SpanFacts DEF Place
<1>2. \A j \in Nat : first + j < MemorySize => Relative(a, j) \in Place
  <2> SUFFICES ASSUME NEW j \in Nat, first + j < MemorySize
               PROVE  Relative(a, j) \in Place
    OBVIOUS
  <2>1. Relative(a, j) = first + j
    BY <1>1, RelativeInRow, SpanFacts
  <2> QED
    BY <1>1, <2>1, SpanFacts DEF Place
<1> HIDE DEF first
<1>3. first + n > MemorySize
  <2> SUFFICES ASSUME first + n <= MemorySize
               PROVE  Reached(a, n) = 0..(n - 1)
    BY <1>1, SpanFacts DEF AccessFails
  <2>1. \A j \in 0..(n - 1) : Relative(a, j) \in Place
    BY <1>1, <1>2, SpanFacts
  <2> QED
    BY <2>1 DEF Reached
<1>4. ASSUME NEW p \in Place, p >= first
      PROVE  p - first \in Reached(a, n)
  <2>1. p - first \in 0..(n - 1)
    BY <1>1, <1>3, <1>4, SpanFacts DEF Place
  <2>2. \A j \in 0..(p - first) : Relative(a, j) \in Place
    BY <1>1, <1>2, <1>4, SpanFacts DEF Place
  <2> QED
    BY <2>1, <2>2 DEF Reached
<1> QED
  BY <1>3, <1>4 DEF first

(* A write that fails: nothing, or what fits. *)
LEMMA FailingWrite ==
  ASSUME NEW a \in Int, NEW n \in Size, AccessFails(a, n),
         NEW mem \in [Place -> Byte], NEW value \in Double
  PROVE  /\ Relative(a, 0) \notin Place => SetMemValue(mem, a, value, n) = mem
         /\ Relative(a, 0) \in Place =>
              \A p \in Place :
                SetMemValue(mem, a, value, n)[p] =
                  IF p < Relative(a, 0) THEN mem[p] ELSE value[p - Relative(a, 0)]
<1> DEFINE first == Relative(a, 0)
<1>0. n \in Nat \ {0}
  BY DEF Size
<1>1. CASE first \notin Place
  <2>1. Reached(a, n) = {}
    BY <1>0, <1>1 DEF Reached
  <2>2. SetMemValue(mem, a, value, n) = [p \in Place |-> mem[p]]
    BY <2>1 DEF SetMemValue
  <2> QED
    BY <1>1, <2>2
<1>2. CASE first \in Place
  <2> SUFFICES ASSUME NEW p \in Place
               PROVE  SetMemValue(mem, a, value, n)[p] =
                        IF p < first THEN mem[p] ELSE value[p - first]
    BY <1>2
  <2>1. /\ p \in 0..(AddressSpan - 1)
        /\ first \in 0..(AddressSpan - 1)
        /\ OffsetAt(a, p) \in 0..(AddressSpan - 1)
    BY RelativeType, SpanFacts
  <2>2. CASE p >= first
    <3>1. OffsetAt(a, p) = p - first
      BY <2>1, <2>2, OffsetInRow
    <3>2. p - first \in Reached(a, n)
      BY <1>0, <1>2, <2>2, ReachedToEnd
    <3> QED
      BY <2>1, <2>2, <3>1, <3>2 DEF SetMemValue
  <2>3. CASE p < first
    <3>1. OffsetAt(a, p) \notin Reached(a, n)
      <4> SUFFICES ASSUME OffsetAt(a, p) \in Reached(a, n)
                   PROVE  FALSE
        OBVIOUS
      <4>1. Relative(a, OffsetAt(a, p)) = first + OffsetAt(a, p)
        BY <1>0, ReachedInRow
      <4>2. Relative(a, OffsetAt(a, p)) = p
        BY <2>1, RelativeOfOffset
      <4> QED
        BY <2>1, <2>3, <4>1, <4>2
    <3> QED
      BY <2>3, <3>1 DEF SetMemValue
  <2> QED
    BY <2>1, <2>2, <2>3
<1> QED
  BY <1>1, <1>2

(* An aligned access that begins in memory ends in it: memory, its start   *)
(* and the address space are multiples of every size.                      *)
LEMMA AlignedFits ==
  ASSUME NEW a \in Int, NEW n \in Size, a % n = 0, Relative(a, 0) \in Place
  PROVE  ~AccessFails(a, n)
<1> SUFFICES ASSUME AccessFails(a, n)
             PROVE  FALSE
  OBVIOUS
<1> DEFINE first == Relative(a, 0)
           x == a - StartAddr
           k == x \div AddressSpan
<1>1. x = AddressSpan * k + first /\ k \in Int
  BY SpanFacts, DivMod DEF Relative
<1>2. first \in Nat /\ first < MemorySize /\ first + n > MemorySize
  BY ReachedToEnd, SpanFacts DEF Place, Size
<1> DEFINE m == AddressSpan \div 8
           t == m * k
<1>3. AddressSpan = 8 * m /\ m \in Int
  BY SpanFacts, AlignmentAssumption
<1> HIDE DEF first, k, m
<1>4. AddressSpan * k = 8 * t /\ t \in Int
  BY <1>1, <1>3
<1> HIDE DEF t
<1>5. a - StartAddr = 8 * t + first
  BY <1>1, <1>4
<1>6. CASE n = 1
  BY <1>2, <1>6, SpanFacts
<1>7. CASE n = 2
  BY <1>2, <1>4, <1>5, <1>7, AlignmentAssumption, SpanFacts
<1>8. CASE n = 4
  BY <1>2, <1>4, <1>5, <1>8, AlignmentAssumption, SpanFacts
<1>9. CASE n = 8
  BY <1>2, <1>4, <1>5, <1>9, AlignmentAssumption, SpanFacts
<1> QED
  BY <1>6, <1>7, <1>8, <1>9 DEF Size

-----------------------------------------------------------------------------
(* Types. *)

LEMMA ByteFacts ==
  /\ 0 \in Byte /\ ByteSpan - 1 \in Byte
  /\ Zero \in Double
  /\ 0 \in Address /\ Address \subseteq Int
  /\ Size \subseteq 1..8 /\ \A op : SizeOf(op) \in Size
BY MemoryAssumption DEF Byte, Zero, Double, Address, Size, SizeOf

LEMMA ReachedIsPlace ==
  ASSUME NEW a \in Int, NEW n \in Size, NEW i \in Reached(a, n)
  PROVE  i \in 0..7 /\ Relative(a, i) \in Place
<1>1. i \in 0..(n - 1) /\ \A j \in 0..i : Relative(a, j) \in Place
  BY DEF Reached
<1>2. i \in 0..7 /\ i \in 0..i
  BY <1>1, ByteFacts
<1> QED
  BY <1>1, <1>2

(* What is read is a double, what is written leaves a memory, and a        *)
(* sign-extended double is one.                                            *)
LEMMA AccessTypes ==
  ASSUME NEW mem \in [Place -> Byte], NEW a \in Int, NEW n \in Size,
         NEW value \in Double
  PROVE  /\ GetMemValue(mem, a, n) \in Double
         /\ SetMemValue(mem, a, value, n) \in [Place -> Byte]
         /\ ExtendFrom(value, n) \in Double
<1>1. \A i \in Reached(a, n) : i \in 0..7 /\ Relative(a, i) \in Place
  BY ReachedIsPlace
<1>2. GetMemValue(mem, a, n) \in Double
  BY <1>1, ByteFacts DEF GetMemValue, Double
<1>3. SetMemValue(mem, a, value, n) \in [Place -> Byte]
  BY <1>1 DEF SetMemValue, Double
<1>4. ExtendFrom(value, n) \in Double
  BY ByteFacts DEF ExtendFrom, Double
<1> QED
  BY <1>2, <1>3, <1>4

LEMMA EntryType ==
  ASSUME NEW im \in Images, NEW k \in Nat
  PROVE  Entry(im, k).addr \in Address /\ Entry(im, k).word \in Double
<1> DEFINE EntryRecord == [addr : Address, word : Double]
<1>1. im.entries \in Seq(EntryRecord)
  BY DataMemoryAssumption
<1> HIDE DEF EntryRecord
<1>2. \A j \in DOMAIN im.entries : im.entries[j] \in EntryRecord
  BY <1>1
<1> USE DEF EntryRecord
<1> QED
  BY <1>2, ByteFacts DEF Entry, Extracted

LEMMA InitType == Init => TypeOK
<1> SUFFICES ASSUME Init
             PROVE  TypeOK
  OBVIOUS
<1>1. image \in Images /\ binary \in Binaries
  BY DEF Init
<1>2. image.exists \in BOOLEAN /\ Len(image.entries) \in Nat
  BY <1>1, DataMemoryAssumption
<1>3. memArr \in [Place -> Byte]
  BY ByteFacts DEF Init
<1>4. access \in [op : Loads \cup Stores \cup {"NONE"}, memAddress : Address,
                  op2Val : Double, memException : BOOLEAN, memResult : Double]
  BY ByteFacts DEF Init, NoAccess
<1> QED
  BY <1>1, <1>2, <1>3, <1>4, DataMemoryAssumption DEF Init, TypeOK

LEMMA ReadEntryType == TypeOK /\ ReadEntry => TypeOK'
<1> SUFFICES ASSUME TypeOK, ReadEntry
             PROVE  TypeOK'
  OBVIOUS
<1> DEFINE n == entriesRead + 1
<1>1. image \in Images /\ Len(image.entries) \in Nat /\ entriesRead \in 0..Len(image.entries)
  BY DataMemoryAssumption DEF TypeOK
<1>2. n \in Nat
  BY <1>1
<1>3. Entry(image, n).addr \in Int /\ Entry(image, n).word \in Double
  BY <1>1, <1>2, EntryType, ByteFacts
<1>4. 4 \in Size
  BY DEF Size
<1>5. memArr' \in [Place -> Byte]
  BY <1>3, <1>4, AccessTypes DEF ReadEntry, TypeOK
<1>6. streamGood' \in BOOLEAN
  BY <1>1, DataMemoryAssumption DEF ReadEntry, StreamGoodAfter, Extracted
<1>7. entriesRead' \in 0..Len(image.entries)
  BY <1>1 DEF ReadEntry
<1>8. phase' \in {"image", "aborted"}
  BY DEF ReadEntry
<1> QED
  BY <1>5, <1>6, <1>7, <1>8 DEF ReadEntry, TypeOK

LEMMA LoadFromFileType == TypeOK /\ LoadFromFile => TypeOK'
<1> SUFFICES ASSUME TypeOK, LoadFromFile
             PROVE  TypeOK'
  OBVIOUS
<1>1. binary \in Seq(Byte) /\ Len(binary) \in Nat
  BY DataMemoryAssumption DEF TypeOK
<1>2. \A p \in Place : OffsetAt(0, p) < Len(binary) => binary[OffsetAt(0, p) + 1] \in Byte
  <2> SUFFICES ASSUME NEW p \in Place, OffsetAt(0, p) < Len(binary)
               PROVE  binary[OffsetAt(0, p) + 1] \in Byte
    OBVIOUS
  <2>1. OffsetAt(0, p) \in Nat
    BY RelativeType, SpanFacts
  <2> QED
    BY <1>1, <2>1
<1>3. memArr' \in [Place -> Byte]
  BY <1>2 DEF LoadFromFile, TypeOK
<1> QED
  BY <1>3 DEF LoadFromFile, TypeOK

LEMMA MemAccessType == TypeOK /\ MemAccess => TypeOK'
<1> SUFFICES ASSUME TypeOK, MemAccess
             PROVE  TypeOK'
  OBVIOUS
<1> DEFINE Access ==
      [op : Loads \cup Stores \cup {"NONE"}, memAddress : Address,
       op2Val : Double, memException : BOOLEAN, memResult : Double]
<1>1. memArr' \in [Place -> Byte] /\ access' \in Access
  <2> SUFFICES ASSUME NEW a \in Addresses,
                      \/ \E op \in Loads : Load(op, a)
                      \/ \E op \in Stores, v \in Values : Store(op, a, v)
               PROVE  memArr' \in [Place -> Byte] /\ access' \in Access
    BY DEF MemAccess
  <2>0. a \in Address /\ a \in Int /\ memArr \in [Place -> Byte]
    BY DataMemoryAssumption, ByteFacts DEF TypeOK
  <2>1. CASE \E op \in Loads : Load(op, a)
    <3>1. PICK op \in Loads : Load(op, a)
      BY <2>1
    <3> DEFINE n == SizeOf(op)
               value == GetMemValue(memArr, a, n)
               result == IF AccessFails(a, n) THEN Zero
                         ELSE IF SignExtends(op) THEN ExtendFrom(value, n)
                         ELSE value
    <3>2. value \in Double
      BY <2>0, AccessTypes, ByteFacts
    <3>3. ExtendFrom(value, n) \in Double
      BY <2>0, <3>2, AccessTypes, ByteFacts
    <3>4. result \in Double
      BY <3>2, <3>3, ByteFacts
    <3>5. access' = [op |-> op, memAddress |-> a, op2Val |-> Zero,
                     memException |-> AccessFails(a, n), memResult |-> result]
      BY <3>1 DEF Load
    <3>6. AccessFails(a, n) \in BOOLEAN
      BY DEF AccessFails
    <3> QED
      BY <2>0, <3>1, <3>4, <3>5, <3>6, ByteFacts DEF Load
  <2>2. CASE \E op \in Stores, v \in Values : Store(op, a, v)
    <3>1. PICK op \in Stores, v \in Values : Store(op, a, v)
      BY <2>2
    <3>2. v \in Double
      BY DataMemoryAssumption
    <3>3. memArr' \in [Place -> Byte]
      BY <2>0, <3>1, <3>2, AccessTypes, ByteFacts DEF Store
    <3>4. AccessFails(a, SizeOf(op)) \in BOOLEAN
      BY DEF AccessFails
    <3>5. access' = [op |-> op, memAddress |-> a, op2Val |-> v,
                     memException |-> AccessFails(a, SizeOf(op)), memResult |-> Zero]
      BY <3>1 DEF Store
    <3> QED
      BY <2>0, <3>2, <3>3, <3>4, <3>5, ByteFacts
  <2> QED
    BY <2>1, <2>2
<1>2. accesses' \in 0..MaxAccesses
  BY DataMemoryAssumption DEF MemAccess, TypeOK
<1> QED
  BY <1>1, <1>2 DEF MemAccess, TypeOK

LEMMA StepType == TypeOK /\ [Next]_vars => TypeOK'
<1> SUFFICES ASSUME TypeOK, [Next]_vars
             PROVE  TypeOK'
  OBVIOUS
<1>1. CASE ImageRead
  BY <1>1 DEF ImageRead, TypeOK
<1>2. CASE Stopped \/ UNCHANGED vars
  BY <1>2 DEF Stopped, vars, TypeOK
<1> QED
  BY <1>1, <1>2, ReadEntryType, LoadFromFileType, MemAccessType DEF Next, Construct

(* Every byte of memory, every value loaded and every counter keeps its    *)
(* type, whatever the files are and wherever accesses end.                 *)
THEOREM DataMemoryTypeCorrect == Spec => []TypeOK
BY InitType, StepType, PTL DEF Spec

(* A store that raises an exception leaves memory alone if it is aligned,  *)
(* and otherwise writes exactly its bytes from its address to the end of   *)
(* memory.                                                                 *)
THEOREM StoresTornOnlyPastEnd == Spec => TornOnlyPastEnd
<1> DEFINE Torn ==
      accesses' # accesses /\ access'.memException =>
        LET address == access'.memAddress
            first == Relative(address, 0)
        IN /\ address % SizeOf(access'.op) = 0 => memArr' = memArr
           /\ memArr' # memArr =>
                \A p \in Place :
                  memArr'[p] = IF p < first THEN memArr[p]
                               ELSE access'.op2Val[p - first]
<1>1. ASSUME TypeOK, [Next]_vars
      PROVE  Torn
  <2> SUFFICES ASSUME accesses' # accesses, access'.memException
               PROVE  Torn
    OBVIOUS
  <2>1. MemAccess
    BY <1>1 DEF Next, Construct, ReadEntry, ImageRead, LoadFromFile, Stopped, vars
  <2>2. PICK a \in Addresses :
          \/ \E op \in Loads : Load(op, a)
          \/ \E op \in Stores, v \in Values : Store(op, a, v)
    BY <2>1 DEF MemAccess
  <2>3. a \in Int /\ memArr \in [Place -> Byte]
    BY <1>1, DataMemoryAssumption, ByteFacts DEF TypeOK
  <2>4. CASE \E op \in Loads : Load(op, a)
    BY <2>4 DEF Load
  <2>5. CASE \E op \in Stores, v \in Values : Store(op, a, v)
    <3>1. PICK op \in Stores, v \in Values : Store(op, a, v)
      BY <2>5
    <3>2. /\ access'.memAddress = a /\ access'.op = op /\ access'.op2Val = v
          /\ AccessFails(a, SizeOf(op))
          /\ memArr' = SetMemValue(memArr, a, v, SizeOf(op))
      BY <3>1 DEF Store
    <3>3. v \in Double /\ SizeOf(op) \in Size
      BY DataMemoryAssumption, ByteFacts
    <3>4. /\ Relative(a, 0) \notin Place => memArr' = memArr
          /\ Relative(a, 0) \in Place =>
               \A p \in Place : memArr'[p] = IF p < Relative(a, 0) THEN memArr[p]
                                             ELSE v[p - Relative(a, 0)]
      BY <2>3, <3>2, <3>3, FailingWrite
    <3>5. a % SizeOf(op) = 0 => Relative(a, 0) \notin Place
      BY <2>3, <3>2, <3>3, AlignedFits
    <3> QED
      BY <3>2, <3>4, <3>5
  <2> QED
    BY <2>2, <2>4, <2>5
<1>2. TypeOK /\ [Next]_vars => [Torn]_vars
  BY <1>1
<1> QED
  BY <1>2, DataMemoryTypeCorrect, PTL DEF Spec, TornOnlyPastEnd

-----------------------------------------------------------------------------
(* Addresses and places. *)

AddressOf(p) == (StartAddr + p) % AddressSpan

Existing == {AddressOf(p) : p \in Place}

(* Two numbers with the same remainder differ by a multiple. *)
LEMMA RelativeOfRemainder ==
  ASSUME NEW a \in Int, NEW i \in Int
  PROVE  /\ (a + i) % AddressSpan \in 0..(AddressSpan - 1)
         /\ Relative((a + i) % AddressSpan, 0) = Relative(a, i)
<1> DEFINE x == a + i
           k == x \div AddressSpan
           r == x % AddressSpan
           minus == -k
           y == r - StartAddr + 0
           z == a - StartAddr + i
<1>1. x = AddressSpan * k + r /\ k \in Int /\ r \in 0..(AddressSpan - 1) /\ x \in Int
  BY SpanFacts, DivMod
<1>2. Relative(r, 0) = y % AddressSpan /\ Relative(a, i) = z % AddressSpan
  BY DEF Relative
<1> HIDE DEF k, r
<1>3. AddressSpan * minus = -(AddressSpan * k) /\ minus \in Int
  BY <1>1, SpanFacts
<1>4. y = z + AddressSpan * minus /\ y \in Int /\ z \in Int
  BY <1>1, <1>3, SpanFacts
<1> HIDE DEF x, y, z, minus
<1>5. y % AddressSpan = z % AddressSpan
  BY <1>3, <1>4, SameSpan
<1>6. Relative(r, 0) = Relative(a, i) /\ r \in 0..(AddressSpan - 1)
  BY <1>1, <1>2, <1>5
<1> QED
  BY <1>6 DEF r, x

LEMMA PlaceOfAddress ==
  ASSUME NEW p \in Place
  PROVE  AddressOf(p) \in 0..(AddressSpan - 1) /\ Relative(AddressOf(p), 0) = p
<1>1. p \in 0..(AddressSpan - 1) /\ p \in Int
  BY SpanFacts
<1>2. Relative(StartAddr, p) = p
  <2>1. StartAddr - StartAddr + p = p /\ p % AddressSpan = p
    BY <1>1, SpanFacts
  <2> QED
    BY <2>1 DEF Relative
<1> QED
  BY <1>1, <1>2, RelativeOfRemainder, SpanFacts DEF AddressOf

(* The distance of an address is the offset of its place. *)
LEMMA DistanceIsOffset ==
  ASSUME NEW p \in Place, NEW a \in Int
  PROVE  (AddressOf(p) - a) % AddressSpan = OffsetAt(a, p)
<1> DEFINE x == StartAddr + p
           k == x \div AddressSpan
           r == x % AddressSpan
           minus == -k
           y == r - a
           z == p + StartAddr - a
<1>0. p \in Int
  BY SpanFacts
<1>1. x = AddressSpan * k + r /\ k \in Int /\ r \in Int /\ x \in Int
  BY <1>0, SpanFacts, DivMod
<1>2. (AddressOf(p) - a) % AddressSpan = y % AddressSpan /\ OffsetAt(a, p) = z % AddressSpan
  BY DEF OffsetAt, AddressOf
<1> HIDE DEF k, r
<1>3. AddressSpan * minus = -(AddressSpan * k) /\ minus \in Int
  BY <1>1, SpanFacts
<1>4. y = z + AddressSpan * minus /\ y \in Int /\ z \in Int
  BY <1>0, <1>1, <1>3, SpanFacts
<1> HIDE DEF x, y, z, minus
<1>5. y % AddressSpan = z % AddressSpan
  BY <1>3, <1>4, SameSpan
<1> QED
  BY <1>2, <1>5

LEMMA OffsetFromZero ==
  ASSUME NEW p \in Place
  PROVE  OffsetAt(0, p) = AddressOf(p)
<1>1. AddressOf(p) \in 0..(AddressSpan - 1)
  BY PlaceOfAddress
<1> DEFINE a == AddressOf(p)
<1> HIDE DEF a
<1>2. a \in 0..(AddressSpan - 1) => (a - 0) % AddressSpan = a
  BY SpanFacts
<1> QED
  BY <1>1, <1>2, DistanceIsOffset DEF a

(* The address of a byte exists when its place does. *)
LEMMA ExistsIffPlace ==
  ASSUME NEW a \in Int, NEW i \in Int
  PROVE  /\ (a + i) % AddressSpan \in Existing <=> Relative(a, i) \in Place
         /\ Relative(a, i) \in Place => AddressOf(Relative(a, i)) = (a + i) % AddressSpan
<1> DEFINE b == (a + i) % AddressSpan
<1>1. b \in 0..(AddressSpan - 1) /\ b \in Int /\ Relative(b, 0) = Relative(a, i)
  BY RelativeOfRemainder
<1> HIDE DEF b
<1>2. ASSUME b \in Existing
      PROVE  Relative(a, i) \in Place
  <2>1. PICK p \in Place : b = AddressOf(p)
    BY <1>2 DEF Existing
  <2> QED
    BY <1>1, <2>1, PlaceOfAddress
<1>3. ASSUME Relative(a, i) \in Place
      PROVE  AddressOf(Relative(a, i)) = b
  <2> DEFINE p == Relative(b, 0)
  <2>1. p \in Place
    BY <1>1, <1>3
  <2>2. (AddressOf(p) - StartAddr) % AddressSpan = OffsetAt(StartAddr, p)
    BY <2>1, DistanceIsOffset, SpanFacts
  <2>3. OffsetAt(AddressOf(p), p) = 0
    <3>1. (AddressOf(p) - AddressOf(p)) % AddressSpan = OffsetAt(AddressOf(p), p)
      BY <2>1, PlaceOfAddress, DistanceIsOffset
    <3>2. AddressOf(p) \in Int
      BY <2>1, PlaceOfAddress
    <3>3. AddressOf(p) - AddressOf(p) = 0
      BY <3>2
    <3>4. 0 % AddressSpan = 0
      BY SpanFacts
    <3> QED
      BY <3>1, <3>3, <3>4
  <2>4. (AddressOf(p) - b) % AddressSpan = OffsetAt(b, p)
    BY <1>1, <2>1, DistanceIsOffset
  <2>5. OffsetAt(b, p) = 0
    BY <1>1, OffsetOfRelative, SpanFacts
  <2>6. AddressOf(p) \in 0..(AddressSpan - 1)
    BY <2>1, PlaceOfAddress
  <2> HIDE DEF p
  <2> DEFINE c == AddressOf(p)
             x == c - b
             q == x \div AddressSpan
  <2>7. x = AddressSpan * q + 0 /\ q \in Int
    <3>1. x % AddressSpan = 0 /\ x \in Int
      BY <1>1, <2>4, <2>5, <2>6
    <3> QED
      BY <3>1, DivMod, SpanFacts
  <2>8. c - b = AddressSpan * q /\ q \in Int
    <3> HIDE DEF q
    <3>1. AddressSpan * q \in Int
      BY <2>7, SpanFacts
    <3> QED
      BY <2>7, <3>1
  <2> HIDE DEF c, q
  <2>9. AddressSpan * q + b = AddressSpan * 0 + c
    BY <1>1, <2>6, <2>8, SpanFacts DEF c
  <2>10. b = c
    BY <1>1, <2>6, <2>8, <2>9, RemainderUnique, SpanFacts DEF c
  <2> QED
    BY <1>1, <2>10 DEF c, p
<1>4. ASSUME Relative(a, i) \in Place
      PROVE  b \in Existing
  BY <1>3, <1>4 DEF Existing
<1> QED
  BY <1>2, <1>3, <1>4 DEF b

-----------------------------------------------------------------------------
(* What the constructor has built. *)

(* Entry k of the image covers the address a, and has this byte for it.    *)
Covers(im, k, a) == (a - im.entries[k].addr) % AddressSpan < 4

ByteOf(im, k, a) == Entry(im, k).word[(a - Entry(im, k).addr) % AddressSpan]

(* The first n entries of the image leave byte at the address a.           *)
Says(im, n, a, byte) ==
  \/ \E k \in 1..n : /\ Covers(im, k, a) /\ byte = ByteOf(im, k, a)
                     /\ \A j \in 1..n : Covers(im, j, a) => j <= k
  \/ (\A k \in 1..n : ~Covers(im, k, a)) /\ byte = 0

(* Behind the program, which is read last, memory holds what the entries   *)
(* that have been read leave there.                                        *)
Built ==
  phase \in {"image", "program"} =>
    \A p \in Place :
      AddressOf(p) >= Len(binary) => Says(image, entriesRead, AddressOf(p), memArr[p])

(* The stream fails no earlier than at the last entry.                     *)
AllRead ==
  phase = "program" \/ (phase = "image" /\ ~streamGood) =>
    entriesRead = Len(image.entries)

BuildInv == TypeOK /\ Built /\ AllRead

LEMMA FileTypes ==
  ASSUME NEW im \in Images, NEW bin \in Binaries
  PROVE  /\ Len(im.entries) \in Nat /\ DOMAIN im.entries = 1..Len(im.entries)
         /\ im.exists \in BOOLEAN /\ im.cut \in BOOLEAN
         /\ (~im.exists => Len(im.entries) = 0)
         /\ \A k \in 1..Len(im.entries) :
              im.entries[k].addr \in Address /\ Entry(im, k).addr = im.entries[k].addr
         /\ Len(bin) \in Nat /\ Len(bin) >= 4
<1> DEFINE EntryRecord == [addr : Address, word : Double]
<1>1. im.entries \in Seq(EntryRecord)
  BY DataMemoryAssumption
<1> HIDE DEF EntryRecord
<1>2. /\ Len(im.entries) \in Nat /\ DOMAIN im.entries = 1..Len(im.entries)
      /\ \A j \in DOMAIN im.entries : im.entries[j] \in EntryRecord
  BY <1>1
<1> USE DEF EntryRecord
<1>3. \A k \in 1..Len(im.entries) :
        im.entries[k].addr \in Address /\ Entry(im, k).addr = im.entries[k].addr
  BY <1>2 DEF Entry
<1>4. ~im.exists => Len(im.entries) = 0
  BY DataMemoryAssumption
<1>5. Len(bin) \in Nat /\ Len(bin) >= 4
  BY DataMemoryAssumption
<1> QED
  BY <1>2, <1>3, <1>4, <1>5, DataMemoryAssumption

LEMMA SaysNext ==
  ASSUME NEW im, NEW n \in Nat, NEW a, NEW byte, Says(im, n, a, byte)
  PROVE  /\ Covers(im, n + 1, a) => Says(im, n + 1, a, ByteOf(im, n + 1, a))
         /\ ~Covers(im, n + 1, a) => Says(im, n + 1, a, byte)
<1>1. \A j : j \in 1..(n + 1) <=> j \in 1..n \/ j = n + 1
  OBVIOUS
<1>2. \A j \in 1..n : j <= n + 1
  OBVIOUS
<1>3. n + 1 <= n + 1
  OBVIOUS
<1> QED
  BY <1>1, <1>2, <1>3 DEF Says

(* The bytes that a write that succeeds leaves. *)
LEMMA WrittenBytes ==
  ASSUME NEW mem, NEW a \in Int, NEW n \in Size, NEW value, ~AccessFails(a, n),
         NEW p \in Place
  PROVE  SetMemValue(mem, a, value, n)[p] =
           IF OffsetAt(a, p) < n THEN value[OffsetAt(a, p)] ELSE mem[p]
<1>1. Reached(a, n) = 0..(n - 1)
  BY DEF AccessFails
<1>2. OffsetAt(a, p) \in 0..(AddressSpan - 1) /\ n \in Nat
  BY RelativeType, SpanFacts, ByteFacts
<1>3. OffsetAt(a, p) \in 0..(n - 1) <=> OffsetAt(a, p) < n
  BY <1>2, SpanFacts
<1> QED
  BY <1>1, <1>3 DEF SetMemValue

LEMMA InitBuilt == Init => BuildInv
<1> SUFFICES ASSUME Init
             PROVE  BuildInv
  OBVIOUS
<1>1. image \in Images /\ binary \in Binaries
  BY DEF Init
<1>2. AllRead
  BY <1>1, FileTypes DEF Init, AllRead
<1>3. Built
  BY DEF Init, Built, Says
<1> QED
  BY <1>2, <1>3, InitType DEF BuildInv

LEMMA ReadEntryBuilt == BuildInv /\ ReadEntry => BuildInv'
<1> SUFFICES ASSUME BuildInv, ReadEntry
             PROVE  BuildInv'
  OBVIOUS
<1> DEFINE n == entriesRead + 1
           e == Entry(image, n)
<1>1. /\ image \in Images /\ binary \in Binaries
      /\ entriesRead \in 0..Len(image.entries)
  BY DEF BuildInv, TypeOK
<1>2. /\ Len(image.entries) \in Nat /\ DOMAIN image.entries = 1..Len(image.entries)
      /\ \A k \in 1..Len(image.entries) :
           image.entries[k].addr \in Address /\ Entry(image, k).addr = image.entries[k].addr
      /\ Len(binary) \in Nat /\ Len(binary) >= 4
  BY <1>1, FileTypes
<1>3. n \in Nat /\ e.addr \in Int /\ 4 \in Size
  <2>1. n \in Nat /\ 4 \in Size
    BY <1>1, <1>2 DEF Size
  <2> QED
    BY <1>1, <2>1, EntryType, ByteFacts
<1>4. AllRead'
  <2>1. /\ phase = "image" /\ phase' \in {"image", "aborted"}
        /\ streamGood' = Extracted(image, n) /\ image' = image
        /\ entriesRead' = IF n <= Len(image.entries) THEN n ELSE entriesRead
    BY DEF ReadEntry, StreamGoodAfter
  <2>2. ~Extracted(image, n) => n > Len(image.entries) \/ n = Len(image.entries)
    <3>1. n \in 1..Len(image.entries) \/ n > Len(image.entries)
      BY <1>1, <1>2
    <3> HIDE DEF n, e
    <3> QED
      BY <1>2, <3>1 DEF Extracted
  <2> HIDE DEF e
  <2>3. ~Extracted(image, n) => entriesRead' = Len(image.entries)
    BY <1>1, <1>2, <2>1, <2>2
  <2> QED
    BY <2>1, <2>3 DEF AllRead
<1>5. Built'
  <2> SUFFICES ASSUME phase' \in {"image", "program"}, NEW p \in Place,
                      AddressOf(p) >= Len(binary)
               PROVE  Says(image, entriesRead', AddressOf(p), memArr'[p])
    BY DEF Built, ReadEntry
  <2> DEFINE a == AddressOf(p)
  <2>1. ~AccessFails(e.addr, 4) /\ memArr' = SetMemValue(memArr, e.addr, e.word, 4)
    BY DEF ReadEntry
  <2>2. memArr'[p] = IF OffsetAt(e.addr, p) < 4 THEN e.word[OffsetAt(e.addr, p)]
                     ELSE memArr[p]
    BY <1>3, <2>1, WrittenBytes
  <2>3. OffsetAt(e.addr, p) = (a - e.addr) % AddressSpan
    BY <1>3, DistanceIsOffset
  <2>4. Says(image, entriesRead, a, memArr[p])
    BY DEF BuildInv, Built, ReadEntry
  <2>5. CASE n <= Len(image.entries)
    <3>1. entriesRead' = n /\ e.addr = image.entries[n].addr
      <4>1. n \in 1..Len(image.entries)
        BY <1>1, <1>2, <2>5
      <4> QED
        BY <1>2, <2>5, <4>1 DEF ReadEntry
    <3>2. memArr'[p] = IF Covers(image, n, a) THEN ByteOf(image, n, a) ELSE memArr[p]
      BY <2>2, <2>3, <3>1 DEF Covers, ByteOf
    <3>3. entriesRead \in Nat
      BY <1>1, <1>2
    <3> QED
      BY <2>4, <3>1, <3>2, <3>3, SaysNext
  <2>6. CASE ~(n <= Len(image.entries))
    <3>1. entriesRead' = entriesRead /\ e.addr = 0
      BY <1>2, <1>3, <2>6 DEF ReadEntry, Entry
    <3>2. OffsetAt(0, p) = a /\ a \in Int /\ ~(a < 4)
      BY <1>2, OffsetFromZero, PlaceOfAddress, SpanFacts
    <3> QED
      BY <2>2, <2>4, <3>1, <3>2
  <2> QED
    BY <2>5, <2>6
<1>6. TypeOK'
  BY ReadEntryType DEF BuildInv
<1> QED
  BY <1>4, <1>5, <1>6 DEF BuildInv

LEMMA StepBuilt == BuildInv /\ [Next]_vars => BuildInv'
<1> SUFFICES ASSUME BuildInv, [Next]_vars
             PROVE  BuildInv'
  OBVIOUS
<1>1. TypeOK'
  BY StepType DEF BuildInv
<1>2. CASE ReadEntry
  BY <1>2, ReadEntryBuilt
<1>3. CASE ImageRead
  BY <1>1, <1>3 DEF ImageRead, BuildInv, Built, AllRead
<1>4. CASE LoadFromFile
  BY <1>1, <1>4 DEF LoadFromFile, BuildInv, Built, AllRead
<1>5. CASE MemAccess
  BY <1>1, <1>5 DEF MemAccess, BuildInv, Built, AllRead
<1>6. CASE UNCHANGED vars
  BY <1>1, <1>6 DEF vars, BuildInv, Built, AllRead
<1> QED
  BY <1>2, <1>3, <1>4, <1>5, <1>6 DEF Next, Construct, Stopped

LEMMA Building == Spec => []BuildInv
BY InitBuilt, StepBuilt, PTL DEF Spec

(* What the entries say is what FileContents has. *)
LEMMA SaysContents ==
  ASSUME NEW im \in Images, NEW bin \in Binaries, NEW a \in Existing, NEW byte,
         ~(a < Len(bin)), Says(im, Len(im.entries), a, byte)
  PROVE  FileContents(im, bin)[a] = byte
<1> DEFINE covering == {n \in DOMAIN im.entries :
                          (a - im.entries[n].addr) % AddressSpan < 4}
           newest == CHOOSE n \in covering : \A k \in covering : k <= n
<1>1. DOMAIN im.entries = 1..Len(im.entries) /\ Len(im.entries) \in Nat
  BY FileTypes
<1>2. FileContents(im, bin)[a] =
        IF covering = {} THEN 0
        ELSE Entry(im, newest).word[(a - Entry(im, newest).addr) % AddressSpan]
  BY DEF FileContents, FirstByte, Existing, AddressOf
<1>3. CASE \A k \in 1..Len(im.entries) : ~Covers(im, k, a)
  <2>1. covering = {} /\ byte = 0
    BY <1>1, <1>3 DEF Says, Covers
  <2> QED
    BY <1>2, <2>1
<1>4. CASE \E k \in 1..Len(im.entries) : Covers(im, k, a)
  <2>1. PICK k \in 1..Len(im.entries) :
               /\ Covers(im, k, a) /\ byte = ByteOf(im, k, a)
               /\ \A j \in 1..Len(im.entries) : Covers(im, j, a) => j <= k
    BY <1>4 DEF Says
  <2>2. k \in covering /\ \A j \in covering : j <= k
    BY <1>1, <2>1 DEF Covers
  <2>3. newest \in covering /\ \A j \in covering : j <= newest
    BY <2>2
  <2> covering \subseteq Int
    BY <1>1
  <2> HIDE DEF newest, covering
  <2>4. newest = k
    <3>1. newest <= k /\ k <= newest
      BY <2>2, <2>3
    <3>2. newest \in Int /\ k \in Int
      BY <2>2, <2>3
    <3> QED
      BY <3>1, <3>2
  <2>5. covering # {}
    BY <2>2
  <2> QED
    BY <1>2, <2>1, <2>4, <2>5 DEF ByteOf
<1> QED
  BY <1>3, <1>4

-----------------------------------------------------------------------------
(* Loads and stores are those of AtomicMemory. *)

(* The bytes that the abstract access spans have its first offsets. *)
LEMMA SpanIsOffsets ==
  ASSUME NEW a \in Int, NEW n \in Size, NEW p \in Place
  PROVE  (\E i \in 0..(n - 1) : AddressOf(p) = (a + i) % AddressSpan)
           <=> OffsetAt(a, p) < n
<1>1. n \in 1..8 /\ AddressSpan >= 8 /\ AddressSpan \in Nat
  BY AlignmentAssumption, SpanFacts, ByteFacts
<1>2. OffsetAt(a, p) \in 0..(AddressSpan - 1) /\ p \in 0..(AddressSpan - 1)
  <2>1. p \in 0..(AddressSpan - 1) /\ p \in Int
    BY SpanFacts
  <2> QED
    BY <2>1, RelativeType
<1>3. ASSUME NEW i \in 0..(n - 1), AddressOf(p) = (a + i) % AddressSpan
      PROVE  OffsetAt(a, p) < n
  <2>1. i \in 0..(AddressSpan - 1) /\ i \in Int /\ i < n
    BY <1>1
  <2>2. Relative(a, i) = p
    BY <1>3, <2>1, RelativeOfRemainder, PlaceOfAddress
  <2> QED
    BY <2>1, <2>2, OffsetOfRelative
<1>4. ASSUME OffsetAt(a, p) < n
      PROVE  \E i \in 0..(n - 1) : AddressOf(p) = (a + i) % AddressSpan
  <2> DEFINE i == OffsetAt(a, p)
  <2>1. Relative(a, i) = p
    BY <1>2, RelativeOfOffset
  <2>2. i \in 0..(n - 1) /\ i \in Int
    BY <1>1, <1>2, <1>4
  <2> HIDE DEF i
  <2>3. AddressOf(p) = (a + i) % AddressSpan
    BY <2>1, <2>2, ExistsIffPlace
  <2> QED
    BY <2>2, <2>3
<1> QED
  BY <1>3, <1>4

(* An access is refused when an address of it does not exist. *)
LEMMA FailsIffMissing ==
  ASSUME NEW a \in Int, NEW n \in Size
  PROVE  AccessFails(a, n) <=>
           ~({(a + i) % AddressSpan : i \in 0..(n - 1)} \subseteq Existing)
<1>1. AccessFails(a, n) <=> ~(\A i \in 0..(n - 1) : Relative(a, i) \in Place)
  <2>1. \A i \in 0..(n - 1) : i \in 0..i /\ \A j \in 0..i : j \in 0..(n - 1)
    BY ByteFacts
  <2> QED
    BY <2>1 DEF AccessFails, Reached
<1>2. \A i \in 0..(n - 1) : (a + i) % AddressSpan \in Existing <=> Relative(a, i) \in Place
  BY ExistsIffPlace
<1> QED
  BY <1>1, <1>2

(* The memory as a function of addresses has at an address the byte that   *)
(* is at its place.                                                        *)
LEMMA Addressed ==
  /\ DOMAIN AddressedMemory = Existing
  /\ \A p \in Place : AddressedMemory[AddressOf(p)] = memArr[p]
<1>1. DOMAIN AddressedMemory = Existing
  BY DEF AddressedMemory, Existing, AddressOf
<1>2. ASSUME NEW p \in Place
      PROVE  AddressedMemory[AddressOf(p)] = memArr[p]
  <2>1. AddressOf(p) \in Existing /\ Relative(AddressOf(p), 0) = p
    BY PlaceOfAddress DEF Existing
  <2>2. AddressedMemory[AddressOf(p)] = memArr[Relative(AddressOf(p), 0)]
    BY <2>1 DEF AddressedMemory, Existing, AddressOf
  <2> QED
    BY <2>1, <2>2
<1> QED
  BY <1>1, <1>2

(* When the program has been read memory is what the files say. *)
LEMMA Loaded == BuildInv /\ LoadFromFile => AddressedMemory' = FileContents(image, binary)
<1> SUFFICES ASSUME BuildInv, LoadFromFile
             PROVE  AddressedMemory' = FileContents(image, binary)
  OBVIOUS
<1>1. image \in Images /\ binary \in Binaries
  BY DEF BuildInv, TypeOK
<1>2. Len(binary) \in Nat /\ entriesRead = Len(image.entries)
  BY <1>1, FileTypes DEF BuildInv, AllRead, LoadFromFile
<1>3. ASSUME NEW p \in Place
      PROVE  AddressedMemory'[AddressOf(p)] = FileContents(image, binary)[AddressOf(p)]
  <2> DEFINE a == AddressOf(p)
  <2>1. a \in Existing /\ a \in Int /\ OffsetAt(0, p) = a
    BY PlaceOfAddress, OffsetFromZero, SpanFacts DEF Existing
  <2>2. AddressedMemory'[a] = memArr'[p]
    <3>1. AddressedMemory'[a] = memArr'[Relative(a, 0)]
      BY <2>1 DEF AddressedMemory, Existing, AddressOf
    <3> QED
      BY <3>1, PlaceOfAddress
  <2>3. memArr'[p] = IF a < Len(binary) THEN binary[a + 1] ELSE memArr[p]
    BY <2>1 DEF LoadFromFile
  <2>4. CASE a < Len(binary)
    <3>1. FileContents(image, binary)[a] = binary[a + 1]
      BY <2>1, <2>4 DEF FileContents, FirstByte, Existing, AddressOf
    <3> QED
      BY <2>2, <2>3, <2>4, <3>1
  <2>5. CASE ~(a < Len(binary))
    <3>1. Says(image, Len(image.entries), a, memArr[p])
      BY <1>2, <2>1, <2>5 DEF BuildInv, Built, LoadFromFile
    <3>2. FileContents(image, binary)[a] = memArr[p]
      BY <1>1, <2>1, <2>5, <3>1, SaysContents
    <3> QED
      BY <2>2, <2>3, <2>5, <3>2
  <2> QED
    BY <2>4, <2>5
<1> DEFINE after == AddressedMemory'
           told == FileContents(image, binary)
<1>4. after = [a \in Existing |-> after[a]]
  BY DEF AddressedMemory, Existing, AddressOf
<1>5. told = [a \in Existing |-> told[a]]
  BY DEF FileContents, Existing, AddressOf
<1>6. \A a \in Existing : after[a] = told[a]
  BY <1>3 DEF Existing
<1> HIDE DEF after, told
<1>7. after = told
  BY <1>4, <1>5, <1>6
<1> QED
  BY <1>7 DEF after, told

(* Memory as the abstract specification sees it. *)
Mem == IF phase = "ready" THEN AddressedMemory ELSE FileContents(image, binary)

LEMMA InitAtomic == Init => Atomic!Init
<1> SUFFICES ASSUME Init
             PROVE  Atomic!Init
  OBVIOUS
<1>1. access = NoAccess /\ image \in Images /\ binary \in Binaries /\ phase = "image"
  BY DEF Init
<1>2. accessRequest = Atomic!NoRequest
  BY <1>1 DEF accessRequest, NoAccess, Loads, Stores, RequestOf, Atomic!NoRequest
<1>3. accessAnswer = [refused |-> FALSE, read |-> << >>]
  BY <1>1 DEF accessAnswer, NoAccess, Loads
<1>4. FileContents(image, binary) \in {FileContents(im, bin) : im \in Images, bin \in Binaries}
  BY <1>1
<1> QED
  BY <1>1, <1>2, <1>3, <1>4 DEF Atomic!Init

LEMMA LoadAtomic ==
  ASSUME TypeOK, phase = "ready", phase' = "ready",
         NEW a \in Addresses, NEW op \in Loads, Load(op, a)
  PROVE  Atomic!Next
<1> DEFINE n == SizeOf(op)
           r == RequestOf("read", a, n, << >>)
<1>1. a \in Int /\ n \in Size /\ n \in 1..8
  BY DataMemoryAssumption, ByteFacts
<1>2. accessRequest' = r
  BY DEF Load, accessRequest, RequestOf
<1>3. Mem = AddressedMemory /\ Mem' = AddressedMemory' /\ AddressedMemory' = AddressedMemory
  BY DEF Mem, Load, AddressedMemory
<1>4. /\ r.kind = "read" /\ r.address = a /\ r.size = n
      /\ r \in {RequestOf("read", b, m, << >>) : b \in Addresses, m \in Size}
  BY <1>1 DEF RequestOf
<1>5. Atomic!Granted(r) <=> ~AccessFails(a, n)
  BY <1>1, <1>3, <1>4, FailsIffMissing, Addressed DEF Atomic!Granted, Atomic!Span, Mem
<1>6. CASE AccessFails(a, n)
  <2>1. accessAnswer' = [refused |-> TRUE, read |-> << >>]
    BY <1>6 DEF Load, accessAnswer
  <2>2. Atomic!Refuse(r)
    BY <1>3, <1>5, <1>6, <2>1 DEF Atomic!Refuse, Mem
  <2> QED
    BY <1>2, <1>4, <2>2 DEF Atomic!Next
<1>7. CASE ~AccessFails(a, n)
  <2> DEFINE read == [i \in 1..n |-> Mem[(a + i - 1) % AddressSpan]]
  <2>1. ASSUME NEW i \in 1..n
        PROVE  access'.memResult[i - 1] = Mem[(a + i - 1) % AddressSpan]
    <3>1. i - 1 \in 0..(n - 1) /\ i - 1 \in 0..7 /\ i - 1 \in Int /\ ~(i - 1 >= n)
      BY <1>1
    <3> DEFINE j == i - 1
               b == (a + j) % AddressSpan
    <3>2. Reached(a, n) = 0..(n - 1)
      BY <1>7 DEF AccessFails
    <3>3. GetMemValue(memArr, a, n)[j] = memArr[Relative(a, j)]
      BY <3>1, <3>2 DEF GetMemValue
    <3>4. access'.memResult[j] = GetMemValue(memArr, a, n)[j]
      BY <1>7, <3>1 DEF Load, ExtendFrom
    <3>5. Relative(a, j) \in Place
      BY <3>1, <3>2, ReachedIsPlace, <1>1
    <3>6. AddressOf(Relative(a, j)) = b
      BY <1>1, <3>1, <3>5, ExistsIffPlace
    <3>7. Mem[b] = memArr[Relative(a, j)]
      BY <1>3, <3>5, <3>6, Addressed
    <3>8. a + i - 1 = a + j
      BY <1>1
    <3> QED
      BY <3>3, <3>4, <3>7, <3>8
  <2>2. accessAnswer' = [refused |-> FALSE, read |-> [i \in 1..n |-> access'.memResult[i - 1]]]
    <3>1. access'.op = op /\ access'.memException = FALSE
      BY <1>7 DEF Load
    <3> QED
      BY <3>1 DEF accessAnswer
  <2>3. [i \in 1..n |-> access'.memResult[i - 1]] = read
    BY <2>1
  <2>4. Atomic!Read(r)
    BY <1>3, <1>4, <1>5, <1>7, <2>2, <2>3 DEF Atomic!Read, Mem
  <2> QED
    BY <1>2, <1>4, <2>4 DEF Atomic!Next
<1> QED
  BY <1>6, <1>7

LEMMA StoreAtomic ==
  ASSUME TypeOK, phase = "ready", phase' = "ready",
         NEW a \in Addresses, NEW op \in Stores, NEW v \in Values, Store(op, a, v)
  PROVE  Atomic!Next
<1> DEFINE n == SizeOf(op)
           r == RequestOf("write", a, n, v)
<1>1. a \in Int /\ n \in Size /\ n \in 1..8
  BY DataMemoryAssumption, ByteFacts
<1>2. accessRequest' = r
  BY DEF Store, accessRequest, RequestOf, Loads, Stores
<1>3. Mem = AddressedMemory /\ Mem' = AddressedMemory'
  BY DEF Mem
<1>4. /\ r.kind = "write" /\ r.address = a /\ r.size = n /\ r.value = v
      /\ r \in {RequestOf("write", b, m, w) : b \in Addresses, m \in Size, w \in Values}
  BY <1>1 DEF RequestOf
<1>5. Atomic!Granted(r) <=> ~AccessFails(a, n)
  BY <1>1, <1>3, <1>4, FailsIffMissing, Addressed DEF Atomic!Granted, Atomic!Span, Mem
<1>6. accessAnswer' = [refused |-> AccessFails(a, n), read |-> << >>]
  BY DEF Store, accessAnswer, Loads, Stores
<1>7. DOMAIN AddressedMemory = Existing /\ AddressedMemory' = [b \in Existing |-> AddressedMemory'[b]]
  BY DEF AddressedMemory, Existing, AddressOf
<1>8. ASSUME NEW p \in Place
      PROVE  /\ AddressedMemory'[AddressOf(p)] =
                  IF OffsetAt(a, p) \in Reached(a, n) THEN v[OffsetAt(a, p)]
                  ELSE AddressedMemory[AddressOf(p)]
             /\ AddressOf(p) \in Atomic!Span(r) <=> OffsetAt(a, p) < n
             /\ Atomic!ByteFor(r, AddressOf(p)) = v[OffsetAt(a, p)]
  <2>1. AddressedMemory'[AddressOf(p)] = memArr'[Relative(AddressOf(p), 0)]
    BY DEF AddressedMemory, AddressOf
  <2>2. memArr'[p] = IF OffsetAt(a, p) \in Reached(a, n) THEN v[OffsetAt(a, p)] ELSE memArr[p]
    BY DEF Store, SetMemValue
  <2>3. AddressOf(p) \in Atomic!Span(r) <=> OffsetAt(a, p) < n
    BY <1>1, <1>4, SpanIsOffsets DEF Atomic!Span
  <2>4. Atomic!ByteFor(r, AddressOf(p)) = v[OffsetAt(a, p)]
    BY <1>1, <1>4, DistanceIsOffset DEF Atomic!ByteFor
  <2> QED
    BY <2>1, <2>2, <2>3, <2>4, PlaceOfAddress, Addressed
<1>9. CASE AccessFails(a, n)
  <2>1. ASSUME NEW b \in Existing
        PROVE  \/ AddressedMemory'[b] = AddressedMemory[b]
               \/ b \in Atomic!Span(r) /\ AddressedMemory'[b] = Atomic!ByteFor(r, b)
    <3>1. PICK p \in Place : b = AddressOf(p)
      BY DEF Existing
    <3>2. OffsetAt(a, p) \in Reached(a, n) => OffsetAt(a, p) < n
      BY <1>1 DEF Reached
    <3> QED
      BY <1>8, <3>1, <3>2
  <2>2. Atomic!Refuse(r)
    BY <1>3, <1>4, <1>5, <1>6, <1>7, <1>9, <2>1 DEF Atomic!Refuse, Mem
  <2> QED
    BY <1>2, <1>4, <2>2 DEF Atomic!Next
<1>10. CASE ~AccessFails(a, n)
  <2> DEFINE written == [b \in Existing |-> IF b \in Atomic!Span(r) THEN Atomic!ByteFor(r, b)
                                            ELSE AddressedMemory[b]]
  <2>1. ASSUME NEW b \in Existing
        PROVE  AddressedMemory'[b] = written[b]
    <3>1. PICK p \in Place : b = AddressOf(p)
      BY DEF Existing
    <3>2. OffsetAt(a, p) \in Nat
      BY <1>1, <3>1, RelativeType, SpanFacts
    <3>3. OffsetAt(a, p) \in Reached(a, n) <=> OffsetAt(a, p) < n
      BY <1>1, <1>10, <3>2 DEF AccessFails
    <3> QED
      BY <1>8, <3>1, <3>3
  <2>2. AddressedMemory' = written
    BY <1>7, <2>1
  <2>3. Mem' = [b \in DOMAIN Mem |-> IF b \in Atomic!Span(r) THEN Atomic!ByteFor(r, b)
                                     ELSE Mem[b]]
    BY <1>3, <1>7, <2>2
  <2>4. accessAnswer' = [refused |-> FALSE, read |-> << >>]
    <3>1. AccessFails(a, n) = FALSE
      BY <1>10 DEF AccessFails
    <3> QED
      BY <1>6, <3>1
  <2> HIDE DEF r
  <2>5. Atomic!Write(r)
    BY <1>4, <1>5, <1>10, <2>3, <2>4, Zenon DEF Atomic!Write, Mem
  <2> USE DEF r
  <2> QED
    BY <1>2, <1>4, <2>5 DEF Atomic!Next
<1> QED
  BY <1>9, <1>10

LEMMA StepAtomic == BuildInv /\ [Next]_vars => [Atomic!Next]_(Atomic!atomicVars)
<1> SUFFICES ASSUME BuildInv, [Next]_vars
             PROVE  [Atomic!Next]_(Atomic!atomicVars)
  OBVIOUS
<1>1. CASE ReadEntry \/ ImageRead
  <2>1. /\ phase # "ready" /\ phase' # "ready"
        /\ image' = image /\ binary' = binary /\ access' = access
    BY <1>1 DEF ReadEntry, ImageRead
  <2>2. FileContents(image, binary)' = FileContents(image, binary)
    BY <2>1
  <2>3. accessRequest' = accessRequest /\ accessAnswer' = accessAnswer
    BY <2>1 DEF accessRequest, accessAnswer
  <2> QED
    BY <2>1, <2>2, <2>3 DEF Atomic!atomicVars
<1>2. CASE LoadFromFile
  <2>1. /\ phase = "program" /\ phase' = "ready"
        /\ image' = image /\ binary' = binary /\ access' = access
    BY <1>2 DEF LoadFromFile
  <2>2. AddressedMemory' = FileContents(image, binary)
    BY <1>2, Loaded
  <2> QED
    BY <2>1, <2>2 DEF Atomic!atomicVars, accessRequest, accessAnswer
<1>3. CASE MemAccess
  <2>1. TypeOK /\ phase = "ready" /\ phase' = "ready"
    BY <1>3 DEF BuildInv, MemAccess
  <2>2. \E address \in Addresses :
          \/ \E op \in Loads : Load(op, address)
          \/ \E op \in Stores, value \in Values : Store(op, address, value)
    BY <1>3 DEF MemAccess
  <2> QED
    BY <2>1, <2>2, LoadAtomic, StoreAtomic
<1>4. CASE UNCHANGED vars
  BY <1>4 DEF vars, Atomic!atomicVars, FileContents, FirstByte, Entry, Extracted,
              AddressedMemory, accessRequest, accessAnswer
<1> QED
  BY <1>1, <1>2, <1>3, <1>4 DEF Next, Construct, Stopped

(* Every load and store of simMemAccess does on a memory that begins as    *)
(* the two files say what AtomicMemory allows: the bytes of an access are  *)
(* read or written together, at the right addresses and in the right       *)
(* order, or the access is refused.                                        *)
THEOREM MemoryIsAtomic == Spec => AtomicSpec
BY Building, InitAtomic, StepAtomic, PTL DEF Spec, AtomicSpec, Atomic!Spec

-----------------------------------------------------------------------------
(* What a load delivers is the number in memory.  Numbers are unrolled,    *)
(* digit by digit from the highest; for the eight digits of a result those *)
(* above the width of the load come to 0, or, when they extend the sign of *)
(* a negative number, to -1, and both are what a number begins with.       *)

HornerBody(d, n, f) ==
  [k \in 0..n |-> IF k = 0 THEN 0 ELSE f[k - 1] * ByteSpan + d[n - k]]

Horner(d, n) == CHOOSE f : f = HornerBody(d, n, f)

LEMMA HornerExists ==
  ASSUME NEW n \in Size, NEW d
  PROVE  Horner(d, n) = HornerBody(d, n, Horner(d, n))
<1> DEFINE next(s, k) == s * ByteSpan + d[n - k]
           s1 == next(0, 1)
           s2 == next(s1, 2)
           s3 == next(s2, 3)
           s4 == next(s3, 4)
           s5 == next(s4, 5)
           s6 == next(s5, 6)
           s7 == next(s6, 7)
           s8 == next(s7, 8)
           at(k) == IF k = 0 THEN 0 ELSE IF k = 1 THEN s1 ELSE IF k = 2 THEN s2
                    ELSE IF k = 3 THEN s3 ELSE IF k = 4 THEN s4 ELSE IF k = 5 THEN s5
                    ELSE IF k = 6 THEN s6 ELSE IF k = 7 THEN s7 ELSE s8
           g == [k \in 0..n |-> at(k)]
<1>1. \A k \in 1..n : at(k) = next(at(k - 1), k)
  <2> SUFFICES ASSUME NEW k \in 1..n
               PROVE  at(k) = next(at(k - 1), k)
    OBVIOUS
  <2>1. k = 1 \/ k = 2 \/ k = 3 \/ k = 4 \/ k = 5 \/ k = 6 \/ k = 7 \/ k = 8
    BY DEF Size
  <2>2. /\ at(0) = 0 /\ at(1) = s1 /\ at(2) = s2 /\ at(3) = s3 /\ at(4) = s4
        /\ at(5) = s5 /\ at(6) = s6 /\ at(7) = s7 /\ at(8) = s8
    <3> HIDE DEF s1, s2, s3, s4, s5, s6, s7, s8
    <3> QED
      OBVIOUS
  <2>3. /\ s1 = next(0, 1) /\ s2 = next(s1, 2) /\ s3 = next(s2, 3)
        /\ s4 = next(s3, 4) /\ s5 = next(s4, 5) /\ s6 = next(s5, 6)
        /\ s7 = next(s6, 7) /\ s8 = next(s7, 8)
    OBVIOUS
  <2> HIDE DEF at, s1, s2, s3, s4, s5, s6, s7, s8, next
  <2>4. /\ k = 1 => k - 1 = 0
        /\ k = 2 => k - 1 = 1
        /\ k = 3 => k - 1 = 2
        /\ k = 4 => k - 1 = 3
        /\ k = 5 => k - 1 = 4
        /\ k = 6 => k - 1 = 5
        /\ k = 7 => k - 1 = 6
        /\ k = 8 => k - 1 = 7
    OBVIOUS
  <2> QED
    BY <2>1, <2>2, <2>3, <2>4
<1>2. at(0) = 0
  OBVIOUS
<1> HIDE DEF at
<1>3. g = HornerBody(d, n, g)
  <2>1. \A k \in 0..n : k = 0 \/ (k \in 1..n /\ k - 1 \in 0..n)
    BY DEF Size
  <2>2. \A k \in 0..n : (IF k = 0 THEN 0 ELSE g[k - 1] * ByteSpan + d[n - k]) = at(k)
    BY <1>1, <1>2, <2>1
  <2> HIDE DEF next
  <2> QED
    BY <2>2 DEF HornerBody
<1> HIDE DEF g
<1> QED
  BY <1>3 DEF Horner

LEMMA NumberIs ==
  ASSUME NEW n \in Size, NEW d
  PROVE  /\ Number(d, n) = Horner(d, n)[n]
         /\ Horner(d, n)[0] = 0
         /\ \A k \in 1..n : Horner(d, n)[k] = Horner(d, n)[k - 1] * ByteSpan + d[n - k]
<1>1. Number(d, n) = Horner(d, n)[n]
  BY DEF Number, Horner, HornerBody
<1> DEFINE h == Horner(d, n)
<1>2. h = [k \in 0..n |-> IF k = 0 THEN 0 ELSE h[k - 1] * ByteSpan + d[n - k]]
  BY HornerExists DEF HornerBody
<1> HIDE DEF h
<1>3. 0 \in 0..n /\ \A k \in 1..n : k \in 0..n /\ k # 0
  BY DEF Size
<1>4. h[0] = 0 /\ \A k \in 1..n : h[k] = h[k - 1] * ByteSpan + d[n - k]
  BY <1>2, <1>3
<1> QED
  BY <1>1, <1>4 DEF h

Digits == [0..7 -> Int]

(* The numbers of two rows of digits of which the longer begins, above     *)
(* what they share, with digits that come to 0.                            *)
LEMMA SharedDigits ==
  ASSUME NEW n \in Size, NEW d \in Digits, NEW e \in Digits,
         \A i \in 0..(n - 1) : d[i] = e[i],
         Horner(d, 8)[8 - n] = 0
  PROVE  Number(d, 8) = Number(e, n)
<1> DEFINE f == Horner(d, 8)
           g == Horner(e, n)
<1>1. /\ Number(d, 8) = f[8] /\ Number(e, n) = g[n] /\ g[0] = 0 /\ f[8 - n] = 0
      /\ \A k \in 1..8 : f[k] = f[k - 1] * ByteSpan + d[8 - k]
      /\ \A k \in 1..n : g[k] = g[k - 1] * ByteSpan + e[n - k]
  BY NumberIs DEF Size
<1> HIDE DEF f, g
<1>2. \A k \in 1..n : f[8 - n + (k - 1)] = g[k - 1] => f[8 - n + k] = g[k]
  <2> SUFFICES ASSUME NEW k \in 1..n, f[8 - n + (k - 1)] = g[k - 1]
               PROVE  f[8 - n + k] = g[k]
    OBVIOUS
  <2>1. /\ 8 - n + k \in 1..8 /\ (8 - n + k) - 1 = 8 - n + (k - 1)
        /\ 8 - (8 - n + k) = n - k /\ n - k \in 0..(n - 1)
    BY DEF Size
  <2>2. f[8 - n + k] = f[8 - n + (k - 1)] * ByteSpan + d[n - k]
    BY <1>1, <2>1
  <2>3. g[k] = g[k - 1] * ByteSpan + e[n - k]
    BY <1>1
  <2>4. d[n - k] = e[n - k]
    BY <2>1
  <2> QED
    BY <2>2, <2>3, <2>4
<1>3. f[8 - n + 0] = g[0]
  BY <1>1 DEF Size
<1>4. f[8 - n + n] = g[n]
  <2>1. CASE n = 1
    BY <1>2, <1>3, <2>1
  <2>2. CASE n = 2
    BY <1>2, <1>3, <2>2
  <2>3. CASE n = 4
    BY <1>2, <1>3, <2>3
  <2>4. CASE n = 8
    BY <1>2, <1>3, <2>4
  <2> QED
    BY <2>1, <2>2, <2>3, <2>4 DEF Size
<1>5. 8 - n + n = 8
  BY DEF Size
<1> QED
  BY <1>1, <1>4, <1>5

(* Digits that are 0 above a width do not count. *)
LEMMA ZeroExtended ==
  ASSUME NEW n \in Size, NEW d \in Digits, NEW e \in Digits,
         \A i \in 0..7 : d[i] = IF i < n THEN e[i] ELSE 0
  PROVE  Number(d, 8) = Number(e, n)
<1> DEFINE f == Horner(d, 8)
<1>1. f[0] = 0 /\ \A k \in 1..8 : f[k] = f[k - 1] * ByteSpan + d[8 - k]
  BY NumberIs DEF Size
<1> HIDE DEF f
<1>2. ByteSpan \in Int
  BY MemoryAssumption
<1>3. \A k \in 1..(8 - n) : f[k - 1] = 0 => f[k] = 0
  <2> SUFFICES ASSUME NEW k \in 1..(8 - n), f[k - 1] = 0
               PROVE  f[k] = 0
    OBVIOUS
  <2>1. k \in 1..8 /\ 8 - k \in 0..7 /\ ~(8 - k < n)
    BY DEF Size
  <2>2. d[8 - k] = 0
    BY <2>1
  <2> QED
    BY <1>1, <1>2, <2>1, <2>2
<1>4. f[8 - n] = 0
  BY <1>1, <1>3 DEF Size
<1>5. \A i \in 0..(n - 1) : d[i] = e[i]
  BY DEF Size
<1> QED
  BY <1>4, <1>5, SharedDigits DEF f

(* A negative digit may be extended: b - ByteSpan is the same number as    *)
(* b behind a digit -1, and -1 the same as ByteSpan - 1 behind one.        *)
LEMMA SignExtended ==
  ASSUME NEW n \in Size \ {8}, NEW d \in Digits, NEW e \in Digits,
         d[7] = -1, \A i \in n..6 : d[i] = ByteSpan - 1,
         e[n - 1] = d[n - 1] - ByteSpan, \A i \in 0..(n - 2) : d[i] = e[i]
  PROVE  Number(d, 8) = Number(e, n)
<1> DEFINE f == Horner(d, 8)
           g == Horner(e, n)
<1>1. /\ Number(d, 8) = f[8] /\ Number(e, n) = g[n] /\ g[0] = 0 /\ f[0] = 0
      /\ \A k \in 1..8 : f[k] = f[k - 1] * ByteSpan + d[8 - k]
      /\ \A k \in 1..n : g[k] = g[k - 1] * ByteSpan + e[n - k]
  BY NumberIs DEF Size
<1> HIDE DEF f, g
<1>2. ByteSpan \in Int
  BY MemoryAssumption
<1>3. f[1] = -1
  BY <1>1, <1>2
<1>4. \A k \in 2..(8 - n) : f[k - 1] = -1 => f[k] = -1
  <2> SUFFICES ASSUME NEW k \in 2..(8 - n), f[k - 1] = -1
               PROVE  f[k] = -1
    OBVIOUS
  <2>1. k \in 1..8 /\ 8 - k \in n..6
    BY DEF Size
  <2>2. f[k] = (-1) * ByteSpan + (ByteSpan - 1)
    BY <1>1, <2>1
  <2> QED
    BY <1>2, <2>2
<1>5. f[8 - n] = -1
  BY <1>3, <1>4 DEF Size
<1>6. f[8 - n + 1] = g[1]
  <2>1. 8 - n + 1 \in 1..8 /\ (8 - n + 1) - 1 = 8 - n /\ 8 - (8 - n + 1) = n - 1
        /\ 1 \in 1..n /\ n - 1 \in 0..7
    BY DEF Size
  <2>2. f[8 - n + 1] = (-1) * ByteSpan + d[n - 1]
    BY <1>1, <1>5, <2>1
  <2>3. g[1] = 0 * ByteSpan + e[n - 1]
    BY <1>1, <2>1
  <2>4. d[n - 1] \in Int
    BY <2>1 DEF Digits
  <2> QED
    BY <1>2, <2>2, <2>3, <2>4
<1>7. \A k \in 2..n : f[8 - n + (k - 1)] = g[k - 1] => f[8 - n + k] = g[k]
  <2> SUFFICES ASSUME NEW k \in 2..n, f[8 - n + (k - 1)] = g[k - 1]
               PROVE  f[8 - n + k] = g[k]
    OBVIOUS
  <2>1. /\ 8 - n + k \in 1..8 /\ (8 - n + k) - 1 = 8 - n + (k - 1)
        /\ 8 - (8 - n + k) = n - k /\ n - k \in 0..(n - 2) /\ k \in 1..n
    BY DEF Size
  <2>2. f[8 - n + k] = f[8 - n + (k - 1)] * ByteSpan + d[n - k]
    BY <1>1, <2>1
  <2>3. g[k] = g[k - 1] * ByteSpan + e[n - k]
    BY <1>1, <2>1
  <2>4. d[n - k] = e[n - k]
    BY <2>1
  <2> QED
    BY <2>2, <2>3, <2>4
<1>8. f[8] = g[n]
  <2>1. CASE n = 1
    BY <1>6, <2>1
  <2>2. CASE n = 2
    BY <1>6, <1>7, <2>2
  <2>3. CASE n = 4
    BY <1>6, <1>7, <2>3
  <2> QED
    BY <2>1, <2>2, <2>3 DEF Size
<1> QED
  BY <1>1, <1>8

(* What ExtendFrom makes of a row of bytes is the signed number they are.  *)
LEMMA ExtendedNumber ==
  ASSUME NEW n \in Size, NEW value \in Double, NEW bytes \in Double,
         \A i \in 0..7 : value[i] = IF i < n THEN bytes[i] ELSE 0
  PROVE  SignedNumber(ExtendFrom(value, n), 8) = SignedNumber(bytes, n)
<1> DEFINE r == ExtendFrom(value, n)
           d == [r EXCEPT ![8 - 1] = SignedByte(@)]
           e == [bytes EXCEPT ![n - 1] = SignedByte(@)]
           half == ByteSpan \div 2
<1>1. ByteSpan \in Nat /\ ByteSpan >= 1 /\ half \in Nat /\ ByteSpan - 1 >= half
      /\ (half = 0 => ByteSpan = 1)
  BY MemoryAssumption
<1>2. r = [i \in 0..7 |-> IF i >= n /\ value[n - 1] >= half
                            THEN ByteSpan - 1 ELSE value[i]]
  BY DEF ExtendFrom
<1>3. \A b : SignedByte(b) = IF b >= half THEN b - ByteSpan ELSE b
  BY DEF SignedByte
<1> HIDE DEF half
<1>4. \A i \in 0..7 : bytes[i] \in 0..(ByteSpan - 1)
  BY DEF Double, Byte
<1>5. r \in Double
  <2>1. \A i \in 0..7 : value[i] \in Byte
    BY DEF Double
  <2> QED
    BY <1>2, <2>1, ByteFacts DEF Double
<1>6. \A b \in Byte : b \in Int /\ SignedByte(b) \in Int
  BY <1>1, <1>3 DEF Byte
<1> HIDE DEF r
<1>7. /\ d \in Digits
      /\ d[7] = SignedByte(r[7])
      /\ \A i \in 0..6 : d[i] = r[i]
  BY <1>5, <1>6 DEF Double, Digits
<1>8. n - 1 \in 0..7 /\ 7 \in 0..7
  BY DEF Size
<1>9. /\ e \in Digits
      /\ e[n - 1] = SignedByte(bytes[n - 1])
      /\ \A i \in 0..7 : i # n - 1 => e[i] = bytes[i]
  BY <1>6, <1>8 DEF Double, Digits
<1>10. SignedNumber(r, 8) = Number(d, 8) /\ SignedNumber(bytes, n) = Number(e, n)
  BY DEF SignedNumber
<1>11. value[n - 1] = bytes[n - 1] /\ bytes[n - 1] \in 0..(ByteSpan - 1)
  <2>1. n - 1 < n
    BY DEF Size
  <2> QED
    BY <1>4, <1>8, <2>1
<1> HIDE DEF d, e
<1>12. CASE n = 8
  <2>1. \A i \in 0..7 : r[i] = bytes[i]
    BY <1>2, <1>12
  <2>2. d[7] = e[7]
    BY <1>7, <1>8, <1>9, <1>12, <2>1
  <2>3. \A i \in 0..6 : d[i] = e[i]
    BY <1>7, <1>9, <1>12, <2>1
  <2>4. \A i \in 0..7 : d[i] = IF i < n THEN e[i] ELSE 0
    BY <1>12, <2>2, <2>3
  <2> QED
    BY <1>7, <1>9, <1>10, <1>12, <2>4, ZeroExtended DEF r
<1>13. CASE n # 8 /\ bytes[n - 1] >= half
  <2>1. \A i \in 0..7 : r[i] = IF i >= n THEN ByteSpan - 1 ELSE bytes[i]
    BY <1>2, <1>11, <1>13 DEF Size
  <2>2. 7 >= n /\ n - 1 < n /\ n - 1 \in 0..6 /\ n \in Size \ {8}
    BY <1>13 DEF Size
  <2>3. d[7] = -1
    BY <1>1, <1>3, <1>7, <1>8, <2>1, <2>2
  <2>4. \A i \in n..6 : d[i] = ByteSpan - 1
    BY <1>7, <2>1 DEF Size
  <2>5. d[n - 1] = bytes[n - 1]
    BY <1>7, <2>1, <2>2
  <2>6. e[n - 1] = d[n - 1] - ByteSpan
    BY <1>3, <1>9, <1>13, <2>5
  <2>7. \A i \in 0..(n - 2) : d[i] = e[i]
    BY <1>7, <1>9, <2>1, <2>2
  <2> QED
    BY <1>7, <1>9, <1>10, <2>2, <2>3, <2>4, <2>6, <2>7, SignExtended DEF r
<1>14. CASE n # 8 /\ ~(bytes[n - 1] >= half)
  <2>1. \A i \in 0..7 : r[i] = IF i < n THEN bytes[i] ELSE 0
    BY <1>2, <1>11, <1>14
  <2>2. ~(7 < n)
    BY <1>14 DEF Size
  <2>3. d[7] = 0
    <3>1. half > 0
      BY <1>1, <1>11, <1>14
    <3> QED
      BY <1>1, <1>3, <1>7, <1>8, <2>1, <2>2, <3>1
  <2>4. e[n - 1] = bytes[n - 1]
    BY <1>3, <1>9, <1>14
  <2>5. \A i \in 0..7 : d[i] = IF i < n THEN e[i] ELSE 0
    BY <1>7, <1>9, <2>1, <2>2, <2>3, <2>4
  <2> QED
    BY <1>7, <1>9, <1>10, <2>5, ZeroExtended DEF r
<1> QED
  BY <1>12, <1>13, <1>14

(* The bytes an access finds in memory, in the order of their weights. *)
BytesAt(mem, a, n) == [i \in 0..7 |-> IF i < n THEN mem[Relative(a, i)] ELSE 0]

(* Only MemAccess sets access, and only it changes memory from then on, so *)
(* that what was loaded is in memory until the next access.                *)
LoadInv ==
  /\ phase # "ready" => access.op = "NONE"
  /\ access.op \in Loads /\ ~access.memException =>
       LET n == SizeOf(access.op)
           value == GetMemValue(memArr, access.memAddress, n)
       IN /\ ~AccessFails(access.memAddress, n)
          /\ access.memResult =
               IF SignExtends(access.op) THEN ExtendFrom(value, n) ELSE value

LEMMA InitLoad == Init => LoadInv
BY DEF Init, LoadInv, NoAccess, Loads

LEMMA StepLoad == LoadInv /\ [Next]_vars => LoadInv'
<1> SUFFICES ASSUME LoadInv, [Next]_vars
             PROVE  LoadInv'
  OBVIOUS
<1>1. CASE Construct
  <2>1. access.op = "NONE" /\ access' = access
    BY <1>1 DEF Construct, ReadEntry, ImageRead, LoadFromFile, LoadInv
  <2> QED
    BY <2>1 DEF LoadInv, Loads
<1>2. CASE MemAccess
  <2>1. phase' = "ready"
    BY <1>2 DEF MemAccess
  <2>2. PICK a \in Addresses :
          \/ \E op \in Loads : Load(op, a)
          \/ \E op \in Stores, value \in Values : Store(op, a, value)
    BY <1>2 DEF MemAccess
  <2>3. CASE \E op \in Loads : Load(op, a)
    <3>1. PICK op \in Loads : Load(op, a)
      BY <2>3
    <3> DEFINE value == GetMemValue(memArr, a, SizeOf(op))
    <3>2. /\ memArr' = memArr
          /\ access'.op = op /\ access'.memAddress = a
          /\ access'.memException = AccessFails(a, SizeOf(op))
          /\ ~AccessFails(a, SizeOf(op)) =>
               access'.memResult =
                 IF SignExtends(op) THEN ExtendFrom(value, SizeOf(op)) ELSE value
      BY <3>1 DEF Load
    <3> QED
      BY <2>1, <3>2 DEF LoadInv
  <2>4. CASE \E op \in Stores, value \in Values : Store(op, a, value)
    <3>1. access'.op \in Stores
      BY <2>4 DEF Store
    <3> QED
      BY <2>1, <3>1 DEF LoadInv, Stores, Loads
  <2> QED
    BY <2>2, <2>3, <2>4
<1>3. CASE Stopped \/ UNCHANGED vars
  BY <1>3 DEF Stopped, vars, LoadInv
<1> QED
  BY <1>1, <1>2, <1>3 DEF Next

LEMMA LoadInvImplies == TypeOK /\ LoadInv => LoadsTheNumber
<1> SUFFICES ASSUME TypeOK, LoadInv, access.op \in Loads, ~access.memException
             PROVE  LoadsTheNumber
  BY DEF LoadsTheNumber
<1> DEFINE n == SizeOf(access.op)
           a == access.memAddress
           bytes == BytesAt(memArr, a, n)
           value == GetMemValue(memArr, a, n)
           result == access.memResult
<1>1. n \in Size /\ a \in Int /\ memArr \in [Place -> Byte]
  BY ByteFacts DEF TypeOK
<1>2. /\ Reached(a, n) = 0..(n - 1)
      /\ result = IF SignExtends(access.op) THEN ExtendFrom(value, n) ELSE value
  BY DEF LoadInv, AccessFails
<1>3. (IF access.op \in {"LBU", "LHU", "LWU"}
         THEN Number(result, 8) = Number(bytes, n)
         ELSE SignedNumber(result, 8) = SignedNumber(bytes, n)) => LoadsTheNumber
  BY DEF LoadsTheNumber, BytesAt
<1>4. /\ access.op \in {"LBU", "LHU", "LWU"} => ~SignExtends(access.op)
      /\ access.op \notin {"LBU", "LHU", "LWU"} => SignExtends(access.op) \/ n = 8
  BY DEF Loads, SignExtends, SizeOf
<1> HIDE DEF n, a, result
<1>5. \A i \in 0..7 : i \in 0..(n - 1) <=> i < n
  BY <1>1 DEF Size
<1>6. \A i \in 0..7 : value[i] = IF i < n THEN bytes[i] ELSE 0
  BY <1>2, <1>5 DEF GetMemValue, BytesAt
<1>7. value \in Double
  BY <1>1, AccessTypes, ByteFacts
<1>8. bytes \in Double
  <2>1. \A i \in 0..7 : i < n => memArr[Relative(a, i)] \in Byte
    BY <1>1, <1>2, <1>5, ReachedIsPlace
  <2> QED
    BY <2>1, ByteFacts DEF BytesAt, Double
<1> HIDE DEF value, bytes
<1>9. Double \subseteq Digits
  <2>1. Byte \subseteq Int
    BY MemoryAssumption DEF Byte
  <2> QED
    BY <2>1 DEF Double, Digits
<1>10. CASE access.op \in {"LBU", "LHU", "LWU"}
  <2>1. result = value
    BY <1>2, <1>4, <1>10
  <2>2. Number(value, 8) = Number(bytes, n)
    BY <1>1, <1>6, <1>7, <1>8, <1>9, ZeroExtended
  <2> QED
    BY <1>3, <1>10, <2>1, <2>2
<1>11. CASE access.op \notin {"LBU", "LHU", "LWU"} /\ SignExtends(access.op)
  <2>1. SignedNumber(ExtendFrom(value, n), 8) = SignedNumber(bytes, n)
    BY <1>1, <1>6, <1>7, <1>8, ExtendedNumber
  <2> QED
    BY <1>2, <1>3, <1>11, <2>1
<1>12. CASE access.op \notin {"LBU", "LHU", "LWU"} /\ ~SignExtends(access.op)
  <2>1. n = 8 /\ result = value
    BY <1>2, <1>4, <1>12
  <2>2. value = bytes
    <3>1. \A i \in 0..7 : value[i] = bytes[i]
      BY <1>6, <2>1
    <3> QED
      BY <1>7, <1>8, <3>1 DEF Double
  <2> QED
    BY <1>3, <1>12, <2>1, <2>2
<1> QED
  BY <1>10, <1>11, <1>12

(* A load of any width delivers the number that its bytes are in memory,   *)
(* signed or not as its name says, wherever the access is and whatever the *)
(* stores before it left there.                                            *)
THEOREM LoadsDeliverNumbers == Spec => []LoadsTheNumber
<1>1. Spec => [](TypeOK /\ LoadInv)
  BY InitType, StepType, InitLoad, StepLoad, PTL DEF Spec
<1> QED
  BY <1>1, LoadInvImplies, PTL

=============================================================================
