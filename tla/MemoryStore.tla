----------------------------- MODULE MemoryStore -----------------------------
(***************************************************************************)
(* Class MemoryStore (MemoryStore.cpp): a byte array that is read and      *)
(* written one byte at a time in accesses of one, two, four or eight       *)
(* bytes.  A uint64_t is the function of its eight bytes, least            *)
(* significant first, so that "(value >> (i * 8)) & 0xFF" is value[i].     *)
(***************************************************************************)
EXTENDS Integers

CONSTANTS
  MemorySize,      \* number of bytes in memArr
  StartAddr,       \* address of the first byte
  AddressSpan,     \* addresses are 0..AddressSpan-1 and wrap
  ByteSpan         \* bytes are 0..ByteSpan-1; the upper half is negative

ASSUME MemoryAssumption ==
  /\ AddressSpan \in Nat \ {0}
  /\ MemorySize \in 0..AddressSpan
  /\ StartAddr \in 0..(AddressSpan - 1)
  /\ ByteSpan \in Nat \ {0}

Byte == 0..(ByteSpan - 1)

Address == 0..(AddressSpan - 1)

Place == 0..(MemorySize - 1)

Double == [0..7 -> Byte]

Zero == [i \in 0..7 |-> 0]

(* MemEntrySize. *)
Size == {1, 2, 4, 8}

(* relativeAddr + i: the place of the i-th byte of an access. *)
Relative(address, i) == (address - StartAddr + i) % AddressSpan

(* Which byte of an access at address is the one at place p. *)
OffsetAt(address, p) == (p + StartAddr - address) % AddressSpan

Reached_SkipsHoles(address, size) ==
  {i \in 0..(size - 1) : Relative(address, i) \in Place}

(* The bytes the loop of an access gets to: memArr.at() throws at the      *)
(* first place that does not exist.                                        *)
Reached(address, size) ==
  {i \in 0..(size - 1) : \A j \in 0..i : Relative(address, j) \in Place}

(* getOrSetValue returns -EINVAL. *)
AccessFails(address, size) == Reached(address, size) # 0..(size - 1)

GetMemValue_BigEndian(mem, address, size) ==
  [i \in 0..7 |-> IF size - 1 - i \in Reached(address, size)
                    THEN mem[Relative(address, size - 1 - i)] ELSE 0]

(* What a read puts together; with an exception nobody looks at it. *)
GetMemValue(mem, address, size) ==
  [i \in 0..7 |-> IF i \in Reached(address, size)
                    THEN mem[Relative(address, i)] ELSE 0]

SetMemValue_Unchecked(mem, address, value, size) ==
  [p \in Place \cup {Relative(address, i) : i \in 0..(size - 1)} |->
     IF OffsetAt(address, p) < size THEN value[OffsetAt(address, p)] ELSE mem[p]]

(* What a write leaves behind: the bytes before the first place that does  *)
(* not exist have been stored when the exception is reported.              *)
SetMemValue(mem, address, value, size) ==
  [p \in Place |-> IF OffsetAt(address, p) \in Reached(address, size)
                     THEN value[OffsetAt(address, p)] ELSE mem[p]]

=============================================================================
