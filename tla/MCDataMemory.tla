---------------------------- MODULE MCDataMemory ----------------------------
(* An instance of the data memory for TLC. *)
EXTENDS DataMemory

Bytes(b0, b1, b2, b3, b4, b5, b6, b7) ==
  [i \in 0..7 |-> <<b0, b1, b2, b3, b4, b5, b6, b7>>[i + 1]]

(* Negative and positive at every width. *)
MCValues == {Bytes(1, 2, 1, 3, 0, 1, 3, 2), Bytes(3, 1, 2, 1, 3, 2, 1, 1)}

Word(b0, b1, b2, b3) == Bytes(b0, b1, b2, b3, 0, 0, 0, 0)

Image(entries, cut) == [exists |-> TRUE, entries |-> entries, cut |-> cut]

(* No file, an empty one, words that overlap each other and the program,   *)
(* a file that is cut, a word across the end of memory and one outside.    *)
MCImages ==
  {[exists |-> FALSE, entries |-> << >>, cut |-> FALSE],
   Image(<< >>, FALSE),
   Image(<<[addr |-> 2, word |-> Word(3, 1, 2, 3)],
           [addr |-> 5, word |-> Word(1, 1, 3, 2)]>>, FALSE),
   Image(<<[addr |-> 3, word |-> Word(1, 1, 3, 2)],
           [addr |-> 4, word |-> Word(3, 1, 2, 3)]>>, TRUE),
   Image(<<[addr |-> 14, word |-> Word(1, 1, 3, 2)]>>, FALSE),
   Image(<<[addr |-> 24, word |-> Word(1, 1, 3, 2)],
           [addr |-> 4, word |-> Word(1, 1, 3, 2)]>>, FALSE)}

MCBinaries == {<<2, 1, 3, 2>>, <<1, 3, 1, 2, 0, 1>>}

(* Aligned and not, across the end of memory, behind it, and just below    *)
(* the address at which addresses wrap.                                    *)
MCAddresses == {0, 1, 4, 6, 8, 13, 16, 31}

=============================================================================
