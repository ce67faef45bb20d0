--------------------------- MODULE CacheOpsProofs ---------------------------
(***************************************************************************)
(* Facts about the cache operators for every geometry: the scans of        *)
(* access() find a way, an address decodes to a set and a tag that         *)
(* determine its block, and an access leaves a well-typed cache, in which  *)
(* its block is new and one other at most is missing.                      *)
(***************************************************************************)
EXTENDS CacheOps, TLAPS, WellFoundedInduction

-----------------------------------------------------------------------------
(* Least elements: the code's scans take the first way that qualifies.     *)

(* The library's well-foundedness of < on the naturals, as a plain set. *)
LessThan == {pair \in Nat \X Nat : pair[1] < pair[2]}

LEMMA LessThanWellFounded == IsWellFoundedOn(LessThan, Nat)
BY NatLessThanWellFounded DEF OpToRel, LessThan

(* A nonempty set of naturals has a least element. *)
LEMMA LeastNatural ==
  ASSUME NEW N \in SUBSET Nat, N # {}
  PROVE  \E m \in N : \A n \in N : m <= n
<1>1. \E m \in N : \A n \in N : <<n, m>> \notin LessThan
  BY LessThanWellFounded, WFMin
<1>2. PICK m \in N : \A n \in N : <<n, m>> \notin LessThan
  BY <1>1
<1>3. \A n \in N : ~(n < m)
  BY <1>2 DEF LessThan
<1> QED
  BY <1>3

(* FirstWay picks a member of a nonempty set of ways. *)
LEMMA FirstWayIn ==
  ASSUME NEW W \in SUBSET Way, W # {}
  PROVE  FirstWay(W) \in W
<1>1. W \in SUBSET Nat
  BY GeometryAssumption DEF Way
<1>2. \E w \in W : \A v \in W : w <= v
  BY <1>1, LeastNatural
<1> QED
  BY <1>2 DEF FirstWay

(* Some line of a set has the smallest stamp. *)
LEMMA OldestExists ==
  ASSUME NEW curSet \in [Way -> Line]
  PROVE  OldestWays(curSet) # {}
<1> DEFINE stamps == {curSet[w].lruStamp : w \in Way}
<1>1. stamps \in SUBSET Nat /\ stamps # {}
  BY GeometryAssumption DEF Way, Line
<1>2. PICK m \in stamps : \A n \in stamps : m <= n
  BY <1>1, LeastNatural
<1> QED
  BY <1>2 DEF OldestWays

-----------------------------------------------------------------------------
(* Address decoding. *)

(* A block number splits into an index that names a set and a tag. *)
LEMMA DecodeType ==
  ASSUME NEW b \in Nat
  PROVE  /\ b % IndexSpan \in SetIndex
         /\ b \div IndexSpan \in Nat
<1>1. IndexSpan \in Nat \ {0} /\ IndexSpan <= NumSets /\ NumSets \in Nat
  BY GeometryAssumption, SpanAssumption
<1> HIDE DEF IndexSpan, NumSets
<1>2. b % IndexSpan \in 0..(IndexSpan - 1) /\ b \div IndexSpan \in Nat
  BY <1>1
<1> QED
  BY <1>1, <1>2 DEF SetIndex

(* Index and tag together determine the block. *)
LEMMA DecodeInjective ==
  ASSUME NEW a \in Nat, NEW b \in Nat,
         a % IndexSpan = b % IndexSpan,
         a \div IndexSpan = b \div IndexSpan
  PROVE  a = b
<1>1. IndexSpan \in Nat \ {0}
  BY GeometryAssumption, SpanAssumption
<1> HIDE DEF IndexSpan
<1> QED
  BY <1>1

(* The block of an address is a natural number. *)
LEMMA BlockType ==
  ASSUME NEW a \in Nat
  PROVE  Block(a) \in Nat
<1>1. OffsetSpan \in Nat \ {0}
  BY GeometryAssumption, SpanAssumption
<1> HIDE DEF OffsetSpan
<1> QED
  BY <1>1 DEF Block

-----------------------------------------------------------------------------
(* The line access() touches is a way of the set: the victim scan always   *)
(* finds one.                                                              *)
LEMMA ChosenWayIn ==
  ASSUME NEW c \in CacheType, NEW address \in Nat
  PROVE  /\ ChosenWay(c, address) \in Way
         /\ IsHit(c, address) =>
              ChosenWay(c, address) \in
                HitWays(c.sets[IndexOf(address)], TagOf(address))
         /\ (~IsHit(c, address)
              /\ InvalidWays(c.sets[IndexOf(address)]) # {}) =>
              ChosenWay(c, address) \in InvalidWays(c.sets[IndexOf(address)])
         /\ (~IsHit(c, address)
              /\ InvalidWays(c.sets[IndexOf(address)]) = {}) =>
              ChosenWay(c, address) \in OldestWays(c.sets[IndexOf(address)])
<1> DEFINE curSet == c.sets[IndexOf(address)]
<1>1. IndexOf(address) \in SetIndex
  BY BlockType, DecodeType DEF IndexOf
<1>2. curSet \in [Way -> Line]
  BY <1>1 DEF CacheType
<1>3. OldestWays(curSet) # {}
  BY <1>2, OldestExists
<1>4. /\ HitWays(curSet, TagOf(address)) \in SUBSET Way
      /\ InvalidWays(curSet) \in SUBSET Way
      /\ OldestWays(curSet) \in SUBSET Way
  BY DEF HitWays, InvalidWays, OldestWays
<1>5. CASE IsHit(c, address)
  <2>1. FirstWay(HitWays(curSet, TagOf(address)))
          \in HitWays(curSet, TagOf(address))
    BY <1>4, <1>5, FirstWayIn DEF IsHit
  <2> QED
    BY <1>4, <1>5, <2>1 DEF ChosenWay
<1>6. CASE ~IsHit(c, address) /\ InvalidWays(curSet) # {}
  <2>1. FirstWay(InvalidWays(curSet)) \in InvalidWays(curSet)
    BY <1>4, <1>6, FirstWayIn
  <2> QED
    BY <1>4, <1>6, <2>1 DEF ChosenWay, VictimWay
<1>7. CASE ~IsHit(c, address) /\ InvalidWays(curSet) = {}
  <2>1. FirstWay(OldestWays(curSet)) \in OldestWays(curSet)
    BY <1>3, <1>4, FirstWayIn
  <2> QED
    BY <1>4, <1>7, <2>1 DEF ChosenWay, VictimWay
<1> QED
  BY <1>5, <1>6, <1>7

(* Access maps caches to caches. *)
LEMMA AccessType ==
  ASSUME NEW c \in CacheType, NEW address \in Nat
  PROVE  Access(c, address) \in CacheType
<1>1. IndexOf(address) \in SetIndex /\ TagOf(address) \in Nat
  BY BlockType, DecodeType DEF IndexOf, TagOf
<1>2. ChosenWay(c, address) \in Way
  BY ChosenWayIn
<1> QED
  BY <1>1, <1>2 DEF Access, CacheType, Line

(* An access leaves its block in the cache. *)
LEMMA AccessHits ==
  ASSUME NEW c \in CacheType, NEW address \in Nat
  PROVE  IsHit(Access(c, address), address)
<1> DEFINE w == ChosenWay(c, address)
           after == Access(c, address).sets[IndexOf(address)]
<1>1. IndexOf(address) \in SetIndex
  BY BlockType, DecodeType DEF IndexOf
<1>2. w \in Way
  BY ChosenWayIn
<1>3. after[w].valid /\ after[w].tag = TagOf(address)
  BY <1>1, <1>2 DEF Access, CacheType
<1> QED
  BY <1>2, <1>3 DEF IsHit, HitWays

(* Addresses with one index and one tag are of one block. *)
LEMMA DecodedBlock ==
  ASSUME NEW a \in Nat, NEW b \in Nat,
         IndexOf(a) = IndexOf(b), TagOf(a) = TagOf(b)
  PROVE  Block(a) = Block(b)
BY BlockType, DecodeInjective DEF IndexOf, TagOf

(* Only the chosen line of the indexed set changes, and it becomes the     *)
(* line of the block.                                                      *)
LEMMA AccessLines ==
  ASSUME NEW c \in CacheType, NEW a \in Nat, NEW s \in SetIndex, NEW w \in Way
  PROVE  Access(c, a).sets[s][w] =
           IF s = IndexOf(a) /\ w = ChosenWay(c, a)
             THEN [valid |-> TRUE, tag |-> TagOf(a), lruStamp |-> c.globalLRUCounter + 1]
             ELSE c.sets[s][w]
<1>1. IndexOf(a) \in SetIndex
  BY BlockType, DecodeType DEF IndexOf
<1>2. c.sets \in [SetIndex -> [Way -> Line]]
  BY DEF CacheType
<1> QED
  BY <1>1, <1>2 DEF Access

(* A block that an access takes out was in the chosen line, and the access *)
(* had to choose among lines that were all in use for other blocks.        *)
LEMMA LostFromChosen ==
  ASSUME NEW c \in CacheType, NEW a \in Nat, NEW b \in Nat,
         IsHit(c, b), ~IsHit(Access(c, a), b)
  PROVE  /\ IndexOf(b) = IndexOf(a)
         /\ c.sets[IndexOf(a)][ChosenWay(c, a)].valid
         /\ c.sets[IndexOf(a)][ChosenWay(c, a)].tag = TagOf(b)
         /\ ~IsHit(c, a)
         /\ InvalidWays(c.sets[IndexOf(a)]) = {}
<1>1. IndexOf(b) \in SetIndex
  BY BlockType, DecodeType DEF IndexOf
<1>2. PICK w \in Way : c.sets[IndexOf(b)][w].valid
                       /\ c.sets[IndexOf(b)][w].tag = TagOf(b)
  BY DEF IsHit, HitWays
<1>3. ~(/\ Access(c, a).sets[IndexOf(b)][w].valid
        /\ Access(c, a).sets[IndexOf(b)][w].tag = TagOf(b))
  BY DEF IsHit, HitWays
<1>4. IndexOf(b) = IndexOf(a) /\ w = ChosenWay(c, a)
  BY <1>1, <1>2, <1>3, AccessLines
<1>5. TagOf(a) # TagOf(b)
  <2>1. Access(c, a).sets[IndexOf(b)][w] =
          [valid |-> TRUE, tag |-> TagOf(a), lruStamp |-> c.globalLRUCounter + 1]
    BY <1>1, <1>4, AccessLines
  <2> QED
    BY <1>3, <2>1
<1>6. ~IsHit(c, a)
  <2> SUFFICES ASSUME IsHit(c, a)
               PROVE  FALSE
    OBVIOUS
  <2>1. c.sets[IndexOf(a)][w].tag = TagOf(a)
    BY <1>4, ChosenWayIn DEF HitWays
  <2> QED
    BY <1>2, <1>4, <1>5, <2>1
<1>7. InvalidWays(c.sets[IndexOf(a)]) = {}
  BY <1>2, <1>4, <1>6, ChosenWayIn DEF InvalidWays
<1> QED
  BY <1>2, <1>4, <1>6, <1>7

(* What access() does to the contents of a cache, whatever its geometry    *)
(* and whatever it holds, as later accesses see it by index and tag: the   *)
(* block of the address is in it, no other came in, a hit and a miss that  *)
(* finds an unused line take no block out, and any other miss takes out at *)
(* most one block, of the same set.                                        *)
THEOREM AccessCachesItsBlock ==
  ASSUME NEW c \in CacheType, NEW address \in Nat
  PROVE  LET after == Access(c, address)
             Lost(b) == IsHit(c, b) /\ ~IsHit(after, b)
         IN /\ \A b \in Nat :
                 /\ Block(b) = Block(address) => IsHit(after, b)
                 /\ Block(b) # Block(address) /\ IsHit(after, b) => IsHit(c, b)
                 /\ Lost(b) => /\ ~IsHit(c, address)
                               /\ InvalidWays(c.sets[IndexOf(address)]) = {}
                               /\ IndexOf(b) = IndexOf(address)
            /\ \A a, b \in Nat : Lost(a) /\ Lost(b) => Block(a) = Block(b)
<1> DEFINE after == Access(c, address)
<1>1. ASSUME NEW b \in Nat, Block(b) = Block(address)
      PROVE  IsHit(after, b)
  <2>1. IndexOf(b) = IndexOf(address) /\ TagOf(b) = TagOf(address)
    BY <1>1 DEF IndexOf, TagOf
  <2> QED
    BY <2>1, AccessHits DEF IsHit
<1>2. ASSUME NEW b \in Nat, Block(b) # Block(address), IsHit(after, b)
      PROVE  IsHit(c, b)
  <2>1. IndexOf(b) \in SetIndex
    BY BlockType, DecodeType DEF IndexOf
  <2>2. PICK w \in Way : after.sets[IndexOf(b)][w].valid
                         /\ after.sets[IndexOf(b)][w].tag = TagOf(b)
    BY <1>2 DEF IsHit, HitWays
  <2>3. ~(IndexOf(b) = IndexOf(address) /\ TagOf(b) = TagOf(address))
    BY <1>2, DecodedBlock
  <2>4. after.sets[IndexOf(b)][w] = c.sets[IndexOf(b)][w]
    <3>1. CASE IndexOf(b) = IndexOf(address) /\ w = ChosenWay(c, address)
      <4>1. after.sets[IndexOf(b)][w] =
              [valid |-> TRUE, tag |-> TagOf(address),
               lruStamp |-> c.globalLRUCounter + 1]
        BY <2>1, <3>1, AccessLines
      <4> QED
        BY <2>2, <2>3, <3>1, <4>1
    <3>2. CASE ~(IndexOf(b) = IndexOf(address) /\ w = ChosenWay(c, address))
      BY <2>1, <3>2, AccessLines
    <3> QED
      BY <3>1, <3>2
  <2> QED
    BY <2>2, <2>4 DEF IsHit, HitWays
<1>3. ASSUME NEW a \in Nat, NEW b \in Nat,
             IsHit(c, a), ~IsHit(after, a), IsHit(c, b), ~IsHit(after, b)
      PROVE  Block(a) = Block(b)
  <2>1. IndexOf(a) = IndexOf(b) /\ TagOf(a) = TagOf(b)
    BY <1>3, LostFromChosen
  <2> QED
    BY <2>1, DecodedBlock
<1> QED
  BY <1>1, <1>2, <1>3, LostFromChosen

(* The cache the constructor makes. *)
LEMMA EmptyCacheType == EmptyCache \in CacheType
BY DEF EmptyCache, CacheType, Line

=============================================================================
