------------------------------ MODULE CacheOps ------------------------------
(***************************************************************************)
(* The cache of cache.h/cache.cpp as operators on one record: the fields   *)
(* of class Cache that change (sets, hits, misses, globalLRUCounter).      *)
(* Both the stand-alone model (LruCache) and the pipeline's I- and         *)
(* D-caches are built from it.  A name with an underscore, here and in the *)
(* other modules, is a faulty variant of the definition that follows; the  *)
(* properties are tested on it.                                            *)
(*                                                                         *)
(* Blocks are not stored, only their tags: the simulator's cache models    *)
(* timing, the data always comes from the MemoryStore.                     *)
(***************************************************************************)
EXTENDS Integers

CONSTANTS
  CacheSize,   \* bytes in the cache          (CacheConfig.cacheSize)
  BlockSize,   \* bytes in a block            (CacheConfig.blockSize)
  Ways         \* lines of a set              (CacheConfig.ways)

(* The constructor's conversion of log2 to an unsigned integer rounds down. *)
Log2(n) == CHOOSE k \in 0..n : 2^k <= n /\ n < 2^(k + 1)

NumSets == (CacheSize \div BlockSize) \div Ways

indexBits == Log2(NumSets)

offsetBits == Log2(BlockSize)

(* The numbers of indices and of offsets an address is split into.  When   *)
(* NumSets is not a power of two, IndexSpan is smaller and the sets from   *)
(* IndexSpan on are never used.                                            *)
IndexSpan == 2^indexBits

OffsetSpan == 2^offsetBits

(* With fewer blocks than ways numSets is 0 and access() indexes an empty  *)
(* vector; the model is of the configurations that give a cache.           *)
ASSUME GeometryAssumption ==
  /\ CacheSize \in Nat \ {0}
  /\ BlockSize \in Nat \ {0}
  /\ Ways \in Nat \ {0}
  /\ NumSets \in Nat \ {0}

(* What rounding log2 down gives: a span of at least one, that fits. *)
ASSUME SpanAssumption ==
  /\ IndexSpan \in 1..NumSets
  /\ OffsetSpan \in 1..BlockSize

SetIndex == 0..(NumSets - 1)

Way == 0..(Ways - 1)

(* A line; a tag that was never written is 0, as the constructor leaves it. *)
Line == [valid : BOOLEAN, tag : Nat, lruStamp : Nat]

CacheType ==
  [sets : [SetIndex -> [Way -> Line]],
   hits : Nat,
   misses : Nat,
   globalLRUCounter : Nat]

EmptyCache ==
  [sets |-> [s \in SetIndex |->
               [w \in Way |-> [valid |-> FALSE, tag |-> 0, lruStamp |-> 0]]],
   hits |-> 0,
   misses |-> 0,
   globalLRUCounter |-> 0]

-----------------------------------------------------------------------------
(* Address decoding. *)

Block(address) == address \div OffsetSpan

IndexOf_UsesEverySet(address) == Block(address) % NumSets

IndexOf(address) == Block(address) % IndexSpan

TagOf(address) == Block(address) \div IndexSpan

-----------------------------------------------------------------------------
(* The scans of access(), each of which takes the first way that qualifies. *)

FirstWay(W) == CHOOSE w \in W : \A v \in W : w <= v

HitWays(curSet, tag) == {w \in Way : curSet[w].valid /\ curSet[w].tag = tag}

InvalidWays(curSet) == {w \in Way : ~curSet[w].valid}

OldestWays_Newest(curSet) ==
  {w \in Way : \A v \in Way : curSet[w].lruStamp >= curSet[v].lruStamp}

OldestWays(curSet) ==
  {w \in Way : \A v \in Way : curSet[w].lruStamp <= curSet[v].lruStamp}

VictimWay_FirstWay(curSet) ==
  FirstWay(IF InvalidWays(curSet) # {} THEN InvalidWays(curSet) ELSE Way)

VictimWay(curSet) ==
  IF InvalidWays(curSet) # {}
    THEN FirstWay(InvalidWays(curSet))
    ELSE FirstWay(OldestWays(curSet))

IsHit(c, address) ==
  HitWays(c.sets[IndexOf(address)], TagOf(address)) # {}

(* The way that holds the block once access() has returned. *)
ChosenWay(c, address) ==
  IF IsHit(c, address)
    THEN FirstWay(HitWays(c.sets[IndexOf(address)], TagOf(address)))
    ELSE VictimWay(c.sets[IndexOf(address)])

Access_CountsDown(c, address) ==
  LET stamp == c.globalLRUCounter - 1
      line  == [valid |-> TRUE, tag |-> TagOf(address), lruStamp |-> stamp]
  IN [c EXCEPT !.sets[IndexOf(address)][ChosenWay(c, address)] = line,
               !.globalLRUCounter = stamp]

Access_HitKeepsStamp(c, address) ==
  LET stamp == c.globalLRUCounter + 1
      line  == [valid |-> TRUE, tag |-> TagOf(address), lruStamp |-> stamp]
  IN IF IsHit(c, address)
       THEN [c EXCEPT !.hits = @ + 1, !.globalLRUCounter = stamp]
       ELSE [c EXCEPT !.sets[IndexOf(address)][ChosenWay(c, address)] = line,
                      !.misses = @ + 1,
                      !.globalLRUCounter = stamp]

(* The cache after access(address): on a hit only the stamp of the line    *)
(* changes, on a miss the victim becomes the block's line.                 *)
Access(c, address) ==
  LET stamp == c.globalLRUCounter + 1
      line  == [valid |-> TRUE, tag |-> TagOf(address), lruStamp |-> stamp]
  IN [sets |-> [c.sets EXCEPT ![IndexOf(address)][ChosenWay(c, address)] = line],
      hits |-> IF IsHit(c, address) THEN c.hits + 1 ELSE c.hits,
      misses |-> IF IsHit(c, address) THEN c.misses ELSE c.misses + 1,
      globalLRUCounter |-> stamp]

(* Is the block of the address in the cache? (contents, not an operation) *)
Resident(c, block) ==
  HitWays(c.sets[block % IndexSpan], block \div IndexSpan) # {}

=============================================================================
