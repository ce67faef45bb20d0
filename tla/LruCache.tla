------------------------------ MODULE LruCache ------------------------------
(***************************************************************************)
(* One cache driven by an arbitrary sequence of accesses: Cache::Cache and *)
(* Cache::access of cache.cpp.  lastUse is a history variable: the access  *)
(* number at which each block was last asked for, 0 if never.  Nothing of  *)
(* the code reads it; the LRU promise is stated with it.                   *)
(***************************************************************************)
EXTENDS CacheOps, FiniteSets, Sequences

CONSTANTS
  Addresses,    \* the addresses the program touches
  MaxAccesses   \* bound on the number of accesses

ASSUME AddressAssumption == Addresses \subseteq Nat

ASSUME BoundAssumption == MaxAccesses \in Nat

VARIABLES
  cache,     \* the fields of the Cache object
  lastUse    \* history: block |-> number of its last access

vars == <<cache, lastUse>>

Blocks == {Block(a) : a \in Addresses}

SetMates(block) == {b \in Blocks : b % IndexSpan = block % IndexSpan}

Init ==
  /\ cache = EmptyCache
  /\ lastUse = [b \in Blocks |-> 0]

DoAccess(address) ==
  /\ cache.globalLRUCounter < MaxAccesses
  /\ cache' = Access(cache, address)
  /\ lastUse' = [lastUse EXCEPT ![Block(address)] = cache.globalLRUCounter + 1]

Next == \E address \in Addresses : DoAccess(address)

Spec == Init /\ [][Next]_vars

-----------------------------------------------------------------------------
(* Type invariant of the cache table and of the history variable. *)
TypeOK ==
  /\ cache \in CacheType
  /\ lastUse \in [Blocks -> Nat]

(* A set never holds a block twice: the hit scan of access() takes the     *)
(* first match and would leave a duplicate's stamp stale for ever.         *)
NoDuplicateLines ==
  \A s \in SetIndex : \A v, w \in Way :
    /\ cache.sets[s][v].valid
    /\ cache.sets[s][w].valid
    /\ cache.sets[s][v].tag = cache.sets[s][w].tag
    => v = w

(* A line is the record of its block's last access: the stamp of every     *)
(* valid line is the number of the last access to the block it holds, and  *)
(* that block belongs to the set the line is in.                           *)
StampIsLastUse ==
  \A s \in SetIndex : \A w \in Way :
    LET line == cache.sets[s][w]
    IN line.valid =>
         \E b \in Blocks :
           /\ b % IndexSpan = s
           /\ b \div IndexSpan = line.tag
           /\ line.lruStamp = lastUse[b]
           /\ line.lruStamp > 0

(* Least recently used is what leaves: a block that was used and is no     *)
(* longer resident is older than every line of its set, and its set is     *)
(* full (nothing is evicted while a line is invalid).                      *)
EvictedAreOldest ==
  \A b \in Blocks :
    (lastUse[b] > 0 /\ ~Resident(cache, b)) =>
      \A w \in Way :
        LET line == cache.sets[b % IndexSpan][w]
        IN line.valid /\ lastUse[b] < line.lruStamp

(* Accesses are numbered: no block was used after the last access, and two *)
(* blocks were not used by the same one.                                   *)
UsesNumbered ==
  /\ \A b \in Blocks : lastUse[b] <= cache.globalLRUCounter
  /\ \A a, b \in Blocks : (lastUse[a] = lastUse[b] /\ lastUse[a] > 0) => a = b

(* What makes the replacement LRU, as an inductive invariant of access().  *)
LruInvariant ==
  /\ TypeOK
  /\ NoDuplicateLines
  /\ StampIsLastUse
  /\ EvictedAreOldest
  /\ UsesNumbered

(* The reuse-distance law of an LRU cache: an access hits exactly when its *)
(* block was used before and fewer than Ways other blocks of its set were  *)
(* used since.                                                             *)
ReuseDistance ==
  [][\A b \in Blocks :
       lastUse'[b] # lastUse[b] =>
         LET since == {m \in SetMates(b) : lastUse[m] > lastUse[b]}
         IN (cache'.hits = cache.hits + 1)
              <=> (lastUse[b] > 0 /\ Cardinality(since) < Ways)]_vars

-----------------------------------------------------------------------------
ValidWays(set) == {w \in Way : set[w].valid}

(* The place of a line among the lines of its set, the newest first: how   *)
(* many have a stamp no older than its own.                                *)
Recency(set, w) ==
  Cardinality({v \in ValidWays(set) : set[v].lruStamp >= set[w].lruStamp})

(* The recency list of a set: its tags, most recently used first. *)
RecencyList(set) ==
  [i \in 1..Cardinality(ValidWays(set)) |->
     set[CHOOSE w \in ValidWays(set) : Recency(set, w) = i].tag]

(* The stamped table implements a stack of tags per set: move to front on  *)
(* a hit, push and drop the last on a miss.                                *)
Stack ==
  INSTANCE LruStack WITH
    Sets <- 0..(IndexSpan - 1),
    Tags <- {b \div IndexSpan : b \in Blocks},
    Depth <- Ways,
    stack <- [s \in 0..(IndexSpan - 1) |-> RecencyList(cache.sets[s])],
    hits <- cache.hits,
    misses <- cache.misses

StackSpec == Stack!Spec

=============================================================================
