--------------------------- MODULE LruCacheProofs ---------------------------
(***************************************************************************)
(* Proofs about the cache for every geometry, every set of addresses and   *)
(* any number of accesses: type correctness, and the invariant that makes  *)
(* the replacement policy LRU.                                             *)
(***************************************************************************)
EXTENDS LruCache, CacheOpsProofs, FiniteSetTheorems

LEMMA BlocksType == Blocks \subseteq Nat
BY BlockType, AddressAssumption DEF Blocks

(* Type correctness: no access leaves the table, the counters or the       *)
(* history outside their types (simulator state of class Cache).           *)
THEOREM TypeCorrect == Spec => []TypeOK
<1>1. Init => TypeOK
  BY DEF Init, TypeOK, EmptyCache, CacheType, Line
<1>2. TypeOK /\ [Next]_vars => TypeOK'
  <2> SUFFICES ASSUME TypeOK, [Next]_vars
               PROVE  TypeOK'
    OBVIOUS
  <2>1. CASE Next
    <3>1. PICK address \in Addresses : DoAccess(address)
      BY <2>1 DEF Next
    <3>2. address \in Nat
      BY AddressAssumption
    <3>3. cache' \in CacheType
      BY <3>1, <3>2, AccessType DEF DoAccess, TypeOK
    <3>4. cache.globalLRUCounter + 1 \in Nat
      BY DEF TypeOK, CacheType
    <3>5. lastUse' \in [Blocks -> Nat]
      BY <3>1, <3>4 DEF DoAccess, TypeOK
    <3> QED
      BY <3>3, <3>5 DEF TypeOK
  <2>2. CASE UNCHANGED vars
    BY <2>2 DEF vars, TypeOK
  <2> QED
    BY <2>1, <2>2
<1> QED
  BY <1>1, <1>2, PTL DEF Spec

-----------------------------------------------------------------------------
(* What one access changes, line by line. *)

(* When no block is held twice, no other line of the set holds the block   *)
(* that is accessed.                                                       *)
LEMMA OtherLinesHoldOthers ==
  ASSUME TypeOK, NoDuplicateLines, NEW address \in Nat,
         NEW w \in Way, w # ChosenWay(cache, address),
         cache.sets[IndexOf(address)][w].valid
  PROVE  cache.sets[IndexOf(address)][w].tag # TagOf(address)
<1> DEFINE i == IndexOf(address)
           k == ChosenWay(cache, address)
<1>1. i \in SetIndex
  BY BlockType, DecodeType DEF IndexOf
<1>2. SUFFICES ASSUME cache.sets[i][w].tag = TagOf(address)
               PROVE  FALSE
  OBVIOUS
<1>3. w \in HitWays(cache.sets[i], TagOf(address))
  BY <1>2 DEF HitWays
<1>4. k \in HitWays(cache.sets[i], TagOf(address))
  BY <1>3, ChosenWayIn DEF IsHit, TypeOK
<1>5. /\ k \in Way
      /\ cache.sets[i][k].valid
      /\ cache.sets[i][k].tag = TagOf(address)
  BY <1>4 DEF HitWays
<1> QED
  BY <1>1, <1>2, <1>5 DEF NoDuplicateLines

(* What one access() does, with names for what it decodes. *)
AccessEffect(address) ==
  /\ address \in Nat
  /\ Block(address) \in Blocks
  /\ Block(address) \in Nat
  /\ IndexOf(address) \in SetIndex
  /\ TagOf(address) \in Nat
  /\ ChosenWay(cache, address) \in Way
  /\ cache.globalLRUCounter \in Nat
  /\ cache'.globalLRUCounter = cache.globalLRUCounter + 1
  /\ cache' \in CacheType
  /\ lastUse'[Block(address)] = cache.globalLRUCounter + 1
  /\ \A b \in Blocks : b # Block(address) => lastUse'[b] = lastUse[b]
  /\ \A b \in Blocks : lastUse[b] \in Nat
  /\ \A s \in SetIndex, w \in Way :
       cache'.sets[s][w] =
         IF s = IndexOf(address) /\ w = ChosenWay(cache, address)
           THEN [valid |-> TRUE, tag |-> TagOf(address),
                 lruStamp |-> cache.globalLRUCounter + 1]
           ELSE cache.sets[s][w]

LEMMA StepFacts ==
  ASSUME NEW address \in Addresses, TypeOK, DoAccess(address)
  PROVE  AccessEffect(address)
<1>1. address \in Nat /\ cache \in CacheType
  BY AddressAssumption DEF TypeOK
<1>2. Block(address) \in Blocks /\ Block(address) \in Nat
  BY <1>1, BlockType DEF Blocks
<1>3. IndexOf(address) \in SetIndex /\ TagOf(address) \in Nat
  BY <1>1, BlockType, DecodeType DEF IndexOf, TagOf
<1>4. ChosenWay(cache, address) \in Way
  BY <1>1, ChosenWayIn
<1>5. cache.globalLRUCounter \in Nat
  BY <1>1 DEF CacheType
<1>6. cache' = Access(cache, address)
  BY DEF DoAccess
<1>7. cache' \in CacheType /\ cache'.globalLRUCounter = cache.globalLRUCounter + 1
  BY <1>1, <1>6, AccessType DEF Access
<1>8. /\ lastUse'[Block(address)] = cache.globalLRUCounter + 1
      /\ \A b \in Blocks : b # Block(address) => lastUse'[b] = lastUse[b]
      /\ \A b \in Blocks : lastUse[b] \in Nat
  BY <1>2 DEF DoAccess, TypeOK
<1>9. \A s \in SetIndex, w \in Way :
        cache'.sets[s][w] =
          IF s = IndexOf(address) /\ w = ChosenWay(cache, address)
            THEN [valid |-> TRUE, tag |-> TagOf(address),
                  lruStamp |-> cache.globalLRUCounter + 1]
            ELSE cache.sets[s][w]
  BY <1>1, <1>6, AccessLines
<1> QED
  BY <1>1, <1>2, <1>3, <1>4, <1>5, <1>7, <1>8, <1>9 DEF AccessEffect

LEMMA NoDuplicateLinesStep ==
  ASSUME NEW address \in Addresses, LruInvariant, DoAccess(address)
  PROVE  NoDuplicateLines'
<1> DEFINE i == IndexOf(address)
           k == ChosenWay(cache, address)
<1>0. TypeOK /\ NoDuplicateLines /\ StampIsLastUse /\ UsesNumbered
  BY DEF LruInvariant
<1>e. AccessEffect(address)
  BY <1>0, StepFacts
<1>1. SUFFICES ASSUME NEW s \in SetIndex, NEW v \in Way, NEW w \in Way,
                      cache'.sets[s][v].valid,
                      cache'.sets[s][w].valid,
                      cache'.sets[s][v].tag = cache'.sets[s][w].tag
               PROVE  v = w
  BY DEF NoDuplicateLines
<1>2. CASE s # i
  BY <1>1, <1>2, <1>0, <1>e DEF AccessEffect, NoDuplicateLines
<1>3. CASE s = i /\ v # k /\ w # k
  BY <1>1, <1>3, <1>0, <1>e DEF AccessEffect, NoDuplicateLines
<1>4. CASE s = i /\ v = k /\ w # k
  <2>1. cache.sets[i][w].valid /\ cache.sets[i][w].tag = TagOf(address)
    BY <1>1, <1>4, <1>0, <1>e DEF AccessEffect
  <2> QED
    BY <1>4, <2>1, <1>0, <1>e, OtherLinesHoldOthers DEF AccessEffect
<1>5. CASE s = i /\ w = k /\ v # k
  <2>1. cache.sets[i][v].valid /\ cache.sets[i][v].tag = TagOf(address)
    BY <1>1, <1>5, <1>0, <1>e DEF AccessEffect
  <2> QED
    BY <1>5, <2>1, <1>0, <1>e, OtherLinesHoldOthers DEF AccessEffect
<1> QED
  BY <1>2, <1>3, <1>4, <1>5

LEMMA StampIsLastUseStep ==
  ASSUME NEW address \in Addresses, LruInvariant, DoAccess(address)
  PROVE  StampIsLastUse'
<1> DEFINE i == IndexOf(address)
           k == ChosenWay(cache, address)
           B == Block(address)
<1>0. TypeOK /\ NoDuplicateLines /\ StampIsLastUse /\ UsesNumbered
  BY DEF LruInvariant
<1>e. AccessEffect(address)
  BY <1>0, StepFacts
<1>1. SUFFICES ASSUME NEW s \in SetIndex, NEW w \in Way,
                      cache'.sets[s][w].valid
               PROVE  \E b \in Blocks :
                        /\ b % IndexSpan = s
                        /\ b \div IndexSpan = cache'.sets[s][w].tag
                        /\ cache'.sets[s][w].lruStamp = lastUse'[b]
                        /\ cache'.sets[s][w].lruStamp > 0
  BY DEF StampIsLastUse
<1>2. CASE s = i /\ w = k
  <2>1. /\ cache'.sets[s][w].tag = TagOf(address)
        /\ cache'.sets[s][w].lruStamp = cache.globalLRUCounter + 1
    BY <1>2, <1>0, <1>e DEF AccessEffect
  <2>2. B % IndexSpan = s /\ B \div IndexSpan = TagOf(address)
    BY <1>2 DEF IndexOf, TagOf
  <2>3. cache.globalLRUCounter + 1 > 0
    BY <1>0, <1>e DEF AccessEffect
  <2> QED
    BY <2>1, <2>2, <2>3, <1>0, <1>e DEF AccessEffect
<1>3. CASE ~(s = i /\ w = k)
  <2>1. cache'.sets[s][w] = cache.sets[s][w] /\ cache.sets[s][w].valid
    BY <1>1, <1>3, <1>e DEF AccessEffect
  <2>2. PICK b \in Blocks :
          /\ b % IndexSpan = s
          /\ b \div IndexSpan = cache.sets[s][w].tag
          /\ cache.sets[s][w].lruStamp = lastUse[b]
          /\ cache.sets[s][w].lruStamp > 0
    BY <1>0, <2>1 DEF StampIsLastUse
  <2>3. b # B
    <3>1. SUFFICES ASSUME b = B
                   PROVE  FALSE
      OBVIOUS
    <3>2. s = i /\ cache.sets[i][w].tag = TagOf(address)
      BY <2>2, <3>1 DEF IndexOf, TagOf
    <3>3. w # k /\ cache.sets[i][w].valid
      BY <1>1, <1>3, <2>1, <3>2
    <3> QED
      BY <3>2, <3>3, <1>0, <1>e, OtherLinesHoldOthers DEF AccessEffect
  <2>4. lastUse'[b] = lastUse[b]
    BY <2>3, <1>0, <1>e DEF AccessEffect
  <2> QED
    BY <2>1, <2>2, <2>4
<1> QED
  BY <1>2, <1>3

LEMMA UsesNumberedStep ==
  ASSUME NEW address \in Addresses, LruInvariant, DoAccess(address)
  PROVE  UsesNumbered'
<1>0. TypeOK /\ NoDuplicateLines /\ StampIsLastUse /\ UsesNumbered
  BY DEF LruInvariant
<1>e. AccessEffect(address)
  BY <1>0, StepFacts
<1>1. \A b \in Blocks : lastUse'[b] <= cache'.globalLRUCounter
  BY <1>0, <1>e DEF AccessEffect, UsesNumbered
<1>2. ASSUME NEW a \in Blocks, NEW b \in Blocks,
             lastUse'[a] = lastUse'[b], lastUse'[a] > 0
      PROVE  a = b
  BY <1>2, <1>0, <1>e DEF AccessEffect, UsesNumbered
<1> QED
  BY <1>1, <1>2 DEF UsesNumbered

(* The heart of the argument: the line a miss replaces is the oldest of a  *)
(* full set, so every line that stays is younger than the block that goes. *)
LEMMA EvictedAreOldestStep ==
  ASSUME NEW address \in Addresses, LruInvariant, DoAccess(address)
  PROVE  EvictedAreOldest'
<1> DEFINE i == IndexOf(address)
           k == ChosenWay(cache, address)
           B == Block(address)
           set == cache.sets[i]
<1>0. /\ TypeOK /\ NoDuplicateLines /\ StampIsLastUse
      /\ EvictedAreOldest /\ UsesNumbered
  BY DEF LruInvariant
<1>e. AccessEffect(address)
  BY <1>0, StepFacts
<1>1. SUFFICES ASSUME NEW b \in Blocks,
                      lastUse'[b] > 0,
                      ~Resident(cache', b),
                      NEW w \in Way
               PROVE  /\ cache'.sets[b % IndexSpan][w].valid
                      /\ lastUse'[b] < cache'.sets[b % IndexSpan][w].lruStamp
  BY DEF EvictedAreOldest
<1>2. b \in Nat /\ b % IndexSpan \in SetIndex
  BY BlocksType, DecodeType
<1>3. B % IndexSpan = i /\ B \div IndexSpan = TagOf(address)
  BY DEF IndexOf, TagOf
<1>4. b # B
  <2>1. k \in HitWays(cache'.sets[i], TagOf(address))
    BY <1>e DEF AccessEffect, HitWays
  <2> QED
    BY <1>1, <1>3, <2>1 DEF Resident
<1>5. lastUse'[b] = lastUse[b] /\ lastUse[b] > 0
  BY <1>1, <1>4, <1>e DEF AccessEffect
<1>6. /\ lastUse[b] \in Nat
      /\ lastUse[b] <= cache.globalLRUCounter
      /\ cache.globalLRUCounter \in Nat
  BY <1>0, <1>e DEF AccessEffect, UsesNumbered
<1>7. CASE b % IndexSpan # i
  <2>1. \A v \in Way : cache'.sets[b % IndexSpan][v] = cache.sets[b % IndexSpan][v]
    BY <1>2, <1>7, <1>e DEF AccessEffect
  <2>2. ~Resident(cache, b)
    BY <1>1, <2>1 DEF Resident, HitWays
  <2> QED
    BY <1>0, <1>5, <2>1, <2>2 DEF EvictedAreOldest
<1>8. CASE b % IndexSpan = i /\ ~Resident(cache, b)
  <2>1. \A v \in Way : set[v].valid /\ lastUse[b] < set[v].lruStamp
    BY <1>0, <1>5, <1>8 DEF EvictedAreOldest
  <2>2. CASE w = k
    BY <1>5, <1>6, <1>8, <1>e, <2>2 DEF AccessEffect
  <2>3. CASE w # k
    BY <1>5, <1>8, <1>e, <2>1, <2>3 DEF AccessEffect
  <2> QED
    BY <2>2, <2>3
<1>9. CASE b % IndexSpan = i /\ Resident(cache, b)
  <2>1. PICK h \in Way : set[h].valid /\ set[h].tag = b \div IndexSpan
    BY <1>9 DEF Resident, HitWays
  <2>2. h = k
    <3>1. SUFFICES ASSUME h # k
                   PROVE  FALSE
      OBVIOUS
    <3>2. cache'.sets[i][h] = set[h]
      BY <1>e, <3>1 DEF AccessEffect
    <3> QED
      BY <1>1, <1>9, <2>1, <3>2 DEF Resident, HitWays
  <2>3. ~IsHit(cache, address)
    <3>1. SUFFICES ASSUME IsHit(cache, address)
                   PROVE  FALSE
      OBVIOUS
    <3>2. k \in HitWays(set, TagOf(address))
      BY <1>0, <1>e, <3>1, ChosenWayIn DEF AccessEffect, TypeOK
    <3>3. b \div IndexSpan = TagOf(address)
      BY <2>1, <2>2, <3>2 DEF HitWays
    <3>4. B \in Nat
      BY <1>e DEF AccessEffect
    <3> QED
      BY <1>2, <1>3, <1>4, <1>9, <3>3, <3>4, DecodeInjective
  <2>4. InvalidWays(set) = {}
    <3>1. SUFFICES ASSUME InvalidWays(set) # {}
                   PROVE  FALSE
      OBVIOUS
    <3>2. k \in InvalidWays(set)
      BY <1>0, <1>e, <2>3, <3>1, ChosenWayIn DEF AccessEffect, TypeOK
    <3> QED
      BY <2>1, <2>2, <3>2 DEF InvalidWays
  <2>5. k \in OldestWays(set)
    BY <1>0, <1>e, <2>3, <2>4, ChosenWayIn DEF AccessEffect, TypeOK
  <2>6. set[k].lruStamp = lastUse[b]
    <3>1. PICK a \in Blocks :
            /\ a % IndexSpan = i
            /\ a \div IndexSpan = set[k].tag
            /\ set[k].lruStamp = lastUse[a]
      BY <1>0, <1>e, <2>1, <2>2 DEF AccessEffect, StampIsLastUse
    <3>2. a = b
      BY <1>2, <1>9, <2>1, <2>2, <3>1, BlocksType, DecodeInjective
    <3> QED
      BY <3>1, <3>2
  <2>7. CASE w = k
    BY <1>5, <1>6, <1>9, <1>e, <2>7 DEF AccessEffect
  <2>8. CASE w # k
    <3>1. cache'.sets[i][w] = set[w]
      BY <1>e, <2>8 DEF AccessEffect
    <3>2. set[w].valid
      BY <2>4 DEF InvalidWays
    <3>3. PICK a \in Blocks :
            /\ a % IndexSpan = i
            /\ a \div IndexSpan = set[w].tag
            /\ set[w].lruStamp = lastUse[a]
      BY <1>0, <1>e, <3>2 DEF AccessEffect, StampIsLastUse
    <3>4. a # b
      BY <1>0, <1>e, <2>1, <2>2, <2>8, <3>2, <3>3
         DEF AccessEffect, NoDuplicateLines
    <3>5. lastUse[a] # lastUse[b]
      BY <1>0, <1>5, <3>4 DEF UsesNumbered
    <3>6. set[k].lruStamp <= set[w].lruStamp
      BY <2>5 DEF OldestWays
    <3>7. lastUse[a] \in Nat /\ lastUse[b] \in Nat
      BY <1>e DEF AccessEffect
    <3> QED
      BY <1>5, <1>9, <2>6, <3>1, <3>2, <3>3, <3>5, <3>6, <3>7
  <2> QED
    BY <2>7, <2>8
<1> QED
  BY <1>7, <1>8, <1>9

(* The cache is LRU after any number of accesses, for every geometry: no   *)
(* block is held twice, every stamp is its block's last use, and what was  *)
(* evicted is older than everything that stayed.                           *)
THEOREM LruInvariantHolds == Spec => []LruInvariant
<1>1. Init => LruInvariant
  <2> SUFFICES ASSUME Init
               PROVE  LruInvariant
    OBVIOUS
  <2>1. TypeOK
    BY DEF Init, TypeOK, EmptyCache, CacheType, Line
  <2>2. \A s \in SetIndex, w \in Way : ~cache.sets[s][w].valid
    BY DEF Init, EmptyCache
  <2>3. NoDuplicateLines /\ StampIsLastUse
    BY <2>2 DEF NoDuplicateLines, StampIsLastUse
  <2>4. EvictedAreOldest /\ UsesNumbered
    BY DEF Init, EmptyCache, EvictedAreOldest, UsesNumbered
  <2> QED
    BY <2>1, <2>3, <2>4 DEF LruInvariant
<1>2. LruInvariant /\ TypeOK' /\ [Next]_vars => LruInvariant'
  <2> SUFFICES ASSUME LruInvariant, TypeOK', [Next]_vars
               PROVE  LruInvariant'
    OBVIOUS
  <2>1. CASE Next
    <3>1. PICK address \in Addresses : DoAccess(address)
      BY <2>1 DEF Next
    <3> QED
      BY <3>1, NoDuplicateLinesStep, StampIsLastUseStep, UsesNumberedStep,
         EvictedAreOldestStep DEF LruInvariant
  <2>2. CASE UNCHANGED vars
    <3>1. cache' = cache /\ lastUse' = lastUse
      BY <2>2 DEF vars
    <3>2. NoDuplicateLines' /\ StampIsLastUse' /\ UsesNumbered'
      BY <3>1 DEF LruInvariant, NoDuplicateLines, StampIsLastUse, UsesNumbered
    <3>3. EvictedAreOldest'
      BY <3>1 DEF LruInvariant, EvictedAreOldest, Resident, HitWays
    <3> QED
      BY <3>2, <3>3 DEF LruInvariant
  <2> QED
    BY <2>1, <2>2
<1> QED
  BY <1>1, <1>2, TypeCorrect, PTL DEF Spec

(* A block that left its set was used before everything that is in it: the *)
(* property the pipeline's miss counts rest on.                            *)
THEOREM EvictionIsLru == Spec => []EvictedAreOldest
<1>1. LruInvariant => EvictedAreOldest
  BY DEF LruInvariant
<1> QED
  BY <1>1, LruInvariantHolds, PTL

-----------------------------------------------------------------------------
(* The reuse-distance law: counting the blocks used since. *)

(* Counting with a function: what maps one to one into a finite set is no  *)
(* larger.                                                                 *)
LEMMA InjectionBound ==
  ASSUME NEW S, NEW T, NEW f \in [S -> T], IsFiniteSet(T),
         \A x, y \in S : f[x] = f[y] => x = y
  PROVE  IsFiniteSet(S) /\ Cardinality(S) <= Cardinality(T)
<1>1. f \in Injection(S, T)
  BY DEF Injection, IsInjective
<1> QED
  BY <1>1, FS_Injection

(* A valid line holds the block that the history says it does. *)
LEMMA LineOfBlock ==
  ASSUME LruInvariant, NEW b \in Blocks, NEW w \in Way,
         cache.sets[b % IndexSpan][w].valid,
         cache.sets[b % IndexSpan][w].tag = b \div IndexSpan
  PROVE  /\ cache.sets[b % IndexSpan][w].lruStamp = lastUse[b]
         /\ lastUse[b] > 0
<1>1. b \in Nat /\ b % IndexSpan \in SetIndex
  BY BlocksType, DecodeType
<1>2. PICK a \in Blocks :
        /\ a % IndexSpan = b % IndexSpan
        /\ a \div IndexSpan = cache.sets[b % IndexSpan][w].tag
        /\ cache.sets[b % IndexSpan][w].lruStamp = lastUse[a]
        /\ cache.sets[b % IndexSpan][w].lruStamp > 0
  BY <1>1 DEF LruInvariant, StampIsLastUse
<1>3. a = b
  BY <1>1, <1>2, BlocksType, DecodeInjective
<1> QED
  BY <1>2, <1>3

(* Finitely many blocks have been used: each use has a number of its own. *)
LEMMA UsedFinite ==
  ASSUME LruInvariant
  PROVE  IsFiniteSet({m \in Blocks : lastUse[m] > 0})
<1> DEFINE used == {m \in Blocks : lastUse[m] > 0}
           number == [m \in used |-> lastUse[m]]
<1>1. cache.globalLRUCounter \in Nat
  BY DEF LruInvariant, TypeOK, CacheType
<1>2. \A m \in used : lastUse[m] \in 1..cache.globalLRUCounter
  BY <1>1 DEF LruInvariant, TypeOK, UsesNumbered
<1>3. number \in [used -> 1..cache.globalLRUCounter]
  BY <1>2
<1>4. ASSUME NEW m \in used, NEW n \in used, number[m] = number[n]
      PROVE  m = n
  BY <1>4 DEF LruInvariant, UsesNumbered
<1>5. number \in Injection(used, 1..cache.globalLRUCounter)
  BY <1>3, <1>4 DEF Injection, IsInjective
<1>6. IsFiniteSet(1..cache.globalLRUCounter)
  BY <1>1, FS_Interval
<1> HIDE DEF number
<1> QED
  BY <1>5, <1>6, FS_Injection

(* The blocks of a block's set used after it. *)
UsedSince(b) == {m \in SetMates(b) : lastUse[m] > lastUse[b]}

LEMMA UsedSinceFinite ==
  ASSUME LruInvariant, NEW b \in Blocks
  PROVE  /\ IsFiniteSet(UsedSince(b))
         /\ Cardinality(UsedSince(b)) \in Nat
<1>1. UsedSince(b) \in SUBSET {m \in Blocks : lastUse[m] > 0}
  BY DEF UsedSince, SetMates, LruInvariant, TypeOK
<1>2. IsFiniteSet(UsedSince(b))
  BY <1>1, UsedFinite, FS_Subset
<1> QED
  BY <1>2, FS_CardinalityType

(* A resident block was used, and what was used since has lines of its     *)
(* own: fewer blocks than the set has ways.                                *)
LEMMA ResidentIsRecent ==
  ASSUME LruInvariant, NEW b \in Blocks, Resident(cache, b)
  PROVE  lastUse[b] > 0 /\ Cardinality(UsedSince(b)) < Ways
<1> DEFINE set == cache.sets[b % IndexSpan]
           holds(m, w) == set[w].valid /\ set[w].tag = m \div IndexSpan
           wayOf == [m \in UsedSince(b) |-> CHOOSE w \in Way : holds(m, w)]
<1>1. PICK h \in Way : holds(b, h)
  BY DEF Resident, HitWays
<1>2. set[h].lruStamp = lastUse[b] /\ lastUse[b] > 0
  BY <1>1, LineOfBlock
<1>3. ASSUME NEW m \in UsedSince(b)
      PROVE  /\ m \in Blocks /\ m \in Nat /\ b \in Nat
             /\ m % IndexSpan = b % IndexSpan
             /\ m # b
             /\ \E w \in Way : holds(m, w)
  <2>1. /\ m \in Blocks /\ m % IndexSpan = b % IndexSpan
        /\ lastUse[m] > lastUse[b]
    BY DEF UsedSince, SetMates
  <2>2. lastUse[m] \in Nat /\ lastUse[b] \in Nat
    BY <2>1 DEF LruInvariant, TypeOK
  <2>3. m # b
    BY <2>1, <2>2
  <2>4. Resident(cache, m)
    <3>1. SUFFICES ASSUME ~Resident(cache, m)
                   PROVE  FALSE
      OBVIOUS
    <3>2. lastUse[m] < set[h].lruStamp
      BY <1>2, <2>1, <2>2, <3>1 DEF LruInvariant, EvictedAreOldest
    <3> QED
      BY <1>2, <2>1, <2>2, <3>2
  <2>5. \E w \in Way : holds(m, w)
    BY <2>1, <2>4 DEF Resident, HitWays
  <2> QED
    BY <2>1, <2>3, <2>5, BlocksType
<1>4. ASSUME NEW m \in UsedSince(b)
      PROVE  wayOf[m] \in Way /\ holds(m, wayOf[m]) /\ wayOf[m] # h
  <2>1. wayOf[m] \in Way /\ holds(m, wayOf[m])
    BY <1>3
  <2>2. CASE wayOf[m] = h
    <3>1. m \div IndexSpan = b \div IndexSpan
      BY <1>1, <2>1, <2>2
    <3> QED
      BY <1>3, <3>1, DecodeInjective
  <2> QED
    BY <2>1, <2>2
<1>5. ASSUME NEW m \in UsedSince(b), NEW n \in UsedSince(b),
             wayOf[m] = wayOf[n]
      PROVE  m = n
  <2>1. m \div IndexSpan = n \div IndexSpan
    BY <1>4, <1>5
  <2> QED
    BY <1>3, <2>1, DecodeInjective
<1>6. wayOf \in [UsedSince(b) -> Way \ {h}]
  BY <1>4
<1>7. wayOf \in Injection(UsedSince(b), Way \ {h})
  BY <1>5, <1>6 DEF Injection, IsInjective
<1>8. /\ IsFiniteSet(Way \ {h})
      /\ Cardinality(Way \ {h}) = Ways - 1
      /\ Ways \in Nat
  <2>1. Ways \in Nat \ {0} /\ IsFiniteSet(Way) /\ Cardinality(Way) = Ways
    BY GeometryAssumption, FS_Interval DEF Way
  <2> QED
    BY <2>1, FS_RemoveElement
<1> HIDE DEF wayOf
<1>9. Cardinality(UsedSince(b)) <= Ways - 1
  BY <1>7, <1>8, FS_Injection
<1> QED
  BY <1>2, <1>8, <1>9, UsedSinceFinite

(* A block that was used and evicted is older than a whole set of lines,   *)
(* each of a block used since.                                             *)
LEMMA EvictedIsDistant ==
  ASSUME LruInvariant, NEW b \in Blocks,
         lastUse[b] > 0, ~Resident(cache, b)
  PROVE  ~(Cardinality(UsedSince(b)) < Ways)
<1> DEFINE set == cache.sets[b % IndexSpan]
           heldIn(a, w) == /\ a % IndexSpan = b % IndexSpan
                           /\ a \div IndexSpan = set[w].tag
                           /\ set[w].lruStamp = lastUse[a]
           blockOf == [w \in Way |-> CHOOSE a \in Blocks : heldIn(a, w)]
<1>1. b % IndexSpan \in SetIndex
  BY BlocksType, DecodeType
<1>2. ASSUME NEW w \in Way
      PROVE  set[w].valid /\ lastUse[b] < set[w].lruStamp
  BY DEF LruInvariant, EvictedAreOldest
<1>3. ASSUME NEW w \in Way
      PROVE  \E a \in Blocks : heldIn(a, w)
  BY <1>1, <1>2 DEF LruInvariant, StampIsLastUse
<1>4. ASSUME NEW w \in Way
      PROVE  blockOf[w] \in UsedSince(b) /\ heldIn(blockOf[w], w)
  <2>1. blockOf[w] \in Blocks /\ heldIn(blockOf[w], w)
    BY <1>3
  <2>2. lastUse[blockOf[w]] \in Nat /\ lastUse[b] \in Nat
    BY <2>1 DEF LruInvariant, TypeOK
  <2>3. lastUse[blockOf[w]] > lastUse[b]
    BY <1>2, <2>1, <2>2
  <2> QED
    BY <2>1, <2>3 DEF UsedSince, SetMates
<1>5. ASSUME NEW v \in Way, NEW w \in Way, blockOf[v] = blockOf[w]
      PROVE  v = w
  <2>1. set[v].tag = set[w].tag
    <3>1. heldIn(blockOf[v], v) /\ heldIn(blockOf[w], w)
      BY <1>4
    <3> HIDE DEF blockOf, set
    <3> QED
      BY <1>5, <3>1
  <2>2. set[v].valid /\ set[w].valid
    BY <1>2
  <2>3. set[v].valid /\ set[w].valid /\ set[v].tag = set[w].tag => v = w
    BY <1>1 DEF LruInvariant, NoDuplicateLines
  <2> QED
    BY <2>1, <2>2, <2>3, Zenon
<1>6. blockOf \in [Way -> UsedSince(b)]
  BY <1>4
<1>7. blockOf \in Injection(Way, UsedSince(b))
  BY <1>5, <1>6 DEF Injection, IsInjective
<1>8. Cardinality(Way) = Ways /\ Ways \in Nat
  BY GeometryAssumption, FS_Interval DEF Way
<1> HIDE DEF blockOf
<1>9. Cardinality(Way) <= Cardinality(UsedSince(b))
  BY <1>7, UsedSinceFinite, FS_Injection
<1> QED
  BY <1>8, <1>9, UsedSinceFinite

(* The reuse-distance law for every geometry and any number of accesses:   *)
(* access() counts a hit exactly when fewer blocks of the set were used    *)
(* since the block's last use than the set has ways.                       *)
THEOREM ReuseDistanceHolds == Spec => ReuseDistance
<1>1. ASSUME LruInvariant, [Next]_vars, NEW b \in Blocks,
             lastUse'[b] # lastUse[b]
      PROVE  (cache'.hits = cache.hits + 1)
               <=> (lastUse[b] > 0 /\ Cardinality(UsedSince(b)) < Ways)
  <2>1. PICK address \in Addresses : DoAccess(address)
    BY <1>1 DEF Next, vars
  <2>2. AccessEffect(address)
    BY <1>1, <2>1, StepFacts DEF LruInvariant
  <2>3. b = Block(address)
    BY <1>1, <2>2 DEF AccessEffect
  <2>4. cache'.hits = IF IsHit(cache, address) THEN cache.hits + 1
                                               ELSE cache.hits
    BY <2>1 DEF DoAccess, Access
  <2>5. cache.hits \in Nat
    BY <1>1 DEF LruInvariant, TypeOK, CacheType
  <2>6. IsHit(cache, address) <=> Resident(cache, b)
    BY <2>3 DEF IsHit, Resident, IndexOf, TagOf
  <2> QED
    BY <1>1, <2>4, <2>5, <2>6, ResidentIsRecent, EvictedIsDistant
<1>2. LruInvariant /\ [Next]_vars =>
        [\A b \in Blocks :
           lastUse'[b] # lastUse[b] =>
             LET since == {m \in SetMates(b) : lastUse[m] > lastUse[b]}
             IN (cache'.hits = cache.hits + 1)
                  <=> (lastUse[b] > 0 /\ Cardinality(since) < Ways)]_vars
  BY <1>1 DEF UsedSince
<1> QED
  BY <1>2, LruInvariantHolds, PTL DEF Spec, ReuseDistance

-----------------------------------------------------------------------------
(* The recency list: ranking the lines of one set by their stamps.         *)

DistinctStamps(set) ==
  \A v, w \in ValidWays(set) : set[v].lruStamp = set[w].lruStamp => v = w

NotOlder(set, w) ==
  {v \in ValidWays(set) : set[v].lruStamp >= set[w].lruStamp}

LEMMA WaysFinite ==
  /\ IsFiniteSet(Way) /\ Cardinality(Way) = Ways
  /\ Ways \in Nat /\ Ways # 0
BY GeometryAssumption, FS_Interval DEF Way

LEMMA ValidWaysFinite ==
  ASSUME NEW set
  PROVE  /\ IsFiniteSet(ValidWays(set))
         /\ Cardinality(ValidWays(set)) \in Nat
         /\ Cardinality(ValidWays(set)) <= Ways
<1>1. ValidWays(set) \in SUBSET Way
  BY DEF ValidWays
<1>2. IsFiniteSet(ValidWays(set)) /\ Cardinality(ValidWays(set)) <= Ways
  BY <1>1, WaysFinite, FS_Subset
<1> QED
  BY <1>2, FS_CardinalityType

LEMMA RecencyType ==
  ASSUME NEW set \in [Way -> Line], NEW w \in ValidWays(set)
  PROVE  /\ IsFiniteSet(NotOlder(set, w))
         /\ Recency(set, w) = Cardinality(NotOlder(set, w))
         /\ Recency(set, w) \in 1..Cardinality(ValidWays(set))
         /\ Recency(set, w) \in Nat
<1>1. NotOlder(set, w) \in SUBSET ValidWays(set)
  BY DEF NotOlder
<1>2. /\ IsFiniteSet(NotOlder(set, w))
      /\ Cardinality(NotOlder(set, w)) <= Cardinality(ValidWays(set))
  BY <1>1, ValidWaysFinite, FS_Subset
<1>3. Cardinality(NotOlder(set, w)) \in Nat
  BY <1>2, FS_CardinalityType
<1>4. w \in NotOlder(set, w)
  BY DEF NotOlder, ValidWays, Line
<1>5. Cardinality(NotOlder(set, w)) # 0
  BY <1>2, <1>4, FS_EmptySet
<1>6. Recency(set, w) = Cardinality(NotOlder(set, w))
  BY DEF Recency, NotOlder
<1> QED
  BY <1>2, <1>3, <1>5, <1>6, ValidWaysFinite

(* A newer line comes first. *)
LEMMA NewerIsFirst ==
  ASSUME NEW set \in [Way -> Line],
         NEW v \in ValidWays(set), NEW w \in ValidWays(set),
         set[v].lruStamp > set[w].lruStamp
  PROVE  Recency(set, v) < Recency(set, w)
<1>0. /\ \A u \in ValidWays(set) : set[u].lruStamp \in Nat
      /\ v \in Way /\ w \in Way
  BY DEF ValidWays, Line
<1>1. NotOlder(set, v) \in SUBSET NotOlder(set, w)
  BY <1>0 DEF NotOlder
<1>2. w \in NotOlder(set, w) /\ w \notin NotOlder(set, v)
  BY <1>0 DEF NotOlder
<1>3. /\ Cardinality(NotOlder(set, v)) <= Cardinality(NotOlder(set, w))
      /\ Cardinality(NotOlder(set, v)) # Cardinality(NotOlder(set, w))
  BY <1>1, <1>2, RecencyType, FS_Subset
<1> QED
  BY <1>3, RecencyType

LEMMA RecencyInjective ==
  ASSUME NEW set \in [Way -> Line], DistinctStamps(set),
         NEW v \in ValidWays(set), NEW w \in ValidWays(set),
         Recency(set, v) = Recency(set, w)
  PROVE  v = w
<1>1. set[v].lruStamp \in Nat /\ set[w].lruStamp \in Nat
  BY DEF ValidWays, Line
<1>2. ~(set[v].lruStamp > set[w].lruStamp)
  BY NewerIsFirst, RecencyType
<1>3. ~(set[w].lruStamp > set[v].lruStamp)
  BY NewerIsFirst, RecencyType
<1> QED
  BY <1>1, <1>2, <1>3 DEF DistinctStamps

(* Every place of the list is some line's. *)
LEMMA RecencyOnto ==
  ASSUME NEW set \in [Way -> Line], DistinctStamps(set),
         NEW i \in 1..Cardinality(ValidWays(set))
  PROVE  \E w \in ValidWays(set) : Recency(set, w) = i
<1> DEFINE n == Cardinality(ValidWays(set))
           place == [w \in ValidWays(set) |-> Recency(set, w)]
<1>1. place \in [ValidWays(set) -> 1..n]
  BY RecencyType
<1>2. \A v, w \in ValidWays(set) : place[v] = place[w] => v = w
  BY RecencyInjective
<1>3. n \in Nat
  BY ValidWaysFinite
<1>4. IsFiniteSet(1..n) /\ Cardinality(1..n) = n
  BY <1>3, FS_Interval
<1>5. place \in Injection(ValidWays(set), 1..n)
  BY <1>1, <1>2 DEF Injection, IsInjective
<1> HIDE DEF place
<1>6. place \in Surjection(ValidWays(set), 1..n)
  BY <1>4, <1>5, FS_Injection
<1>7. \E w \in ValidWays(set) : place[w] = i
  BY <1>6 DEF Surjection
<1> QED
  BY <1>7 DEF place

(* The list at a line's place is the line's tag. *)
LEMMA RecencyListAt ==
  ASSUME NEW set \in [Way -> Line], DistinctStamps(set),
         NEW w \in ValidWays(set)
  PROVE  RecencyList(set)[Recency(set, w)] = set[w].tag
<1>1. Recency(set, w) \in 1..Cardinality(ValidWays(set))
  BY RecencyType
<1>2. (CHOOSE v \in ValidWays(set) : Recency(set, v) = Recency(set, w)) = w
  BY RecencyInjective
<1> QED
  BY <1>1, <1>2 DEF RecencyList

LEMMA RecencyListType ==
  ASSUME NEW set \in [Way -> Line], DistinctStamps(set)
  PROVE  /\ RecencyList(set) \in Seq(Nat)
         /\ Len(RecencyList(set)) = Cardinality(ValidWays(set))
<1> DEFINE n == Cardinality(ValidWays(set))
<1>1. n \in Nat
  BY ValidWaysFinite
<1>2. ASSUME NEW i \in 1..n
      PROVE  RecencyList(set)[i] \in Nat
  <2>1. PICK w \in ValidWays(set) : Recency(set, w) = i
    BY RecencyOnto
  <2>2. RecencyList(set)[i] = set[w].tag
    BY <2>1, RecencyListAt
  <2> QED
    BY <2>2 DEF ValidWays, Line
<1>3. RecencyList(set) = [i \in 1..n |-> RecencyList(set)[i]]
  BY DEF RecencyList
<1> HIDE DEF n
<1>4. RecencyList(set) \in [1..n -> Nat]
  BY <1>2, <1>3
<1> QED
  BY <1>1, <1>4 DEF n

(* Stamping a line as the newest of its set. *)
Stamped(set, k, tag, stamp) ==
  [set EXCEPT ![k] = [valid |-> TRUE, tag |-> tag, lruStamp |-> stamp]]

(* The place line k had, the one after the last if it held nothing. *)
PlaceOf(set, k) ==
  IF k \in ValidWays(set) THEN Recency(set, k)
                          ELSE Cardinality(ValidWays(set)) + 1

Newest(set, stamp) ==
  stamp \in Nat /\ \A w \in ValidWays(set) : set[w].lruStamp < stamp

LEMMA StampedWays ==
  ASSUME NEW set \in [Way -> Line], DistinctStamps(set),
         NEW k \in Way, NEW tag \in Nat, NEW stamp, Newest(set, stamp)
  PROVE  /\ Stamped(set, k, tag, stamp) \in [Way -> Line]
         /\ ValidWays(Stamped(set, k, tag, stamp)) = ValidWays(set) \cup {k}
         /\ DistinctStamps(Stamped(set, k, tag, stamp))
         /\ Cardinality(ValidWays(Stamped(set, k, tag, stamp)))
              = IF k \in ValidWays(set) THEN Cardinality(ValidWays(set))
                                        ELSE Cardinality(ValidWays(set)) + 1
<1> DEFINE after == Stamped(set, k, tag, stamp)
<1>1. /\ after \in [Way -> Line]
      /\ after[k] = [valid |-> TRUE, tag |-> tag, lruStamp |-> stamp]
      /\ \A w \in Way \ {k} : after[w] = set[w]
  BY DEF Stamped, Line, Newest
<1> HIDE DEF after
<1>2. ValidWays(after) = ValidWays(set) \cup {k}
  BY <1>1 DEF ValidWays
<1>3. \A w \in ValidWays(set) : w \in Way /\ set[w].lruStamp \in Nat
  BY DEF ValidWays, Line
<1>4. DistinctStamps(after)
  BY <1>1, <1>2, <1>3 DEF DistinctStamps, Newest
<1>5. Cardinality(ValidWays(after))
        = IF k \in ValidWays(set) THEN Cardinality(ValidWays(set))
                                  ELSE Cardinality(ValidWays(set)) + 1
  BY <1>2, ValidWaysFinite, FS_AddElement
<1> QED
  BY <1>1, <1>2, <1>4, <1>5 DEF after

(* The stamped line comes first; the lines that were before it move one    *)
(* place down, the others keep theirs.                                     *)
LEMMA StampedRecency ==
  ASSUME NEW set \in [Way -> Line], DistinctStamps(set),
         NEW k \in Way, NEW tag \in Nat, NEW stamp, Newest(set, stamp)
  PROVE  /\ Recency(Stamped(set, k, tag, stamp), k) = 1
         /\ \A w \in ValidWays(set) \ {k} :
              /\ Recency(set, w) # PlaceOf(set, k)
              /\ Recency(Stamped(set, k, tag, stamp), w)
                   = IF Recency(set, w) < PlaceOf(set, k)
                       THEN Recency(set, w) + 1 ELSE Recency(set, w)
<1> DEFINE after == Stamped(set, k, tag, stamp)
<1>1. /\ after \in [Way -> Line]
      /\ after[k] = [valid |-> TRUE, tag |-> tag, lruStamp |-> stamp]
      /\ \A w \in Way \ {k} : after[w] = set[w]
  BY DEF Stamped, Line, Newest
<1>2. ValidWays(after) = ValidWays(set) \cup {k}
  BY StampedWays
<1> HIDE DEF after
<1>3. \A w \in ValidWays(set) : w \in Way /\ set[w].lruStamp \in Nat
  BY DEF ValidWays, Line
<1>4. NotOlder(after, k) = {k}
  BY <1>1, <1>2, <1>3 DEF NotOlder, Newest
<1>5. Recency(after, k) = 1
  <2>1. Recency(after, k) = Cardinality(NotOlder(after, k))
    BY <1>1, <1>2, RecencyType
  <2> QED
    BY <1>4, <2>1, FS_Singleton
<1>6. ASSUME NEW w \in ValidWays(set), w # k
      PROVE  /\ Recency(set, w) # PlaceOf(set, k)
             /\ Recency(after, w) = IF Recency(set, w) < PlaceOf(set, k)
                                      THEN Recency(set, w) + 1
                                      ELSE Recency(set, w)
  <2>1. NotOlder(after, w) = NotOlder(set, w) \cup {k}
    BY <1>1, <1>2, <1>3, <1>6 DEF NotOlder, Newest
  <2>2. Recency(after, w) = IF k \in NotOlder(set, w)
                              THEN Recency(set, w) ELSE Recency(set, w) + 1
    <3>1. /\ IsFiniteSet(NotOlder(set, w))
          /\ Recency(set, w) = Cardinality(NotOlder(set, w))
          /\ Recency(after, w) = Cardinality(NotOlder(after, w))
      BY <1>1, <1>2, RecencyType
    <3> QED
      BY <2>1, <3>1, FS_AddElement
  <2>3. Recency(set, w) \in 1..Cardinality(ValidWays(set))
    BY RecencyType
  <2>4. CASE k \notin ValidWays(set)
    BY <2>2, <2>3, <2>4, ValidWaysFinite DEF PlaceOf, NotOlder
  <2>5. CASE k \in ValidWays(set)
    <3>1. PlaceOf(set, k) = Recency(set, k) /\ Recency(set, k) \in Nat
      BY <2>5, RecencyType DEF PlaceOf
    <3>2. Recency(set, w) # Recency(set, k)
      BY <1>6, <2>5, RecencyInjective
    <3>3. k \in NotOlder(set, w) <=> set[k].lruStamp >= set[w].lruStamp
      BY <2>5 DEF NotOlder
    <3>4. set[k].lruStamp # set[w].lruStamp
      BY <1>6, <2>5 DEF DistinctStamps
    <3>5. set[k].lruStamp \in Nat /\ set[w].lruStamp \in Nat
      BY <1>3, <2>5
    <3>6. CASE set[k].lruStamp > set[w].lruStamp
      BY <2>2, <2>3, <2>5, <3>1, <3>3, <3>5, <3>6, NewerIsFirst
    <3>7. CASE set[w].lruStamp > set[k].lruStamp
      BY <2>2, <2>3, <2>5, <3>1, <3>3, <3>5, <3>7, NewerIsFirst
    <3> QED
      BY <3>4, <3>5, <3>6, <3>7
  <2> QED
    BY <2>4, <2>5
<1> QED
  BY <1>5, <1>6 DEF after

(* What the stamp does to the list. *)
LEMMA StampedList ==
  ASSUME NEW set \in [Way -> Line], DistinctStamps(set),
         NEW k \in Way, NEW tag \in Nat, NEW stamp, Newest(set, stamp),
         NEW j \in 1..Cardinality(ValidWays(Stamped(set, k, tag, stamp)))
  PROVE  RecencyList(Stamped(set, k, tag, stamp))[j] =
           IF j = 1 THEN tag
           ELSE IF j <= PlaceOf(set, k) THEN RecencyList(set)[j - 1]
           ELSE RecencyList(set)[j]
<1> DEFINE after == Stamped(set, k, tag, stamp)
<1>1. /\ after \in [Way -> Line]
      /\ ValidWays(after) = ValidWays(set) \cup {k}
      /\ DistinctStamps(after)
  BY StampedWays
<1>2. /\ after[k].tag = tag
      /\ \A w \in Way \ {k} : after[w] = set[w]
  BY DEF Stamped
<1>3. /\ Recency(after, k) = 1
      /\ \A w \in ValidWays(set) \ {k} :
           /\ Recency(set, w) # PlaceOf(set, k)
           /\ Recency(after, w) = IF Recency(set, w) < PlaceOf(set, k)
                                    THEN Recency(set, w) + 1
                                    ELSE Recency(set, w)
  BY StampedRecency
<1> HIDE DEF after
<1>4. PICK w \in ValidWays(after) : Recency(after, w) = j
  BY <1>1, RecencyOnto DEF after
<1>5. RecencyList(after)[j] = after[w].tag
  BY <1>1, <1>4, RecencyListAt
<1>6. CASE w = k
  BY <1>2, <1>3, <1>4, <1>5, <1>6 DEF after
<1>7. CASE w # k
  <2>1. w \in ValidWays(set) /\ w \in Way
    BY <1>1, <1>7 DEF ValidWays
  <2>2. after[w].tag = set[w].tag
    BY <1>2, <1>7, <2>1
  <2>3. RecencyList(set)[Recency(set, w)] = set[w].tag
    BY <2>1, RecencyListAt
  <2>4. Recency(set, w) \in Nat \ {0}
    BY <2>1, RecencyType
  <2>5. PlaceOf(set, k) \in Nat
    BY RecencyType, ValidWaysFinite DEF PlaceOf
  <2>6. /\ Recency(set, w) # PlaceOf(set, k)
        /\ j = IF Recency(set, w) < PlaceOf(set, k)
                 THEN Recency(set, w) + 1 ELSE Recency(set, w)
    BY <1>3, <1>4, <1>7, <2>1
  <2>7. CASE Recency(set, w) < PlaceOf(set, k)
    <3>1. j # 1 /\ j <= PlaceOf(set, k) /\ j - 1 = Recency(set, w)
      BY <2>4, <2>5, <2>6, <2>7
    <3> QED
      BY <1>5, <2>2, <2>3, <3>1 DEF after
  <2>8. CASE ~(Recency(set, w) < PlaceOf(set, k))
    <3>1. j # 1 /\ ~(j <= PlaceOf(set, k)) /\ j = Recency(set, w)
      <4>1. j = Recency(set, w) /\ j > PlaceOf(set, k)
        BY <2>4, <2>5, <2>6, <2>8
      <4>2. PlaceOf(set, k) # 0
        BY RecencyType, ValidWaysFinite DEF PlaceOf
      <4> QED
        BY <2>4, <2>5, <4>1, <4>2
    <3> QED
      BY <1>5, <2>2, <2>3, <3>1 DEF after
  <2> QED
    BY <2>7, <2>8
<1> QED
  BY <1>6, <1>7

-----------------------------------------------------------------------------
(* The refinement of the list of tags.                                     *)

(* A sequence is the function of its entries. *)
LEMMA SequenceIsFunction ==
  ASSUME NEW q \in Seq(Nat)
  PROVE  q = [j \in 1..Len(q) |-> q[j]]
OBVIOUS

(* The sequence operators of the stack, entry by entry. *)
LEMMA ConcatenationEntries ==
  ASSUME NEW s \in Seq(Nat), NEW t \in Seq(Nat)
  PROVE  /\ s \o t \in Seq(Nat) /\ Len(s \o t) = Len(s) + Len(t)
         /\ \A j \in 1..(Len(s) + Len(t)) :
              (s \o t)[j] = IF j <= Len(s) THEN s[j] ELSE t[j - Len(s)]
OBVIOUS

LEMMA MoveToFrontEntries ==
  ASSUME NEW tags \in Seq(Nat), NEW i \in 1..Len(tags)
  PROVE  Stack!MoveToFront(tags, i) =
           [j \in 1..Len(tags) |->
              IF j = 1 THEN tags[i]
              ELSE IF j <= i THEN tags[j - 1] ELSE tags[j]]
<1> DEFINE above == SubSeq(tags, 1, i - 1)
           below == SubSeq(tags, i + 1, Len(tags))
           upper == <<tags[i]>> \o above
<1>1. /\ above \in Seq(Nat) /\ Len(above) = i - 1
      /\ \A j \in 1..(i - 1) : above[j] = tags[j]
  OBVIOUS
<1>2. /\ below \in Seq(Nat) /\ Len(below) = Len(tags) - i
      /\ \A j \in 1..(Len(tags) - i) : below[j] = tags[j + i]
  OBVIOUS
<1>3. tags[i] \in Nat /\ Len(tags) \in Nat
  OBVIOUS
<1> HIDE DEF above, below
<1>4. /\ upper \in Seq(Nat) /\ Len(upper) = i
      /\ \A j \in 1..i : upper[j] = IF j = 1 THEN tags[i] ELSE tags[j - 1]
  BY <1>1, <1>3
<1>5. Stack!MoveToFront(tags, i) = upper \o below
  BY DEF Stack!MoveToFront, above, below
<1> HIDE DEF upper
<1>6. upper \o below =
        [j \in 1..Len(tags) |-> IF j <= i THEN upper[j] ELSE below[j - i]]
  <2> DEFINE moved == upper \o below
  <2>1. /\ moved \in Seq(Nat) /\ Len(moved) = Len(tags)
        /\ \A j \in 1..Len(tags) :
             moved[j] = IF j <= i THEN upper[j] ELSE below[j - i]
    <3>1. /\ moved \in Seq(Nat) /\ Len(moved) = Len(upper) + Len(below)
          /\ \A j \in 1..(Len(upper) + Len(below)) :
               moved[j] = IF j <= Len(upper) THEN upper[j] ELSE below[j - Len(upper)]
      BY <1>2, <1>4, ConcatenationEntries, Zenon
    <3> HIDE DEF moved
    <3> QED
      BY <1>2, <1>3, <1>4, <3>1
  <2> HIDE DEF moved
  <2>2. moved = [j \in 1..Len(tags) |-> moved[j]]
    BY <2>1, SequenceIsFunction
  <2>3. moved = [j \in 1..Len(tags) |->
                   IF j <= i THEN upper[j] ELSE below[j - i]]
    BY <2>1, <2>2
  <2> QED
    BY <2>3 DEF moved
<1>7. \A j \in 1..Len(tags) :
        (IF j <= i THEN upper[j] ELSE below[j - i])
          = IF j = 1 THEN tags[i]
            ELSE IF j <= i THEN tags[j - 1] ELSE tags[j]
  BY <1>2, <1>3, <1>4
<1> QED
  BY <1>5, <1>6, <1>7

LEMMA PushEntries ==
  ASSUME NEW tags \in Seq(Nat), NEW tag \in Nat, Len(tags) <= Ways
  PROVE  Stack!Push(tags, tag) =
           [j \in 1..(IF Len(tags) < Ways THEN Len(tags) + 1 ELSE Ways) |->
              IF j = 1 THEN tag ELSE tags[j - 1]]
<1>1. Ways \in Nat \ {0}
  BY WaysFinite
<1>2. CASE Len(tags) < Ways
  BY <1>1, <1>2 DEF Stack!Push
<1>3. CASE ~(Len(tags) < Ways)
  <2> DEFINE kept == SubSeq(tags, 1, Ways - 1)
  <2>1. /\ kept \in Seq(Nat) /\ Len(kept) = Ways - 1
        /\ \A j \in 1..(Ways - 1) : kept[j] = tags[j]
    BY <1>1, <1>3
  <2>2. Stack!Push(tags, tag) = <<tag>> \o kept
    BY <1>3 DEF Stack!Push
  <2> HIDE DEF kept
  <2> QED
    BY <1>1, <1>3, <2>1, <2>2
<1> QED
  BY <1>2, <1>3

(* Stamping the line of a tag that is in the set moves it to the front. *)
LEMMA StampedIsMoved ==
  ASSUME NEW set \in [Way -> Line], DistinctStamps(set),
         NEW k \in ValidWays(set), NEW stamp, Newest(set, stamp)
  PROVE  RecencyList(Stamped(set, k, set[k].tag, stamp))
           = Stack!MoveToFront(RecencyList(set), Recency(set, k))
<1> DEFINE n == Cardinality(ValidWays(set))
           list == RecencyList(set)
           after == Stamped(set, k, set[k].tag, stamp)
<1>1. k \in Way /\ set[k].tag \in Nat
  BY DEF ValidWays, Line
<1>2. list \in Seq(Nat) /\ Len(list) = n /\ n \in Nat
  BY RecencyListType, ValidWaysFinite
<1>3. /\ Recency(set, k) \in 1..n
      /\ list[Recency(set, k)] = set[k].tag
      /\ PlaceOf(set, k) = Recency(set, k)
  BY RecencyType, RecencyListAt DEF PlaceOf
<1>4. Cardinality(ValidWays(after)) = n
  BY <1>1, StampedWays
<1>5. \A j \in 1..n :
        RecencyList(after)[j] =
          IF j = 1 THEN list[Recency(set, k)]
          ELSE IF j <= Recency(set, k) THEN list[j - 1] ELSE list[j]
  BY <1>1, <1>3, <1>4, StampedList
<1>6. RecencyList(after) = [j \in 1..n |-> RecencyList(after)[j]]
  BY <1>4 DEF RecencyList
<1> HIDE DEF n, list, after
<1>7. Stack!MoveToFront(list, Recency(set, k)) =
        [j \in 1..n |->
           IF j = 1 THEN list[Recency(set, k)]
           ELSE IF j <= Recency(set, k) THEN list[j - 1] ELSE list[j]]
  BY <1>2, <1>3, MoveToFrontEntries
<1>8. RecencyList(after) = Stack!MoveToFront(list, Recency(set, k))
  BY <1>5, <1>6, <1>7
<1> QED
  BY <1>8 DEF list, after

(* Stamping an empty line, or the oldest of a full set, pushes its tag. *)
LEMMA StampedIsPushed ==
  ASSUME NEW set \in [Way -> Line], DistinctStamps(set),
         NEW k \in Way, NEW tag \in Nat, NEW stamp, Newest(set, stamp),
         k \in InvalidWays(set)
           \/ (InvalidWays(set) = {} /\ k \in OldestWays(set))
  PROVE  RecencyList(Stamped(set, k, tag, stamp))
           = Stack!Push(RecencyList(set), tag)
<1> DEFINE n == Cardinality(ValidWays(set))
           list == RecencyList(set)
           after == Stamped(set, k, tag, stamp)
           m == IF n < Ways THEN n + 1 ELSE Ways
<1>1. list \in Seq(Nat) /\ Len(list) = n /\ n \in Nat /\ n <= Ways
  BY RecencyListType, ValidWaysFinite
<1>2. Cardinality(ValidWays(after)) = m /\ m <= PlaceOf(set, k)
  <2>1. CASE k \in InvalidWays(set)
    <3>1. k \notin ValidWays(set)
      BY <2>1 DEF InvalidWays, ValidWays
    <3>2. n # Ways
      <4>1. ValidWays(set) \in SUBSET Way
        BY DEF ValidWays
      <4> QED
        BY <3>1, <4>1, WaysFinite, FS_Subset
    <3> QED
      BY <1>1, <3>1, <3>2, StampedWays, WaysFinite DEF PlaceOf
  <2>2. CASE InvalidWays(set) = {} /\ k \in OldestWays(set)
    <3>1. ValidWays(set) = Way
      BY <2>2 DEF InvalidWays, ValidWays
    <3>2. NotOlder(set, k) = Way
      <4>1. \A w \in Way : set[w].lruStamp >= set[k].lruStamp
        BY <2>2 DEF OldestWays, Line
      <4> QED
        BY <3>1, <4>1 DEF NotOlder
    <3>3. Recency(set, k) = Ways
      BY <3>1, <3>2, RecencyType, WaysFinite
    <3> QED
      BY <3>1, <3>3, StampedWays, WaysFinite DEF PlaceOf
  <2> QED
    BY <2>1, <2>2
<1>3. \A j \in 1..m :
        RecencyList(after)[j] = IF j = 1 THEN tag ELSE list[j - 1]
  <2>1. m \in Nat /\ PlaceOf(set, k) \in Nat
    BY <1>1, RecencyType, WaysFinite DEF PlaceOf
  <2> HIDE DEF m
  <2> QED
    BY <1>2, <2>1, StampedList
<1>4. RecencyList(after) = [j \in 1..m |-> RecencyList(after)[j]]
  BY <1>2 DEF RecencyList
<1> HIDE DEF list, after, n
<1>5. Stack!Push(list, tag) =
        [j \in 1..m |-> IF j = 1 THEN tag ELSE list[j - 1]]
  BY <1>1, PushEntries
<1> HIDE DEF m
<1>6. RecencyList(after) = Stack!Push(list, tag)
  BY <1>3, <1>4, <1>5
<1> QED
  BY <1>6 DEF list, after

(* The stamps of a set number accesses, none of them later than the last.  *)
LEMMA StampsAreDistinct ==
  ASSUME LruInvariant, NEW s \in SetIndex
  PROVE  /\ DistinctStamps(cache.sets[s])
         /\ Newest(cache.sets[s], cache.globalLRUCounter + 1)
<1> DEFINE set == cache.sets[s]
<1>1. ASSUME NEW w \in ValidWays(set)
      PROVE  \E b \in Blocks : /\ b % IndexSpan = s
                               /\ b \div IndexSpan = set[w].tag
                               /\ set[w].lruStamp = lastUse[b]
                               /\ set[w].lruStamp > 0
  BY DEF ValidWays, LruInvariant, StampIsLastUse
<1>2. ASSUME NEW v \in ValidWays(set), NEW w \in ValidWays(set),
             set[v].lruStamp = set[w].lruStamp
      PROVE  v = w
  <2>1. PICK a \in Blocks : /\ a \div IndexSpan = set[v].tag
                            /\ set[v].lruStamp = lastUse[a]
                            /\ set[v].lruStamp > 0
    BY <1>1
  <2>2. PICK b \in Blocks : /\ b \div IndexSpan = set[w].tag
                            /\ set[w].lruStamp = lastUse[b]
    BY <1>1
  <2>3. a = b
    BY <1>2, <2>1, <2>2 DEF LruInvariant, UsesNumbered
  <2> QED
    BY <2>1, <2>2, <2>3 DEF ValidWays, LruInvariant, NoDuplicateLines
<1>3. cache.globalLRUCounter \in Nat
  BY DEF LruInvariant, TypeOK, CacheType
<1>4. \A w \in ValidWays(set) : set[w].lruStamp < cache.globalLRUCounter + 1
  BY <1>1, <1>3 DEF LruInvariant, TypeOK, UsesNumbered
<1> QED
  BY <1>2, <1>3, <1>4 DEF DistinctStamps, Newest

(* One access is one use of the stack: a hit moves the tag to the front, a *)
(* miss pushes it.                                                         *)
LEMMA AccessIsUse ==
  ASSUME LruInvariant, NEW address \in Addresses, DoAccess(address)
  PROVE  /\ IndexOf(address) \in 0..(IndexSpan - 1)
         /\ TagOf(address) \in {b \div IndexSpan : b \in Blocks}
         /\ Stack!Use(IndexOf(address), TagOf(address))
<1> DEFINE i == IndexOf(address)
           tag == TagOf(address)
           k == ChosenWay(cache, address)
           set == cache.sets[i]
           stamp == cache.globalLRUCounter + 1
           stack == [s \in 0..(IndexSpan - 1) |-> RecencyList(cache.sets[s])]
<1>1. TypeOK /\ AccessEffect(address)
  BY StepFacts DEF LruInvariant
<1>2. i \in 0..(IndexSpan - 1) /\ 0..(IndexSpan - 1) \subseteq SetIndex
  <2>1. IndexSpan \in Nat \ {0} /\ IndexSpan <= NumSets /\ NumSets \in Nat
    BY GeometryAssumption, SpanAssumption
  <2>2. Block(address) \in Nat
    BY <1>1 DEF AccessEffect
  <2> HIDE DEF IndexSpan, NumSets
  <2> QED
    BY <2>1, <2>2 DEF IndexOf, SetIndex
<1>3. tag \in {b \div IndexSpan : b \in Blocks}
  BY <1>1 DEF AccessEffect, TagOf
<1>4. /\ set \in [Way -> Line] /\ k \in Way /\ tag \in Nat
      /\ DistinctStamps(set) /\ Newest(set, stamp)
  BY <1>1, StampsAreDistinct DEF AccessEffect, TypeOK, CacheType
<1>5. cache'.sets[i] = Stamped(set, k, tag, stamp)
  <2>1. cache'.sets[i] \in [Way -> Line]
    BY <1>1 DEF AccessEffect, CacheType
  <2>2. \A w \in Way : cache'.sets[i][w] = Stamped(set, k, tag, stamp)[w]
    BY <1>1, <1>4 DEF AccessEffect, Stamped
  <2>3. Stamped(set, k, tag, stamp) \in [Way -> Line]
    BY <1>4, StampedWays
  <2> HIDE DEF set, k, tag, stamp
  <2> QED
    BY <2>1, <2>2, <2>3
<1>6. \A s \in 0..(IndexSpan - 1) : s # i => cache'.sets[s] = cache.sets[s]
  BY <1>2, <1>1 DEF DoAccess, Access, TypeOK, CacheType
<1>7. stack' = [stack EXCEPT ![i] =
                  RecencyList(Stamped(set, k, tag, stamp))]
  <2>1. \A s \in 0..(IndexSpan - 1) :
          RecencyList(cache'.sets[s]) =
            IF s = i THEN RecencyList(Stamped(set, k, tag, stamp))
                     ELSE RecencyList(cache.sets[s])
    BY <1>5, <1>6
  <2> HIDE DEF set, k, tag, stamp
  <2> QED
    BY <1>2, <2>1
<1>8. stack[i] = RecencyList(set)
  BY <1>2
<1>9. /\ RecencyList(set) \in Seq(Nat)
      /\ DOMAIN RecencyList(set) = 1..Cardinality(ValidWays(set))
  BY <1>4, RecencyListType
<1>10. CASE IsHit(cache, address)
  <2>1. k \in ValidWays(set) /\ set[k].tag = tag
    BY <1>1, <1>10, ChosenWayIn DEF AccessEffect, TypeOK, HitWays, ValidWays
  <2>2. /\ Recency(set, k) \in DOMAIN RecencyList(set)
        /\ RecencyList(set)[Recency(set, k)] = tag
    BY <1>4, <1>9, <2>1, RecencyType, RecencyListAt
  <2>3. RecencyList(Stamped(set, k, tag, stamp))
          = Stack!MoveToFront(RecencyList(set), Recency(set, k))
    BY <1>4, <2>1, StampedIsMoved
  <2>4. cache'.hits = cache.hits + 1 /\ cache'.misses = cache.misses
    BY <1>10 DEF DoAccess, Access
  <2> HIDE DEF i, tag, k, set, stamp
  <2>5. /\ Recency(set, k) \in DOMAIN stack[i]
        /\ stack[i][Recency(set, k)] = tag
        /\ stack' = [stack EXCEPT ![i] =
                       Stack!MoveToFront(@, Recency(set, k))]
    BY <1>7, <1>8, <2>2, <2>3
  <2> HIDE DEF stack
  <2>6. \E p \in DOMAIN stack[i] :
          /\ stack[i][p] = tag
          /\ stack' = [stack EXCEPT ![i] = Stack!MoveToFront(@, p)]
          /\ cache'.hits = cache.hits + 1
          /\ cache'.misses = cache.misses
    BY <2>4, <2>5
  <2>7. Stack!Use(i, tag)
    BY <2>6 DEF Stack!Use, stack
  <2> QED
    BY <1>2, <1>3, <2>7 DEF i, tag
<1>11. CASE ~IsHit(cache, address)
  <2>1. k \in InvalidWays(set)
          \/ (InvalidWays(set) = {} /\ k \in OldestWays(set))
    BY <1>1, <1>11, ChosenWayIn DEF AccessEffect, TypeOK
  <2>2. RecencyList(Stamped(set, k, tag, stamp))
          = Stack!Push(RecencyList(set), tag)
    BY <1>4, <2>1, StampedIsPushed
  <2>3. cache'.hits = cache.hits /\ cache'.misses = cache.misses + 1
    BY <1>11 DEF DoAccess, Access
  <2>4. ~Stack!InStack(RecencyList(set), tag)
    <3>1. SUFFICES ASSUME NEW p \in 1..Cardinality(ValidWays(set)),
                          RecencyList(set)[p] = tag
                   PROVE  FALSE
      BY <1>9 DEF Stack!InStack
    <3>2. PICK w \in ValidWays(set) : Recency(set, w) = p
      BY <1>4, RecencyOnto
    <3>3. set[w].tag = tag
      BY <1>4, <3>1, <3>2, RecencyListAt
    <3>4. w \in HitWays(set, tag)
      BY <3>3 DEF HitWays, ValidWays
    <3> QED
      BY <1>11, <3>4 DEF IsHit
  <2> HIDE DEF i, tag, k, set, stamp
  <2>5. /\ ~Stack!InStack(stack[i], tag)
        /\ stack' = [stack EXCEPT ![i] = Stack!Push(@, tag)]
    BY <1>7, <1>8, <2>2, <2>4
  <2> HIDE DEF stack
  <2>6. Stack!Use(i, tag)
    BY <2>3, <2>5 DEF Stack!Use, stack
  <2> QED
    BY <1>2, <1>3, <2>6 DEF i, tag
<1> QED
  BY <1>10, <1>11

(* The stamped table implements the list of tags, for every geometry: the  *)
(* stamps, the scans and the victim choice of access() are move-to-front   *)
(* on a list of at most Ways tags per set, with the same hits and misses.  *)
THEOREM CacheImplementsStack == Spec => StackSpec
<1>1. Init => Stack!Init
  <2> SUFFICES ASSUME Init
               PROVE  Stack!Init
    OBVIOUS
  <2>1. cache = EmptyCache
    BY DEF Init
  <2>2. 0..(IndexSpan - 1) \subseteq SetIndex
    <3>1. IndexSpan \in Nat \ {0} /\ IndexSpan <= NumSets /\ NumSets \in Nat
      BY GeometryAssumption, SpanAssumption
    <3> HIDE DEF IndexSpan, NumSets
    <3> QED
      BY <3>1 DEF SetIndex
  <2>3. ASSUME NEW s \in 0..(IndexSpan - 1)
        PROVE  RecencyList(cache.sets[s]) = << >>
    <3>1. ValidWays(cache.sets[s]) = {}
      BY <2>1, <2>2 DEF EmptyCache, ValidWays
    <3>2. Cardinality(ValidWays(cache.sets[s])) = 0
      BY <3>1, FS_EmptySet
    <3> QED
      BY <3>2 DEF RecencyList
  <2> QED
    BY <2>1, <2>3 DEF Stack!Init, EmptyCache
<1>2. LruInvariant /\ [Next]_vars => [Stack!Next]_(Stack!stackVars)
  <2> SUFFICES ASSUME LruInvariant, [Next]_vars
               PROVE  [Stack!Next]_(Stack!stackVars)
    OBVIOUS
  <2>1. CASE Next
    <3>1. PICK address \in Addresses : DoAccess(address)
      BY <2>1 DEF Next
    <3> QED
      BY <3>1, AccessIsUse DEF Stack!Next
  <2>2. CASE UNCHANGED vars
    BY <2>2 DEF vars, Stack!stackVars
  <2> QED
    BY <2>1, <2>2
<1> QED
  BY <1>1, <1>2, LruInvariantHolds, PTL DEF Spec, StackSpec, Stack!Spec

=============================================================================
