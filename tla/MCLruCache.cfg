CONSTANTS
  CacheSize = 72
  BlockSize = 8
  Ways = 3
  Addresses <- MCAddresses
  MaxAccesses = 7
SPECIFICATION Spec
INVARIANTS
  TypeOK
  EvictedAreOldest
  LruInvariant
PROPERTIES
  ReuseDistance
  StackSpec
CHECK_DEADLOCK FALSE
