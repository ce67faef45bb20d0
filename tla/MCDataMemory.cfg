CONSTANTS
  MemorySize = 16
  StartAddr = 0
  AddressSpan = 32
  ByteSpan = 4
  Images <- MCImages
  Binaries <- MCBinaries
  Addresses <- MCAddresses
  Values <- MCValues
  MaxAccesses = 2
SPECIFICATION FairSpec
INVARIANTS TypeOK LoadsTheNumber
PROPERTIES AtomicSpec TornOnlyPastEnd Constructed
