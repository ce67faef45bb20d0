CONSTANTS
  NumRegs = 4
  ValueSpan = 128
  Handler = 64
  DataAddresses <- MCDataAddresses
  Programs <- MCPrograms
  InitialMemory <- MCMemory
  Counts <- MCCounts
  SkipBound = 5
  DCacheSize = 8
  DBlockSize = 8
  DWays = 1
SPECIFICATION FairHSpec
INVARIANT TypeOK
PROPERTIES ExecutesIsa SuccessMeansAll Ends
