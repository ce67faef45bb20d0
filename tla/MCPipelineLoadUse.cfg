CONSTANTS
  NumRegs = 4
  ValueSpan = 128
  Handler = 64
  DataAddresses <- MCDataAddresses
  ICacheSize = 16
  IBlockSize = 8
  IWays = 2
  DCacheSize = 8
  DBlockSize = 8
  DWays = 1
  InitialMemory <- MCMemory
  SkipBound = 5
  MaxCycles = 64
  Programs <- AllPrograms
  Latencies <- TwoCycles
SPECIFICATION StatsSpec
INVARIANT LoadUseCountedOnce
