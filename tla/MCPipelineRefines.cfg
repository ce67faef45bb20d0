CONSTANTS
  NumRegs = 4
  ValueSpan = 128
  Handler = 64
  DataAddresses <- MCDataAddresses
  ICacheSize = 32
  IBlockSize = 16
  IWays = 1
  DCacheSize = 8
  DBlockSize = 8
  DWays = 1
  InitialMemory <- MCMemory
  SkipBound = 5
  MaxCycles = 64
  Programs <- SupportedPrograms
  Latencies <- OddStalls
SPECIFICATION Spec
INVARIANTS OperandsCurrent StoreDataCurrent
PROPERTY ISASpec
