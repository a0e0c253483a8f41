SPECIFICATION Spec
CONSTANTS
  MaxClass = 4
  PoolClass = 1
  ConstClass = 1
  ClassSize <- MCClassSize
  InitDescr = 20
  PoolEntries = 10
  BootMemSize = 40
  KernelStart = 8
  KernelEnd = 15
  ConstPages <- MCConstPages
  MemoryMaps <- FlatMaps
INVARIANTS
  ReservedStaysReserved
CHECK_DEADLOCK FALSE
