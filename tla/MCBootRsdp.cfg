SPECIFICATION MCBootSpec
CONSTANTS
  Images <- MCImages
  Tables <- MCTables
  MaxFailures = 2
  Boards <- MCBoards
  Base = 3
  Slack = 1
  Grow = 1
  VIRT_ADDR_START = 1
  HUGE_PAGE_SIZE = 2
  PD_ENTRIES = 2
  PDP_ENTRIES = 4
  Spare = 2
  Identity <- MCIdentity
  Registers <- MCRegisters
  Windows <- MCWindows
  Buffers <- MCBuffers
  TickCycles = 1
  ByteTicks = 8
  ByteValues = 6
  MinCount = 2
  MaxCount = 7
  Precision = 4
  MaxIterations = 3
  TIMES = 2
  Delays = {1, 2, 6, 12}
  Scheduled = {"rtc", "hpet0", "hpet1", "pit"}
  UINT64_MAX = 1023
  UINT32_MAX = 127
  UINT24_MAX = 31
  Freq = 30
  Cycles = 2
  Advances = {0, 1, 2, 4}
  Early = {0, 1, 2, 9}
  Buses <- MCBuses
  NDev = 2
  NFunc = 2
  Machines <- MCMachines
  CapLists <- MCCapLists
  BarAddr = 100
  NotifyAt = 7
  QueueOff = 3
INVARIANTS
  RsdpIsRoot
CHECK_DEADLOCK FALSE
