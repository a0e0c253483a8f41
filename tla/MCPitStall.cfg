SPECIFICATION PitSpec
CONSTANTS
  TickCycles = 1
  ByteTicks = 8
  ByteValues = 6
  MinCount = 2
  MaxCount = 7
  Precision = 4
  MaxIterations = 4
  TIMES = 3
  Delays = {1, 2, 6, 12}
INVARIANTS
  WithinError
CHECK_DEADLOCK FALSE
