SPECIFICATION MCServicesSpec
CONSTANTS
  NENV = 4
  Period = 2
  None = None
  Callers = {c1, c2}
  NUnits = 4
  HeaderSize = 2
  ByteValues = 5
  Requests = {0, 3, 7}
  Calls <- MCCalls
  UINT = 256
  ULONG = 4096
  error_string = {1, 2, 3}
  Bytes = 32
  Sets <- MCSets
  Moves <- MCMoves
  Strings <- MCStrings
  Numbers <- MCNumbers
  LineUnits <- MCLineUnits
  Wanted = {0, 1, 2, 3, 4, 5, 6, 7, 8}
  Garbage <- MCGarbage
  opcode_base = 13
  line_base <- MinusOne
  line_range = 3
  LastOpcode = 19
  GROUP = 4
  INT = 64
  Programs <- MCPrograms
  Questions <- MCQuestions
  CALL = 5
INVARIANTS
  LineOfRow
CHECK_DEADLOCK FALSE
