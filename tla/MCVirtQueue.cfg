SPECIFICATION MCVirtQueueSpec
CONSTANTS
  QSize = 4
  IdxMod = 8
  Commands = {transfer, flush}
  Frames = {f1, f2}
  None = None
  MaxFree = 12
  SerialIsr = FALSE
  ConfigEvents = TRUE
INVARIANTS
  DescriptorsIntact
  RequestsAnswered
  RecyclingSound
  SerialLosesNone
PROPERTIES
  CommandsEndUnlessLost
CHECK_DEADLOCK FALSE
