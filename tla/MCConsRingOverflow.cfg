SPECIFICATION Spec
CONSTANTS
  CONSBUFSIZE = 3
  serial_exists = TRUE
  MaxSent = 4
PROPERTIES
  ZeroIfNoneWaiting
