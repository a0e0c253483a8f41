SPECIFICATION MCConsoleSpec
CONSTANTS
  CONSBUFSIZE = 3
  serial_exists = TRUE
  MaxSent = 3
  Keys = {"LShift", "RShift", "LCtrl", "RCtrl", "RAlt", "CapsLock", "A", "Delete", "Pause"}
  MaxWait = 1
  MaxHeld = 3
  BUFLEN = 4
  MaxPrompt = 2
  Inputs = {"a", "KEY_UP", "0x88", "0x8A", "ESC", "BS", "DEL", "NL", "CR"}
  Lines <- MCLines
  commands <- MCCommands
  MAXARGS = 3
  Pictures = {"black", "a"}
  Black = "black"
  Capacity = 3
  Flips = 1
  MaxIds = 4
  Width = 24
  Height = 14
  paddle_width = 3
  paddle_height = 4
  paddle_padding = 2
  ball_size = 3
  player_paddle_speed = 2
  ai_paddle_speed = 1
  MaxVy = 1
  Segment = 2
  max_score = 1
  MaxSpeed = 6
INVARIANTS
  TerminalShowsLine
  ArgsWhole
  BackedByItself
  DisplayShows
  PongSound
PROPERTIES
  RingSound
  ImplementsQueue
  CharsReachCaller
  KeyboardSound
CHECK_DEADLOCK FALSE
