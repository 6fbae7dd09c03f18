\* One message over a network that loses and reorders, under fairness.
SPECIFICATION FairSpec
CONSTANTS
  SeqMod = 4
  RELIABILITY_MAX_RETRIES = 1
  RELIABILITY_BASE_TIMEOUT = 1
  RELIABILITY_CHECK_INTERVAL = 1
  NAK_DEBOUNCE_TIME = 1
  CLEANUP_INTERVAL = 1
  SEQUENCE_RETAIN_TIME = 0
  WINDOW_SIZE = 2
  MAX_NAKS_PER_CHECK = 1
  PacketsPerCheck = 5
  NoEntry = NoEntry
  MaxMessages = 1
  MaxCommands = 0
  Capacity = 2
  Lossy = TRUE
  Reorders = TRUE
  Prompt = FALSE
  Survives = FALSE
PROPERTIES
  EveryMessageSettles
CHECK_DEADLOCK FALSE
