\* A rover that loses its base station, resets its numbers and goes on.
SPECIFICATION Spec
CONSTANTS
  SeqMod = 4
  RELIABILITY_MAX_RETRIES = 1
  RELIABILITY_BASE_TIMEOUT = 1
  RELIABILITY_CHECK_INTERVAL = 1
  NAK_DEBOUNCE_TIME = 1
  CLEANUP_INTERVAL = 1
  SEQUENCE_RETAIN_TIME = 0
  WINDOW_SIZE = 2
  MAX_NAKS_PER_CHECK = 1
  PacketsPerCheck = 5
  NoEntry = NoEntry
  MaxMessages = 4
  MaxCommands = 0
  Capacity = 1
  Lossy = TRUE
  Reorders = FALSE
  Prompt = TRUE
  Survives = TRUE
VIEW WithoutHistories
INVARIANTS
  ConfirmedArrived
CHECK_DEADLOCK FALSE
