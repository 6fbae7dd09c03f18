\* Four commands over a perfect network, and a pause longer than the retention.
SPECIFICATION Spec
CONSTANTS
  SeqMod = 8
  RELIABILITY_MAX_RETRIES = 1
  RELIABILITY_BASE_TIMEOUT = 1
  RELIABILITY_CHECK_INTERVAL = 1
  NAK_DEBOUNCE_TIME = 1
  CLEANUP_INTERVAL = 2
  SEQUENCE_RETAIN_TIME = 3
  WINDOW_SIZE = 3
  MAX_NAKS_PER_CHECK = 1
  PacketsPerCheck = 2
  NoEntry = NoEntry
  MaxMessages = 0
  MaxCommands = 4
  Capacity = 2
  Lossy = FALSE
  Reorders = FALSE
  Prompt = TRUE
  Survives = FALSE
VIEW WithoutHistories
INVARIANTS
  ExecutedInOrder
CHECK_DEADLOCK FALSE
