\* Two messages over a network that loses and reorders, to the loss of the base; and
\* commands that are asked for again, with losses and a reset of the rover.
SPECIFICATION LinksSpec
CONSTANTS
  SeqMod = 4
  RELIABILITY_MAX_RETRIES = 1
  RELIABILITY_BASE_TIMEOUT = 1
  RELIABILITY_CHECK_INTERVAL = 1
  NAK_DEBOUNCE_TIME = 1
  CLEANUP_INTERVAL = 1
  SEQUENCE_RETAIN_TIME = 0
  WINDOW_SIZE = 2
  MAX_NAKS_PER_CHECK = 1
  PacketsPerCheck = 5
  NoEntry = NoEntry
  MaxMessages = 2
  MaxCommands = 0
  Capacity = 2
  Lossy = TRUE
  Reorders = TRUE
  Prompt = FALSE
  Survives = FALSE
VIEW LinksView
PROPERTIES
  ImplementsDelivery
  
CHECK_DEADLOCK FALSE
