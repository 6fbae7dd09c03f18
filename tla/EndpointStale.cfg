\* A base station whose sequence numbers wrap around.
SPECIFICATION Spec
CONSTANTS
  Role = "BASE_STATION"
  SeqMod = 4
  Packets = {p1, p2}
  Peers = {rover}
  BasePeers = {}
  Heard = {0}
  RELIABILITY_MAX_RETRIES = 2
  RELIABILITY_BASE_TIMEOUT = 1
  RELIABILITY_CHECK_INTERVAL = 1
  NAK_DEBOUNCE_TIME = 1
  CLEANUP_INTERVAL = 2
  SEQUENCE_RETAIN_TIME = 0
  WINDOW_SIZE = 0
  MAX_NAKS_PER_CHECK = 1
  PacketsPerCheck = 1
  MaxTracked = 4
  NoEntry = NoEntry
INVARIANTS
  HoldsWhatWasSent
