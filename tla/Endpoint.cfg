\* A rover that sends, a rover that receives, and a base station.
SPECIFICATION InstanceSpec
CONSTANTS
  Role = "ROVER"
  SeqMod = 2
  base = base
  other = other
  packet = packet
  Packets = {packet}
  Peers = {base, other}
  BasePeers = {base}
  Heard = {0}
  RELIABILITY_MAX_RETRIES = 2
  RELIABILITY_BASE_TIMEOUT = 2
  RELIABILITY_CHECK_INTERVAL = 1
  NAK_DEBOUNCE_TIME = 1
  CLEANUP_INTERVAL = 1
  SEQUENCE_RETAIN_TIME = 0
  WINDOW_SIZE = 0
  MAX_NAKS_PER_CHECK = 1
  PacketsPerCheck = 1
  MaxTracked = 2
  NoEntry = NoEntry
VIEW WithoutOut
INVARIANTS
  EndpointTypeOK
  DetectionDeadline
  DuplicateMemoryBounded
PROPERTIES
  NoHastyGiveUp
  NeverSilentlyDropped
  
  
