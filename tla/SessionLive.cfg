\* One rover over a fair-lossy network: probing ends.
SPECIFICATION FairSpec
CONSTANTS
  Rovers = {r1}
  Endpoints = {e1}
  Payloads = {p1}
  NoRover = NoRover
  NoEndpoint = NoEndpoint
  Lossy = TRUE
  Stopping = {"base"}
  Orders = {}
  StatusReports = {p1}
  TelemetryReports = {p1}
  HighPriority = {}
  MAX_HANDSHAKE_RETRIES = 0
  MaxStored = 0
PROPERTIES
  ProbingEnds
