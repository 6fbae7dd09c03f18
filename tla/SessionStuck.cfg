\* A rover whose handshake runs out of retries.
SPECIFICATION Spec
CONSTANTS
  Rovers = {r1}
  Endpoints = {e1}
  Payloads = {p1}
  NoRover = NoRover
  NoEndpoint = NoEndpoint
  Lossy = FALSE
  Stopping = {"base", "rover"}
  Orders = {}
  StatusReports = {p1}
  TelemetryReports = {p1}
  HighPriority = {}
  MAX_HANDSHAKE_RETRIES = 1
  MaxStored = 0
INVARIANTS
  SessionlessRoverKeepsTrying
