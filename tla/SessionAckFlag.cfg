\* The base station's two copies of "the session is active".
SPECIFICATION Spec
CONSTANTS
  Rovers = {r1, r2}
  Endpoints = {e1, e2}
  Payloads = {p1}
  NoRover = NoRover
  NoEndpoint = NoEndpoint
  Lossy = FALSE
  Stopping = {"rover"}
  Orders = {}
  StatusReports = {p1}
  TelemetryReports = {p1}
  HighPriority = {}
  MAX_HANDSHAKE_RETRIES = 0
  MaxStored = 0
SYMMETRY RoverSymmetry
INVARIANTS
  AckFlagWheneverActive
