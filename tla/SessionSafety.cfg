\* Store and low power mode; restarts of both sides; two rovers.
SPECIFICATION ScenarioSpec
CONSTANTS
  Rovers = {r1, r2}
  Endpoints = {e1, e2}
  Payloads = {p1, p2}
  NoRover = NoRover
  NoEndpoint = NoEndpoint
  Orders = {"LOW_POWER_ON", "LOW_POWER_OFF"}
  Lossy = FALSE
  Stopping = {"base", "rover"}
  StatusReports = {p1}
  TelemetryReports = {p1}
  HighPriority = {p2}
  MAX_HANDSHAKE_RETRIES = 1
  MaxStored = 2
SYMMETRY EndpointSymmetry
INVARIANTS
  TypeOK
  BaseNeverAhead
  RoverNeverAhead
  DisconnectedRoverProbes
  NothingStoredWhileActive
  HandshakeInv
PROPERTIES
  OwnerKeepsSession
  StoreLeavesOnlyOntoTheWire
  ImplementsContract
