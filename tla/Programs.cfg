\* Three targets at any moment of a movement; two rovers that find each other;
\* four lines and a signal at any moment; every path of calls of both programs.
\* The base program ends, or waits for a line.
SPECIFICATION ProgramSpec
CONSTANTS
  Metre = 2
  Coordinates <- MCCoordinates
  Start = 0
  NoTarget = NoTarget
  MaxTargets = 3
  Rovers = {r1, r2}
  Scanners = {r1}
  ScanPorts = {}
  MaxInTransit = 2
  MaxLines = 4
INVARIANTS
  ProgramTypeOK
  TargetIsPursued
  ReportedOnce
  ExchangesEnd
  ToldOnce
  AcceptedIsExecuted
  NeverWaitsForItself
PROPERTIES
  StepsApproach
  TargetIsLeft
  Acquainted
  QuitEnds
CHECK_DEADLOCK FALSE
