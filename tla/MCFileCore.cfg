SPECIFICATION CoreSpec
CONSTANTS
  Name <- MCName
  FOPEN_MAX = 4
  MaxStreams = 6
  MaxRuns = 2
INVARIANT NoFault
PROPERTIES ImplementsConnections
CHECK_DEADLOCK FALSE
