SPECIFICATION FullSpec
CONSTANTS
  Name <- MCNameFew
  FOPEN_MAX = 4
  MaxStreams = 5
  MaxRuns = 2
INVARIANTS NoLeak
PROPERTIES FaultCauses
CHECK_DEADLOCK FALSE
