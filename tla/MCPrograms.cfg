CONSTANTS
  Interp = {1, 2}
  None = None
  PA2NUM = 4
  NFA = 2
  Invalid <- MCInvalid
  Host <- MCHost
  MaxFiles = 2
  MaxDrift = 1
  MaxLate = 1
  MaxHits = 2
SPECIFICATION Spec
INVARIANTS CompileByText CacheTransparent
PROPERTY ImplementsRangePatterns
CHECK_DEADLOCK FALSE
