SPECIFICATION CarefulLive
CONSTANTS
  t1 = t1  t2 = t2  i1 = i1  i2 = i2
  Thread <- MCThread
  Interp <- MCInterp
  NULL = NULL
  MaxCalls = 3
INVARIANTS GlobalIsMine FaultCauses NeverStuck
PROPERTY CallsReturn
