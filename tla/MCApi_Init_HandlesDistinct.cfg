SPECIFICATION WithInit
CONSTANTS
  t1 = t1  t2 = t2  i1 = i1  i2 = i2
  Thread <- MCThread
  Interp <- MCInterp
  NULL = NULL
  MaxCalls = 4
INVARIANT HandlesDistinct
