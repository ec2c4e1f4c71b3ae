SPECIFICATION FullSpec
CONSTANTS
  DEFAULT_FLD = 1
  Atom <- MCAtom
  Split <- MCSplit
  Join <- MCJoin
  Records <- MCShortRecords
  Values <- MCValues
  FsVals <- MCFsAll
  OfsVals <- MCOfsVals
  MaxField = 2
  MaxText = 2
PROPERTIES OverrunCauses BothLostOnlyBy StoreLostOnlyBy PartOnlyBy
CHECK_DEADLOCK FALSE
VIEW NoOutcome
