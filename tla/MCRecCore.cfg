SPECIFICATION MCCoreSpec
CONSTANTS
  DEFAULT_FLD = 2
  Atom <- MCAtom
  Split <- MCSplit
  Join <- MCJoin
  Records <- MCRecords
  Values <- MCValues
  FsVals <- MCFsVals
  OfsVals <- MCOfsVals
  MaxField = 3
  MaxText = 3
INVARIANTS TypeOK NoFault EmptyPastNF
PROPERTIES ImplementsRecordView
