SPECIFICATION FairSpec
CONSTANTS
  Files <- MCFiles
  Absent <- MCAbsent
  Lets <- MCLets
  Records <- MCRecords
  ArgLists <- MCArgLists
  Changes <- MCChanges
  MaxRuns = 2
INVARIANTS TypeOK NamesFile ClosedOnlyBy
PROPERTIES ImplementsRecordSource GetrecReturns
CHECK_DEADLOCK FALSE
