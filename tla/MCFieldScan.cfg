SPECIFICATION Spec
CONSTANTS
  DEFAULT_FLD = 2
  Records <- MCRecords
  FsVals <- MCFsVals
INVARIANTS FieldsAsReference SplitAsFields
PROPERTIES LoopsEnd
CHECK_DEADLOCK FALSE
