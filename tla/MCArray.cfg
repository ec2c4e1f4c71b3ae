SPECIFICATION FairSpec
CONSTANTS
  Key <- MCKey
  Hash <- MCHash
  Size = 1
  NIL = NIL
INVARIANTS TypeOK CountRight VisitsAll
PROPERTIES ImplementsKeySet LoopsEnd
CHECK_DEADLOCK FALSE
