SPECIFICATION CallsSpec
CONSTANTS
  Programs <- MCPrograms
  Globals = {1, 2}
  MaxParams = 2
  MaxCalls = 2
INVARIANTS
  FrameIsOwn
  FaultCauses
PROPERTIES
  ImplementsStructured
  ImplementsEnvironments
