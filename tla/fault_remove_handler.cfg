CONSTANTS
  npe = npe
  suspend = suspend
  so = so
  trace = trace
  NoHandler = NoHandler
  Handlers <- MCHandlers
  Kind <- MCKind
  GenCode <- MCGenCode
  Trace = trace
  Faults <- MCFaults
  Methods <- MCMethods
  MaxInits = 1
SPECIFICATION Spec
CHECK_DEADLOCK FALSE
INVARIANTS RemoveSound
