CONSTANTS
  W <- MCW
  Lens <- MCLens
  InitConsts <- MCInitConsts
  CondConsts <- MCCondConstsEdge
  XVals <- MCXVals
  Incs <- MCIncs
  AddConsts <- MCAddConsts
SPECIFICATION Spec
CHECK_DEADLOCK FALSE
INVARIANTS CheckRemovalSound
