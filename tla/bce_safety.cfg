CONSTANTS
  W <- MCW
  Lens <- MCLens
  InitConsts <- MCInitConsts
  CondConsts <- MCCondConsts
  XVals <- MCXVals
  Incs <- MCIncs
  AddConsts <- MCAddConsts
SPECIFICATION Spec
CHECK_DEADLOCK FALSE
INVARIANTS TypeOK BodySound CheckRemovalSound
