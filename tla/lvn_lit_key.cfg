CONSTANTS
  PreObjs <- MCPreObjs
  PreArrs <- MCPreArrs
  PreArrInit <- MCPreArrInit
  MaxArrayLen = 1
  IFieldRefs <- MCIFieldRefs
  FieldOf <- MCFieldOf
  FieldKind <- MCFieldKind
  MaxRacyWrites = 1
  SFields <- MCSFields
  ConstVals <- MCConstVals
  High16Vals <- MCHigh16Vals
  LitVals <- MCLitValsTwo
  ArgInts <- MCArgInts
  CalleeInts <- MCCalleeInts
  Wide32Vals <- MCWide32Vals
  WideVals <- MCWideVals
  WideHigh16Vals <- MCWideHigh16Vals
  CalleeLongs <- MCCalleeLongs
  ExceptionsShared = FALSE
  MaxInsns <- MCMaxInsnsShort
SPECIFICATION Spec
CHECK_DEADLOCK FALSE
INVARIANTS ValueSound
