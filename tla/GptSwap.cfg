SPECIFICATION Spec
CONSTANTS
  SwapList <- MCSwapList
  Names <- MCNames
  NumEntries = 4
  IsUfs = TRUE
INVARIANTS
  TypeOK
  Exchanged
  ReturnCode
CHECK_DEADLOCK FALSE
