SPECIFICATION Spec
CONSTANTS
  B = 2
  Vals <- Slots
  Twin <- OtherSlot
  NULL = NULL
  MaxCareless = 1
INVARIANTS TypeOK OneTableWhole NeverBothBad
PROPERTIES UpdateKept
