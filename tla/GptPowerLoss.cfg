SPECIFICATION Spec
CONSTANTS
  N = 1
  B = 1
  SwitchXbl = FALSE
  HasBackup <- AllBackup
  Faults <- Volatile
INVARIANTS Failsafe
