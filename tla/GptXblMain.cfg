SPECIFICATION Spec
CONSTANTS
  N = 1
  B = 1
  SwitchXbl = TRUE
  HasBackup <- AllBackup
  Faults <- NoFaults
INVARIANTS XblMain
