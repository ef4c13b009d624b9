SPECIFICATION ScriptSpec
CONSTANTS
  N = 2
  B = 2
  SwitchXbl = TRUE
  HasBackup <- AllBackup
  Faults <- NoFaults
  MaxFaults = 3
INVARIANTS CompleteMeansNew
PROPERTY UpdateCompletes
CHECK_DEADLOCK FALSE
