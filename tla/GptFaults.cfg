SPECIFICATION Spec
CONSTANTS
  N = 2
  B = 2
  SwitchXbl = TRUE
  HasBackup <- SomeBackup
  Faults <- FaultKinds
INVARIANTS WholeOrInvalid
PROPERTIES NoBackupUntouched DamagedUntouched
