SPECIFICATION Spec
CONSTANTS
  N = 2
  B = 2
  SwitchXbl = TRUE
  HasBackup <- AllBackup
  Faults <- NoFaults
INVARIANTS TypeOK Failsafe GrantMeansSwitched GrantMeansFinal XblBackup IInv
PROPERTIES ImplementsFailsafeBoot
