SPECIFICATION Spec
CONSTANTS
  Instances = {d1, d2}
  AodAvailable = TRUE
  MaxQueue = 5
  MaxRaces = 3
INVARIANTS
  TypeOK
  ServiceMatchesSettings
  QuietWhenOn
  ArmedTogether
  OwnedListeners
PROPERTY OffIsQuiet
