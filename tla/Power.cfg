SPECIFICATION Spec
CONSTANTS
  SoCs = {"8974", "8084", "8226", "8610", "8909", "8916", "8937", "8952", "8953", "8960", "8992", "8994", "8996", "8998", "660", "845", "710", "msmnile", "trinket"}
  Libraries <- MCLibraries
  Clients = {"service", "library"}
  CallSets <- MCCallSets
  Profiles <- MCProfiles
  Texts <- MCTexts
  Durations <- MCDurations
  MaxLocks = 2
  MaxRef = 2
  MaxList = 3
  MaxMissed = 1
INVARIANTS
  TypeOK
  NoStaleHandle
  NoOrphan
  ProfileBacked
  ModeBacked
  BoostsSingle
  DisplayLockOnce
