SPECIFICATION Spec
CONSTANTS
  Luns = {sda, sdb, sdc}
  NumParts = 5
  MAX_LUNS = 4
SYMMETRY LunSymmetry
INVARIANTS
  NoDuplicates
  Covers
CHECK_DEADLOCK FALSE
