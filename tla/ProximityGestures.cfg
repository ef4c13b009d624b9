SPECIFICATION Spec
CONSTANTS
  HANDWAVE_MAX_DELTA = 1
  POCKET_MIN_DELTA = 2
  MaxTime = 5
  MaxEvents = 2
INVARIANTS
  TypeOK
  OneGestureExact
CHECK_DEADLOCK FALSE
