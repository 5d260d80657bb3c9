CONSTANTS
  MaxLen = 5
  Horizon = 5
SPECIFICATION Spec
INVARIANTS CountDominates
CHECK_DEADLOCK FALSE
