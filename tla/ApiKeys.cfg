CONSTANTS
  Request = {q1, q2, q3}
  Limits = {1, 2}
  ValidTTL = 3
  InvalidTTL = 1
  Window = 2
  MaxDelay = 1
  MaxNow = 4
  MaxChanges = 1
SYMMETRY Symmetry
SPECIFICATION Spec
PROPERTIES
  AcceptedWasActive
  RejectedWasInactive
  GrantedWithinLimit
  LimitedOnlyWhenFull
