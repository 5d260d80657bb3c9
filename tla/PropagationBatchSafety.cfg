CONSTANTS
  Batch = {b1}
  Triggered = {b1}
  Sat = {s1, s2, s3}
  MaxRetries = 1
  MaxCrashes = 1
  Faults <- SafeFaults
SPECIFICATION Spec
INVARIANTS AtMostOneGreedy GreedyAfterAll
PROPERTIES ImplementsBarrier
CHECK_DEADLOCK FALSE
