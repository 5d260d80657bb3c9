CONSTANTS
  Batch = {b1}
  Triggered = {b1}
  Sat = {s1, s2}
  MaxRetries = 1
  MaxCrashes = 0
  Faults = {"db", "exhaust"}
SPECIFICATION Spec
INVARIANTS SettledBatchFired
CHECK_DEADLOCK FALSE
