CONSTANTS
  Batch = {b1, b2}
  Triggered = {b1}
  Sat = {s1, s2}
  MaxRetries = 0
  MaxCrashes = 1
  Faults <- RecoveredFaults
SPECIFICATION FairSpec
INVARIANTS SettledBatchFired
PROPERTIES EveryBatchFires
CHECK_DEADLOCK FALSE
