CONSTANTS
  Universe <- Redetected
  NumStations = 1
  Run = {r1, r2}
  Triggered = {r1}
  SyncRun = {}
  Window = 8
  SevenDays = 8
  Day = 4
  Second = 2
  Instants = {1}
  MaxRestarts = 0
SPECIFICATION Spec
INVARIANTS StationConflictFree
CHECK_DEADLOCK FALSE
