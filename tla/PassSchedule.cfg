CONSTANTS
  Universe <- Shared
  NumStations = 2
  Run = {r1, r2}
  Triggered = {r1}
  SyncRun = {r2}
  Window = 6
  SevenDays = 7
  Day = 3
  Second = 2
  Instants = {1, 4}
  MaxRestarts = 1
SPECIFICATION Spec
INVARIANTS
  LoneRunConflictFree
  LoneRunOneStation
  OverlapsAreReruns
  CoverageAddsUp
PROPERTIES SchedulePersists
CHECK_DEADLOCK FALSE
