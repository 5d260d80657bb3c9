CONSTANTS
    Container = {"api", "worker", "byhand"}
    Skips = {"byhand"}
    Station = {"GS001", "GS003"}
    Mask <- MCMask
    DefaultMask = 10
    Production = FALSE
    MaxRestarts = 3
    MaxFaults = 1
SPECIFICATION Spec
INVARIANTS ServedReady MaskAsConfigured RacesLost
PROPERTIES EveryContainerServes
CHECK_DEADLOCK FALSE
