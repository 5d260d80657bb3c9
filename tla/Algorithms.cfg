CONSTANTS
  MaxLen = 4
  Horizon = 4
  MaxBenefit = 2
  Lists <- AllLists
  MaxSamples = 5
  Elevations <- SampleElevations
  NaN = NaN
  None = None
  Failed = Failed
  Decayed = Decayed
  MinValid = 60
  Step = 10
  MinPass = 5
  Mask = 10
SPECIFICATION MCSpec
INVARIANTS
  EdfIsOptimal
  HeapIsMaximal
  SweepFindsAllConflicts
  FitsMeansFree
  ResultConflictFree
  ResultOptimal
  OneWrongDigitRefused
  NumbersAreDistinct
  AcceptedPropagates
  DatesAgree
  PassesAreRuns
  PassesFollow
  PeakInsidePass
PROPERTIES Terminates
CHECK_DEADLOCK FALSE
