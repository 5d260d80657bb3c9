CONSTANTS
  Sat = {1, 2}
  Epoch = {1, 2, 3}
  Text = {"a", "b"}
  Feed <- Catalogues
  Ingest = {i1, i2}
  ApiIngest = {i2}
  NumSources = 2
  MaxAttempts = 2
  BatchSize = 2
  MaxRestarts = 1
SPECIFICATION FairSpec
INVARIANTS OneCurrentPerSat EverySatHasCurrent NoDuplicateKey
PROPERTIES FeedStored EveryIngestEnds
CHECK_DEADLOCK FALSE
