SPECIFICATION FairSpec
CONSTANTS
  MaxTexts = 6
  BatchSize = 2
  MaxRetries = 1
  Concurrency = 2
  Share <- MCShare
  MaxItems = 3
  MaxBroken = 3
  Backends = {"gemini", "local"}
  SoftLimits = TRUE
CHECK_DEADLOCK FALSE
INVARIANTS
  TypeOK
  ScoresAreTrue
  PoolIsQuiet
PROPERTIES
  OnlyRetriesAfterFailure
  Ends
