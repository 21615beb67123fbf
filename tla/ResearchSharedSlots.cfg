SPECIFICATION FairSpec
CONSTANTS
  r1 = r1
  r2 = r2
  Runs <- MCRuns
  StepCount = 2
  Limit = 2
  HasTimeout = TRUE
INVARIANTS
  TypeOK
  AtMostLimit
  LeavesNothing
PROPERTIES
  PublishesInOneStep
  BundleIsWhatSucceeded
  EveryRunEnds
