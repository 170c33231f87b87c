SPECIFICATION FairSpec
CONSTANTS
  Nothing = Nothing
  JobLags = TRUE
  BatchLags = TRUE
  SlowDeletes = FALSE
  Expires = TRUE
  NotFoundLimit = 5
  MaxFaults = 3
INVARIANTS CompleteMeansSucceeded InitCreatedOnce
PROPERTIES ObeysLifecycle Finishes
CHECK_DEADLOCK FALSE
