SPECIFICATION FairSpec
CONSTANTS
  t1 = t1
  t2 = t2
  Nothing = Nothing
  Tags = {t1, t2}
  JobLags = TRUE
  BatchLags = TRUE
  SlowDeletes = TRUE
  Expires = TRUE
  NotFoundLimit = 2
  MaxChanges = 2
  MaxFaults = 1
INVARIANTS TypeOK CompleteIsOwn
PROPERTIES ObeysLifecycle Finishes
CHECK_DEADLOCK FALSE
