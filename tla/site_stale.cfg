SPECIFICATION Spec
CONSTANTS
  a = a
  b = b
  t1 = t1
  t2 = t2
  e1 = e1
  e2 = e2
  Nothing = Nothing
  Services = {a}
  DbServices = {a}
  InitServices = {a}
  MigServices = {a}
  Tags = {t1, t2}
  Envs = {e1}
  LaggingCaches = {"site", "db", "ini", "mig", "dep"}
  MaxEdits = 1
  MaxFaults = 1
INVARIANTS TypeOK DeployedTagIsMigrated InitRunsOnce CompleteMeansDeployed DeployedDbIsInitialised
PROPERTIES MigrationsFollowInit
CHECK_DEADLOCK FALSE
