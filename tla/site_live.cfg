SPECIFICATION FairSpec
CONSTANTS
  a = a
  b = b
  t1 = t1
  t2 = t2
  e1 = e1
  e2 = e2
  Nothing = Nothing
  Services = {a, b}
  DbServices = {a, b}
  InitServices = {a}
  MigServices = {b}
  Tags = {t1}
  Envs = {e1, e2}
  LaggingCaches = {}
  MaxEdits = 1
  MaxFaults = 1
INVARIANTS SteadyInv
PROPERTIES DropsAreWanted Settles
CHECK_DEADLOCK FALSE
