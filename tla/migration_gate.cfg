SPECIFICATION Spec
CONSTANTS
  a = a
  b = b
  t1 = t1
  t2 = t2
  e1 = e1
  e2 = e2
  Nothing = Nothing
  Services = {a}
  DbServices = {a}
  InitServices = {a}
  MigServices = {a}
  Tags = {t1, t2}
  Envs = {e1}
  LaggingCaches = {}
  MaxEdits = 1
  MaxFaults = 0
INVARIANTS MigrationGate
CHECK_DEADLOCK FALSE
