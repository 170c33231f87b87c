SPECIFICATION FairSpec
CONSTANTS
  p = p
  q = q
  a = a
  b = b
  e1 = e1
  e2 = e2
  Nothing = Nothing
  Sites = {p, q}
  Services = {a}
  Envs = {e1, e2}
  InitialWants <- OneSite
  DatabaseCount = 1
  Lags = TRUE
  MaxEdits = 2
  MaxFaults = 1
INVARIANTS TypeOK ReadyIsOwnFlush
PROPERTIES Allocated
CHECK_DEADLOCK FALSE
