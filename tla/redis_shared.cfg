SPECIFICATION Spec
CONSTANTS
  p = p
  q = q
  a = a
  b = b
  e1 = e1
  e2 = e2
  Nothing = Nothing
  Sites = {p}
  Services = {a, b}
  Envs = {e1}
  InitialWants <- Nobody
  DatabaseCount = 2
  Lags = TRUE
  MaxEdits = 2
  MaxFaults = 0
INVARIANTS NoSharing
CHECK_DEADLOCK FALSE
