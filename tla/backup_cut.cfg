SPECIFICATION Spec
CONSTANTS
  a = a
  b = b
  Nothing = Nothing
  Services = {a, b}
  BackupServices = {a, b}
  Lags = FALSE
  MaxEdits = 0
  MaxFaults = 0
INVARIANTS GoneAfterBackup
CHECK_DEADLOCK FALSE
