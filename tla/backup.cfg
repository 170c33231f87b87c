SPECIFICATION FairSpec
CONSTANTS
  a = a
  b = b
  Nothing = Nothing
  Services = {a, b}
  BackupServices = {a, b}
  Lags = TRUE
  MaxEdits = 1
  MaxFaults = 1
INVARIANTS TypeOK CompleteMeansSaved GoneMeansTried
PROPERTIES Ends
CHECK_DEADLOCK FALSE
