SPECIFICATION FairSpec
CONSTANTS
  None = None
  Never = Never
  Sites <- UserSites
  Edits <- UserEdits
  Day = 2
  Zone = 0
  Horizon = 3
  ResyncPeriod = 3
  Keep = 1
  MaxEvents = 1
INVARIANTS TypeOK WakeupSet RestIsTidy
PROPERTIES NeverEarly OneBackupPerTime Expires BackupsAreMade Rests
CHECK_DEADLOCK FALSE
