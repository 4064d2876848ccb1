SPECIFICATION Spec
CONSTANTS
  Tokens <- OneToken
  t1 = t1
  t2 = t2
  NoEntry = NoEntry
  Retention = 1
  MaxBytes = 1
  MaxTime = 2
  MaxCrashes = 0
  MaxPurges = 0
PROPERTIES
  SweepSparesLiveUploads
