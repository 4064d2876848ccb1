SPECIFICATION LinkSpec
CONSTANTS
  Tokens <- OneToken
  t1 = t1
  NoEntry = NoEntry
  NoToken = NoToken
  Retention = 1
  MaxBytes = 2
  MaxFile = 3
  MaxTime = 3
  MaxCrashes = 1
  MaxPurges = 1
  MaxAsks = 1
INVARIANTS
  LinkIsTheResult
  PurgeReportsHold
  PurgedStaysGone
PROPERTIES
  OrphansReclaimed
