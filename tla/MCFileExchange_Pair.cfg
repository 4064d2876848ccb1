SPECIFICATION PairSpec
CONSTANTS
  Tokens <- TwoTokens
  t1 = t1
  t2 = t2
  NoEntry = NoEntry
  Retention = 1
  MaxBytes = 1
  MaxTime = 3
  MaxCrashes = 0
  MaxPurges = 0
INVARIANTS
  TypeOK
  PublishedIsWhole
  ServedInTime
PROPERTIES
  RetentionEnforced
