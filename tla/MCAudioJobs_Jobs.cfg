SPECIFICATION Spec
CONSTANTS
  k1 = k1
  k2 = k2
  Keys <- TwoKeys
  Canonical <- OneCanonical
  NTracks = 2
  TrackBytes <- Sizes
  ManifestBytes = 1
  CoverBytes = 1
  CacheMax = 5
  MultiDelivery = "both"
  MaxSend = 2
  FileServer = TRUE
  MaxJobs = 3
  MaxPurges = 1
  MaxCrashes = 1
\* An idle bot waits for the next job, and the jobs are bounded.
CHECK_DEADLOCK FALSE
INVARIANTS
  TypeOK
  EntriesAreWhole
  NothingHalfMade
  DeliveredWhole
  BudgetKeptIfRecorded
PROPERTIES
  EvictsOnlyWhenOver
  EvictsLeastRecentlyServed
  KeepsAlbums
