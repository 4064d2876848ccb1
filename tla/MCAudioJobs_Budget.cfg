SPECIFICATION Spec
CONSTANTS
  k1 = k1
  k2 = k2
  Keys <- TwoKeys
  Canonical <- OneCanonical
  NTracks = 2
  TrackBytes <- Sizes
  ManifestBytes = 1
  CoverBytes = 1
  CacheMax = 5
  MultiDelivery = "zip"
  MaxSend = 4
  FileServer = FALSE
  MaxJobs = 2
  MaxPurges = 0
  MaxCrashes = 0
CHECK_DEADLOCK FALSE
INVARIANTS
  BudgetKept
