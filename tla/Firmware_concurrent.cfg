SPECIFICATION FairSpec
CONSTANTS
  d1 = d1
  d2 = d2
  v1 = v1
  v2 = v2
  s1 = s1
  s2 = s2
  NoRelease = NoRelease
  Devices <- TwoDevices
  Releases <- OneRelease
  Requests <- OneSession
  Sweepers <- SweepSession
  MaxRollout = 1
  MaxConcurrent = 1
  Threshold = 60
INVARIANTS
  SuccessNeedsRestart
PROPERTIES
  DeadlinesBite
  CapacityIsUsed
