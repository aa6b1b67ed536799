SPECIFICATION Spec
CONSTANTS
  d1 = d1
  d2 = d2
  v1 = v1
  v2 = v2
  s1 = s1
  s2 = s2
  NoRelease = NoRelease
  Devices <- OneDevice
  Releases <- OneRelease
  Requests <- TwoSessions
  Sweepers <- OneSession
  MaxRollout = 1
  MaxConcurrent = 1
  Threshold = 60
PROPERTIES
  RestartRunsToItsEnd
