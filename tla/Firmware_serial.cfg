SPECIFICATION Spec
CONSTANTS
  d1 = d1
  d2 = d2
  v1 = v1
  v2 = v2
  s1 = s1
  s2 = s2
  NoRelease = NoRelease
  Devices <- TwoDevices
  Releases <- OneRelease
  Requests <- OneSession
  Sweepers <- OneSession
  MaxRollout = 2
  MaxConcurrent = 1
  Threshold = 50
INVARIANTS
  TypeOK
  LimitRespected
  OneDeploymentPerRelease
  NothingWithdrawnIsOffered
PROPERTIES
  FailurePauses
SYMMETRY DeviceSymmetry
