SPECIFICATION Spec
CONSTANTS
  d1 = d1
  d2 = d2
  c1 = c1
  c2 = c2
  Devices <- OneDevice
  NoDevice = NoDevice
  Clients <- OneClient
  MaxPlan = 1
  MaxPolicy = 1
  MaxConfig = 2
  MaxRevision = 4
  NumSlots = 3
  MaxTime = 3
  SlotLen = 1
  Horizon = 2
  PolicyTerms <- LateTerm
  ReadbackWait = 1
  ReadbackAge = 1
  OutcomeDelay = 0
  PartialWait = 1
  AutomaticEnabled = TRUE
INVARIANTS
  TypeOK
  LiveControlHasLiveStation
PROPERTIES
  RefinesSessions
