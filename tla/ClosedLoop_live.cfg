SPECIFICATION FairSpec
CONSTANTS
  d1 = d1
  d2 = d2
  c1 = c1
  c2 = c2
  Devices <- OneDevice
  NoDevice = NoDevice
  Clients <- OneClient
  MaxPlan = 1
  MaxPolicy = 1
  MaxConfig = 1
  MaxRevision = 4
  NumSlots = 2
  MaxTime = 2
  SlotLen = 1
  Horizon = 1
  PolicyTerms <- LateTerm
  ReadbackWait = 1
  ReadbackAge = 1
  OutcomeDelay = 1
  PartialWait = 1
  AutomaticEnabled = TRUE
PROPERTIES
  FailureIsNoticed
  NothingStaysPending
