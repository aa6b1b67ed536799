SPECIFICATION Spec
CONSTANTS
  d1 = d1
  d2 = d2
  c1 = c1
  c2 = c2
  Devices <- OneDevice
  NoDevice = NoDevice
  Clients <- TwoClients
  MaxPlan = 0
  MaxPolicy = 1
  MaxConfig = 1
  MaxRevision = 3
  NumSlots = 1
  MaxTime = 1
  SlotLen = 1
  Horizon = 1
  PolicyTerms <- LateTerm
  ReadbackWait = 1
  ReadbackAge = 1
  OutcomeDelay = 1
  PartialWait = 1
  AutomaticEnabled = TRUE
INVARIANTS
  IdleControlHasShadowStation
