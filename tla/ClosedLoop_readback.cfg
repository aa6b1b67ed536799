SPECIFICATION Spec
CONSTANTS
  d1 = d1
  d2 = d2
  c1 = c1
  c2 = c2
  Devices <- TwoDevices
  NoDevice = NoDevice
  Clients <- OneClient
  MaxPlan = 1
  MaxPolicy = 1
  MaxConfig = 1
  MaxRevision = 4
  NumSlots = 3
  MaxTime = 4
  SlotLen = 2
  Horizon = 2
  PolicyTerms <- MidSlotTerms
  ReadbackWait = 2
  ReadbackAge = 1
  OutcomeDelay = 0
  PartialWait = 1
  AutomaticEnabled = FALSE
INVARIANTS
  OpenWithinPolicyTerm
  VerificationAgrees
  OutcomeIsBacked
  OpenUnderCurrentApproval
PROPERTIES
  FailureSuspends
