SPECIFICATION ServicesSpec
CONSTANTS
  Units = {u1}
  Sites = {a, b}
  NoSite = NoSite
  IdentityCalls = {c1}
  MaxSecret = 4
  Profiles = {p}
  Values = {x}
  NoValue = NoValue
  MaxDesired = 3
  MaxReports = 2
  MaxInstant = 1
  Lifetime = 1
  Vehicles = {v}
  NoVehicle = NoVehicle
  Retentions = {1}
  MaxDay = 2
  PrivacyCalls = {c1}
  MaxWindow = 4
  MaxAlerts = 2
  ShortCooldown = 1
  LongCooldown = 2
  EvidenceAge = 1
  Events = {e1, e2}
  CriticalEvents = {e1}
  Escalating = TRUE
  Senders = {w1}
  QuietHours = {0}
  DigestHours = {1}
  MaxTick = 1
  MaxAttempts = 2
  MaxDeaths = 1
  Requests = {r1}
  Workers = {w1, w2}
  MaxJobs = 2
  MaxDeliveries = 2
  Files = {f1, f2}
  Malformed = Malformed
  Synthetic = Synthetic
  Unfetched = Unfetched
  SyntheticFallback = TRUE
  Limits = {1}
  LastSlot = 3
  MaxRevision = 3
  LateAfter = 1
  Lookback = 2
  RawRetention = 6
  RetentionMargin = 3
  Measured = {1, 2}
  LastHour = 8
  Accounts = {a1, a2}
  AccountRequests = {r1, r2}
  MaxInvitations = 1
  Installations = {i1, i2}
  Refreshers = {r1, r2}
  MaxLive = 1
  MaxFailures = 1
  MaxTries = 1
  MaxLogins = 2
  MaxRotations = 3
  Entities = {a1}
  MaxGeneration = 4
  MaxObserved = 2
  CloudUsers = {c1}
  MaxFailed = 1
  MaxSample = 1
  Editors = {r1, r2}
  MaxEdits = 2
  MaxTariffs = 2
  MaxDate = 1
  Intervals = 2
  HourLen = 2
  LastPlanned = 1
  MaxIssues = 1
  Horizon = 2
  LastInterval = 5
  DayLength = 4
  DayOffset = 3
  MonthLength = 2
  DayBudget = 1
  MonthBudget = 2
  Capacity = 4
  MaxCharge = 1
  MaxDischarge = 1
  ChargeGain = 1
  DischargeCost = 1
  InverterPower = 2
  ImportLimit = 2
  ExportLimit = 1
  EvPower = 1
  GridCharge = FALSE
  BatteryExport = FALSE
  Forecasted = {0, 1}
  MaxLag = 1
  Inputs = {a1, a2}
  CloudReported = FALSE
  FreshFor = 1
  Ahead = 0
  LastMoment = 2
  Pollers = {w1, w2}
  States = {e1, e2}
  Blank = Blank
  MaxConfig = 2
  LastReport = 2
  HoldFor = 2
INVARIANTS
  ServicesTypeOK CredentialsFollowDevice AcceptedIsNewest SessionsFollowConnector
  VehicleDataNeedsConsent IncidentsAreApart  JobsRunOnce CurrentPricesAreSound
  SamplesAreIntegrated SessionsAreSingle ObservationsFitMapping  HistoryIsLinear
  BudgetsHold TotalsLeaveNothingBehind ContextIsWhole
PROPERTIES
  ExecutedIsConfirmed AggregatesKeepSamples LastAdminStays
CHECK_DEADLOCK FALSE
