SPECIFICATION ForecastsSpec
CONSTANTS
  Intervals = 2
  HourLen = 2
  LastPlanned = 1
  MaxIssues = 2
INVARIANTS CompleteInputsAreTrusted
CHECK_DEADLOCK FALSE
