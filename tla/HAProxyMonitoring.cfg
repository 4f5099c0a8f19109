SPECIFICATION Spec
CONSTANTS
  Segment <- MCSegment
  Suffix <- MCSuffix
  MaxPieces = 2
  RedirectHttp = TRUE
  AllowList = TRUE
INVARIANTS
  MonitoringRouting
CHECK_DEADLOCK FALSE
