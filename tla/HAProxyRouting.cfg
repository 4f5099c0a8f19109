SPECIFICATION Spec
CONSTANTS
  Segment <- MCSegment
  Suffix <- MCSuffix
  MaxPieces = 3
  RedirectHttp = TRUE
  AllowList = TRUE
INVARIANTS
  TypeOK
  MainRouting
  StrangersDenied
CHECK_DEADLOCK FALSE
