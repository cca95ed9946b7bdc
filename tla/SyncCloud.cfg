CONSTANTS
  d1 = d1
  d2 = d2
  Device = {d1, d2}
  Entry = {e1}
  Title <- OwnTitle
  Ahead <- InStep
  MaxClock = 4
  MaxRetries = 2
  CloudExists = TRUE
  LateWrites = FALSE
  Expires = TRUE
  ReimportsDeleted = FALSE
SPECIFICATION Spec
SYMMETRY DeviceSymmetry
INVARIANTS
  NeverGoesBack
  NewestSurvives
  RowXorMarker
PROPERTY
  CloudNeverGoesBack
