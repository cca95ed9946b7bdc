CONSTANTS
  d1 = d1
  d2 = d2
  Device = {d1, d2}
  Entry = {e1}
  Title <- OwnTitle
  Ahead <- InStep
  MaxClock = 3
  MaxRetries = 2
  CloudExists = FALSE
  LateWrites = TRUE
  Expires = FALSE
  ReimportsDeleted = FALSE
SPECIFICATION Spec
SYMMETRY DeviceSymmetry
INVARIANTS
  TypeOK
  NeverGoesBack
  NewestSurvives
