CONSTANTS
  d1 = d1
  d2 = d2
  Device = {d1, d2}
  Entry = {e1, e2}
  Title <- SameTitle
  Ahead <- InStep
  MaxClock = 2
  MaxRetries = 1
  CloudExists = TRUE
  LateWrites = FALSE
  Expires = FALSE
  ReimportsDeleted = FALSE
SPECIFICATION Spec
PROPERTY
  CloudNeverGoesBack
