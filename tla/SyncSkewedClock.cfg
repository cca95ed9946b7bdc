CONSTANTS
  d1 = d1
  d2 = d2
  Device = {d1, d2}
  Entry = {e1}
  Title <- OwnTitle
  Ahead <- FirstAhead
  MaxClock = 2
  MaxRetries = 1
  CloudExists = TRUE
  LateWrites = FALSE
  Expires = FALSE
  ReimportsDeleted = FALSE
SPECIFICATION Spec
PROPERTY
  LocalEditsWin
