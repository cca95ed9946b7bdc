SPECIFICATION Spec
CONSTANTS
  Entry = {e1, e2}
  Category = {c1, c2}
  Name = {n1, n2}
  Text = {x, y}
  MaxStamp = 3
  MaxClock = 2
  MaxActs = 2
  MaxOthers = 1
  MaxTries = 2
CHECK_DEADLOCK FALSE
INVARIANTS
  TypeOK
  ViewIsCurrent
  EditorOffersLive
PROPERTIES
  ConfirmedOnly
  NewerWins
  SaysSynced
