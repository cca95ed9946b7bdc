CONSTANTS
  Item = {i1}
  MaxGen = 1
  MaxBlobs = 3
  MaxRetries = 1
  LateWrites = TRUE
  InitialBindings = {"bound"}
SPECIFICATION Spec
INVARIANT
  CloudAgreement
