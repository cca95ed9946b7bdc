CONSTANTS
  Item = {i1}
  MaxGen = 2
  MaxBlobs = 4
  MaxRetries = 2
  LateWrites = FALSE
  InitialBindings = {"bound"}
SPECIFICATION FairSpec
INVARIANT
  CloudAgreement
PROPERTIES
  CloudKeepsEntries
  RecoveryCompletes
