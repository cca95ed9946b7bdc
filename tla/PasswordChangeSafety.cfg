CONSTANTS
  Item = {i1, i2}
  MaxGen = 2
  MaxBlobs = 6
  MaxRetries = 3
  LateWrites = TRUE
  InitialBindings = {"unknown", "local", "bound"}
SPECIFICATION Spec
SYMMETRY ItemSymmetry
INVARIANTS
  TypeOK
  OpenVaultReadable
  RecoverableAtEveryCrash
  SwitchNeedsCloud
  HelloNeverStale
PROPERTIES
  EntriesKept
  ForwardOnly
  ImplementsAtomicVault
