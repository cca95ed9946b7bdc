SPECIFICATION Spec
CONSTANTS
  Installation = {a, b}
  MaxVault = 3
INVARIANTS
  TypeOK
  OneVault
  ErasesAlone
  Usable
  LockedAsks
  LockedIsSealed
  EditRemembered
PROPERTIES
  ImplementsVaultLifetime
  LockHonoured
CHECK_DEADLOCK FALSE
