SPECIFICATION Spec
CONSTANTS
  MaxVersion = 3
  MaxTries = 2
INVARIANTS TypeOK PageShowsConnection PageNeverStuck MergesWhatItChecks
PROPERTIES TokenOnlyByConsent SyncEnds
CHECK_DEADLOCK FALSE
