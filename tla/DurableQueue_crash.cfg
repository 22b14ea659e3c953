SPECIFICATION QueueSpec
CONSTANTS
  Hash = {h1, h2}
  MaxItems = 3
  MaxAttempts = 0
  SentDays = 0
  FailedDays = 0
  MaxClock = 1
  MaxCrashes = 2
  MaxFaults = 0
  MaxDamages = 0
  MaxImports = 0
INVARIANTS NoAckedLoss OneLivePerHash StatusAgreement NothingStranded
PROPERTIES RetentionSparesLive
