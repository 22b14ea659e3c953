SPECIFICATION QueueSpec
CONSTANTS
  Hash = {h1}
  MaxItems = 2
  MaxAttempts = 1
  SentDays = 0
  FailedDays = 0
  MaxClock = 1
  MaxCrashes = 0
  MaxFaults = 1
  MaxDamages = 1
  MaxImports = 1
INVARIANTS QueueTypeOK NoAckedLoss OneLivePerHash LiveRowHasFile
