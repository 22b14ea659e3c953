SPECIFICATION FairWorkerSpec
CONSTANTS
  Hash = {h1, h2}
  MaxItems = 2
  MaxAttempts = 1
  SentDays = 0
  FailedDays = 0
  MaxClock = 0
  MaxCrashes = 0
  MaxFaults = 0
  MaxDamages = 0
  MaxImports = 0
  MaxPosts = 1
  MaxSends = 1
INVARIANTS NoLostWakeup OneItemPerSms
PROPERTIES EventuallySettled
