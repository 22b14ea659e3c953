SPECIFICATION FairWorkerSpec
CONSTANTS
  Hash = {h1}
  MaxItems = 1
  MaxAttempts = 1
  SentDays = 0
  FailedDays = 0
  MaxClock = 0
  MaxCrashes = 2
  MaxFaults = 1
  MaxDamages = 0
  MaxImports = 1
  MaxPosts = 1
  MaxSends = 2
INVARIANTS WorkerTypeOK SentMeansDelivered ResendsExplained
PROPERTIES QueueSpec ImplementsOutbox EventuallySettled
