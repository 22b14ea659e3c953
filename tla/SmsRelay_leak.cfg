SPECIFICATION RelaySpec
CONSTANTS
  MaxSms = 2
  Outbound = {}
  MaxAttempts = 1
  MaxTasks = 2
  MaxCrashes = 0
  MaxFaults = 0
INVARIANTS NoLeakedRetry
