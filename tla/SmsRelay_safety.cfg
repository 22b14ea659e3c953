SPECIFICATION RelaySpec
CONSTANTS
  MaxSms = 3
  Outbound = {2}
  MaxAttempts = 1
  MaxTasks = 3
  MaxCrashes = 1
  MaxFaults = 1
INVARIANTS RelayTypeOK NoSmsLost OneRetryPerPath NothingUnattended
