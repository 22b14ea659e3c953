SPECIFICATION FairRelaySpec
CONSTANTS
  MaxSms = 2
  Outbound = {}
  MaxAttempts = 2
  MaxTasks = 2
  MaxCrashes = 0
  MaxFaults = 0
INVARIANTS DroppedAfterRetries
PROPERTIES EventuallyHandled
