SPECIFICATION FairLifecycleSpec
CONSTANTS
  Fragile = {"watchdog", "heartbeat"}
  MaxFaults = 2
INVARIANTS LifecycleTypeOK UsersFirst ClosedWhenDown LeftBehind
PROPERTIES ShutdownEnds
CHECK_DEADLOCK FALSE
