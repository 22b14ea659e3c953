SPECIFICATION FairLifecycleSpec
CONSTANTS
  Fragile = {"watchdog"}
  MaxFaults = 1
PROPERTIES ShutdownStopsRelay
CHECK_DEADLOCK FALSE
