SPECIFICATION FairWatchdogSpec
CONSTANTS
  Threshold = 2
  BadTime = 2
  Cooldown = 2
  FrozenCooldown = 3
  MaxFaults = 2
INVARIANTS WatchdogTypeOK TroubleIsFresh
PROPERTIES EnableSpacing TroubleIsTreated
