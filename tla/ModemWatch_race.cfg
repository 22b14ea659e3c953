SPECIFICATION WatchSpec
CONSTANTS
  Path = {p1, p2}
  NoPath = NoPath
  Main = main
  Handler = {h1}
  MaxResets = 0
  MaxChanges = 4
  MaxFaults = 0
INVARIANTS WatchedOrOwed
CHECK_DEADLOCK FALSE
