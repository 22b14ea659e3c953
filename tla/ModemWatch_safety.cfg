SPECIFICATION FairFirstSpec
CONSTANTS
  Path = {p1, p2}
  NoPath = NoPath
  Main = main
  Handler = {h1}
  MaxResets = 1
  MaxChanges = 2
  MaxFaults = 1
INVARIANTS WatchTypeOK OneHandlerPerPath OwedUnlessWatched ReappearedMeansReplaced
PROPERTIES EventuallyListening
CHECK_DEADLOCK FALSE
