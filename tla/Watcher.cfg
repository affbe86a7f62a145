\* A watched file, one of another kind, one in a directory made later; the walk
\* of Start may miss any of them but the second.
SPECIFICATION WatcherFairSpec
CONSTANTS
  Paths = {go1, css, new}
  Reportable = {go1, new}
  Late = {new}
  Missable = {go1, new}
  MaxSaves = 2
  MaxEvents = 2
CHECK_DEADLOCK FALSE
INVARIANTS
  WatcherTypeOK
  LostOnlyWhenBlind
PROPERTIES
  QueuedIsReported
