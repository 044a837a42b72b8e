SPECIFICATION FairSpec
CONSTANTS
  Subs = {s1, s2}
  MaxConnects = 2
  MaxUpdates = 1
  MaxPings = 2
INVARIANTS
  Listed
  NoneLeftBehind
PROPERTIES
  OnlyToListed
  CancelledEnds
CHECK_DEADLOCK FALSE
