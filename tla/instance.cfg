CONSTANTS
  Backends = {a, b, c}
  Sites = {s, t}
  NoSite = NoSite
  MaxStarts = 3
  MaxFailures = 1
  NONE = NONE
SPECIFICATION FairSpec
INVARIANTS OwnerNamed NothingLeft
PROPERTIES ImplementsLease HandoffCompletes ReleaseFrees
CHECK_DEADLOCK FALSE
