SPECIFICATION FairSpec
CONSTANTS
  a = a
  b = b
  HOME = HOME
  NONE = NONE
  Ops = {a}
  Initial = {HOME, NONE}
  MaxCrash = 3
  MaxError = 2
INVARIANTS Usable Trusted
PROPERTIES NothingLost ServesSettled StartupCompletes
CHECK_DEADLOCK FALSE
