SPECIFICATION Spec
CONSTANTS
  a = a
  b = b
  HOME = HOME
  NONE = NONE
  Ops = {a}
  Initial = {HOME}
  MaxCrash = 0
  MaxError = 1
INVARIANTS ParsedFollows
CHECK_DEADLOCK FALSE
