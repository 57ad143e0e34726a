SPECIFICATION Spec
CONSTANTS
  MaxFrames = 2
  Binds = {TRUE, FALSE}
  Damage = {"torn"}
  Callers = {"api", "stop"}
INVARIANTS VerdictMatchesOutput DoneMeansGone
CHECK_DEADLOCK FALSE
