SPECIFICATION FairSpec
CONSTANTS
  MaxFrames = 1
  Binds = {TRUE, FALSE}
  Damage = {"corrupt"}
  Callers = {"cancel", "shut"}
INVARIANTS CompletionOnce HandedBack
PROPERTIES CancelEnds ShutdownSettles
CHECK_DEADLOCK FALSE
