SPECIFICATION Spec
CONSTANTS
  a = a
  b = b
  d = d
  c = c
  Tasks = {a, b, d}
  Cancellers = {c}
  MaxCrash = 1
INVARIANTS StartedOnce OneOpenDownload
PROPERTIES InOrder
CHECK_DEADLOCK FALSE
