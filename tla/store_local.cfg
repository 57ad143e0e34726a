SPECIFICATION Spec
CONSTANTS
  a = a
  b = b
  x = x
  k = k
  u = u
  v = v
  Tasks = {a, b}
  LocalTasks = {a, b}
  Keys = {k}
  KeysOf <- MCKeysOf
  Users = {}
  MaxPid = 3
  MaxLost = 1
INVARIANTS ResourceExclusion
CHECK_DEADLOCK FALSE
