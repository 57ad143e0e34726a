SPECIFICATION Spec
CONSTANTS
  a = a
  b = b
  x = x
  k = k
  u = u
  v = v
  Tasks = {a, x}
  LocalTasks = {a}
  Keys = {k}
  KeysOf <- MCKeysOf
  Users = {u}
  MaxPid = 2
  MaxLost = 1
INVARIANTS HostedIsActive
CHECK_DEADLOCK FALSE
