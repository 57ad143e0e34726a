SPECIFICATION FairSpec
CONSTANTS
  a = a
  b = b
  x = x
  k = k
  u = u
  v = v
  Tasks = {a}
  LocalTasks = {a}
  Keys = {k}
  KeysOf <- MCKeysOf
  Users = {u, v}
  MaxPid = 2
  MaxLost = 0
INVARIANTS RetiredStaysRetired
PROPERTIES ImplementsLifecycle ForwardOnly HostedResolved NoZombie
CHECK_DEADLOCK FALSE
