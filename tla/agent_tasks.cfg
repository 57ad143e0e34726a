SPECIFICATION FairSpec
CONSTANTS
  a = a
  b = b
  d = d
  ping = ping
  mr = mr
  Tasks = {a, b}
  Types = {ping}
  TypeOf <- MCTypeOf
  Collect = {}
  AutoPackage = {a}
  MaxCrash = 2
INVARIANTS Registry PublishedLast
PROPERTIES EndStays StopEnds
CHECK_DEADLOCK FALSE
