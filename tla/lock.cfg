CONSTANTS
  t1 = t1  t2 = t2  t3 = t3  left = left  right = right
  Threads = {t1, t2, t3}
  Processes = {left, right}
  ProcessOf <- MCProcessOf
  Timed = {t2}
  States = {s1, s2}
  Handles = {h1, h2, h3}
  MaxLevel = 2
  NONE = NONE
SPECIFICATION FairSpec
INVARIANTS LockHeld NothingLeaks
PROPERTIES ImplementsFileLock TimedCallEnds LockIsServed
