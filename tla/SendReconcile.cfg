CONSTANTS
  c1 = c1
  c2 = c2
  Callers = {c1}
  MaxCrashes = 1
  MaxFaults = 0
  MaxQueryFaults = 1
  MaxCancels = 1
  MaxAbandons = 1

SPECIFICATION FairSpec

PROPERTY EventuallyAgrees
INVARIANT LiveOrdersAreCounted
