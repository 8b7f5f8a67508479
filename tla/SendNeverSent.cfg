CONSTANTS
  c1 = c1
  c2 = c2
  Callers = {c1}
  MaxCrashes = 0
  MaxFaults = 0
  MaxQueryFaults = 0
  MaxCancels = 0
  MaxAbandons = 0

SPECIFICATION Spec

INVARIANT NeverSentIsTrue
