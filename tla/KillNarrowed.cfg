SPECIFICATION Spec
CONSTANTS
  e1 = e1
  e2 = e2
  e3 = e3
  Engagers = {e1, e2, e3}
  MaxEngages = 3
  MaxReleases = 1
  MaxElsewhere = 0
  MaxElsewhereReleases = 0
  MaxWriteFaults = 0
  MaxReadFaults = 0
  MaxCrashes = 0
SYMMETRY EngagerSymmetry
INVARIANT SweepStays
