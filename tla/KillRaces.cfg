SPECIFICATION Spec
CONSTANTS
  e1 = e1
  e2 = e2
  e3 = e3
  Engagers = {e1, e2}
  MaxEngages = 2
  MaxReleases = 1
  MaxElsewhere = 1
  MaxElsewhereReleases = 0
  MaxWriteFaults = 1
  MaxReadFaults = 1
  MaxCrashes = 1
SYMMETRY EngagerSymmetry
INVARIANT EngageStays
