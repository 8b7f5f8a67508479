SPECIFICATION FairSpec
CONSTANTS
  e1 = e1
  e2 = e2
  e3 = e3
  Engagers = {e1}
  MaxEngages = 1
  MaxReleases = 1
  MaxElsewhere = 1
  MaxElsewhereReleases = 1
  MaxWriteFaults = 1
  MaxReadFaults = 1
  MaxCrashes = 1
PROPERTY EventuallyOnRecord
PROPERTY EngagesBind
