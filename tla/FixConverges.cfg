SPECIFICATION FairSpec
CONSTANTS
  MaxTrouble = 1
  MaxOurs = 1
  MaxTheirs = 1
  MaxNumber = 20
PROPERTY Converges
