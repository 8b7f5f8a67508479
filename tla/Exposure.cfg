SPECIFICATION FairSpec
CONSTANTS
  f1 = f1
  Fills = {f1}
  Lookback = 1
  MaxTime = 3
  MaxTrouble = 2
  UpsetCost = 2
INVARIANT NothingBehindTheMark
INVARIANT AdjustedOnce
INVARIANT AcceptingMeansCaughtUp
PROPERTY EventuallyOnRecord
CHECK_DEADLOCK FALSE
