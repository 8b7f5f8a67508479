SPECIFICATION Spec
CONSTANTS
  w1 = w1
  w2 = w2
  Writers = {w1, w2}
  Readers = {r1}
  Orders = {o1}
  NoOrder = NoOrder
  NoAnchor = NoAnchor
  MaxAppends = 4
  MaxCrashes = 1
  MaxAnchorLosses = 1
  MaxChanges = 1
INVARIANT NoFalseAlarm
PROPERTY AnchorNeverMovesBack
PROPERTY ImplementsLog
INVARIANT ChangesStayVisible
