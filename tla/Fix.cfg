SPECIFICATION FixSpec
CONSTANTS
  c1 = c1
  c2 = c2
  o1 = o1
  Callers = {c1, c2}
  Operators = {o1}
  Size = 2
  MaxFills = 2
  MaxBusts = 1
  MaxUnread = 2
  MaxMoves = 3
  MaxTrouble = 2
  MaxOurs = 1
  MaxTheirs = 1
  MaxNumber = 30
SYMMETRY Symmetric
CHECK_DEADLOCK FALSE
INVARIANT SentOnce
INVARIANT NothingForgotten
INVARIANT FilledAccountsForFills
INVARIANT NothingIsPassedOver
INVARIANT NeverTooLow
