CONSTANTS
  Sizes = {1, 2, 3}
  Prices = {1}
  Reports <- AllReports

SPECIFICATION Spec

INVARIANT CompletionMatchesFills
INVARIANT OverfillSurfaced
INVARIANT RedeliveryIsHarmless
INVARIANT BustAndFillCommute
PROPERTY EndedOrdersStayEnded

