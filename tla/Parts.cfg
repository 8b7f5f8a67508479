SPECIFICATION PartsSpec
CONSTANTS
  Calls = {c1, c2}
  MaxAttempts = 2
  Threshold = 2
  MaxCalls = 4
  FeedKeys = {"k1", "k2"}
  QueueSize = 1
  MaxEvents = 3
  MaxControls = 1
  MaxOutages = 1
  MaxReconnects = 1
  Levels = {"bid", "ask"}
  MaxSequence = 2
  MaxBuffered = 1
  MaxSnapshots = 2
  Ids = {1, 2}
  MaxPosition = 2
  AllowShort = FALSE
  AmountsOf = 2
  MaxEngages = 0
  MaxAmends = 1
  MaxCancels = 1
  MaxDoubts = 1
  MaxOfThese = 2
  BufferSize = 1
  MaxItems = 2
  Opens = 2
  BarTime = 2
  MaxWrites = 1
  MaxRuns = 2
  FillKeys <- TwoOrders
  TimeOf <- LaterOrder
  Quantities = {1, 2}
  Prices = {12, 36}
  Marks = {0, 24}
  Senders = {"r1", "r2"}
  Handshakes = {"s1"}
  Weight <- OneIsHeavy
  Capacity <- SmallBuckets
  LimitTime = 3
  MaxSends = 2
  MaxHolds = 2
CHECK_DEADLOCK FALSE
INVARIANT ProbeIsHeld
INVARIANT SentOnceAndKnown
INVARIANT FeedIsHonest
INVARIANT BookIsTrue
INVARIANT VenueStaysWithinChecks
PROPERTY AmendYields
INVARIANT CutShortMeansRaised
INVARIANT StoreIsHonest
INVARIANT BooksBalance
INVARIANT LimitsAreKept
