-------------------------------- MODULE Parts --------------------------------
(***************************************************************************)
(* The parts that share no state with the order manager, or only its       *)
(* orders, side by side, and what each of them promises its caller.        *)
(***************************************************************************)
EXTENDS HttpTransport, Gates, Integers, Sequences, FiniteSets

CONSTANTS
  FeedKeys, QueueSize, MaxEvents, MaxControls, MaxOutages, MaxReconnects,  \* Feed
  Levels, MaxSequence, MaxBuffered, MaxSnapshots,                          \* Book
  BufferSize, MaxItems, Opens,                                             \* SyncBridge
  BarTime, MaxWrites, MaxRuns,                                             \* BarStore
  FillKeys, TimeOf, Quantities, Prices, Marks,                             \* Ledger
  Senders, Handshakes, Weight, Capacity, LimitTime, MaxSends, MaxHolds    \* RateLimits

VARIABLES
  feedKind, published, spent, wire, ws, gates, got,                    \* Feed
  truth, sent, fetched, asked, rest, book,                             \* Book
  client, loops, closer, call, reader, pump, shared, source,           \* SyncBridge
  clock, rows, txn, asOf, done, fill, barSpent,                        \* BarStore
  ledger, fills,                                                       \* Ledger
  now, buckets, tasks, hold, limitSent                                 \* RateLimits

FeedPart == INSTANCE Feed WITH kind <- feedKind, Keys <- FeedKeys
BookPart == INSTANCE Book
SyncPart == INSTANCE SyncBridge
BarPart == INSTANCE BarStore WITH spent <- barSpent, MaxTime <- BarTime
LedgerPart == INSTANCE Ledger WITH Keys <- FillKeys
LimitPart == INSTANCE RateLimits WITH
  sent <- limitSent, Requests <- Senders, MaxTime <- LimitTime

-------------------------------------------------------------------------------
\* Whatever is lost on the way to the caller is flagged, and nothing is given twice.
FeedIsHonest == FeedPart!FeedIsHonest
\* A synced book is the venue's (BookBuilder).
BookIsTrue == BookPart!BookIsTrue
\* A stream or a call that a close cuts short raises (sync.py).
CutShortMeansRaised == SyncPart!CutShortMeansRaised
\* The past stands, and a complete backfill has its bars (store.py).
StoreIsHonest == BarPart!StoreIsHonest
\* Realized and open profit, and the fees, are those of the fills (accounting).
BooksBalance == LedgerPart!BooksBalance
\* The venue's budget and its holds are kept (RateLimiter, _WeightLimiter).
LimitsAreKept == LimitPart!LimitsAreKept
===============================================================================
