------------------------------- MODULE MCParts -------------------------------
(***************************************************************************)
(* Small instances of Parts for TLC: one run checks them all.  A behaviour *)
(* takes one part as its subject, and the others stay as they began, so    *)
(* that the run's states are those of each part by itself.                 *)
(***************************************************************************)
EXTENDS Parts

CONSTANT MaxOfThese  \* how many amends, cancels and lost answers two orders meet together

VARIABLE subject  \* the part that moves

TwoOrders == {<<"o1", 1>>, <<"o1", 2>>, <<"o2", 1>>}
LaterOrder == [k \in TwoOrders |-> IF k[1] = "o2" THEN 2 ELSE 1]
OneIsHeavy == [c \in {"r1", "r2", "s1"} |-> IF c = "r2" THEN 2 ELSE 1]
SmallBuckets == [weight |-> 2, connect |-> 1]

\* More happens to an order that is alone, and the switch is engaged.
Alone == INSTANCE Gate WITH at <- submitAt, wire <- gateWire, AmountsOf <- 1,
  MaxEngages <- 1, MaxAmends <- 2, MaxCancels <- 2, MaxDoubts <- 2

PartsInit ==
  /\ subject \in {"http", "feed", "book", "gate", "alone", "sync", "bars", "ledger", "limits"}
  /\ Init /\ FeedPart!Init /\ BookPart!Init /\ GatePart!Init /\ SyncPart!Init /\ BarPart!Init
  /\ LedgerPart!Init /\ LimitPart!Init
  /\ subject # "feed" => feedKind = CHOOSE k \in FeedPart!Kinds : TRUE
  /\ subject # "ledger" => ledger.method = "fifo"
feedVars == <<feedKind, published, spent, wire, ws, gates, got>>
bookVars == <<truth, sent, fetched, asked, rest, book>>
gateVars == <<orders, request, lock, submitAt, amend, cancels, kill, gateWire, venue, reports,
              late, used>>
syncVars == <<client, loops, closer, call, reader, pump, shared, source>>
barVars == <<clock, rows, txn, asOf, done, fill, barSpent>>
ledgerVars == <<ledger, fills>>
limitVars == <<now, buckets, tasks, hold, limitSent>>
partVars == <<subject, vars, feedVars, bookVars, gateVars, syncVars, barVars, ledgerVars,
              limitVars>>

OnlyMoves(part) ==
  /\ subject = part /\ UNCHANGED subject
  /\ part # "http" => UNCHANGED vars
  /\ part # "feed" => UNCHANGED feedVars
  /\ part # "book" => UNCHANGED bookVars
  /\ part \notin {"gate", "alone"} => UNCHANGED gateVars
  /\ part # "sync" => UNCHANGED syncVars
  /\ part # "bars" => UNCHANGED barVars
  /\ part # "ledger" => UNCHANGED ledgerVars
  /\ part # "limits" => UNCHANGED limitVars
HttpMoves == OnlyMoves("http") /\ Next
FeedMoves == OnlyMoves("feed") /\ FeedPart!Next
BookMoves == OnlyMoves("book") /\ BookPart!Next
GateMoves ==
  OnlyMoves("gate") /\ GatePart!Next /\ used'.amends + used'.cancels + used'.doubts <= MaxOfThese
AloneMoves == OnlyMoves("alone") /\ Alone!Next /\ \A id \in Ids \ {1} : submitAt'[id] = "idle"
SyncMoves == OnlyMoves("sync") /\ SyncPart!Next
BarsMove == OnlyMoves("bars") /\ BarPart!Next
LedgerMoves == OnlyMoves("ledger") /\ LedgerPart!Next
LimitsMove == OnlyMoves("limits") /\ LimitPart!Next
PartsNext ==
  \/ HttpMoves \/ FeedMoves \/ BookMoves \/ GateMoves \/ AloneMoves \/ SyncMoves
  \/ BarsMove \/ LedgerMoves \/ LimitsMove
PartsSpec == PartsInit /\ [][PartsNext]_partVars
===============================================================================
