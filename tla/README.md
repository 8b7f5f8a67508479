# Verification of ismet

ismet is a Python library that gives strategies one interface to several
trading venues: market data in, orders out, and a record on disk of every
order.  What makes it more than a set of adapters is the promise of its
execution layer: **an order is sent at most once, what is known of it survives
any crash, nothing is guessed where the venue's answer was lost, and a kill
switch, once engaged, stays engaged until a named operator releases it.**
These modules state that promise, check it with TLC on small instances and
prove parts of it with TLAPS for every size.

All source paths below are relative to `src/ismet/` of the repository.

## 1. Inventory

### 1.1 Components

| component | source | state it keeps | operations | modelled by |
|---|---|---|---|---|
| Order reducer | `execution/state.py`, `models/orders.py` | one `OrderState` per client order id: status, size, fills, busts, requested terms, flags | `new_order`, `apply_event`, `replay` | OrderState, OrderLifecycle |
| Order manager: one order | `execution/manager.py` | `_orders`, `_unjournalled`, where a send has got to (`_submitting`, `_placing`, `_cancel_before_send`), since when an order is unknown (`_unknown_since`) | `submit`, `_send`, `cancel`, `_on_venue_event`, `reconcile`, `_recover` | SendPath |
| Kill switch | `execution/manager.py`, `execution/journal.py` | `_kill`, `_kill_unrecorded`, `_kill_record_lock`, the journal's kill rows | `engage_kill`, `release_kill`, `_kill_loop`, `_check_can_trade`, `_merge_kill` | KillSwitch, KillRecords |
| Journal | `execution/journal.py` | SQLite rows chained by SHA-256, an anchor file | `append`, `verify`, `kill_state` | Journal, JournalLog |
| Risk engine, amend | `execution/risk.py`, `execution/manager.py` | open orders, positions, `_submit_lock` | the checks of `submit` and `amend`, `amend` from its check to its answer | Gate |
| Fills, positions, breaks, stream loop | `execution/manager.py`, `execution/reconcile.py` | booked fills, adjustments, the fill sweep's mark, reported breaks, health flags | `start`, `_stream_loop`, `reconcile`, `_sweep_fills`, `_check_positions`, `_report_break`, `_merge_adjustments`, `adjust_position` | Exposure |
| FIX store | `fix/store.py` | sequence row, outbound messages, orders, executions, quarantine | each transaction | FixStore |
| FIX session | `fix/session.py` | `_state`, numbers, the gap under way, `_send_lock` | logon, send, resend, gap fill, reset, logout, the timers | FixSession |
| FIX provider | `fix/provider.py` | waiters, executions, quarantine, the event backlog | `place_order`, `cancel_order`, `amend_order`, `order_status`, reports, `release_quarantine`, `stream_executions` | FixOrders |
| HTTP transport | `transport/http.py`, `backoff.py`, `circuit.py` | breaker state, failure count, probe flag | `request` with its retries | HttpTransport |
| Rate limiter | `transport/ratelimit.py`, `providers/binance/__init__.py` | tokens, the hold | `acquire`, `wait_out_hold`, the hooks of a stream | RateLimits |
| WebSocket transport, stream gate, sequence guard | `transport/ws.py`, `normalize/_common.py`, `marketdata/quality.py`, the adapters | the bounded queue and its counters, the trackers | `_enqueue`, the consumer, reconnects, `StreamGate`, `SequenceGuard` | Feed |
| Book builder | `marketdata/book.py` | levels, the delta buffer | `apply_snapshot`, `apply_delta` | Book |
| Position ledger | `accounting/__init__.py` | lots, realized P&L, fees | `apply`, `build_ledger` | Ledger |
| Bar store and backfill | `store.py` | bars by the time they were known, done windows | `write`, `read`, `backfill` | BarStore |
| Synchronous bridge | `sync.py` | the loop, its thread, the streams | `open`, `close`, `_run`, `_iterate` | SyncBridge |
| Reference data, calendars, FIX encoding, models, CLI, test doubles | the rest | mostly none | pure translation and lookup | not modelled (section 8) |

### 1.2 How they interact

* A strategy calls `OrderManager.submit`.  The manager asks the risk engine and
  the kill switch under one submit lock, appends `SubmitIntent` to the journal,
  and starts a task that sends.  The task appends `SendStarted` **before** it
  calls the venue's `place_order`, and the outcome after it.
* The venue answers through the provider (HTTP transport or FIX session) and
  sends events through the private stream.  Both reach `_record`, which appends
  the event to the journal and folds it into the order with `apply_event`.
* A reconcile pass asks the venue about what the manager believes open or
  unknown (`order_status`, `open_orders`, the fill sweep), and records what it
  learns the same way.
* After a crash, `_recover` replays the journal and closes or marks unknown
  whatever was under way.
* Several processes may share one journal: the CLI engages and releases the kill
  switch in it, and other order managers append to it.
* A FIX provider is a session, its store and the provider over both.  The session
  numbers and stores a message in one transaction, writes it, and hands each
  inbound message to the provider, which stores what it says before the session
  counts it as handled.
* Market data goes from a socket's reader through a bounded queue to an adapter, a
  gate, the client's sequence guard and, for books, the builder.
* `sync.py` puts a thread with an event loop under all of it, for callers that
  block.

Everything but the journal's executor thread runs on one asyncio event loop, so
the unit of atomicity is the code between two awaits.  A journal call is an
await, and so is a venue call; these are the points where tasks interleave and
where tasks may be cancelled or the process may die.

### 1.3 What is hard here, and what makes each part correct

* **Order reducer.**  Reports come late, twice and out of order; a fill may be
  corrected or busted before it is seen; size may be asked to change and never
  be answered.  Correct: each fill counted once, money equal to the fills, an
  ended order stays ended, and the final money does not depend on the order in
  which reports arrive.
* **Order manager.**  The answer to `place_order` may be lost; a crash may fall
  between any two records; a cancel, a kill and a second submit race the send.
  Correct: at most one send for an id, `SendStarted` on record before it, an
  "unsent" verdict never wrong, a live order at the venue always counted as
  open or unknown, and after the disturbances end, both sides agree.
* **Kill switch.**  Memory must stop orders at once, though the record is
  written by an executor; other processes engage and release; stale reads
  return late.  Correct: an engage holds until a release that came after it.
* **Journal.**  Two connections append; the anchor file is outside the
  transaction.  Correct: one log, at most one intent per id, no false alarm of
  `verify`, and no later append makes a damaged history look sound.
* **HTTP transport.**  Calls share one breaker; a call may end in ways that do
  not count.  Correct: the half-open probe never leaks; a request that must be
  sent once is; "not sent" is said only when nothing was done.
* **Risk and amend.**  A check reads open orders while others are on their way; a
  fill, a cancel or a kill lands while a change is being recorded.  Correct: what
  the venue may still execute stays inside the limits; no change goes out after a
  cancel or a kill.
* **Fills, positions and breaks.**  A query shows a fill late; a pass may fail
  anywhere, the journal may refuse a write, the process may die with a break found
  and not recorded.  Correct: the mark of the sweep never moves past a fill that is
  not on record; an adjustment counts once; orders are accepted only when earlier
  fills are known.
* **FIX session.**  Numbers and messages are stored apart from the write; gaps open
  on both sides at once; either side resets.  Correct: no application message is
  passed over unheard, and no number is too low.
* **FIX provider.**  A request times out and is answered late; a report is lost,
  repeated, contradicts the last one or cannot be read.  Correct: one order for one
  id, no report passed over without a trace, and a filled quantity that accounts for
  the fills.
* **Feed and book.**  The queue overflows, the socket drops, a snapshot is older
  than the buffer.  Correct: the next event says that something is missing; a book
  that calls itself synced is the venue's.
* **Rate limiter, ledger, bar store, bridge.**  Waiters are cancelled, fees come
  late, two processes write bars, a client is closed under its callers.  Correct:
  the venue's budget and holds are kept, profit is that of the fills, the past does
  not change, and whatever is cut short raises.

`PROJECT.json` lists the hazards one by one, with the line where each bites and
the properties that would catch it.

## 2. Modules

Each component has a module named for it.  Constants with their assumptions come
first, then the variables, one action per handler or step between two awaits,
the specification and the properties.  A module `MCx` extends `x` with small
values for TLC, and `xProofs` extends `x` with the theorems about it (`OrderProofs` those
of `OrderLifecycle` and `Gate`, `PartsProofs` those of the other parts).  A
definition named `SlipY` stands before `Y` and is not used: it is `Y` with a
plausible mistake, kept to show that a property notices it.

```
OrderState ---- OrderLifecycle ---- OrderProofs
     \   \            \----------- MCOrderLifecycle
      \   \---- SendPath ---------- SendPathProofs, MCSendPath
       \------- Gate ---- Gates ---- OrderProofs
KillSwitch ------------------------ KillSwitchProofs, MCKillSwitch
KillRecords ----------------------- KillSwitchProofs
JournalLog ---- Journal ----------- JournalProofs, MCJournal
Exposure -------------------------- ExposureProofs, MCExposure
FixStore ------ FixSession
        \------ FixOrders ---------- FixOrdersProofs
FixSession, FixOrders -------------- MCFix
HttpTransport, Feed, Book, Gates, SyncBridge, BarStore, Ledger,
RateLimits ------ Parts ------------ PartsProofs, MCParts
Induction -------------------------- the proofs about data of any length
```

### 2.1 OrderState and OrderLifecycle

`OrderState` is the reducer of `execution/state.py` as operators on a record.
The transition table is one function per kind of event, whose domain is the set
of statuses in which the event is legal; `ApplyFill`, `ApplyBust`,
`ApplyReplaced`, `ApplyRestated` and their kin are the functions that change
money or terms, and `Settle` is what `apply_event` does after each of them.
Decimal amounts are natural numbers; an anomaly text is a member of a small
set, where the kinds that halt trading keep their own name.  `filled_notional`
is booked by the same two statements as `filled_quantity` and is left out.

`OrderLifecycle` puts one order (`order`) under every event, in any order and
any number of times: that is what a venue whose reports are delayed, repeated
and reordered can do to it.  Two history variables are never read by what stands
for code: `forced` (the venue has restated the status) and `dropped` (a
requested size lapsed while its replace was unanswered).

### 2.2 SendPath

One client order id in one order manager, with its journal, its venue and its
event stream.  The folding of events into the order is `OrderState`'s.

| variable | in the code |
|---|---|
| `up`, `mem` | whether the process runs; the order in `self._orders` |
| `disk`, `backlog` | what a replay of the journal gives; events the journal missed and `_unjournalled` still holds |
| `kill`, `killDisk` | the kill switch in memory and on record |
| `at[c]` | where each `submit` and the `_send` it started has got to; a pc that is a reject code is about to record that code |
| `cancelAt`, `cancelBeforeSend` | the task in `cancel`, and the set of ids whose cancel came first |
| `reconAt`, `answer`, `unsentSeen` | the reconcile pass: its step, the venue's last answer, and whether it listed the order before its send |
| `moved`, `aged` | whether an event came since the pass looked, and which grace periods have passed |
| `attempts`, `wire`, `cancelWire`, `venue`, `purged` | the outside: calls of `place_order`, requests in flight, what the venue made of them; no step of the manager reads these |
| `refusals`, `killFirst`, `canceledFirst` | history: the codes recorded as never sent, whether the switch was engaged before `SendStarted` was recorded, and whether a cancel was left to the send path; no step reads these |

`Submit`'s steps follow `submit` and `_send`: the lock and the kill check, the
intent, `SendStarted`, the second look at the kill switch and at a cancel, the
call, and the record of its outcome.  Reconciliation is the pass over this order:
query, restate, not found, the protective cancel, orphans and the fill sweep.

### 2.3 KillSwitch and KillRecords

`KillSwitch` is the manager's memory of the switch, the journal's, and the calls
to the journal that are under way.  A journal call is issued, executed by the
executor in order, and answered in order: three steps, with any task running
between them.  `engaged` and `cancel_open` are one width (Off, Halted,
Sweeping).  Two variables are history: `asked` is the widest engage since the last
release, and `binds` is how much of it the process can be held to (section 4).

`KillRecords` is the reading of the switch out of the journal's rows
(`_kill_state_from`), one row at a time; `KillSwitchProofs` proves what it finds.

### 2.4 JournalLog and Journal

`JournalLog` is what the `Journal` protocol promises: an append-only log with at
most one intent for each order, where an append that returned has landed and one
that raised has not.  `Journal` is `SqliteJournal`: transactions under SQLite's
write lock, the hash chain, the anchor file with its own lock, `verify`, and
what may happen to the files besides append (an older copy, a changed row, a
missing row).  A digest is modelled as the history it commits to, so the only
assumption on SHA-256 is that no two histories share one.

### 2.5 HttpTransport

`HttpTransport.request` as its steps between awaits: check the breaker, wait for
the rate limit, send, take the outcome (counted, judged and mapped without an
await), back off, try again; and cancellation at each await.  The breaker is
translated operation by operation.  Time is one flag: whether `recovery_timeout`
has passed since the breaker opened.

### 2.6 Exposure

The manager's record of fills and positions, with its passes and its restarts:
one order that has ended and may still be filled, fills of orders ismet never
sent, and one working order that may vanish.

| variable | in the code |
|---|---|
| `disk` | what a replay of the journal gives: fills, orphans, the mark (`sweep_mark`), adjustments, the halt |
| `mem` | the fills of `_orders`, `_unjournalled`, `_reported_orphan_fills`, `_last_sweep`, `_adjustments_seen`, `_kill`, the flags that `_check_can_trade` reads |
| `look` | the two callers of `_merge_adjustments` |
| `pass` | the one pass that holds `_recon_lock`: its step, what it has still to book, the breaks found |
| `loop`, `stream` | `_stream_loop` and the subscription |
| `venue`, `now` | the outside: when each fill happened, and which of them queries show |

A pass is a step for each stretch between awaits: adjustments, the working order,
the sweep, each fill, positions and their second look, each break's halt and its
record, and the mark.  A journal write lands or fails.

### 2.7 FixStore, FixSession and FixOrders

`FixStore` has one operator for each transaction of `SqliteFixStore`.
`FixSession` is one initiator over any number of connections.  What a task has
still to do between its awaits is a sequence of ops (`todo`), so that a handler is
a list of what it does in order, and a cancellation or a crash cuts the list
short; a transaction that runs on the store's thread commits even then.  The peer
is an acceptor and external.  `FixOrders` is one order over such a session, as
the provider sees it: place, cancel, amend and status with their waiters, reports
with their transaction, the quarantine and its release, and the stream of events.
A report is what its tags mean.  History variables (`seen`, `past`) note what the
peer was owed and told; no step reads them for a decision.

### 2.8 Gate

Two orders, or more, from their check to their end, under the submit lock: the
limits that read what other orders may change (position, short sale, unknown
orders, self match).  Each order is a record of `OrderState`.  Requests cross the
wire in any order with one another; reports come in order.  One amendment is at hand at
a time; the answer to one that is no longer awaited changes nothing but the stream.
The stream speaks whenever it likes: the venue puts an acknowledgement on it for every
order it takes, and the manager may hear it before or after the answer to its own call,
or after an answer that never came (`fix/provider.py:996`).  The history variable `late`
holds the orders that an acknowledgement took out of UNKNOWN, and those that lost
requested terms by it.

### 2.9 Feed and Book

`Feed` has the reader and the consumer of `WebSocketTransport` as two tasks that
share the queue and its counters, the three kinds of adapter (numbers that jump,
numbers without jumps, no gate) and the client's guard.  `Book` is the builder
over a feed that loses whole updates and snapshots that come late.

### 2.10 SyncBridge, BarStore, Ledger, RateLimits

`SyncBridge`: one thread opens and closes the client while one calls and one
reads a stream; loops are numbered, so that the old one and the new one differ, and
`client.cutOff` notes the loops on which a close gave up `cancel_rest`.
`BarStore`: two processes, a reader of the past at any moment (`asOf.beside` notes that a
write begun by that time was open), a backfill of two windows, and a session that opens
in one window and closes in the other.  `Ledger`: the books under first-in,
last-in and average lots.  `RateLimits`: a bucket's fair lock held over a sleep,
and the hold.

### 2.11 Parts, MCParts and MCFix

`Parts` puts eight parts that share no state side by side, each as an instance of its
module, and states what each of them promises; `PartsProofs` proves about them.
`MCParts` is one run for all eight: each behaviour chooses one as its subject and leaves
the others as they began, so the run's states are the sum of the parts' and not their
product.  `Gate` is there twice, with two orders and with one; it is a part by way of
`Gates`, which `OrderProofs` extends as well.  `MCFix` does the same for the FIX orders
and the FIX session.

## 3. What the runs check

| run | question | bounds |
|---|---|---|
| `order_money` | Does the reducer keep money, status and size right, whatever order the reports arrive in? | one order of size 1 to 3; six fill reports, among them one execution with other terms and other fees, and one for another symbol; every event any number of times |
| `send_safety` | Is an order sent at most once, recorded first, never wrongly called unsent, and stopped by a kill or a cancel? | two concurrent callers, one crash, one journal fault, one cancel, one abandoned call |
| `send_reconcile` | Is what is live at the venue always counted, and do manager and venue agree in the end? | one caller, one crash, one failed query, one cancel, one abandoned call; fair steps |
| `send_never_sent` | Is an order that was closed as never sent really unsent? (No: section 6.) | one caller, no fault at all |
| `kill_races` | Is a kill ever switched off, narrowed or lost by a race? | two concurrent engages, a release, an engage elsewhere, one failed write, one failed read, a crash |
| `kill_narrowed` | Can an engage only widen? (No: section 6.) | three engages, one release, no fault |
| `kill_converges` | Does a check refuse what is on record, and do memory and journal agree in the end? | one engager, a release, an engage and a release elsewhere, one fault of each kind; fair steps |
| `journal_appends` | Is the journal one log, is `verify` right both ways? | two connections, a reader, four appends, a death, a lost anchor, one change of history |
| `fix` | Is an order sent once, and is every report accounted for? Is any application message passed over unheard, or a number too low? | orders: two callers, one operator, an order of two, two fills, one bust, two unread messages, three moves out of calls, crashes, disconnects, losses, bad and repeated reports. Session: one application message each way; two troubles out of drops, crashes, stops, resets of both sides, a new period (the session resets its numbers with each; `fix_converges` has one that does not, too), a handler that raises, a peer that refuses a logon, logs out or skips numbers, early timeouts |
| `fix_converges` | Is the session ready in the end, with nothing owed? | the session of `fix` with one trouble; fair steps |
| `exposure` | Does the mark pass a fill, does an adjustment count twice, is an order accepted behind a hole, is each fill recorded in the end? | one fill, ours or an orphan; a lookback of one in a time of three; two faults, or one upset (a failed query, a lost stream, a vanished order, an adjustment) |
| `parts` | What each of eight parts promises (below) | below |

The subjects of `parts`:

| subject | property | bounds |
|---|---|---|
| HttpTransport | `ProbeIsHeld`, `SentOnceAndKnown` | two calls at once, four in all, two attempts, threshold two |
| Feed | `FeedIsHonest` | two keys, a queue of one, three events, one control message, one outage |
| Book | `BookIsTrue` | two levels, two numbers, a buffer of one, two snapshots |
| Gate | `VenueStaysWithinChecks`, `AmendYields` | two orders of one or two, a limit of two, two of: an amend, a cancel, an answer in doubt; and one order of one, two amends, two cancels, two answers in doubt, one kill |
| SyncBridge | `CutShortMeansRaised` | a buffer of one, two items, opened twice |
| BarStore | `StoreIsHonest` | two processes, two windows, two runs, one outside write |
| Ledger | `BooksBalance` | three fills of two orders, two sizes, two prices, three lot methods |
| RateLimits | `LimitsAreKept` | two requests of weights one and two, a handshake, two sends in all, two holds |

The bounds are chosen so that every pair of steps that can race does.  Two
callers, two engagers and two connections are enough for the locks and flags of
the code, each of which tells only its holder from the others (an engage that acts
on stale memory needs a third, in `kill_narrowed`, under whose bounds `EngageStays`
holds as well); a probe needs a
call to open the circuit, one to hold the probe and one to take it away, and the
four calls of two callers can be those.  One fault of each kind meets every other
step once; a second takes an error path that was taken before, save where
recovery itself may fail, and there (the session in `fix`, `exposure`) two are allowed.
In `SendPath` the order has size 1, so that one fill completes it: partial fills
are `OrderLifecycle`'s subject, whose executions of sizes 1, 2 and 1 reach, meet
and pass every order size.  A queue or buffer of one is full after one step,
which is the case of interest.  In `Exposure` a fill is either before or behind
a mark by itself, so that one is enough; its proof is for any set of them.  A loss in
`Feed` is judged by the events of one key on both sides of it, which takes three events.
`Gate` has two instances in `parts`.  The one with two orders leaves the kill switch out,
which only ever stops a step (`CanTrade`, `MaySend`), and stops at two of its three troubles
(`MaxOfThese`), so that it fits: all three with two orders were checked apart, with
`Gate` alone, and hold (3.6 million states).  The one with a single order has the switch, and
each trouble twice, which is what it takes for a late answer to meet the next request.  The
proofs of section 5 remove the bounds for most of the safety properties.

`MaxNumber` in `FixSession` ends the retries of a session that never stops; no
behaviour within the other bounds reaches it.

`CHECK_DEADLOCK FALSE` is given where a model is finished when its bounds are used
up and nothing is asked of it any more.

Two runs end in a violation on purpose, `send_never_sent` and `kill_narrowed`: each
checks one sentence of the repository that the code does not keep (section 6).

Every property was also checked against a mistaken version of a definition it
depends on (`mutants`), so none of them holds by the shape of the model.

## 4. Assumptions

* **OrderState.**  Prices are only compared with one another, so one price is
  enough in a run; sizes are positive.
* **SendPath.**  The unknown grace is longer than a request can stay in flight,
  which is what the grace is for: an order not found before that proves nothing.
  The switch is only engaged in this module (releases are KillSwitch's).  A
  refusal before the intent for another reason than the kill switch (risk,
  stream, journal) is a free choice.  `_record`, which appends to the journal and
  folds the event under one lock, is one step, taken after its caller has
  yielded, so that whatever the caller read before may be stale.
* **KillSwitch.**  The executor runs the journal's calls one at a time in the
  order they were issued, and the event loop resumes the callers in that order.
  The event loop starts tasks in the order they were created (`ready`).
  `EngageStays` holds the process to what it was asked (`asked`) as far as `binds`
  goes, for reasons section 6 tells: after a release by another process to nothing,
  until this one releases; after a release of its own that overtook an engage to the
  halt, but not to the width; and so too after an engage of its own was recorded upon
  a wider one from elsewhere.
* **Journal.**  SQLite's transactions are atomic and durable; a dead process's
  lock is freed.  `os.replace` is atomic or fails.  History is changed once.
* **HttpTransport.**  A response of 400 to 499 says that the attempt was not acted
  on.  A connect failure says that it was not sent.
* **Exposure.**  A fill shows in queries no later than `fill_lookback` after it
  happened, which is what that setting is for.  The fills that can come are those
  of orders known from the start or of none.  `_recon_lock` is held over a pass.
* **FixSession.**  A connection delivers in order what it delivers, and loses the
  rest when it ends.  The peer keeps its numbers over connections, drops what comes
  above a gap until the gap is filled, and after a reset of its own ignores
  everything up to our Logon.  A timeout fires when nothing is on its way, or early
  at the cost of one trouble.  A failing store, which ends the session, is left out.
* **FixOrders.**  The session hands over each message until its handler has
  returned.  The venue may contradict itself and repeat old reports; each such
  message is one of the bounded moves.
* **Gate.**  Executions are of one unit; the venue acknowledges an order once on the
  stream, reports of one order come in order, and a request crosses the wire once.
* **Feed.**  The venue numbers the events of a key upwards; a lost connection loses
  what was in it.  **Book.**  A snapshot is what the book was at its number.
* **SyncBridge.**  One thread opens the client; a call is one await long; a loop may be
  blocked for longer than a close waits.
* **BarStore.**  A transaction is visible at its commit, at once and as a whole.  A reader
  reads at a time that is over by its clock, whatever is being written then.
* **Ledger.**  Fills of one multiplier and one fee currency; a price divides exactly.
* **RateLimits.**  A sleep ends on time or late; the lock of a bucket is fair, as
  asyncio's is.

### Fairness

* `send_reconcile`: weakly fair are the steps of tasks that were started (the
  event loop runs them), the passes of the reconcile loop and the rewriting of
  events the journal missed (both timer loops), the passing of each grace period,
  the arrival or the loss of a request, the arrival of a cancel, and the restart
  of a dead process.  Nobody has to submit or cancel, the venue need not act on
  an order, and the stream need not report anything: `EventuallyAgrees` asks
  that once the venue stops acting, the passes alone bring both sides together.
* `kill_converges`: weakly fair are the executor's calls, the steps of tasks
  that were started, and the kill loop, which is a timer loop.  Nobody has to
  engage or release.
* `fix_converges`: weakly fair are the steps of the session's tasks and of one call
  of the application, the timers' retries and their giving up once nothing is on
  its way, reconnecting (the runner's loop), the start of a stopped session, and the
  peer's reading.  Nobody has to send.
* `exposure`: weakly fair are the pass and its reading of adjustments, the
  reconcile timer, the stream loop, the consumer, the rewriting of events the
  journal missed, the restart of a dead process, and that a fill shows in the end.
  Nobody has to trade or adjust, time need not pass, and the stream need not report
  the fill: `EventuallyOnRecord` then rests on the passes.

## 5. What is proved

The theorems hold for every value of the constants that the named assumptions
allow.  TLC found every invariant, with its strengthening, to hold on the small
instances first.

**OrderProofs**.  *OrderLifecycle*, for every set of sizes, prices and fill reports.  The
safety invariants are proved together, because they lean on one another: that a
completed order has really filled needs the record's shape, and an overfill can
stay surfaced only while the terms it was judged against are there.  `Sound` is
their common part before `Settle` drops stale terms; one lemma per operator of
the reducer shows that it keeps `Sound`, and `Becomes` restores the rest.  The
tie between status and fills needs the two history variables, because the code
gives it up after a restatement (`forced`) and after a requested size lapsed
unanswered (`dropped`).  Theorems: `OrderInvariant`, `TypeCorrect`,
`FillsCountedOnce`, `PendingTermsLapse`, `CompletionIsHonest`,
`OverfillIsSurfaced`, `BustAndFillCommuteAlways`, `EndedStaysEnded`.  That a report
told twice is harmless (`RedeliveryAlwaysHarmless`) rests on the first telling having
settled the order: a fill that is known is only compared with itself, so that all it
can add is a note, and `Settle` finds nothing left to drop.
*Gate*, in the same module, for any orders and bounds: a cancel leaves its order in a
status that lets no amendment out (`Barred`), and what could give the status back is the
report of another amendment or the answer to the cancel.  So `YieldInv` says that an order has one open
amendment at most, at the venue, on its way or in the stream, and shows it as long as it
is open (`OneIsOpen`, `Hanging`); a checked one is then the only one.  All this is said of
orders that no acknowledgement took out of UNKNOWN (`late.revived`), which is where the code
gives it up (section 6).  A cancel is asked only once the venue was called, and before that
nothing of an order is on its way, at the venue or in the stream (`SentInv`), so that no
report can meet an order whose send is yet to decide.  Theorem: `AmendAlwaysYields`.

**SendPathProofs**, for every set of callers and every bound on crashes, journal
faults, failed queries, cancels and abandoned calls.  A journal replay knows the
order exactly when memory does, and an order once sent looks sent for good
(`RecordInv`).  Only the intent lets a submit past "intending", and the journal
takes one, so at most one task is between the intent and the end of the send; as
long as it has not decided, the venue has not been called (`SendInv`).  Every
step outside the submit leaves these facts alone in the same way, which is said
once (`Keeps`); `SendInv` is then proved step by step for the submit, a crash
and a start.  Three more arguments rest on it.  A replay of the journal, and then of what
the journal missed, gives memory: every event is folded into both in the same order, by
induction over the events (`Replayed`).  An order live at the venue is open here, because
whatever can end it here (a rejection, a fill, an answer of the venue) is recorded only
once the order's story at the venue is over (`Over`); the stale never-sent of
reconciliation is the one exception.  While a task may
still call the venue, the mark that a cancel left for it stays up: only the task that was
sending takes it down, and the journal, which knows the order by then, lets no other begin
(`CancelInv`).  Theorems: `ReplayGivesMemory`,
`LiveOrdersStayCounted`, `SentOnce`, `SendIsRecordedFirst`,
`UnsentCodesTellTheTruth`, both together in `SendLeavesItsTrace`, `KillStopsTheSend`, `NoIntentIsStranded`,
`CancelBeforeSendIsKept`, `TypeCorrect`.

**KillSwitchProofs**, for any number of engagers and of engages, releases,
failures and deaths, here and in other processes.  Every kill state the manager
believes, holds or is being told comes from a reading of the journal or is an
engage of its own, so none that is switched off is as new as an engaged journal
(`KnownInv`); and what a check has read while it must refuse is newer than every
release in the manager's hands (`CheckInv`), which is why the check adopts it.
That an engage stays (`EngageStays`) needs the order of the calls: one engage is written
at a time, and answers come back in the order of the journal's numbers (`OrderInv`).
So every release that anyone may still be told of is older than memory, and what is in
memory but not in the journal is an engage yet to be judged (`StopInv`).  For a sweep,
the engages under way matter too: whoever is told that the journal left a sweep has
something newer in hand (`Falls`), a sweep in memory is the journal's or that of an
engage yet to be judged, and only the engage that is judged next can have set out from
a switch that was off (`SweepInv`).  Every action is one of a few moves to the engages
under way, and each move keeps both.
Theorems: `EngagesStay`, `CheckRefuses`, `EngageHoldsAgainstReads`, the last two together in
`EngagesAreBinding`, and `TypeCorrect`.  Of `KillRecords`, for a journal of any
length: reading it row by row gives what its records asked for
(`KillReadsWhatWasAsked`), by induction over the rows.

**JournalProofs**, for any number of connections, readers, appends, deaths and
changes.  A writer uses a head and an anchor it read earlier; the invariant says
that the write lock makes both still true when they are used, that the chain is
unbroken, and that every anchor on file or in a reader's hands names a row of it.
Theorems: `NoFalseAlarmEver`, `AnchorOnlyAdvances`, `JournalImplementsLog` (every
step of `Journal` is a step of `JournalLog` or a stutter, until history is
changed), `TypeCorrect`.  For what comes after a change: the record that the anchor
names is no longer where the anchor says, and never is again, because every record
appended from then on is a new one (`Gone`, `AskedInv`); the judging of a later
append therefore finds the anchor disputed and leaves it (`ChangeInv`).
`OneChangeIsSeen` says so for one change of history: two may hide each other, as
when a row is altered and then cut off.

**PartsProofs**, about the other parts by themselves.
*HttpTransport*, for any number of calls, attempts and any threshold: `ProbeIsHeld` is
inductive with the types; `SentOnceAndKnown` needs `OnceInv`, what is known of a
sent-once request before its only attempt is judged.  Theorems: `ProbeNeverLeaks`,
`UndoneMeansUndone`, `TypeCorrect`.
*SyncBridge*, for any buffer, any number of items and of openings: what the reader got
and what is in its queue is what the source yielded, as long as nothing failed, and a
stream says that it is over only after the pump has seen the source end (`StreamInv`).
A call on a loop that was stopped has its answer or its cancellation, unless the close gave
up on that loop.
Theorem: `NothingIsCutShort`.
*Book*, for any levels, any buffer and any number of updates, lost ones and late
snapshots: an update is incomplete where some of its deltas are neither applied nor to
come, and the builder never starts on one, so that a synced book is the venue's up to
the deltas of the update in hand (`Good`, `Complete`).  Theorem: `SyncedBookIsTrue`.
*BarStore*, for any bounds on time, writes and backfills: a read of the past stands because
every version written later is known later: an open write is stamped after the time that
was read, unless one that began by then was open when it was read, which is remembered
(`PastInv`).  A complete backfill has its bars because what is stored
stays stored from window to window (`PassedInv`).  Theorem: `StoreStaysHonest`.
*RateLimits*, for any callers, weights and capacities (`LimitsAreAmounts`: numbers, and no
caller both a request and a handshake).  A bound on what went out in every window follows
from running totals: the tokens left, with what went out since any entry, are never more
than the capacity and the time since (`Charged`, `Within`).  Theorem: `LimitsStayKept`.
*Feed*, for any keys, any bounded queue (`QueueSize > 0`; asyncio takes 0 for no bound, and
the default is 10 000) and any number of events, outages and reconnections.  The invariant
is about the lane: the queue and then the wire, as the consumer will meet them, with the
connection and the losses that each item is stamped with (`Lane`).  What the lane holds of a
key was published, is ahead of what was given, and comes in order (`Ordered`).  On a sparse
feed, whose numbers do not show a hole, every event that was published and is neither given
nor on the lane has a mark behind it: a change of connection or a higher count of losses,
with no event of its key in between (`Covered`).  The cases are those of a lane that loses
a cell, is cut, gets one more or is consumed (`CellTakenOut`, `LaneCut`, `CellPutIn`,
`CellConsumed`); an item given up marks the one behind it, because the evictions are told
apart from the losses that stamps count.  On the other feeds the tracker knows the numbers:
what it has not seen between its first and its last is missing (`TrackOk`).  Theorem:
`FeedStaysHonest`.

**FixOrdersProofs**, for any number of callers and every bound.  The row of an
order in the store is what keeps a second order away, so it must outlive the first.
One caller at most has written the row and neither sent nor given up (`RowInv`);
only that one may delete the row again, and then nothing was sent.  No report,
query, release, disconnect or crash makes a row vanish, which is said once
(`QuietStep`).  That nothing the venue tells is forgotten takes three more invariants.
A fill that was stored and not taken yet is in the subscriber's queue or among the events
of the report in hand (`DueInv`).  An ExecID names one report however often it is sent,
and a bust names an execution before it (`TrafficInv`).  Every message that was passed
over is on record or halts its order, and a bust that was stored has marked its fill, or
the order is halted for it (`RecordsInv`).
What the row has filled is written from totals that the venue counts, and that a resent
report may tell late, so that it accounts for the fills that are booked needs a history:
the fills that stood after each of the venue's ExecIDs (`HistoryIs`), every report's CumQty
being their number there.  The reports that were not met before come in the order of their
ExecIDs, without a hole unless one was gap-filled away, and whatever comes again was met
(`ReadUpTo`).  The books are then a part of the fills that stood where the session has come
to, all of them as long as nothing halted or was gap-filled away, and the row has as many
filled (`BooksAgree`).  The exceptions are those of the property, and once one holds it
holds for good: numbers that were lost unread, and a bust besides a gap-filled report
(`Excused`, `ExcusedStays`).  Theorems: `SendInvariant`,
`SentOnceAlways`, `NothingIsForgotten`, `FilledAlwaysAccounts`.

**ExposureProofs**, for every set of fills, every lookback, and every bound on time
and troubles.  A fill that queries do not show yet is younger than the lookback
(`Timely`), so a sweep finds every fill older than its own start less the
lookback, save those behind the mark, which are in memory.  From then on the
pass holds what is not in memory, to be booked or in a break to be reported, unless
a record failed, and then it does not move the mark (`PassInv`).  What memory holds
is in the journal or pending (`Durable`), and the mark moves only when nothing is
pending.  For adjustments: a look under way began where memory stands, because
there is one at a time (`LookInv`).  A pass that runs once the stream is subscribed
began after it, so that its sweep finds what happened before; where the stream
loop stands then says that such a pass has swept, or that trading is halted, before
orders are accepted (`CaughtInv`).  Theorems: `MarkIsSafe`,
`AdjustedOnceAlways`, `CaughtUp`, `TypeCorrect`.

**Induction** has what the others cite where data has no bound (events, rows, deltas): a
set of numbers that is not empty has a least one, what holds of 0 and passes from each
number to the next holds of all up to any, and a trace that takes one step after another
exists.  The lemmas are stated about sets and functions, as the provers need them.  With
them are the facts about sequences that the lists of `parts` share: reading from the
front, adding at the end, and records in the order of their sequence numbers.

**Only model-checked.**  `NothingIsPassedOver` and `NeverTooLow` of the session,
`VenueStaysWithinChecks` of Gate (a sum over the open orders) and `BooksBalance` (a fold
over the fills, with products of quantities and prices).  Liveness (`EventuallyAgrees`,
`EventuallyOnRecord`, `Converges`) stays with TLC.

## 6. Where the code and its documents disagree

Two runs keep a counterexample:

| run | what it shows |
|---|---|
| `send_never_sent` | A reconcile pass listed the order before its send started; the send finishes while the pass awaits the venue, and the pass still closes the live order as never sent (`execution/manager.py:1932`). |
| `kill_narrowed` | A release overtakes an engage, a narrower one comes in just after it, a sweep is asked for, and the narrower one, judging by memory as it was, takes the sweep back (`execution/manager.py:860`). |

Five more are kept as a property that a module states and TLC refutes, with the bounds
given, and that no run checks; the property that the runs do check has the exception, and
the variable named last remembers when it applies.

| property | bounds | what it shows |
|---|---|---|
| `Gate.CountsEverything` | one order of one or two, one amend, one doubt | The answer to an amend is lost, the acknowledgement of the order comes after that, makes it working again and drops the requested terms (`execution/state.py:427`); the venue may still take them, and the worst case does not count them (against `execution/risk.py:8`). `VenueStaysWithinChecks` excepts an order to which this happened (`late.lapsed`). |
| `Gate.CancelStopsAmend` | one order of one or two, one amend, two cancels, one doubt | A cancel is lost, another is awaited, an acknowledgement makes the order working, and the amendment checked before them is recorded and sent (`execution/manager.py:1538`, against the comment below it). `AmendYields` excepts an order that was taken out of UNKNOWN this way (`late.revived`). |
| `BarStore.PastNeverChanges` | one write, three moments | The time of a version is read at BEGIN and the version is visible at COMMIT, so that a read of that time in between sees a past that changes (`store.py:125`, against `README.md:146` of the repository). `PastStands` excepts a read beside such a write (`asOf.beside`). |
| `SyncBridge.NoCallIsLeft` | one item, opened once | A close gives up cancelling what is left on a blocked loop and stops it, and a call on it is waited for without end (`sync.py:151` and `:166`, against the comment at `:170`). `NoCallIsStranded` excepts the loops of such a close (`client.cutOff`). |
| `FixSession.ResetsAreHeard` | one trouble, one message of the peer | Either side resets before anything was read under the numbers in force, and what was sent under them is lost unheard (`fix/session.py:810` and `:1136`, against the docstring of `FixSessionConfig` and `docs/OPERATIONS.md:166`). `InboundAccounted` excepts these messages (`seen.silent`). |

The others were met while modelling, each as a violation TLC found in the same
modules with another property or constant.  They are told here, and the modules'
properties are stated so that they hold beside them.

* **Orders.**  A fill completes an order at the size of a pending replace, and the
  replace is then refused: the order is filled past its size, but no overfill is
  noted (`execution/state.py:474` returns early for an order already past its
  ceiling; its docstring and `docs/OPERATIONS.md:70` say otherwise).
  `OverfillSurfaced` excepts a requested size that lapsed (`dropped`).
* **Kill switch.**  An engage rests on an unrecorded engage that another process
  has already released; the older release then switches memory off
  (`execution/manager.py:859`, against `:822` and `:830`).  The record of a halt lands
  upon a sweep another process recorded in between; memory takes the halt's width and the
  later number (`:963` to `:974`), the journal keeps the sweep, and a read that fails then
  leaves an engage for the sweep with memory as it was (`:850` to `:873`), until the kill
  loop reads again.
* **HTTP.**  A call from before the circuit opened gives up another call's probe,
  and two probes run at once (`transport/http.py:355`, against `circuit.py:21`).  A
  request declared idempotent whose first attempt may have been acted on ends in a
  plain `TransportError` when its retry is not sent (`transport/backoff.py:128`,
  against `http.py:18`); `SentOnceAndKnown` speaks of requests that are sent once.
* **Exposure.**  An order closed because it vanished need not halt trading when the
  process dies between the two records, for the next pass no longer finds it open
  (`docs/OPERATIONS.md:69`).
* **FIX provider.**  `release_quarantine` goes by a count, so that a row no operator
  has seen may be released when another was released in between (its docstring).
  The closing total of an order is not checked when the report that closed it was
  itself gap-filled away (`docs/GAP_MATRIX.md:33`).
* **Feed.**  Under a dropping policy a control message at the front of the queue is
  evicted too (`transport/ws.py:36`).
* **Bar store.**  A window whose missing bar belongs to a session that straddles two
  windows leaves the next one incomplete for good.

Smaller observations, which contradict no document: handshakes wait out a hold
with their token in hand and go together when it ends; items put just before a
stream fails may be lost to a blocking reader; a bust that was gap-filled away is not
remembered, so that a late copy of its fill is booked.

## 7. What is left

1. Proofs: `NeverTooLow` and the numbers of FixSession; the properties
   of `parts` that are only model-checked.
2. An abstract session (each message delivered once, in order) that FixSession
   implements; FixSession and FixOrders composed.
3. Several orders in one reconcile pass, and several processes in Exposure.
4. FIX mass status, the order manager's back-offs, the rest of the risk engine's
   limits (rates, notional), routing of the client.

## 8. Not modelled, and why

Parsing, encoding and formatting (FIX messages, JSON, the CLI, export,
observability); pure lookups over dated tables (security master, codes,
calendars); the field-by-field translation of venue messages; the repository's
own test doubles (`testing/`), whose venue the modules state as assumptions
instead; validated value classes.  These keep no state between calls, and tests over
inputs reach them better than a model of their steps.  Of the parts that are
modelled, delays, headers, messages and reasons are left out wherever no property
depends on them; `PROJECT.json` says for each part which operations are missing.
