--------------------------------- MODULE Feed ---------------------------------
(***************************************************************************)
(* A market data stream from the venue's socket to the caller: the         *)
(* WebSocketTransport with its bounded queue (src/ismet/transport/ws.py),  *)
(* the adapters that stamp each frame and gate each event                  *)
(* (src/ismet/providers/{binance,coinbase}/__init__.py and                 *)
(* src/ismet/normalize/_common.py) and the client's SequenceGuard          *)
(* (src/ismet/marketdata/quality.py).                                      *)
(*                                                                         *)
(* The reader and the consumer are two tasks that share the queue and its  *)
(* counters.  Abstractions.  A frame is a data event, with its key and the *)
(* venue's number, or a control message.  The three kinds of feed are      *)
(* sparse (numbers rise, with jumps that mean nothing), contiguous (they   *)
(* rise by one) and plain (an adapter that gates nothing, so that the      *)
(* client's guard reads the numbers).  A missing range is a set.           *)
(***************************************************************************)
EXTENDS Integers, Sequences, FiniteSets, FiniteSetsExt

CONSTANTS Keys, QueueSize,
          MaxEvents,      \* what the venue publishes
          MaxControls,    \* control messages it sends
          MaxOutages,     \* lost connections and refused handshakes, together
          MaxReconnects   \* max_reconnects

VARIABLES
  kind,     \* of feed, with the policies chosen
  published,\* by the venue, per key: each number that the subscription shows, in order
  spent,    \* how much of the bounds is used
  wire,     \* the frames on the socket
  ws,       \* the transport
  gates,    \* the adapter's, or the guard's, trackers
  got       \* per key, what the caller was given

feedVars == <<kind, published, spent, wire, ws, gates, got>>

\* A policy of the queue, and a gap policy; where the caller asked for SequenceGap, the
\* queue blocks.
Kinds == {k \in [feed : {"sparse", "contiguous", "plain"},
                 policy : {"block", "drop_oldest", "drop_newest"}, raises : BOOLEAN] :
            k.raises => k.policy = "block"}
Data(key, number) == [data |-> TRUE, key |-> key, number |-> number, last |-> FALSE]
Control == [data |-> FALSE]
Closed == [closed |-> TRUE]
IsData(frame) == "data" \in DOMAIN frame /\ frame.data
Highest(numbers) == Max(numbers \cup {0})
Published(key) == {published[key][i] : i \in DOMAIN published[key]}
NewTracker == [last |-> 0, first |-> 0, missing |-> {}]

Init ==
  /\ kind \in Kinds
  /\ published = [k \in Keys |-> <<>>]
  /\ spent = [events |-> 0, controls |-> 0, outages |-> 0]
  /\ wire = <<>>
  /\ ws = [state |-> "connecting", attempt |-> 0, queue |-> <<>>, dropped |-> 0, evicted |-> 0,
           toldDropped |-> 0, toldEvicted |-> 0, generation |-> 0]
  /\ gates = [tracker |-> [k \in Keys |-> NewTracker], reconnected |-> {}, seen |-> 1,
              open |-> TRUE]
  /\ got = [k \in Keys |-> <<>>]

-------------------------------------------------------------------------------
\* SequenceTracker.classify.  Numbers start at 1, so 0 stands for none.
Classify(t, n) ==
  IF t.last = 0 THEN [outcome |-> "first", next |-> [last |-> n, first |-> n, missing |-> {}]]
  ELSE IF n = t.last + 1 THEN [outcome |-> "in_order", next |-> [t EXCEPT !.last = n]]
  ELSE IF n > t.last
    THEN [outcome |-> "gap",
          next |-> [t EXCEPT !.last = n, !.missing = @ \cup (t.last + 1 .. n - 1)]]
  ELSE IF n < t.first
    THEN [outcome |-> "out_of_order",
          next |-> [t EXCEPT !.first = n, !.missing = @ \cup (n + 1 .. t.first - 1)]]
  ELSE IF n \in t.missing
    THEN [outcome |-> "out_of_order", next |-> [t EXCEPT !.missing = @ \ {n}]]
  ELSE [outcome |-> "duplicate", next |-> t]

\* _enqueue and _count_drop: what is put, and whether room is made by giving up the oldest.
PutIn(w, item) == [w EXCEPT !.queue = Append(@, item)]
GiveUpOldest(w) == [w EXCEPT !.queue = Tail(@), !.dropped = @ + 1]
Forced(w, item) ==
  IF Len(w.queue) < QueueSize THEN PutIn(w, item)
  ELSE PutIn([GiveUpOldest(w) EXCEPT !.evicted = @ + 1], item)
SlipEnqueue(w, item) ==
  IF Len(w.queue) < QueueSize THEN PutIn(w, item)
  ELSE IF kind.policy = "drop_newest" THEN w
  ELSE PutIn(GiveUpOldest(w), item)
Enqueue(w, item) ==
  IF Len(w.queue) < QueueSize THEN PutIn(w, item)
  ELSE IF kind.policy = "drop_newest" THEN [w EXCEPT !.dropped = @ + 1]
  ELSE PutIn(GiveUpOldest(w), item)

\* lost_before.
LostBefore(w, stamped) ==
  IF kind.policy = "drop_newest"
  THEN w.evicted # w.toldEvicted \/ stamped > w.toldDropped
  ELSE w.dropped > w.toldDropped
Told(w, stamped) ==
  [w EXCEPT !.toldEvicted = w.evicted,
            !.toldDropped = IF kind.policy = "drop_newest" THEN Max({@, stamped})
                            ELSE Max({@, w.dropped})]

-------------------------------------------------------------------------------
\* _run: one task connects, reads, and connects again.
Fail(w) == Forced([w EXCEPT !.state = "failed"], Closed)
Again(w) == IF w.attempt + 1 > MaxReconnects THEN Fail([w EXCEPT !.attempt = @ + 1])
            ELSE [w EXCEPT !.state = "reconnecting", !.attempt = @ + 1]
\* on_connect subscribes; Coinbase's matches open with the last trade.
LastMatch(key) ==
  IF kind.feed = "contiguous" /\ published[key] # <<>>
  THEN {<<[Data(key, Highest(Published(key))) EXCEPT !.last = TRUE]>>, <<>>} ELSE {<<>>}
Connects ==
  /\ ws.state \in {"connecting", "reconnecting"}
  /\ ws' = [ws EXCEPT !.state = "connected", !.generation = @ + 1]
  /\ \E key \in Keys : wire' \in LastMatch(key)
  /\ UNCHANGED <<kind, published, spent, gates, got>>
Outage == spent.outages < MaxOutages /\ spent' = [spent EXCEPT !.outages = @ + 1]
\* A handshake is refused: for good, or to be tried again.
Refused ==
  /\ ws.state \in {"connecting", "reconnecting"} /\ Outage
  /\ ws' \in {Fail(ws), Again(ws)}
  /\ UNCHANGED <<kind, published, wire, gates, got>>
Drops ==
  /\ ws.state = "connected" /\ Outage
  /\ ws' = Again(ws)
  /\ wire' = <<>>
  /\ UNCHANGED <<kind, published, gates, got>>
\* The adapter's decode stamps the frame with the connection and the losses so far; _put
\* waits for room under BLOCK, and makes room for what is not data otherwise.
Stamp(frame) == [frame |-> frame, generation |-> ws.generation, stamped |-> ws.dropped]
Put(w, item, data) ==
  CASE kind.policy = "block" -> PutIn(w, item)
    [] kind.policy # "block" /\ data -> Enqueue(w, item)
    [] OTHER -> Forced(w, item)
Reads ==
  /\ ws.state = "connected" /\ wire # <<>>
  /\ kind.policy = "block" => Len(ws.queue) < QueueSize
  /\ LET data == IsData(Head(wire))
         w == IF data THEN [ws EXCEPT !.attempt = 0] ELSE ws
     IN  ws' = Put(w, Stamp(Head(wire)), data)
  /\ wire' = Tail(wire)
  /\ UNCHANGED <<kind, published, spent, gates, got>>

-------------------------------------------------------------------------------
\* The adapter's loop over messages(): a new connection or a loss marks every key known so
\* far (mark_reconnected), then StreamGate.admit judges the event.
MarkReconnected(g) ==
  [g EXCEPT !.reconnected = {k \in Keys : g.tracker[k].last # 0}]
Noticed(item, lost) ==
  IF item.generation # gates.seen \/ lost
  THEN MarkReconnected([gates EXCEPT !.seen = item.generation]) ELSE gates
GapFlag(outcome, key, g) ==
  CASE kind.feed = "sparse" -> key \in g.reconnected
    [] OTHER -> outcome = "gap"
\* StreamGate.admit, and SequenceGuard: _admit_gated after a gate, admit on a plain feed.
Admit(g, frame) ==
  LET key == frame.key
      seen == Classify(g.tracker[key], frame.number)
      gap == GapFlag(seen.outcome, key, g)
      given == seen.outcome # "duplicate"
  IN  /\ gates' = [g EXCEPT !.tracker[key] = seen.next,
                            !.reconnected = IF given THEN @ \ {key} ELSE @,
                            !.open = ~(given /\ gap /\ kind.raises)]
      /\ got' = IF given /\ ~(gap /\ kind.raises)
                THEN [got EXCEPT ![key] = Append(@, [number |-> frame.number, gap |-> gap,
                                                     late |-> seen.outcome = "out_of_order"])]
                ELSE got
\* is_fresh and seed.
Seeds(g, frame) == frame.last /\ g.tracker[frame.key].last = 0
Seed(g, frame) ==
  gates' = [g EXCEPT !.tracker[frame.key] = Classify(@, frame.number).next] /\ UNCHANGED got
Consumes ==
  /\ gates.open /\ ws.queue # <<>> /\ Head(ws.queue) # Closed
  /\ LET item == Head(ws.queue)
         lost == LostBefore(ws, item.stamped)
         g == Noticed(item, lost)
     IN  /\ ws' = Told([ws EXCEPT !.queue = Tail(@)], item.stamped)
         /\ IF ~IsData(item.frame) THEN gates' = g /\ UNCHANGED got
            ELSE IF Seeds(g, item.frame) THEN Seed(g, item.frame)
            ELSE Admit(g, item.frame)
  /\ UNCHANGED <<kind, published, spent, wire>>
Ends ==
  /\ gates.open /\ ws.queue # <<>> /\ Head(ws.queue) = Closed
  /\ gates' = [gates EXCEPT !.open = FALSE]
  /\ UNCHANGED <<kind, published, spent, wire, ws, got>>

-------------------------------------------------------------------------------
\* The venue publishes the next number of a key, or one that jumps on a sparse feed, or
\* one it had left out; it is not seen while the connection is down.
Sends(frame) == wire' = IF ws.state = "connected" THEN Append(wire, frame) ELSE wire
NextNumbers(key) ==
  LET high == Highest(Published(key))
  IN  IF kind.feed = "sparse" THEN {high + 1, high + 2}
      ELSE {high + 1} \cup ((1 .. high) \ Published(key))
           \cup (IF kind.feed = "plain" THEN {high + 2} ELSE {})
Publishes(key) ==
  /\ spent.events < MaxEvents
  /\ \E n \in NextNumbers(key) :
       /\ published' = [published EXCEPT ![key] = Append(@, n)]
       /\ Sends(Data(key, n))
  /\ spent' = [spent EXCEPT !.events = @ + 1]
  /\ UNCHANGED <<kind, ws, gates, got>>
SendsControl ==
  /\ spent.controls < MaxControls /\ ws.state = "connected"
  /\ wire' = Append(wire, Control)
  /\ spent' = [spent EXCEPT !.controls = @ + 1]
  /\ UNCHANGED <<kind, published, ws, gates, got>>

Next ==
  \/ Connects \/ Refused \/ Drops \/ Reads \/ Consumes \/ Ends \/ SendsControl
  \/ \E key \in Keys : Publishes(key)
Spec == Init /\ [][Next]_feedVars

-------------------------------------------------------------------------------
Before(key, i) == {got[key][j].number : j \in 1 .. i - 1}
\* What was skipped between the events given so far and the one given at i.
Skipped(key, i) ==
  {n \in Highest(Before(key, i)) + 1 .. got[key][i].number - 1 :
     kind.feed = "sparse" => n \in Published(key)}
\* Whatever is lost, on the socket, at a full queue or to a control message that needs the
\* room, the next event of the key says so (lost_before, StreamGate, SequenceGuard).
LossIsFlagged ==
  \A key \in Keys : \A i \in 2 .. Len(got[key]) :
    ~got[key][i].late /\ Skipped(key, i) # {} => got[key][i].gap
\* No event is given twice, and one that comes after a later one says so (SequenceTracker).
GivenOnce ==
  \A key \in Keys : \A i \in DOMAIN got[key] :
    /\ got[key][i].number \notin Before(key, i)
    /\ got[key][i].late <=> got[key][i].number < Highest(Before(key, i))
\* What the caller makes of its events, their numbers and flags, is what the venue sent.
FeedIsHonest == LossIsFlagged /\ GivenOnce
===============================================================================
