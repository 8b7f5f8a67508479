--------------------------------- MODULE Book ---------------------------------
(***************************************************************************)
(* BookBuilder (src/ismet/marketdata/book.py): one instrument's book from  *)
(* snapshots and sequenced deltas, over a feed that loses updates and      *)
(* snapshots that arrive late, in any order.                               *)
(*                                                                         *)
(* Abstractions.  A level is a side and a price; it has a size, and 0 is   *)
(* no level.  One venue update covers a range of numbers and sets some     *)
(* levels, each a delta of its own; the feed loses whole updates.          *)
(***************************************************************************)
EXTENDS Integers, Sequences, FiniteSets, Functions

CONSTANTS Levels, MaxSequence, MaxBuffered, MaxSnapshots

VARIABLES
  truth,     \* the venue's book after each of its updates, by number
  sent,      \* updates on their way
  fetched,   \* snapshots on their way
  asked,     \* how many snapshots were asked for
  rest,      \* deltas of the update at hand that are not applied yet
  book       \* the builder

bookVars == <<truth, sent, fetched, asked, rest, book>>

Sizes == {0, 1}
None == -1
Empty == [l \in Levels |-> 0]
Newest == CHOOSE n \in DOMAIN truth : \A m \in DOMAIN truth : m <= n
NewBook == [levels |-> Empty, last |-> None, synced |-> FALSE, buffer |-> <<>>,
            batch |-> <<None, None>>, droppedThrough |-> None]
BookAt(sequence, levels) ==
  [levels |-> levels, last |-> sequence, synced |-> TRUE, buffer |-> <<>>,
   batch |-> <<None, None>>, droppedThrough |-> None]
Init ==
  /\ truth = [n \in {0} |-> Empty]
  /\ sent = <<>> /\ fetched = {} /\ asked = 0 /\ rest = <<>>
  /\ book = NewBook

-------------------------------------------------------------------------------
\* _buffer_delta: the oldest gives way, and is remembered.
SlipForgetDropped(b, delta) ==
  [b EXCEPT !.buffer = Append(IF Len(@) >= MaxBuffered THEN Tail(@) ELSE @, delta)]
BufferDelta(b, delta) ==
  IF Len(b.buffer) < MaxBuffered THEN [b EXCEPT !.buffer = Append(@, delta)]
  ELSE LET dropped == Head(b.buffer)
       IN  [b EXCEPT !.buffer = Append(Tail(@), delta),
                     !.droppedThrough = IF @ < dropped.sequence THEN dropped.sequence ELSE @]
\* apply_delta.
ApplyDelta(b, delta) ==
  LET batch == <<delta.start, delta.sequence>>
  IN  IF ~b.synced THEN BufferDelta(b, delta)
      ELSE IF delta.sequence <= b.last /\ batch # b.batch THEN b
      ELSE IF delta.start > b.last + 1 THEN BufferDelta([b EXCEPT !.synced = FALSE], delta)
      ELSE [b EXCEPT !.levels[delta.level] = delta.size, !.last = delta.sequence,
                     !.batch = batch]
\* apply_snapshot.
RollsBack(b, sequence) == b.synced /\ sequence < b.last
MissesDropped(b, sequence) == sequence < b.droppedThrough
Replay(b, deltas, sequence) ==
  LET after[n \in 0 .. Len(deltas)] ==
        IF n = 0 THEN b
        ELSE IF deltas[n].sequence > sequence THEN ApplyDelta(after[n - 1], deltas[n])
        ELSE after[n - 1]
  IN  after[Len(deltas)]
ApplySnapshot(b, sequence, levels) ==
  IF RollsBack(b, sequence) \/ MissesDropped(b, sequence) THEN b
  ELSE Replay(BookAt(sequence, levels), b.buffer, sequence)

-------------------------------------------------------------------------------
\* The venue updates its book; an update sets each of its levels in turn, in any order.
Deltas(order, sizes, start, sequence) ==
  [i \in DOMAIN order |-> [level |-> order[i], size |-> sizes[order[i]],
                           start |-> start, sequence |-> sequence]]
VenueUpdates ==
  \E sets \in (SUBSET Levels) \ {{}}, sizes \in [Levels -> Sizes], width \in 1 .. 2 :
    /\ Newest + width <= MaxSequence
    /\ \A l \in Levels \ sets : sizes[l] = truth[Newest][l]
    /\ truth' = [n \in DOMAIN truth \cup {Newest + width} |->
                   IF n \in DOMAIN truth THEN truth[n] ELSE sizes]
    /\ \E order \in Surjection(1 .. Cardinality(sets), sets) :
         sent' = Append(sent, Deltas(order, sizes, Newest + 1, Newest + width))
    /\ UNCHANGED <<fetched, asked, rest, book>>
Loses ==
  /\ sent # <<>>
  /\ sent' = Tail(sent)
  /\ UNCHANGED <<truth, fetched, asked, rest, book>>
\* The caller feeds the deltas of an update one by one.
Takes ==
  /\ rest = <<>> /\ sent # <<>>
  /\ rest' = Head(sent) /\ sent' = Tail(sent)
  /\ UNCHANGED <<truth, fetched, asked, book>>
Feeds ==
  /\ rest # <<>>
  /\ book' = ApplyDelta(book, Head(rest)) /\ rest' = Tail(rest)
  /\ UNCHANGED <<truth, sent, fetched, asked>>
Fetches ==
  /\ asked < MaxSnapshots /\ asked' = asked + 1
  /\ fetched' = fetched \cup {Newest}
  /\ UNCHANGED <<truth, sent, rest, book>>
Arrives ==
  /\ \E n \in fetched :
       /\ fetched' = fetched \ {n}
       /\ book' = ApplySnapshot(book, n, truth[n])
  /\ UNCHANGED <<truth, sent, asked, rest>>
Next == VenueUpdates \/ Loses \/ Takes \/ Feeds \/ Fetches \/ Arrives
Spec == Init /\ [][Next]_bookVars

-------------------------------------------------------------------------------
\* A book that calls itself synced is the venue's at the number it states, once all the
\* levels of that update are in (is_synced, snapshot).
BookIsTrue ==
  book.synced /\ (\A i \in DOMAIN rest : rest[i].sequence # book.last)
    => book.last \in DOMAIN truth /\ book.levels = truth[book.last]
===============================================================================
