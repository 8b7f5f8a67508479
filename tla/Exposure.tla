------------------------------- MODULE Exposure -------------------------------
(***************************************************************************)
(* How OrderManager (src/ismet/execution/manager.py) keeps its record of   *)
(* fills and positions equal to the venue's: the execution stream and the  *)
(* loop that reconnects it, the reconciliation pass, the sweep of recent   *)
(* fills with its mark, the breaks and their halts, the adjustments an     *)
(* operator journals, journal writes that fail, and restarts.              *)
(*                                                                         *)
(* A step is what runs between two awaits of one task.  _recon_lock is     *)
(* held from the start of a pass to its end.  The judgement of one open    *)
(* order is SendPath's; here one order, sent at Start, has ended and may   *)
(* still be filled, and another is working and may vanish.                 *)
(*                                                                         *)
(* Abstractions.  A fill has quantity 1 in one symbol; OurFills are on the *)
(* ended order and OrphanFills on an order ismet never sent.  Time is a    *)
(* small counter.  A fill may show in queries after it happened, but never *)
(* later than Lookback: that is what fill_lookback is for.                 *)
(***************************************************************************)
EXTENDS Integers, FiniteSets, FiniteSetsExt

CONSTANTS Fills,        \* that may happen
          Lookback,     \* fill_lookback, in ticks
          MaxTime,      \* the clock stops here
          MaxTrouble,   \* what may go wrong: a crash or a failed write counts 1, and
          UpsetCost     \* what a failed query, a lost stream, a vanished order or an
                        \* adjustment counts

ASSUME BoundsAreNaturals == {Lookback, MaxTime, MaxTrouble, UpsetCost} \subseteq Nat

VARIABLES
  now,     \* the clock
  venue,   \* when each fill happened, which are ours, which queries show; whether the order vanished
  disk,    \* what the journal holds
  mem,     \* what the manager holds
  look,    \* the two callers of _merge_adjustments
  pass,    \* the reconciliation pass under way
  loop,    \* _stream_loop
  stream,  \* the subscription: its events, and the fills that were there before it
  trouble  \* how much of MaxTrouble has happened

vars == <<now, venue, disk, mem, look, pass, loop, stream, trouble>>
OurFills == venue.ours
OrphanFills == Fills \ venue.ours
Trouble(cost) == trouble + cost <= MaxTrouble /\ trouble' = trouble + cost
Fault == Trouble(1)
Upset == Trouble(UpsetCost)
\* A journal write lands, or fails.
Writes(ok) == IF ok THEN UNCHANGED trouble ELSE Fault

NotYet == 0
Start == 1       \* when the journal's first record, the baseline, was written
NoMark == 0
Executed == {f \in Fills : venue.at[f] # NotYet}
TheirPosition == Cardinality(Executed) + disk.adjust
OurPosition == Cardinality(mem.booked) + mem.applied

Callers == {"pass", "operator"}
NoLook == [pc |-> "idle", from |-> 0, to |-> 0]
NoPass == [pc |-> "idle", who |-> "none", at |-> 0, todo |-> {}, found |-> {},
           swept |-> FALSE, recorded |-> TRUE]
NoStream == [on |-> FALSE, queue |-> {}, before |-> {}, taken |-> {}]

\* _recover: memory is what the journal says.
Recovered ==
  [alive |-> TRUE, booked |-> disk.booked, pending |-> {}, orphans |-> disk.orphans,
   last |-> IF disk.mark = NoMark THEN Start ELSE disk.mark, saved |-> disk.mark,
   applied |-> disk.adjust, seen |-> disk.adjust, closed |-> disk.closed,
   halted |-> disk.halted, unrecorded |-> FALSE, blind |-> FALSE, failed |-> FALSE,
   healthy |-> FALSE]
FirstPass == [NoPass EXCEPT !.pc = "merge", !.who = "start", !.at = now]

Init ==
  /\ now = Start
  /\ \E ours \in SUBSET Fills :
       venue = [at |-> [f \in Fills |-> NotYet], ours |-> ours, shown |-> {}, vanished |-> FALSE]
  /\ disk = [booked |-> {}, orphans |-> {}, mark |-> NoMark, adjust |-> 0,
             closed |-> FALSE, halted |-> FALSE]
  /\ mem = Recovered
  /\ look = [who \in Callers |-> NoLook]
  /\ pass = FirstPass
  /\ loop = [pc |-> "wait", again |-> FALSE]
  /\ stream = NoStream
  /\ trouble = 0

-------------------------------------------------------------------------------
\* An event the journal does not take is kept, applied in memory, and written before the
\* next one; new orders are refused from then on.
Recording(f, ok) ==
  /\ Writes(ok)
  /\ IF ok
     THEN /\ disk' = [disk EXCEPT !.booked = @ \cup mem.pending \cup {f}]
          /\ mem' = [mem EXCEPT !.booked = @ \cup {f}, !.pending = {}]
     ELSE /\ mem' = [mem EXCEPT !.booked = @ \cup {f}, !.pending = @ \cup {f}, !.failed = TRUE]
          /\ UNCHANGED disk
RetryUnjournalled ==
  /\ mem.alive /\ mem.pending # {}
  /\ disk' = [disk EXCEPT !.booked = @ \cup mem.pending]
  /\ mem' = [mem EXCEPT !.pending = {}]
  /\ UNCHANGED <<now, venue, look, pass, loop, stream, trouble>>

\* _halt: memory first, then the journal, which is tried again until it takes it.
Halting(ok) ==
  /\ IF mem.halted THEN ok /\ UNCHANGED trouble ELSE Writes(ok)
  /\ mem' = [mem EXCEPT !.halted = TRUE, !.unrecorded = @ \/ ~ok]
  /\ disk' = IF ok /\ ~mem.halted THEN [disk EXCEPT !.halted = TRUE] ELSE disk
RecordKill ==
  /\ mem.alive /\ mem.unrecorded
  /\ disk' = [disk EXCEPT !.halted = TRUE]
  /\ mem' = [mem EXCEPT !.unrecorded = FALSE]
  /\ UNCHANGED <<now, venue, look, pass, loop, stream, trouble>>

-------------------------------------------------------------------------------
\* The position moves outside, and adjust_position, here or by `ismet position adjust`,
\* journals it.
Adjust(here) ==
  /\ Upset
  /\ here => mem.alive /\ look["operator"].pc = "idle"
  /\ disk' = [disk EXCEPT !.adjust = @ + 1]
  /\ look' = IF here THEN [look EXCEPT !["operator"].pc = "wanted"] ELSE look
  /\ UNCHANGED <<now, venue, mem, pass, loop, stream>>
\* _merge_adjustments: read the records after the last look, verify the chain, apply them;
\* one look at a time.
SlipNoAdjustLock == TRUE
AdjustLockFree == \A who \in Callers : look[who].pc # "reading"
ReadAdjustments(who) ==
  /\ mem.alive /\ AdjustLockFree
  /\ IF who = "pass" THEN pass.pc = "merge" /\ look[who].pc = "idle" ELSE look[who].pc = "wanted"
  /\ look' = [look EXCEPT ![who] = [pc |-> "reading", from |-> mem.seen, to |-> disk.adjust]]
  /\ UNCHANGED <<now, venue, disk, mem, pass, loop, stream, trouble>>
ApplyAdjustments(who) ==
  /\ look[who].pc = "reading"
  /\ mem' = [mem EXCEPT !.applied = @ + (look[who].to - look[who].from), !.seen = look[who].to]
  /\ look' = [look EXCEPT ![who] = NoLook]
  /\ pass' = IF who = "pass" THEN [pass EXCEPT !.pc = "order"] ELSE pass
  /\ UNCHANGED <<now, venue, disk, loop, stream, trouble>>

-------------------------------------------------------------------------------
\* The pass.
Failed == <<"queryFailed", "-">>
Critical(break) == break # Failed
PassStart(who) ==
  /\ mem.alive /\ pass.pc = "idle"
  /\ pass' = [FirstPass EXCEPT !.who = who]

\* _reconcile_order and _find_orphans: the working order is closed if the venue has it no
\* more.  Wherever a query fails the pass goes on, and is no proof.
Vanished == venue.vanished /\ ~mem.closed
PassOrder ==
  /\ pass.pc = "order" /\ ~Vanished
  /\ pass' = [pass EXCEPT !.pc = "sweep"]
  /\ UNCHANGED <<now, venue, disk, mem, look, loop, stream, trouble>>
PassCloses ==
  /\ pass.pc = "order" /\ Vanished
  /\ mem' = [mem EXCEPT !.closed = TRUE]
  /\ disk' = [disk EXCEPT !.closed = TRUE]
  /\ pass' = [pass EXCEPT !.pc = "sweep", !.found = @ \cup {<<"missing", "-">>}]
  /\ UNCHANGED <<now, venue, look, loop, stream, trouble>>

\* _fill_window, _sweep_fills and _book_fills.
FillWindow(since) == Max({since, Start})
FillsSince(since) == {f \in venue.shown : venue.at[f] >= FillWindow(since)}
ToBook(fills) == (fills \cap OurFills) \ mem.booked
OrphansIn(fills) == {<<"orphan", f>> : f \in (fills \cap OrphanFills) \ mem.orphans}
Books(fills, booking, after, swept) ==
  pass' = [pass EXCEPT !.pc = IF ToBook(fills) = {} THEN after ELSE booking,
                       !.todo = ToBook(fills), !.found = @ \cup OrphansIn(fills),
                       !.swept = swept]
PassSweep ==
  /\ pass.pc = "sweep"
  /\ Books(FillsSince(mem.last - Lookback), "book", "positions", TRUE)
  /\ UNCHANGED <<now, venue, disk, mem, look, loop, stream, trouble>>
Book(booking, after) ==
  /\ pass.pc = booking
  /\ \E f \in pass.todo, ok \in BOOLEAN :
       /\ pass' = [pass EXCEPT !.todo = @ \ {f}, !.pc = IF pass.todo = {f} THEN after ELSE @]
       /\ IF f \in mem.booked THEN ok /\ UNCHANGED <<disk, mem, trouble>> ELSE Recording(f, ok)
  /\ UNCHANGED <<now, venue, look, loop, stream>>

\* _check_positions: a difference is looked for among older fills, asked about again, and
\* believed once it has lasted.
Judged(found) ==
  /\ pass' = [pass EXCEPT !.pc = "report", !.found = found]
  /\ mem' = [mem EXCEPT !.blind = Failed \in found]
PassPositions ==
  /\ pass.pc = "positions"
  /\ IF OurPosition = TheirPosition
     THEN Judged(pass.found)
     ELSE Books(FillsSince(Start), "rebook", "again", pass.swept) /\ UNCHANGED mem
  /\ UNCHANGED <<now, venue, disk, look, loop, stream, trouble>>
PassPositionsAgain ==
  /\ pass.pc = "again"
  /\ \E lasted \in BOOLEAN :
       /\ lasted => OurPosition # TheirPosition
       /\ Judged(pass.found \cup IF lasted THEN {<<"position", "-">>} ELSE {})
  /\ UNCHANGED <<now, venue, disk, look, loop, stream, trouble>>
\* _query_failed.
QueryFails ==
  /\ pass.pc \in {"order", "sweep", "positions", "again"} /\ Upset
  /\ LET found == pass.found \cup {Failed}
     IN  IF pass.pc \in {"order", "sweep"}
         THEN /\ pass' = [pass EXCEPT !.found = found,
                            !.pc = IF @ = "order" THEN "sweep" ELSE "positions"]
              /\ UNCHANGED mem
         ELSE Judged(found)
  /\ UNCHANGED <<now, venue, disk, look, loop, stream>>

\* _report_break: the halt, then the record.  An orphan fill is reported once.
Known == {b \in pass.found : b[1] = "orphan" /\ b[2] \in mem.orphans}
Subject(break) == IF break[1] = "orphan" THEN {break[2]} ELSE {}
PassReports ==
  /\ pass.pc = "report"
  /\ \E break \in pass.found \ Known, ok \in BOOLEAN :
       /\ pass' = [pass EXCEPT !.pc = "record", !.todo = Subject(break),
                               !.found = @ \ {break}]
       /\ IF Critical(break) THEN Halting(ok) ELSE ok /\ UNCHANGED <<disk, mem, trouble>>
  /\ UNCHANGED <<now, venue, look, loop, stream>>
SlipReported(fills, ok, streaming) ==
  /\ Writes(ok)
  /\ disk' = IF ok THEN [disk EXCEPT !.orphans = @ \cup fills] ELSE disk
  /\ mem' = [mem EXCEPT !.orphans = @ \cup fills, !.failed = @ \/ (streaming /\ ~ok)]
RecordsOrphans(fills, ok, streaming) ==
  /\ Writes(ok)
  /\ disk' = IF ok THEN [disk EXCEPT !.orphans = @ \cup fills] ELSE disk
  /\ mem' = IF ok THEN [mem EXCEPT !.orphans = @ \cup fills]
            ELSE [mem EXCEPT !.failed = @ \/ streaming]
PassRecords ==
  /\ pass.pc = "record"
  /\ \E ok \in BOOLEAN :
       /\ RecordsOrphans(pass.todo, ok, FALSE)
       /\ pass' = [pass EXCEPT !.pc = "report", !.todo = {}, !.recorded = @ /\ ok]
  /\ UNCHANGED <<now, venue, look, loop, stream>>

\* The window moves only once all it found is on record; _save_sweep notes it.
SlipMarkAnyway == pass.swept
MayMark == pass.swept /\ pass.recorded /\ mem.pending = {}
SaveDue == mem.saved = NoMark \/ 4 * (pass.at - mem.saved) >= Lookback
AfterPass ==
  IF pass.who = "stream"
  THEN [loop EXCEPT !.pc = IF @ = "recovering" THEN "settle" ELSE "judge"]
  ELSE [loop EXCEPT !.pc = IF @ = "wait" THEN "connect" ELSE @]
PassEnds ==
  /\ pass.pc = "report" /\ pass.found \subseteq Known
  /\ \E ok \in BOOLEAN :
       IF MayMark /\ SaveDue
       THEN /\ Writes(ok)
            /\ mem' = [mem EXCEPT !.last = pass.at, !.saved = IF ok THEN pass.at ELSE @]
            /\ disk' = IF ok THEN [disk EXCEPT !.mark = pass.at] ELSE disk
       ELSE /\ ok
            /\ mem' = IF MayMark THEN [mem EXCEPT !.last = pass.at] ELSE mem
            /\ UNCHANGED <<disk, trouble>>
  /\ pass' = NoPass
  /\ loop' = AfterPass
  /\ UNCHANGED <<now, venue, look, stream>>
Pass == \/ PassOrder \/ PassCloses \/ PassSweep \/ Book("book", "positions") \/ PassPositions
        \/ Book("rebook", "again") \/ PassPositionsAgain \/ PassReports \/ PassRecords \/ PassEnds
\* _reconcile_loop.
TimedPass ==
  /\ loop.pc # "wait"
  /\ PassStart("timer")
  /\ UNCHANGED <<now, venue, disk, mem, look, loop, stream, trouble>>

-------------------------------------------------------------------------------
\* _stream_loop: consume first, then reconcile; healthy once the stream has settled and
\* the pass after that is over.
Connect ==
  /\ mem.alive /\ loop.pc = "connect"
  /\ stream' = [NoStream EXCEPT !.on = TRUE, !.before = venue.shown]
  /\ loop' = [loop EXCEPT !.pc = IF loop.again THEN "recover" ELSE "settle"]
  /\ UNCHANGED <<now, venue, disk, mem, look, pass, trouble>>
SlipNoCheck == "judge"
AfterSettle == "check"
Settled ==
  /\ loop.pc = "settle" /\ stream.on
  /\ loop' = [loop EXCEPT !.pc = AfterSettle]
  /\ UNCHANGED <<now, venue, disk, mem, look, pass, stream, trouble>>
StreamPass ==
  /\ loop.pc \in {"recover", "check"}
  /\ PassStart("stream")
  /\ loop' = [loop EXCEPT !.pc = IF @ = "recover" THEN "recovering" ELSE "checking"]
  /\ UNCHANGED <<now, venue, disk, mem, look, stream, trouble>>
Healthy ==
  /\ loop.pc = "judge" /\ stream.on
  /\ mem' = [mem EXCEPT !.healthy = TRUE]
  /\ loop' = [pc |-> "run", again |-> FALSE]
  /\ UNCHANGED <<now, venue, disk, look, pass, stream, trouble>>
NoticeLoss ==
  /\ loop.pc \in {"settle", "judge", "run"} /\ ~stream.on
  /\ mem' = [mem EXCEPT !.healthy = FALSE]
  /\ loop' = [pc |-> "connect", again |-> TRUE]
  /\ UNCHANGED <<now, venue, disk, look, pass, stream, trouble>>
\* _on_venue_event.
Consume(f) ==
  /\ mem.alive /\ stream.on /\ stream.taken = {} /\ f \in stream.queue
  /\ \E ok \in BOOLEAN :
       IF f \in OurFills \cup mem.orphans
       THEN /\ stream' = [stream EXCEPT !.queue = @ \ {f}]
            /\ IF f \in OurFills \ mem.booked THEN Recording(f, ok)
               ELSE ok /\ UNCHANGED <<disk, mem, trouble>>
       ELSE /\ stream' = [stream EXCEPT !.queue = @ \ {f}, !.taken = {f}]
            /\ Halting(ok)
  /\ UNCHANGED <<now, venue, look, pass, loop>>
ConsumeRecords ==
  /\ mem.alive /\ stream.taken # {}
  /\ \E ok \in BOOLEAN : RecordsOrphans(stream.taken, ok, TRUE)
  /\ stream' = [stream EXCEPT !.taken = {}]
  /\ UNCHANGED <<now, venue, look, pass, loop>>
StreamLoop == Connect \/ Settled \/ StreamPass \/ Healthy \/ NoticeLoss

-------------------------------------------------------------------------------
\* The venue, the clock and the faults.
Executes(f) ==
  /\ venue.at[f] = NotYet
  /\ \E shown \in {{}, {f}} :
       venue' = [venue EXCEPT !.at[f] = now, !.shown = @ \cup shown]
  /\ stream' = IF stream.on THEN [stream EXCEPT !.queue = @ \cup {f}] ELSE stream
  /\ UNCHANGED <<now, disk, mem, look, pass, loop, trouble>>
Shows(f) ==
  /\ f \in Executed \ venue.shown
  /\ venue' = [venue EXCEPT !.shown = @ \cup {f}]
  /\ UNCHANGED <<now, disk, mem, look, pass, loop, stream, trouble>>
Vanishes ==
  /\ ~venue.vanished /\ Upset
  /\ venue' = [venue EXCEPT !.vanished = TRUE]
  /\ UNCHANGED <<now, disk, mem, look, pass, loop, stream>>
Tick ==
  /\ now < MaxTime
  /\ \A f \in Executed \ venue.shown : venue.at[f] + Lookback > now
  /\ now' = now + 1
  /\ UNCHANGED <<venue, disk, mem, look, pass, loop, stream, trouble>>
StreamDrops ==
  /\ stream.on /\ Upset
  /\ stream' = [stream EXCEPT !.on = FALSE, !.queue = {}]
  /\ UNCHANGED <<now, venue, disk, mem, look, pass, loop>>
Crash ==
  /\ mem.alive /\ Fault
  /\ mem' = [Recovered EXCEPT !.alive = FALSE]
  /\ look' = [who \in Callers |-> NoLook]
  /\ pass' = NoPass
  /\ loop' = [pc |-> "wait", again |-> FALSE]
  /\ stream' = NoStream
  /\ UNCHANGED <<now, venue, disk>>
\* start: replay, then the first pass; the loops begin after it.
Restart ==
  /\ ~mem.alive
  /\ mem' = Recovered
  /\ pass' = FirstPass
  /\ UNCHANGED <<now, venue, disk, look, loop, stream, trouble>>

Next ==
  \/ Pass \/ TimedPass \/ StreamLoop \/ ConsumeRecords \/ \E f \in Fills : Consume(f)
  \/ RetryUnjournalled \/ RecordKill \/ Restart
  \/ \E who \in Callers : ReadAdjustments(who) \/ ApplyAdjustments(who)
  \/ QueryFails \/ Vanishes \/ Tick \/ StreamDrops \/ Crash
  \/ \E here \in BOOLEAN : Adjust(here)
  \/ \E f \in Fills : Executes(f) \/ Shows(f)
Spec == Init /\ [][Next]_vars

\* The tasks go on, the timer fires, a dead process is started again, the journal is
\* written in the end, and a fill shows in the end.
Look(who) == ReadAdjustments(who) \/ ApplyAdjustments(who)
Fairness ==
  /\ WF_vars(Pass \/ Look("pass")) /\ WF_vars(Look("operator")) /\ WF_vars(TimedPass)
  /\ WF_vars(StreamLoop) /\ WF_vars(ConsumeRecords) /\ WF_vars(RetryUnjournalled)
  /\ WF_vars(Restart) /\ \A f \in Fills : WF_vars(Shows(f))
FairSpec == Spec /\ Fairness

-------------------------------------------------------------------------------
\* What the sweep has left behind is on record: a fill older than the window a restart
\* would begin with is in the journal as a fill or as an orphan, and one older than the
\* window of the next pass is in memory (_sweep_fills, _save_sweep).
OnRecord == disk.booked \cup disk.orphans
InMemory == mem.booked \cup mem.orphans
NothingBehindTheMark ==
  /\ \A f \in Executed : disk.mark # NoMark /\ venue.at[f] < disk.mark - Lookback => f \in OnRecord
  /\ mem.alive => \A f \in Executed : venue.at[f] < mem.last - Lookback => f \in InMemory

\* Each journalled adjustment that has been read is in the position once
\* (_merge_adjustments, _apply_adjustment).
AdjustedOnce == mem.applied = mem.seen

\* While the manager would accept an order, each fill that happened before the stream was
\* subscribed is booked or reported, or the pass that found it is still to report it
\* (_stream_loop, _report_break).
Accepting == mem.alive /\ mem.healthy /\ ~mem.blind /\ ~mem.failed /\ ~mem.halted
AcceptingMeansCaughtUp ==
  Accepting => stream.before \subseteq InMemory \cup {b[2] : b \in pass.found} \cup pass.todo

\* Every fill reaches the journal in the end, as a fill or as an orphan.
EventuallyOnRecord == \A f \in Fills : (f \in Executed) ~> (f \in OnRecord)
===============================================================================
