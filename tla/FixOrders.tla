------------------------------ MODULE FixOrders -------------------------------
(***************************************************************************)
(* One order over one FIX session: FixProvider of                          *)
(* src/ismet/fix/provider.py over the store of fix/store.py.  The session  *)
(* is seen as the provider sees it: it takes an application message or     *)
(* says that it is down, and hands over the venue's messages in order,     *)
(* each again until its handler has returned.                              *)
(*                                                                         *)
(* A step is what runs between two store calls of one task.  _records_lock *)
(* is held by place_order from the halt check to the row; the other        *)
(* sections under it are one step each, taken when it is free.             *)
(*                                                                         *)
(* Abstractions.  Fills have quantity 1.  A report is what its tags mean:  *)
(* kind, ExecID, ClOrdID (0, or the number of a chained one), LastQty,     *)
(* CumQty, OrdStatus, the ExecID it refers to, PossResend, and a content   *)
(* that is "plain", "other" (the same ExecID with other content) or "bad"  *)
(* (a field the provider cannot read).  Events that tell of neither a      *)
(* fill, a bust nor a halt are left out.  The venue is external.           *)
(***************************************************************************)
EXTENDS Integers, Sequences, SequencesExt, FiniteSets, FiniteSetsExt, FixStore

CONSTANTS Callers,      \* tasks that may place the order
          Operators,    \* people who may release the quarantine
          Size,         \* the order's quantity
          MaxFills,     \* how often the venue may execute
          MaxBusts,     \* how often it may take one back
          MaxUnread,    \* messages of the venue's on their way at once
          MaxMoves      \* calls of ours and troubles (crashes, disconnects, losses and
                        \* bad or repeated reports), together

ASSUME BoundsAreNaturals ==
  {Size, MaxFills, MaxBusts, MaxUnread, MaxMoves} \subseteq Nat

VARIABLES
  store,    \* the rows of the FIX store
  ready,    \* the session is READY
  holder,   \* who holds _records_lock
  place,    \* the point each placing task has reached, or its result
  ask,      \* the request that waits for an answer: cancel, amend or status
  toVenue, toUs, \* what the session still has to carry each way
  venue,    \* the venue
  hand,     \* a committed report whose events are still to be published
  stream,   \* the subscriber's queue, or the backlog while there is none
  looked,   \* how many rows each operator has counted in quarantined(), or 0
  past,     \* history: NewOrderSingles sent, messages passed, what was lost
  budget

vars == <<store, ready, holder, place, ask, toVenue, toUs, venue, hand, stream, looked,
          past, budget>>
callVars == <<holder, place, ask>>
netVars == <<toVenue, toUs, venue>>

Spend(what) == budget[what] > 0 /\ budget' = [budget EXCEPT ![what] = @ - 1]

Terminal == {"FILLED", "CANCELED", "REJECTED"}
Held == {i \in Unreleased(store) : store.held[i].halted}
Known == store.row # NoRow
NoAsk == [kind |-> "none", wire |-> 0, answer |-> "none"]
NoHand == [busy |-> FALSE, events |-> <<>>, answers |-> FALSE]

Init ==
  /\ store = NoOrderRows
  /\ ready = TRUE
  /\ holder = "free"
  /\ place = [c \in Callers |-> "idle"]
  /\ ask = NoAsk
  /\ toVenue = <<>> /\ toUs = <<>>
  /\ venue = [status |-> "none", execs |-> 0, live |-> {}, busts |-> 0]
  /\ hand = NoHand
  /\ stream = [open |-> FALSE, queue |-> <<>>]
  /\ looked = [o \in Operators |-> 0]
  /\ past = [news |-> 0, passed |-> {}, due |-> {}, gone |-> {}, hidden |-> FALSE]
  /\ budget = [fills |-> MaxFills, busts |-> MaxBusts, moves |-> MaxMoves]

-------------------------------------------------------------------------------
\* place_order.
Goes(c, pc) == place' = [place EXCEPT ![c] = pc]
StartPlace(c) ==
  /\ place[c] = "idle" /\ ready /\ holder = "free"
  /\ Spend("moves")
  /\ IF Held = {} THEN Goes(c, "checked") /\ holder' = c
     ELSE Goes(c, "halted") /\ UNCHANGED holder
  /\ UNCHANGED <<store, ready, ask, netVars, hand, stream, looked, past>>

NewRow == [status |-> "SUBMITTING", wire |-> 0, chain |-> 0, acked |-> FALSE, filled |-> 0]
SlipRememberAnyway == TRUE
MayRemember == ~Known
Remember(c) ==
  /\ place[c] = "checked"
  /\ holder' = "free"
  /\ IF MayRemember
     THEN store' = LinkWireId(PutOrder(store, NewRow), 0) /\ Goes(c, "sending")
     ELSE Goes(c, "duplicate") /\ UNCHANGED store
  /\ UNCHANGED <<ready, ask, netVars, hand, stream, looked, past, budget>>

\* send_application: stored and on its way, or refused with nothing stored.
Carry(kind, wire) ==
  /\ toVenue' = Append(toVenue, [kind |-> kind, wire |-> wire])
  /\ UNCHANGED <<toUs, venue>>
SendNew(c) ==
  /\ place[c] = "sending"
  /\ IF ready THEN /\ Goes(c, "waiting") /\ Carry("new", 0)
                   /\ past' = [past EXCEPT !.news = @ + 1]
     ELSE Goes(c, "deleting") /\ UNCHANGED <<netVars, past>>
  /\ UNCHANGED <<store, ready, holder, ask, hand, stream, looked, budget>>
DeleteUnsent(c) ==
  /\ place[c] = "deleting"
  /\ store' = DeleteOrder(store)
  /\ Goes(c, "notSent")
  /\ UNCHANGED <<ready, holder, ask, netVars, hand, stream, looked, past, budget>>
\* The session was stopped first, and its store takes no more calls.
LeaveUnsent(c) ==
  /\ place[c] = "deleting" /\ ~ready
  /\ Spend("moves")
  /\ Goes(c, "notSent")
  /\ UNCHANGED <<store, ready, holder, ask, netVars, hand, stream, looked, past>>
\* AmbiguousOutcome: no acknowledgement in time, or no turn at the session's lock.
PlaceTimesOut(c) ==
  /\ place[c] \in {"sending", "waiting"}
  /\ Goes(c, "ambiguous")
  /\ UNCHANGED <<store, ready, holder, ask, netVars, hand, stream, looked, past, budget>>
\* The caller repeats a call that sent nothing.
PlaceAgain(c) ==
  /\ place[c] = "notSent"
  /\ Goes(c, "idle")
  /\ UNCHANGED <<store, ready, holder, ask, netVars, hand, stream, looked, past, budget>>
Placing == \E c \in Callers : \/ StartPlace(c) \/ Remember(c) \/ SendNew(c)
                              \/ DeleteUnsent(c) \/ LeaveUnsent(c) \/ PlaceTimesOut(c) \/ PlaceAgain(c)

\* cancel_order and amend_order: _next_wire_id, then the request; order_status.
NextInChain(row) == [row EXCEPT !.chain = @ + 1]
Change(kind) ==
  /\ ask = NoAsk /\ ready /\ holder = "free" /\ Known
  /\ kind = "amend" => Held = {}
  /\ Spend("moves")
  /\ LET row == NextInChain(store.row)
     IN  /\ store' = LinkWireId(PutOrder(store, row), row.chain)
         /\ ask' = [kind |-> kind, wire |-> row.chain, answer |-> "unsent"]
  /\ UNCHANGED <<ready, holder, place, netVars, hand, stream, looked, past>>
AskStatus ==
  /\ ask = NoAsk /\ ready /\ Known
  /\ Spend("moves")
  /\ ask' = [kind |-> "status", wire |-> store.row.wire, answer |-> "unsent"]
  /\ UNCHANGED <<store, ready, holder, place, netVars, hand, stream, looked, past>>
SendRequest ==
  /\ ask.answer = "unsent"
  /\ IF ready THEN ask' = [ask EXCEPT !.answer = "waiting"] /\ Carry(ask.kind, ask.wire)
     ELSE ask' = NoAsk /\ UNCHANGED netVars
  /\ UNCHANGED <<store, ready, holder, place, hand, stream, looked, past, budget>>
RequestEnds ==
  /\ ask.answer \notin {"none", "unsent"}
  /\ ask' = NoAsk
  /\ UNCHANGED <<store, ready, holder, place, netVars, hand, stream, looked, past, budget>>
Asking == Change("cancel") \/ Change("amend") \/ AskStatus \/ SendRequest \/ RequestEnds

-------------------------------------------------------------------------------
\* Events for the order manager, and its subscription.
Halt == <<"halt", 0>>
WithoutHalt(queue) ==
  LET kept[n \in 0..Len(queue)] ==
        CASE n = 0 -> <<>>
          [] n > 0 /\ queue[n] = Halt -> kept[n - 1]
          [] OTHER -> Append(kept[n - 1], queue[n])
  IN  kept[Len(queue)]
\* An error is for the subscriber alone; an event waits in the backlog for one.
Told(events) ==
  [stream EXCEPT !.queue = @ \o IF stream.open THEN events ELSE WithoutHalt(events)]
Subscribe ==
  /\ ~stream.open /\ Held = {}
  /\ stream' = [open |-> TRUE,
                queue |-> stream.queue
                            \o SetToSeq({<<"bust", id>> : id \in BustedExecutions(store)})]
  /\ UNCHANGED <<store, ready, callVars, netVars, hand, looked, past, budget>>
\* A halt ends the stream; what is left goes back to the backlog.
SlipLoseLeftovers(queue) == <<>>
Leftovers(queue) == WithoutHalt(queue)
TakeEvent ==
  /\ stream.open /\ stream.queue # <<>>
  /\ LET event == Head(stream.queue)
         rest == Tail(stream.queue)
     IN  IF event = Halt
         THEN stream' = [open |-> FALSE, queue |-> Leftovers(rest)] /\ UNCHANGED past
         ELSE /\ stream' = [stream EXCEPT !.queue = rest]
              /\ past' = [past EXCEPT !.due = @ \ {event}]
  /\ UNCHANGED <<store, ready, callVars, netVars, hand, looked, budget>>

-------------------------------------------------------------------------------
\* Execution reports.
FillOf(r) == IF r.kind = "fill" THEN <<<<"fill", r.id>>>> ELSE <<>>
EventsFor(r) ==
  CASE r.kind = "fill" -> FillOf(r)
    [] r.kind = "bust" -> <<<<"bust", r.ref>>>>
    [] OTHER -> <<>>

\* _lost_report_reason: CumQty is not the total of the fills received.
TotalDiffers(row, r) ==
  /\ row # NoRow /\ r.kind \notin {"bust", "dupReject"}
  /\ r.cum # row.filled + r.qty

Updated(row, r) ==
  IF row = NoRow \/ r.kind = "dupReject" THEN row
  ELSE [row EXCEPT !.filled = r.cum, !.status = r.status,
                   !.acked = @ \/ r.kind # "rejected",
                   !.wire = IF r.kind = "replaced" THEN r.wire ELSE @]
\* What a late PossResend must not undo.
SlipTrustResend(row, r) == Updated(row, r)
Preserved(row, r) ==
  LET new == Updated(row, r)
  IN  IF ~(r.resend /\ TotalDiffers(row, r)) THEN new
      ELSE [new EXCEPT !.filled = Max({@, row.filled + r.qty}),
                       !.status = IF row.status \in Terminal /\ @ \notin Terminal
                                  THEN row.status ELSE @]

\* _answer_waiters: the first answer that belongs to the request.
Answered(r) ==
  /\ place' = [c \in Callers |->
                IF place[c] # "waiting" \/ r.wire # 0 THEN place[c]
                ELSE CASE r.kind = "rejected" -> "rejected"
                       [] r.kind = "dupReject" -> "duplicate"
                       [] OTHER -> "acked"]
  /\ ask' = IF ask.answer = "waiting" /\ ask.kind # "status" /\ ask.wire = r.wire
            THEN [ask EXCEPT !.answer = "answered"] ELSE ask

Now == Head(toUs)
Reading(kinds) == ~hand.busy /\ toUs # <<>> /\ Now.kind \in kinds
ReportKinds == {"ack", "fill", "bust", "canceled", "rejected", "replaced", "dupReject"}
ReadingReport == Reading(ReportKinds) /\ holder = "free"
Seen(r) == r.id \in DOMAIN store.execs
Repeat(r) == Seen(r) /\ store.execs[r.id].content = r.content
\* A report that cannot be applied: unreadable, or a fill of an order without a row.
Unapplicable(r) == r.content = "bad" \/ (r.kind = "fill" /\ ~Known)
Passed(r) == [past EXCEPT !.passed = @ \cup {r}]

\* The commit of a report.  Its events go out in a later step, and the session's
\* number advances after that.
Commit(s, events, answers) ==
  /\ store' = s
  /\ hand' = [busy |-> TRUE, events |-> events, answers |-> answers]
  /\ UNCHANGED <<ready, callVars, netVars, stream, looked, budget>>
DropRepeat ==
  /\ ReadingReport /\ Repeat(Now)
  /\ Commit(store, <<>>, FALSE)
  /\ UNCHANGED past
QuarantineReport ==
  /\ ReadingReport /\ ~Repeat(Now) /\ Unapplicable(Now)
  /\ Commit(Quarantine(store, Entry(Now.id, TRUE)), <<Halt>>, FALSE)
  /\ UNCHANGED past
QuarantineConflict ==
  /\ ReadingReport /\ Seen(Now) /\ ~Repeat(Now) /\ ~Unapplicable(Now)
  /\ Commit(Quarantine(store, Entry(Now.id, TRUE)), FillOf(Now) \o <<Halt>>, FALSE)
  /\ UNCHANGED past
ApplyReport ==
  /\ ReadingReport /\ ~Seen(Now) /\ ~Unapplicable(Now)
  /\ LET wrong == TotalDiffers(store.row, Now)
     IN  Commit(RecordReport(store, Preserved(store.row, Now),
                             Now.id, Execution(Now.content, Now.qty),
                             IF Now.kind = "bust" THEN Now.ref ELSE 0,
                             IF wrong THEN <<Entry(Now.id, TRUE)>> ELSE <<>>),
                IF wrong THEN FillOf(Now) \o <<Halt>> ELSE EventsFor(Now), TRUE)
  /\ past' = [past EXCEPT !.due = @ \cup Range(FillOf(Now))]
Publish ==
  /\ hand.busy
  /\ stream' = Told(hand.events)
  /\ IF hand.answers THEN Answered(Now) ELSE UNCHANGED <<place, ask>>
  /\ toUs' = Tail(toUs)
  /\ hand' = NoHand
  /\ past' = Passed(Now)
  /\ UNCHANGED <<store, ready, holder, toVenue, venue, looked, budget>>

\* Status reports.  One that cannot be read is quarantined and halts nothing.
StatusAnswer(answer) ==
  ask' = IF ask.kind = "status" /\ ask.answer = "waiting"
         THEN [ask EXCEPT !.answer = answer] ELSE ask
Forgotten(row) ==
  IF row = NoRow \/ row.status \in Terminal THEN row ELSE [row EXCEPT !.status = "CANCELED"]
WithStatus(row, status) ==
  IF row = NoRow THEN row
  ELSE [row EXCEPT !.status = status, !.acked = @ \/ status # "SUBMITTING"]
ApplyStatus ==
  /\ Reading({"status", "unknown"}) /\ holder = "free"
  /\ store' = IF Now.content = "bad" THEN Quarantine(store, Entry(Now.id, FALSE))
              ELSE PutOrder(store, IF Now.kind = "unknown" THEN Forgotten(store.row)
                                   ELSE WithStatus(store.row, Now.status))
  /\ StatusAnswer(IF Now.content = "bad" THEN "failed" ELSE Now.kind)
  /\ toUs' = Tail(toUs)
  /\ UNCHANGED <<ready, holder, place, toVenue, venue, hand, stream, looked, past, budget>>

\* OrderCancelReject, and a reject of the new order by the session or business level.
Rejection(of) == <<"rejected", of>>
OnCancelReject ==
  /\ Reading({"cancelReject"})
  /\ LET waiting == ask.answer = "waiting" /\ ask.wire = Now.wire
     IN  /\ ask' = IF waiting THEN [ask EXCEPT !.answer = "refused"] ELSE ask
         /\ stream' = IF waiting \/ ~Known THEN stream ELSE Told(<<Rejection(Now.wire)>>)
  /\ toUs' = Tail(toUs)
  /\ UNCHANGED <<store, ready, holder, place, toVenue, venue, hand, looked, past, budget>>
\* The stream hears it too, unless it answers a copy of an order the venue has taken.
AnswersACopy == Known /\ store.row.acked /\ \A c \in Callers : place[c] # "waiting"
OnBusinessReject ==
  /\ Reading({"businessReject"})
  /\ place' = [c \in Callers |-> IF place[c] = "waiting" THEN "rejected" ELSE place[c]]
  /\ stream' = IF AnswersACopy THEN stream ELSE Told(<<Rejection(0)>>)
  /\ toUs' = Tail(toUs)
  /\ UNCHANGED <<store, ready, holder, ask, toVenue, venue, hand, looked, past, budget>>
Reader == \/ DropRepeat \/ QuarantineConflict \/ QuarantineReport \/ ApplyReport
          \/ Publish \/ ApplyStatus \/ OnCancelReject \/ OnBusinessReject

-------------------------------------------------------------------------------
\* The session goes down, numbers are lost, the process dies.
SessionDown ==
  /\ ready /\ Spend("moves")
  /\ ready' = FALSE
  /\ place' = [c \in Callers |-> IF place[c] = "waiting" THEN "ambiguous" ELSE place[c]]
  /\ ask' = IF ask.answer = "waiting" THEN [ask EXCEPT !.answer = "failed"] ELSE ask
  /\ UNCHANGED <<store, holder, netVars, hand, stream, looked, past>>
SessionReady ==
  /\ ~ready
  /\ ready' = TRUE
  /\ UNCHANGED <<store, callVars, netVars, hand, stream, looked, past, budget>>

\* Unread numbers are reset or skipped away by the peer, or reset by us: a halting row
\* first, except that our own reset is quiet while no order is open.
Quietly(ours) == ours /\ (~Known \/ store.row.status \in Terminal)
LoseUnread(ours) ==
  /\ ~hand.busy /\ toUs # <<>> /\ Spend("moves")
  /\ IF Quietly(ours)
     THEN /\ past' = [past EXCEPT !.hidden = TRUE]
          /\ UNCHANGED <<store, stream>>
     ELSE /\ store' = Quarantine(store, Entry(0, TRUE))
          /\ stream' = Told(<<Halt>>)
          /\ UNCHANGED past
  /\ toUs' = <<>>
  /\ UNCHANGED <<ready, callVars, toVenue, venue, hand, looked>>
\* A message too old to be sent again is gap-filled: ours, or a report of the venue's.
GapFilledOut ==
  /\ toVenue # <<>> /\ Spend("moves")
  /\ toVenue' = Tail(toVenue)
  /\ UNCHANGED <<store, ready, callVars, toUs, venue, hand, stream, looked, past>>
GapFilledIn ==
  /\ ~hand.busy /\ toUs # <<>> /\ Spend("moves")
  /\ toUs' = Tail(toUs)
  /\ past' = [past EXCEPT !.gone = @ \cup {Now}]
  /\ UNCHANGED <<store, ready, callVars, toVenue, venue, hand, stream, looked>>

Crash ==
  /\ Spend("moves")
  /\ ready' = FALSE
  /\ holder' = "free"
  /\ place' = [c \in Callers |-> IF place[c] \in {"checked", "sending", "deleting", "waiting"}
                                 THEN "idle" ELSE place[c]]
  /\ ask' = NoAsk
  /\ hand' = NoHand
  /\ stream' = [open |-> FALSE, queue |-> <<>>]
  /\ past' = [past EXCEPT !.due = {}]
  /\ UNCHANGED <<store, netVars, looked>>

\* quarantined, then release_quarantine with the count that was seen; who is
\* refused reads them again.
Look(o) ==
  /\ Held # {}
  /\ looked' = [looked EXCEPT ![o] = Cardinality(Unreleased(store))]
  /\ looked' # looked
  /\ UNCHANGED <<store, ready, callVars, netVars, hand, stream, past, budget>>
Release(o) ==
  /\ looked[o] > 0
  /\ store' = ReleaseQuarantine(store, o, looked[o])
  /\ looked' = [looked EXCEPT ![o] = 0]
  /\ UNCHANGED <<ready, callVars, netVars, hand, stream, past, budget>>
Faults == \/ SessionDown \/ SessionReady \/ LoseUnread(TRUE) \/ LoseUnread(FALSE)
          \/ GapFilledOut \/ GapFilledIn \/ Crash
          \/ \E o \in Operators : Look(o) \/ Release(o)

-------------------------------------------------------------------------------
\* The venue.
Working == venue.status \in {"NEW", "PART"}
Report(kind, id, v) ==
  [kind |-> kind, id |-> id, wire |-> 0, qty |-> 0, cum |-> Cardinality(v.live),
   status |-> v.status, ref |-> 0, resend |-> FALSE, content |-> "plain"]
Says(v, r) == Len(toUs) < MaxUnread /\ venue' = v /\ toUs' = Append(toUs, r)
NextExec == venue.execs + 1
Becomes(status) == [venue EXCEPT !.status = status, !.execs = NextExec]
AnswerNew ==
  \/ Says(Becomes("NEW"), Report("ack", NextExec, Becomes("NEW")))
  \/ Says(Becomes("REJECTED"), Report("rejected", NextExec, Becomes("REJECTED")))
  \/ Says([venue EXCEPT !.status = "REJECTED"], Report("businessReject", 0, venue))
AnswerChange(kind, wire) ==
  IF ~Working THEN Says(venue, [Report("cancelReject", 0, venue) EXCEPT !.wire = wire])
  ELSE IF kind = "cancel"
       THEN Says(Becomes("CANCELED"),
                 [Report("canceled", NextExec, Becomes("CANCELED")) EXCEPT !.wire = wire])
       ELSE Says(Becomes(venue.status),
                 [Report("replaced", NextExec, venue) EXCEPT !.wire = wire])
AnswerStatus ==
  IF venue.status = "none" THEN Says(venue, Report("unknown", 0, venue))
  ELSE \/ Says(venue, Report("status", 0, venue))
       \/ /\ budget.moves > 0
          /\ Says(venue, [Report("status", 0, venue) EXCEPT !.content = "bad"])
VenueTakes ==
  /\ toVenue # <<>>
  /\ toVenue' = Tail(toVenue)
  /\ CASE Head(toVenue).kind = "new" -> AnswerNew
       [] Head(toVenue).kind = "status" -> AnswerStatus
       [] OTHER -> AnswerChange(Head(toVenue).kind, Head(toVenue).wire)
  /\ UNCHANGED <<store, ready, callVars, hand, stream, looked, past, budget>>

VenueFills(content) ==
  /\ Working /\ Cardinality(venue.live) < Size
  /\ IF content = "plain" THEN Spend("fills")
     ELSE budget.fills > 0 /\ Spend("moves")
  /\ LET live == venue.live \cup {NextExec}
         v == [status |-> IF Cardinality(live) = Size THEN "FILLED" ELSE "PART",
               execs |-> NextExec, live |-> live, busts |-> venue.busts]
     IN  Says(v, [Report("fill", NextExec, v) EXCEPT !.qty = 1, !.content = content])
  /\ UNCHANGED <<store, ready, callVars, toVenue, hand, stream, looked, past>>
VenueBusts(id) ==
  /\ Spend("busts")
  /\ LET v == [status |-> IF venue.status = "FILLED" THEN "PART" ELSE venue.status,
               execs |-> NextExec, live |-> venue.live \ {id}, busts |-> venue.busts + 1]
     IN  Says(v, [Report("bust", NextExec, v) EXCEPT !.ref = id])
  /\ UNCHANGED <<store, ready, callVars, toVenue, hand, stream, looked, past>>
\* It contradicts itself, sends again what was gap-filled, or answers a resent copy.
VenueRepeats(v, r) ==
  /\ Spend("moves")
  /\ Says(v, r)
  /\ UNCHANGED <<store, ready, callVars, toVenue, hand, stream, looked, past>>
Venue ==
  \/ VenueTakes
  \/ VenueFills("plain")
  \/ VenueFills("bad")
  \/ \E id \in venue.live : VenueBusts(id)
  \/ \E r \in past.passed : r.content = "plain" /\ VenueRepeats(venue, [r EXCEPT !.content = "other"])
  \/ \E r \in past.passed \cup past.gone :
       r.kind \in ReportKinds /\ VenueRepeats(venue, [r EXCEPT !.resend = TRUE])
  \/ venue.status # "none" /\ VenueRepeats(Becomes(venue.status), Report("dupReject", NextExec, venue))
  \/ venue.status # "none" /\ VenueRepeats(venue, Report("businessReject", 0, venue))

Next == Placing \/ Asking \/ Subscribe \/ TakeEvent \/ Reader \/ Faults \/ Venue
Spec == Init /\ [][Next]_vars

-------------------------------------------------------------------------------
\* At most one NewOrderSingle leaves for a client order id, whoever asks, in whatever
\* order, and across crashes, disconnects and timeouts (place_order, remember).
SentOnce == past.news <= 1

\* Whatever report the session has moved past is on record: a fill is stored, a bust has
\* marked its fill, or a row that halts new orders names the report.  And every fill
\* stored since the process started has reached the order manager or is on its way
\* (_apply_report, _quarantine, _halt_order, stream_executions).
Halts(id) == \E i \in DOMAIN store.held : store.held[i].halted /\ store.held[i].about = id
Stored(id) == id \in DOMAIN store.execs /\ store.execs[id].fill = 1
NothingForgotten ==
  /\ \A r \in past.passed :
       /\ r.kind = "fill" => Halts(r.id) \/ (Stored(r.id) /\ r.content = store.execs[r.id].content)
       /\ r.kind = "bust" => Halts(r.id) \/ (Stored(r.ref) => store.execs[r.ref].busted)
                                         \/ \E g \in past.gone : g.id = r.ref
  /\ past.due \subseteq Range(stream.queue) \cup Range(hand.events)

\* The quantity filled that the order's row carries.  It is never below the fills booked
\* unless a bust was lost, however late an old report is sent again; and while nothing
\* has halted it is exactly the fills booked, even if some were gap-filled away
\* (_lost_report_reason, _apply_report).
Booked == Cardinality(FillsSince(store))
EverHalted == \E i \in DOMAIN store.held : store.held[i].halted
LostABust == \/ past.hidden \/ Halts(0)
             \/ \E r \in past.gone \cup past.passed : r.kind = "bust" /\ (r \in past.gone \/ Halts(r.id))
BustAfterLoss == past.gone # {} /\ venue.busts > 0
FilledAccountsForFills ==
  Known => /\ LostABust \/ BustAfterLoss \/ store.row.filled >= Booked
           /\ EverHalted \/ past.hidden \/ BustAfterLoss \/ store.row.filled = Booked
===============================================================================
