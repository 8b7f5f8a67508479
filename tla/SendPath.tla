------------------------------- MODULE SendPath -------------------------------
(***************************************************************************)
(* The life of one client order id in the order manager of                 *)
(* src/ismet/execution/manager.py: submit, cancel, the execution stream,   *)
(* reconciliation and recovery, over a journal that outlives the process.  *)
(*                                                                         *)
(* The manager is one event loop: what runs between two awaits is one      *)
(* step.  _record journals an event and applies it under one lock, so it   *)
(* is one step too; the step is taken when the lock is free, after the     *)
(* caller has yielded, so whatever the caller read before may be stale.    *)
(*                                                                         *)
(* A pc names the point a task has reached.  A pc that is a reject code    *)
(* means the task is about to record a Rejected event with that code.      *)
(*                                                                         *)
(* Abstractions.  The order has quantity 1, so one fill completes it.      *)
(* Refusals before the intent for reasons other than the kill switch       *)
(* (risk, stream, reconciliation, journal failure) are a free choice.  The *)
(* kill switch is only ever engaged here.  The grace periods are one bit   *)
(* each (aged): the unknown grace is assumed to be longer than a request   *)
(* can stay in flight.  The venue is external: it takes a request once, it *)
(* may refuse it, fill it or cancel it on its own.                         *)
(***************************************************************************)
EXTENDS Integers, Sequences, FiniteSets

CONSTANTS Callers,        \* tasks that may submit this order
          MaxCrashes,     \* how often the process may die
          MaxFaults,      \* how often a journal call may fail
          MaxQueryFaults, \* how often a venue query or cancel may fail
          MaxCancels,     \* how often an owner or the kill sweep asks to cancel
          MaxAbandons     \* how often a submit may be cancelled by its caller

ASSUME BoundsAreNaturals ==
  {MaxCrashes, MaxFaults, MaxQueryFaults, MaxCancels, MaxAbandons} \subseteq Nat

TheFill == [id |-> "x", qty |-> 1, match |-> TRUE, fee |-> 0]

INSTANCE OrderState WITH Sizes <- {1}, Prices <- {1}, Reports <- {TheFill}

NoOrder == [status |-> "NONE"]

\* Recorded for an order that never reached the venue.
UnsentCodes ==
  {"CANCELED_BEFORE_SEND", "KILL_SWITCH", "JOURNAL_UNREADABLE", "NEVER_SENT"}

TableOf ==
  [send_started |-> SendStartedTable, ack |-> AckTable, reject |-> RejectTable,
   unknown |-> OutcomeUnknownTable, cancel_requested |-> CancelRequestedTable,
   cancel_rejected |-> CancelRejectedTable, canceled |-> CanceledTable]

\* What one event makes of the order; a restatement is named by its status.
Applied(o, event) ==
  CASE event = "intent" -> NewOrder(1, 1)
    [] event = "fill" -> [Settle(ApplyFill(o, TheFill)) EXCEPT !.anomalies = {}]
    [] event \in Statuses -> [Settle(ApplyRestated(o, event)) EXCEPT !.anomalies = {}]
    [] OTHER -> [Settle(Transition(o, TableOf[event])) EXCEPT !.anomalies = {}]

\* The loop of a replay, over what the journal has and then over what it missed.
Replayed(o, events) ==
  LET state[n \in 0..Len(events)] ==
        IF n = 0 THEN o ELSE Applied(state[n - 1], events[n])
  IN  state[Len(events)]

-------------------------------------------------------------------------------
VARIABLES
  up,       \* whether the process is running
  mem,      \* the order in memory
  disk,     \* the order a replay of the journal gives
  backlog,  \* events in memory that the journal has missed, oldest first
  kill, killDisk,   \* the kill switch in memory and in the journal
  at,       \* the pc of each submitting task
  cancelBeforeSend, \* a cancel asked while the venue has not been called
  attempts, \* how often place_order has been called
  wire, cancelWire, \* a request, a cancel on its way to the venue
  venue, purged, \* what the venue made of the order, whether it forgot it since
  cancelAt, \* the pc of the task that cancels
  reconAt,  \* the pc of the reconciler
  answer,   \* the venue's last answer to the reconciler
  unsentSeen, \* the reconciler listed the order before its send started
  moved,    \* an event was recorded since the reconciler last looked
  aged,     \* the grace periods that have passed
  budget,   \* what is left of each bound
  refusals, \* history: codes recorded as never sent, and by which part
  killFirst, \* history: the switch was engaged before SendStarted was recorded
  canceledFirst \* history: a cancel was left to the send path

recordVars == <<mem, disk, backlog, moved, aged>>
killVars == <<kill, killDisk>>
sendVars == <<at, cancelBeforeSend, attempts>>
venueVars == <<wire, cancelWire, venue, purged>>
reconVars == <<reconAt, answer, unsentSeen>>
historyVars == <<refusals, killFirst, canceledFirst>>
vars == <<up, recordVars, killVars, sendVars, venueVars, cancelAt, reconVars,
          budget, historyVars>>

Spend(what) == budget[what] > 0 /\ budget' = [budget EXCEPT ![what] = @ - 1]

OrderKnown == mem # NoOrder
Ended == mem.status \in Terminal
Unresolved == {"SUBMITTING", "UNKNOWN"}

\* The statuses in which each grace period runs on.
Waiting == [unknown |-> Unresolved, change |-> PendingStatuses]

\* The steps of a submit in which its id is in _submitting, and in _placing.
PlacingSteps == {"placing", "acking", "rejecting", "doubting"}
SubmittingSteps ==
  {"intending", "starting", "stamping", "reading", "deciding"}
    \cup PlacingSteps \cup UnsentCodes
Submitting == \E c \in Callers : at[c] \in SubmittingSteps
Placing == \E c \in Callers : at[c] \in PlacingSteps

-------------------------------------------------------------------------------
\* Journal and memory.
Remember(before, event) ==
  LET after == Applied(before, event)
  IN  /\ mem' = after
      /\ moved' = (reconAt \notin {"idle", "orphans", "sweeping"})
      /\ aged' = {grace \in aged : after.status \in Waiting[grace]}

\* The journal takes what it missed first (WriteUnjournalled), then the event.
Journalled(event) ==
  /\ backlog = <<>>
  /\ disk' = Applied(disk, event)
  /\ UNCHANGED backlog

SlipLoseEvent(unwritten) == Spend("faults") /\ UNCHANGED <<disk, backlog>>
JournalStops(unwritten) ==
  /\ Spend("faults")
  /\ backlog' = backlog \o unwritten
  /\ UNCHANGED disk

RecordOn(before, event) ==
  /\ Remember(before, event)
  /\ \/ Journalled(event) /\ UNCHANGED budget
     \/ JournalStops(<<event>>)
Record(event) == RecordOn(mem, event)

\* A durable event that cannot be written is raised, and does not reach memory.
RecordDurably(event) ==
  /\ Remember(mem, event)
  /\ Journalled(event)
  /\ UNCHANGED budget
JournalRefuses == JournalStops(<<>>) /\ UNCHANGED <<mem, moved, aged>>

Refused(code, by) == refusals' = refusals \cup {<<code, by>>}

\* Events a failed journal missed are written one at a time, oldest first, by the
\* next event that is recorded or by the kill loop.
WriteUnjournalled ==
  /\ up /\ backlog # <<>>
  /\ disk' = Applied(disk, Head(backlog))
  /\ backlog' = Tail(backlog)
  /\ UNCHANGED <<up, mem, moved, aged, killVars, sendVars, venueVars, cancelAt,
                 reconVars, budget, historyVars>>

-------------------------------------------------------------------------------
\* The kill switch: memory first, the journal when it can; engages elsewhere are
\* seen when the journal is read.
EngageKill ==
  /\ up /\ ~kill
  /\ kill' = TRUE
  /\ UNCHANGED <<up, recordVars, killDisk, sendVars, venueVars, cancelAt,
                 reconVars, budget, historyVars>>

RecordKill ==
  /\ up /\ kill /\ ~killDisk
  /\ killDisk' = TRUE
  /\ UNCHANGED <<up, recordVars, kill, sendVars, venueVars, cancelAt,
                 reconVars, budget, historyVars>>

EngageKillElsewhere ==
  /\ ~killDisk
  /\ killDisk' = TRUE
  /\ UNCHANGED <<up, recordVars, kill, sendVars, venueVars, cancelAt,
                 reconVars, budget, historyVars>>

MergeKill == kill' = (kill \/ killDisk) /\ UNCHANGED killDisk

KillLoop ==
  /\ up /\ killDisk /\ ~kill
  /\ MergeKill
  /\ UNCHANGED <<up, recordVars, sendVars, venueVars, cancelAt, reconVars,
                 budget, historyVars>>

-------------------------------------------------------------------------------
\* Submit.  A call that returns leaves its task idle, free to call again.
SubmitFrame == UNCHANGED <<up, venueVars, cancelAt, reconVars>>
OrderKept == UNCHANGED <<mem, disk, backlog, moved, aged, budget>>

Goto(c, pc) ==
  /\ at' = [at EXCEPT ![c] = pc]
  /\ cancelBeforeSend' = (cancelBeforeSend /\ pc # "idle")

\* A call that never got the id into _submitting leaves its flags alone.
SlipBackToIdle(c) == Goto(c, "idle")
BackToIdle(c) == at' = [at EXCEPT ![c] = "idle"] /\ UNCHANGED cancelBeforeSend

\* A repeated call returns the order there is.
Submit(c) ==
  /\ up /\ at[c] = "idle" /\ ~OrderKnown
  /\ at' = [at EXCEPT ![c] = "quoting"]
  /\ SubmitFrame /\ OrderKept
  /\ UNCHANGED <<killVars, cancelBeforeSend, attempts, historyVars>>

SubmitLocked == \E c \in Callers : at[c] \in {"checking", "intending"}

\* The awaits before the lock may have let another call with this id in.
TakeSubmitLock(c) ==
  /\ at[c] = "quoting" /\ ~SubmitLocked
  /\ at' = [at EXCEPT ![c] = IF OrderKnown THEN "idle" ELSE "checking"]
  /\ SubmitFrame /\ OrderKept
  /\ UNCHANGED <<killVars, cancelBeforeSend, attempts, historyVars>>

CheckCanTrade(c) ==
  /\ at[c] = "checking"
  /\ MergeKill
  /\ \E pc \in IF kill' THEN {"idle"} ELSE {"idle", "intending"} :
       at' = [at EXCEPT ![c] = pc]
  /\ SubmitFrame /\ OrderKept
  /\ UNCHANGED <<cancelBeforeSend, attempts, historyVars>>

\* The journal takes one intent per id.
WriteIntent(c) ==
  /\ at[c] = "intending"
  /\ \/ disk = NoOrder /\ RecordDurably("intent") /\ Goto(c, "starting")
     \/ JournalRefuses /\ Goto(c, "idle")
  /\ SubmitFrame
  /\ UNCHANGED <<killVars, attempts, historyVars>>

\* The first look at what may forbid the send.
BeginSend(c) ==
  /\ at[c] = "starting"
  /\ Goto(c, CASE mem.status # "PENDING_SUBMIT" -> "idle"
                [] mem.status = "PENDING_SUBMIT" /\ cancelBeforeSend -> "CANCELED_BEFORE_SEND"
                [] mem.status = "PENDING_SUBMIT" /\ ~cancelBeforeSend /\ kill -> "KILL_SWITCH"
                [] OTHER -> "stamping")
  /\ SubmitFrame /\ OrderKept
  /\ UNCHANGED <<killVars, attempts, historyVars>>

\* SendStarted must be on disk before the venue is called.  A failure closes the
\* order as unsent, if it still is.
RecordSendStarted(c) ==
  /\ at[c] = "stamping"
  /\ \/ /\ RecordDurably("send_started")
        /\ Goto(c, IF mem'.status = "SUBMITTING" THEN "reading" ELSE "idle")
        /\ killFirst' = (kill \/ killDisk)
     \/ /\ JournalRefuses
        /\ \E code \in {"NEVER_SENT", "CANCELED_BEFORE_SEND"} :
             Goto(c, IF mem.status = "PENDING_SUBMIT" THEN code ELSE "idle")
        /\ UNCHANGED killFirst
  /\ SubmitFrame
  /\ UNCHANGED <<killVars, attempts, refusals, canceledFirst>>

\* That write took time, so the switch is read again; unreadable refuses too.
SlipRereadKill(c) ==
  /\ at[c] = "reading"
  /\ Goto(c, "deciding") /\ UNCHANGED killVars /\ OrderKept
  /\ SubmitFrame
  /\ UNCHANGED <<attempts, historyVars>>
RereadKill(c) ==
  /\ at[c] = "reading"
  /\ \/ cancelBeforeSend /\ Goto(c, "deciding") /\ UNCHANGED killVars /\ OrderKept
     \/ ~cancelBeforeSend /\ MergeKill /\ Goto(c, "deciding") /\ OrderKept
     \/ /\ ~cancelBeforeSend /\ Spend("faults") /\ Goto(c, "JOURNAL_UNREADABLE")
        /\ UNCHANGED <<killVars, mem, disk, backlog, moved, aged>>
  /\ SubmitFrame
  /\ UNCHANGED <<attempts, historyVars>>

\* The last look, and in the same step the call to the venue.
Decide(c) ==
  /\ at[c] = "deciding"
  /\ \/ /\ cancelBeforeSend
        /\ Goto(c, "CANCELED_BEFORE_SEND") /\ UNCHANGED <<attempts, wire>>
     \/ /\ ~cancelBeforeSend /\ kill
        /\ Goto(c, "KILL_SWITCH") /\ UNCHANGED <<attempts, wire>>
     \/ /\ ~cancelBeforeSend /\ ~kill
        /\ Goto(c, "placing") /\ attempts' = attempts + 1 /\ wire' = TRUE
  /\ OrderKept
  /\ UNCHANGED <<up, cancelWire, venue, purged, cancelAt, reconVars, killVars, historyVars>>

\* How place_order ends: accepted; certainly refused or not delivered; or in doubt,
\* as after a timeout, a duplicate id or an adapter's own failure.
SlipPlaceEnds(c) ==
  /\ at[c] = "placing"
  /\ \/ venue \in {"live", "filled", "canceled"} /\ Goto(c, "acking")
     \/ venue \in {"none", "refused"} /\ ~wire /\ Goto(c, "rejecting")
     \/ Goto(c, "deciding")
  /\ SubmitFrame /\ OrderKept
  /\ UNCHANGED <<killVars, attempts, historyVars>>
PlaceEnds(c) ==
  /\ at[c] = "placing"
  /\ \/ venue \in {"live", "filled", "canceled"} /\ Goto(c, "acking")
     \/ venue \in {"none", "refused"} /\ ~wire /\ Goto(c, "rejecting")
     \/ Goto(c, "doubting")
  /\ SubmitFrame /\ OrderKept
  /\ UNCHANGED <<killVars, attempts, historyVars>>

RecordAnswer(c) ==
  /\ \/ at[c] = "acking" /\ Record("ack")
     \/ at[c] = "rejecting" /\ Record("reject")
     \/ at[c] = "doubting" /\ Record("unknown")
  /\ Goto(c, "idle")
  /\ SubmitFrame
  /\ UNCHANGED <<killVars, attempts, historyVars>>

RefuseSend(c) ==
  /\ at[c] \in UnsentCodes
  /\ Record("reject") /\ Refused(at[c], "send") /\ Goto(c, "idle")
  /\ SubmitFrame
  /\ UNCHANGED <<killVars, attempts, killFirst, canceledFirst>>

\* The caller is cancelled at an await.  _record finishes first: the cancellation
\* lands after the intent is written (starting) or SendStarted is (reading).
SlipAbandon(c) ==
  /\ Spend("abandons")
  /\ \/ at[c] \in {"quoting", "checking"} /\ BackToIdle(c)
     \/ at[c] = "starting" /\ Goto(c, "idle")
     \/ at[c] = "reading" /\ (Goto(c, "idle") \/ Goto(c, "CANCELED_BEFORE_SEND"))
     \/ at[c] = "placing" /\ Goto(c, "doubting")
  /\ SubmitFrame
  /\ UNCHANGED <<recordVars, killVars, attempts, historyVars>>
Abandon(c) ==
  /\ Spend("abandons")
  /\ \/ at[c] \in {"quoting", "checking"} /\ BackToIdle(c)
     \/ /\ at[c] = "starting"
        /\ Goto(c, IF mem.status = "PENDING_SUBMIT" THEN "CANCELED_BEFORE_SEND" ELSE "idle")
     \/ at[c] = "reading" /\ (Goto(c, "idle") \/ Goto(c, "CANCELED_BEFORE_SEND"))
     \/ at[c] = "placing" /\ Goto(c, "doubting")
  /\ SubmitFrame
  /\ UNCHANGED <<recordVars, killVars, attempts, historyVars>>

SubmitStep(c) ==
  \/ TakeSubmitLock(c) \/ CheckCanTrade(c) \/ WriteIntent(c) \/ BeginSend(c)
  \/ RecordSendStarted(c) \/ RereadKill(c) \/ Decide(c) \/ PlaceEnds(c)
  \/ RecordAnswer(c) \/ RefuseSend(c)

-------------------------------------------------------------------------------
\* Cancel, asked by an owner or by the kill sweep.
CancelFrame == UNCHANGED <<up, killVars, at, attempts, reconVars, refusals, killFirst>>

\* Before the venue is called the send path decides; afterwards the venue is asked.
\* Closing a PENDING_SUBMIT order that nobody is sending (manager.py:1430) is left out:
\* NoIntentIsLeft shows there is none.
Cancel ==
  /\ up /\ cancelAt = "idle" /\ OrderKnown /\ ~Ended
  /\ Spend("cancels")
  /\ \/ /\ Submitting /\ ~Placing
        /\ cancelBeforeSend' = TRUE /\ canceledFirst' = TRUE
        /\ UNCHANGED <<cancelAt, aged>>
     \/ /\ ~Submitting \/ Placing
        /\ cancelAt' = "requesting" /\ aged' = aged \ {"change"}
        /\ UNCHANGED <<cancelBeforeSend, canceledFirst>>
  /\ CancelFrame
  /\ UNCHANGED <<mem, disk, backlog, moved, venueVars>>

RequestCancel ==
  /\ cancelAt = "requesting"
  /\ Record("cancel_requested") /\ cancelAt' = "calling"
  /\ CancelFrame
  /\ UNCHANGED <<cancelBeforeSend, canceledFirst, venueVars>>

\* The venue cancels a live order, refuses any other; a cancel in doubt may land yet.
VenueTakesCancel ==
  /\ venue' = IF venue = "live" THEN "canceled" ELSE venue
  /\ UNCHANGED <<wire, cancelWire, purged>>
CancelInDoubt ==
  /\ Spend("queries")
  /\ cancelWire' = TRUE
  /\ UNCHANGED <<wire, venue, purged>>

CallCancel ==
  /\ cancelAt = "calling"
  /\ \/ /\ VenueTakesCancel /\ UNCHANGED budget
        /\ cancelAt' = IF venue = "live" THEN "idle" ELSE "refused"
     \/ CancelInDoubt /\ cancelAt' = "doubted"
  /\ CancelFrame
  /\ UNCHANGED <<recordVars, cancelBeforeSend, canceledFirst>>

RecordCancelAnswer ==
  /\ \/ cancelAt = "refused" /\ Record("cancel_rejected")
     \/ cancelAt = "doubted" /\ Record("unknown")
  /\ cancelAt' = "idle"
  /\ CancelFrame
  /\ UNCHANGED <<cancelBeforeSend, canceledFirst, venueVars>>

CancelStep == RequestCancel \/ CallCancel \/ RecordCancelAnswer

-------------------------------------------------------------------------------
\* The venue and the network, external: at most one order under this id.
External == UNCHANGED <<up, recordVars, killVars, sendVars, cancelAt, reconVars,
                        budget, historyVars>>

VenueTakesRequest ==
  /\ wire /\ wire' = FALSE
  /\ venue' \in IF venue = "none" THEN {"live", "refused"} ELSE {venue}
  /\ UNCHANGED <<cancelWire, purged>> /\ External

RequestLost ==
  /\ wire /\ wire' = FALSE
  /\ UNCHANGED <<cancelWire, venue, purged>> /\ External

CancelArrives ==
  /\ cancelWire /\ cancelWire' = FALSE
  /\ venue' \in IF venue = "live" THEN {"live", "canceled"} ELSE {venue}
  /\ UNCHANGED <<wire, purged>> /\ External

VenueActs ==
  /\ venue = "live" /\ venue' \in {"filled", "canceled"}
  /\ UNCHANGED <<wire, cancelWire, purged>> /\ External

\* Its status query forgets orders it has finished with; its fills stay.
VenuePurges ==
  /\ venue \in {"filled", "canceled"} /\ ~purged /\ purged' = TRUE
  /\ UNCHANGED <<wire, cancelWire, venue>> /\ External

\* What the execution stream may say, at any time and again: it can also lose it.
VenueReports == CASE venue = "live" -> {"ack"}
                  [] venue = "filled" -> {"ack", "fill"}
                  [] venue = "canceled" -> {"ack", "canceled"}
                  [] OTHER -> {}

OnVenueEvent ==
  /\ up /\ OrderKnown
  /\ \E event \in VenueReports : Record(event)
  /\ UNCHANGED <<up, killVars, sendVars, venueVars, cancelAt, reconVars, historyVars>>

-------------------------------------------------------------------------------
\* Reconciliation of this order.  The pass lists the open orders first, and looks
\* after the orders listed before this one while anything may happen to it.
ReconFrame ==
  UNCHANGED <<up, sendVars, cancelAt, unsentSeen, killFirst, canceledFirst>>
RecordKept == UNCHANGED <<mem, disk, backlog, moved, aged>>
NothingRecorded == RecordKept /\ UNCHANGED <<killVars, budget, refusals>>

ListOrders ==
  /\ up /\ reconAt = "idle"
  /\ IF OrderKnown /\ ~Ended
     THEN /\ reconAt' = "listed" /\ moved' = FALSE
          /\ unsentSeen' = (mem.status = "PENDING_SUBMIT")
     ELSE reconAt' = "orphans" /\ UNCHANGED <<moved, unsentSeen>>
  /\ UNCHANGED <<up, mem, disk, backlog, aged, killVars, sendVars, venueVars,
                 cancelAt, answer, budget, historyVars>>

\* An id still being sent is skipped; the state judged is the one listed.
ReconcileOrder ==
  /\ reconAt = "listed"
  /\ reconAt' = CASE Submitting -> "orphans"
                   [] ~Submitting /\ unsentSeen -> "never_sent"
                   [] OTHER -> "asking"
  /\ NothingRecorded /\ ReconFrame /\ UNCHANGED <<answer, venueVars>>

NeverSent ==
  /\ reconAt = "never_sent"
  /\ Record("reject") /\ Refused("NEVER_SENT", "reconcile")
  /\ reconAt' = "orphans"
  /\ ReconFrame /\ UNCHANGED <<killVars, answer, venueVars>>

\* order_status.  Any query may fail, which ends the judgment of this order.
VenueStatus == IF venue = "refused" \/ purged THEN "none" ELSE venue

NextQuestion == [asking |-> "asked", asking_again |-> "asked_again",
                 asking_last |-> "asked_last", asking_once_more |-> "asked_once_more"]

AskVenue ==
  /\ reconAt \in DOMAIN NextQuestion
  /\ \/ /\ answer' = VenueStatus /\ reconAt' = NextQuestion[reconAt]
        /\ UNCHANGED budget
     \/ Spend("queries") /\ reconAt' = "orphans" /\ UNCHANGED answer
  /\ ReconFrame /\ RecordKept /\ UNCHANGED <<killVars, refusals, venueVars>>

\* An answer that may predate what has just landed is asked for once more.
JudgeAnswer ==
  /\ reconAt \in {"asked", "asked_again"}
  /\ moved' = FALSE
  /\ reconAt' = CASE moved /\ reconAt = "asked" -> "asking_again"
                   [] (moved /\ reconAt = "asked_again") \/ (~moved /\ Ended) -> "orphans"
                   [] ~moved /\ ~Ended /\ answer = "none" -> "missing"
                   [] OTHER -> "syncing"
  /\ aged' = IF reconAt' = "syncing" THEN aged \ {"unknown"} ELSE aged
  /\ ReconFrame /\ UNCHANGED <<mem, disk, backlog, killVars, budget, refusals, answer, venueVars>>

StatusOf == [live |-> "ACCEPTED", filled |-> "FILLED", canceled |-> "CANCELED"]

\* A change the venue has not processed yet is no disagreement until it is old.
SlipStatusDiffers ==
  /\ mem.status # StatusOf[answer]
  /\ ~(mem.status \in PendingStatuses /\ answer = "live")
StatusDiffers ==
  /\ mem.status # StatusOf[answer]
  /\ mem.status \in PendingStatuses /\ answer = "live" => "change" \in aged

\* Fills are booked before the status is compared.
SyncWithVenue ==
  /\ reconAt = "syncing"
  /\ \/ /\ answer = "filled" /\ mem.fills = {}
        /\ Record("fill") /\ UNCHANGED reconAt
     \/ /\ answer = "filled" /\ mem.fills = {}
        /\ Spend("queries") /\ reconAt' = "orphans" /\ RecordKept
     \/ /\ answer = "filled" => mem.fills # {}
        /\ reconAt' = IF (Ended /\ answer = "live") \/ ~StatusDiffers
                      THEN "orphans" ELSE "restating"
        /\ moved' = FALSE /\ UNCHANGED <<mem, disk, backlog, aged, budget>>
  /\ ReconFrame /\ UNCHANGED <<killVars, refusals, answer, venueVars>>

Restate ==
  /\ reconAt = "restating"
  /\ IF moved THEN RecordKept /\ UNCHANGED budget ELSE Record(StatusOf[answer])
  /\ reconAt' = "orphans"
  /\ ReconFrame /\ UNCHANGED <<killVars, refusals, answer, venueVars>>

\* Not found: wait out the grace period, cancel whatever may arrive late, ask again.
SlipResolveNotFound ==
  /\ reconAt = "missing"
  /\ Record("cancel_requested") /\ reconAt' = "protecting"
  /\ ReconFrame /\ UNCHANGED <<killVars, refusals, answer, venueVars>>
ResolveNotFound ==
  /\ reconAt = "missing"
  /\ IF "unknown" \in aged
     THEN Record("cancel_requested") /\ reconAt' = "protecting"
     ELSE RecordKept /\ UNCHANGED budget /\ reconAt' = "orphans"
  /\ ReconFrame /\ UNCHANGED <<killVars, refusals, answer, venueVars>>

ProtectiveCancel ==
  /\ reconAt = "protecting"
  /\ moved' = FALSE
  /\ \/ VenueTakesCancel /\ reconAt' = "asking_last" /\ UNCHANGED budget
     \/ CancelInDoubt /\ reconAt' = "orphans"
  /\ ReconFrame /\ UNCHANGED <<mem, disk, backlog, aged, killVars, refusals, answer>>

\* A fill proves a purged order was there.
JudgeLastAnswer ==
  /\ reconAt = "asked_last"
  /\ \/ answer # "none" /\ reconAt' = "orphans" /\ RecordKept /\ UNCHANGED budget
     \/ /\ answer = "none" /\ venue = "filled" /\ mem.fills = {}
        /\ \/ Record("fill") /\ UNCHANGED reconAt
           \/ Spend("queries") /\ reconAt' = "orphans" /\ RecordKept
     \/ /\ answer = "none"
        /\ venue = "filled" => mem.fills # {}
        /\ reconAt' = CASE Ended -> "orphans"
                         [] ~Ended /\ moved -> "asking_once_more"
                         [] OTHER -> "dismissing"
        /\ moved' = FALSE /\ UNCHANGED <<mem, disk, backlog, aged, budget>>
  /\ ReconFrame /\ UNCHANGED <<killVars, refusals, answer, venueVars>>

JudgeAgain ==
  /\ reconAt = "asked_once_more"
  /\ reconAt' = IF answer = "none" /\ ~moved THEN "dismissing" ELSE "orphans"
  /\ NothingRecorded /\ ReconFrame /\ UNCHANGED <<answer, venueVars>>

\* Only an order with no status, no fill and no cancel failure was never accepted.
DismissOrder ==
  /\ reconAt = "dismissing"
  /\ IF moved THEN RecordKept /\ UNCHANGED budget
     ELSE IF mem.status \in Unresolved /\ mem.fills = {}
          THEN Record("reject") ELSE Record("CANCELED")
  /\ reconAt' = "orphans"
  /\ ReconFrame /\ UNCHANGED <<killVars, refusals, answer, venueVars>>

\* An order open at the venue and ended here is a break, and halts trading.
FindOrphans ==
  /\ reconAt = "orphans"
  /\ \/ kill' = (kill \/ (venue = "live" /\ OrderKnown /\ Ended)) /\ UNCHANGED budget
     \/ Spend("queries") /\ UNCHANGED kill
  /\ reconAt' = "sweeping" /\ answer' = "none" /\ unsentSeen' = FALSE /\ moved' = FALSE
  /\ UNCHANGED <<up, mem, disk, backlog, aged, killDisk, sendVars, venueVars, cancelAt,
                 historyVars>>

SweepFills ==
  /\ reconAt = "sweeping"
  /\ \/ IF venue = "filled" /\ OrderKnown /\ mem.fills = {}
        THEN Record("fill") ELSE RecordKept /\ UNCHANGED budget
     \/ Spend("queries") /\ RecordKept
  /\ reconAt' = "idle"
  /\ ReconFrame /\ UNCHANGED <<killVars, refusals, answer, venueVars>>

ReconStep ==
  \/ ListOrders \/ ReconcileOrder \/ NeverSent \/ AskVenue \/ JudgeAnswer
  \/ SyncWithVenue \/ Restate \/ ResolveNotFound \/ ProtectiveCancel
  \/ JudgeLastAnswer \/ JudgeAgain \/ DismissOrder \/ FindOrphans \/ SweepFills

\* A grace period passes.  The unknown grace outlasts a request in flight.
GraceElapses(grace) ==
  /\ up /\ OrderKnown /\ ~Ended /\ grace \notin aged
  /\ grace = "unknown" => ~wire /\ ~Submitting
  /\ grace = "change" => mem.status \in PendingStatuses
  /\ aged' = aged \cup {grace}
  /\ UNCHANGED <<up, mem, disk, backlog, moved, killVars, sendVars, venueVars,
                 cancelAt, reconVars, budget, historyVars>>

-------------------------------------------------------------------------------
\* The process dies: memory goes, the journal and what is on the wire stay.
Crash ==
  /\ up /\ Spend("crashes")
  /\ up' = FALSE
  /\ mem' = NoOrder /\ backlog' = <<>> /\ moved' = FALSE /\ aged' = {}
  /\ kill' = FALSE
  /\ at' = [c \in Callers |-> "idle"] /\ cancelBeforeSend' = FALSE
  /\ cancelAt' = "idle" /\ reconAt' = "idle"
  /\ UNCHANGED <<disk, killDisk, attempts, venueVars, answer, unsentSeen, historyVars>>

\* Recovery replays the journal.  An order whose send never started is closed, one
\* whose send may have happened is unknown.
StartFrame == /\ ~up /\ up' = TRUE
              /\ kill' = killDisk
              /\ UNCHANGED <<killDisk, sendVars, venueVars, cancelAt, reconVars, killFirst,
                             canceledFirst>>

SlipStart ==
  /\ StartFrame
  /\ IF disk # NoOrder /\ disk.status \in {"PENDING_SUBMIT", "SUBMITTING"}
     THEN RecordOn(disk, "reject") /\ Refused("NEVER_SENT", "recovery")
     ELSE mem' = disk /\ UNCHANGED <<disk, backlog, moved, aged, budget, refusals>>
Start ==
  /\ StartFrame
  /\ \/ /\ disk # NoOrder /\ disk.status = "PENDING_SUBMIT"
        /\ RecordOn(disk, "reject") /\ Refused("NEVER_SENT", "recovery")
     \/ /\ disk # NoOrder /\ disk.status = "SUBMITTING"
        /\ RecordOn(disk, "unknown") /\ UNCHANGED refusals
     \/ /\ disk = NoOrder \/ disk.status \notin {"PENDING_SUBMIT", "SUBMITTING"}
        /\ mem' = disk /\ UNCHANGED <<disk, backlog, moved, aged, budget, refusals>>

-------------------------------------------------------------------------------
Init ==
  /\ up = TRUE
  /\ mem = NoOrder /\ disk = NoOrder /\ backlog = <<>> /\ moved = FALSE /\ aged = {}
  /\ kill = FALSE /\ killDisk = FALSE
  /\ at = [c \in Callers |-> "idle"] /\ cancelBeforeSend = FALSE /\ attempts = 0
  /\ wire = FALSE /\ cancelWire = FALSE /\ venue = "none" /\ purged = FALSE
  /\ cancelAt = "idle"
  /\ reconAt = "idle" /\ answer = "none" /\ unsentSeen = FALSE
  /\ budget = [crashes |-> MaxCrashes, faults |-> MaxFaults, queries |-> MaxQueryFaults,
               cancels |-> MaxCancels, abandons |-> MaxAbandons]
  /\ refusals = {} /\ killFirst = FALSE /\ canceledFirst = FALSE

Next ==
  \/ \E c \in Callers : Submit(c) \/ SubmitStep(c) \/ Abandon(c)
  \/ Cancel \/ CancelStep
  \/ OnVenueEvent
  \/ ReconStep \/ GraceElapses("unknown") \/ GraceElapses("change")
  \/ WriteUnjournalled
  \/ EngageKill \/ RecordKill \/ EngageKillElsewhere \/ KillLoop
  \/ VenueTakesRequest \/ RequestLost \/ CancelArrives \/ VenueActs \/ VenuePurges
  \/ Crash \/ Start

Spec == Init /\ [][Next]_vars

\* The event loop keeps running its tasks, reconciliation repeats, time passes, and
\* a process that died is started again.  Nothing makes the venue act or a stream
\* report arrive.
Fairness ==
  /\ \A c \in Callers : WF_vars(SubmitStep(c))
  /\ WF_vars(CancelStep) /\ WF_vars(ReconStep)
  /\ WF_vars(GraceElapses("unknown")) /\ WF_vars(GraceElapses("change"))
  /\ WF_vars(VenueTakesRequest \/ RequestLost) /\ WF_vars(CancelArrives)
  /\ WF_vars(WriteUnjournalled) /\ WF_vars(Start)

FairSpec == Spec /\ Fairness

-------------------------------------------------------------------------------
(***************************************************************************)
(* Properties.                                                             *)
(***************************************************************************)
Codes == UnsentCodes \X {"send", "recovery", "reconcile"}

OrderOrNone == Orders \cup {NoOrder}

\* What may be recorded after the intent: reconciliation restates no other status.
Events == {"fill", "ACCEPTED", "FILLED", "CANCELED"} \cup DOMAIN TableOf

\* The variables keep their types, whatever fails.
TypeOK ==
  /\ up \in BOOLEAN
  /\ mem \in OrderOrNone /\ disk \in OrderOrNone
  /\ backlog \in Seq(Events)
  /\ kill \in BOOLEAN /\ killDisk \in BOOLEAN
  /\ at \in [Callers -> {"idle", "quoting", "checking"} \cup SubmittingSteps]
  /\ cancelBeforeSend \in BOOLEAN /\ attempts \in Nat
  /\ wire \in BOOLEAN /\ cancelWire \in BOOLEAN
  /\ venue \in {"none", "refused", "live", "filled", "canceled"} /\ purged \in BOOLEAN
  /\ refusals \subseteq Codes

\* README.md:4 "an order is never sent twice": place_order is called at most once
\* for a client order id, through retries by callers, failures and restarts.
AtMostOneAttempt == attempts <= 1

\* SendStarted is on disk before the venue is called, so no crash can make a sent
\* order look unsent to recovery (_recover).
SendRecordedFirst == attempts > 0 => disk # NoOrder /\ disk.status # "PENDING_SUBMIT"

\* A code that says the order never reached the venue is true, whichever step of
\* the send path or of recovery recorded it, and stays true.
UnsentCodesAreTrue ==
  attempts > 0 => \A refusal \in refusals : refusal[2] = "reconcile"

\* However the process dies around the call, what is on disk and what was answered never
\* take an order that may be at the venue for one that was not sent (_send, _recover).
SentStaysOnRecord == SendRecordedFirst /\ UnsentCodesAreTrue

\* A switch engaged before SendStarted was recorded, here or by another process,
\* stops the order before the venue is called (_send).
KillStopsSend == killFirst => attempts = 0

\* A replay of the journal and of what it still misses gives the order in memory.
MemoryMatchesJournal == up => mem = Replayed(disk, backlog)

\* An order nobody is sending is never left looking as if it were about to be sent:
\* repeating the submit would return it for ever.
NoIntentIsLeft == up /\ OrderKnown /\ mem.status = "PENDING_SUBMIT" => Submitting

DismissedWhileSent == attempts > 0 /\ <<"NEVER_SENT", "reconcile">> \in refusals

\* An order live at the venue is open here, so its exposure is counted, in every
\* state a running process can be in; a stale NEVER_SENT aside (NeverSentIsTrue).
LiveOrdersAreCounted ==
  up /\ venue = "live" /\ ~DismissedWhileSent => OrderKnown /\ ~Ended

\* A cancel that cancel() left to the send path keeps the venue from ever being called:
\* not by that send, whatever it awaits, nor through a repeated or an abandoned call with
\* the same id, nor after a restart (cancel, _send_refusal, the discards in submit).
CancelBeforeSendHolds == canceledFirst => attempts = 0

\* docs/OPERATIONS.md:43 and manager.py:1933 say NEVER_SENT closes an order whose
\* send never started.  Reconciliation judges the state it listed at the start of
\* the pass, which an order may have left by the time it is looked at.
NeverSentIsTrue == ~DismissedWhileSent

\* Once failures and reports stop, a running process ends up agreeing with the venue
\* and stays so, by reconciliation alone: the stream may never have said a word.
Agrees ==
  /\ up
  /\ venue \in {"none", "refused", "canceled"} => ~OrderKnown \/ Ended
  /\ venue = "live" => OrderKnown /\ mem.status = "ACCEPTED"
  /\ venue = "filled" => OrderKnown /\ mem.fills # {}
EventuallyAgrees ==
  <>[][~OnVenueEvent]_vars => <>[](Agrees \/ DismissedWhileSent)
===============================================================================
