---------------------------- MODULE SendPathProofs ----------------------------
(***************************************************************************)
(* Invariance proofs for SendPath, for every set of callers and every      *)
(* bound on crashes, journal faults, failed queries, cancels and abandoned *)
(* calls.                                                                  *)
(*                                                                         *)
(* The argument.  A journal replay knows the order exactly when memory     *)
(* does, and an order once sent looks sent for good (RecordInv).  Only the *)
(* intent lets a submit past "intending", and the journal takes one, so    *)
(* one task at most is between the intent and the end of the send; while   *)
(* it has not decided, the venue has not been called (SendInv).  Every     *)
(* step outside the submit leaves those facts alone in the same way, which *)
(* is said once (Keeps), so SendInv is proved step by step for the submit, *)
(* a crash and a start only.                                               *)
(*                                                                         *)
(* Two more arguments rest on it.  A replay of the journal and then of     *)
(* what it missed gives memory, by induction over the events (Replayed).   *)
(* An order live at the venue is open here, because whatever can end it    *)
(* here is recorded only once its story at the venue is over (Over).  A    *)
(* cancel left to the send path keeps its flag up while a task may still   *)
(* call the venue (CancelInv).                                             *)
(***************************************************************************)
EXTENDS SendPath, SequenceTheorems, Induction, TLAPS

Sent(o) == o \in Orders /\ o.status # "PENDING_SUBMIT"

Locked == {"checking", "intending"}
Fresh == {"starting", "stamping"}
Judging == {"reading", "deciding"}
Active == Fresh \cup Judging \cup PlacingSteps \cup UnsentCodes
ReconAsleep == {"idle", "orphans", "sweeping"}

\* Memory and journal know the order together.
JournalInv ==
  /\ up \in BOOLEAN
  /\ mem \in OrderOrNone /\ disk \in OrderOrNone
  /\ backlog \in Seq(Events)
  /\ ~up => mem = NoOrder /\ backlog = <<>>
  /\ up => (mem = NoOrder <=> disk = NoOrder)
  /\ backlog # <<>> => mem # NoOrder

\* Whoever works on the order knows it.
TaskInv ==
  /\ cancelAt # "idle" => up /\ mem # NoOrder
  /\ reconAt # "idle" => up
  /\ reconAt \notin ReconAsleep => mem # NoOrder
  /\ answer \in {"none", "live", "filled", "canceled"}
  /\ reconAt \in {"syncing", "restating"} => answer # "none"

\* What is left of TypeOK.
WorldTypes ==
  /\ kill \in BOOLEAN /\ killDisk \in BOOLEAN
  /\ at \in [Callers -> {"idle", "quoting", "checking"} \cup SubmittingSteps]
  /\ cancelBeforeSend \in BOOLEAN /\ attempts \in Nat
  /\ wire \in BOOLEAN /\ cancelWire \in BOOLEAN
  /\ venue \in {"none", "refused", "live", "filled", "canceled"} /\ purged \in BOOLEAN
  /\ refusals \subseteq Codes

RecordInv == JournalInv /\ TaskInv /\ WorldTypes

RefusedUnsent == \E refusal \in refusals : refusal[2] # "reconcile"

LockInv ==
  /\ \A c \in Callers : at[c] # "idle" => up
  /\ \A c \in Callers : at[c] \in Locked => mem = NoOrder
  /\ \A c, d \in Callers : at[c] \in Locked /\ at[d] \in Locked => c = d
  /\ \A c \in Callers : at[c] \in Active => mem # NoOrder
  /\ \A c, d \in Callers : at[c] \in Active /\ at[d] \in Active => c = d

AttemptInv ==
  /\ \A c \in Callers : at[c] \in Fresh \cup Judging \cup UnsentCodes => attempts = 0
  /\ \A c \in Callers : at[c] \in Judging \cup PlacingSteps => Sent(mem) /\ Sent(disk)
  /\ attempts \in {0, 1}
  /\ attempts = 1 => Sent(disk)
  /\ up /\ mem # NoOrder /\ ~Sent(mem) =>
       \E c \in Callers : at[c] \in Fresh \cup UnsentCodes

RefusalInv ==
  RefusedUnsent => /\ attempts = 0 /\ disk # NoOrder
                   /\ \A c \in Callers : at[c] \notin Fresh \cup Judging

KillInv ==
  killFirst => /\ attempts = 0 /\ disk # NoOrder
               /\ \A c \in Callers :
                    /\ at[c] \notin Fresh
                    /\ at[c] = "reading" => kill \/ killDisk
                    /\ at[c] = "deciding" => kill \/ cancelBeforeSend

SendInv == LockInv /\ AttemptInv /\ RefusalInv /\ KillInv

IInv == RecordInv /\ SendInv

-------------------------------------------------------------------------------
\* Every event leaves an order an order, and one that was sent looks sent after it
\* (apply_event).
LEMMA NoOrderIsNoOrder == NoOrder \notin Orders
BY DEF NoOrder, Orders

LEMMA AppliedIntent ==
  ASSUME NEW o
  PROVE  /\ Applied(o, "intent") \in Orders
         /\ Applied(o, "intent").status = "PENDING_SUBMIT"
<1>1. Applied(o, "intent") = NewOrder(1, 1)
  BY DEF Applied, Statuses, AllLive, WorkingStatuses, PendingStatuses, Terminal
<1> QED BY <1>1 DEF NewOrder, Orders, Statuses, None

LEMMA SettleKeeps ==
  ASSUME NEW o \in Orders
  PROVE  /\ [Settle(o) EXCEPT !.anomalies = {}] \in Orders
         /\ [Settle(o) EXCEPT !.anomalies = {}].status = o.status
BY DEF Settle, Orders, None

\* The one report there is of a fill is booked once (_apply_fill).
LEMMA FillKeeps ==
  ASSUME NEW o \in Orders
  PROVE  /\ ApplyFill(o, TheFill) \in Orders
         /\ Sent(o) => ApplyFill(o, TheFill).status # "PENDING_SUBMIT"
<1>1. /\ TheFill.id = "x" /\ TheFill.qty = 1 /\ TheFill.match /\ TheFill.fee = 0
      /\ FillIds = {"x"}
  BY DEF TheFill, FillIds
<1>2. \A kinds \in SUBSET Anomalies :
        Note(o, kinds) \in Orders /\ Note(o, kinds).status = o.status
  BY DEF Note, Orders
<1>3. CASE TheFill.id \in o.busted
  BY <1>2, <1>3 DEF ApplyFill, Anomalies, Sent
<1>4. CASE TheFill.id \notin o.busted /\ \E f \in o.fills : f.id = TheFill.id
  <2>1. (CHOOSE f \in o.fills : f.id = TheFill.id) = TheFill /\ TheFill \in o.fills
    BY <1>4 DEF Orders
  <2>2. ApplyFill(o, TheFill) = ReportKnownFill(o, TheFill, TheFill)
    BY <1>4, <2>1 DEF ApplyFill, CountFill
  <2>3. MergedFill(TheFill, TheFill) = TheFill
    BY <1>1 DEF MergedFill, TheFill, None
  <2>4. ReportKnownFill(o, TheFill, TheFill)
          = Note([o EXCEPT !.fills = (@ \ {TheFill}) \cup {TheFill}], {})
    BY <1>1, <2>3 DEF ReportKnownFill, SameExecution, FeesDiffer, NoteIf, None
  <2> QED BY <2>1, <2>2, <2>4 DEF Note, Orders, Sent
<1>5. CASE TheFill.id \notin o.busted /\ ~\E f \in o.fills : f.id = TheFill.id
  <2> DEFINE n == BookNewFill(o, TheFill)
  <2>1. ApplyFill(o, TheFill) = n
    BY <1>5 DEF ApplyFill, CountFill
  <2>2. /\ n.fills = o.fills \cup {TheFill} /\ n.filled = o.filled + 1
        /\ n.anomalies \subseteq Anomalies
        /\ n.status \in {"FILLED", "PARTIALLY_FILLED", o.status}
    BY <1>1 DEF BookNewFill, Note, NoteIf, Orders, Anomalies, HaltingAnomalies
  <2>3. n = [o EXCEPT !.fills = n.fills, !.filled = n.filled,
                      !.anomalies = n.anomalies, !.status = n.status]
    BY <1>1 DEF BookNewFill, Note, Orders
  <2> HIDE DEF n
  <2>4. /\ n.status \in Statuses /\ n.fills \in SUBSET {TheFill}
        /\ n.filled \in Int /\ n.anomalies \in SUBSET Anomalies
    BY <2>2 DEF Orders, Statuses, AllLive, WorkingStatuses, Terminal
  <2>5. n \in Orders
    BY <2>3, <2>4 DEF Orders
  <2> QED BY <2>1, <2>2, <2>5 DEF Sent
<1> QED BY <1>3, <1>4, <1>5

LEMMA TransitionKeeps ==
  ASSUME NEW o \in Orders, NEW event \in DOMAIN TableOf
  PROVE  /\ Transition(o, TableOf[event]) \in Orders
         /\ Sent(o) \/ event \in {"send_started", "reject"} =>
              Transition(o, TableOf[event]).status # "PENDING_SUBMIT"
<1> DEFINE table == TableOf[event]
           s == Transition(o, table).status
<1>1. WorkingStatus(o) \in {"FILLED", "PARTIALLY_FILLED", "ACCEPTED"}
  BY DEF WorkingStatus
<1>2. /\ \A t \in DOMAIN table : /\ table[t] \in Statuses \cup {Working, Resumed}
                                 /\ table[t] # "PENDING_SUBMIT"
      /\ event \in {"send_started", "reject"} => "PENDING_SUBMIT" \in DOMAIN table
  BY DEF TableOf, SendStartedTable, AckTable, RejectTable, OutcomeUnknownTable,
         CancelRequestedTable, CanceledTable, CancelRejectedTable, Statuses, AllLive,
         Terminal, WorkingStatuses, PendingStatuses, Working, Resumed
<1> HIDE DEF table
<1>3. CASE o.status \notin DOMAIN table
  <2>1. Transition(o, table) = [o EXCEPT !.anomalies = @ \cup {"advisory"}]
    BY <1>3 DEF Transition, Note
  <2>2. Transition(o, table) \in Orders /\ Transition(o, table).status = o.status
    BY <2>1 DEF Orders, Anomalies
  <2>3. event \in {"send_started", "reject"} => o.status # "PENDING_SUBMIT"
    BY <1>2, <1>3
  <2> QED BY <2>2, <2>3 DEF Sent, table
<1>4. CASE o.status \in DOMAIN table
  <2>1. Transition(o, table) = [o EXCEPT !.status = s]
    BY <1>4 DEF Transition, Orders
  <2>2. s \in {"PENDING_REPLACE", WorkingStatus(o), table[o.status]}
        /\ s \notin {Working, Resumed}
    BY <1>1, <1>4 DEF Transition, Orders, Working, Resumed
  <2>3. s \in Statuses /\ s # "PENDING_SUBMIT"
    BY <1>1, <1>2, <1>4, <2>2 DEF Statuses, AllLive, WorkingStatuses, PendingStatuses, Terminal
  <2> HIDE DEF s
  <2>4. Transition(o, table) \in Orders /\ Transition(o, table).status # "PENDING_SUBMIT"
    BY <2>1, <2>3 DEF Orders
  <2> QED BY <2>4 DEF table
<1> QED BY <1>3, <1>4

LEMMA RestatedKeeps ==
  ASSUME NEW o \in Orders, NEW status \in {"ACCEPTED", "FILLED", "CANCELED"}
  PROVE  /\ ApplyRestated(o, status) \in Orders
         /\ ApplyRestated(o, status).status # "PENDING_SUBMIT"
BY DEF ApplyRestated, Note, NoteIf, Orders, Anomalies, Statuses, WorkingStatuses, AllLive, Terminal

LEMMA AppliedKeeps ==
  ASSUME NEW o \in Orders, NEW event \in Events
  PROVE  /\ Applied(o, event) \in Orders
         /\ Sent(o) \/ event \in {"send_started", "reject"} => Sent(Applied(o, event))
<1>1. CASE event = "fill"
  <2>1. Applied(o, event) = [Settle(ApplyFill(o, TheFill)) EXCEPT !.anomalies = {}]
    BY <1>1 DEF Applied, Statuses, AllLive, WorkingStatuses, PendingStatuses, Terminal
  <2> QED BY <1>1, <2>1, FillKeeps, SettleKeeps DEF Sent
<1>2. CASE event \in {"ACCEPTED", "FILLED", "CANCELED"}
  <2>1. Applied(o, event) = [Settle(ApplyRestated(o, event)) EXCEPT !.anomalies = {}]
    BY <1>2 DEF Applied, Statuses, AllLive, WorkingStatuses, Terminal
  <2> QED BY <1>2, <2>1, RestatedKeeps, SettleKeeps DEF Sent
<1>3. CASE event \in DOMAIN TableOf
  <2>1. Applied(o, event) = [Settle(Transition(o, TableOf[event])) EXCEPT !.anomalies = {}]
    BY <1>3 DEF Applied, TableOf, Statuses, AllLive, WorkingStatuses, PendingStatuses, Terminal
  <2> QED BY <1>3, <2>1, TransitionKeeps, SettleKeeps DEF Sent
<1> QED BY <1>1, <1>2, <1>3 DEF Events

-------------------------------------------------------------------------------
\* Recording an event (_record_now): whether or not the journal takes it, the order
\* stays known on both sides, and stays sent where it was.
LEMMA RecordEffect ==
  ASSUME backlog \in Seq(Events), disk \in Orders,
         NEW before \in Orders, NEW event \in Events, RecordOn(before, event)
  PROVE  /\ mem' \in Orders /\ mem' # NoOrder /\ disk' \in Orders /\ disk' # NoOrder
         /\ mem' = Applied(before, event)
         /\ Sent(before) => Sent(mem')
         /\ Sent(disk) => Sent(disk')
         /\ backlog' \in Seq(Events)
<1>1. mem' = Applied(before, event)
  BY DEF RecordOn, Remember
<1>2. disk' \in {disk, Applied(disk, event)}
  BY DEF RecordOn, Journalled, JournalStops
<1>3. backlog' \in Seq(Events)
  BY DEF RecordOn, Journalled, JournalStops
<1> QED BY <1>1, <1>2, <1>3, AppliedKeeps, NoOrderIsNoOrder

\* A step that records an event of a known order, or leaves the records alone.
Writes == \/ up /\ mem # NoOrder /\ \E event \in Events : Record(event)
          \/ WriteUnjournalled
          \/ UNCHANGED <<mem, disk, backlog>>

RecordsKept ==
  /\ mem' = NoOrder <=> mem = NoOrder
  /\ disk' = NoOrder <=> disk = NoOrder
  /\ Sent(mem) => Sent(mem')
  /\ Sent(disk) => Sent(disk')

LEMMA WritesKeep ==
  ASSUME JournalInv, Writes, up' = up
  PROVE  JournalInv' /\ RecordsKept
<1>1. CASE UNCHANGED <<mem, disk, backlog>>
  BY <1>1 DEF JournalInv, RecordsKept
<1>2. CASE up /\ mem # NoOrder /\ \E event \in Events : Record(event)
  <2>1. PICK event \in Events : RecordOn(mem, event)
    BY <1>2 DEF Record
  <2>2. mem \in Orders /\ disk \in Orders /\ backlog \in Seq(Events)
    BY <1>2 DEF JournalInv, OrderOrNone
  <2>3. /\ mem' \in Orders /\ mem' # NoOrder /\ disk' \in Orders /\ disk' # NoOrder
        /\ Sent(mem) => Sent(mem')
        /\ Sent(disk) => Sent(disk')
        /\ backlog' \in Seq(Events)
    BY <2>1, <2>2, RecordEffect
  <2> QED BY <1>2, <2>2, <2>3, NoOrderIsNoOrder DEF JournalInv, OrderOrNone, RecordsKept
<1>3. CASE WriteUnjournalled
  <2>1. /\ mem # NoOrder /\ disk \in Orders /\ backlog \in Seq(Events) /\ backlog # <<>>
        /\ mem' = mem /\ disk' = Applied(disk, Head(backlog)) /\ backlog' = Tail(backlog)
    BY <1>3, NoOrderIsNoOrder DEF WriteUnjournalled, JournalInv, OrderOrNone
  <2>2. Head(backlog) \in Events /\ Tail(backlog) \in Seq(Events)
    BY <2>1
  <2>3. disk' \in Orders /\ disk' # NoOrder /\ (Sent(disk) => Sent(disk'))
    BY <2>1, <2>2, AppliedKeeps, NoOrderIsNoOrder
  <2> QED BY <1>3, <2>1, <2>2, <2>3 DEF WriteUnjournalled, JournalInv, OrderOrNone, RecordsKept
<1> QED BY <1>1, <1>2, <1>3 DEF Writes

\* A step outside the submit, as the submit sees it.
Keeps ==
  /\ up' = up /\ at' = at /\ attempts' = attempts /\ killFirst' = killFirst
  /\ kill => kill'
  /\ killDisk => killDisk'
  /\ cancelBeforeSend => cancelBeforeSend'
  /\ RecordsKept
  /\ \A refusal \in refusals' \ refusals : refusal[2] = "reconcile"

LEMMA KeepsSendInv ==
  ASSUME SendInv, Keeps
  PROVE  SendInv'
<1>1. LockInv'
  BY DEF SendInv, LockInv, Keeps, RecordsKept
<1>2. AttemptInv'
  BY DEF SendInv, AttemptInv, Keeps, RecordsKept
<1>3. RefusalInv'
  BY DEF SendInv, RefusalInv, RefusedUnsent, Keeps, RecordsKept
<1>4. KillInv'
  BY DEF SendInv, KillInv, Keeps, RecordsKept
<1> QED BY <1>1, <1>2, <1>3, <1>4 DEF SendInv

Outside ==
  /\ Writes /\ TaskInv' /\ WorldTypes'
  /\ up' = up /\ at' = at /\ attempts' = attempts /\ killFirst' = killFirst
  /\ kill => kill'
  /\ killDisk => killDisk'
  /\ cancelBeforeSend => cancelBeforeSend'
  /\ \A refusal \in refusals' \ refusals : refusal[2] = "reconcile"

LEMMA OutsideKeeps ==
  ASSUME IInv, Outside
  PROVE  IInv'
<1>1. JournalInv' /\ RecordsKept
  BY WritesKeep DEF IInv, RecordInv, Outside
<1>2. SendInv'
  BY <1>1, KeepsSendInv DEF IInv, Outside, Keeps
<1> QED BY <1>1, <1>2 DEF IInv, RecordInv, Outside

\* Recording on the way of a task (Record) is such a write.
LEMMA RecordWrites ==
  ASSUME up, mem # NoOrder, NEW event \in Events, Record(event)
  PROVE  Writes
BY DEF Writes

LEMMA EventsKnown ==
  {"fill", "ACCEPTED", "FILLED", "CANCELED", "send_started", "ack", "reject",
   "unknown", "cancel_requested", "cancel_rejected", "canceled"} = Events
BY DEF Events, TableOf

\* The kill switch only ever rises in a running process.
LEMMA KillSteps ==
  ASSUME IInv, EngageKill \/ RecordKill \/ EngageKillElsewhere \/ KillLoop
  PROVE  Outside
<1> USE DEF IInv, RecordInv, TaskInv, WorldTypes, Outside, Writes, recordVars,
            sendVars, venueVars, reconVars, historyVars, killVars
<1>1. CASE EngageKill
  BY <1>1 DEF EngageKill
<1>2. CASE RecordKill
  BY <1>2 DEF RecordKill
<1>3. CASE EngageKillElsewhere
  BY <1>3 DEF EngageKillElsewhere
<1>4. CASE KillLoop
  BY <1>4 DEF KillLoop, MergeKill
<1> QED BY <1>1, <1>2, <1>3, <1>4

\* What the venue and the network do touches neither records nor tasks.
LEMMA VenueSteps ==
  ASSUME IInv,
         VenueTakesRequest \/ RequestLost \/ CancelArrives \/ VenueActs \/ VenuePurges
  PROVE  Outside
<1> USE DEF IInv, RecordInv, TaskInv, WorldTypes, Outside, Writes, External, recordVars,
            sendVars, venueVars, reconVars, historyVars, killVars
<1>1. CASE VenueTakesRequest
  BY <1>1 DEF VenueTakesRequest
<1>2. CASE RequestLost
  BY <1>2 DEF RequestLost
<1>3. CASE CancelArrives
  BY <1>3 DEF CancelArrives
<1>4. CASE VenueActs
  BY <1>4 DEF VenueActs
<1>5. CASE VenuePurges
  BY <1>5 DEF VenuePurges
<1> QED BY <1>1, <1>2, <1>3, <1>4, <1>5

\* The stream records reports of a known order only (_on_venue_event).
LEMMA StreamStep ==
  ASSUME IInv, OnVenueEvent
  PROVE  Outside
<1>1. PICK event \in VenueReports : Record(event)
  BY DEF OnVenueEvent
<1>2. event \in Events
  BY EventsKnown DEF VenueReports
<1>3. Writes
  BY <1>1, <1>2, RecordWrites DEF OnVenueEvent, OrderKnown
<1>4. mem' # NoOrder
  BY <1>3, WritesKeep DEF IInv, RecordInv, OnVenueEvent, OrderKnown, RecordsKept
<1> QED
  BY <1>3, <1>4 DEF IInv, RecordInv, TaskInv, WorldTypes, Outside, OnVenueEvent,
     sendVars, venueVars, reconVars, historyVars, killVars

\* Writing out what the journal missed (_write_unjournalled), and time passing.
LEMMA BacklogAndGraceSteps ==
  ASSUME IInv,
         WriteUnjournalled \/ GraceElapses("unknown") \/ GraceElapses("change")
  PROVE  Outside
<1> USE DEF IInv, RecordInv, TaskInv, WorldTypes, Outside, Writes,
            sendVars, venueVars, reconVars, historyVars, killVars
<1>1. CASE WriteUnjournalled
  BY <1>1 DEF WriteUnjournalled
<1>2. CASE GraceElapses("unknown") \/ GraceElapses("change")
  BY <1>2 DEF GraceElapses
<1> QED BY <1>1, <1>2

\* cancel, before and after the venue has been called.
LEMMA CancelSteps ==
  ASSUME IInv, Cancel \/ CancelStep
  PROVE  Outside
<1> USE DEF IInv, RecordInv, TaskInv, WorldTypes, Outside, CancelFrame,
            sendVars, venueVars, reconVars, historyVars, killVars, recordVars
<1>1. CASE Cancel
  <2>1. Writes
    BY <1>1 DEF Cancel, Writes
  <2>2. cancelAt' # "idle" => up /\ mem # NoOrder
    BY <1>1 DEF Cancel, OrderKnown
  <2>3. cancelBeforeSend => cancelBeforeSend'
    BY <1>1 DEF Cancel
  <2>4. cancelBeforeSend' \in BOOLEAN
    BY <1>1 DEF Cancel
  <2> QED BY <1>1, <2>1, <2>2, <2>3, <2>4 DEF Cancel
<1>2. CASE RequestCancel
  <2>1. Writes
    BY <1>2, RecordWrites, EventsKnown DEF RequestCancel
  <2>2. mem' # NoOrder
    BY <1>2, <2>1, WritesKeep DEF RequestCancel, RecordsKept
  <2> QED BY <1>2, <2>1, <2>2 DEF RequestCancel
<1>3. CASE CallCancel
  BY <1>3 DEF CallCancel, VenueTakesCancel, CancelInDoubt, Writes
<1>4. CASE RecordCancelAnswer
  <2>1. Writes
    BY <1>4, RecordWrites, EventsKnown DEF RecordCancelAnswer
  <2>2. mem' # NoOrder
    BY <1>4, <2>1, WritesKeep DEF RecordCancelAnswer, RecordsKept
  <2> QED BY <1>4, <2>1, <2>2 DEF RecordCancelAnswer
<1> QED BY <1>1, <1>2, <1>3, <1>4 DEF CancelStep

\* A reconciliation step as the rest sees it.
ReconOutside ==
  /\ Writes /\ UNCHANGED <<up, sendVars, cancelAt, killFirst, killDisk>>
  /\ kill' \in BOOLEAN /\ (kill => kill')
  /\ refusals' \in {refusals, refusals \cup {<<"NEVER_SENT", "reconcile">>}}
  /\ wire' = wire /\ cancelWire' \in BOOLEAN /\ purged' = purged
  /\ venue' \in {venue, "canceled"}
  /\ answer' \in {"none", "live", "filled", "canceled"}
  /\ reconAt' \in {"syncing", "restating"} => answer' # "none"

LEMMA ReconIsOutside ==
  ASSUME IInv, up, ReconOutside,
         reconAt \notin ReconAsleep \/ reconAt' \in ReconAsleep \/ mem # NoOrder
  PROVE  Outside
<1>1. JournalInv' /\ RecordsKept
  BY WritesKeep DEF IInv, RecordInv, ReconOutside
<1>2. TaskInv'
  BY <1>1 DEF IInv, RecordInv, TaskInv, RecordsKept, ReconOutside
<1>3. <<"NEVER_SENT", "reconcile">> \in Codes
  BY DEF Codes, UnsentCodes
<1>4. WorldTypes'
  BY <1>3 DEF IInv, RecordInv, WorldTypes, ReconOutside, sendVars, killVars
<1>5. \A refusal \in refusals' \ refusals : refusal[2] = "reconcile"
  BY DEF ReconOutside
<1> QED
  BY <1>2, <1>4, <1>5 DEF Outside, ReconOutside, sendVars, killVars

\* What reconcile() does with one order, and its sweeps over the rest.
LEMMA ReconSteps ==
  ASSUME IInv, ReconStep
  PROVE  Outside
<1> USE DEF ReconFrame, venueVars, killVars, NothingRecorded, RecordKept
<1>a. reconAt # "idle" => up
  BY DEF IInv, RecordInv, TaskInv
<1>b. reconAt \notin ReconAsleep => mem # NoOrder
  BY DEF IInv, RecordInv, TaskInv
<1>c. /\ kill \in BOOLEAN /\ cancelWire \in BOOLEAN
      /\ answer \in {"none", "live", "filled", "canceled"}
      /\ reconAt \in {"syncing", "restating"} => answer # "none"
      /\ venue \in {"none", "refused", "live", "filled", "canceled"}
  BY DEF IInv, RecordInv, TaskInv, WorldTypes
<1> DEFINE Looks == UNCHANGED <<mem, disk, backlog>>
<1>d. Looks => Writes
  BY DEF Writes
<1>1. CASE ListOrders
  BY <1>1, <1>c, <1>d, ReconIsOutside
  DEF ListOrders, OrderKnown, ReconOutside, ReconAsleep, historyVars
<1>2. CASE ReconcileOrder
  BY <1>2, <1>a, <1>c, <1>d, ReconIsOutside DEF ReconcileOrder, ReconOutside, ReconAsleep
<1>3. CASE NeverSent
  <2>1. Writes
    BY <1>3, <1>a, <1>b, RecordWrites, EventsKnown DEF NeverSent, ReconAsleep
  <2> QED BY <1>3, <1>a, <1>c, <2>1, ReconIsOutside
      DEF NeverSent, Refused, ReconOutside, ReconAsleep
<1>4. CASE AskVenue
  <2>1. reconAt' \notin {"syncing", "restating"}
    BY <1>4 DEF AskVenue, NextQuestion
  <2>2. reconAt \notin ReconAsleep
    BY <1>4 DEF AskVenue, NextQuestion, ReconAsleep
  <2>3. answer' \in {"none", "live", "filled", "canceled"}
    BY <1>4, <1>c DEF AskVenue, VenueStatus
  <2> QED BY <1>4, <1>a, <1>c, <1>d, <2>1, <2>2, <2>3, ReconIsOutside
      DEF AskVenue, ReconOutside, ReconAsleep
<1>5. CASE JudgeAnswer
  <2>1. reconAt' = "syncing" => answer # "none"
    BY <1>5 DEF JudgeAnswer
  <2>2. reconAt' \in {"asking_again", "orphans", "missing", "syncing"}
    BY <1>5 DEF JudgeAnswer
  <2> QED BY <1>5, <1>a, <1>c, <1>d, <2>1, <2>2, ReconIsOutside
      DEF JudgeAnswer, ReconOutside, ReconAsleep
<1>6. CASE SyncWithVenue
  <2>1. Writes
    BY <1>6, <1>a, <1>b, <1>d, RecordWrites, EventsKnown DEF SyncWithVenue, ReconAsleep
  <2> QED BY <1>6, <1>a, <1>c, <2>1, ReconIsOutside
      DEF SyncWithVenue, ReconOutside, ReconAsleep
<1>7. CASE Restate
  <2>1. StatusOf[answer] \in Events
    BY <1>7, <1>c, EventsKnown DEF Restate, StatusOf
  <2>2. Writes
    BY <1>7, <1>a, <1>b, <1>d, <2>1, RecordWrites DEF Restate, ReconAsleep
  <2> QED BY <1>7, <1>a, <1>c, <2>2, ReconIsOutside DEF Restate, ReconOutside, ReconAsleep
<1>8. CASE ResolveNotFound
  <2>1. Writes
    BY <1>8, <1>a, <1>b, <1>d, RecordWrites, EventsKnown DEF ResolveNotFound, ReconAsleep
  <2> QED BY <1>8, <1>a, <1>c, <2>1, ReconIsOutside
      DEF ResolveNotFound, ReconOutside, ReconAsleep
<1>9. CASE ProtectiveCancel
  BY <1>9, <1>a, <1>c, <1>d, ReconIsOutside
  DEF ProtectiveCancel, VenueTakesCancel, CancelInDoubt, ReconOutside, ReconAsleep
<1>10. CASE JudgeLastAnswer
  <2>1. Writes
    BY <1>10, <1>a, <1>b, <1>d, RecordWrites, EventsKnown DEF JudgeLastAnswer, ReconAsleep
  <2>2. reconAt' \notin {"syncing", "restating"}
    BY <1>10 DEF JudgeLastAnswer
  <2> QED BY <1>10, <1>a, <1>c, <2>1, <2>2, ReconIsOutside
      DEF JudgeLastAnswer, ReconOutside, ReconAsleep
<1>11. CASE JudgeAgain
  BY <1>11, <1>a, <1>c, <1>d, ReconIsOutside DEF JudgeAgain, ReconOutside, ReconAsleep
<1>12. CASE DismissOrder
  <2>1. Writes
    BY <1>12, <1>a, <1>b, <1>d, RecordWrites, EventsKnown DEF DismissOrder, ReconAsleep
  <2> QED BY <1>12, <1>a, <1>c, <2>1, ReconIsOutside DEF DismissOrder, ReconOutside, ReconAsleep
<1>13. CASE FindOrphans
  BY <1>13, <1>a, <1>c, <1>d, ReconIsOutside
  DEF FindOrphans, ReconOutside, ReconAsleep, historyVars
<1>14. CASE SweepFills
  <2>1. Writes
    BY <1>14, <1>a, <1>d, RecordWrites, EventsKnown DEF SweepFills, OrderKnown
  <2> QED BY <1>14, <1>a, <1>c, <2>1, ReconIsOutside DEF SweepFills, ReconOutside, ReconAsleep
<1> QED
  BY <1>1, <1>2, <1>3, <1>4, <1>5, <1>6, <1>7, <1>8, <1>9, <1>10, <1>11, <1>12, <1>13, <1>14
  DEF ReconStep

-------------------------------------------------------------------------------
\* The submit, step by step.  A task that moves leaves the others where they are.
Moves(c, pc) ==
  /\ at' = [at EXCEPT ![c] = pc]
  /\ pc \in {"idle", "quoting", "checking"} \cup SubmittingSteps

LEMMA MovesWell ==
  ASSUME WorldTypes, NEW c \in Callers, NEW pc, Moves(c, pc)
  PROVE  /\ at' \in [Callers -> {"idle", "quoting", "checking"} \cup SubmittingSteps]
         /\ at'[c] = pc
         /\ \A d \in Callers : d # c => at'[d] = at[d]
BY DEF WorldTypes, Moves

LEMMA GotoMoves ==
  ASSUME cancelBeforeSend \in BOOLEAN, NEW c, NEW pc, Goto(c, pc),
         pc \in {"idle"} \cup SubmittingSteps
  PROVE  /\ Moves(c, pc)
         /\ cancelBeforeSend' \in BOOLEAN
         /\ pc # "idle" => cancelBeforeSend' = cancelBeforeSend
<1>1. Moves(c, pc)
  BY DEF Goto, Moves
<1>2. cancelBeforeSend' = (cancelBeforeSend /\ pc # "idle")
  BY DEF Goto
<1> QED BY <1>1, <1>2

\* What every step of a submit leaves alone, and the types of what it changes.
SubmitOutside ==
  /\ \/ SubmitFrame
     \/ wire' \in BOOLEAN /\ UNCHANGED <<up, cancelWire, venue, purged, cancelAt, reconVars>>
  /\ up
  /\ kill' \in BOOLEAN /\ (kill => kill') /\ killDisk' = killDisk
  /\ cancelBeforeSend' \in BOOLEAN /\ attempts' \in Nat
  /\ refusals' \subseteq Codes

LEMMA SubmitTypes ==
  ASSUME RecordInv, SubmitOutside, mem # NoOrder => mem' # NoOrder,
         NEW c \in Callers, NEW pc, Moves(c, pc)
  PROVE  TaskInv' /\ WorldTypes'
<1>1. at' \in [Callers -> {"idle", "quoting", "checking"} \cup SubmittingSteps]
  BY MovesWell DEF RecordInv
<1>2. TaskInv'
  BY DEF RecordInv, TaskInv, SubmitOutside, SubmitFrame, reconVars
<1>3. WorldTypes'
  BY <1>1 DEF RecordInv, WorldTypes, SubmitOutside, SubmitFrame, venueVars
<1> QED BY <1>2, <1>3

\* A step before the intent, or back out of one.
LEMMA BeforeIntent ==
  ASSUME IInv, NEW c \in Callers, NEW pc, Moves(c, pc), SubmitOutside,
         UNCHANGED <<mem, disk, backlog, attempts, historyVars>>,
         cancelBeforeSend => cancelBeforeSend' \/ mem = NoOrder,
         at[c] \notin Active,
         \/ pc \in {"idle", "quoting"}
         \/ pc = "checking" /\ mem = NoOrder /\ ~SubmitLocked
         \/ pc = "intending" /\ at[c] = "checking"
  PROVE  IInv'
<1>1. at'[c] = pc /\ \A d \in Callers : d # c => at'[d] = at[d]
  BY MovesWell DEF IInv, RecordInv
<1>2. pc \notin Active
  BY DEF Active, Fresh, Judging, PlacingSteps, UnsentCodes
<1>3. up' = up /\ up
  BY DEF SubmitOutside, SubmitFrame
<1>4. JournalInv' /\ RecordsKept
  BY <1>3, WritesKeep DEF Writes, IInv, RecordInv
<1>5. TaskInv' /\ WorldTypes'
  BY SubmitTypes DEF IInv, RecordInv
<1>6. LockInv'
  BY <1>1, <1>2, <1>3 DEF IInv, SendInv, LockInv, Locked, SubmitLocked
<1>7. AttemptInv'
  BY <1>1, <1>2, <1>3 DEF IInv, SendInv, AttemptInv, Active
<1>8. RefusalInv'
  BY <1>1, <1>2 DEF IInv, SendInv, RefusalInv, RefusedUnsent, Active, historyVars
<1>9. KillInv'
  <2>1. mem = NoOrder => \A d \in Callers : at[d] \notin Active
    BY DEF IInv, SendInv, LockInv
  <2> QED BY <1>1, <1>2, <2>1
      DEF IInv, SendInv, KillInv, Active, Judging, historyVars, SubmitOutside
<1> QED BY <1>4, <1>5, <1>6, <1>7, <1>8, <1>9 DEF IInv, RecordInv, SendInv

LEMMA BeforeIntentSteps ==
  ASSUME IInv, NEW c \in Callers, Submit(c) \/ TakeSubmitLock(c) \/ CheckCanTrade(c)
  PROVE  IInv'
<1>a. /\ \A pc \in {"idle", "quoting", "checking", "intending"} :
           pc \in {"idle", "quoting", "checking"} \cup SubmittingSteps
      /\ {"idle", "quoting", "checking"} \cap Active = {}
  BY DEF SubmittingSteps, Active, Fresh, Judging, PlacingSteps, UnsentCodes
<1>b. /\ kill \in BOOLEAN /\ killDisk \in BOOLEAN /\ cancelBeforeSend \in BOOLEAN
      /\ attempts \in Nat /\ refusals \subseteq Codes
      /\ at[c] # "idle" => up
  BY DEF IInv, RecordInv, WorldTypes, SendInv, LockInv
<1> USE DEF SubmitOutside, OrderKept, killVars, historyVars, Moves
<1>1. CASE Submit(c)
  BY <1>1, <1>a, <1>b, BeforeIntent DEF Submit
<1>2. CASE TakeSubmitLock(c)
  BY <1>2, <1>a, <1>b, BeforeIntent DEF TakeSubmitLock, OrderKnown
<1>3. CASE CheckCanTrade(c)
  BY <1>3, <1>a, <1>b, BeforeIntent DEF CheckCanTrade, MergeKill
<1> QED BY <1>1, <1>2, <1>3

\* A step of the one task that is sending, given what has to be shown of it.
LEMMA SendMoves ==
  ASSUME IInv, NEW c \in Callers, NEW pc, Moves(c, pc), SubmitOutside,
         JournalInv', RecordsKept,
         at[c] \in Active, pc \in Active \cup {"idle"},
         attempts' \in {0, 1},
         attempts' = 1 => Sent(disk'),
         pc \in Fresh \cup Judging \cup UnsentCodes => attempts' = 0,
         pc \in Judging \cup PlacingSteps => Sent(mem') /\ Sent(disk'),
         ~Sent(mem') => pc \in Fresh \cup UnsentCodes,
         RefusedUnsent' => attempts' = 0 /\ pc \notin Fresh \cup Judging,
         killFirst' => /\ attempts' = 0 /\ pc \notin Fresh
                       /\ pc = "reading" => kill' \/ killDisk'
                       /\ pc = "deciding" => kill' \/ cancelBeforeSend'
  PROVE  IInv'
<1>1. at'[c] = pc /\ \A d \in Callers : d # c => at'[d] = at[d]
  BY MovesWell DEF IInv, RecordInv
<1>2. up' = up /\ up
  BY DEF SubmitOutside, SubmitFrame
<1>3. mem # NoOrder /\ mem' # NoOrder /\ disk' # NoOrder
  BY <1>2 DEF IInv, RecordInv, JournalInv, SendInv, LockInv, RecordsKept
<1>4. \A d \in Callers : d # c => at'[d] \notin Active \cup Locked
  BY <1>1, <1>3 DEF IInv, SendInv, LockInv
<1>5. pc \notin Locked
  BY DEF Locked, Active, Fresh, Judging, PlacingSteps, UnsentCodes
<1>6. TaskInv' /\ WorldTypes'
  BY <1>3, SubmitTypes DEF IInv, RecordInv
<1>7. LockInv'
  BY <1>1, <1>2, <1>3, <1>4, <1>5 DEF IInv, SendInv, LockInv
<1>8. AttemptInv'
  BY <1>1, <1>2, <1>4 DEF AttemptInv, Active
<1>9. RefusalInv'
  BY <1>1, <1>3, <1>4 DEF RefusalInv, Active
<1>10. KillInv'
  BY <1>1, <1>3, <1>4 DEF KillInv, Active, Judging
<1> QED BY <1>6, <1>7, <1>8, <1>9, <1>10 DEF IInv, RecordInv, SendInv

\* The intent (submit, from "await self._record(intent)"): the journal takes one.
LEMMA WriteIntentStep ==
  ASSUME IInv, NEW c \in Callers, WriteIntent(c)
  PROVE  IInv'
<1>a. at[c] = "intending" /\ up /\ mem = NoOrder /\ disk = NoOrder
  BY DEF WriteIntent, IInv, RecordInv, JournalInv, SendInv, LockInv, Locked
<1>b. /\ kill \in BOOLEAN /\ killDisk \in BOOLEAN /\ cancelBeforeSend \in BOOLEAN
      /\ attempts \in Nat /\ refusals \subseteq Codes
  BY DEF IInv, RecordInv, WorldTypes
<1>c. at[c] \notin Active /\ "starting" \in SubmittingSteps /\ "starting" \in Active
      /\ "starting" \notin Judging \cup PlacingSteps \cup Locked
  BY <1>a DEF Active, Fresh, Judging, PlacingSteps, UnsentCodes, SubmittingSteps, Locked
<1>1. CASE JournalRefuses /\ Goto(c, "idle")
  <2>1. Moves(c, "idle") /\ cancelBeforeSend' \in BOOLEAN
    BY <1>1, <1>b, GotoMoves
  <2>2. UNCHANGED <<mem, disk, backlog>>
    BY <1>1, <1>a DEF JournalRefuses, JournalStops, IInv, RecordInv, JournalInv
  <2>3. SubmitOutside /\ UNCHANGED <<attempts, historyVars>>
    BY <2>1, <1>a, <1>b DEF WriteIntent, SubmitOutside, killVars, historyVars
  <2> QED BY <2>1, <2>2, <2>3, <1>a, <1>c, BeforeIntent
<1>2. CASE RecordDurably("intent") /\ Goto(c, "starting")
  <2>1. /\ mem' = Applied(NoOrder, "intent") /\ disk' = Applied(NoOrder, "intent")
        /\ backlog' = backlog /\ backlog = <<>>
    BY <1>2, <1>a DEF RecordDurably, Remember, Journalled
  <2>2. /\ mem' \in Orders /\ mem' # NoOrder /\ disk' \in Orders /\ disk' # NoOrder
        /\ ~Sent(mem')
    BY <2>1, AppliedIntent, NoOrderIsNoOrder DEF Sent
  <2>3. SubmitOutside /\ Moves(c, "starting") /\ UNCHANGED <<attempts, historyVars>>
    BY <1>2, <1>a, <1>b, <1>c, GotoMoves DEF WriteIntent, SubmitOutside, killVars, historyVars
  <2>4. at'[c] = "starting" /\ \A d \in Callers : d # c => at'[d] = at[d]
    BY <2>3, MovesWell DEF IInv, RecordInv
  <2>5. up' = up
    BY <2>3 DEF SubmitOutside, SubmitFrame
  <2>6. JournalInv'
    BY <2>1, <2>2, <2>5, <1>a DEF IInv, RecordInv, JournalInv, OrderOrNone
  <2>7. TaskInv' /\ WorldTypes'
    BY <1>a, <2>3, SubmitTypes DEF IInv, RecordInv
  <2>8. attempts = 0 /\ ~RefusedUnsent /\ ~killFirst
    BY <1>a, NoOrderIsNoOrder DEF IInv, SendInv, AttemptInv, RefusalInv, KillInv, Sent
  <2>9. \A d \in Callers : d # c => at[d] \notin Active \cup Locked
    BY <1>a DEF IInv, SendInv, LockInv, Locked
  <2>10. LockInv'
    BY <1>a, <1>c, <2>2, <2>4, <2>5, <2>9 DEF LockInv
  <2>11. AttemptInv'
    BY <1>c, <2>2, <2>3, <2>4, <2>8, <2>9 DEF AttemptInv, Active, Fresh, historyVars
  <2>12. RefusalInv' /\ KillInv'
    BY <2>3, <2>8 DEF RefusalInv, RefusedUnsent, KillInv, historyVars
  <2> QED BY <2>6, <2>7, <2>10, <2>11, <2>12 DEF IInv, RecordInv, SendInv
<1> QED BY <1>1, <1>2 DEF WriteIntent

\* What the invariant says of the task that is sending.
LEMMA SenderKnows ==
  ASSUME IInv, NEW c \in Callers, at[c] \in Active
  PROVE  /\ up /\ mem \in Orders /\ disk \in Orders /\ backlog \in Seq(Events)
         /\ kill \in BOOLEAN /\ killDisk \in BOOLEAN /\ cancelBeforeSend \in BOOLEAN
         /\ attempts \in {0, 1} /\ attempts \in Nat /\ refusals \subseteq Codes
         /\ attempts = 1 => Sent(disk)
         /\ at[c] \in Fresh \cup Judging \cup UnsentCodes => attempts = 0
         /\ at[c] \in Judging \cup PlacingSteps => Sent(mem) /\ Sent(disk)
         /\ ~Sent(mem) => at[c] \in Fresh \cup UnsentCodes
         /\ RefusedUnsent => attempts = 0 /\ at[c] \notin Fresh \cup Judging
         /\ killFirst => /\ attempts = 0 /\ at[c] \notin Fresh
                         /\ at[c] = "reading" => kill \/ killDisk
                         /\ at[c] = "deciding" => kill \/ cancelBeforeSend
<1>1. up /\ mem # NoOrder /\ disk # NoOrder /\ at[c] # "idle"
  BY DEF IInv, RecordInv, JournalInv, SendInv, LockInv, Active, Fresh, Judging,
     PlacingSteps, UnsentCodes
<1>2. mem \in Orders /\ disk \in Orders /\ backlog \in Seq(Events)
  BY <1>1 DEF IInv, RecordInv, JournalInv, OrderOrNone
<1>3. ~Sent(mem) => at[c] \in Fresh \cup UnsentCodes
  BY <1>1 DEF IInv, SendInv, LockInv, AttemptInv, Active
<1>4. /\ kill \in BOOLEAN /\ killDisk \in BOOLEAN /\ cancelBeforeSend \in BOOLEAN
      /\ attempts \in Nat /\ refusals \subseteq Codes
  BY DEF IInv, RecordInv, WorldTypes
<1>5. /\ attempts \in {0, 1}
      /\ attempts = 1 => Sent(disk)
      /\ at[c] \in Fresh \cup Judging \cup UnsentCodes => attempts = 0
      /\ at[c] \in Judging \cup PlacingSteps => Sent(mem) /\ Sent(disk)
  BY DEF IInv, SendInv, AttemptInv
<1>6. RefusedUnsent => attempts = 0 /\ at[c] \notin Fresh \cup Judging
  BY DEF IInv, SendInv, RefusalInv
<1>7. killFirst => /\ attempts = 0 /\ at[c] \notin Fresh
                   /\ at[c] = "reading" => kill \/ killDisk
                   /\ at[c] = "deciding" => kill \/ cancelBeforeSend
  BY DEF IInv, SendInv, KillInv
<1> QED BY <1>1, <1>2, <1>3, <1>4, <1>5, <1>6, <1>7

\* The groups a pc of the send belongs to.
LEMMA Steps ==
  /\ Fresh = {"starting", "stamping"} /\ Judging = {"reading", "deciding"}
  /\ PlacingSteps = {"placing", "acking", "rejecting", "doubting"}
  /\ UnsentCodes = {"CANCELED_BEFORE_SEND", "KILL_SWITCH", "JOURNAL_UNREADABLE", "NEVER_SENT"}
  /\ Active \subseteq SubmittingSteps
  /\ Active = Fresh \cup Judging \cup PlacingSteps \cup UnsentCodes
BY DEF Fresh, Judging, PlacingSteps, UnsentCodes, Active, SubmittingSteps

LEMMA OrderKeptKeeps ==
  ASSUME IInv, OrderKept \/ UNCHANGED recordVars, up' = up
  PROVE  /\ JournalInv' /\ RecordsKept /\ mem' = mem /\ disk' = disk
         /\ (Sent(mem') <=> Sent(mem)) /\ (Sent(disk') <=> Sent(disk))
<1>1. UNCHANGED <<mem, disk, backlog>>
  BY DEF OrderKept, recordVars
<1>2. JournalInv' /\ RecordsKept
  BY <1>1, WritesKeep DEF Writes, IInv, RecordInv
<1> QED BY <1>1, <1>2

LEMMA BeginSendStep ==
  ASSUME IInv, NEW c \in Callers, BeginSend(c)
  PROVE  IInv'
<1>1. at[c] = "starting" /\ at[c] \in Active
  BY Steps DEF BeginSend
<1>2. PICK pc \in {"idle", "CANCELED_BEFORE_SEND", "KILL_SWITCH", "stamping"} :
         Goto(c, pc) /\ (pc = "idle" => mem.status # "PENDING_SUBMIT")
  BY DEF BeginSend
<1>3. Moves(c, pc) /\ cancelBeforeSend' \in BOOLEAN
  BY <1>1, <1>2, SenderKnows, Steps, GotoMoves
<1>4. SubmitOutside /\ up' = up
  BY <1>1, <1>3, SenderKnows DEF BeginSend, SubmitOutside, SubmitFrame, killVars, historyVars
<1>5. JournalInv' /\ RecordsKept /\ (Sent(mem') <=> Sent(mem)) /\ (Sent(disk') <=> Sent(disk))
  BY <1>4, OrderKeptKeeps DEF BeginSend
<1>6. attempts' = 0 /\ ~RefusedUnsent' /\ ~killFirst'
  BY <1>1, SenderKnows, Steps DEF BeginSend, RefusedUnsent, historyVars
<1>7. ~Sent(mem) => pc # "idle"
  BY <1>1, <1>2, SenderKnows DEF Sent
<1> QED BY <1>1, <1>2, <1>3, <1>4, <1>5, <1>6, <1>7, SendMoves, Steps

\* SendStarted, on disk or the send does not happen (_send).
LEMMA RecordSendStartedStep ==
  ASSUME IInv, NEW c \in Callers, RecordSendStarted(c)
  PROVE  IInv'
<1>1. at[c] = "stamping" /\ at[c] \in Active
  BY Steps DEF RecordSendStarted
<1>2. attempts' = 0 /\ ~RefusedUnsent' /\ ~killFirst
  BY <1>1, SenderKnows, Steps DEF RecordSendStarted, RefusedUnsent
<1>3. ASSUME NEW pc \in {"reading", "idle"}, Goto(c, pc), RecordDurably("send_started")
      PROVE  IInv'
  <2>1. Moves(c, pc) /\ cancelBeforeSend' \in BOOLEAN
    BY <1>1, <1>3, SenderKnows, Steps, GotoMoves
  <2>2. SubmitOutside /\ up' = up
    BY <1>1, <2>1, SenderKnows
    DEF RecordSendStarted, SubmitOutside, SubmitFrame, killVars
  <2>3. /\ mem' = Applied(mem, "send_started") /\ disk' = Applied(disk, "send_started")
        /\ backlog' = backlog
    BY <1>3 DEF RecordDurably, Remember, Journalled
  <2>4. Sent(mem') /\ Sent(disk')
    BY <1>1, <2>3, SenderKnows, AppliedKeeps, EventsKnown
  <2>5. mem' # NoOrder /\ disk' # NoOrder /\ mem # NoOrder /\ disk # NoOrder
    BY <1>1, <2>4, SenderKnows, NoOrderIsNoOrder DEF Sent
  <2>6. JournalInv' /\ RecordsKept
    BY <1>1, <2>2, <2>3, <2>4, <2>5, SenderKnows
    DEF JournalInv, RecordsKept, OrderOrNone, Sent
  <2>7. killFirst' => kill' \/ killDisk'
    BY <1>2 DEF RecordSendStarted, killVars
  <2> QED BY <1>1, <1>2, <1>3, <2>1, <2>2, <2>4, <2>6, <2>7, SendMoves, Steps
<1>4. ASSUME NEW pc \in {"idle", "NEVER_SENT", "CANCELED_BEFORE_SEND"}, Goto(c, pc),
             pc = "idle" => mem.status # "PENDING_SUBMIT", JournalRefuses,
             UNCHANGED killFirst
      PROVE  IInv'
  <2>1. Moves(c, pc) /\ cancelBeforeSend' \in BOOLEAN
    BY <1>1, <1>4, SenderKnows, Steps, GotoMoves
  <2>2. SubmitOutside /\ up' = up
    BY <1>1, <2>1, SenderKnows
    DEF RecordSendStarted, SubmitOutside, SubmitFrame, killVars
  <2>3. /\ JournalInv' /\ RecordsKept
        /\ (Sent(mem') <=> Sent(mem)) /\ (Sent(disk') <=> Sent(disk))
    <3>1. UNCHANGED <<mem, disk>> /\ backlog' = backlog \o <<>>
      BY <1>4 DEF JournalRefuses, JournalStops
    <3>2. UNCHANGED <<mem, disk, backlog>>
      BY <1>1, <3>1, SenderKnows
    <3> QED BY <2>2, <3>2, WritesKeep DEF Writes, IInv, RecordInv
  <2>4. ~Sent(mem) => pc # "idle"
    BY <1>1, <1>4, SenderKnows DEF Sent
  <2>5. ~killFirst'
    BY <1>2, <1>4
  <2> QED BY <1>1, <1>2, <1>4, <2>1, <2>2, <2>3, <2>4, <2>5, SendMoves, Steps
<1>5. \/ \E pc \in {"reading", "idle"} : Goto(c, pc) /\ RecordDurably("send_started")
      \/ \E pc \in {"idle", "NEVER_SENT", "CANCELED_BEFORE_SEND"} :
            /\ Goto(c, pc) /\ JournalRefuses /\ UNCHANGED killFirst
            /\ pc = "idle" => mem.status # "PENDING_SUBMIT"
  BY DEF RecordSendStarted
<1> QED BY <1>3, <1>4, <1>5

\* The switch is read again once SendStarted is on disk (_send).
LEMMA RereadKillStep ==
  ASSUME IInv, NEW c \in Callers, RereadKill(c)
  PROVE  IInv'
<1>1. at[c] = "reading" /\ at[c] \in Active
  BY Steps DEF RereadKill
<1>2. PICK pc \in {"deciding", "JOURNAL_UNREADABLE"} :
         /\ Goto(c, pc)
         /\ UNCHANGED killVars \/ (kill' = (kill \/ killDisk) /\ killDisk' = killDisk)
         /\ pc = "deciding" => cancelBeforeSend \/ kill' = (kill \/ killDisk)
  BY DEF RereadKill, MergeKill
<1>3. Moves(c, pc) /\ cancelBeforeSend' = cancelBeforeSend
  BY <1>1, <1>2, SenderKnows, Steps, GotoMoves
<1>4. /\ kill' \in BOOLEAN /\ (kill => kill') /\ killDisk' = killDisk
      /\ pc = "deciding" /\ (kill \/ killDisk) => cancelBeforeSend \/ kill'
  <2>1. kill \in BOOLEAN /\ killDisk \in BOOLEAN
    BY <1>1, SenderKnows
  <2>2. CASE UNCHANGED killVars
    <3>1. pc = "deciding" => cancelBeforeSend \/ kill = (kill \/ killDisk)
      BY <1>2, <2>2 DEF killVars
    <3> QED BY <2>1, <2>2, <3>1 DEF killVars
  <2>3. CASE kill' = (kill \/ killDisk) /\ killDisk' = killDisk
    BY <2>1, <2>3
  <2> QED BY <1>2, <2>2, <2>3
<1>5. SubmitOutside /\ up' = up
  BY <1>1, <1>3, <1>4, SenderKnows DEF RereadKill, SubmitOutside, SubmitFrame, historyVars
<1>6. UNCHANGED <<mem, disk, backlog>>
  BY DEF RereadKill, OrderKept
<1>7. JournalInv' /\ RecordsKept /\ (Sent(mem') <=> Sent(mem)) /\ (Sent(disk') <=> Sent(disk))
  BY <1>5, <1>6, WritesKeep DEF Writes, IInv, RecordInv
<1>8. /\ attempts' = 0 /\ ~RefusedUnsent' /\ Sent(mem) /\ Sent(disk)
      /\ killFirst' => kill \/ killDisk
  BY <1>1, SenderKnows, Steps DEF RereadKill, RefusedUnsent, historyVars
<1> QED BY <1>1, <1>2, <1>3, <1>4, <1>5, <1>7, <1>8, SendMoves, Steps

\* The last look and the call to the venue, in one step (_send, _place).
LEMMA DecideStep ==
  ASSUME IInv, NEW c \in Callers, Decide(c)
  PROVE  IInv'
<1>1. at[c] = "deciding" /\ at[c] \in Active
  BY Steps DEF Decide
<1>2. PICK pc \in {"CANCELED_BEFORE_SEND", "KILL_SWITCH", "placing"} :
         /\ Goto(c, pc)
         /\ IF pc = "placing" THEN attempts' = attempts + 1 /\ wire' = TRUE
                              ELSE UNCHANGED <<attempts, wire>>
         /\ pc = "placing" => ~cancelBeforeSend /\ ~kill
  BY DEF Decide
<1>3. Moves(c, pc) /\ cancelBeforeSend' = cancelBeforeSend
  BY <1>1, <1>2, SenderKnows, Steps, GotoMoves
<1>4. /\ attempts = 0 /\ attempts' \in {0, 1} /\ Sent(mem) /\ Sent(disk) /\ ~RefusedUnsent
      /\ pc # "placing" => attempts' = 0
      /\ killFirst => pc # "placing"
  BY <1>1, <1>2, SenderKnows, Steps
<1>5. wire' \in BOOLEAN
  BY <1>2 DEF IInv, RecordInv, WorldTypes
<1>6. SubmitOutside /\ up' = up
  BY <1>1, <1>3, <1>4, <1>5, SenderKnows
  DEF Decide, SubmitOutside, SubmitFrame, killVars, historyVars
<1>7. JournalInv' /\ RecordsKept /\ (Sent(mem') <=> Sent(mem)) /\ (Sent(disk') <=> Sent(disk))
  BY <1>6, OrderKeptKeeps DEF Decide
<1>8. ~RefusedUnsent' /\ killFirst' = killFirst
  BY <1>4 DEF Decide, RefusedUnsent, historyVars
<1> QED BY <1>1, <1>2, <1>3, <1>4, <1>6, <1>7, <1>8, SendMoves, Steps

LEMMA PlaceEndsStep ==
  ASSUME IInv, NEW c \in Callers, PlaceEnds(c)
  PROVE  IInv'
<1>1. at[c] = "placing" /\ at[c] \in Active
  BY Steps DEF PlaceEnds
<1>2. PICK pc \in {"acking", "rejecting", "doubting"} : Goto(c, pc)
  BY DEF PlaceEnds
<1>3. Moves(c, pc) /\ cancelBeforeSend' \in BOOLEAN
  BY <1>1, <1>2, SenderKnows, Steps, GotoMoves
<1>4. SubmitOutside /\ up' = up
  BY <1>1, <1>3, SenderKnows DEF PlaceEnds, SubmitOutside, SubmitFrame, killVars, historyVars
<1>5. JournalInv' /\ RecordsKept /\ (Sent(mem') <=> Sent(mem)) /\ (Sent(disk') <=> Sent(disk))
  BY <1>4, OrderKeptKeeps DEF PlaceEnds
<1>6. /\ attempts' = attempts /\ (RefusedUnsent' <=> RefusedUnsent) /\ killFirst' = killFirst
  BY DEF PlaceEnds, RefusedUnsent, historyVars
<1> QED BY <1>1, <1>2, <1>3, <1>4, <1>5, <1>6, SenderKnows, SendMoves, Steps

\* A caller that gives up (_close_unsent, _place): the send is closed or in doubt.
LEMMA AbandonStep ==
  ASSUME IInv, NEW c \in Callers, Abandon(c)
  PROVE  IInv'
<1>1. CASE at[c] \in {"quoting", "checking"}
  <2>1. BackToIdle(c)
    BY <1>1 DEF Abandon
  <2>2. Moves(c, "idle") /\ UNCHANGED cancelBeforeSend
    BY <2>1 DEF BackToIdle, Moves
  <2>3. at[c] \notin Active
    BY <1>1, Steps
  <2>4. SubmitOutside
    BY <1>1, <2>2
    DEF Abandon, SubmitOutside, killVars, historyVars, IInv, RecordInv, WorldTypes, SendInv, LockInv
  <2> QED BY <2>2, <2>3, <2>4, BeforeIntent DEF Abandon, recordVars
<1>2. CASE at[c] \in {"starting", "reading", "placing"}
  <2>1. at[c] \in Active
    BY <1>2, Steps
  <2>2. PICK pc \in {"idle", "CANCELED_BEFORE_SEND", "doubting"} :
           /\ Goto(c, pc)
           /\ pc = "idle" => mem.status # "PENDING_SUBMIT" \/ at[c] = "reading"
           /\ pc = "doubting" <=> at[c] = "placing"
    BY <1>2 DEF Abandon
  <2>3. Moves(c, pc) /\ cancelBeforeSend' \in BOOLEAN
    BY <2>1, <2>2, SenderKnows, Steps, GotoMoves
  <2>4. SubmitOutside /\ up' = up
    BY <2>1, <2>3, SenderKnows DEF Abandon, SubmitOutside, SubmitFrame, killVars, historyVars
  <2>5. JournalInv' /\ RecordsKept /\ (Sent(mem') <=> Sent(mem)) /\ (Sent(disk') <=> Sent(disk))
    BY <2>4, OrderKeptKeeps DEF Abandon
  <2>6. attempts' = attempts /\ (RefusedUnsent' <=> RefusedUnsent) /\ killFirst' = killFirst
    BY DEF Abandon, RefusedUnsent, historyVars
  <2>7. ~Sent(mem) => pc # "idle"
    BY <2>1, <2>2, SenderKnows, Steps DEF Sent
  <2> QED BY <1>2, <2>1, <2>2, <2>3, <2>4, <2>5, <2>6, <2>7, SenderKnows, SendMoves, Steps
<1> QED BY <1>1, <1>2 DEF Abandon

\* The venue's answer, and the refusal of a send, reach the record (_refuse_send).
LEMMA LastRecordStep ==
  ASSUME IInv, NEW c \in Callers, RecordAnswer(c) \/ RefuseSend(c)
  PROVE  IInv'
<1>1. at[c] \in Active /\ at[c] \notin Fresh \cup Judging
  BY Steps DEF RecordAnswer, RefuseSend
<1>2. PICK event \in {"ack", "reject", "unknown"} :
         Record(event) /\ (at[c] \in UnsentCodes => event = "reject")
  BY Steps DEF RecordAnswer, RefuseSend
<1>3. Goto(c, "idle")
  BY DEF RecordAnswer, RefuseSend
<1>4. Moves(c, "idle") /\ cancelBeforeSend' \in BOOLEAN
  BY <1>1, <1>3, SenderKnows, GotoMoves
<1>5. refusals' \subseteq Codes /\ (RefusedUnsent' => RefusedUnsent \/ at[c] \in UnsentCodes)
  BY <1>1, SenderKnows, Steps
  DEF RecordAnswer, RefuseSend, Refused, Codes, RefusedUnsent, historyVars
<1>6. SubmitOutside /\ up' = up
  BY <1>1, <1>4, <1>5, SenderKnows
  DEF RecordAnswer, RefuseSend, SubmitOutside, SubmitFrame, killVars
<1>7. Writes
  BY <1>1, <1>2, SenderKnows, NoOrderIsNoOrder, EventsKnown DEF Writes
<1>8. JournalInv' /\ RecordsKept
  BY <1>6, <1>7, WritesKeep DEF IInv, RecordInv
<1>9. Sent(mem')
  <2>1. mem' = Applied(mem, event)
    BY <1>2 DEF Record, RecordOn, Remember
  <2>2. Sent(mem) \/ event = "reject"
    BY <1>1, <1>2, SenderKnows, Steps
  <2> QED BY <1>1, <2>1, <2>2, SenderKnows, AppliedKeeps, EventsKnown
<1>10. attempts' = attempts /\ killFirst' = killFirst
  BY DEF RecordAnswer, RefuseSend, historyVars
<1>11. attempts' = 1 => Sent(disk')
  BY <1>1, <1>8, <1>10, SenderKnows DEF RecordsKept
<1>12. /\ RefusedUnsent' => attempts' = 0
       /\ killFirst' => attempts' = 0
  BY <1>1, <1>5, <1>10, SenderKnows, Steps
<1> QED
  BY <1>1, <1>4, <1>6, <1>8, <1>9, <1>10, <1>11, <1>12, SenderKnows, SendMoves, Steps

-------------------------------------------------------------------------------
\* The process dies, and recovery replays what it left (_recover).
LEMMA CrashStep ==
  ASSUME IInv, Crash
  PROVE  IInv'
<1>1. /\ up' = FALSE /\ mem' = NoOrder /\ backlog' = <<>> /\ disk' = disk
      /\ \A c \in Callers : at'[c] = "idle"
      /\ UNCHANGED <<attempts, refusals, killFirst, venueVars, killDisk, answer>>
      /\ kill' = FALSE /\ cancelBeforeSend' = FALSE /\ cancelAt' = "idle" /\ reconAt' = "idle"
      /\ at' = [c \in Callers |-> "idle"]
  BY DEF Crash, historyVars
<1>2. JournalInv'
  <2>1. <<>> \in Seq(Events)
    OBVIOUS
  <2> QED BY <1>1, <2>1 DEF IInv, RecordInv, JournalInv, OrderOrNone
<1>3. TaskInv' /\ WorldTypes'
  BY <1>1 DEF IInv, RecordInv, TaskInv, WorldTypes, venueVars, ReconAsleep
<1>4. LockInv'
  BY <1>1 DEF LockInv, Locked, Active, Fresh, Judging, PlacingSteps, UnsentCodes
<1>5. AttemptInv'
  BY <1>1 DEF IInv, SendInv, AttemptInv, Fresh, Judging, PlacingSteps, UnsentCodes
<1>6. RefusalInv' /\ KillInv'
  BY <1>1 DEF IInv, SendInv, RefusalInv, RefusedUnsent, KillInv, Fresh, Judging
<1> QED BY <1>2, <1>3, <1>4, <1>5, <1>6 DEF IInv, RecordInv, SendInv

LEMMA StartStep ==
  ASSUME IInv, Start
  PROVE  IInv'
<1>1. /\ ~up /\ up' = TRUE /\ kill' = killDisk /\ killFirst' = killFirst
      /\ UNCHANGED <<killDisk, at, cancelBeforeSend, attempts, venueVars, cancelAt, reconVars>>
  BY DEF Start, StartFrame, sendVars
<1>2. \A c \in Callers : at[c] = "idle"
  BY <1>1 DEF IInv, SendInv, LockInv
<1>3. cancelAt = "idle" /\ reconAt = "idle" /\ backlog = <<>> /\ backlog \in Seq(Events)
      /\ disk \in OrderOrNone
  BY <1>1 DEF IInv, RecordInv, JournalInv, TaskInv
<1>4. \/ /\ disk # NoOrder /\ disk.status = "PENDING_SUBMIT"
         /\ RecordOn(disk, "reject") /\ Refused("NEVER_SENT", "recovery")
      \/ /\ disk # NoOrder /\ disk.status = "SUBMITTING"
         /\ RecordOn(disk, "unknown") /\ UNCHANGED refusals
      \/ /\ disk = NoOrder \/ disk.status \notin {"PENDING_SUBMIT", "SUBMITTING"}
         /\ mem' = disk /\ UNCHANGED <<disk, backlog, refusals>>
  BY DEF Start
<1>5. /\ JournalInv'
      /\ mem' = NoOrder <=> disk = NoOrder
      /\ disk' = NoOrder <=> disk = NoOrder
      /\ mem' # NoOrder => Sent(mem')
      /\ Sent(disk) => Sent(disk')
  <2>1. CASE disk # NoOrder /\ \E event \in {"reject", "unknown"} :
               /\ RecordOn(disk, event)
               /\ event = "unknown" => disk.status = "SUBMITTING"
    <3>1. PICK event \in {"reject", "unknown"} :
             RecordOn(disk, event) /\ (event = "unknown" => disk.status = "SUBMITTING")
      BY <2>1
    <3>2. disk \in Orders /\ event \in Events
      BY <1>3, <2>1, EventsKnown DEF OrderOrNone
    <3>3. /\ mem' \in Orders /\ mem' # NoOrder /\ disk' \in Orders /\ disk' # NoOrder
          /\ mem' = Applied(disk, event) /\ backlog' \in Seq(Events)
          /\ Sent(disk) => Sent(disk')
      BY <1>3, <3>1, <3>2, RecordEffect
    <3>4. Sent(mem')
      BY <3>1, <3>2, <3>3, AppliedKeeps DEF Sent
    <3> QED BY <1>1, <2>1, <3>3, <3>4 DEF JournalInv, OrderOrNone
  <2>2. CASE /\ disk = NoOrder \/ disk.status \notin {"PENDING_SUBMIT", "SUBMITTING"}
             /\ mem' = disk /\ UNCHANGED <<disk, backlog, refusals>>
    BY <1>1, <1>3, <2>2 DEF JournalInv, OrderOrNone, Sent
  <2> QED BY <1>4, <2>1, <2>2
<1>6. /\ refusals' \subseteq Codes
      /\ RefusedUnsent' => RefusedUnsent \/ (disk # NoOrder /\ ~Sent(disk))
  <2>1. <<"NEVER_SENT", "recovery">> \in Codes /\ refusals \subseteq Codes
    BY DEF Codes, UnsentCodes, IInv, RecordInv, WorldTypes
  <2> QED BY <1>4, <2>1 DEF Refused, RefusedUnsent, Sent
<1>7. TaskInv' /\ WorldTypes'
  BY <1>1, <1>3, <1>6 DEF IInv, RecordInv, TaskInv, WorldTypes, venueVars, reconVars, ReconAsleep
<1>8. LockInv'
  BY <1>1, <1>2 DEF LockInv, Locked, Active, Fresh, Judging, PlacingSteps, UnsentCodes
<1>9. AttemptInv'
  BY <1>1, <1>2, <1>5
  DEF IInv, SendInv, AttemptInv, Fresh, Judging, PlacingSteps, UnsentCodes
<1>10. RefusalInv'
  BY <1>1, <1>2, <1>5, <1>6 DEF IInv, SendInv, AttemptInv, RefusalInv, Fresh, Judging
<1>11. KillInv'
  BY <1>1, <1>2, <1>5 DEF IInv, SendInv, KillInv, Fresh
<1> QED BY <1>5, <1>7, <1>8, <1>9, <1>10, <1>11 DEF IInv, RecordInv, SendInv

-------------------------------------------------------------------------------
LEMMA InitEstablishes == Init => IInv
<1> SUFFICES ASSUME Init PROVE IInv
  OBVIOUS
<1>1. <<>> \in Seq(Events)
  OBVIOUS
<1>2. RecordInv
  BY <1>1 DEF Init, RecordInv, JournalInv, TaskInv, WorldTypes, OrderOrNone, ReconAsleep
<1>3. SendInv
  BY DEF Init, SendInv, LockInv, AttemptInv, RefusalInv, RefusedUnsent, KillInv,
     Locked, Active, Fresh, Judging, PlacingSteps, UnsentCodes
<1> QED BY <1>2, <1>3 DEF IInv

LEMMA NextPreserves == IInv /\ [Next]_vars => IInv'
<1> SUFFICES ASSUME IInv, [Next]_vars PROVE IInv'
  OBVIOUS
<1>1. CASE UNCHANGED vars
  BY <1>1 DEF vars, recordVars, killVars, sendVars, venueVars, reconVars, historyVars,
     IInv, RecordInv, JournalInv, TaskInv, WorldTypes, SendInv, LockInv, AttemptInv,
     RefusalInv, RefusedUnsent, KillInv
<1>2. ASSUME NEW c \in Callers, Submit(c) \/ SubmitStep(c) \/ Abandon(c)
      PROVE  IInv'
  BY <1>2, BeforeIntentSteps, WriteIntentStep, BeginSendStep, RecordSendStartedStep,
     RereadKillStep, DecideStep, PlaceEndsStep, LastRecordStep, AbandonStep DEF SubmitStep
<1>3. CASE Cancel \/ CancelStep \/ OnVenueEvent \/ ReconStep
  BY <1>3, CancelSteps, StreamStep, ReconSteps, OutsideKeeps
<1>4. CASE WriteUnjournalled \/ GraceElapses("unknown") \/ GraceElapses("change")
  BY <1>4, BacklogAndGraceSteps, OutsideKeeps
<1>5. CASE EngageKill \/ RecordKill \/ EngageKillElsewhere \/ KillLoop
  BY <1>5, KillSteps, OutsideKeeps
<1>6. CASE VenueTakesRequest \/ RequestLost \/ CancelArrives \/ VenueActs \/ VenuePurges
  BY <1>6, VenueSteps, OutsideKeeps
<1>7. CASE Crash \/ Start
  BY <1>7, CrashStep, StartStep
<1> QED BY <1>1, <1>2, <1>3, <1>4, <1>5, <1>6, <1>7 DEF Next

LEMMA Invariance == Spec => []IInv
BY InitEstablishes, NextPreserves, PTL DEF Spec

\* What the send path may be asked to hold follows from the invariant in any state.
LEMMA InvariantImplies ==
  ASSUME IInv
  PROVE  /\ TypeOK /\ AtMostOneAttempt /\ SendRecordedFirst /\ UnsentCodesAreTrue
         /\ KillStopsSend /\ NoIntentIsLeft
<1>1. TypeOK
  BY DEF IInv, RecordInv, JournalInv, TaskInv, WorldTypes, TypeOK
<1>2. AtMostOneAttempt
  BY DEF IInv, SendInv, AttemptInv, AtMostOneAttempt
<1>3. attempts > 0 => attempts = 1
  BY DEF IInv, SendInv, AttemptInv
<1>4. SendRecordedFirst
  BY <1>3, NoOrderIsNoOrder DEF IInv, SendInv, AttemptInv, SendRecordedFirst, Sent
<1>5. UnsentCodesAreTrue
  BY DEF IInv, SendInv, RefusalInv, RefusedUnsent, UnsentCodesAreTrue
<1>6. KillStopsSend
  BY DEF IInv, SendInv, KillInv, KillStopsSend
<1>7. NoIntentIsLeft
  BY Steps DEF IInv, SendInv, AttemptInv, NoIntentIsLeft, OrderKnown, Submitting, Sent
<1> QED BY <1>1, <1>2, <1>4, <1>5, <1>6, <1>7

\* The variables keep their types, whatever fails (OrderManager).
THEOREM TypeCorrect == Spec => []TypeOK
BY Invariance, InvariantImplies, PTL

\* README.md:4: one client order id reaches place_order at most once, whatever
\* callers, crashes, journal faults and queries do.
THEOREM SentOnce == Spec => []AtMostOneAttempt
BY Invariance, InvariantImplies, PTL

\* SendStarted is on disk before the venue is called (_send).
THEOREM SendIsRecordedFirst == Spec => []SendRecordedFirst
BY Invariance, InvariantImplies, PTL

\* Outside reconciliation, a code that says the venue was never called is true for
\* good (_refuse_send, _close_unsent, _recover).
THEOREM UnsentCodesTellTheTruth == Spec => []UnsentCodesAreTrue
BY Invariance, InvariantImplies, PTL

\* No death around the call makes a sent order look unsent (_send, _recover).
THEOREM SendLeavesItsTrace == Spec => []SentStaysOnRecord
BY SendIsRecordedFirst, UnsentCodesTellTheTruth, PTL DEF SentStaysOnRecord

\* A kill engaged before SendStarted was recorded stops the call (_send).
THEOREM KillStopsTheSend == Spec => []KillStopsSend
BY Invariance, InvariantImplies, PTL

\* No order waits to be sent with nobody sending it (_close_unsent).
THEOREM NoIntentIsStranded == Spec => []NoIntentIsLeft
BY Invariance, InvariantImplies, PTL

-------------------------------------------------------------------------------
(***************************************************************************)
(* Replaying the journal, and then what it missed, gives memory.           *)
(***************************************************************************)

\* The states that a replay of events from o goes through.
IsReplay(g, o, events) ==
  g = [n \in 0..Len(events) |-> IF n = 0 THEN o ELSE Applied(g[n - 1], events[n])]

\* The replay of given events is the last of any run of states that follows them.
LEMMA ReplayIs ==
  ASSUME NEW o, NEW events, Len(events) \in Nat, NEW g,
         IsReplay(g, o, events)
  PROVE  Replayed(o, events) = g[Len(events)]
<1> DEFINE state == CHOOSE f : f = [n \in 0..Len(events) |->
                                     IF n = 0 THEN o ELSE Applied(f[n - 1], events[n])]
<1>1. state = [n \in 0..Len(events) |->
                 IF n = 0 THEN o ELSE Applied(state[n - 1], events[n])]
  <2>1. \E f : f = [n \in 0..Len(events) |->
                     IF n = 0 THEN o ELSE Applied(f[n - 1], events[n])]
    BY DEF IsReplay
  <2> QED BY <2>1
<1>2. Replayed(o, events) = state[Len(events)]
  BY DEF Replayed
<1> HIDE DEF state
<1> DEFINE Same == {n \in Nat : state[n] = g[n]}
<1>3. 0 \in Same
  BY <1>1 DEF IsReplay
<1>4. ASSUME NEW n \in 0..(Len(events) - 1), n \in Same PROVE n + 1 \in Same
  <2>1. n + 1 \in 0..Len(events) /\ n + 1 # 0 /\ (n + 1) - 1 = n /\ n + 1 \in Nat
    OBVIOUS
  <2>2. state[n + 1] = Applied(state[n], events[n + 1])
    BY <1>1, <2>1
  <2>3. g[n + 1] = Applied(g[n], events[n + 1])
    BY <2>1 DEF IsReplay
  <2> QED BY <1>4, <2>1, <2>2, <2>3
<1>5. \A n \in 0..Len(events) : n \in Same
  <2> HIDE DEF Same
  <2> QED BY <1>3, <1>4, UpTo
<1> QED BY <1>2, <1>5

\* From an order, any events can be replayed.
LEMMA ReplayRuns ==
  ASSUME NEW o \in Orders, NEW events \in Seq(Events)
  PROVE  \E g \in [0..Len(events) -> Orders] : IsReplay(g, o, events)
<1> DEFINE Step == [p \in (1..Len(events)) \X Orders |-> Applied(p[2], events[p[1]])]
<1>1. Len(events) \in Nat /\ \A n \in 1..Len(events) : events[n] \in Events
  BY ElementOfSeq, LenProperties
<1>2. Step \in [(1..Len(events)) \X Orders -> Orders]
  <2> SUFFICES ASSUME NEW p \in (1..Len(events)) \X Orders
               PROVE  Applied(p[2], events[p[1]]) \in Orders
    OBVIOUS
  <2> QED BY <1>1, AppliedKeeps
<1>3. \A n \in 1..Len(events), x \in Orders : Step[<<n, x>>] = Applied(x, events[n])
  OBVIOUS
<1> HIDE DEF Step
<1>4. PICK g : g \in Traces(Orders, o, Len(events), Step)
  BY <1>1, <1>2, TraceExists
<1>5. \A n \in 1..Len(events) : g[n] = Applied(g[n - 1], events[n])
  <2> TAKE n \in 1..Len(events)
  <2>1. /\ g \in [0..Len(events) -> Orders]
        /\ \A k \in 1..Len(events) : g[k] = Step[<<k, g[k - 1]>>]
    BY <1>4 DEF Traces
  <2>2. n - 1 \in 0..Len(events)
    BY <1>1
  <2>3. g[n - 1] \in Orders
    BY <2>1, <2>2
  <2> QED BY <1>3, <2>1, <2>3
<1>6. g \in [0..Len(events) -> Orders] /\ g[0] = o
  BY <1>4 DEF Traces
<1> QED BY <1>1, <1>5, <1>6 DEF IsReplay

LEMMA ReplayNothing ==
  ASSUME NEW o
  PROVE  Replayed(o, <<>>) = o
<1> DEFINE g == [n \in 0..0 |-> o]
<1>1. Len(<<>>) = 0
  OBVIOUS
<1>2. IsReplay(g, o, <<>>)
  BY <1>1 DEF IsReplay
<1>3. Replayed(o, <<>>) = g[Len(<<>>)]
  <2> HIDE DEF g
  <2> QED BY <1>1, <1>2, ReplayIs
<1> QED BY <1>1, <1>3

\* One more event is applied to what the replay gave.
LEMMA ReplayAppend ==
  ASSUME NEW o \in Orders, NEW events \in Seq(Events), NEW event \in Events
  PROVE  Replayed(o, Append(events, event)) = Applied(Replayed(o, events), event)
<1> DEFINE more == Append(events, event)
           n1 == Len(events) + 1
<1>1. PICK g \in [0..Len(events) -> Orders] : IsReplay(g, o, events)
  BY ReplayRuns
<1>g. g = [n \in 0..Len(events) |-> IF n = 0 THEN o ELSE Applied(g[n - 1], events[n])]
  BY <1>1 DEF IsReplay
<1>2. /\ Len(events) \in Nat /\ Len(more) = n1 /\ more[n1] = event
      /\ \A n \in 1..Len(events) : more[n] = events[n]
  BY LenProperties, AppendProperties
<1> HIDE DEF more
<1> DEFINE h == [n \in 0..n1 |-> IF n = n1 THEN Applied(g[Len(events)], event) ELSE g[n]]
<1>3. ASSUME NEW n \in 0..n1
      PROVE  h[n] = IF n = 0 THEN o ELSE Applied(h[n - 1], more[n])
  <2>1. CASE n = 0
    BY <1>g, <1>2, <2>1
  <2>2. CASE n = n1
    <3>1. n # 0 /\ n - 1 = Len(events) /\ n - 1 \in 0..n1 /\ n - 1 # n1
      BY <1>2, <2>2
    <3>2. h[n] = Applied(g[Len(events)], event) /\ h[n - 1] = g[Len(events)]
      BY <2>2, <3>1
    <3> HIDE DEF h
    <3> QED BY <1>2, <2>2, <3>1, <3>2
  <2>3. CASE n # 0 /\ n # n1
    <3>1. n \in 1..Len(events) /\ n - 1 \in 0..Len(events) /\ n - 1 # n1 /\ n - 1 \in 0..n1
      BY <1>2, <2>3
    <3>2. h[n] = g[n] /\ h[n - 1] = g[n - 1]
      BY <2>3, <3>1
    <3>3. g[n] = Applied(g[n - 1], events[n])
      BY <1>g, <2>3, <3>1
    <3> HIDE DEF h
    <3> QED BY <1>2, <2>3, <3>1, <3>2, <3>3
  <2> QED BY <2>1, <2>2, <2>3
<1>4. IsReplay(h, o, more)
  <2>1. h = [n \in 0..n1 |-> h[n]]
    OBVIOUS
  <2> HIDE DEF h
  <2> QED BY <1>2, <1>3, <2>1 DEF IsReplay
<1>5. h[n1] = Applied(g[Len(events)], event)
  BY <1>2
<1>6. Replayed(o, more) = h[n1]
  <2> HIDE DEF h
  <2> QED BY <1>2, <1>4, ReplayIs
<1>7. Replayed(o, events) = g[Len(events)]
  BY <1>1, <1>2, ReplayIs
<1> QED BY <1>5, <1>6, <1>7 DEF more

\* The first event may be applied first.
LEMMA ReplayHead ==
  ASSUME NEW o \in Orders, NEW events \in Seq(Events), events # <<>>
  PROVE  Replayed(o, events) = Replayed(Applied(o, Head(events)), Tail(events))
<1> DEFINE next == Applied(o, Head(events))
           rest == Tail(events)
<1>1. PICK g \in [0..Len(events) -> Orders] : IsReplay(g, o, events)
  BY ReplayRuns
<1>g. g = [n \in 0..Len(events) |-> IF n = 0 THEN o ELSE Applied(g[n - 1], events[n])]
  BY <1>1 DEF IsReplay
<1>2. /\ Len(events) \in Nat \ {0} /\ Len(rest) = Len(events) - 1 /\ Head(events) = events[1]
      /\ \A n \in 1..Len(rest) : rest[n] = events[n + 1]
  BY EmptySeq, HeadTailProperties
<1>3. g[1] = next
  BY <1>g, <1>2
<1> HIDE DEF rest, next
<1> DEFINE h == [n \in 0..Len(rest) |-> g[n + 1]]
<1>4. ASSUME NEW n \in 0..Len(rest)
      PROVE  h[n] = IF n = 0 THEN next ELSE Applied(h[n - 1], rest[n])
  <2>1. CASE n = 0
    BY <1>2, <1>3, <2>1
  <2>2. CASE n # 0
    <3>1. /\ n \in 1..Len(rest) /\ n - 1 \in 0..Len(rest) /\ (n - 1) + 1 = n
          /\ n + 1 \in 0..Len(events) /\ n + 1 # 0 /\ (n + 1) - 1 = n
      BY <1>2, <2>2
    <3>2. h[n] = g[n + 1] /\ h[n - 1] = g[n]
      BY <3>1
    <3>3. g[n + 1] = Applied(g[n], events[n + 1])
      BY <1>g, <3>1
    <3> HIDE DEF h
    <3> QED BY <1>2, <2>2, <3>1, <3>2, <3>3
  <2> QED BY <2>1, <2>2
<1>5. IsReplay(h, next, rest)
  <2>1. h = [n \in 0..Len(rest) |-> h[n]]
    OBVIOUS
  <2> HIDE DEF h
  <2> QED BY <1>4, <2>1 DEF IsReplay
<1>6. h[Len(rest)] = g[Len(events)]
  BY <1>2
<1>7. Replayed(next, rest) = h[Len(rest)]
  <2> HIDE DEF h
  <2> QED BY <1>2, <1>5, ReplayIs
<1>8. Replayed(o, events) = g[Len(events)]
  BY <1>1, <1>2, ReplayIs
<1> QED BY <1>6, <1>7, <1>8 DEF next, rest

\* Every step records an event of a known order, writes one the journal has missed, writes
\* the intent, takes memory away, replays the journal, or leaves the records alone.
LEMMA WhatStepsWrite ==
  ASSUME IInv, Next
  PROVE  \/ Writes /\ up' = up
         \/ mem = NoOrder /\ disk = NoOrder /\ RecordDurably("intent") /\ up' = up
         \/ Crash
         \/ Start
<1> USE DEF Writes, SubmitFrame, OrderKept, recordVars
<1>1. ASSUME NEW c \in Callers,
             \/ Submit(c) \/ TakeSubmitLock(c) \/ CheckCanTrade(c) \/ BeginSend(c)
             \/ RereadKill(c) \/ Decide(c) \/ PlaceEnds(c) \/ Abandon(c)
      PROVE  Writes /\ up' = up
  BY <1>1 DEF Submit, TakeSubmitLock, CheckCanTrade, BeginSend, RereadKill, Decide, PlaceEnds,
              Abandon
<1>2. ASSUME JournalRefuses PROVE UNCHANGED <<mem, disk, backlog>>
  <2>1. backlog \in Seq(Events)
    BY DEF IInv, RecordInv, JournalInv
  <2> QED BY <1>2, <2>1 DEF JournalRefuses, JournalStops
<1>3. ASSUME NEW c \in Callers, WriteIntent(c)
      PROVE  \/ Writes /\ up' = up
             \/ mem = NoOrder /\ disk = NoOrder /\ RecordDurably("intent") /\ up' = up
  <2>1. at[c] = "intending" /\ up' = up
    BY <1>3 DEF WriteIntent
  <2>2. mem = NoOrder
    BY <2>1 DEF IInv, SendInv, LockInv, Locked
  <2> QED BY <1>2, <1>3, <2>1, <2>2 DEF WriteIntent
<1>4. ASSUME NEW c \in Callers, RecordSendStarted(c) \/ RecordAnswer(c) \/ RefuseSend(c)
      PROVE  Writes /\ up' = up
  <2>1. at[c] \in Active /\ up' = up
    BY <1>4 DEF RecordSendStarted, RecordAnswer, RefuseSend, Active, Fresh, PlacingSteps
  <2>2. up /\ mem # NoOrder
    BY <2>1 DEF IInv, SendInv, LockInv, Active, Fresh, Judging, PlacingSteps, UnsentCodes
  <2>3. \/ JournalRefuses
        \/ RecordDurably("send_started")
        \/ \E event \in {"ack", "reject", "unknown"} : Record(event)
    BY <1>4 DEF RecordSendStarted, RecordAnswer, RefuseSend
  <2>4. RecordDurably("send_started") => Record("send_started")
    BY DEF RecordDurably, Record, RecordOn
  <2> QED BY <1>2, <2>1, <2>2, <2>3, <2>4, EventsKnown
<1>5. CASE Cancel \/ CancelStep \/ OnVenueEvent \/ ReconStep
  BY <1>5, CancelSteps, StreamStep, ReconSteps DEF Outside
<1>6. CASE WriteUnjournalled \/ GraceElapses("unknown") \/ GraceElapses("change")
  BY <1>6, BacklogAndGraceSteps DEF Outside
<1>7. CASE EngageKill \/ RecordKill \/ EngageKillElsewhere \/ KillLoop
  BY <1>7, KillSteps DEF Outside
<1>8. CASE VenueTakesRequest \/ RequestLost \/ CancelArrives \/ VenueActs \/ VenuePurges
  BY <1>8, VenueSteps DEF Outside
<1> QED BY <1>1, <1>3, <1>4, <1>5, <1>6, <1>7, <1>8 DEF Next, SubmitStep

\* Recording one event keeps memory what a replay gives, whether or not the journal takes it.
LEMMA RecordReplays ==
  ASSUME NEW before \in Orders, NEW event \in Events, RecordOn(before, event),
         disk \in Orders, backlog \in Seq(Events), before = Replayed(disk, backlog)
  PROVE  mem' = Replayed(disk', backlog')
<1>1. mem' = Applied(before, event)
  BY DEF RecordOn, Remember
<1>2. CASE Journalled(event)
  <2>1. backlog = <<>> /\ backlog' = <<>> /\ disk' = Applied(disk, event)
    BY <1>2 DEF Journalled
  <2>2. before = disk
    BY <2>1, ReplayNothing
  <2> QED BY <1>1, <2>1, <2>2, ReplayNothing
<1>3. CASE JournalStops(<<event>>)
  <2>1. disk' = disk /\ backlog' = Append(backlog, event)
    BY <1>3 DEF JournalStops
  <2> QED BY <1>1, <2>1, ReplayAppend
<1> QED BY <1>2, <1>3 DEF RecordOn

LEMMA StepReplays ==
  ASSUME IInv, MemoryMatchesJournal, [Next]_vars
  PROVE  MemoryMatchesJournal'
<1>1. /\ mem \in OrderOrNone /\ disk \in OrderOrNone /\ backlog \in Seq(Events)
      /\ up => (mem = NoOrder <=> disk = NoOrder)
      /\ backlog # <<>> => mem # NoOrder
      /\ ~up => mem = NoOrder /\ backlog = <<>>
  BY DEF IInv, RecordInv, JournalInv
<1>2. CASE UNCHANGED vars
  BY <1>2 DEF vars, recordVars, MemoryMatchesJournal
<1>3. CASE up /\ mem # NoOrder /\ \E event \in Events : Record(event)
  <2>1. PICK event \in Events : RecordOn(mem, event)
    BY <1>3 DEF Record
  <2>2. mem \in Orders /\ disk \in Orders /\ mem = Replayed(disk, backlog)
    BY <1>1, <1>3 DEF OrderOrNone, MemoryMatchesJournal
  <2>3. mem' = Replayed(disk', backlog')
    BY <1>1, <2>1, <2>2, RecordReplays
  <2> QED BY <2>3 DEF MemoryMatchesJournal
<1>4. CASE WriteUnjournalled
  <2>1. /\ up /\ backlog # <<>> /\ mem' = mem /\ disk \in Orders
        /\ disk' = Applied(disk, Head(backlog)) /\ backlog' = Tail(backlog)
    BY <1>1, <1>4 DEF WriteUnjournalled, OrderOrNone
  <2>2. mem = Replayed(disk', backlog')
    BY <1>1, <2>1, ReplayHead DEF MemoryMatchesJournal
  <2> QED BY <2>1, <2>2 DEF MemoryMatchesJournal
<1>5. CASE UNCHANGED <<mem, disk, backlog>> /\ up' = up
  BY <1>5 DEF MemoryMatchesJournal
<1>6. CASE mem = NoOrder /\ disk = NoOrder /\ RecordDurably("intent")
  <2>1. mem' = Applied(mem, "intent") /\ disk' = Applied(disk, "intent") /\ backlog' = <<>>
    BY <1>6 DEF RecordDurably, Remember, Journalled
  <2>2. mem' = disk'
    BY <1>6, <2>1
  <2>3. Replayed(disk', <<>>) = disk'
    BY ReplayNothing
  <2> QED BY <2>1, <2>2, <2>3 DEF MemoryMatchesJournal
<1>7. CASE Crash
  BY <1>7 DEF Crash, MemoryMatchesJournal
<1>8. CASE Start
  <2>1. ~up /\ backlog = <<>>
    BY <1>1, <1>8 DEF Start, StartFrame
  <2>2. CASE disk # NoOrder /\ \E event \in {"reject", "unknown"} : RecordOn(disk, event)
    <3>1. PICK event \in Events : RecordOn(disk, event)
      BY <2>2, EventsKnown
    <3>2. disk \in Orders /\ disk = Replayed(disk, backlog)
      BY <1>1, <2>1, <2>2, ReplayNothing DEF OrderOrNone
    <3>3. mem' = Replayed(disk', backlog')
      BY <1>1, <3>1, <3>2, RecordReplays
    <3> QED BY <3>3 DEF MemoryMatchesJournal
  <2>3. CASE mem' = disk /\ UNCHANGED <<disk, backlog>>
    <3>1. Replayed(disk, <<>>) = disk
      BY ReplayNothing
    <3> QED BY <2>1, <2>3, <3>1 DEF MemoryMatchesJournal
  <2> QED BY <1>8, <2>2, <2>3 DEF Start
<1> QED BY <1>2, <1>3, <1>4, <1>5, <1>6, <1>7, <1>8, WhatStepsWrite DEF Writes

\* However many events a failing journal misses, and wherever the process dies, a replay of
\* the journal and of what it still misses gives the order in memory (_record_now, _recover).
THEOREM ReplayGivesMemory == Spec => []MemoryMatchesJournal
<1>1. Init => MemoryMatchesJournal
  BY ReplayNothing DEF Init, MemoryMatchesJournal
<1>2. IInv /\ MemoryMatchesJournal /\ [Next]_vars => MemoryMatchesJournal'
  BY StepReplays
<1> QED BY <1>1, <1>2, Invariance, PTL DEF Spec

-------------------------------------------------------------------------------
(***************************************************************************)
(* An order live at the venue is open here.                                *)
(*                                                                         *)
(* The argument.  Once the order's story at the venue is over (Over), it   *)
(* stays over.  Only some events can end the order here (Ending), and each *)
(* is recorded by a step that knows the story is over: because the venue   *)
(* said so, because nothing was sent, or because reconciliation waited out *)
(* the grace period, cancelled and asked again (VenueInv).                 *)
(***************************************************************************)
FreshOrJudging == Fresh \cup Judging

\* The reconciler has cancelled what may arrive late, and is asking again.
Protected ==
  {"asking_last", "asked_last", "asking_once_more", "asked_once_more", "dismissing"}
BeforeJudgment == ReconAsleep \cup {"listed"}

VenueInv ==
  /\ attempts = 0 => ~wire /\ venue = "none"
  /\ \A c \in Callers : at[c] = "rejecting" => ~wire /\ venue \in {"none", "refused"}
  /\ answer \in {"filled", "canceled"} => venue = answer
  /\ reconAt \notin BeforeJudgment => ~Submitting
  /\ "unknown" \in aged => ~wire /\ ~Submitting /\ mem # NoOrder
  /\ reconAt \in Protected \cup {"protecting"} => ~wire
  /\ reconAt \in Protected => venue # "live"

\* The order is not, and will not be, live at the venue.
NeverToBeSent ==
  disk # NoOrder /\ ~wire /\ venue = "none" /\ \A c \in Callers : at[c] \notin FreshOrJudging
Over ==
  \/ DismissedWhileSent
  \/ venue \in {"refused", "filled", "canceled"}
  \/ NeverToBeSent

Ends(o) == o # NoOrder /\ (o.status \in Terminal \/ o.filled > 0)
Ending == {"reject", "canceled", "fill", "FILLED", "CANCELED"}

EndInv ==
  Ends(mem) \/ Ends(disk) \/ (\E i \in DOMAIN backlog : backlog[i] \in Ending) => Over

\* No other event ends an order or books a fill (apply_event).
LEMMA OnlyEndingEnds ==
  ASSUME NEW o \in Orders, NEW event \in Events, event \notin Ending, Ends(Applied(o, event))
  PROVE  Ends(o)
<1>1. CASE event = "ACCEPTED"
  <2>1. Applied(o, event) = [Settle(ApplyRestated(o, event)) EXCEPT !.anomalies = {}]
    BY <1>1 DEF Applied, Statuses, AllLive, WorkingStatuses, Terminal
  <2>2. /\ Applied(o, event).status = "ACCEPTED" /\ Applied(o, event).filled = o.filled
    BY <1>1, <2>1 DEF Settle, ApplyRestated, Note, Orders
  <2> QED BY <2>2, NoOrderIsNoOrder DEF Ends, Terminal
<1>2. CASE event \in DOMAIN TableOf
  <2> DEFINE table == TableOf[event]
             s == Transition(o, table).status
  <2>1. Applied(o, event) = [Settle(Transition(o, table)) EXCEPT !.anomalies = {}]
    BY <1>2 DEF Applied, TableOf, Statuses, AllLive, WorkingStatuses, PendingStatuses, Terminal
  <2>2. \A t \in DOMAIN table : table[t] \in Terminal => t \in Terminal
    BY <1>2 DEF Ending, TableOf, SendStartedTable, AckTable, OutcomeUnknownTable,
       CancelRequestedTable, CancelRejectedTable, AllLive, Terminal, WorkingStatuses,
       PendingStatuses, Working, Resumed
  <2> HIDE DEF table
  <2>3. Transition(o, table).filled = o.filled
    BY DEF Transition, Note, Orders
  <2>4. s \in Terminal => o.status \in Terminal \/ o.filled > 0
    <3>1. CASE o.status \notin DOMAIN table
      BY <3>1 DEF Transition, Note, Orders
    <3>2. CASE o.status \in DOMAIN table
      <4>1. s \in {"PENDING_REPLACE", WorkingStatus(o), table[o.status]}
        BY <3>2 DEF Transition, Orders
      <4>2. WorkingStatus(o) \in Terminal => o.filled > 0
        <5>1. o.filled \in Int /\ o.quantity \in Nat \ {0}
          BY DEF Orders
        <5>2. WorkingStatus(o) \in Terminal => o.filled >= o.quantity
          BY <5>1 DEF WorkingStatus, Terminal
        <5> QED BY <5>1, <5>2
      <4> QED BY <2>2, <3>2, <4>1, <4>2 DEF Terminal
    <3> QED BY <3>1, <3>2
  <2>5. Transition(o, table) \in Orders
    BY <1>2, TransitionKeeps DEF table
  <2>6. Applied(o, event).status = s /\ Applied(o, event).filled = o.filled
    BY <2>1, <2>3, <2>5 DEF Settle, Orders
  <2> QED BY <2>4, <2>6, NoOrderIsNoOrder DEF Ends
<1> QED BY <1>1, <1>2 DEF Events, Ending

\* What a step of a submit does to what the others see of it.
LEMMA SubmitSees ==
  ASSUME IInv, NEW c \in Callers, Submit(c) \/ SubmitStep(c) \/ Abandon(c)
  PROVE  /\ UNCHANGED <<up, cancelWire, venue, purged, reconAt, answer, unsentSeen>>
         /\ aged' \subseteq aged
         /\ \A d \in Callers : d # c => at'[d] = at[d]
         /\ \/ wire' = wire /\ attempts' = attempts
            \/ at[c] = "deciding" /\ attempts' # 0
         /\ at'[c] \in SubmittingSteps => at[c] \in SubmittingSteps \/ mem = NoOrder
         /\ at'[c] = "rejecting" => wire' = wire /\ ~wire /\ venue \in {"none", "refused"}
         /\ at'[c] \in FreshOrJudging => at[c] \in FreshOrJudging \/ disk = NoOrder
         /\ <<"NEVER_SENT", "reconcile">> \in refusals =>
              <<"NEVER_SENT", "reconcile">> \in refusals'
<1> USE DEF SubmitFrame, OrderKept, venueVars, reconVars, recordVars, historyVars
<1>a. at \in [Callers -> {"idle", "quoting", "checking"} \cup SubmittingSteps]
  BY DEF IInv, RecordInv, WorldTypes
<1>b. \A pc : Goto(c, pc) => at'[c] = pc /\ \A d \in Callers : d # c => at'[d] = at[d]
  BY <1>a DEF Goto
<1>c. \A event : /\ Record(event) => aged' \subseteq aged
                 /\ RecordDurably(event) => aged' \subseteq aged
  BY DEF Record, RecordOn, RecordDurably, Remember
<1>d. JournalRefuses => aged' = aged
  BY DEF JournalRefuses
<1>e. attempts \in {0, 1}
  BY DEF IInv, SendInv, AttemptInv
<1>f. /\ FreshOrJudging = {"starting", "stamping", "reading", "deciding"}
      /\ SubmittingSteps = {"intending"} \cup Active
      /\ \A pc \in UnsentCodes : pc \notin FreshOrJudging \cup {"rejecting"}
  BY Steps DEF FreshOrJudging, SubmittingSteps
<1>g. at[c] \in Locked => mem = NoOrder /\ disk = NoOrder
  BY DEF IInv, RecordInv, JournalInv, SendInv, LockInv, Locked
<1>1. CASE Submit(c) \/ TakeSubmitLock(c) \/ CheckCanTrade(c)
  BY <1>1, <1>a, <1>f, <1>g, Steps DEF Submit, TakeSubmitLock, CheckCanTrade, Locked
<1>2. CASE WriteIntent(c)
  <2>1. PICK pc \in {"starting", "idle"} : Goto(c, pc)
    BY <1>2 DEF WriteIntent
  <2>2. aged' \subseteq aged
    BY <1>2, <1>c, <1>d DEF WriteIntent
  <2>3. at[c] \in Locked
    BY <1>2 DEF WriteIntent, Locked
  <2> QED BY <1>2, <1>b, <1>f, <1>g, <2>1, <2>2, <2>3, Steps DEF WriteIntent
<1>3. CASE BeginSend(c)
  <2>1. PICK pc \in {"stamping", "idle", "CANCELED_BEFORE_SEND", "KILL_SWITCH"} : Goto(c, pc)
    BY <1>3 DEF BeginSend
  <2> QED BY <1>3, <1>b, <1>f, <2>1, Steps DEF BeginSend
<1>4. CASE RecordSendStarted(c)
  <2>1. PICK pc \in {"reading", "idle", "CANCELED_BEFORE_SEND", "NEVER_SENT"} : Goto(c, pc)
    BY <1>4 DEF RecordSendStarted
  <2>2. aged' \subseteq aged
    BY <1>4, <1>c, <1>d DEF RecordSendStarted
  <2> QED BY <1>4, <1>b, <1>f, <2>1, <2>2, Steps DEF RecordSendStarted
<1>5. CASE RereadKill(c)
  <2>1. PICK pc \in {"deciding", "JOURNAL_UNREADABLE"} : Goto(c, pc)
    BY <1>5 DEF RereadKill
  <2>2. aged' = aged
    BY <1>5 DEF RereadKill
  <2> QED BY <1>5, <1>b, <1>f, <2>1, <2>2, Steps DEF RereadKill
<1>6. CASE Decide(c)
  <2>1. PICK pc \in {"placing", "CANCELED_BEFORE_SEND", "KILL_SWITCH"} : Goto(c, pc)
    BY <1>6 DEF Decide
  <2>2. \/ wire' = wire /\ attempts' = attempts
        \/ attempts' # 0
    BY <1>6, <1>e DEF Decide
  <2> QED BY <1>6, <1>b, <1>f, <2>1, <2>2, Steps DEF Decide
<1>7. CASE PlaceEnds(c)
  <2>1. PICK pc \in {"acking", "rejecting", "doubting"} :
           Goto(c, pc) /\ (pc = "rejecting" => ~wire /\ venue \in {"none", "refused"})
    BY <1>7 DEF PlaceEnds
  <2> QED BY <1>7, <1>b, <1>f, <2>1, Steps DEF PlaceEnds
<1>8. CASE RecordAnswer(c) \/ RefuseSend(c)
  <2>1. Goto(c, "idle") /\ aged' \subseteq aged
    BY <1>8, <1>c DEF RecordAnswer, RefuseSend
  <2>2. refusals \subseteq refusals'
    BY <1>8 DEF RecordAnswer, RefuseSend, Refused
  <2> QED BY <1>8, <1>b, <1>f, <2>1, <2>2, Steps DEF RecordAnswer, RefuseSend
<1>9. CASE Abandon(c)
  <2>1. CASE BackToIdle(c)
    BY <1>9, <1>a, <1>f, <2>1, Steps DEF Abandon, BackToIdle
  <2>2. CASE \E pc \in {"idle", "CANCELED_BEFORE_SEND", "doubting"} :
               Goto(c, pc) /\ at[c] \in SubmittingSteps
    BY <1>9, <1>b, <1>f, <2>2, Steps DEF Abandon
  <2>3. \/ BackToIdle(c)
        \/ \E pc \in {"idle", "CANCELED_BEFORE_SEND", "doubting"} :
               Goto(c, pc) /\ at[c] \in SubmittingSteps
    BY <1>9, <1>f, Steps DEF Abandon
  <2> QED BY <2>1, <2>2, <2>3
<1> QED BY <1>1, <1>2, <1>3, <1>4, <1>5, <1>6, <1>7, <1>8, <1>9 DEF SubmitStep

\* An order once recorded stays recorded; only a crash takes it from memory.
LEMMA KnownStays ==
  ASSUME IInv, Next
  PROVE  /\ disk # NoOrder => disk' # NoOrder
         /\ mem # NoOrder /\ up' => mem' # NoOrder
<1>1. JournalInv /\ JournalInv'
  BY NextPreserves DEF IInv, RecordInv
<1>2. CASE Writes /\ up' = up
  BY <1>1, <1>2, WritesKeep DEF RecordsKept
<1>3. CASE mem = NoOrder /\ disk = NoOrder /\ RecordDurably("intent") /\ up' = up
  BY <1>3
<1>4. CASE Crash
  BY <1>4 DEF Crash
<1>5. CASE Start
  <2>1. disk \in OrderOrNone /\ backlog \in Seq(Events) /\ ~up /\ mem = NoOrder
    BY <1>1, <1>5 DEF JournalInv, Start, StartFrame
  <2>2. \A event \in Events : disk # NoOrder /\ RecordOn(disk, event) => disk' # NoOrder
    BY <2>1, RecordEffect DEF OrderOrNone
  <2>3. \/ disk' = disk
        \/ \E event \in Events : disk # NoOrder /\ RecordOn(disk, event)
    BY <1>5, EventsKnown DEF Start
  <2> QED BY <2>1, <2>2, <2>3
<1> QED BY <1>2, <1>3, <1>4, <1>5, WhatStepsWrite

LEMMA SubmitKeepsVenueInv ==
  ASSUME IInv, VenueInv, Next, NEW c \in Callers, Submit(c) \/ SubmitStep(c) \/ Abandon(c)
  PROVE  VenueInv'
<1>1. /\ UNCHANGED <<up, cancelWire, venue, purged, reconAt, answer, unsentSeen>>
      /\ aged' \subseteq aged
      /\ \A d \in Callers : d # c => at'[d] = at[d]
      /\ \/ wire' = wire /\ attempts' = attempts
         \/ at[c] = "deciding" /\ attempts' # 0
      /\ at'[c] \in SubmittingSteps => at[c] \in SubmittingSteps \/ mem = NoOrder
      /\ at'[c] = "rejecting" => wire' = wire /\ ~wire /\ venue \in {"none", "refused"}
  BY SubmitSees
<1>2. at[c] = "deciding" => Submitting /\ at[c] \in Active
  BY Steps DEF Submitting
<1>3. Submitting' => Submitting \/ mem = NoOrder
  BY <1>1 DEF Submitting
<1>4. mem = NoOrder => reconAt \in BeforeJudgment
  BY DEF IInv, RecordInv, TaskInv, BeforeJudgment
<1>5. mem # NoOrder => mem' # NoOrder
  <2>1. up
    BY DEF IInv, SendInv, LockInv, Submit, SubmitStep, Abandon, TakeSubmitLock, CheckCanTrade,
       WriteIntent, BeginSend, RecordSendStarted, RereadKill, Decide, PlaceEnds, RecordAnswer,
       RefuseSend, UnsentCodes
  <2> QED BY <1>1, <2>1, KnownStays
<1>6. Protected \cup {"protecting"}
        \subseteq {pc \in Protected \cup {"protecting"} : pc \notin BeforeJudgment}
  BY DEF Protected, BeforeJudgment, ReconAsleep
<1>7. /\ attempts' = 0 => ~wire' /\ venue' = "none"
      /\ answer' \in {"filled", "canceled"} => venue' = answer'
      /\ reconAt' \in Protected => venue' # "live"
  BY <1>1 DEF VenueInv
<1>8. reconAt' \notin BeforeJudgment => ~Submitting'
  BY <1>1, <1>3, <1>4 DEF VenueInv
<1>9. "unknown" \in aged' => ~wire' /\ ~Submitting' /\ mem' # NoOrder
  BY <1>1, <1>2, <1>3, <1>5 DEF VenueInv
<1>10. reconAt' \in Protected \cup {"protecting"} => ~wire'
  BY <1>1, <1>2, <1>6 DEF VenueInv
<1>11. ASSUME NEW d \in Callers, at'[d] = "rejecting"
       PROVE  ~wire' /\ venue' \in {"none", "refused"}
  <2>1. CASE d = c
    BY <1>1, <1>11, <2>1
  <2>2. CASE d # c
    <3>1. at[d] = "rejecting" /\ at[d] \in Active
      BY <1>1, <1>11, <2>2, Steps
    <3>2. at[c] \notin Active
      BY <2>2, <3>1 DEF IInv, SendInv, LockInv
    <3> QED BY <1>1, <1>2, <3>1, <3>2 DEF VenueInv
  <2> QED BY <2>1, <2>2
<1> QED BY <1>7, <1>8, <1>9, <1>10, <1>11 DEF VenueInv

\* A step that sends nothing and asks nothing, as VenueInv sees it.
LEMMA QuietKeepsVenueInv ==
  ASSUME VenueInv, UNCHANGED <<at, attempts, wire, answer>>,
         venue' = venue \/ (venue = "live" /\ venue' \in {"filled", "canceled"}),
         reconAt' \in BeforeJudgment \/ reconAt' = reconAt,
         aged' \subseteq aged,
         mem # NoOrder => mem' # NoOrder
  PROVE  VenueInv'
<1>1. Submitting' <=> Submitting
  BY DEF Submitting
<1>2. (Protected \cup {"protecting"}) \cap BeforeJudgment = {}
  BY DEF Protected, BeforeJudgment, ReconAsleep
<1> QED BY <1>1, <1>2 DEF VenueInv

LEMMA OthersKeepVenueInv ==
  ASSUME IInv, VenueInv, Next,
         \/ Cancel \/ CancelStep \/ OnVenueEvent \/ WriteUnjournalled
         \/ GraceElapses("unknown") \/ GraceElapses("change")
         \/ EngageKill \/ RecordKill \/ EngageKillElsewhere \/ KillLoop
  PROVE  VenueInv'
<1> USE DEF venueVars, reconVars, recordVars, sendVars, CancelFrame
<1>a. \A event : Record(event) => aged' \subseteq aged
  BY DEF Record, RecordOn, Remember
<1>b. up' = up /\ (mem # NoOrder => mem' # NoOrder)
  <2>1. up' = up
    BY CancelSteps, StreamStep, BacklogAndGraceSteps, KillSteps DEF Outside
  <2>2. ~up => mem = NoOrder
    BY DEF IInv, RecordInv, JournalInv
  <2> QED BY <2>1, <2>2, KnownStays
<1>1. CASE Cancel
  BY <1>1, <1>b, QuietKeepsVenueInv DEF Cancel
<1>2. CASE RequestCancel \/ RecordCancelAnswer
  BY <1>2, <1>a, <1>b, QuietKeepsVenueInv DEF RequestCancel, RecordCancelAnswer
<1>3. CASE CallCancel
  BY <1>3, <1>b, QuietKeepsVenueInv DEF CallCancel, VenueTakesCancel, CancelInDoubt
<1>4. CASE OnVenueEvent
  BY <1>4, <1>a, <1>b, QuietKeepsVenueInv DEF OnVenueEvent
<1>5. CASE WriteUnjournalled \/ GraceElapses("change")
  <2>1. CASE WriteUnjournalled
    BY <2>1, <1>b, QuietKeepsVenueInv DEF WriteUnjournalled
  <2>2. CASE GraceElapses("change")
    <3>1. /\ UNCHANGED <<at, attempts, wire, answer, venue, reconAt>>
          /\ aged' = aged \cup {"change"}
      BY <2>2 DEF GraceElapses
    <3>2. Submitting' <=> Submitting
      BY <3>1 DEF Submitting
    <3> QED BY <1>b, <3>1, <3>2 DEF VenueInv
  <2> QED BY <1>5, <2>1, <2>2
<1>6. CASE GraceElapses("unknown")
  <2>1. /\ UNCHANGED <<at, attempts, wire, answer, venue, reconAt>>
        /\ ~wire /\ ~Submitting /\ mem # NoOrder
    BY <1>6 DEF GraceElapses, OrderKnown
  <2>2. Submitting' <=> Submitting
    BY <2>1 DEF Submitting
  <2> QED BY <1>b, <2>1, <2>2 DEF VenueInv
<1>7. CASE EngageKill \/ RecordKill \/ EngageKillElsewhere \/ KillLoop
  BY <1>7, <1>b, QuietKeepsVenueInv DEF EngageKill, RecordKill, EngageKillElsewhere, KillLoop
<1> QED BY <1>1, <1>2, <1>3, <1>4, <1>5, <1>6, <1>7 DEF CancelStep

LEMMA VenueKeepsVenueInv ==
  ASSUME VenueInv,
         VenueTakesRequest \/ RequestLost \/ CancelArrives \/ VenueActs \/ VenuePurges
  PROVE  VenueInv'
<1>1. UNCHANGED <<at, attempts, answer, reconAt, aged, mem>>
  BY DEF VenueTakesRequest, RequestLost, CancelArrives, VenueActs, VenuePurges, External,
     sendVars, reconVars, recordVars
<1>2. Submitting' <=> Submitting
  BY <1>1 DEF Submitting
<1>3. (wire' => wire) /\ (venue' = "live" => venue = "live" \/ wire)
  BY DEF VenueTakesRequest, RequestLost, CancelArrives, VenueActs, VenuePurges
<1>4. venue' # venue => /\ venue \notin {"refused", "filled", "canceled"}
                        /\ attempts # 0 /\ (venue = "none" => wire)
  BY DEF VenueTakesRequest, RequestLost, CancelArrives, VenueActs, VenuePurges, VenueInv
<1>5. ASSUME NEW c \in Callers, at'[c] = "rejecting"
      PROVE  ~wire' /\ venue' \in {"none", "refused"}
  <2>1. ~wire /\ venue \in {"none", "refused"}
    BY <1>1, <1>5 DEF VenueInv
  <2> QED BY <1>3, <1>4, <2>1
<1> QED BY <1>1, <1>2, <1>3, <1>4, <1>5 DEF VenueInv

LEMMA RestartKeepsVenueInv ==
  ASSUME IInv, VenueInv, Crash \/ Start
  PROVE  VenueInv'
<1>1. CASE Crash
  <2>1. /\ \A c \in Callers : at'[c] = "idle"
        /\ UNCHANGED <<attempts, wire, venue, answer>>
        /\ aged' = {} /\ reconAt' = "idle"
    BY <1>1 DEF Crash, venueVars
  <2> QED BY <2>1 DEF VenueInv, Submitting, SubmittingSteps, PlacingSteps, UnsentCodes,
                     Protected, BeforeJudgment, ReconAsleep
<1>2. CASE Start
  <2>1. UNCHANGED <<at, attempts, wire, venue, answer, reconAt>> /\ mem = NoOrder
    BY <1>2 DEF Start, StartFrame, sendVars, venueVars, reconVars, IInv, RecordInv, JournalInv
  <2>2. aged' \subseteq aged
    BY <1>2 DEF Start, RecordOn, Remember
  <2> QED BY <2>1, <2>2, QuietKeepsVenueInv
<1> QED BY <1>1, <1>2

\* The reconciler acts on what the venue said, and only once nobody is sending.
LEMMA ReconKeepsVenueInv ==
  ASSUME IInv, VenueInv, Next, ReconStep
  PROVE  VenueInv'
<1> USE DEF ReconFrame, RecordKept, NothingRecorded, venueVars, sendVars
<1>a. /\ UNCHANGED <<at, attempts, wire>> /\ up' = up
      /\ mem # NoOrder => mem' # NoOrder
  <2>1. UNCHANGED <<at, attempts, wire>>
    BY DEF ReconStep, ListOrders, ReconcileOrder, NeverSent, AskVenue, JudgeAnswer,
       SyncWithVenue, Restate, ResolveNotFound, ProtectiveCancel, JudgeLastAnswer, JudgeAgain,
       DismissOrder, FindOrphans, SweepFills, VenueTakesCancel, CancelInDoubt
  <2>2. up' = up
    BY ReconSteps DEF Outside
  <2>3. ~up => mem = NoOrder
    BY DEF IInv, RecordInv, JournalInv
  <2> QED BY <2>1, <2>2, <2>3, KnownStays
<1>b. Submitting' <=> Submitting
  BY <1>a DEF Submitting
<1>c. \A event : Record(event) => aged' \subseteq aged
  BY DEF Record, RecordOn, Remember
<1>d. /\ BeforeJudgment = {"idle", "orphans", "sweeping", "listed"}
      /\ Protected = {"asking_last", "asked_last", "asking_once_more", "asked_once_more",
                      "dismissing"}
  BY DEF BeforeJudgment, ReconAsleep, Protected
<1>1. CASE ListOrders \/ JudgeAgain \/ NeverSent
  BY <1>1, <1>a, <1>b, <1>c, <1>d DEF ListOrders, JudgeAgain, NeverSent, VenueInv
<1>2. CASE ReconcileOrder
  <2>1. reconAt' \in {"orphans", "never_sent", "asking"} /\ (Submitting => reconAt' = "orphans")
    BY <1>2 DEF ReconcileOrder
  <2> QED BY <1>2, <1>a, <1>b, <1>d, <2>1 DEF ReconcileOrder, VenueInv
<1>3. CASE AskVenue
  <2>1. /\ reconAt \notin BeforeJudgment
        /\ reconAt' \in {"asked", "asked_again", "asked_last", "asked_once_more", "orphans"}
        /\ reconAt' \in Protected => reconAt \in Protected
    BY <1>3, <1>d DEF AskVenue, NextQuestion
  <2>2. answer' = answer \/ (answer' \in {"filled", "canceled"} => venue = answer')
    BY <1>3 DEF AskVenue, VenueStatus
  <2>3. UNCHANGED <<venue, aged>>
    BY <1>3 DEF AskVenue
  <2> QED BY <1>a, <1>b, <1>d, <2>1, <2>2, <2>3 DEF VenueInv
<1>4. CASE JudgeAnswer
  <2>1. /\ reconAt \notin BeforeJudgment /\ reconAt' \notin Protected \cup {"protecting"}
        /\ aged' \subseteq aged
    BY <1>4, <1>d DEF JudgeAnswer
  <2> QED BY <1>4, <1>a, <1>b, <1>d, <2>1 DEF JudgeAnswer, VenueInv
<1>5. CASE SyncWithVenue
  <2>1. /\ reconAt \notin BeforeJudgment /\ reconAt' \in {"syncing", "orphans", "restating"}
        /\ aged' \subseteq aged
    BY <1>5, <1>c, <1>d DEF SyncWithVenue
  <2> QED BY <1>5, <1>a, <1>b, <1>d, <2>1 DEF SyncWithVenue, VenueInv
<1>6. CASE Restate \/ DismissOrder \/ SweepFills
  <2>1. aged' \subseteq aged /\ reconAt' \in BeforeJudgment /\ UNCHANGED <<venue, answer>>
    BY <1>6, <1>c, <1>d DEF Restate, DismissOrder, SweepFills
  <2> QED BY <1>a, <2>1, QuietKeepsVenueInv
<1>7. CASE ResolveNotFound
  <2>1. /\ reconAt \notin BeforeJudgment /\ reconAt' \in {"protecting", "orphans"}
        /\ reconAt' = "protecting" => "unknown" \in aged
        /\ aged' \subseteq aged
    BY <1>7, <1>c, <1>d DEF ResolveNotFound
  <2> QED BY <1>7, <1>a, <1>b, <1>d, <2>1 DEF ResolveNotFound, VenueInv
<1>8. CASE ProtectiveCancel
  <2>1. /\ reconAt = "protecting" /\ UNCHANGED <<answer, aged>>
        /\ venue' = venue \/ (venue = "live" /\ venue' = "canceled")
        /\ \/ reconAt' = "asking_last" /\ venue' # "live"
           \/ reconAt' = "orphans"
    BY <1>8 DEF ProtectiveCancel, VenueTakesCancel, CancelInDoubt
  <2> QED BY <1>a, <1>b, <1>d, <2>1 DEF VenueInv
<1>9. CASE JudgeLastAnswer
  <2>1. /\ reconAt = "asked_last"
        /\ reconAt' \in {"asked_last", "orphans", "asking_once_more", "dismissing"}
        /\ aged' \subseteq aged
    BY <1>9, <1>c DEF JudgeLastAnswer
  <2> QED BY <1>9, <1>a, <1>b, <1>d, <2>1 DEF JudgeLastAnswer, VenueInv
<1>10. CASE FindOrphans
  BY <1>10, <1>a, <1>b, <1>d DEF FindOrphans, VenueInv
<1> QED BY <1>1, <1>2, <1>3, <1>4, <1>5, <1>6, <1>7, <1>8, <1>9, <1>10 DEF ReconStep

LEMMA StepKeepsVenueInv ==
  ASSUME IInv, VenueInv, Next
  PROVE  VenueInv'
BY SubmitKeepsVenueInv, OthersKeepVenueInv, VenueKeepsVenueInv, RestartKeepsVenueInv,
   ReconKeepsVenueInv DEF Next

\* What is over stays over.
LEMMA OverStays ==
  ASSUME IInv, VenueInv, Next, Over
  PROVE  Over'
<1>r. refusals \subseteq refusals'
  BY DEF Next, SubmitStep, Submit, TakeSubmitLock, CheckCanTrade, WriteIntent, BeginSend,
     RecordSendStarted, RereadKill, Decide, PlaceEnds, RecordAnswer, RefuseSend, Abandon,
     Cancel, CancelStep, RequestCancel, CallCancel, RecordCancelAnswer, CancelFrame,
     OnVenueEvent, ReconStep, ListOrders, ReconcileOrder, NeverSent, AskVenue, JudgeAnswer,
     SyncWithVenue, Restate, ResolveNotFound, ProtectiveCancel, JudgeLastAnswer, JudgeAgain,
     DismissOrder, FindOrphans, SweepFills, NothingRecorded, GraceElapses, WriteUnjournalled,
     EngageKill, RecordKill, EngageKillElsewhere, KillLoop, VenueTakesRequest, RequestLost,
     CancelArrives, VenueActs, VenuePurges, External, Crash, Start, StartFrame, Refused,
     historyVars
<1>1. CASE \E c \in Callers : Submit(c) \/ SubmitStep(c) \/ Abandon(c)
  <2>1. PICK c \in Callers : Submit(c) \/ SubmitStep(c) \/ Abandon(c)
    BY <1>1
  <2>2. /\ venue' = venue
        /\ \A d \in Callers : d # c => at'[d] = at[d]
        /\ \/ wire' = wire /\ attempts' = attempts
           \/ at[c] = "deciding" /\ attempts' # 0
        /\ at'[c] \in FreshOrJudging => at[c] \in FreshOrJudging \/ disk = NoOrder
    BY <2>1, SubmitSees
  <2>3. at[c] = "deciding" => at[c] \in FreshOrJudging
    BY Steps DEF FreshOrJudging
  <2>4. attempts' \in Nat /\ attempts \in Nat
    BY NextPreserves DEF IInv, RecordInv, WorldTypes
  <2>5. NeverToBeSent => NeverToBeSent'
    BY <2>2, <2>3, KnownStays DEF NeverToBeSent
  <2>6. DismissedWhileSent => DismissedWhileSent'
    BY <1>r, <2>2, <2>4 DEF DismissedWhileSent
  <2> QED BY <2>2, <2>5, <2>6 DEF Over
<1>2. CASE ~\E c \in Callers : Submit(c) \/ SubmitStep(c) \/ Abandon(c)
  <2> USE DEF sendVars, venueVars
  <2>1. /\ attempts' = attempts
        /\ at' = at \/ \A c \in Callers : at'[c] = "idle"
        /\ wire' => wire
        /\ venue' \in {venue, "filled", "canceled"} \/ (venue = "none" /\ wire)
    BY <1>2 DEF Next, Cancel, CancelStep, RequestCancel, CallCancel, RecordCancelAnswer,
       CancelFrame, VenueTakesCancel, CancelInDoubt, OnVenueEvent, ReconFrame, ReconStep,
       ListOrders, ReconcileOrder, NeverSent, AskVenue, JudgeAnswer, SyncWithVenue, Restate,
       ResolveNotFound, ProtectiveCancel, JudgeLastAnswer, JudgeAgain, DismissOrder,
       FindOrphans, SweepFills, GraceElapses, WriteUnjournalled, EngageKill, RecordKill,
       EngageKillElsewhere, KillLoop, VenueTakesRequest, RequestLost, CancelArrives,
       VenueActs, VenuePurges, External, Crash, Start, StartFrame
  <2>2. /\ "idle" \notin FreshOrJudging
    BY Steps DEF FreshOrJudging
  <2>3. NeverToBeSent => NeverToBeSent' \/ venue' \in {"filled", "canceled"}
    BY <2>1, <2>2, KnownStays DEF NeverToBeSent
  <2>4. DismissedWhileSent => DismissedWhileSent'
    BY <1>r, <2>1 DEF DismissedWhileSent
  <2> QED BY <2>1, <2>3, <2>4 DEF Over
<1> QED BY <1>1, <1>2

\* A write that ends the order is made when its story at the venue is over.
HonestWrites ==
  \/ /\ mem # NoOrder
     /\ \E event \in Events : Record(event) /\ (event \in Ending => Over')
  \/ WriteUnjournalled
  \/ UNCHANGED <<mem, disk, backlog>>

LEMMA HonestKeepsEndInv ==
  ASSUME IInv, EndInv, HonestWrites, Over => Over'
  PROVE  EndInv'
<1>1. /\ mem \in OrderOrNone /\ disk \in OrderOrNone /\ backlog \in Seq(Events)
      /\ up => (mem = NoOrder <=> disk = NoOrder)
      /\ ~up => mem = NoOrder
      /\ backlog # <<>> => mem # NoOrder
  BY DEF IInv, RecordInv, JournalInv
<1>2. CASE UNCHANGED <<mem, disk, backlog>>
  BY <1>2 DEF EndInv
<1>3. CASE WriteUnjournalled
  <2>1. /\ mem' = mem /\ disk \in Orders /\ backlog # <<>>
        /\ disk' = Applied(disk, Head(backlog)) /\ backlog' = Tail(backlog)
    BY <1>1, <1>3 DEF WriteUnjournalled, OrderOrNone
  <2>2. /\ Head(backlog) = backlog[1] /\ 1 \in DOMAIN backlog /\ Head(backlog) \in Events
        /\ \A i \in DOMAIN backlog' : i + 1 \in DOMAIN backlog /\ backlog'[i] = backlog[i + 1]
    BY <1>1, <2>1, HeadTailProperties, EmptySeq, ElementOfSeq, LenProperties
  <2>3. Ends(disk') => Ends(disk) \/ backlog[1] \in Ending
    BY <2>1, <2>2, OnlyEndingEnds
  <2> QED BY <2>1, <2>2, <2>3 DEF EndInv
<1>4. CASE mem # NoOrder /\ \E event \in Events : Record(event) /\ (event \in Ending => Over')
  <2>1. PICK event \in Events : RecordOn(mem, event) /\ (event \in Ending => Over')
    BY <1>4 DEF Record
  <2>2. mem \in Orders /\ disk \in Orders
    BY <1>1, <1>4 DEF OrderOrNone
  <2>3. mem' = Applied(mem, event) /\ disk' \in {disk, Applied(disk, event)}
    BY <2>1 DEF RecordOn, Remember, Journalled, JournalStops
  <2>4. \A i \in DOMAIN backlog' :
          backlog'[i] = event \/ \E j \in DOMAIN backlog : backlog'[i] = backlog[j]
    <3>1. CASE backlog' = backlog
      BY <3>1
    <3>2. CASE backlog' = Append(backlog, event)
      BY <1>1, <3>2, AppendProperties, LenProperties
    <3> QED BY <1>1, <2>1, <3>1, <3>2 DEF RecordOn, Journalled, JournalStops
  <2>5. CASE event \in Ending
    BY <2>1, <2>5 DEF EndInv
  <2>6. CASE event \notin Ending
    <3>1. (Ends(mem') => Ends(mem)) /\ (Ends(disk') => Ends(disk))
      BY <2>2, <2>3, <2>6, OnlyEndingEnds
    <3> QED BY <2>4, <2>6, <3>1 DEF EndInv
  <2> QED BY <2>5, <2>6
<1> QED BY <1>2, <1>3, <1>4 DEF HonestWrites

\* An event reported once the venue has finished with the order is reported truly.
LEMMA FinishedIsOver ==
  ASSUME UNCHANGED venueVars, venue \in {"refused", "filled", "canceled"}
  PROVE  Over'
BY DEF venueVars, Over

\* Nothing on its way, nothing at the venue, and nobody about to send.
LEMMA NothingSentIsOver ==
  ASSUME disk' # NoOrder, ~wire', venue' \notin {"live"},
         \A c \in Callers : at'[c] \notin FreshOrJudging,
         venue' \in {"none", "refused", "live", "filled", "canceled"}
  PROVE  Over'
BY DEF Over, NeverToBeSent

LEMMA SubmitWritesHonestly ==
  ASSUME IInv, VenueInv, Next, NEW c \in Callers, Submit(c) \/ SubmitStep(c) \/ Abandon(c)
  PROVE  \/ HonestWrites
         \/ mem = NoOrder /\ disk = NoOrder /\ RecordDurably("intent")
<1> USE DEF SubmitFrame, OrderKept, recordVars
<1>0. WorldTypes' /\ WorldTypes
  BY NextPreserves DEF IInv, RecordInv
<1>1. CASE \/ Submit(c) \/ TakeSubmitLock(c) \/ CheckCanTrade(c) \/ BeginSend(c)
           \/ RereadKill(c) \/ Decide(c) \/ PlaceEnds(c) \/ Abandon(c)
  <2>1. UNCHANGED <<mem, disk, backlog>>
    BY <1>1 DEF Submit, TakeSubmitLock, CheckCanTrade, BeginSend, RereadKill, Decide,
       PlaceEnds, Abandon
  <2> QED BY <2>1 DEF HonestWrites
<1>2. ASSUME JournalRefuses PROVE HonestWrites
  <2>1. backlog \in Seq(Events)
    BY DEF IInv, RecordInv, JournalInv
  <2> QED BY <1>2, <2>1 DEF JournalRefuses, JournalStops, HonestWrites
<1>3. CASE WriteIntent(c)
  <2>1. at[c] = "intending" /\ mem = NoOrder
    BY <1>3 DEF WriteIntent, IInv, SendInv, LockInv, Locked
  <2> QED BY <1>2, <1>3, <2>1 DEF WriteIntent
<1>4. CASE RecordSendStarted(c) /\ RecordDurably("send_started")
  <2>1. Record("send_started") /\ "send_started" \in Events /\ "send_started" \notin Ending
    BY <1>4, EventsKnown DEF RecordDurably, Record, RecordOn, Ending
  <2>2. mem # NoOrder
    BY <1>4, Steps, SenderKnows, NoOrderIsNoOrder DEF RecordSendStarted
  <2> QED BY <2>1, <2>2 DEF HonestWrites
<1>5. CASE RecordAnswer(c) \/ RefuseSend(c)
  <2>1. at[c] \in Active /\ at[c] \notin FreshOrJudging /\ mem # NoOrder /\ disk \in Orders
    BY <1>5, Steps, SenderKnows, NoOrderIsNoOrder DEF RecordAnswer, RefuseSend, FreshOrJudging
  <2>2. PICK event \in {"ack", "reject", "unknown"} :
           Record(event) /\ (event = "reject" => at[c] \in UnsentCodes \cup {"rejecting"})
    BY <1>5 DEF RecordAnswer, RefuseSend
  <2>3. ASSUME event = "reject" PROVE Over'
    <3>1. ~wire /\ venue \in {"none", "refused"}
      <4>1. CASE at[c] = "rejecting"
        BY <4>1 DEF VenueInv
      <4>2. CASE at[c] \in UnsentCodes
        BY <4>2 DEF VenueInv, IInv, SendInv, AttemptInv
      <4> QED BY <2>2, <2>3, <4>1, <4>2
    <3>2. wire' = wire /\ venue' = venue
      BY <1>5 DEF RecordAnswer, RefuseSend, venueVars
    <3>3. \A d \in Callers : at'[d] \notin FreshOrJudging
      <4>1. Goto(c, "idle")
        BY <1>5 DEF RecordAnswer, RefuseSend
      <4>2. at'[c] = "idle" /\ \A d \in Callers : d # c => at'[d] = at[d]
        BY <4>1, <1>0 DEF Goto, WorldTypes
      <4>3. \A d \in Callers : d # c => at[d] \notin Active
        BY <2>1 DEF IInv, SendInv, LockInv
      <4> QED BY <4>2, <4>3, Steps DEF FreshOrJudging
    <3>4. disk' # NoOrder
      BY <2>1, KnownStays, NoOrderIsNoOrder
    <3> QED BY <3>1, <3>2, <3>3, <3>4, NothingSentIsOver
  <2> QED BY <2>1, <2>2, <2>3, EventsKnown DEF HonestWrites, Ending
<1>6. RecordSendStarted(c) => RecordDurably("send_started") \/ JournalRefuses
  BY DEF RecordSendStarted
<1> QED BY <1>1, <1>2, <1>3, <1>4, <1>5, <1>6 DEF SubmitStep

LEMMA OthersWriteHonestly ==
  ASSUME IInv, VenueInv,
         \/ Cancel \/ CancelStep \/ OnVenueEvent \/ WriteUnjournalled
         \/ GraceElapses("unknown") \/ GraceElapses("change")
         \/ EngageKill \/ RecordKill \/ EngageKillElsewhere \/ KillLoop
         \/ VenueTakesRequest \/ RequestLost \/ CancelArrives \/ VenueActs \/ VenuePurges
  PROVE  HonestWrites
<1> USE DEF recordVars
<1>a. cancelAt # "idle" => mem # NoOrder
  BY DEF IInv, RecordInv, TaskInv
<1>1. CASE RequestCancel \/ RecordCancelAnswer
  <2>1. PICK event \in {"cancel_requested", "cancel_rejected", "unknown"} : Record(event)
    BY <1>1 DEF RequestCancel, RecordCancelAnswer
  <2>2. mem # NoOrder
    BY <1>1, <1>a DEF RequestCancel, RecordCancelAnswer
  <2> QED BY <2>1, <2>2, EventsKnown DEF HonestWrites, Ending
<1>2. CASE OnVenueEvent
  <2>1. PICK event \in VenueReports : Record(event)
    BY <1>2 DEF OnVenueEvent
  <2>2. /\ event \in {"ack", "fill", "canceled"}
        /\ event \in {"fill", "canceled"} => venue \in {"filled", "canceled"}
    BY <2>1 DEF VenueReports
  <2>3. event \in Ending => Over'
    BY <1>2, <2>2, FinishedIsOver DEF OnVenueEvent, Ending
  <2> QED BY <1>2, <2>1, <2>2, <2>3, EventsKnown DEF HonestWrites, OnVenueEvent, OrderKnown
<1>3. CASE \/ Cancel \/ CallCancel \/ GraceElapses("unknown") \/ GraceElapses("change")
           \/ EngageKill \/ RecordKill \/ EngageKillElsewhere \/ KillLoop
           \/ VenueTakesRequest \/ RequestLost \/ CancelArrives \/ VenueActs \/ VenuePurges
  <2>1. UNCHANGED <<mem, disk, backlog>>
    BY <1>3 DEF Cancel, CallCancel, GraceElapses, EngageKill, RecordKill,
       EngageKillElsewhere, KillLoop, VenueTakesRequest, RequestLost, CancelArrives,
       VenueActs, VenuePurges, External
  <2> QED BY <2>1 DEF HonestWrites
<1> QED BY <1>1, <1>2, <1>3 DEF CancelStep, HonestWrites

LEMMA ReconWritesHonestly ==
  ASSUME IInv, VenueInv, Next, ReconStep
  PROVE  HonestWrites
<1> USE DEF RecordKept, NothingRecorded
<1>a. /\ reconAt \notin ReconAsleep => mem # NoOrder
      /\ answer \in {"none", "live", "filled", "canceled"}
      /\ reconAt \in {"syncing", "restating"} => answer # "none"
  BY DEF IInv, RecordInv, TaskInv
<1>b. /\ WorldTypes' /\ WorldTypes /\ JournalInv
  BY NextPreserves DEF IInv, RecordInv
<1>c. mem # NoOrder => disk' # NoOrder
  BY <1>b, KnownStays DEF JournalInv
<1>d. ~Submitting => \A c \in Callers : at[c] \notin FreshOrJudging
  BY Steps DEF Submitting, FreshOrJudging
<1>1. CASE ListOrders \/ ReconcileOrder \/ AskVenue \/ JudgeAnswer \/ ProtectiveCancel
           \/ JudgeAgain \/ FindOrphans
  <2>1. UNCHANGED <<mem, disk, backlog>>
    BY <1>1 DEF ListOrders, ReconcileOrder, AskVenue, JudgeAnswer, ProtectiveCancel,
       JudgeAgain, FindOrphans
  <2> QED BY <2>1 DEF HonestWrites
<1>2. CASE NeverSent
  <2>1. /\ reconAt = "never_sent" /\ Record("reject") /\ UNCHANGED <<at, attempts, wire, venue>>
        /\ <<"NEVER_SENT", "reconcile">> \in refusals'
    BY <1>2 DEF NeverSent, Refused, ReconFrame, sendVars, venueVars
  <2>2. mem # NoOrder /\ ~Submitting
    BY <1>a, <2>1 DEF VenueInv, ReconAsleep, BeforeJudgment
  <2>3. Over'
    <3>1. CASE attempts > 0
      BY <2>1, <3>1 DEF Over, DismissedWhileSent
    <3>2. CASE attempts = 0
      <4>1. ~wire' /\ venue' = "none"
        BY <2>1, <3>2 DEF VenueInv
      <4> QED BY <1>c, <1>d, <2>1, <2>2, <4>1, NothingSentIsOver
    <3>3. attempts \in Nat
      BY <1>b DEF WorldTypes
    <3> QED BY <3>1, <3>2, <3>3
  <2> QED BY <2>1, <2>2, <2>3, EventsKnown DEF HonestWrites
<1>3. CASE SyncWithVenue \/ JudgeLastAnswer \/ SweepFills
  <2>1. \/ UNCHANGED <<mem, disk, backlog>>
        \/ Record("fill") /\ venue = "filled" /\ mem # NoOrder
    BY <1>3, <1>a DEF SyncWithVenue, JudgeLastAnswer, SweepFills, OrderKnown, VenueInv, ReconAsleep
  <2>2. UNCHANGED venueVars
    BY <1>3 DEF SyncWithVenue, JudgeLastAnswer, SweepFills
  <2>3. venue = "filled" => Over'
    BY <2>2, FinishedIsOver
  <2> QED BY <2>1, <2>3, EventsKnown DEF HonestWrites
<1>4. CASE Restate
  <2>1. \/ UNCHANGED <<mem, disk, backlog>>
        \/ Record(StatusOf[answer]) /\ mem # NoOrder
    BY <1>4, <1>a DEF Restate, ReconAsleep
  <2>2. /\ StatusOf[answer] \in {"ACCEPTED", "FILLED", "CANCELED"}
        /\ StatusOf[answer] # "ACCEPTED" => answer \in {"filled", "canceled"}
    BY <1>4, <1>a DEF Restate, StatusOf
  <2>3. StatusOf[answer] # "ACCEPTED" => Over'
    BY <1>4, <2>2, FinishedIsOver DEF Restate, VenueInv
  <2> QED BY <2>1, <2>2, <2>3, EventsKnown DEF HonestWrites, Ending
<1>5. CASE ResolveNotFound
  <2>1. \/ UNCHANGED <<mem, disk, backlog>>
        \/ Record("cancel_requested") /\ mem # NoOrder
    BY <1>5, <1>a DEF ResolveNotFound, ReconAsleep
  <2> QED BY <2>1, EventsKnown DEF HonestWrites, Ending
<1>6. CASE DismissOrder
  <2>1. /\ reconAt = "dismissing" /\ UNCHANGED <<at, attempts, wire, venue>>
        /\ \/ UNCHANGED <<mem, disk, backlog>>
           \/ Record("reject") \/ Record("CANCELED")
    BY <1>6 DEF DismissOrder, ReconFrame, sendVars, venueVars
  <2>2. mem # NoOrder /\ ~Submitting /\ ~wire /\ venue # "live"
    BY <1>a, <2>1 DEF VenueInv, ReconAsleep, BeforeJudgment, Protected
  <2>3. Over'
    BY <1>b, <1>c, <1>d, <2>1, <2>2, NothingSentIsOver DEF WorldTypes
  <2> QED BY <2>1, <2>2, <2>3, EventsKnown DEF HonestWrites
<1> QED BY <1>1, <1>2, <1>3, <1>4, <1>5, <1>6 DEF ReconStep

LEMMA StepKeepsEndInv ==
  ASSUME IInv, VenueInv, EndInv, Next
  PROVE  EndInv'
<1>1. Over => Over'
  BY OverStays
<1>2. CASE HonestWrites
  BY <1>1, <1>2, HonestKeepsEndInv
<1>3. CASE mem = NoOrder /\ disk = NoOrder /\ RecordDurably("intent")
  <2>1. mem' = NewOrder(1, 1) /\ disk' = NewOrder(1, 1) /\ backlog' = <<>>
    BY <1>3 DEF RecordDurably, Remember, Journalled, Applied, Statuses, AllLive,
       WorkingStatuses, PendingStatuses, Terminal
  <2>2. ~Ends(mem') /\ ~Ends(disk')
    BY <2>1 DEF Ends, NewOrder, Terminal
  <2> QED BY <2>1, <2>2 DEF EndInv
<1>4. CASE Crash
  <2>1. mem' = NoOrder /\ disk' = disk /\ backlog' = <<>>
    BY <1>4 DEF Crash
  <2> QED BY <1>1, <2>1 DEF EndInv, Ends
<1>5. CASE Start
  <2>1. /\ ~up /\ backlog = <<>> /\ disk \in OrderOrNone
        /\ UNCHANGED <<at, wire, venue>> /\ \A c \in Callers : at[c] = "idle"
    BY <1>5 DEF Start, StartFrame, sendVars, venueVars, IInv, RecordInv, JournalInv,
       SendInv, LockInv
  <2>2. CASE disk # NoOrder /\ disk.status = "PENDING_SUBMIT"
    <3>1. attempts = 0
      BY <2>2 DEF IInv, SendInv, AttemptInv, Sent
    <3>2. ~wire' /\ venue' = "none" /\ disk' # NoOrder
      BY <2>1, <2>2, <3>1, KnownStays DEF VenueInv
    <3>3. \A c \in Callers : at'[c] \notin FreshOrJudging
      BY <2>1, Steps DEF FreshOrJudging
    <3> QED BY <3>2, <3>3, NothingSentIsOver DEF EndInv
  <2>3. CASE RecordOn(disk, "unknown") /\ disk # NoOrder
    <3>1. /\ mem' = Applied(disk, "unknown") /\ disk' \in {disk, Applied(disk, "unknown")}
          /\ backlog' \in {<<>>, <<"unknown">>}
      BY <2>1, <2>3 DEF RecordOn, Remember, Journalled, JournalStops
    <3>2. Ends(Applied(disk, "unknown")) => Ends(disk)
      BY <2>1, <2>3, OnlyEndingEnds, EventsKnown DEF OrderOrNone, Ending
    <3>3. \A i \in DOMAIN backlog' : backlog'[i] \notin Ending
      <4>1. CASE backlog' = <<>>
        BY <4>1
      <4>2. CASE backlog' = <<"unknown">>
        BY <4>2 DEF Ending
      <4> QED BY <3>1, <4>1, <4>2
    <3> QED BY <1>1, <3>1, <3>2, <3>3 DEF EndInv
  <2>4. CASE mem' = disk /\ UNCHANGED <<disk, backlog>>
    BY <1>1, <2>4 DEF EndInv
  <2> QED BY <1>5, <2>2, <2>3, <2>4 DEF Start
<1> QED
  BY <1>2, <1>3, <1>4, <1>5, SubmitWritesHonestly, OthersWriteHonestly, ReconWritesHonestly
  DEF Next

\* An order live at the venue is open in memory whatever crashes, journal faults, failed
\* queries and repeated reports came before, so that exposure counts it; the one exception is
\* the stale NEVER_SENT of reconciliation (_reconcile_order, _resolve_not_found).
THEOREM LiveOrdersStayCounted == Spec => []LiveOrdersAreCounted
<1>1. Init => VenueInv /\ EndInv
  <2> SUFFICES ASSUME Init PROVE VenueInv /\ EndInv
    OBVIOUS
  <2>1. VenueInv
    BY DEF Init, VenueInv, BeforeJudgment, ReconAsleep, Protected
  <2>2. EndInv
    BY DEF Init, EndInv, Ends
  <2> QED BY <2>1, <2>2
<1>2. IInv /\ VenueInv /\ EndInv /\ [Next]_vars => (VenueInv /\ EndInv)'
  <2> SUFFICES ASSUME IInv, VenueInv, EndInv, [Next]_vars PROVE (VenueInv /\ EndInv)'
    OBVIOUS
  <2>1. CASE Next
    BY <2>1, StepKeepsVenueInv, StepKeepsEndInv
  <2>2. CASE UNCHANGED vars
    BY <2>2 DEF vars, recordVars, sendVars, venueVars, reconVars, historyVars, VenueInv, EndInv,
       Over, NeverToBeSent, DismissedWhileSent, Submitting
  <2> QED BY <2>1, <2>2
<1>3. IInv /\ VenueInv /\ EndInv => LiveOrdersAreCounted
  <2> SUFFICES ASSUME IInv, VenueInv, EndInv, up, venue = "live", ~DismissedWhileSent
               PROVE  OrderKnown /\ ~Ended
    BY DEF LiveOrdersAreCounted
  <2>1. attempts = 1
    BY DEF VenueInv, IInv, SendInv, AttemptInv
  <2>2. mem # NoOrder
    BY <2>1, NoOrderIsNoOrder DEF IInv, RecordInv, JournalInv, SendInv, AttemptInv, Sent
  <2>3. ~Ends(mem)
    BY DEF EndInv, Over, NeverToBeSent
  <2> QED BY <2>2, <2>3 DEF OrderKnown, Ended, Ends
<1> QED BY <1>1, <1>2, <1>3, Invariance, PTL DEF Spec
-------------------------------------------------------------------------------
(***************************************************************************)
(* A cancel left to the send path.  While a task may still call the venue, *)
(* the flag the cancel put up stays up: the one task whose return takes it *)
(* down is the one that was sending, and a journal that knows the order    *)
(* lets no other begin.                                                    *)
(***************************************************************************)
CancelInv ==
  canceledFirst => /\ attempts = 0 /\ disk # NoOrder
                   /\ \A c \in Callers : at[c] \in Fresh \cup Judging => cancelBeforeSend

\* What a step of a submit makes of its own pc, the flag and the count of calls
\* (submit, _send).
LEMMA SubmitMoves ==
  ASSUME IInv, NEW c \in Callers, Submit(c) \/ SubmitStep(c) \/ Abandon(c)
  PROVE  /\ canceledFirst' = canceledFirst
         /\ \A d \in Callers : d # c => at'[d] = at[d]
         /\ at'[c] \in Fresh \cup Judging =>
              \/ at[c] = "intending"
              \/ at[c] \in Fresh \cup Judging /\ cancelBeforeSend' = cancelBeforeSend
         /\ \/ cancelBeforeSend' = cancelBeforeSend
            \/ at[c] \in Active \cup {"intending"}
         /\ attempts' = attempts \/ (at[c] = "deciding" /\ ~cancelBeforeSend)
<1>1. /\ cancelBeforeSend \in BOOLEAN
      /\ at \in [Callers -> {"idle", "quoting", "checking"} \cup SubmittingSteps]
  BY DEF IInv, RecordInv, WorldTypes
<1>2. /\ Fresh \cup Judging = {"starting", "stamping", "reading", "deciding"}
      /\ Active = Fresh \cup Judging \cup PlacingSteps \cup UnsentCodes
  BY Steps
<1>3. ASSUME NEW pc, at' = [at EXCEPT ![c] = pc]
      PROVE  at'[c] = pc /\ \A d \in Callers : d # c => at'[d] = at[d]
  BY <1>1, <1>3
<1>4. ASSUME NEW pc, Goto(c, pc)
      PROVE  /\ at'[c] = pc /\ \A d \in Callers : d # c => at'[d] = at[d]
             /\ pc # "idle" => cancelBeforeSend' = cancelBeforeSend
  BY <1>1, <1>3, <1>4 DEF Goto
<1>5. CASE Submit(c) \/ TakeSubmitLock(c) \/ CheckCanTrade(c)
  <2>1. PICK pc \in {"idle", "quoting", "checking", "intending"} : at' = [at EXCEPT ![c] = pc]
    BY <1>5 DEF Submit, TakeSubmitLock, CheckCanTrade
  <2> QED BY <1>2, <1>3, <1>5, <2>1 DEF Submit, TakeSubmitLock, CheckCanTrade, historyVars
<1>6. CASE WriteIntent(c)
  <2>1. PICK pc \in {"idle", "starting"} : Goto(c, pc)
    BY <1>6 DEF WriteIntent
  <2> QED BY <1>2, <1>4, <1>6, <2>1 DEF WriteIntent, historyVars
<1>7. CASE BeginSend(c) \/ RecordSendStarted(c) \/ RereadKill(c)
  <2>1. PICK pc : Goto(c, pc) /\ at[c] \in Fresh \cup Judging
    BY <1>2, <1>7 DEF BeginSend, RecordSendStarted, RereadKill
  <2>2. at'[c] \in Fresh \cup Judging => cancelBeforeSend' = cancelBeforeSend
    BY <1>2, <1>4, <2>1
  <2>3. attempts' = attempts /\ canceledFirst' = canceledFirst
    BY <1>7 DEF BeginSend, RecordSendStarted, RereadKill, historyVars
  <2> QED BY <1>2, <1>4, <2>1, <2>2, <2>3
<1>8. CASE Decide(c)
  <2>1. PICK pc \in {"CANCELED_BEFORE_SEND", "KILL_SWITCH", "placing"} :
           Goto(c, pc) /\ (attempts' = attempts \/ ~cancelBeforeSend)
    BY <1>8 DEF Decide
  <2> QED BY <1>2, <1>4, <1>8, <2>1 DEF Decide, historyVars
<1>9. CASE PlaceEnds(c) \/ RecordAnswer(c) \/ RefuseSend(c)
  <2>1. PICK pc \in {"acking", "rejecting", "doubting", "idle"} : Goto(c, pc)
    BY <1>9 DEF PlaceEnds, RecordAnswer, RefuseSend
  <2>2. at[c] \in Active
    BY <1>2, <1>9, Steps DEF PlaceEnds, RecordAnswer, RefuseSend
  <2> QED BY <1>2, <1>4, <1>9, <2>1, <2>2 DEF PlaceEnds, RecordAnswer, RefuseSend, historyVars
<1>10. CASE Abandon(c)
  <2>1. attempts' = attempts /\ canceledFirst' = canceledFirst
    BY <1>10 DEF Abandon, historyVars
  <2>2. CASE at[c] \in {"quoting", "checking"}
    BY <1>2, <1>3, <1>10, <2>1, <2>2 DEF Abandon, BackToIdle
  <2>3. CASE at[c] \in {"starting", "reading", "placing"}
    <3>1. PICK pc \in {"idle", "CANCELED_BEFORE_SEND", "doubting"} : Goto(c, pc)
      BY <1>10, <2>3 DEF Abandon
    <3> QED BY <1>2, <1>4, <2>1, <2>3, <3>1, Steps
  <2> QED BY <1>10, <2>2, <2>3 DEF Abandon
<1> QED BY <1>5, <1>6, <1>7, <1>8, <1>9, <1>10 DEF SubmitStep

\* A cancel left to the send path finds the venue not called (cancel).
LEMMA CancelFindsUnsent ==
  ASSUME IInv, Cancel, canceledFirst' # canceledFirst
  PROVE  attempts = 0 /\ disk # NoOrder /\ cancelBeforeSend'
<1>1. up /\ mem # NoOrder /\ Submitting /\ ~Placing /\ cancelBeforeSend'
  BY DEF Cancel, OrderKnown
<1>2. PICK c \in Callers : at[c] \in SubmittingSteps /\ at[c] \notin PlacingSteps
  BY <1>1 DEF Submitting, Placing
<1>3. at[c] # "intending" /\ disk # NoOrder
  BY <1>1, <1>2 DEF IInv, RecordInv, JournalInv, SendInv, LockInv, Locked
<1>4. at[c] \in Fresh \cup Judging \cup UnsentCodes
  BY <1>2, <1>3, Steps DEF SubmittingSteps
<1> QED BY <1>1, <1>3, <1>4 DEF IInv, SendInv, AttemptInv

LEMMA StepKeepsCancelInv ==
  ASSUME IInv, CancelInv, Next
  PROVE  CancelInv'
<1>1. disk # NoOrder => disk' # NoOrder
  BY KnownStays
<1>2. ASSUME NEW c \in Callers, Submit(c) \/ SubmitStep(c) \/ Abandon(c), canceledFirst'
      PROVE  CancelInv'
  <2>1. /\ canceledFirst
        /\ \A d \in Callers : d # c => at'[d] = at[d]
        /\ at'[c] \in Fresh \cup Judging =>
             \/ at[c] = "intending"
             \/ at[c] \in Fresh \cup Judging /\ cancelBeforeSend' = cancelBeforeSend
        /\ cancelBeforeSend' = cancelBeforeSend \/ at[c] \in Active \cup {"intending"}
        /\ attempts' = attempts \/ (at[c] = "deciding" /\ ~cancelBeforeSend)
    BY <1>2, SubmitMoves
  <2>2. attempts = 0 /\ disk # NoOrder
        /\ \A d \in Callers : at[d] \in Fresh \cup Judging => cancelBeforeSend
    BY <2>1 DEF CancelInv
  <2>3. at[c] # "intending"
    <3>1. at[c] = "intending" => up /\ mem = NoOrder
      BY DEF IInv, SendInv, LockInv, Locked
    <3> QED BY <2>2, <3>1 DEF IInv, RecordInv, JournalInv
  <2>4. attempts' = 0
    BY <2>1, <2>2, Steps
  <2>5. ASSUME NEW d \in Callers, at'[d] \in Fresh \cup Judging PROVE cancelBeforeSend'
    <3>1. CASE d = c
      BY <2>1, <2>2, <2>3, <2>5, <3>1
    <3>2. CASE d # c
      <4>1. at[d] \in Fresh \cup Judging /\ at[d] \in Active
        BY <2>1, <2>5, <3>2, Steps
      <4>2. at[c] \notin Active
        BY <3>2, <4>1 DEF IInv, SendInv, LockInv
      <4> QED BY <2>1, <2>2, <2>3, <4>1, <4>2
    <3> QED BY <3>1, <3>2
  <2> QED BY <1>1, <2>2, <2>4, <2>5 DEF CancelInv
<1>3. CASE Cancel
  <2>1. UNCHANGED <<at, attempts, disk>> /\ (cancelBeforeSend => cancelBeforeSend')
    BY <1>3 DEF Cancel, CancelFrame
  <2>2. CASE canceledFirst' = canceledFirst
    BY <2>1, <2>2 DEF CancelInv
  <2>3. CASE canceledFirst' # canceledFirst
    BY <1>3, <2>1, <2>3, CancelFindsUnsent DEF CancelInv
  <2> QED BY <2>2, <2>3
<1>4. CASE \/ CancelStep \/ OnVenueEvent \/ ReconStep
           \/ WriteUnjournalled \/ GraceElapses("unknown") \/ GraceElapses("change")
           \/ EngageKill \/ RecordKill \/ EngageKillElsewhere \/ KillLoop
           \/ VenueTakesRequest \/ RequestLost \/ CancelArrives \/ VenueActs \/ VenuePurges
           \/ Start
  <2> USE DEF sendVars, historyVars
  <2>1. UNCHANGED <<at, attempts, cancelBeforeSend, canceledFirst>>
    <3>1. CASE CancelStep \/ OnVenueEvent
      BY <3>1 DEF CancelStep, RequestCancel, CallCancel, RecordCancelAnswer, OnVenueEvent,
         CancelFrame
    <3>2. CASE ReconStep
      BY <3>2 DEF ReconStep, ListOrders, ReconcileOrder, NeverSent, AskVenue, JudgeAnswer,
         SyncWithVenue, Restate, ResolveNotFound, ProtectiveCancel, JudgeLastAnswer,
         JudgeAgain, DismissOrder, FindOrphans, SweepFills, ReconFrame
    <3>3. CASE WriteUnjournalled \/ GraceElapses("unknown") \/ GraceElapses("change") \/ Start
      BY <3>3 DEF WriteUnjournalled, GraceElapses, Start, StartFrame
    <3>4. CASE EngageKill \/ RecordKill \/ EngageKillElsewhere \/ KillLoop
      BY <3>4 DEF EngageKill, RecordKill, EngageKillElsewhere, KillLoop
    <3>5. CASE VenueTakesRequest \/ RequestLost \/ CancelArrives \/ VenueActs \/ VenuePurges
      BY <3>5 DEF VenueTakesRequest, RequestLost, CancelArrives, VenueActs, VenuePurges, External
    <3> QED BY <1>4, <3>1, <3>2, <3>3, <3>4, <3>5
  <2> QED BY <1>1, <2>1 DEF CancelInv
<1>5. CASE Crash
  <2>1. /\ \A c \in Callers : at'[c] = "idle"
        /\ UNCHANGED <<attempts, disk, canceledFirst>>
    BY <1>5 DEF Crash, historyVars
  <2>2. "idle" \notin Fresh \cup Judging
    BY Steps
  <2> QED BY <2>1, <2>2 DEF CancelInv
<1>6. ~canceledFirst' => CancelInv'
  BY DEF CancelInv
<1> QED BY <1>2, <1>3, <1>4, <1>5, <1>6 DEF Next

\* Once a cancel has been left to the send path, the venue is never called for that order:
\* the flag is put up by the cancel and kept until the send has looked at it, whatever other
\* calls return, give up or begin, and a restart sends nothing (cancel, _send, submit).
THEOREM CancelBeforeSendIsKept == Spec => []CancelBeforeSendHolds
<1>1. Init => CancelInv
  BY DEF Init, CancelInv
<1>2. IInv /\ CancelInv /\ [Next]_vars => CancelInv'
  <2> SUFFICES ASSUME IInv, CancelInv, [Next]_vars PROVE CancelInv'
    OBVIOUS
  <2>1. CASE UNCHANGED vars
    BY <2>1 DEF vars, recordVars, sendVars, historyVars, CancelInv
  <2> QED BY <2>1, StepKeepsCancelInv
<1>3. CancelInv => CancelBeforeSendHolds
  BY DEF CancelInv, CancelBeforeSendHolds
<1> QED BY <1>1, <1>2, <1>3, Invariance, PTL DEF Spec
===============================================================================
