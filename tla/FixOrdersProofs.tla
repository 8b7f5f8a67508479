---------------------------- MODULE FixOrdersProofs ----------------------------
(***************************************************************************)
(* Proofs for FixOrders, for any number of callers and operators and every *)
(* bound on fills, busts, messages under way, calls and troubles.          *)
(*                                                                         *)
(* At most one NewOrderSingle leaves for a client order id.  The row of    *)
(* the order is what keeps a second send away, so it must outlive the      *)
(* first.  One caller at most has written the row and not yet sent or      *)
(* given up (Unsent); only that caller may delete the row, and then        *)
(* nothing was sent (RowInv).  No report, query, release, disconnect or    *)
(* crash makes the row vanish, which is said once: a step that keeps the   *)
(* row, counts no send and starts none keeps the invariant (QuietStep).    *)
(*                                                                         *)
(* Nothing the venue tells is forgotten.  Three invariants.  DueInv: a     *)
(* fill that was stored and not taken yet is in the subscriber's queue or  *)
(* among the events of the report in hand.  TrafficInv: an ExecID names    *)
(* one report, however often it is sent, a bust names an execution before  *)
(* it, and a report that a bust ahead of it in the queue takes back was    *)
(* there before.  RecordsInv: every message that was passed over is on     *)
(* record or halts the order, and a bust that was stored has marked its    *)
(* fill, or the order is halted for it.  The events are put back and       *)
(* filtered in sequences, so lemmas about sequences come first.            *)
(*                                                                         *)
(* What the row has filled accounts for the fills that are booked.  The    *)
(* row is written from the venue's totals, so AccountInv keeps, beside the *)
(* state, the fills that stood after each ExecID (HistoryIs) and how far   *)
(* the session has read (ReadUpTo): the books are the fills that stood     *)
(* there, fewer only if something was gap-filled away or halted the order  *)
(* (BooksAgree).  A bust that went unread, or came after a gap, excuses    *)
(* the row for good (Excused, ExcusedStays).                               *)
(***************************************************************************)
EXTENDS FixOrders, SequenceTheorems, FiniteSetTheorems, Induction, TLAPS

Unsent == {"sending", "deleting"}
Settled == {"idle", "checked", "halted", "duplicate", "waiting", "notSent", "ambiguous",
            "rejected", "acked"}

\* A row is told from NoRow by having a field that NoRow has not.
Shapes ==
  /\ "row" \in DOMAIN store
  /\ "news" \in DOMAIN past
  /\ Known => "wire" \in DOMAIN store.row
  /\ place \in [Callers -> Unsent \cup Settled]

RowInv ==
  /\ past.news \in {0, 1}
  /\ past.news = 1 => Known
  /\ \A c \in Callers : place[c] \in Unsent => Known /\ past.news = 0
  /\ \A c, d \in Callers : place[c] \in Unsent /\ place[d] \in Unsent => c = d

SendInv == Shapes /\ RowInv

\* What almost every step does: the row stays, nothing is sent, nobody begins to send.
RowStays ==
  /\ "row" \in DOMAIN store'
  /\ Known => Known'
  /\ Known' => "wire" \in DOMAIN store'.row
SendsNothing == "news" \in DOMAIN past' /\ past'.news = past.news
NobodyBegins ==
  /\ place' \in [Callers -> Unsent \cup Settled]
  /\ \A c \in Callers : place'[c] \in Unsent => place[c] \in Unsent
Quiet == RowStays /\ SendsNothing /\ NobodyBegins

LEMMA QuietStep ==
  ASSUME SendInv, Quiet
  PROVE  SendInv'
<1>1. Shapes'
  BY DEF SendInv, Shapes, Quiet, RowStays, SendsNothing, NobodyBegins
<1>2. past'.news = past.news
  BY DEF Quiet, SendsNothing
<1>3. \A c \in Callers : place'[c] \in Unsent => place[c] \in Unsent
  BY DEF Quiet, NobodyBegins
<1>4. Known => Known'
  BY DEF Quiet, RowStays
<1>5. RowInv'
  <2> USE <1>2, <1>3, <1>4 DEF SendInv, RowInv
  <2>1. past'.news \in {0, 1} /\ (past'.news = 1 => Known')
    OBVIOUS
  <2>2. \A c \in Callers : place'[c] \in Unsent => Known' /\ past'.news = 0
    OBVIOUS
  <2>3. \A c, d \in Callers : place'[c] \in Unsent /\ place'[d] \in Unsent => c = d
    OBVIOUS
  <2> QED BY <2>1, <2>2, <2>3
<1> QED BY <1>1, <1>5 DEF SendInv

LEMMA SameRow ==
  ASSUME Shapes, UNCHANGED store
  PROVE  RowStays
BY DEF Shapes, RowStays, Known

LEMMA SamePast ==
  ASSUME Shapes, UNCHANGED past
  PROVE  SendsNothing
BY DEF Shapes, SendsNothing

LEMMA SamePlace ==
  ASSUME Shapes, UNCHANGED place
  PROVE  NobodyBegins
BY DEF Shapes, NobodyBegins

\* A row that has a field NoRow has not is a row.
LEMMA RowIsNotNoRow ==
  ASSUME NEW row, "wire" \in DOMAIN row
  PROVE  row # NoRow
<1>1. DOMAIN NoRow = {"status"}
  BY DEF NoRow
<1> QED BY <1>1

\* PutOrder with a row of the shape of a row.
LEMMA RowIsPut ==
  ASSUME Shapes, NEW row,
         Known => "wire" \in DOMAIN row,
         ~Known => row = NoRow \/ "wire" \in DOMAIN row,
         "row" \in DOMAIN store', store'.row = row
  PROVE  RowStays
BY RowIsNotNoRow DEF Shapes, RowStays, Known

LEMMA InitSendInv == Init => SendInv
<1> SUFFICES ASSUME Init PROVE SendInv
  OBVIOUS
<1>1. store.row = NoRow /\ "row" \in DOMAIN store
  BY DEF Init, NoOrderRows
<1>2. past.news = 0 /\ "news" \in DOMAIN past
  BY DEF Init
<1>3. place = [c \in Callers |-> "idle"] /\ "idle" \in Settled /\ "idle" \notin Unsent
  BY DEF Init, Unsent, Settled
<1> QED BY <1>1, <1>2, <1>3 DEF SendInv, Shapes, RowInv, Known

-------------------------------------------------------------------------------
\* The steps of place_order.
LEMMA PlaceKeeps ==
  ASSUME SendInv, NEW c \in Callers, NEW pc \in Settled, Goes(c, pc),
         UNCHANGED <<store, past>>
  PROVE  SendInv'
<1>1. NobodyBegins
  BY DEF SendInv, Shapes, Goes, NobodyBegins, Unsent, Settled
<1> QED BY <1>1, SameRow, SamePast, QuietStep DEF SendInv, Quiet

LEMMA StartKeeps ==
  ASSUME SendInv, NEW c \in Callers, StartPlace(c)
  PROVE  SendInv'
<1>1. "checked" \in Settled /\ "halted" \in Settled
  BY DEF Settled
<1>2. Goes(c, "checked") \/ Goes(c, "halted")
  BY DEF StartPlace
<1> QED BY <1>1, <1>2, PlaceKeeps DEF StartPlace

LEMMA RememberKeeps ==
  ASSUME SendInv, NEW c \in Callers, Remember(c)
  PROVE  SendInv'
<1>1. CASE Known
  <2>1. Goes(c, "duplicate") /\ UNCHANGED <<store, past>>
    BY <1>1 DEF Remember, MayRemember
  <2>2. "duplicate" \in Settled
    BY DEF Settled
  <2> QED BY <2>1, <2>2, PlaceKeeps
<1>2. CASE ~Known
  <2>1. /\ store' = [[store EXCEPT !.row = NewRow] EXCEPT !.wires = @ \cup {0}]
        /\ place' = [place EXCEPT ![c] = "sending"]
        /\ UNCHANGED past
    BY <1>2 DEF Remember, MayRemember, LinkWireId, PutOrder, Goes
  <2>2. "row" \in DOMAIN store' /\ store'.row = NewRow
    BY <2>1 DEF SendInv, Shapes
  <2>3. "wire" \in DOMAIN NewRow
    BY DEF NewRow
  <2>4. Known'
    BY <2>2, <2>3, RowIsNotNoRow DEF Known
  <2>5. \A d \in Callers : place[d] \notin Unsent
    BY <1>2 DEF SendInv, RowInv
  <2>6. past.news = 0
    BY <1>2 DEF SendInv, RowInv
  <2>7. \A d \in Callers : place'[d] \in Unsent => d = c
    BY <2>1, <2>5 DEF SendInv, Shapes
  <2>8. place' \in [Callers -> Unsent \cup Settled]
    BY <2>1 DEF SendInv, Shapes, Unsent, Settled
  <2> QED BY <2>1, <2>2, <2>3, <2>4, <2>6, <2>7, <2>8 DEF SendInv, Shapes, RowInv
<1> QED BY <1>1, <1>2

LEMMA SendKeeps ==
  ASSUME SendInv, NEW c \in Callers, SendNew(c)
  PROVE  SendInv'
<1>0. place[c] \in Unsent /\ UNCHANGED store
  BY DEF SendNew, Unsent
<1>1. Known /\ past.news = 0 /\ \A d \in Callers : place[d] \in Unsent => d = c
  BY <1>0 DEF SendInv, RowInv
<1>2. CASE ready
  <2>1. /\ place' = [place EXCEPT ![c] = "waiting"]
        /\ past' = [past EXCEPT !.news = @ + 1]
    BY <1>2 DEF SendNew, Goes
  <2>2. past'.news = 1 /\ "news" \in DOMAIN past'
    BY <1>1, <2>1 DEF SendInv, Shapes
  <2>3. \A d \in Callers : place'[d] \notin Unsent
    BY <1>1, <2>1 DEF SendInv, Shapes, Unsent
  <2>4. Known' /\ Shapes'
    BY <1>0, <1>1, <2>1, <2>2 DEF SendInv, Shapes, Known, Unsent, Settled
  <2> QED BY <2>2, <2>3, <2>4 DEF SendInv, RowInv
<1>3. CASE ~ready
  <2>1. place' = [place EXCEPT ![c] = "deleting"] /\ UNCHANGED past
    BY <1>3 DEF SendNew, Goes
  <2>2. NobodyBegins
    BY <1>0, <2>1 DEF SendInv, Shapes, NobodyBegins, Unsent, Settled
  <2> QED BY <1>0, <2>1, <2>2, SameRow, SamePast, QuietStep DEF SendInv, Quiet
<1> QED BY <1>2, <1>3

LEMMA DeleteKeeps ==
  ASSUME SendInv, NEW c \in Callers, DeleteUnsent(c)
  PROVE  SendInv'
<1>1. place[c] \in Unsent
  BY DEF DeleteUnsent, Unsent
<1>2. past.news = 0 /\ \A d \in Callers : place[d] \in Unsent => d = c
  BY <1>1 DEF SendInv, RowInv
<1>3. /\ store' = [store EXCEPT !.row = NoRow, !.wires = {}]
      /\ place' = [place EXCEPT ![c] = "notSent"]
      /\ UNCHANGED past
  BY DEF DeleteUnsent, DeleteOrder, Goes
<1>4. \A d \in Callers : place'[d] \notin Unsent
  BY <1>2, <1>3 DEF SendInv, Shapes, Unsent
<1>5. "row" \in DOMAIN store' /\ store'.row = NoRow
  BY <1>3 DEF SendInv, Shapes
<1>6. place' \in [Callers -> Unsent \cup Settled]
  BY <1>3 DEF SendInv, Shapes, Unsent, Settled
<1> QED BY <1>2, <1>3, <1>4, <1>5, <1>6 DEF SendInv, Shapes, RowInv, Known

LEMMA PlacingKeeps == SendInv /\ Placing => SendInv'
<1> SUFFICES ASSUME SendInv, NEW c \in Callers,
                    \/ StartPlace(c) \/ Remember(c) \/ SendNew(c) \/ DeleteUnsent(c)
                    \/ LeaveUnsent(c) \/ PlaceTimesOut(c) \/ PlaceAgain(c)
             PROVE  SendInv'
  BY DEF Placing
<1>0. {"notSent", "ambiguous", "idle"} \subseteq Settled
  BY DEF Settled
<1>1. CASE StartPlace(c)
  BY <1>1, StartKeeps
<1>2. CASE Remember(c)
  BY <1>2, RememberKeeps
<1>3. CASE SendNew(c)
  BY <1>3, SendKeeps
<1>4. CASE DeleteUnsent(c)
  BY <1>4, DeleteKeeps
<1>5. CASE LeaveUnsent(c)
  BY <1>0, <1>5, PlaceKeeps DEF LeaveUnsent
<1>6. CASE PlaceTimesOut(c)
  BY <1>0, <1>6, PlaceKeeps DEF PlaceTimesOut
<1>7. CASE PlaceAgain(c)
  BY <1>0, <1>7, PlaceKeeps DEF PlaceAgain
<1> QED BY <1>1, <1>2, <1>3, <1>4, <1>5, <1>6, <1>7

-------------------------------------------------------------------------------
\* Requests about the order, and the event stream.
LEMMA AskingKeeps == SendInv /\ Asking => SendInv'
<1> SUFFICES ASSUME SendInv, Asking PROVE SendInv'
  OBVIOUS
<1>0. Shapes
  BY DEF SendInv
<1>1. ASSUME NEW kind, Change(kind) PROVE SendInv'
  <2> DEFINE row == NextInChain(store.row)
  <2>1. /\ Known /\ UNCHANGED <<place, past>>
        /\ store' = [[store EXCEPT !.row = row] EXCEPT !.wires = @ \cup {row.chain}]
    BY <1>1 DEF Change, LinkWireId, PutOrder
  <2>2. "wire" \in DOMAIN row
    BY <1>0, <2>1 DEF NextInChain, Shapes
  <2>3. "row" \in DOMAIN store' /\ store'.row = row
    BY <1>0, <2>1 DEF Shapes
  <2>4. RowStays
    BY <1>0, <2>1, <2>2, <2>3, RowIsPut
  <2> QED BY <1>0, <2>1, <2>4, SamePast, SamePlace, QuietStep DEF Quiet
<1>2. CASE UNCHANGED <<store, place, past>>
  BY <1>0, <1>2, SameRow, SamePast, SamePlace, QuietStep DEF Quiet
<1> QED BY <1>1, <1>2 DEF Asking, AskStatus, SendRequest, RequestEnds

LEMMA StreamKeeps == SendInv /\ (Subscribe \/ TakeEvent) => SendInv'
<1> SUFFICES ASSUME SendInv, Subscribe \/ TakeEvent PROVE SendInv'
  OBVIOUS
<1>1. UNCHANGED <<store, place>>
  BY DEF Subscribe, TakeEvent, callVars
<1>2. past' = past \/ \E event : past' = [past EXCEPT !.due = @ \ {event}]
  BY DEF Subscribe, TakeEvent
<1>3. SendsNothing
  BY <1>2 DEF SendInv, Shapes, SendsNothing
<1> QED BY <1>1, <1>3, SameRow, SamePlace, QuietStep DEF SendInv, Quiet

-------------------------------------------------------------------------------
\* What is read from the venue.
LEMMA QuarantineKeepsRow ==
  ASSUME Shapes, NEW entry, store' = Quarantine(store, entry)
  PROVE  RowStays
BY DEF Shapes, RowStays, Quarantine, Known

\* Whatever a report says, it makes no row vanish and makes none.
LEMMA ReportKeepsShape ==
  ASSUME NEW row, NEW r, row # NoRow => "wire" \in DOMAIN row
  PROVE  /\ row # NoRow => "wire" \in DOMAIN Preserved(row, r)
         /\ row = NoRow => Preserved(row, r) = NoRow
<1>1. row = NoRow => Updated(row, r) = NoRow
  BY DEF Updated
<1>2. row # NoRow => "wire" \in DOMAIN Updated(row, r)
  BY DEF Updated
<1>3. row = NoRow => ~TotalDiffers(row, r)
  BY DEF TotalDiffers
<1> QED BY <1>1, <1>2, <1>3 DEF Preserved

LEMMA StatusKeepsShape ==
  ASSUME NEW row, NEW status, row # NoRow => "wire" \in DOMAIN row
  PROVE  /\ row # NoRow => "wire" \in DOMAIN WithStatus(row, status)
         /\ row # NoRow => "wire" \in DOMAIN Forgotten(row)
         /\ row = NoRow => WithStatus(row, status) = NoRow /\ Forgotten(row) = NoRow
BY DEF WithStatus, Forgotten

LEMMA ApplyReportKeeps == SendInv /\ ApplyReport => SendInv'
<1> SUFFICES ASSUME SendInv, ApplyReport PROVE SendInv'
  OBVIOUS
<1> DEFINE row == Preserved(store.row, Now)
<1>0. Shapes
  BY DEF SendInv
<1>1. PICK id, execution, bust, quarantine :
        store' = RecordReport(store, row, id, execution, bust, quarantine)
  BY DEF ApplyReport, Commit
<1>2. "row" \in DOMAIN store' /\ store'.row = row
  BY <1>0, <1>1 DEF RecordReport, Shapes
<1>3. /\ Known => "wire" \in DOMAIN row
      /\ ~Known => row = NoRow
  BY <1>0, ReportKeepsShape DEF Shapes, Known
<1>4. RowStays
  BY <1>0, <1>2, <1>3, RowIsPut
<1>5. UNCHANGED place /\ past' = [past EXCEPT !.due = @ \cup Range(FillOf(Now))]
  BY DEF ApplyReport, Commit, callVars
<1>6. SendsNothing
  BY <1>0, <1>5 DEF Shapes, SendsNothing
<1> QED BY <1>0, <1>4, <1>5, <1>6, SamePlace, QuietStep DEF Quiet

LEMMA ApplyStatusKeeps == SendInv /\ ApplyStatus => SendInv'
<1> SUFFICES ASSUME SendInv, ApplyStatus PROVE SendInv'
  OBVIOUS
<1>0. Shapes /\ UNCHANGED <<place, past>>
  BY DEF SendInv, ApplyStatus
<1>1. \/ \E entry : store' = Quarantine(store, entry)
      \/ store' = PutOrder(store, Forgotten(store.row))
      \/ store' = PutOrder(store, WithStatus(store.row, Now.status))
  BY DEF ApplyStatus
<1>2. ASSUME NEW row \in {Forgotten(store.row), WithStatus(store.row, Now.status)},
             store' = PutOrder(store, row)
      PROVE  RowStays
  <2>1. "row" \in DOMAIN store' /\ store'.row = row
    BY <1>0, <1>2 DEF PutOrder, Shapes
  <2>2. /\ Known => "wire" \in DOMAIN row
        /\ ~Known => row = NoRow
    BY <1>0, <1>2, StatusKeepsShape DEF Shapes, Known
  <2> QED BY <1>0, <2>1, <2>2, RowIsPut
<1>3. RowStays
  BY <1>0, <1>1, <1>2, QuarantineKeepsRow
<1> QED BY <1>0, <1>3, SamePast, SamePlace, QuietStep DEF Quiet

LEMMA PublishKeeps == SendInv /\ Publish => SendInv'
<1> SUFFICES ASSUME SendInv, Publish PROVE SendInv'
  OBVIOUS
<1>0. Shapes /\ UNCHANGED store
  BY DEF SendInv, Publish
<1>1. past' = [past EXCEPT !.passed = @ \cup {Now}]
  BY DEF Publish, Passed
<1>2. SendsNothing
  BY <1>0, <1>1 DEF Shapes, SendsNothing
<1>3. UNCHANGED place \/ Answered(Now)
  BY DEF Publish
<1>4. ASSUME Answered(Now) PROVE NobodyBegins
  BY <1>0, <1>4 DEF Answered, Shapes, NobodyBegins, Unsent, Settled
<1>5. NobodyBegins
  BY <1>0, <1>3, <1>4, SamePlace
<1> QED BY <1>0, <1>2, <1>5, SameRow, QuietStep DEF Quiet

LEMMA ReaderKeeps == SendInv /\ Reader => SendInv'
<1> SUFFICES ASSUME SendInv, Reader PROVE SendInv'
  OBVIOUS
<1>0. Shapes
  BY DEF SendInv
<1>1. ASSUME UNCHANGED <<store, place, past>> PROVE SendInv'
  BY <1>0, <1>1, SameRow, SamePast, SamePlace, QuietStep DEF Quiet
<1>2. ASSUME NEW entry, store' = Quarantine(store, entry), UNCHANGED <<place, past>>
      PROVE  SendInv'
  BY <1>0, <1>2, QuarantineKeepsRow, SamePast, SamePlace, QuietStep DEF Quiet
<1>3. CASE DropRepeat
  BY <1>1, <1>3 DEF DropRepeat, Commit, callVars
<1>4. CASE QuarantineReport \/ QuarantineConflict
  BY <1>2, <1>4 DEF QuarantineReport, QuarantineConflict, Commit, callVars
<1>5. CASE OnCancelReject
  BY <1>1, <1>5 DEF OnCancelReject
<1>6. CASE OnBusinessReject
  <2>1. NobodyBegins
    BY <1>0, <1>6 DEF OnBusinessReject, Shapes, NobodyBegins, Unsent, Settled
  <2>2. UNCHANGED <<store, past>>
    BY <1>6 DEF OnBusinessReject
  <2> QED BY <1>0, <2>1, <2>2, SameRow, SamePast, QuietStep DEF Quiet
<1> QED BY <1>3, <1>4, <1>5, <1>6, ApplyReportKeeps, ApplyStatusKeeps, PublishKeeps DEF Reader

-------------------------------------------------------------------------------
\* Faults, operators and the venue.
LEMMA FaultsKeep == SendInv /\ Faults => SendInv'
<1> SUFFICES ASSUME SendInv, Faults PROVE SendInv'
  OBVIOUS
<1>0. Shapes
  BY DEF SendInv
<1>1. ASSUME UNCHANGED store, SendsNothing, NobodyBegins PROVE SendInv'
  BY <1>0, <1>1, SameRow, QuietStep DEF Quiet
<1>2. ASSUME RowStays, UNCHANGED <<place, past>> PROVE SendInv'
  BY <1>0, <1>2, SamePast, SamePlace, QuietStep DEF Quiet
<1>3. CASE SessionDown
  <2>1. NobodyBegins
    BY <1>0, <1>3 DEF SessionDown, Shapes, NobodyBegins, Unsent, Settled
  <2> QED BY <1>0, <1>1, <1>3, <2>1, SamePast DEF SessionDown
<1>4. CASE SessionReady \/ GapFilledOut
  BY <1>0, <1>1, <1>4, SamePast, SamePlace DEF SessionReady, GapFilledOut, callVars
<1>5. ASSUME NEW ours, LoseUnread(ours) PROVE SendInv'
  <2>1. UNCHANGED place
    BY <1>5 DEF LoseUnread, callVars
  <2>2. CASE Quietly(ours)
    <3>1. UNCHANGED store /\ past' = [past EXCEPT !.hidden = TRUE]
      BY <1>5, <2>2 DEF LoseUnread
    <3>2. SendsNothing
      BY <1>0, <3>1 DEF Shapes, SendsNothing
    <3> QED BY <1>0, <1>1, <2>1, <3>1, <3>2, SamePlace
  <2>3. CASE ~Quietly(ours)
    <3>1. store' = Quarantine(store, Entry(0, TRUE)) /\ UNCHANGED past
      BY <1>5, <2>3 DEF LoseUnread
    <3> QED BY <1>0, <1>2, <2>1, <3>1, QuarantineKeepsRow
  <2> QED BY <2>2, <2>3
<1>6. CASE GapFilledIn
  <2>1. UNCHANGED <<store, place>> /\ past' = [past EXCEPT !.gone = @ \cup {Now}]
    BY <1>6 DEF GapFilledIn, callVars
  <2>2. SendsNothing
    BY <1>0, <2>1 DEF Shapes, SendsNothing
  <2> QED BY <1>0, <1>1, <2>1, <2>2, SamePlace
<1>7. CASE Crash
  <2>1. UNCHANGED store /\ past' = [past EXCEPT !.due = {}]
    BY <1>7 DEF Crash
  <2>2. SendsNothing
    BY <1>0, <2>1 DEF Shapes, SendsNothing
  <2>3. NobodyBegins
    BY <1>0, <1>7 DEF Crash, Shapes, NobodyBegins, Unsent, Settled
  <2> QED BY <1>1, <2>1, <2>2, <2>3
<1>8. ASSUME NEW o \in Operators, Look(o) PROVE SendInv'
  BY <1>0, <1>1, <1>8, SamePast, SamePlace DEF Look, callVars
<1>9. ASSUME NEW o \in Operators, Release(o) PROVE SendInv'
  <2>1. store' = ReleaseQuarantine(store, o, looked[o]) /\ UNCHANGED <<place, past>>
    BY <1>9 DEF Release, callVars
  <2>2. RowStays
    BY <1>0, <2>1 DEF ReleaseQuarantine, Shapes, RowStays, Known
  <2> QED BY <1>2, <2>1, <2>2
<1> QED BY <1>3, <1>4, <1>5, <1>6, <1>7, <1>8, <1>9 DEF Faults

LEMMA VenueKeeps == SendInv /\ Venue => SendInv'
<1> SUFFICES ASSUME SendInv, Venue PROVE SendInv'
  OBVIOUS
<1>1. UNCHANGED <<store, callVars, past>>
  BY DEF Venue, VenueTakes, VenueFills, VenueBusts, VenueRepeats
<1>2. UNCHANGED <<store, place, past>>
  BY <1>1 DEF callVars
<1> QED BY <1>2, SameRow, SamePast, SamePlace, QuietStep DEF SendInv, Quiet

-------------------------------------------------------------------------------
LEMMA SendInvKept == SendInv /\ [Next]_vars => SendInv'
<1> SUFFICES ASSUME SendInv, [Next]_vars PROVE SendInv'
  OBVIOUS
<1>1. CASE Next
  BY <1>1, PlacingKeeps, AskingKeeps, StreamKeeps, ReaderKeeps, FaultsKeep, VenueKeeps
  DEF Next
<1>2. CASE UNCHANGED vars
  <2>1. UNCHANGED <<store, place, past>>
    BY <1>2 DEF vars
  <2> QED BY <2>1, SameRow, SamePast, SamePlace, QuietStep DEF SendInv, Quiet
<1> QED BY <1>1, <1>2

(* SendInv holds in every reachable state: the row is there once the order was *)
(* sent, and one caller at most is about to send it (place_order).             *)
THEOREM SendInvariant == Spec => []SendInv
<1> QED BY SendInvKept, InitSendInv, PTL DEF Spec

(* At most one NewOrderSingle leaves for a client order id, whoever asks, in *)
(* whatever order, and across crashes, disconnects and timeouts.             *)
THEOREM SentOnceAlways == Spec => []SentOnce
<1>1. SendInv => SentOnce
  BY DEF SendInv, RowInv, SentOnce
<1> QED BY <1>1, SendInvariant, PTL

-------------------------------------------------------------------------------
(* Nothing the session has moved past is forgotten.  First, sequences: which   *)
(* values they have when one grows at its end and is read from its head.       *)
IsSequence(q) == q \in Seq(Range(q))

LEMMA SequenceOver ==
  ASSUME NEW S, NEW q \in Seq(S)
  PROVE  IsSequence(q) /\ Range(q) \subseteq S /\ Len(q) \in Nat /\ DOMAIN q = 1..Len(q)
<1>1. Len(q) \in Nat /\ DOMAIN q = 1..Len(q) /\ q \in [1..Len(q) -> S]
  BY LenProperties
<1>2. q \in [1..Len(q) -> Range(q)]
  BY <1>1 DEF Range
<1>3. q \in Seq(Range(q))
  BY <1>1, <1>2, SeqDef
<1>4. Range(q) \subseteq S
  BY <1>1 DEF Range
<1> QED BY <1>1, <1>3, <1>4 DEF IsSequence

LEMMA EmptySequence == IsSequence(<<>>) /\ Range(<<>>) = {}
<1>1. <<>> \in Seq({})
  BY EmptySeq
<1>2. ASSUME NEW q \in Seq({}) PROVE IsSequence(q) /\ Range(q) = {}
  BY SequenceOver
<1> QED BY <1>1, <1>2

LEMMA LastValue ==
  ASSUME NEW q, IsSequence(q), NEW x
  PROVE  /\ IsSequence(Append(q, x))
         /\ Range(Append(q, x)) = Range(q) \cup {x}
         /\ Len(q) \in Nat /\ DOMAIN q = 1..Len(q)
         /\ DOMAIN Append(q, x) = 1..(Len(q) + 1)
         /\ Append(q, x)[Len(q) + 1] = x
         /\ \A i \in 1..Len(q) : Append(q, x)[i] = q[i]
         /\ Append(q, x) # <<>>
         /\ q # <<>> => Head(Append(q, x)) = Head(q)
<1> DEFINE S == Range(q) \cup {x}
           p == Append(q, x)
<1>1. q \in Seq(Range(q)) /\ q \in Seq(S)
  BY SeqMonotonic DEF IsSequence
<1>2. Len(q) \in Nat /\ DOMAIN q = 1..Len(q)
  BY <1>1, LenProperties
<1>3. p \in Seq(S) /\ Len(p) = Len(q) + 1 /\ p[Len(q) + 1] = x
  BY <1>1, <1>2
<1>4. \A i \in 1..Len(q) : p[i] = q[i]
  BY <1>1, <1>2
<1>5. IsSequence(p) /\ Range(p) \subseteq S /\ DOMAIN p = 1..(Len(q) + 1)
  <2> HIDE DEF S, p
  <2> QED BY <1>3, SequenceOver
<1>6. S \subseteq Range(p)
  <2> HIDE DEF p
  <2>1. x \in Range(p)
    BY <1>2, <1>3, <1>5 DEF Range
  <2>2. ASSUME NEW i \in DOMAIN q PROVE q[i] \in Range(p)
    BY <1>2, <1>4, <1>5, <2>2 DEF Range
  <2> QED BY <2>1, <2>2 DEF Range
<1>7. p # <<>> /\ (q # <<>> => Head(p) = Head(q))
  <2>1. Len(p) # 0
    BY <1>2, <1>3
  <2>2. ASSUME q # <<>> PROVE Head(p) = Head(q)
    <3>1. 1 \in 1..Len(q)
      BY <1>1, <1>2, <2>2, EmptySeq
    <3>2. p[1] = q[1]
      BY <1>4, <3>1
    <3> QED BY <3>2
  <2>3. p # <<>>
    <3> HIDE DEF p
    <3> QED BY <2>1, EmptySeq
  <2> QED BY <2>2, <2>3
<1> QED BY <1>2, <1>3, <1>4, <1>5, <1>6, <1>7

LEMMA FirstValue ==
  ASSUME NEW q, IsSequence(q), q # <<>>
  PROVE  /\ IsSequence(Tail(q))
         /\ Range(q) = {Head(q)} \cup Range(Tail(q))
         /\ Len(q) \in Nat \ {0} /\ DOMAIN q = 1..Len(q)
         /\ DOMAIN Tail(q) = 1..(Len(q) - 1)
         /\ Head(q) = q[1]
         /\ \A i \in 1..(Len(q) - 1) : Tail(q)[i] = q[i + 1]
<1> DEFINE t == Tail(q)
<1>1. q \in Seq(Range(q))
  BY DEF IsSequence
<1>2. Len(q) \in Nat \ {0} /\ DOMAIN q = 1..Len(q)
  BY <1>1, LenProperties, EmptySeq
<1>3. /\ t \in Seq(Range(q)) /\ Len(t) = Len(q) - 1
      /\ \A i \in 1..(Len(q) - 1) : t[i] = q[i + 1]
  BY <1>1, HeadTailProperties
<1>4. Head(q) = q[1]
  OBVIOUS
<1>5. IsSequence(t) /\ Range(t) \subseteq Range(q) /\ DOMAIN t = 1..(Len(q) - 1)
  <2> HIDE DEF t
  <2> QED BY <1>3, SequenceOver
<1>6. ASSUME NEW i \in DOMAIN q PROVE q[i] = Head(q) \/ q[i] \in Range(t)
  <2> HIDE DEF t
  <2>1. CASE i = 1
    BY <1>4, <2>1
  <2>2. CASE i # 1
    <3>1. i - 1 \in 1..(Len(q) - 1) /\ (i - 1) + 1 = i
      BY <1>2, <1>6, <2>2
    <3>2. t[i - 1] = q[i]
      BY <1>3, <3>1
    <3> QED BY <1>5, <3>1, <3>2 DEF Range
  <2> QED BY <2>1, <2>2
<1>7. q[1] \in Range(q)
  BY <1>2 DEF Range
<1>8. Range(q) = {Head(q)} \cup Range(t)
  <2> HIDE DEF t
  <2> QED BY <1>4, <1>5, <1>6, <1>7 DEF Range
<1> QED BY <1>2, <1>3, <1>4, <1>5, <1>8

LEMMA JoinedValues ==
  ASSUME NEW p, NEW q, IsSequence(p), IsSequence(q)
  PROVE  /\ IsSequence(p \o q)
         /\ Range(p \o q) = Range(p) \cup Range(q)
         /\ DOMAIN p \subseteq DOMAIN (p \o q)
         /\ \A i \in DOMAIN p : (p \o q)[i] = p[i]
<1> DEFINE S == Range(p) \cup Range(q)
           c == p \o q
<1>1. p \in Seq(S) /\ q \in Seq(S)
  BY SeqMonotonic DEF IsSequence
<1>2. /\ Len(p) \in Nat /\ DOMAIN p = 1..Len(p)
      /\ Len(q) \in Nat /\ DOMAIN q = 1..Len(q)
  <2> HIDE DEF S
  <2> QED BY <1>1, LenProperties
<1>3. /\ c \in Seq(S) /\ Len(c) = Len(p) + Len(q)
      /\ \A i \in 1..(Len(p) + Len(q)) : c[i] = IF i <= Len(p) THEN p[i] ELSE q[i - Len(p)]
  <2> HIDE DEF S
  <2> QED BY <1>1, ConcatProperties
<1>4. IsSequence(c) /\ Range(c) \subseteq S /\ DOMAIN c = 1..(Len(p) + Len(q))
  <2> HIDE DEF S, c
  <2> QED BY <1>3, SequenceOver
<1> HIDE DEF c
<1>5. ASSUME NEW i \in DOMAIN p PROVE i \in DOMAIN c /\ c[i] = p[i]
  BY <1>2, <1>3, <1>4, <1>5
<1>6. ASSUME NEW i \in DOMAIN q PROVE q[i] \in Range(c)
  <2>1. /\ Len(p) + i \in 1..(Len(p) + Len(q)) /\ ~(Len(p) + i <= Len(p))
        /\ (Len(p) + i) - Len(p) = i
    BY <1>2, <1>6
  <2>2. c[Len(p) + i] = q[i]
    BY <1>3, <2>1
  <2> QED BY <1>4, <2>1, <2>2 DEF Range
<1>7. S \subseteq Range(c)
  BY <1>5, <1>6 DEF Range
<1> QED BY <1>4, <1>5, <1>7 DEF c

\* WithoutHalt takes the halts out of a queue and nothing else, however long it is.
LEMMA OnlyHaltsAreLeftOut ==
  ASSUME NEW queue, IsSequence(queue)
  PROVE  IsSequence(WithoutHalt(queue)) /\ Range(WithoutHalt(queue)) = Range(queue) \ {Halt}
<1> DEFINE S == Seq(Range(queue))
           N == Len(queue)
           Step == [p \in (1..N) \X S |->
                      IF queue[p[1]] = Halt THEN p[2] ELSE Append(p[2], queue[p[1]])]
           kept == CHOOSE g : g = [n \in 0..N |->
                     CASE n = 0 -> <<>>
                       [] n > 0 /\ queue[n] = Halt -> g[n - 1]
                       [] OTHER -> Append(g[n - 1], queue[n])]
<1>1. N \in Nat /\ DOMAIN queue = 1..N /\ \A n \in 1..N : queue[n] \in Range(queue)
  <2>1. queue \in Seq(Range(queue))
    BY DEF IsSequence
  <2> QED BY <2>1, LenProperties DEF Range
<1>2. <<>> \in S
  BY EmptySeq
<1>3. Step \in [(1..N) \X S -> S]
  <2> SUFFICES ASSUME NEW n \in 1..N, NEW p \in S
               PROVE  (IF queue[n] = Halt THEN p ELSE Append(p, queue[n])) \in S
    OBVIOUS
  <2> QED BY <1>1, AppendProperties
<1>4. \A n \in 1..N, p \in S :
        Step[<<n, p>>] = IF queue[n] = Halt THEN p ELSE Append(p, queue[n])
  OBVIOUS
<1> HIDE DEF Step, S, N
<1>5. PICK g \in [0..N -> S] : g[0] = <<>> /\ \A n \in 1..N : g[n] = Step[<<n, g[n - 1]>>]
  <2>1. \E g : g \in Traces(S, <<>>, N, Step)
    BY <1>1, <1>2, <1>3, TraceExists
  <2> QED BY <2>1 DEF Traces
<1>6. \A n \in 1..N : g[n] = IF queue[n] = Halt THEN g[n - 1] ELSE Append(g[n - 1], queue[n])
  <2> TAKE n \in 1..N
  <2>1. n - 1 \in 0..N /\ g[n - 1] \in S
    BY <1>1, <1>5
  <2> QED BY <1>4, <1>5, <2>1
<1>7. g = [n \in 0..N |->
             CASE n = 0 -> <<>>
               [] n > 0 /\ queue[n] = Halt -> g[n - 1]
               [] OTHER -> Append(g[n - 1], queue[n])]
  <2>1. ASSUME NEW n \in 0..N
        PROVE  g[n] = CASE n = 0 -> <<>>
                        [] n > 0 /\ queue[n] = Halt -> g[n - 1]
                        [] OTHER -> Append(g[n - 1], queue[n])
    <3>1. CASE n = 0
      <4>1. ~(n > 0)
        BY <3>1
      <4> QED BY <1>5, <3>1, <4>1, Zenon
    <3>2. CASE n # 0
      <4>1. n \in 1..N /\ n > 0
        BY <1>1, <3>2
      <4>2. g[n] = IF queue[n] = Halt THEN g[n - 1] ELSE Append(g[n - 1], queue[n])
        BY <1>6, <4>1
      <4> QED BY <3>2, <4>1, <4>2, Zenon
    <3> QED BY <3>1, <3>2
  <2>2. g = [n \in 0..N |-> g[n]]
    BY <1>5
  <2> QED BY <2>1, <2>2, Zenon
<1>8. kept = [n \in 0..N |->
                CASE n = 0 -> <<>>
                  [] n > 0 /\ queue[n] = Halt -> kept[n - 1]
                  [] OTHER -> Append(kept[n - 1], queue[n])]
  BY <1>7, Zenon
<1>9. WithoutHalt(queue) = kept[N]
  BY DEF WithoutHalt, N
<1> HIDE DEF kept
<1> DEFINE Upto(n) == {queue[i] : i \in 1..n} \ {Halt}
           Good == {n \in Nat : kept[n] \in S /\ Range(kept[n]) = Upto(n)}
<1>10. 0 \in Good
  <2>1. kept[0] = <<>>
    <3>1. 0 \in 0..N /\ ~(0 > 0)
      BY <1>1
    <3> QED BY <1>8, <3>1, Zenon
  <2>2. Upto(0) = {}
    OBVIOUS
  <2> QED BY <1>2, <2>1, <2>2, EmptySequence
<1>11. ASSUME NEW n \in 0..(N - 1), n \in Good PROVE n + 1 \in Good
  <2>1. n + 1 \in 0..N /\ n + 1 \in 1..N /\ n + 1 # 0 /\ n + 1 > 0 /\ (n + 1) - 1 = n /\ n \in Nat
    BY <1>1
  <2>2. kept[n + 1] = IF queue[n + 1] = Halt THEN kept[n] ELSE Append(kept[n], queue[n + 1])
    BY <1>8, <2>1, Zenon
  <2>3. Upto(n + 1) = IF queue[n + 1] = Halt THEN Upto(n) ELSE Upto(n) \cup {queue[n + 1]}
    <3>1. 1..(n + 1) = (1..n) \cup {n + 1}
      BY <2>1
    <3> QED BY <3>1
  <2>4. IsSequence(kept[n])
    <3>1. kept[n] \in Seq(Range(queue))
      BY <1>11 DEF S
    <3> HIDE DEF Good
    <3> QED BY <3>1, SequenceOver
  <2>5. kept[n + 1] \in S
    <3>1. queue[n + 1] \in Range(queue) /\ kept[n] \in Seq(Range(queue))
      BY <1>1, <1>11, <2>1 DEF S
    <3> QED BY <2>2, <3>1, AppendProperties DEF S
  <2>6. Range(kept[n + 1]) = Upto(n + 1)
    <3>1. Range(kept[n]) = Upto(n)
      BY <1>11
    <3>2. Range(Append(kept[n], queue[n + 1])) = Range(kept[n]) \cup {queue[n + 1]}
      <4> HIDE DEF Good, Upto
      <4> QED BY <2>4, LastValue
    <3> HIDE DEF Upto, Good
    <3> QED BY <2>2, <2>3, <3>1, <3>2
  <2> QED BY <2>1, <2>5, <2>6
<1>12. \A n \in 0..N : n \in Good
  <2> HIDE DEF Good
  <2> QED BY <1>1, <1>10, <1>11, UpTo
<1>13. kept[N] \in Seq(Range(queue)) /\ Range(kept[N]) = Range(queue) \ {Halt}
  <2>1. N \in Good
    BY <1>1, <1>12
  <2>2. Range(queue) = {queue[i] : i \in 1..N}
    BY <1>1 DEF Range
  <2> QED BY <2>1, <2>2 DEF S
<1> QED BY <1>9, <1>13, SequenceOver

LEMMA OneValue ==
  ASSUME NEW x
  PROVE  IsSequence(<<x>>) /\ Range(<<x>>) = {x}
<1>1. <<x>> \in Seq({x}) /\ DOMAIN <<x>> = 1..1 /\ <<x>>[1] = x
  OBVIOUS
<1>2. ASSUME NEW q \in Seq({x}), DOMAIN q = 1..1, q[1] = x
      PROVE  IsSequence(q) /\ Range(q) = {x}
  <2>1. IsSequence(q)
    BY SequenceOver
  <2> QED BY <1>2, <2>1 DEF Range
<1> QED BY <1>1, <1>2

LEMMA FiniteSetInOrder ==
  ASSUME NEW S, IsFiniteSet(S)
  PROVE  IsSequence(SetToSeq(S))
<1>1. PICK n \in Nat : ExistsBijection(1..n, S)
  BY FS_NatBijection
<1>2. Cardinality(S) = n
  BY <1>1, FS_CountingElements
<1>3. PICK g : g \in Bijection(1..n, S)
  BY <1>1 DEF ExistsBijection
<1>4. g \in [1..n -> S] /\ IsInjective(g)
  BY <1>3 DEF Bijection, Injection, IsInjective
<1>5. SetToSeq(S) \in [1..n -> S]
  BY <1>2, <1>4 DEF SetToSeq
<1>6. SetToSeq(S) \in Seq(S)
  <2> DEFINE q == SetToSeq(S)
  <2> HIDE DEF q
  <2> QED BY <1>5, SeqDef DEF q
<1> QED BY <1>6, SequenceOver

-------------------------------------------------------------------------------
\* A fill that was stored since the process started is on its way to the order manager
\* until it was taken: in the queue, or among the events of the report in hand.
DueInv ==
  /\ "queue" \in DOMAIN stream /\ "due" \in DOMAIN past
  /\ IsSequence(stream.queue) /\ IsSequence(hand.events)
  /\ Halt \notin past.due
  /\ ~hand.busy => hand.events = <<>>
  /\ past.due \subseteq Range(stream.queue) \cup Range(hand.events)

SameDue == "due" \in DOMAIN past' /\ past'.due = past.due

LEMMA ToldAdds ==
  ASSUME DueInv, NEW events, IsSequence(events), stream' = Told(events)
  PROVE  /\ "queue" \in DOMAIN stream' /\ IsSequence(stream'.queue)
         /\ Range(stream.queue) \subseteq Range(stream'.queue)
         /\ Range(events) \ {Halt} \subseteq Range(stream'.queue)
<1> DEFINE more == IF stream.open THEN events ELSE WithoutHalt(events)
<1>1. IsSequence(more) /\ Range(events) \ {Halt} \subseteq Range(more)
  BY OnlyHaltsAreLeftOut
<1>2. stream' = [stream EXCEPT !.queue = stream.queue \o more]
  BY DEF Told
<1> HIDE DEF more
<1>3. "queue" \in DOMAIN stream' /\ stream'.queue = stream.queue \o more
  BY <1>2 DEF DueInv
<1>4. IsSequence(stream.queue)
  BY DEF DueInv
<1> QED BY <1>1, <1>3, <1>4, JoinedValues

\* Nothing is taken, stored or told.
LEMMA QuietDue ==
  ASSUME DueInv, SameDue, UNCHANGED <<stream, hand>>
  PROVE  DueInv'
BY DEF DueInv, SameDue

\* Something is told, and perhaps the report in hand with it.
LEMMA TellingDue ==
  ASSUME DueInv, SameDue, NEW events, IsSequence(events), stream' = Told(events),
         UNCHANGED hand \/ (hand' = NoHand /\ events = hand.events)
  PROVE  DueInv'
<1>1. /\ "queue" \in DOMAIN stream' /\ IsSequence(stream'.queue)
      /\ Range(stream.queue) \subseteq Range(stream'.queue)
      /\ Range(events) \ {Halt} \subseteq Range(stream'.queue)
  BY ToldAdds
<1>2. CASE UNCHANGED hand
  BY <1>1, <1>2 DEF DueInv, SameDue
<1>3. CASE hand' = NoHand /\ events = hand.events
  <2>1. hand'.events = <<>>
    BY <1>3 DEF NoHand
  <2>2. IsSequence(hand'.events) /\ Range(hand'.events) = {}
    BY <2>1, EmptySequence
  <2> QED BY <1>1, <1>3, <2>1, <2>2 DEF DueInv, SameDue
<1> QED BY <1>2, <1>3

\* A report is taken in hand.
LEMMA CommitDue ==
  ASSUME DueInv, ~hand.busy, UNCHANGED stream,
         NEW s, NEW events, IsSequence(events), NEW answers, Commit(s, events, answers),
         NEW new \in SUBSET Range(events), Halt \notin new,
         "due" \in DOMAIN past', past'.due = past.due \cup new
  PROVE  DueInv'
<1>1. hand'.busy = TRUE /\ hand'.events = events
  BY DEF Commit
<1>2. hand.events = <<>> /\ Range(hand.events) = {}
  BY EmptySequence DEF DueInv
<1> QED BY <1>1, <1>2 DEF DueInv

LEMMA ReportEvents ==
  ASSUME NEW r
  PROVE  /\ IsSequence(FillOf(r)) /\ IsSequence(FillOf(r) \o <<Halt>>)
         /\ IsSequence(EventsFor(r)) /\ IsSequence(<<Halt>>)
         /\ Range(FillOf(r)) \subseteq Range(FillOf(r) \o <<Halt>>)
         /\ Range(FillOf(r)) \subseteq Range(EventsFor(r))
         /\ Halt \notin Range(FillOf(r))
<1>1. IsSequence(<<Halt>>)
  BY OneValue
<1>2. IsSequence(FillOf(r)) /\ Halt \notin Range(FillOf(r))
  <2>1. CASE r.kind = "fill"
    <3>1. FillOf(r) = <<<<"fill", r.id>>>>
      BY <2>1 DEF FillOf
    <3>2. Halt # <<"fill", r.id>>
      BY DEF Halt
    <3> QED BY <3>1, <3>2, OneValue
  <2>2. CASE r.kind # "fill"
    BY <2>2, EmptySequence DEF FillOf
  <2> QED BY <2>1, <2>2
<1>3. IsSequence(FillOf(r) \o <<Halt>>) /\ Range(FillOf(r)) \subseteq Range(FillOf(r) \o <<Halt>>)
  BY <1>1, <1>2, JoinedValues
<1>4. IsSequence(EventsFor(r)) /\ Range(FillOf(r)) \subseteq Range(EventsFor(r))
  <2>1. CASE r.kind = "fill"
    <3>1. EventsFor(r) = FillOf(r)
      BY <2>1, Zenon DEF EventsFor
    <3> QED BY <1>2, <3>1
  <2>2. CASE r.kind = "bust"
    <3>1. EventsFor(r) = <<<<"bust", r.ref>>>>
      <4>1. r.kind # "fill"
        BY <2>2
      <4> QED BY <2>2, <4>1, Zenon DEF EventsFor
    <3>2. Range(FillOf(r)) = {}
      BY <2>2, EmptySequence DEF FillOf
    <3> QED BY <3>1, <3>2, OneValue
  <2>3. CASE r.kind # "fill" /\ r.kind # "bust"
    <3>1. EventsFor(r) = <<>>
      BY <2>3, Zenon DEF EventsFor
    <3>2. Range(FillOf(r)) = {}
      BY <2>3, EmptySequence DEF FillOf
    <3> QED BY <3>1, <3>2, EmptySequence
  <2> QED BY <2>1, <2>2, <2>3
<1> QED BY <1>1, <1>2, <1>3, <1>4

LEMMA SubscribeDue ==
  ASSUME DueInv, IsFiniteSet(DOMAIN store.execs), Subscribe
  PROVE  DueInv'
<1> DEFINE B == BustedExecutions(store)
           T == {<<"bust", id>> : id \in B}
           busts == SetToSeq(T)
<1>1. IsFiniteSet(T)
  <2>1. IsFiniteSet(B)
    BY FS_Subset DEF BustedExecutions
  <2> DEFINE f == [id \in B |-> <<"bust", id>>]
  <2> HIDE DEF B
  <2>2. f \in Surjection(B, T)
    BY DEF Surjection
  <2> HIDE DEF T, f
  <2> QED BY <2>1, <2>2, FS_Surjection
<1>2. stream' = [open |-> TRUE, queue |-> stream.queue \o busts]
  BY DEF Subscribe
<1>3. IsSequence(busts) /\ IsSequence(stream.queue)
  <2> HIDE DEF T
  <2> QED BY <1>1, FiniteSetInOrder DEF DueInv
<1> HIDE DEF busts
<1>4. "queue" \in DOMAIN stream' /\ stream'.queue = stream.queue \o busts
  BY <1>2
<1>5. IsSequence(stream'.queue) /\ Range(stream.queue) \subseteq Range(stream'.queue)
  BY <1>3, <1>4, JoinedValues
<1>6. UNCHANGED <<hand, past>>
  BY DEF Subscribe
<1> QED BY <1>4, <1>5, <1>6 DEF DueInv

LEMMA TakeDue ==
  ASSUME DueInv, TakeEvent
  PROVE  DueInv'
<1> DEFINE event == Head(stream.queue)
           rest == Tail(stream.queue)
<1>1. /\ IsSequence(rest)
      /\ Range(stream.queue) = {event} \cup Range(rest)
  BY FirstValue DEF TakeEvent, DueInv
<1>2. UNCHANGED hand
  BY DEF TakeEvent
<1>3. CASE event = Halt
  <2>1. stream' = [open |-> FALSE, queue |-> WithoutHalt(rest)] /\ UNCHANGED past
    BY <1>3 DEF TakeEvent, Leftovers
  <2> HIDE DEF rest
  <2>2. IsSequence(WithoutHalt(rest)) /\ Range(WithoutHalt(rest)) = Range(rest) \ {Halt}
    BY <1>1, OnlyHaltsAreLeftOut
  <2>3. "queue" \in DOMAIN stream' /\ stream'.queue = WithoutHalt(rest)
    BY <2>1
  <2> QED BY <1>1, <1>2, <1>3, <2>1, <2>2, <2>3 DEF DueInv
<1>4. CASE event # Halt
  <2>1. /\ stream' = [stream EXCEPT !.queue = rest]
        /\ past' = [past EXCEPT !.due = @ \ {event}]
    BY <1>4 DEF TakeEvent
  <2> HIDE DEF rest, event
  <2>2. "queue" \in DOMAIN stream' /\ stream'.queue = rest
    BY <2>1 DEF DueInv
  <2>3. "due" \in DOMAIN past' /\ past'.due = past.due \ {event}
    BY <2>1 DEF DueInv
  <2> QED BY <1>1, <1>2, <2>2, <2>3 DEF DueInv
<1> QED BY <1>3, <1>4

LEMMA ReaderDue ==
  ASSUME DueInv, Reader
  PROVE  DueInv'
<1>0. "due" \in DOMAIN past
  BY DEF DueInv
<1>1. ASSUME UNCHANGED past PROVE SameDue
  BY <1>0, <1>1 DEF SameDue
<1>2. ASSUME UNCHANGED past, ~hand.busy, NEW s, NEW events, IsSequence(events), NEW answers,
             Commit(s, events, answers)
      PROVE  DueInv'
  <2>1. PICK new \in SUBSET Range(events) : new = {}
    OBVIOUS
  <2>2. UNCHANGED stream /\ past'.due = past.due \cup new
    BY <1>2, <2>1 DEF Commit
  <2>3. "due" \in DOMAIN past' /\ Halt \notin new
    BY <1>0, <1>2, <2>1
  <2> QED BY <1>2, <2>2, <2>3, CommitDue
<1>3. CASE DropRepeat
  <2>1. ~hand.busy
    BY <1>3 DEF DropRepeat, ReadingReport, Reading
  <2> QED BY <1>2, <1>3, <2>1, EmptySequence DEF DropRepeat
<1>4. CASE QuarantineReport
  <2>1. ~hand.busy
    BY <1>4 DEF QuarantineReport, ReadingReport, Reading
  <2> QED BY <1>2, <1>4, <2>1, OneValue DEF QuarantineReport
<1>5. CASE QuarantineConflict
  <2>1. ~hand.busy
    BY <1>5 DEF QuarantineConflict, ReadingReport, Reading
  <2>2. IsSequence(FillOf(Now) \o <<Halt>>)
    BY ReportEvents
  <2> QED BY <1>2, <1>5, <2>1, <2>2 DEF QuarantineConflict
<1>6. CASE ApplyReport
  <2>1. ~hand.busy /\ past' = [past EXCEPT !.due = @ \cup Range(FillOf(Now))]
    BY <1>6 DEF ApplyReport, ReadingReport, Reading
  <2>2. "due" \in DOMAIN past' /\ past'.due = past.due \cup Range(FillOf(Now))
    BY <1>0, <2>1
  <2>3. PICK s, events :
          /\ Commit(s, events, TRUE)
          /\ events = FillOf(Now) \o <<Halt>> \/ events = EventsFor(Now)
    BY <1>6 DEF ApplyReport
  <2>4. IsSequence(events) /\ Range(FillOf(Now)) \subseteq Range(events)
    BY <2>3, ReportEvents
  <2>5. UNCHANGED stream /\ Halt \notin Range(FillOf(Now))
    BY <2>3, ReportEvents DEF Commit
  <2> QED BY <2>1, <2>2, <2>3, <2>4, <2>5, CommitDue
<1>7. CASE Publish
  <2>1. stream' = Told(hand.events) /\ hand' = NoHand
    BY <1>7 DEF Publish
  <2>2. past' = [past EXCEPT !.passed = @ \cup {Now}]
    BY <1>7 DEF Publish, Passed
  <2>3. SameDue
    BY <1>0, <2>2 DEF SameDue
  <2>4. IsSequence(hand.events)
    BY DEF DueInv
  <2> QED BY <2>1, <2>3, <2>4, TellingDue
<1>8. CASE ApplyStatus
  BY <1>1, <1>8, QuietDue DEF ApplyStatus
<1>9. CASE OnCancelReject
  <2>1. UNCHANGED <<hand, past>>
    BY <1>9 DEF OnCancelReject
  <2>2. UNCHANGED stream \/ stream' = Told(<<Rejection(Now.wire)>>)
    BY <1>9 DEF OnCancelReject
  <2> QED BY <1>1, <2>1, <2>2, OneValue, QuietDue, TellingDue
<1>10. CASE OnBusinessReject
  <2>1. UNCHANGED <<hand, past>>
    BY <1>10 DEF OnBusinessReject
  <2>2. UNCHANGED stream \/ stream' = Told(<<Rejection(0)>>)
    BY <1>10 DEF OnBusinessReject
  <2> QED BY <1>1, <2>1, <2>2, OneValue, QuietDue, TellingDue
<1> QED BY <1>3, <1>4, <1>5, <1>6, <1>7, <1>8, <1>9, <1>10 DEF Reader

LEMMA FaultsDue ==
  ASSUME DueInv, Faults
  PROVE  DueInv'
<1>0. "due" \in DOMAIN past
  BY DEF DueInv
<1>1. ASSUME UNCHANGED past PROVE SameDue
  BY <1>0, <1>1 DEF SameDue
<1>2. ASSUME UNCHANGED <<stream, hand, past>> PROVE DueInv'
  BY <1>1, <1>2, QuietDue
<1>3. CASE SessionDown \/ SessionReady \/ GapFilledOut
  BY <1>2, <1>3 DEF SessionDown, SessionReady, GapFilledOut
<1>4. ASSUME NEW ours, LoseUnread(ours) PROVE DueInv'
  <2>1. UNCHANGED hand
    BY <1>4 DEF LoseUnread
  <2>2. CASE Quietly(ours)
    <3>1. past' = [past EXCEPT !.hidden = TRUE] /\ UNCHANGED stream
      BY <1>4, <2>2 DEF LoseUnread
    <3>2. SameDue
      BY <1>0, <3>1 DEF SameDue
    <3> QED BY <2>1, <3>1, <3>2, QuietDue
  <2>3. CASE ~Quietly(ours)
    <3>1. UNCHANGED past /\ stream' = Told(<<Halt>>)
      BY <1>4, <2>3 DEF LoseUnread
    <3> QED BY <1>1, <2>1, <3>1, OneValue, TellingDue
  <2> QED BY <2>2, <2>3
<1>5. CASE GapFilledIn
  <2>1. UNCHANGED <<stream, hand>> /\ past' = [past EXCEPT !.gone = @ \cup {Now}]
    BY <1>5 DEF GapFilledIn
  <2>2. SameDue
    BY <1>0, <2>1 DEF SameDue
  <2> QED BY <2>1, <2>2, QuietDue
<1>6. CASE Crash
  <2>1. /\ hand' = NoHand /\ stream' = [open |-> FALSE, queue |-> <<>>]
        /\ past' = [past EXCEPT !.due = {}]
    BY <1>6 DEF Crash
  <2>2. /\ hand'.events = <<>> /\ stream'.queue = <<>> /\ "queue" \in DOMAIN stream'
        /\ "due" \in DOMAIN past' /\ past'.due = {}
    BY <1>0, <2>1 DEF NoHand
  <2>3. IsSequence(hand'.events) /\ IsSequence(stream'.queue)
    BY <2>2, EmptySequence
  <2> QED BY <2>2, <2>3 DEF DueInv
<1>7. ASSUME NEW o \in Operators, Look(o) \/ Release(o) PROVE DueInv'
  BY <1>2, <1>7 DEF Look, Release
<1> QED BY <1>3, <1>4, <1>5, <1>6, <1>7 DEF Faults

LEMMA DueKept ==
  ASSUME DueInv, IsFiniteSet(DOMAIN store.execs), [Next]_vars
  PROVE  DueInv'
<1>0. "due" \in DOMAIN past
  BY DEF DueInv
<1>1. ASSUME UNCHANGED <<stream, hand, past>> PROVE DueInv'
  <2>1. SameDue
    BY <1>0, <1>1 DEF SameDue
  <2> QED BY <1>1, <2>1, QuietDue
<1>2. CASE Placing
  <2>1. PICK c \in Callers :
          \/ StartPlace(c) \/ Remember(c) \/ SendNew(c) \/ DeleteUnsent(c)
          \/ LeaveUnsent(c) \/ PlaceTimesOut(c) \/ PlaceAgain(c)
    BY <1>2 DEF Placing
  <2>2. CASE SendNew(c)
    <3>1. UNCHANGED <<stream, hand>> /\ (past' = past \/ past' = [past EXCEPT !.news = @ + 1])
      BY <2>2 DEF SendNew
    <3>2. SameDue
      BY <1>0, <3>1 DEF SameDue
    <3> QED BY <3>1, <3>2, QuietDue
  <2>3. CASE ~SendNew(c)
    BY <1>1, <2>1, <2>3
    DEF StartPlace, Remember, DeleteUnsent, LeaveUnsent, PlaceTimesOut, PlaceAgain
  <2> QED BY <2>2, <2>3
<1>3. CASE Asking
  BY <1>1, <1>3 DEF Asking, Change, AskStatus, SendRequest, RequestEnds
<1>4. CASE Venue
  BY <1>1, <1>4 DEF Venue, VenueTakes, VenueFills, VenueBusts, VenueRepeats
<1>5. CASE UNCHANGED vars
  BY <1>1, <1>5 DEF vars
<1> QED
  BY <1>2, <1>3, <1>4, <1>5, SubscribeDue, TakeDue, ReaderDue, FaultsDue DEF Next

-------------------------------------------------------------------------------
\* What the venue has said, wherever its messages are.  An ExecID names one report,
\* however often it is sent, a bust names an execution before it, and only an order that
\* was sent is filled.
Uttered == Range(toUs) \cup past.passed \cup past.gone
Behind == past.passed \cup past.gone
IsReport(m) == m.kind \in ReportKinds
Unreadable(m) == m.content = "bad"
MessageFields == {"kind", "id", "wire", "qty", "cum", "status", "ref", "resend", "content"}
Alike(m, n) == m.kind = n.kind /\ m.ref = n.ref /\ (Unreadable(m) <=> Unreadable(n))

WellSaid(m, last) ==
  /\ DOMAIN m = MessageFields
  /\ IsReport(m) => m.id \in 1..last
  /\ m.kind = "fill" => m.qty = 1
  /\ m.kind = "bust" => m.ref \in 1..last
Consistent(M, last, live) ==
  /\ last \in Nat /\ live \subseteq 1..last
  /\ \A m \in M : WellSaid(m, last)
  /\ \A m, n \in M : IsReport(m) /\ IsReport(n) /\ m.id = n.id => Alike(m, n)

\* A report that a bust ahead of it in the queue takes back is there a second time.
BustsFollow(queue, behind) ==
  \A j, k \in DOMAIN queue :
    j < k /\ queue[j].kind = "bust" /\ IsReport(queue[k]) /\ queue[k].id = queue[j].ref
    => \E n \in behind : IsReport(n) /\ n.id = queue[k].id

TrafficInv ==
  /\ "passed" \in DOMAIN past /\ "gone" \in DOMAIN past /\ "news" \in DOMAIN past
  /\ "status" \in DOMAIN venue /\ "execs" \in DOMAIN venue /\ "live" \in DOMAIN venue
  /\ "kind" \in DOMAIN ask /\ ask.kind # "new"
  /\ IsSequence(toUs) /\ IsSequence(toVenue)
  /\ Consistent(Uttered, venue.execs, venue.live)
  /\ BustsFollow(toUs, Behind)
  /\ \A m \in past.passed : IsReport(m)
  /\ hand.busy => toUs # <<>> /\ IsReport(Now)
  /\ \/ past.news = 1
     \/ /\ venue.status = "none" /\ venue.live = {}
        /\ \A r \in Range(toVenue) : r.kind # "new"
        /\ \A m \in Uttered : m.kind # "fill"

LEMMA FillsAndBustsAreReports == "fill" \in ReportKinds /\ "bust" \in ReportKinds
BY DEF ReportKinds

LEMMA FewerAreConsistent ==
  ASSUME NEW M, NEW N, N \subseteq M, NEW last, NEW live, Consistent(M, last, live)
  PROVE  Consistent(N, last, live)
BY DEF Consistent

LEMMA NewIsConsistent ==
  ASSUME NEW M, NEW last, NEW live, Consistent(M, last, live),
         NEW r, WellSaid(r, last + 1), r.id = last + 1,
         NEW left, left \subseteq 1..(last + 1)
  PROVE  Consistent(M \cup {r}, last + 1, left)
<1>1. last \in Nat /\ 1..last \subseteq 1..(last + 1)
  BY DEF Consistent
<1>2. \A m \in M : WellSaid(m, last) /\ WellSaid(m, last + 1)
  BY <1>1 DEF Consistent, WellSaid
<1>3. \A m \in M : IsReport(m) => m.id # r.id
  BY <1>1, <1>2 DEF WellSaid
<1>4. \A m, n \in M \cup {r} : IsReport(m) /\ IsReport(n) /\ m.id = n.id => Alike(m, n)
  BY <1>3 DEF Consistent, Alike
<1> QED BY <1>1, <1>2, <1>4 DEF Consistent

LEMMA AsideIsConsistent ==
  ASSUME NEW M, NEW last, NEW live, Consistent(M, last, live),
         NEW r, DOMAIN r = MessageFields, ~IsReport(r)
  PROVE  Consistent(M \cup {r}, last, live)
BY FillsAndBustsAreReports DEF Consistent, WellSaid, IsReport

SameReport(r, m) ==
  /\ DOMAIN r = MessageFields
  /\ r.id = m.id /\ r.kind = m.kind /\ r.ref = m.ref /\ r.qty = m.qty
  /\ Unreadable(r) <=> Unreadable(m)

LEMMA AgainIsConsistent ==
  ASSUME NEW M, NEW last, NEW live, Consistent(M, last, live),
         NEW m \in M, NEW r, SameReport(r, m)
  PROVE  Consistent(M \cup {r}, last, live)
<1>1. WellSaid(r, last)
  BY DEF Consistent, WellSaid, SameReport, IsReport
<1>2. \A n \in M : IsReport(n) /\ IsReport(r) /\ n.id = r.id => Alike(n, r) /\ Alike(r, n)
  BY DEF Consistent, SameReport, IsReport, Alike
<1>3. Alike(r, r)
  BY DEF Alike
<1> QED BY <1>1, <1>2, <1>3 DEF Consistent

-------------------------------------------------------------------------------
\* What a step that lets the venue say nothing does to the traffic: messages are read or
\* lost from the head of the queue, or all at once.
ReadsOn == /\ UNCHANGED venue
           /\ \/ UNCHANGED toUs
              \/ toUs # <<>> /\ toUs' = Tail(toUs)
              \/ toUs' = <<>>
PastKept ==
  /\ "passed" \in DOMAIN past' /\ "gone" \in DOMAIN past' /\ "news" \in DOMAIN past'
  /\ past.passed \subseteq past'.passed /\ past.gone \subseteq past'.gone
  /\ Behind' \subseteq Uttered
  /\ \A m \in past'.passed : IsReport(m)
  /\ past'.news = past.news \/ past'.news = 1
AskKept == "kind" \in DOMAIN ask' /\ ask'.kind # "new"
WireKept == /\ IsSequence(toVenue')
            /\ past'.news = 1 \/ \A r \in Range(toVenue') : r.kind # "new"
HandKept == hand'.busy => toUs' # <<>> /\ IsReport(Now')

LEMMA BustsStillFollow ==
  ASSUME IsSequence(toUs), BustsFollow(toUs, Behind), ReadsOn, Behind \subseteq Behind'
  PROVE  BustsFollow(toUs', Behind') /\ IsSequence(toUs') /\ Range(toUs') \subseteq Range(toUs)
<1>1. CASE UNCHANGED toUs
  BY <1>1 DEF BustsFollow
<1>2. CASE toUs' = <<>>
  BY <1>2, EmptySequence DEF BustsFollow
<1>3. CASE toUs # <<>> /\ toUs' = Tail(toUs)
  <2>1. /\ IsSequence(Tail(toUs)) /\ Range(Tail(toUs)) \subseteq Range(toUs)
        /\ Len(toUs) \in Nat \ {0} /\ DOMAIN toUs = 1..Len(toUs)
        /\ DOMAIN Tail(toUs) = 1..(Len(toUs) - 1)
        /\ \A i \in 1..(Len(toUs) - 1) : Tail(toUs)[i] = toUs[i + 1]
    BY <1>3, FirstValue
  <2> DEFINE t == Tail(toUs)
  <2> HIDE DEF t
  <2>2. SUFFICES ASSUME NEW j \in DOMAIN t, NEW k \in DOMAIN t, j < k, t[j].kind = "bust",
                        IsReport(t[k]), t[k].id = t[j].ref
                 PROVE  \E n \in Behind : IsReport(n) /\ n.id = t[k].id
    BY <1>3, <2>1 DEF BustsFollow, t
  <2>3. /\ j + 1 \in DOMAIN toUs /\ k + 1 \in DOMAIN toUs /\ j + 1 < k + 1
        /\ t[j] = toUs[j + 1] /\ t[k] = toUs[k + 1]
    BY <2>1, <2>2 DEF t
  <2> QED BY <2>2, <2>3 DEF BustsFollow
<1> QED BY <1>1, <1>2, <1>3 DEF ReadsOn

LEMMA ReadingTraffic ==
  ASSUME TrafficInv, ReadsOn, PastKept, AskKept, WireKept, HandKept
  PROVE  TrafficInv'
<1>1. Behind \subseteq Behind'
  BY DEF Behind, PastKept
<1>2. BustsFollow(toUs', Behind') /\ IsSequence(toUs') /\ Range(toUs') \subseteq Range(toUs)
  BY <1>1, BustsStillFollow DEF TrafficInv
<1>3. Uttered' \subseteq Uttered
  BY <1>2 DEF Uttered, Behind, PastKept
<1>4. venue' = venue
  BY DEF ReadsOn
<1>5. Consistent(Uttered', venue'.execs, venue'.live)
  BY <1>3, <1>4, FewerAreConsistent DEF TrafficInv
<1>6. \/ past'.news = 1
      \/ /\ venue'.status = "none" /\ venue'.live = {}
         /\ \A r \in Range(toVenue') : r.kind # "new"
         /\ \A m \in Uttered' : m.kind # "fill"
  BY <1>3, <1>4 DEF TrafficInv, PastKept, WireKept
<1>7. BustsFollow(toUs, Behind)'
  BY <1>2 DEF BustsFollow
<1> QED
  BY <1>2, <1>4, <1>5, <1>6, <1>7
  DEF TrafficInv, PastKept, AskKept, WireKept, HandKept

\* The venue says something: a new report, an old one again, or no report at all.
LEMMA SayingTraffic ==
  ASSUME TrafficInv, NEW v, NEW r, Says(v, r), UNCHANGED <<past, hand, ask>>, WireKept,
         "status" \in DOMAIN v, "execs" \in DOMAIN v, "live" \in DOMAIN v,
         Consistent(Uttered \cup {r}, v.execs, v.live),
         IsReport(r) => \/ r.id = venue.execs + 1
                        \/ \E n \in Behind : IsReport(n) /\ n.id = r.id,
         past.news = 1 \/ (v.status = "none" /\ v.live = {} /\ r.kind # "fill")
  PROVE  TrafficInv'
<1>1. /\ venue' = v /\ toUs' = Append(toUs, r)
      /\ IsSequence(toUs) /\ venue.execs \in Nat
  BY DEF Says, TrafficInv, Consistent
<1> DEFINE q == Append(toUs, r)
           last == Len(toUs) + 1
<1>2. /\ IsSequence(q) /\ Range(q) = Range(toUs) \cup {r}
      /\ Len(toUs) \in Nat /\ DOMAIN toUs = 1..Len(toUs) /\ DOMAIN q = 1..last
      /\ q[last] = r /\ \A i \in 1..Len(toUs) : q[i] = toUs[i]
      /\ q # <<>> /\ (toUs # <<>> => Head(q) = Head(toUs))
  BY <1>1, LastValue
<1> HIDE DEF q
<1>3. Uttered' = Uttered \cup {r} /\ Behind' = Behind
  BY <1>1, <1>2 DEF Uttered, Behind, q
<1>4. BustsFollow(q, Behind)
  <2> SUFFICES ASSUME NEW j \in DOMAIN q, NEW k \in DOMAIN q, j < k, q[j].kind = "bust",
                      IsReport(q[k]), q[k].id = q[j].ref
               PROVE  \E n \in Behind : IsReport(n) /\ n.id = q[k].id
    BY DEF BustsFollow
  <2>1. j \in 1..Len(toUs) /\ q[j] = toUs[j]
    BY <1>2
  <2>2. CASE k = last
    <3>1. q[k] = r
      BY <1>2, <2>2
    <3>2. toUs[j] \in Uttered
      BY <1>2, <2>1 DEF Uttered, Range
    <3>3. q[j].ref \in 1..venue.execs
      BY <2>1, <3>2 DEF TrafficInv, Consistent, WellSaid
    <3>4. r.id # venue.execs + 1
      BY <1>1, <3>1, <3>3
    <3> QED BY <3>1, <3>4
  <2>3. CASE k # last
    <3>1. k \in 1..Len(toUs) /\ q[k] = toUs[k]
      BY <1>2, <2>3
    <3> QED BY <1>2, <2>1, <3>1 DEF TrafficInv, BustsFollow
  <2> QED BY <2>2, <2>3
<1>5. BustsFollow(toUs, Behind)'
  BY <1>1, <1>3, <1>4 DEF BustsFollow, q
<1>6. hand'.busy => toUs' # <<>> /\ IsReport(Now')
  BY <1>1, <1>2 DEF TrafficInv, Now, q
<1>7. Consistent(Uttered', venue'.execs, venue'.live)
  BY <1>1, <1>3
<1>8. \/ past'.news = 1
      \/ /\ venue'.status = "none" /\ venue'.live = {}
         /\ \A m \in Range(toVenue') : m.kind # "new"
         /\ \A m \in Uttered' : m.kind # "fill"
  BY <1>1, <1>3 DEF TrafficInv, WireKept
<1>9. IsSequence(toVenue')
  BY DEF WireKept
<1>10. IsSequence(toUs')
  BY <1>1, <1>2 DEF q
<1> QED BY <1>1, <1>5, <1>6, <1>7, <1>8, <1>9, <1>10 DEF TrafficInv

LEMMA SameParts ==
  ASSUME TrafficInv
  PROVE  /\ UNCHANGED past => PastKept
         /\ UNCHANGED ask => AskKept
         /\ UNCHANGED <<past, toVenue>> => WireKept
         /\ UNCHANGED <<hand, toUs>> => HandKept
<1>1. UNCHANGED past => PastKept
  BY DEF TrafficInv, PastKept, Behind, Uttered
<1>2. UNCHANGED ask => AskKept
  BY DEF TrafficInv, AskKept
<1>3. UNCHANGED <<past, toVenue>> => WireKept
  BY DEF TrafficInv, WireKept
<1>4. UNCHANGED <<hand, toUs>> => HandKept
  <2> SUFFICES ASSUME UNCHANGED <<hand, toUs>> PROVE HandKept
    OBVIOUS
  <2>1. Now' = Now
    BY DEF Now
  <2> QED BY <2>1 DEF TrafficInv, HandKept
<1> QED BY <1>1, <1>2, <1>3, <1>4

LEMMA SamePastBut ==
  ASSUME TrafficInv,
         \/ \E due : past' = [past EXCEPT !.due = due]
         \/ \E hidden : past' = [past EXCEPT !.hidden = hidden]
         \/ toUs # <<>> /\ past' = [past EXCEPT !.gone = @ \cup {Now}]
         \/ toUs # <<>> /\ IsReport(Now) /\ past' = [past EXCEPT !.passed = @ \cup {Now}]
  PROVE  PastKept /\ (UNCHANGED toVenue => WireKept)
<1>1. toUs # <<>> => Now \in Range(toUs)
  BY FirstValue DEF TrafficInv, Now
<1>2. PastKept /\ past'.news = past.news
  <2>1. CASE \E due : past' = [past EXCEPT !.due = due]
    BY <2>1 DEF TrafficInv, PastKept, Behind, Uttered
  <2>2. CASE \E hidden : past' = [past EXCEPT !.hidden = hidden]
    BY <2>2 DEF TrafficInv, PastKept, Behind, Uttered
  <2>3. CASE toUs # <<>> /\ past' = [past EXCEPT !.gone = @ \cup {Now}]
    BY <1>1, <2>3 DEF TrafficInv, PastKept, Behind, Uttered
  <2>4. CASE toUs # <<>> /\ IsReport(Now) /\ past' = [past EXCEPT !.passed = @ \cup {Now}]
    BY <1>1, <2>4 DEF TrafficInv, PastKept, Behind, Uttered
  <2> QED BY <2>1, <2>2, <2>3, <2>4
<1>3. UNCHANGED toVenue => WireKept
  BY <1>2 DEF TrafficInv, WireKept
<1> QED BY <1>2, <1>3

LEMMA NobodySaysTraffic ==
  ASSUME TrafficInv, UNCHANGED <<past, ask, toVenue, hand, toUs, venue>>
  PROVE  TrafficInv'
BY SameParts, ReadingTraffic DEF ReadsOn

LEMMA CarriedWire ==
  ASSUME TrafficInv, NEW kind, NEW wire, Carry(kind, wire),
         past'.news = 1 \/ (kind # "new" /\ past'.news = past.news)
  PROVE  WireKept
<1> DEFINE r == [kind |-> kind, wire |-> wire]
<1>1. toVenue' = Append(toVenue, r)
  BY DEF Carry
<1>2. IsSequence(toVenue') /\ Range(toVenue') = Range(toVenue) \cup {r}
  BY <1>1, LastValue DEF TrafficInv
<1>3. r.kind = kind
  OBVIOUS
<1> QED BY <1>2, <1>3 DEF TrafficInv, WireKept

LEMMA ShortenedWire ==
  ASSUME TrafficInv, toVenue # <<>>, toVenue' = Tail(toVenue), UNCHANGED past
  PROVE  WireKept /\ (Head(toVenue).kind = "new" => past.news = 1)
<1>1. IsSequence(Tail(toVenue)) /\ Range(toVenue) = {Head(toVenue)} \cup Range(Tail(toVenue))
  BY FirstValue DEF TrafficInv
<1> QED BY <1>1 DEF TrafficInv, WireKept

LEMMA PlacingTraffic ==
  ASSUME SendInv, TrafficInv, Placing
  PROVE  TrafficInv'
<1>1. PICK c \in Callers :
        \/ StartPlace(c) \/ Remember(c) \/ SendNew(c) \/ DeleteUnsent(c)
        \/ LeaveUnsent(c) \/ PlaceTimesOut(c) \/ PlaceAgain(c)
  BY DEF Placing
<1>2. CASE SendNew(c) /\ ready
  <2>1. past' = [past EXCEPT !.news = @ + 1] /\ Carry("new", 0) /\ UNCHANGED <<ask, hand>>
    BY <1>2 DEF SendNew
  <2>2. past.news = 0
    BY <1>2 DEF SendNew, SendInv, RowInv, Unsent
  <2>3. PastKept /\ past'.news = 1
    BY <2>1, <2>2 DEF TrafficInv, PastKept, Behind, Uttered
  <2>4. ReadsOn /\ HandKept
    BY <2>1, SameParts DEF Carry, ReadsOn
  <2> QED BY <2>1, <2>3, <2>4, CarriedWire, SameParts, ReadingTraffic
<1>3. CASE ~(SendNew(c) /\ ready)
  BY <1>1, <1>3, NobodySaysTraffic
  DEF StartPlace, Remember, SendNew, DeleteUnsent, LeaveUnsent, PlaceTimesOut, PlaceAgain,
      netVars
<1> QED BY <1>2, <1>3

LEMMA AskingTraffic ==
  ASSUME TrafficInv, Asking
  PROVE  TrafficInv'
<1>1. UNCHANGED <<past, hand>>
  BY DEF Asking, Change, AskStatus, SendRequest, RequestEnds
<1>2. CASE UNCHANGED netVars /\ \E kind \in {"none", "cancel", "amend", "status"} : \E wire, answer :
             ask' = [kind |-> kind, wire |-> wire, answer |-> answer]
  <2>1. AskKept
    BY <1>2 DEF AskKept
  <2> QED BY <1>1, <1>2, <2>1, SameParts, ReadingTraffic DEF netVars, ReadsOn
<1>3. ASSUME NEW kind \in {"cancel", "amend"}, Change(kind) PROVE TrafficInv'
  BY <1>2, <1>3 DEF Change
<1>4. CASE AskStatus
  BY <1>2, <1>4 DEF AskStatus
<1>5. CASE RequestEnds
  BY <1>2, <1>5 DEF RequestEnds, NoAsk
<1>6. CASE SendRequest
  <2>1. CASE ready
    <3>1. ask' = [ask EXCEPT !.answer = "waiting"] /\ Carry(ask.kind, ask.wire)
      BY <1>6, <2>1 DEF SendRequest
    <3>2. AskKept
      BY <3>1 DEF TrafficInv, AskKept
    <3>3. WireKept
      BY <1>1, <3>1, CarriedWire DEF TrafficInv
    <3> QED BY <1>1, <3>1, <3>2, <3>3, SameParts, ReadingTraffic DEF Carry, ReadsOn
  <2>2. CASE ~ready
    BY <1>2, <1>6, <2>2 DEF SendRequest, NoAsk
  <2> QED BY <2>1, <2>2
<1> QED BY <1>3, <1>4, <1>5, <1>6 DEF Asking

LEMMA StreamTraffic ==
  ASSUME TrafficInv, Subscribe \/ TakeEvent
  PROVE  TrafficInv'
<1>1. UNCHANGED <<ask, toVenue, hand, toUs, venue>>
  BY DEF Subscribe, TakeEvent, callVars, netVars
<1>2. UNCHANGED past \/ \E due : past' = [past EXCEPT !.due = due]
  BY DEF Subscribe, TakeEvent
<1>3. PastKept /\ WireKept
  BY <1>1, <1>2, SameParts, SamePastBut
<1> QED BY <1>1, <1>3, SameParts, ReadingTraffic DEF ReadsOn

LEMMA ReaderTraffic ==
  ASSUME TrafficInv, Reader
  PROVE  TrafficInv'
<1>1. ASSUME NEW s, NEW events, NEW answers, Commit(s, events, answers), ReadingReport,
             UNCHANGED past \/ \E due : past' = [past EXCEPT !.due = due]
      PROVE  TrafficInv'
  <2>1. UNCHANGED <<ask, toVenue, toUs, venue>>
    BY <1>1 DEF Commit, callVars, netVars
  <2>2. toUs' # <<>> /\ IsReport(Now')
    BY <1>1, <2>1 DEF ReadingReport, Reading, IsReport, Now
  <2>3. HandKept
    BY <2>2 DEF HandKept
  <2>4. PastKept /\ WireKept
    BY <1>1, <2>1, SameParts, SamePastBut
  <2> QED BY <2>1, <2>3, <2>4, SameParts, ReadingTraffic DEF ReadsOn
<1>2. CASE DropRepeat
  BY <1>1, <1>2 DEF DropRepeat
<1>3. CASE QuarantineReport
  BY <1>1, <1>3 DEF QuarantineReport
<1>4. CASE QuarantineConflict
  BY <1>1, <1>4 DEF QuarantineConflict
<1>5. CASE ApplyReport
  <2>1. PICK s, events : Commit(s, events, TRUE)
    BY <1>5 DEF ApplyReport
  <2>2. ReadingReport /\ past' = [past EXCEPT !.due = past.due \cup Range(FillOf(Now))]
    BY <1>5 DEF ApplyReport
  <2> QED BY <1>1, <2>1, <2>2
<1>6. CASE Publish
  <2>1. /\ toUs # <<>> /\ IsReport(Now)
        /\ hand' = NoHand /\ toUs' = Tail(toUs)
        /\ past' = [past EXCEPT !.passed = @ \cup {Now}]
        /\ UNCHANGED <<toVenue, venue>>
    BY <1>6 DEF Publish, Passed, TrafficInv
  <2>2. HandKept
    BY <2>1 DEF HandKept, NoHand
  <2>3. ask' = ask \/ \E answer : ask' = [ask EXCEPT !.answer = answer]
    BY <1>6 DEF Publish, Answered
  <2>4. AskKept
    BY <2>3 DEF TrafficInv, AskKept
  <2>5. PastKept /\ WireKept
    BY <2>1, SamePastBut
  <2>6. ReadsOn
    BY <2>1 DEF ReadsOn
  <2> QED BY <2>2, <2>4, <2>5, <2>6, ReadingTraffic
<1>7. CASE ApplyStatus \/ OnCancelReject \/ OnBusinessReject
  <2>1. /\ ~hand.busy /\ toUs # <<>> /\ toUs' = Tail(toUs)
        /\ UNCHANGED <<toVenue, venue, hand, past>>
    BY <1>7 DEF ApplyStatus, OnCancelReject, OnBusinessReject, Reading
  <2>2. ask' = ask \/ \E answer : ask' = [ask EXCEPT !.answer = answer]
    BY <1>7 DEF ApplyStatus, OnCancelReject, OnBusinessReject, StatusAnswer
  <2>3. AskKept /\ HandKept
    BY <2>1, <2>2 DEF TrafficInv, AskKept, HandKept
  <2>4. ReadsOn
    BY <2>1 DEF ReadsOn
  <2> QED BY <2>1, <2>3, <2>4, SameParts, ReadingTraffic
<1> QED BY <1>2, <1>3, <1>4, <1>5, <1>6, <1>7 DEF Reader

LEMMA FaultsTraffic ==
  ASSUME TrafficInv, Faults
  PROVE  TrafficInv'
<1>1. CASE SessionDown
  <2>1. UNCHANGED <<past, toVenue, hand, toUs, venue>>
    BY <1>1 DEF SessionDown, netVars
  <2>2. ask' = ask \/ ask' = [ask EXCEPT !.answer = "failed"]
    BY <1>1 DEF SessionDown
  <2>3. AskKept
    BY <2>2 DEF TrafficInv, AskKept
  <2> QED BY <2>1, <2>3, SameParts, ReadingTraffic DEF ReadsOn
<1>2. CASE SessionReady
  BY <1>2, NobodySaysTraffic DEF SessionReady, callVars, netVars
<1>3. ASSUME NEW ours, LoseUnread(ours) PROVE TrafficInv'
  <2>1. ~hand.busy /\ toUs' = <<>> /\ UNCHANGED <<ask, toVenue, venue, hand>>
    BY <1>3 DEF LoseUnread, callVars
  <2>2. UNCHANGED past \/ \E hidden : past' = [past EXCEPT !.hidden = hidden]
    BY <1>3 DEF LoseUnread
  <2>3. PastKept /\ WireKept
    BY <2>1, <2>2, SameParts, SamePastBut
  <2>4. HandKept /\ ReadsOn
    BY <2>1 DEF HandKept, ReadsOn
  <2> QED BY <2>1, <2>3, <2>4, SameParts, ReadingTraffic
<1>4. CASE GapFilledOut
  <2>1. toVenue # <<>> /\ toVenue' = Tail(toVenue) /\ UNCHANGED <<past, ask, hand, toUs, venue>>
    BY <1>4 DEF GapFilledOut, callVars
  <2> QED BY <2>1, ShortenedWire, SameParts, ReadingTraffic DEF ReadsOn
<1>5. CASE GapFilledIn
  <2>1. /\ ~hand.busy /\ toUs # <<>> /\ toUs' = Tail(toUs)
        /\ past' = [past EXCEPT !.gone = @ \cup {Now}]
        /\ UNCHANGED <<toVenue, ask, hand, venue>>
    BY <1>5 DEF GapFilledIn, callVars
  <2>2. HandKept /\ ReadsOn
    BY <2>1 DEF HandKept, ReadsOn
  <2> QED BY <2>1, <2>2, SamePastBut, SameParts, ReadingTraffic
<1>6. CASE Crash
  <2>1. /\ ask' = NoAsk /\ hand' = NoHand /\ past' = [past EXCEPT !.due = {}]
        /\ UNCHANGED <<toVenue, toUs, venue>>
    BY <1>6 DEF Crash, netVars
  <2>2. AskKept /\ HandKept /\ ReadsOn
    BY <2>1 DEF AskKept, HandKept, ReadsOn, NoAsk, NoHand
  <2>3. PastKept /\ WireKept
    BY <2>1, SamePastBut
  <2> QED BY <2>2, <2>3, ReadingTraffic
<1>7. ASSUME NEW o \in Operators, Look(o) \/ Release(o) PROVE TrafficInv'
  BY <1>7, NobodySaysTraffic DEF Look, Release, callVars, netVars
<1> QED BY <1>1, <1>2, <1>3, <1>4, <1>5, <1>6, <1>7 DEF Faults

-------------------------------------------------------------------------------
\* The venue speaks.
LEMMA ReportIs ==
  ASSUME NEW kind, NEW id, NEW v
  PROVE  /\ DOMAIN Report(kind, id, v) = MessageFields
         /\ Report(kind, id, v).kind = kind /\ Report(kind, id, v).id = id
BY DEF Report, MessageFields

LEMMA FieldChanged ==
  ASSUME NEW r, DOMAIN r = MessageFields, NEW x
  PROVE  /\ SameReport([r EXCEPT !.wire = x], r)
         /\ SameReport([r EXCEPT !.resend = x], r)
         /\ DOMAIN [r EXCEPT !.ref = x] = MessageFields
         /\ [r EXCEPT !.ref = x].kind = r.kind /\ [r EXCEPT !.ref = x].id = r.id
         /\ [r EXCEPT !.ref = x].ref = x
         /\ DOMAIN [r EXCEPT !.content = x] = MessageFields
         /\ [r EXCEPT !.content = x].kind = r.kind /\ [r EXCEPT !.content = x].id = r.id
         /\ [r EXCEPT !.content = x].ref = r.ref /\ [r EXCEPT !.content = x].qty = r.qty
         /\ [r EXCEPT !.content = x].content = x
BY DEF MessageFields, SameReport, Unreadable

LEMMA VenueIs ==
  ASSUME TrafficInv, NEW status
  PROVE  /\ "status" \in DOMAIN Becomes(status) /\ "execs" \in DOMAIN Becomes(status)
         /\ "live" \in DOMAIN Becomes(status)
         /\ Becomes(status).status = status /\ Becomes(status).execs = venue.execs + 1
         /\ Becomes(status).live = venue.live
         /\ venue.execs \in Nat /\ venue.live \subseteq 1..venue.execs
         /\ venue.live \subseteq 1..(venue.execs + 1)
<1>1. venue.execs \in Nat /\ venue.live \subseteq 1..venue.execs
  BY DEF TrafficInv, Consistent
<1>2. 1..venue.execs \subseteq 1..(venue.execs + 1)
  BY <1>1
<1> DEFINE b == Becomes(status)
<1>3. b = [venue EXCEPT !.status = status, !.execs = venue.execs + 1]
  BY DEF Becomes, NextExec
<1> HIDE DEF b
<1>4. /\ DOMAIN b = DOMAIN venue /\ b.status = status
      /\ b.execs = venue.execs + 1 /\ b.live = venue.live
  BY <1>3 DEF TrafficInv
<1> QED BY <1>1, <1>2, <1>4 DEF TrafficInv, b

\* What it says is no report, a report under the next ExecID, or an old report again.
SpeaksAgain(r) ==
  \/ ~IsReport(r)
  \/ r.id = venue.execs + 1
  \/ \E m \in Behind : IsReport(m) /\ SameReport(r, m)
Speaks ==
  \E v, r : /\ Says(v, r) /\ SpeaksAgain(r)
            /\ v.execs = venue.execs \/ v.execs = venue.execs + 1

\* No report: an answer that carries no ExecID.
LEMMA AsideTraffic ==
  ASSUME TrafficInv, UNCHANGED <<past, hand, ask>>, WireKept,
         NEW v, NEW r, Says(v, r),
         "status" \in DOMAIN v, "execs" \in DOMAIN v, "live" \in DOMAIN v,
         v.execs = venue.execs, v.live = venue.live,
         DOMAIN r = MessageFields, ~IsReport(r), past.news = 1 \/ v.status = "none"
  PROVE  TrafficInv' /\ Speaks
<1>1. Consistent(Uttered \cup {r}, v.execs, v.live)
  BY AsideIsConsistent DEF TrafficInv
<1>2. r.kind # "fill"
  BY FillsAndBustsAreReports DEF IsReport
<1>3. past.news = 1 \/ (v.status = "none" /\ v.live = {} /\ r.kind # "fill")
  BY <1>2 DEF TrafficInv
<1>4. Speaks
  BY DEF Speaks, SpeaksAgain
<1> QED BY <1>1, <1>3, <1>4, SayingTraffic

\* A new report, under the next ExecID.
LEMMA NewTraffic ==
  ASSUME TrafficInv, UNCHANGED <<past, hand, ask>>, WireKept, past.news = 1,
         NEW v, NEW r, Says(v, r),
         "status" \in DOMAIN v, "execs" \in DOMAIN v, "live" \in DOMAIN v,
         v.execs = venue.execs + 1, v.live \subseteq 1..(venue.execs + 1),
         DOMAIN r = MessageFields, r.id = venue.execs + 1,
         r.kind = "fill" => r.qty = 1,
         r.kind = "bust" => r.ref \in 1..venue.execs
  PROVE  TrafficInv' /\ Speaks
<1>1. venue.execs \in Nat
  BY VenueIs
<1>2. WellSaid(r, venue.execs + 1)
  BY <1>1 DEF WellSaid
<1>3. Consistent(Uttered \cup {r}, v.execs, v.live)
  <2>1. Consistent(Uttered, venue.execs, venue.live)
    BY DEF TrafficInv
  <2>2. Consistent(Uttered \cup {r}, venue.execs + 1, v.live)
    BY <1>2, <2>1, NewIsConsistent
  <2> QED BY <2>2
<1>4. Speaks
  BY DEF Speaks, SpeaksAgain
<1> QED BY <1>3, <1>4, SayingTraffic

\* An old report again.
LEMMA AgainTraffic ==
  ASSUME TrafficInv, UNCHANGED <<past, hand, ask>>, WireKept,
         NEW m \in Behind, IsReport(m), NEW r, SameReport(r, m), Says(venue, r)
  PROVE  TrafficInv' /\ Speaks
<1>1. m \in Uttered
  BY DEF Behind, Uttered
<1>2. Consistent(Uttered \cup {r}, venue.execs, venue.live)
  BY <1>1, AgainIsConsistent DEF TrafficInv
<1>3. past.news = 1 \/ (venue.status = "none" /\ venue.live = {} /\ r.kind # "fill")
  BY <1>1 DEF TrafficInv, SameReport
<1>4. IsReport(r) => \E n \in Behind : IsReport(n) /\ n.id = r.id
  BY DEF SameReport
<1>5. "status" \in DOMAIN venue /\ "execs" \in DOMAIN venue /\ "live" \in DOMAIN venue
  BY DEF TrafficInv
<1>6. Speaks
  BY DEF Speaks, SpeaksAgain
<1> QED BY <1>2, <1>3, <1>4, <1>5, <1>6, SayingTraffic

LEMMA VenueTakesTraffic ==
  ASSUME TrafficInv, VenueTakes
  PROVE  TrafficInv' /\ Speaks
<1> DEFINE order == Head(toVenue)
<1>1. /\ toVenue # <<>> /\ toVenue' = Tail(toVenue) /\ UNCHANGED <<past, ask, hand>>
  BY DEF VenueTakes, callVars
<1>2. WireKept /\ (order.kind = "new" => past.news = 1)
  BY <1>1, ShortenedWire
<1>3. venue.status # "none" => past.news = 1
  BY DEF TrafficInv
<1>4. \/ order.kind = "new" /\ AnswerNew
      \/ AnswerStatus
      \/ AnswerChange(order.kind, order.wire)
  BY Zenon DEF VenueTakes
<1>v. /\ "status" \in DOMAIN venue /\ "execs" \in DOMAIN venue /\ "live" \in DOMAIN venue
      /\ venue.execs \in Nat
  BY VenueIs DEF TrafficInv
<1> HIDE DEF order
<1>5. ASSUME NEW kind \in {"cancelReject", "businessReject", "status", "unknown"}
      PROVE  kind \notin ReportKinds
  BY DEF ReportKinds
<1>6. ASSUME NEW kind \in {"ack", "rejected", "canceled", "replaced"}
      PROVE  kind # "fill" /\ kind # "bust"
  OBVIOUS
<1>7. ASSUME order.kind = "new", AnswerNew PROVE TrafficInv' /\ Speaks
  <2>1. ASSUME NEW status, NEW kind \in {"ack", "rejected"},
               Says(Becomes(status), Report(kind, NextExec, Becomes(status)))
        PROVE  TrafficInv' /\ Speaks
    <3> DEFINE r == Report(kind, NextExec, Becomes(status))
    <3>1. DOMAIN r = MessageFields /\ r.kind = kind /\ r.id = venue.execs + 1
      BY ReportIs DEF NextExec
    <3> HIDE DEF r
    <3>2. Says(Becomes(status), r)
      BY <2>1 DEF r
    <3> QED BY <1>1, <1>2, <1>6, <1>7, <3>1, <3>2, VenueIs, NewTraffic
  <2>2. ASSUME Says([venue EXCEPT !.status = "REJECTED"], Report("businessReject", 0, venue))
        PROVE  TrafficInv' /\ Speaks
    <3> DEFINE r == Report("businessReject", 0, venue)
               v == [venue EXCEPT !.status = "REJECTED"]
    <3>1. DOMAIN r = MessageFields /\ ~IsReport(r)
      BY <1>5, ReportIs DEF IsReport
    <3>2. /\ "status" \in DOMAIN v /\ "execs" \in DOMAIN v /\ "live" \in DOMAIN v
          /\ v.execs = venue.execs /\ v.live = venue.live
      BY <1>v
    <3>3. Says(v, r)
      BY <2>2
    <3> HIDE DEF r, v
    <3> QED BY <1>1, <1>2, <1>7, <3>1, <3>2, <3>3, AsideTraffic
  <2> QED BY <1>7, <2>1, <2>2 DEF AnswerNew
<1>8. ASSUME AnswerStatus PROVE TrafficInv' /\ Speaks
  <2>1. ASSUME NEW kind \in {"unknown", "status"}, NEW r,
               r = Report(kind, 0, venue)
               \/ r = [Report(kind, 0, venue) EXCEPT !.content = "bad"],
               Says(venue, r)
        PROVE  TrafficInv' /\ Speaks
    <3> DEFINE s == Report(kind, 0, venue)
    <3>s. DOMAIN s = MessageFields /\ s.kind = kind /\ (r = s \/ r = [s EXCEPT !.content = "bad"])
      BY <2>1, ReportIs
    <3> HIDE DEF s
    <3>1. DOMAIN r = MessageFields /\ r.kind = kind
      <4>1. CASE r = s
        BY <3>s, <4>1
      <4>2. CASE r = [s EXCEPT !.content = "bad"]
        BY <3>s, <4>2 DEF MessageFields
      <4> QED BY <3>s, <4>1, <4>2
    <3>2. ~IsReport(r)
      BY <1>5, <3>1 DEF IsReport
    <3>3. past.news = 1 \/ venue.status = "none"
      BY <1>3
    <3> QED BY <1>1, <1>2, <1>v, <2>1, <3>1, <3>2, <3>3, AsideTraffic
  <2> QED BY <1>8, <2>1 DEF AnswerStatus
<1>9. ASSUME NEW kind, NEW wire, AnswerChange(kind, wire) PROVE TrafficInv' /\ Speaks
  <2>1. CASE ~Working
    <3> DEFINE s == Report("cancelReject", 0, venue)
               r == [s EXCEPT !.wire = wire]
    <3>1. Says(venue, r)
      BY <1>9, <2>1 DEF AnswerChange
    <3>2. DOMAIN s = MessageFields /\ s.kind = "cancelReject"
      BY ReportIs
    <3> HIDE DEF s
    <3>3. SameReport(r, s)
      BY <3>2, FieldChanged
    <3> HIDE DEF r
    <3>4. DOMAIN r = MessageFields /\ ~IsReport(r)
      BY <1>5, <3>2, <3>3 DEF SameReport, IsReport
    <3>5. past.news = 1 \/ venue.status = "none"
      BY <1>3
    <3> QED BY <1>1, <1>2, <1>v, <3>1, <3>4, <3>5, AsideTraffic
  <2>2. CASE Working
    <3>1. ASSUME NEW status, NEW s \in {"canceled", "replaced"}, NEW v,
                 Says(Becomes(status), [Report(s, NextExec, v) EXCEPT !.wire = wire])
          PROVE  TrafficInv' /\ Speaks
      <4> DEFINE m == Report(s, NextExec, v)
                 r == [m EXCEPT !.wire = wire]
      <4>2. DOMAIN m = MessageFields /\ m.kind = s /\ m.id = venue.execs + 1
        BY ReportIs DEF NextExec
      <4>3. Says(Becomes(status), r)
        BY <3>1
      <4> HIDE DEF m
      <4>4. SameReport(r, m)
        BY <4>2, FieldChanged
      <4> HIDE DEF r
      <4>5. DOMAIN r = MessageFields /\ r.id = venue.execs + 1 /\ r.kind = s
        BY <4>2, <4>4 DEF SameReport
      <4>6. past.news = 1
        BY <1>3, <2>2 DEF Working
      <4> QED BY <1>1, <1>2, <1>6, <4>3, <4>5, <4>6, VenueIs, NewTraffic
    <3>2. CASE kind = "cancel"
      BY <1>9, <2>2, <3>1, <3>2 DEF AnswerChange
    <3>3. CASE kind # "cancel"
      BY <1>9, <2>2, <3>1, <3>3 DEF AnswerChange
    <3> QED BY <3>2, <3>3
  <2> QED BY <2>1, <2>2
<1> QED BY <1>4, <1>7, <1>8, <1>9

LEMMA VenueFillsTraffic ==
  ASSUME TrafficInv, NEW content, VenueFills(content)
  PROVE  TrafficInv' /\ Speaks
<1>1. UNCHANGED <<past, ask, hand, toVenue>> /\ Working
  BY DEF VenueFills, callVars
<1>2. past.news = 1
  BY <1>1 DEF TrafficInv, Working
<1> DEFINE live == venue.live \cup {NextExec}
           v == [status |-> IF Cardinality(live) = Size THEN "FILLED" ELSE "PART",
                 execs |-> NextExec, live |-> live, busts |-> venue.busts]
           m == Report("fill", NextExec, v)
           r == [m EXCEPT !.qty = 1, !.content = content]
<1>3. Says(v, r)
  BY DEF VenueFills
<1>4. /\ "status" \in DOMAIN v /\ "execs" \in DOMAIN v /\ "live" \in DOMAIN v
      /\ v.execs = venue.execs + 1 /\ v.live \subseteq 1..(venue.execs + 1)
  <2>1. venue.execs + 1 \in 1..(venue.execs + 1)
    BY VenueIs
  <2> QED BY <2>1, VenueIs DEF NextExec
<1> HIDE DEF v
<1>5. DOMAIN m = MessageFields /\ m.kind = "fill" /\ m.id = venue.execs + 1
  BY ReportIs DEF NextExec
<1> HIDE DEF m
<1>6. DOMAIN r = MessageFields /\ r.kind = "fill" /\ r.id = venue.execs + 1 /\ r.qty = 1
  BY <1>5 DEF MessageFields
<1> HIDE DEF r
<1>7. r.kind # "bust"
  BY <1>6
<1> QED BY <1>1, <1>2, <1>3, <1>4, <1>6, <1>7, SameParts, NewTraffic

LEMMA VenueBustsTraffic ==
  ASSUME TrafficInv, NEW id \in venue.live, VenueBusts(id)
  PROVE  TrafficInv' /\ Speaks
<1>1. UNCHANGED <<past, ask, hand, toVenue>> /\ past.news = 1
  BY DEF VenueBusts, callVars, TrafficInv
<1> DEFINE v == [status |-> IF venue.status = "FILLED" THEN "PART" ELSE venue.status,
                 execs |-> NextExec, live |-> venue.live \ {id}, busts |-> venue.busts + 1]
           m == Report("bust", NextExec, v)
           r == [m EXCEPT !.ref = id]
<1>2. Says(v, r)
  BY DEF VenueBusts
<1>3. /\ "status" \in DOMAIN v /\ "execs" \in DOMAIN v /\ "live" \in DOMAIN v
      /\ v.execs = venue.execs + 1 /\ v.live \subseteq 1..(venue.execs + 1)
  BY VenueIs DEF NextExec
<1> HIDE DEF v
<1>4. DOMAIN m = MessageFields /\ m.kind = "bust" /\ m.id = venue.execs + 1
  BY ReportIs DEF NextExec
<1> HIDE DEF m
<1>5. /\ DOMAIN r = MessageFields /\ r.kind = "bust" /\ r.id = venue.execs + 1
      /\ r.ref \in 1..venue.execs
  BY <1>4, FieldChanged, VenueIs
<1> HIDE DEF r
<1>6. r.kind # "fill"
  BY <1>5
<1> QED BY <1>1, <1>2, <1>3, <1>5, <1>6, SameParts, NewTraffic

LEMMA VenueTraffic ==
  ASSUME TrafficInv, Venue
  PROVE  TrafficInv' /\ Speaks
<1>1. ASSUME NEW v, NEW r, VenueRepeats(v, r)
      PROVE  Says(v, r) /\ UNCHANGED <<past, hand, ask>> /\ WireKept
  BY <1>1, SameParts DEF VenueRepeats, callVars
<1>2. CASE VenueTakes
  BY <1>2, VenueTakesTraffic
<1>3. CASE VenueFills("plain") \/ VenueFills("bad")
  BY <1>3, VenueFillsTraffic
<1>4. CASE \E id \in venue.live : VenueBusts(id)
  BY <1>4, VenueBustsTraffic
<1>5. ASSUME NEW m \in past.passed, m.content = "plain",
             VenueRepeats(venue, [m EXCEPT !.content = "other"])
      PROVE  TrafficInv' /\ Speaks
  <2> DEFINE r == [m EXCEPT !.content = "other"]
  <2>1. m \in Behind /\ m \in Uttered /\ IsReport(m)
    BY DEF TrafficInv, Behind, Uttered
  <2>2. DOMAIN m = MessageFields
    BY <2>1 DEF TrafficInv, Consistent, WellSaid
  <2>3. SameReport(r, m)
    BY <1>5, <2>2, FieldChanged DEF SameReport, Unreadable
  <2> HIDE DEF r
  <2>4. VenueRepeats(venue, r)
    BY <1>5 DEF r
  <2> QED BY <1>1, <2>1, <2>3, <2>4, AgainTraffic
<1>6. ASSUME NEW m \in past.passed \cup past.gone, m.kind \in ReportKinds,
             VenueRepeats(venue, [m EXCEPT !.resend = TRUE])
      PROVE  TrafficInv' /\ Speaks
  <2> DEFINE r == [m EXCEPT !.resend = TRUE]
  <2>1. m \in Behind /\ m \in Uttered /\ IsReport(m)
    BY <1>6 DEF Behind, Uttered, IsReport
  <2>2. DOMAIN m = MessageFields
    BY <2>1 DEF TrafficInv, Consistent, WellSaid
  <2>3. SameReport(r, m)
    BY <2>2, FieldChanged
  <2> HIDE DEF r
  <2>4. VenueRepeats(venue, r)
    BY <1>6 DEF r
  <2> QED BY <1>1, <2>1, <2>3, <2>4, AgainTraffic
<1>7. CASE /\ venue.status # "none"
           /\ VenueRepeats(Becomes(venue.status), Report("dupReject", NextExec, venue))
  <2> DEFINE r == Report("dupReject", NextExec, venue)
             v == Becomes(venue.status)
  <2>1. DOMAIN r = MessageFields /\ r.kind = "dupReject" /\ r.id = venue.execs + 1
    BY ReportIs DEF NextExec
  <2>2. r.kind # "fill" /\ r.kind # "bust" /\ past.news = 1
    BY <1>7, <2>1 DEF TrafficInv
  <2>3. /\ "status" \in DOMAIN v /\ "execs" \in DOMAIN v /\ "live" \in DOMAIN v
        /\ v.execs = venue.execs + 1 /\ v.live \subseteq 1..(venue.execs + 1)
    BY VenueIs
  <2>4. VenueRepeats(v, r)
    BY <1>7
  <2> HIDE DEF r, v
  <2> QED BY <1>1, <2>1, <2>2, <2>3, <2>4, NewTraffic
<1>8. CASE venue.status # "none" /\ VenueRepeats(venue, Report("businessReject", 0, venue))
  <2> DEFINE r == Report("businessReject", 0, venue)
  <2>1. DOMAIN r = MessageFields /\ ~IsReport(r)
    BY ReportIs DEF IsReport, ReportKinds
  <2>2. past.news = 1
    BY <1>8 DEF TrafficInv
  <2>3. VenueRepeats(venue, r)
    BY <1>8
  <2>4. "status" \in DOMAIN venue /\ "execs" \in DOMAIN venue /\ "live" \in DOMAIN venue
    BY DEF TrafficInv
  <2> HIDE DEF r
  <2> QED BY <1>1, <2>1, <2>2, <2>3, <2>4, AsideTraffic
<1> QED BY <1>2, <1>3, <1>4, <1>5, <1>6, <1>7, <1>8 DEF Venue

LEMMA InitTraffic == Init => TrafficInv
<1> SUFFICES ASSUME Init PROVE TrafficInv
  OBVIOUS
<1>1. /\ toUs = <<>> /\ toVenue = <<>> /\ ask = NoAsk /\ hand = NoHand
      /\ venue = [status |-> "none", execs |-> 0, live |-> {}, busts |-> 0]
      /\ past = [news |-> 0, passed |-> {}, due |-> {}, gone |-> {}, hidden |-> FALSE]
  BY DEF Init
<1>2. /\ IsSequence(toUs) /\ IsSequence(toVenue) /\ Range(toVenue) = {} /\ Uttered = {}
  BY <1>1, EmptySequence DEF Uttered
<1>3. Consistent(Uttered, venue.execs, venue.live)
  BY <1>1, <1>2 DEF Consistent
<1>4. BustsFollow(toUs, Behind)
  BY <1>1 DEF BustsFollow
<1>5. ask.kind # "new" /\ "kind" \in DOMAIN ask /\ ~hand.busy
  BY <1>1 DEF NoAsk, NoHand
<1> QED BY <1>1, <1>2, <1>3, <1>4, <1>5 DEF TrafficInv

LEMMA TrafficKept == SendInv /\ TrafficInv /\ [Next]_vars => TrafficInv'
<1> SUFFICES ASSUME SendInv, TrafficInv, [Next]_vars PROVE TrafficInv'
  OBVIOUS
<1>1. CASE UNCHANGED vars
  BY <1>1, NobodySaysTraffic DEF vars
<1> QED
  BY <1>1, PlacingTraffic, AskingTraffic, StreamTraffic, ReaderTraffic, FaultsTraffic,
     VenueTraffic DEF Next

-------------------------------------------------------------------------------
\* What is on record of a report the session has moved past or holds in hand.
OnRecord(r) ==
  /\ r.kind = "fill" => Halts(r.id) \/ (Stored(r.id) /\ r.content = store.execs[r.id].content)
  /\ r.kind = "bust" => Halts(r.id) \/ r.id \in DOMAIN store.execs
  /\ Unreadable(r) \/ r.id \in DOMAIN store.execs

\* A bust that was applied has marked its fill, unless the fill never came to be stored:
\* it was gap-filled away, or nobody can read it.
Accounted(ref) ==
  \/ \E g \in past.gone : g.id = ref
  \/ ref \in DOMAIN store.execs /\ store.execs[ref].busted
  \/ /\ ref \notin DOMAIN store.execs
     /\ \A n \in Range(toUs) \cup past.passed : IsReport(n) /\ n.id = ref => Unreadable(n)

RecordsShape ==
  /\ "execs" \in DOMAIN store /\ "held" \in DOMAIN store
  /\ IsSequence(store.held)
  /\ \A i \in DOMAIN store.held : DOMAIN store.held[i] = {"about", "halted", "by"}
  /\ \A x \in DOMAIN store.execs : DOMAIN store.execs[x] = {"content", "fill", "busted"}

RecordsInv ==
  /\ RecordsShape
  /\ DOMAIN store.execs \subseteq 1..venue.execs
  /\ \A m \in Uttered : m.kind = "fill" /\ m.id \in DOMAIN store.execs
                         => store.execs[m.id].fill = 1
  /\ \A p \in past.passed : OnRecord(p)
  /\ hand.busy => OnRecord(Now)
  /\ \A m \in Uttered : m.kind = "bust" /\ m.id \in DOMAIN store.execs => Accounted(m.ref)

\* What no step undoes: a quarantined message stays, and so does an execution.
HeldStays ==
  \A i \in DOMAIN store.held :
    /\ i \in DOMAIN store'.held
    /\ store'.held[i].about = store.held[i].about /\ store'.held[i].halted = store.held[i].halted
ExecsStay ==
  /\ DOMAIN store.execs \subseteq DOMAIN store'.execs
  /\ \A x \in DOMAIN store.execs :
       /\ store'.execs[x].content = store.execs[x].content
       /\ store'.execs[x].fill = store.execs[x].fill
       /\ store.execs[x].busted => store'.execs[x].busted

LEMMA OnRecordStays ==
  ASSUME HeldStays, ExecsStay, NEW r, OnRecord(r)
  PROVE  OnRecord(r)'
<1>1. \A id : Halts(id) => Halts(id)'
  BY DEF HeldStays, Halts
<1>2. \A id : Stored(id) => Stored(id)' /\ store'.execs[id].content = store.execs[id].content
  BY DEF ExecsStay, Stored
<1>3. r.kind = "fill" => Halts(r.id)' \/ (Stored(r.id)' /\ r.content = store'.execs[r.id].content)
  BY <1>1, <1>2 DEF OnRecord
<1>4. /\ r.kind = "bust" => Halts(r.id)' \/ r.id \in DOMAIN store'.execs
      /\ Unreadable(r) \/ r.id \in DOMAIN store'.execs
  BY <1>1 DEF OnRecord, ExecsStay
<1> QED BY <1>3, <1>4 DEF OnRecord, Halts, Stored

\* No execution is added: the venue's messages are read or lost, or nothing happens.
StoreKept == RecordsShape' /\ HeldStays /\ store'.execs = store.execs

LEMMA KeepsExecs ==
  ASSUME StoreKept
  PROVE  ExecsStay
BY DEF StoreKept, ExecsStay

LEMMA SameStore ==
  ASSUME RecordsInv, UNCHANGED store
  PROVE  StoreKept
BY DEF RecordsInv, RecordsShape, StoreKept, HeldStays

LEMMA OnHandStays ==
  ASSUME RecordsInv, HeldStays, ExecsStay, UNCHANGED hand, Now' = Now
  PROVE  hand'.busy => OnRecord(Now)'
<1> SUFFICES ASSUME hand.busy PROVE OnRecord(Now)'
  OBVIOUS
<1>1. OnRecord(Now)
  BY DEF RecordsInv
<1>2. PICK r : r = Now
  OBVIOUS
<1>3. OnRecord(r)'
  BY <1>1, <1>2, OnRecordStays
<1> QED BY <1>2, <1>3 DEF OnRecord, Halts, Stored, Unreadable

MessagesKept ==
  /\ Uttered' \subseteq Uttered
  /\ Range(toUs') \cup past'.passed \subseteq Range(toUs) \cup past.passed
  /\ past.gone \subseteq past'.gone
  /\ \A p \in past'.passed : p \in past.passed \/ (hand.busy /\ p = Now)

LEMMA QuietRecords ==
  ASSUME RecordsInv, StoreKept, UNCHANGED venue, MessagesKept, hand'.busy => OnRecord(Now)'
  PROVE  RecordsInv'
<1>1. ExecsStay /\ HeldStays
  BY KeepsExecs DEF StoreKept
<1>2. ASSUME NEW p \in past'.passed PROVE OnRecord(p)'
  <2>1. OnRecord(p)
    BY DEF RecordsInv, MessagesKept
  <2> QED BY <1>1, <2>1, OnRecordStays
<1>3. store'.execs = store.execs /\ RecordsShape'
  BY DEF StoreKept
<1>4. ASSUME NEW ref, Accounted(ref) PROVE Accounted(ref)'
  BY <1>3, <1>4 DEF Accounted, MessagesKept
<1>5. ASSUME NEW m \in Uttered', m.kind = "bust", m.id \in DOMAIN store'.execs
      PROVE  Accounted(m.ref)'
  <2>1. m \in Uttered /\ m.id \in DOMAIN store.execs
    BY <1>3, <1>5 DEF MessagesKept
  <2> QED BY <1>4, <1>5, <2>1 DEF RecordsInv
<1>6. \A m \in Uttered' : m.kind = "fill" /\ m.id \in DOMAIN store'.execs
                           => store'.execs[m.id].fill = 1
  BY <1>3 DEF RecordsInv, MessagesKept
<1> QED BY <1>2, <1>3, <1>5, <1>6 DEF RecordsInv

\* What the venue says is no news about what is stored.
LEMMA SpeakingRecords ==
  ASSUME TrafficInv, RecordsInv, Speaks, UNCHANGED <<past, hand, store>>
  PROVE  RecordsInv'
<1>1. PICK v, r : /\ Says(v, r) /\ SpeaksAgain(r)
                  /\ v.execs = venue.execs \/ v.execs = venue.execs + 1
  BY DEF Speaks
<1>2. /\ IsSequence(toUs) /\ venue.execs \in Nat /\ venue' = v /\ toUs' = Append(toUs, r)
  BY <1>1 DEF Says, TrafficInv, Consistent
<1>3. Range(toUs') = Range(toUs) \cup {r} /\ (toUs # <<>> => Now' = Now)
  BY <1>2, LastValue DEF Now
<1>4. Uttered' = Uttered \cup {r}
  BY <1>3 DEF Uttered
<1>5. StoreKept /\ HeldStays /\ ExecsStay
  BY SameStore, KeepsExecs DEF StoreKept
<1>6. \A m \in Uttered : /\ IsReport(m) => m.id \in 1..venue.execs
                         /\ m.kind = "bust" => m.ref \in 1..venue.execs
  BY DEF TrafficInv, Consistent, WellSaid
<1>7. ASSUME r.kind = "fill" \/ r.kind = "bust", r.id \in DOMAIN store.execs
      PROVE  \E m \in Uttered : m.kind = r.kind /\ m.ref = r.ref /\ m.id = r.id
  <2>1. IsReport(r)
    BY <1>7, FillsAndBustsAreReports DEF IsReport
  <2>2. r.id # venue.execs + 1
    BY <1>2, <1>7 DEF RecordsInv
  <2>3. PICK m \in Behind : SameReport(r, m)
    BY <1>1, <2>1, <2>2 DEF SpeaksAgain
  <2> QED BY <2>3 DEF SameReport, Behind, Uttered
<1>8. ASSUME NEW ref \in 1..venue.execs, Accounted(ref) PROVE Accounted(ref)'
  <2>1. ASSUME ref \notin DOMAIN store.execs, ~\E g \in past.gone : g.id = ref,
               \A n \in Range(toUs) \cup past.passed : IsReport(n) /\ n.id = ref => Unreadable(n),
               IsReport(r), r.id = ref
        PROVE  Unreadable(r)
    <3>1. r.id # venue.execs + 1
      BY <1>2, <2>1
    <3>2. PICK m \in Behind : IsReport(m) /\ SameReport(r, m)
      BY <1>1, <2>1, <3>1 DEF SpeaksAgain
    <3>3. m \in past.passed
      BY <2>1, <3>2 DEF SameReport, Behind
    <3> QED BY <2>1, <3>2, <3>3 DEF SameReport
  <2>2. CASE \/ \E g \in past.gone : g.id = ref
             \/ ref \in DOMAIN store.execs /\ store.execs[ref].busted
    BY <2>2 DEF Accounted
  <2>3. CASE /\ ~\E g \in past.gone : g.id = ref
             /\ ref \notin DOMAIN store.execs
             /\ \A n \in Range(toUs) \cup past.passed :
                  IsReport(n) /\ n.id = ref => Unreadable(n)
    <3>1. \A n \in Range(toUs') \cup past'.passed : IsReport(n) /\ n.id = ref => Unreadable(n)
      BY <1>3, <2>1, <2>3
    <3> QED BY <2>3, <3>1 DEF Accounted
  <2> QED BY <1>8, <2>2, <2>3 DEF Accounted
<1>9. ASSUME NEW m \in Uttered', m.kind = "bust", m.id \in DOMAIN store.execs
      PROVE  Accounted(m.ref)'
  <2>1. PICK n \in Uttered : n.kind = "bust" /\ n.ref = m.ref /\ n.id = m.id
    BY <1>4, <1>7, <1>9
  <2>2. Accounted(n.ref) /\ n.ref \in 1..venue.execs
    BY <1>6, <1>9, <2>1 DEF RecordsInv
  <2> QED BY <1>8, <2>1, <2>2
<1>10. \A m \in Uttered' : m.kind = "fill" /\ m.id \in DOMAIN store.execs
                            => store.execs[m.id].fill = 1
  BY <1>4, <1>7 DEF RecordsInv
<1>11. ASSUME NEW p \in past.passed PROVE OnRecord(p)'
  <2>1. OnRecord(p)
    BY DEF RecordsInv
  <2> QED BY <1>5, <2>1, OnRecordStays
<1>12. hand'.busy => OnRecord(Now)'
  BY <1>3, <1>5, OnHandStays DEF TrafficInv
<1>13. DOMAIN store'.execs \subseteq 1..venue'.execs
  <2>1. 1..venue.execs \subseteq 1..venue'.execs
    BY <1>1, <1>2
  <2> QED BY <2>1 DEF RecordsInv
<1>14. RecordsShape'
  BY <1>5 DEF StoreKept
<1> QED BY <1>9, <1>10, <1>11, <1>12, <1>13, <1>14 DEF RecordsInv

-------------------------------------------------------------------------------
\* Rows that are added to the quarantine stay with those that were there.
LEMMA QuarantineAdds ==
  ASSUME RecordsInv, NEW about, NEW halted, store' = Quarantine(store, Entry(about, halted))
  PROVE  StoreKept /\ (halted => Halts(about)')
<1> DEFINE e == Entry(about, halted)
           held == Append(store.held, e)
<1>1. store' = [store EXCEPT !.held = held]
  BY DEF Quarantine
<1>2. DOMAIN e = {"about", "halted", "by"} /\ e.about = about /\ e.halted = halted
  BY DEF Entry
<1>3. /\ IsSequence(held) /\ Len(store.held) \in Nat
      /\ DOMAIN store.held = 1..Len(store.held) /\ DOMAIN held = 1..(Len(store.held) + 1)
      /\ held[Len(store.held) + 1] = e
      /\ \A i \in 1..Len(store.held) : held[i] = store.held[i]
  <2> HIDE DEF e
  <2> QED BY LastValue DEF RecordsInv, RecordsShape
<1> HIDE DEF held, e
<1>4. /\ "execs" \in DOMAIN store' /\ "held" \in DOMAIN store'
      /\ store'.execs = store.execs /\ store'.held = held
  BY <1>1 DEF RecordsInv, RecordsShape
<1>5. \A i \in DOMAIN held : i = Len(store.held) + 1 \/ i \in 1..Len(store.held)
  BY <1>3
<1>6. RecordsShape'
  <2>1. ASSUME NEW i \in DOMAIN held PROVE DOMAIN held[i] = {"about", "halted", "by"}
    BY <1>2, <1>3, <1>5 DEF RecordsInv, RecordsShape
  <2> QED BY <1>3, <1>4, <2>1 DEF RecordsInv, RecordsShape
<1>7. HeldStays
  <2>1. \A i \in 1..Len(store.held) : i \in DOMAIN held
    BY <1>3
  <2> QED BY <1>3, <1>4, <2>1 DEF HeldStays
<1>8. halted => Halts(about)'
  <2>1. Len(store.held) + 1 \in DOMAIN held
    BY <1>3
  <2> QED BY <1>2, <1>3, <1>4, <2>1 DEF Halts
<1> QED BY <1>4, <1>6, <1>7, <1>8 DEF StoreKept

LEMMA ReleaseKeeps ==
  ASSUME RecordsInv, NEW o, NEW n, store' = ReleaseQuarantine(store, o, n)
  PROVE  StoreKept
<1>1. CASE UNCHANGED store
  BY <1>1, SameStore
<1>2. CASE store' # store
  <2> DEFINE held == [i \in DOMAIN store.held |->
                        IF i \in Unreleased(store) THEN [store.held[i] EXCEPT !.by = o]
                        ELSE store.held[i]]
  <2>1. store' = [store EXCEPT !.held = held]
    BY <1>2 DEF ReleaseQuarantine
  <2>2. DOMAIN held = DOMAIN store.held
    OBVIOUS
  <2>3. ASSUME NEW i \in DOMAIN store.held
        PROVE  /\ DOMAIN held[i] = {"about", "halted", "by"}
               /\ held[i].about = store.held[i].about /\ held[i].halted = store.held[i].halted
    <3>1. DOMAIN store.held[i] = {"about", "halted", "by"}
      BY DEF RecordsInv, RecordsShape
    <3>2. CASE i \in Unreleased(store)
      <4>1. held[i] = [store.held[i] EXCEPT !.by = o]
        BY <3>2
      <4> HIDE DEF held
      <4> QED BY <3>1, <4>1
    <3>3. CASE i \notin Unreleased(store)
      <4>1. held[i] = store.held[i]
        BY <3>3
      <4> HIDE DEF held
      <4> QED BY <3>1, <4>1
    <3> QED BY <3>2, <3>3
  <2>4. IsSequence(held)
    <3>1. store.held \in Seq(Range(store.held))
      BY DEF RecordsInv, RecordsShape, IsSequence
    <3>2. Len(store.held) \in Nat /\ DOMAIN store.held = 1..Len(store.held)
      BY <3>1, LenProperties
    <3> HIDE DEF held
    <3>3. held \in [1..Len(store.held) -> Range(held)]
      <4>1. held = [i \in DOMAIN store.held |-> held[i]]
        BY DEF held
      <4> QED BY <2>2, <3>2, <4>1 DEF Range
    <3> QED BY <3>2, <3>3, SeqDef DEF IsSequence
  <2> HIDE DEF held
  <2>5. /\ "execs" \in DOMAIN store' /\ "held" \in DOMAIN store'
        /\ store'.execs = store.execs /\ store'.held = held
    BY <2>1 DEF RecordsInv, RecordsShape
  <2>6. RecordsShape' /\ HeldStays
    BY <2>2, <2>3, <2>4, <2>5 DEF RecordsInv, RecordsShape, HeldStays
  <2> QED BY <2>5, <2>6 DEF StoreKept
<1> QED BY <1>1, <1>2

\* The row of the order and its wire ids are no part of it.
LEMMA RowsAside ==
  ASSUME RecordsInv,
         \/ \E row : store' = PutOrder(store, row)
         \/ \E row, wire : store' = LinkWireId(PutOrder(store, row), wire)
         \/ store' = DeleteOrder(store)
  PROVE  StoreKept
<1>1. "execs" \in DOMAIN store /\ "held" \in DOMAIN store
  BY DEF RecordsInv, RecordsShape
<1> DEFINE Kept == /\ "execs" \in DOMAIN store' /\ "held" \in DOMAIN store'
                   /\ store'.execs = store.execs /\ store'.held = store.held
<1>2. Kept
  <2>1. ASSUME NEW row, store' = PutOrder(store, row) PROVE Kept
    BY <1>1, <2>1 DEF PutOrder
  <2>2. ASSUME NEW row, NEW wire, store' = LinkWireId(PutOrder(store, row), wire) PROVE Kept
    <3> DEFINE s == PutOrder(store, row)
    <3>1. /\ "execs" \in DOMAIN s /\ "held" \in DOMAIN s
          /\ s.execs = store.execs /\ s.held = store.held
      BY <1>1 DEF PutOrder
    <3>2. store' = [s EXCEPT !.wires = s.wires \cup {wire}]
      BY <2>2 DEF LinkWireId
    <3> HIDE DEF s
    <3> QED BY <3>1, <3>2
  <2>3. ASSUME store' = DeleteOrder(store) PROVE Kept
    BY <1>1, <2>3 DEF DeleteOrder
  <2> QED BY <2>1, <2>2, <2>3
<1> QED BY <1>2 DEF RecordsInv, RecordsShape, StoreKept, HeldStays

-------------------------------------------------------------------------------
\* What record_report does to the rows.
LEMMA ReportRecorded ==
  ASSUME RecordsInv, NEW row, NEW id, NEW execution, NEW bust, NEW quarantine,
         IsSequence(quarantine),
         \A i \in DOMAIN quarantine : DOMAIN quarantine[i] = {"about", "halted", "by"},
         DOMAIN execution = {"content", "fill", "busted"}, id \notin DOMAIN store.execs,
         store' = RecordReport(store, row, id, execution, bust, quarantine)
  PROVE  /\ RecordsShape' /\ HeldStays /\ ExecsStay
         /\ DOMAIN store'.execs = DOMAIN store.execs \cup {id}
         /\ store'.execs[id].content = execution.content
         /\ store'.execs[id].fill = execution.fill
         /\ bust \in DOMAIN store'.execs => store'.execs[bust].busted
<1> DEFINE with == WithExecution(store, id, execution)
           marked == MarkBusted(with, bust)
           held == store.held \o quarantine
<1>1. /\ DOMAIN with = DOMAIN store.execs \cup {id} /\ with[id] = execution
      /\ \A x \in DOMAIN store.execs : with[x] = store.execs[x]
  BY DEF WithExecution
<1>2. \A x \in DOMAIN with : DOMAIN with[x] = {"content", "fill", "busted"}
  <2> HIDE DEF with
  <2> QED BY <1>1 DEF RecordsInv, RecordsShape
<1> HIDE DEF with
<1>3. /\ DOMAIN marked = DOMAIN with
      /\ \A x \in DOMAIN with :
           marked[x] = IF x = bust THEN [with[x] EXCEPT !.busted = TRUE] ELSE with[x]
  BY DEF MarkBusted
<1> HIDE DEF marked
<1>4. ASSUME NEW x \in DOMAIN with
      PROVE  /\ DOMAIN marked[x] = {"content", "fill", "busted"}
             /\ marked[x].content = with[x].content /\ marked[x].fill = with[x].fill
             /\ with[x].busted => marked[x].busted
             /\ x = bust => marked[x].busted
  <2>1. DOMAIN with[x] = {"content", "fill", "busted"}
    BY <1>2
  <2>2. CASE x = bust
    <3>1. marked[x] = [with[x] EXCEPT !.busted = TRUE]
      BY <1>3, <2>2
    <3> QED BY <2>1, <3>1
  <2>3. CASE x # bust
    <3>1. marked[x] = with[x]
      BY <1>3, <2>3
    <3> QED BY <2>1, <2>3, <3>1
  <2> QED BY <2>2, <2>3
<1>5. /\ store' = [store EXCEPT !.row = row, !.execs = marked, !.held = held]
  BY DEF RecordReport, with, marked
<1>6. /\ IsSequence(held) /\ DOMAIN store.held \subseteq DOMAIN held
      /\ \A i \in DOMAIN store.held : held[i] = store.held[i]
  <2>1. IsSequence(store.held)
    BY DEF RecordsInv, RecordsShape
  <2> QED BY <2>1, JoinedValues
<1>7. ASSUME NEW i \in DOMAIN held PROVE DOMAIN held[i] = {"about", "halted", "by"}
  <2>1. Range(held) = Range(store.held) \cup Range(quarantine)
    <3>1. IsSequence(store.held)
      BY DEF RecordsInv, RecordsShape
    <3> QED BY <3>1, JoinedValues
  <2>2. held[i] \in Range(store.held) \/ held[i] \in Range(quarantine)
    <3> HIDE DEF held
    <3>1. held[i] \in Range(held)
      BY DEF Range
    <3> QED BY <2>1, <3>1
  <2> HIDE DEF held
  <2> QED BY <2>2 DEF RecordsInv, RecordsShape, Range
<1> HIDE DEF held
<1>8. /\ "execs" \in DOMAIN store' /\ "held" \in DOMAIN store'
      /\ store'.execs = marked /\ store'.held = held
  BY <1>5 DEF RecordsInv, RecordsShape
<1>9. RecordsShape'
  BY <1>3, <1>4, <1>6, <1>7, <1>8 DEF RecordsShape
<1>10. HeldStays
  BY <1>6, <1>8 DEF HeldStays
<1>11. ExecsStay
  BY <1>1, <1>3, <1>4, <1>8 DEF ExecsStay
<1>12. id \in DOMAIN with
  BY <1>1
<1> QED BY <1>1, <1>3, <1>4, <1>8, <1>9, <1>10, <1>11, <1>12

-------------------------------------------------------------------------------
\* Every step keeps the records.
SamePassed == past'.passed = past.passed /\ past'.gone = past.gone

LEMMA SameMessages ==
  ASSUME TrafficInv, ReadsOn,
         \/ SamePassed
         \/ toUs # <<>> /\ past'.passed = past.passed /\ past'.gone = past.gone \cup {Now}
         \/ hand.busy /\ past'.passed = past.passed \cup {Now} /\ past'.gone = past.gone
  PROVE  MessagesKept
<1>1. Range(toUs') \subseteq Range(toUs)
  BY BustsStillFollow, FirstValue, EmptySequence DEF TrafficInv, ReadsOn
<1>2. toUs # <<>> => Now \in Range(toUs)
  BY FirstValue DEF TrafficInv, Now
<1>3. hand.busy => toUs # <<>>
  BY DEF TrafficInv
<1> QED BY <1>1, <1>2, <1>3 DEF MessagesKept, Uttered, SamePassed

LEMMA PastIsSame ==
  ASSUME TrafficInv,
         \/ UNCHANGED past
         \/ \E due : past' = [past EXCEPT !.due = due]
         \/ \E hidden : past' = [past EXCEPT !.hidden = hidden]
         \/ \E news : past' = [past EXCEPT !.news = news]
  PROVE  SamePassed
BY DEF TrafficInv, SamePassed

\* Nothing is read and no report taken in hand.
LEMMA StillRecords ==
  ASSUME TrafficInv, RecordsInv, StoreKept, SamePassed, UNCHANGED <<toUs, venue, hand>>
  PROVE  RecordsInv'
<1>1. MessagesKept
  BY SameMessages DEF ReadsOn
<1>2. hand'.busy => OnRecord(Now)'
  BY OnHandStays, KeepsExecs DEF StoreKept, Now
<1> QED BY <1>1, <1>2, QuietRecords

\* Uttered are dropped while no report is in hand.
LEMMA DroppingRecords ==
  ASSUME TrafficInv, RecordsInv, StoreKept, ReadsOn, ~hand'.busy,
         SamePassed \/ (toUs # <<>> /\ past' = [past EXCEPT !.gone = @ \cup {Now}])
  PROVE  RecordsInv'
<1>1. ASSUME past' = [past EXCEPT !.gone = @ \cup {Now}]
      PROVE  past'.passed = past.passed /\ past'.gone = past.gone \cup {Now}
  BY <1>1 DEF TrafficInv
<1>2. MessagesKept
  BY <1>1, SameMessages
<1> QED BY <1>2, QuietRecords DEF ReadsOn

LEMMA PlacingRecords ==
  ASSUME TrafficInv, RecordsInv, Placing
  PROVE  RecordsInv'
<1>1. PICK c \in Callers :
        \/ StartPlace(c) \/ Remember(c) \/ SendNew(c) \/ DeleteUnsent(c)
        \/ LeaveUnsent(c) \/ PlaceTimesOut(c) \/ PlaceAgain(c)
  BY DEF Placing
<1>2. CASE SendNew(c)
  <2>1. UNCHANGED <<store, hand, toUs, venue>>
    BY <1>2 DEF SendNew, Carry, netVars
  <2>2. UNCHANGED past \/ \E news : past' = [past EXCEPT !.news = news]
    BY <1>2 DEF SendNew
  <2> QED BY <2>1, <2>2, PastIsSame, SameStore, StillRecords
<1>3. CASE Remember(c)
  <2>1. UNCHANGED <<past, hand, toUs, venue>>
    BY <1>3 DEF Remember, netVars
  <2>2. UNCHANGED store \/ \E row, wire : store' = LinkWireId(PutOrder(store, row), wire)
    BY <1>3 DEF Remember
  <2> QED BY <2>1, <2>2, PastIsSame, SameStore, RowsAside, StillRecords
<1>4. CASE DeleteUnsent(c)
  <2>1. UNCHANGED <<past, hand, toUs, venue>> /\ store' = DeleteOrder(store)
    BY <1>4 DEF DeleteUnsent, netVars
  <2> QED BY <2>1, PastIsSame, RowsAside, StillRecords
<1>5. CASE StartPlace(c) \/ LeaveUnsent(c) \/ PlaceTimesOut(c) \/ PlaceAgain(c)
  <2>1. UNCHANGED <<store, past, hand, toUs, venue>>
    BY <1>5 DEF StartPlace, LeaveUnsent, PlaceTimesOut, PlaceAgain, netVars
  <2> QED BY <2>1, PastIsSame, SameStore, StillRecords
<1> QED BY <1>1, <1>2, <1>3, <1>4, <1>5

LEMMA AskingRecords ==
  ASSUME TrafficInv, RecordsInv, Asking
  PROVE  RecordsInv'
<1>1. UNCHANGED <<past, hand, toUs, venue>>
  BY DEF Asking, Change, AskStatus, SendRequest, RequestEnds, Carry, netVars
<1>2. UNCHANGED store \/ \E row, wire : store' = LinkWireId(PutOrder(store, row), wire)
  BY DEF Asking, Change, AskStatus, SendRequest, RequestEnds
<1> QED BY <1>1, <1>2, PastIsSame, SameStore, RowsAside, StillRecords

LEMMA StreamRecords ==
  ASSUME TrafficInv, RecordsInv, Subscribe \/ TakeEvent
  PROVE  RecordsInv'
<1>1. UNCHANGED <<store, hand, toUs, venue>>
  BY DEF Subscribe, TakeEvent, netVars
<1>2. UNCHANGED past \/ \E due : past' = [past EXCEPT !.due = due]
  BY DEF Subscribe, TakeEvent
<1> QED BY <1>1, <1>2, PastIsSame, SameStore, StillRecords

\* A report is taken in hand, and with it what is on record of it.
LEMMA InHand ==
  ASSUME TrafficInv, ReadingReport
  PROVE  /\ toUs # <<>> /\ IsReport(Now) /\ Now \in Range(toUs) /\ Now \in Uttered
         /\ ~hand.busy
<1>1. toUs # <<>> /\ IsReport(Now) /\ ~hand.busy
  BY DEF ReadingReport, Reading, IsReport
<1>2. Now \in Range(toUs)
  BY <1>1, FirstValue DEF TrafficInv, Now
<1> QED BY <1>1, <1>2 DEF Uttered

LEMMA TakenInHand ==
  ASSUME TrafficInv, RecordsInv, UNCHANGED past,
         NEW s, NEW events, NEW answers, Commit(s, events, answers), StoreKept,
         OnRecord(Now)'
  PROVE  RecordsInv'
<1>1. UNCHANGED <<toUs, venue>> /\ store' = s
  BY DEF Commit, netVars
<1>2. MessagesKept
  BY <1>1, PastIsSame, SameMessages DEF ReadsOn
<1> QED BY <1>1, <1>2, QuietRecords

LEMMA DropRepeatRecords ==
  ASSUME TrafficInv, RecordsInv, DropRepeat
  PROVE  RecordsInv'
<1>1. /\ ReadingReport /\ Repeat(Now) /\ UNCHANGED past /\ Commit(store, <<>>, FALSE)
  BY DEF DropRepeat
<1>2. UNCHANGED <<store, toUs>> /\ Now' = Now
  BY <1>1 DEF Commit, netVars, Now
<1>3. /\ Now.id \in DOMAIN store.execs /\ store.execs[Now.id].content = Now.content
      /\ Now \in Uttered
  BY <1>1, InHand DEF Repeat, Seen
<1>4. Now.kind = "fill" => Stored(Now.id)
  BY <1>3 DEF RecordsInv, Stored
<1>5. OnRecord(Now)'
  BY <1>2, <1>3, <1>4 DEF OnRecord, Halts, Stored, Unreadable
<1> QED BY <1>1, <1>2, <1>5, SameStore, TakenInHand

LEMMA QuarantineRecords ==
  ASSUME SendInv, TrafficInv, RecordsInv, QuarantineReport \/ QuarantineConflict
  PROVE  RecordsInv'
<1>1. PICK events :
        /\ ReadingReport /\ UNCHANGED past
        /\ Commit(Quarantine(store, Entry(Now.id, TRUE)), events, FALSE)
  BY DEF QuarantineReport, QuarantineConflict
<1>2. /\ UNCHANGED toUs /\ store' = Quarantine(store, Entry(Now.id, TRUE)) /\ Now' = Now
  BY <1>1 DEF Commit, netVars, Now
<1>r. PICK r : r = Now
  OBVIOUS
<1>3. StoreKept /\ Halts(r.id)'
  <2>1. store' = Quarantine(store, Entry(r.id, TRUE))
    BY <1>2, <1>r
  <2> QED BY <2>1, QuarantineAdds
<1>4. Unreadable(Now) \/ Now.id \in DOMAIN store.execs
  <2>1. CASE QuarantineConflict
    BY <2>1 DEF QuarantineConflict, Seen
  <2>2. CASE QuarantineReport
    <3>1. Now.kind = "fill" => Known
      <4>1. Now.kind = "fill" => past.news = 1
        BY <1>1, InHand DEF TrafficInv
      <4> QED BY <4>1 DEF SendInv, RowInv
    <3> QED BY <2>2, <3>1 DEF QuarantineReport, Unapplicable, Unreadable
  <2> QED BY <2>1, <2>2
<1>5. OnRecord(Now)'
  <2>1. Unreadable(r) \/ r.id \in DOMAIN store'.execs
    BY <1>3, <1>4, <1>r DEF StoreKept
  <2>2. OnRecord(r)'
    BY <1>3, <2>1 DEF OnRecord, Halts, Unreadable
  <2> QED BY <1>2, <1>r, <2>2 DEF OnRecord, Halts, Stored, Unreadable
<1> QED BY <1>1, <1>3, <1>5, TakenInHand

LEMMA ApplyReportRecords ==
  ASSUME TrafficInv, RecordsInv, ApplyReport
  PROVE  RecordsInv'
<1>0. /\ ReadingReport /\ ~Seen(Now) /\ ~Unapplicable(Now)
      /\ past' = [past EXCEPT !.due = @ \cup Range(FillOf(Now))]
  BY DEF ApplyReport
<1>1. PICK r : r = Now
  OBVIOUS
<1>2. /\ toUs # <<>> /\ IsReport(r) /\ r \in Range(toUs) /\ r \in Uttered /\ ~hand.busy
      /\ r.id \notin DOMAIN store.execs /\ ~Unreadable(r)
  BY <1>0, <1>1, InHand DEF Seen, Unapplicable, Unreadable
<1> DEFINE bust == IF r.kind = "bust" THEN r.ref ELSE 0
<1>3. PICK row, quarantine, events :
        /\ Commit(RecordReport(store, row, r.id, Execution(r.content, r.qty), bust, quarantine),
                  events, TRUE)
        /\ quarantine = <<>> \/ quarantine = <<Entry(r.id, TRUE)>>
  BY <1>1 DEF ApplyReport
<1>4. /\ store' = RecordReport(store, row, r.id, Execution(r.content, r.qty), bust, quarantine)
      /\ UNCHANGED <<toUs, venue>> /\ Now' = Now
  BY <1>3 DEF Commit, netVars, Now
<1>5. /\ IsSequence(quarantine)
      /\ \A i \in DOMAIN quarantine : DOMAIN quarantine[i] = {"about", "halted", "by"}
  <2> DEFINE e == Entry(r.id, TRUE)
  <2>1. DOMAIN e = {"about", "halted", "by"}
    BY DEF Entry
  <2> HIDE DEF e
  <2>2. CASE quarantine = <<>>
    BY <2>2, EmptySequence
  <2>3. CASE quarantine = <<e>>
    <3>1. IsSequence(<<e>>) /\ Range(<<e>>) = {e}
      BY OneValue
    <3> QED BY <2>1, <2>3, <3>1 DEF Range
  <2> QED BY <1>3, <2>2, <2>3 DEF e
<1>6. DOMAIN Execution(r.content, r.qty) = {"content", "fill", "busted"}
      /\ Execution(r.content, r.qty).content = r.content
      /\ Execution(r.content, r.qty).fill = r.qty
  BY DEF Execution
<1> HIDE DEF bust
<1>7. /\ RecordsShape' /\ HeldStays /\ ExecsStay
      /\ DOMAIN store'.execs = DOMAIN store.execs \cup {r.id}
      /\ store'.execs[r.id].content = r.content /\ store'.execs[r.id].fill = r.qty
      /\ bust \in DOMAIN store'.execs => store'.execs[bust].busted
  <2> DEFINE e == Execution(r.content, r.qty)
  <2>1. store' = RecordReport(store, row, r.id, e, bust, quarantine)
    BY <1>4
  <2>2. DOMAIN e = {"content", "fill", "busted"} /\ e.content = r.content /\ e.fill = r.qty
    BY <1>6
  <2> HIDE DEF e
  <2>3. /\ RecordsShape' /\ HeldStays /\ ExecsStay
        /\ DOMAIN store'.execs = DOMAIN store.execs \cup {r.id}
        /\ store'.execs[r.id].content = e.content
        /\ store'.execs[r.id].fill = e.fill
        /\ bust \in DOMAIN store'.execs => store'.execs[bust].busted
    BY <1>2, <1>5, <2>1, <2>2, ReportRecorded
  <2> QED BY <2>2, <2>3
<1>8. past'.passed = past.passed /\ past'.gone = past.gone /\ Uttered' = Uttered
  BY <1>0, <1>4 DEF TrafficInv, Uttered
<1>9. /\ WellSaid(r, venue.execs)
      /\ \A m \in Uttered : IsReport(m) /\ m.id = r.id => Alike(m, r)
  BY <1>2 DEF TrafficInv, Consistent
<1>10. DOMAIN store'.execs \subseteq 1..venue'.execs
  BY <1>2, <1>4, <1>7, <1>9 DEF RecordsInv, WellSaid
<1>11. ASSUME NEW m \in Uttered, m.kind = "fill", m.id \in DOMAIN store'.execs
       PROVE  store'.execs[m.id].fill = 1
  <2>1. IsReport(m)
    BY <1>11, FillsAndBustsAreReports DEF IsReport
  <2>2. CASE m.id = r.id
    <3>1. r.kind = "fill"
      BY <1>9, <1>11, <2>1, <2>2 DEF Alike
    <3> QED BY <1>7, <1>9, <2>2, <3>1 DEF WellSaid
  <2>3. CASE m.id # r.id
    <3>1. m.id \in DOMAIN store.execs
      BY <1>7, <1>11, <2>3
    <3> QED BY <1>7, <1>11, <3>1 DEF RecordsInv, ExecsStay
  <2> QED BY <2>2, <2>3
<1>12. ASSUME NEW p \in past.passed PROVE OnRecord(p)'
  <2>1. OnRecord(p)
    BY DEF RecordsInv
  <2> QED BY <1>7, <2>1, OnRecordStays
<1>13. OnRecord(Now)'
  <2>1. r.kind = "fill" => Stored(r.id)' /\ r.content = store'.execs[r.id].content
    BY <1>7, <1>9 DEF Stored, WellSaid
  <2>2. r.id \in DOMAIN store'.execs
    BY <1>7
  <2>3. OnRecord(r)'
    BY <2>1, <2>2 DEF OnRecord, Stored
  <2> QED BY <1>1, <1>4, <2>3 DEF OnRecord, Halts, Stored, Unreadable
<1>14. ASSUME NEW m \in Uttered, m.kind = "bust", m.id \in DOMAIN store.execs
       PROVE  Accounted(m.ref)'
  <2>1. Accounted(m.ref)
    BY <1>14 DEF RecordsInv
  <2>2. CASE \E g \in past.gone : g.id = m.ref
    BY <1>8, <2>2 DEF Accounted
  <2>3. CASE m.ref \in DOMAIN store.execs /\ store.execs[m.ref].busted
    BY <1>7, <2>3 DEF Accounted, ExecsStay
  <2>4. CASE /\ m.ref \notin DOMAIN store.execs
             /\ \A n \in Range(toUs) \cup past.passed :
                  IsReport(n) /\ n.id = m.ref => Unreadable(n)
    <3>1. m.ref # r.id
      BY <1>2, <2>4
    <3>2. m.ref \notin DOMAIN store'.execs
      BY <1>7, <2>4, <3>1
    <3> QED BY <1>4, <1>8, <2>4, <3>2 DEF Accounted
  <2> QED BY <2>1, <2>2, <2>3, <2>4 DEF Accounted
\* The bust that is applied: its fill is marked, or it was never stored.
<1>15. ASSUME r.kind = "bust" PROVE Accounted(r.ref)'
  <2>1. CASE r.ref \in DOMAIN store'.execs
    BY <1>7, <1>15, <2>1 DEF Accounted, bust
  <2>2. CASE r.ref \notin DOMAIN store'.execs /\ ~\E g \in past.gone : g.id = r.ref
    <3>1. ASSUME NEW n \in past.passed, IsReport(n), n.id = r.ref PROVE Unreadable(n)
      <4>1. OnRecord(n)
        BY DEF RecordsInv
      <4> QED BY <1>7, <2>2, <3>1, <4>1 DEF OnRecord
    <3>2. ASSUME NEW n \in Range(toUs), IsReport(n), n.id = r.ref PROVE Unreadable(n)
      <4>1. /\ Len(toUs) \in Nat \ {0} /\ DOMAIN toUs = 1..Len(toUs) /\ toUs[1] = r
        BY <1>1, <1>2, FirstValue DEF TrafficInv, Now
      <4>2. PICK k \in DOMAIN toUs : toUs[k] = n
        BY DEF Range
      <4>3. k # 1
        BY <1>7, <2>2, <3>2, <4>1, <4>2
      <4>4. 1 \in DOMAIN toUs /\ 1 < k
        BY <4>1, <4>2, <4>3
      <4>5. \E b \in Behind : IsReport(b) /\ b.id = n.id
        BY <1>15, <3>2, <4>1, <4>2, <4>4 DEF TrafficInv, BustsFollow
      <4>6. PICK b \in past.passed : IsReport(b) /\ b.id = n.id
        BY <2>2, <3>2, <4>5 DEF Behind
      <4>7. Unreadable(b)
        BY <3>1, <3>2, <4>6
      <4>8. Alike(b, n)
        BY <3>2, <4>6 DEF TrafficInv, Consistent, Uttered
      <4> QED BY <4>7, <4>8 DEF Alike
    <3> QED BY <1>4, <1>8, <2>2, <3>1, <3>2 DEF Accounted
  <2>3. CASE \E g \in past.gone : g.id = r.ref
    BY <1>8, <2>3 DEF Accounted
  <2> QED BY <2>1, <2>2, <2>3
<1>16. ASSUME NEW m \in Uttered, m.kind = "bust", m.id \in DOMAIN store'.execs
       PROVE  Accounted(m.ref)'
  <2>1. CASE m.id = r.id
    <3>1. r.kind = "bust" /\ m.ref = r.ref
      BY <1>9, <1>16, <2>1, FillsAndBustsAreReports DEF Alike, IsReport
    <3> QED BY <1>15, <3>1
  <2>2. CASE m.id # r.id
    BY <1>7, <1>14, <1>16, <2>2
  <2> QED BY <2>1, <2>2
<1> QED BY <1>7, <1>8, <1>10, <1>11, <1>12, <1>13, <1>16 DEF RecordsInv

LEMMA ReaderRecords ==
  ASSUME SendInv, TrafficInv, RecordsInv, Reader
  PROVE  RecordsInv'
<1>1. CASE Publish
  <2>1. /\ hand.busy /\ hand' = NoHand /\ toUs' = Tail(toUs)
        /\ past' = [past EXCEPT !.passed = @ \cup {Now}]
        /\ UNCHANGED <<store, venue>>
    BY <1>1 DEF Publish, Passed
  <2>2. past'.passed = past.passed \cup {Now} /\ past'.gone = past.gone
    BY <2>1 DEF TrafficInv
  <2>3. ReadsOn
    BY <2>1 DEF ReadsOn, TrafficInv
  <2>4. MessagesKept
    BY <2>1, <2>2, <2>3, SameMessages
  <2>5. ~hand'.busy
    BY <2>1 DEF NoHand
  <2> QED BY <2>1, <2>4, <2>5, SameStore, QuietRecords
<1>2. CASE ApplyStatus
  <2>1. /\ ~hand.busy /\ toUs # <<>> /\ toUs' = Tail(toUs) /\ UNCHANGED <<venue, hand, past>>
    BY <1>2 DEF ApplyStatus, Reading
  <2>2. \/ \E id : store' = Quarantine(store, Entry(id, FALSE))
        \/ \E row : store' = PutOrder(store, row)
    BY <1>2 DEF ApplyStatus
  <2>3. StoreKept
    BY <2>2, QuarantineAdds, RowsAside
  <2> QED BY <2>1, <2>3, PastIsSame, DroppingRecords DEF ReadsOn
<1>3. CASE OnCancelReject \/ OnBusinessReject
  <2>1. /\ ~hand.busy /\ toUs # <<>> /\ toUs' = Tail(toUs)
        /\ UNCHANGED <<store, venue, hand, past>>
    BY <1>3 DEF OnCancelReject, OnBusinessReject, Reading
  <2> QED BY <2>1, SameStore, PastIsSame, DroppingRecords DEF ReadsOn
<1> QED
  BY <1>1, <1>2, <1>3, DropRepeatRecords, QuarantineRecords, ApplyReportRecords DEF Reader

LEMMA FaultsRecords ==
  ASSUME TrafficInv, RecordsInv, Faults
  PROVE  RecordsInv'
<1>1. CASE SessionDown \/ SessionReady \/ GapFilledOut
  <2>1. UNCHANGED <<store, past, hand, toUs, venue>>
    BY <1>1 DEF SessionDown, SessionReady, GapFilledOut, netVars
  <2> QED BY <2>1, PastIsSame, SameStore, StillRecords
<1>2. ASSUME NEW ours, LoseUnread(ours) PROVE RecordsInv'
  <2>1. ~hand.busy /\ toUs' = <<>> /\ UNCHANGED <<venue, hand>>
    BY <1>2 DEF LoseUnread
  <2>2. UNCHANGED past \/ \E hidden : past' = [past EXCEPT !.hidden = hidden]
    BY <1>2 DEF LoseUnread
  <2>3. UNCHANGED store \/ store' = Quarantine(store, Entry(0, TRUE))
    BY <1>2 DEF LoseUnread
  <2>4. StoreKept
    BY <2>3, SameStore, QuarantineAdds
  <2> QED BY <2>1, <2>2, <2>4, PastIsSame, DroppingRecords DEF ReadsOn
<1>3. CASE GapFilledIn
  <2>1. /\ ~hand.busy /\ toUs # <<>> /\ toUs' = Tail(toUs)
        /\ past' = [past EXCEPT !.gone = @ \cup {Now}]
        /\ UNCHANGED <<store, hand, venue>>
    BY <1>3 DEF GapFilledIn
  <2> QED BY <2>1, SameStore, DroppingRecords DEF ReadsOn
<1>4. CASE Crash
  <2>1. /\ hand' = NoHand /\ past' = [past EXCEPT !.due = {}]
        /\ UNCHANGED <<store, toUs, venue>>
    BY <1>4 DEF Crash, netVars
  <2>2. ~hand'.busy
    BY <2>1 DEF NoHand
  <2>3. SamePassed
    BY <2>1, PastIsSame
  <2> QED BY <2>1, <2>2, <2>3, SameStore, DroppingRecords DEF ReadsOn
<1>5. ASSUME NEW o \in Operators, Look(o) PROVE RecordsInv'
  <2>1. UNCHANGED <<store, past, hand, toUs, venue>>
    BY <1>5 DEF Look, netVars
  <2> QED BY <2>1, PastIsSame, SameStore, StillRecords
<1>6. ASSUME NEW o \in Operators, Release(o) PROVE RecordsInv'
  <2>1. /\ store' = ReleaseQuarantine(store, o, looked[o])
        /\ UNCHANGED <<past, hand, toUs, venue>>
    BY <1>6 DEF Release, netVars
  <2> QED BY <2>1, PastIsSame, ReleaseKeeps, StillRecords
<1> QED BY <1>1, <1>2, <1>3, <1>4, <1>5, <1>6 DEF Faults

LEMMA VenueRecords ==
  ASSUME TrafficInv, RecordsInv, Venue
  PROVE  RecordsInv'
<1>1. UNCHANGED <<store, hand, past>>
  BY DEF Venue, VenueTakes, VenueFills, VenueBusts, VenueRepeats
<1> QED BY <1>1, VenueTraffic, SpeakingRecords

LEMMA RecordsKept ==
  ASSUME SendInv, TrafficInv, RecordsInv, [Next]_vars
  PROVE  RecordsInv'
<1>1. CASE UNCHANGED vars
  BY <1>1, PastIsSame, SameStore, StillRecords DEF vars
<1> QED
  BY <1>1, PlacingRecords, AskingRecords, StreamRecords, ReaderRecords, FaultsRecords,
     VenueRecords DEF Next

LEMMA InitRecords == Init => RecordsInv /\ DueInv
<1> SUFFICES ASSUME Init PROVE RecordsInv /\ DueInv
  OBVIOUS
<1>1. /\ store = NoOrderRows /\ hand = NoHand /\ toUs = <<>>
      /\ stream = [open |-> FALSE, queue |-> <<>>]
      /\ past = [news |-> 0, passed |-> {}, due |-> {}, gone |-> {}, hidden |-> FALSE]
  BY DEF Init
<1>2. /\ "execs" \in DOMAIN store /\ "held" \in DOMAIN store
      /\ store.execs = <<>> /\ store.held = <<>> /\ ~hand.busy /\ hand.events = <<>>
      /\ DOMAIN store.execs = {} /\ DOMAIN store.held = {}
  BY <1>1 DEF NoOrderRows, NoHand
<1>3. Uttered = {} /\ IsSequence(store.held)
  BY <1>1, <1>2, EmptySequence DEF Uttered
<1>4. RecordsInv
  BY <1>1, <1>2, <1>3 DEF RecordsInv, RecordsShape
<1>5. DueInv
  BY <1>1, <1>2, EmptySequence DEF DueInv
<1> QED BY <1>4, <1>5

(* Nothing the session has moved past is forgotten, in any reachable state: not a fill, *)
(* not a bust, whatever crashed, was lost, repeated or came in another order, and every *)
(* fill stored since the process started is on its way to the order manager             *)
(* (_apply_report, _quarantine, _halt_order, stream_executions).                        *)
THEOREM NothingIsForgotten == Spec => []NothingForgotten
<1> DEFINE Inv == SendInv /\ TrafficInv /\ RecordsInv /\ DueInv
<1>1. Init => Inv
  BY InitSendInv, InitTraffic, InitRecords
<1>2. Inv /\ [Next]_vars => Inv'
  <2> SUFFICES ASSUME Inv, [Next]_vars PROVE Inv'
    OBVIOUS
  <2>1. SendInv'
    BY SendInvKept
  <2>2. TrafficInv'
    BY TrafficKept
  <2>3. RecordsInv'
    BY RecordsKept
  <2>4. DueInv'
    <3>1. DOMAIN store.execs \in SUBSET (1..venue.execs) /\ venue.execs \in Nat
      BY DEF RecordsInv, TrafficInv, Consistent
    <3>2. IsFiniteSet(1..venue.execs)
      BY <3>1, FS_Interval
    <3>3. IsFiniteSet(DOMAIN store.execs)
      BY <3>1, <3>2, FS_Subset
    <3> QED BY <3>3, DueKept
  <2> QED BY <2>1, <2>2, <2>3, <2>4
<1>3. Inv => NothingForgotten
  <2> SUFFICES ASSUME Inv PROVE NothingForgotten
    OBVIOUS
  <2>1. ASSUME NEW r \in past.passed
        PROVE  r.kind = "fill" =>
                 Halts(r.id) \/ (Stored(r.id) /\ r.content = store.execs[r.id].content)
    BY DEF RecordsInv, OnRecord
  <2>2. ASSUME NEW r \in past.passed, r.kind = "bust", ~Halts(r.id)
        PROVE  (Stored(r.ref) => store.execs[r.ref].busted) \/ \E g \in past.gone : g.id = r.ref
    <3>1. r \in Uttered /\ r.id \in DOMAIN store.execs
      BY <2>2 DEF RecordsInv, OnRecord, Uttered
    <3>2. Accounted(r.ref)
      BY <2>2, <3>1 DEF RecordsInv
    <3> QED BY <3>2 DEF Accounted, Stored
  <2> QED BY <2>1, <2>2 DEF DueInv, NothingForgotten
<1> QED BY <1>1, <1>2, <1>3, PTL DEF Spec

-------------------------------------------------------------------------------
(* The quantity the order's row carries.  There is a history: which fills stood after  *)
(* each of the venue's ExecIDs, and up to which ExecID the session has come.           *)
RowFields == {"status", "wire", "chain", "acked", "filled"}
Excused == past.hidden \/ Halts(0) \/ BustAfterLoss

\* What the venue said tells how the fills that stood changed with it.
Tells(m, stood, busts) ==
  /\ m.cum = Cardinality(stood[m.id])
  /\ m.qty = IF m.kind = "fill" THEN 1 ELSE 0
  /\ m.kind = "fill" => stood[m.id] = stood[m.id - 1] \cup {m.id}
  /\ m.kind = "bust" => stood[m.id] = stood[m.id - 1] \ {m.ref} /\ busts # 0
  /\ m.kind \notin {"fill", "bust"} => stood[m.id] = stood[m.id - 1]
  /\ Unreadable(m) => m.kind = "fill"
Grows(stood, last) == \A x, y \in 0..last : x <= y => stood[x] \subseteq stood[y]
HistoryIs(stood) ==
  /\ \A x \in 0..venue.execs : stood[x] \subseteq 1..x
  /\ stood[venue.execs] = venue.live
  /\ venue.busts = 0 => Grows(stood, venue.execs)
  /\ \A m \in Uttered : IsReport(m) => Tells(m, stood, venue.busts)

\* The reports come in order, and what comes again was met before.
Original(m) == ~m.resend /\ m.content # "other"
Ahead(m, n) == Original(m) /\ m.id > n
Met(m, n) == m.id <= n /\ (Seen(m) \/ Unreadable(m) \/ (m.resend /\ past.gone # {}))
Ascends(queue) ==
  \A j, k \in DOMAIN queue :
    j < k /\ IsReport(queue[j]) /\ IsReport(queue[k]) /\ Original(queue[j]) /\ Original(queue[k])
    => queue[j].id < queue[k].id
Comes(queue, x) == \E m \in Range(queue) : IsReport(m) /\ Original(m) /\ m.id = x
ReadUpTo(n) ==
  /\ n \in 0..venue.execs
  /\ DOMAIN store.execs \subseteq 1..n
  /\ \A m \in Behind : IsReport(m) => m.id <= n
  /\ Ascends(toUs)
  /\ \A m \in Range(toUs) : IsReport(m) => Ahead(m, n) \/ Met(m, n)
  /\ past.gone = {} => \A x \in (n + 1)..venue.execs : Comes(toUs, x)

BooksAgree(stood, n) ==
  /\ FillsSince(store) \subseteq stood[n]
  /\ past.news = 1 \/ FillsSince(store) = {}
  /\ EverHalted \/ past.gone # {} \/ FillsSince(store) = stood[n]
  /\ Known => /\ DOMAIN store.row = RowFields /\ store.row.filled \in Nat
              /\ store.row.filled >= Booked
              /\ EverHalted \/ store.row.filled = Booked

AccountShape == /\ "hidden" \in DOMAIN past /\ "busts" \in DOMAIN venue
                /\ venue.busts \in Nat
Account(stood, n) == HistoryIs(stood) /\ ReadUpTo(n) /\ BooksAgree(stood, n)
AccountInv == AccountShape /\ (Excused \/ \E stood, n : Account(stood, n))

\* What excuses once excuses always.
LossKept ==
  /\ AccountShape'
  /\ HeldStays
  /\ past.hidden => past'.hidden
  /\ past.gone \subseteq past'.gone
  /\ venue'.busts >= venue.busts

LEMMA ExcusedStays ==
  ASSUME AccountShape, LossKept, Excused
  PROVE  AccountInv'
<1>1. past.hidden => past'.hidden
  BY DEF LossKept
<1>2. Halts(0) => Halts(0)'
  BY DEF LossKept, HeldStays, Halts
<1>3. BustAfterLoss => BustAfterLoss'
  <2>1. venue.busts > 0 => venue'.busts > 0
    BY DEF LossKept, AccountShape
  <2> QED BY <2>1 DEF LossKept, BustAfterLoss
<1> QED BY <1>1, <1>2, <1>3 DEF LossKept, AccountInv, Excused

\* The sets of fills are finite.
LEMMA StoodIsFinite ==
  ASSUME TrafficInv, NEW stood, HistoryIs(stood), NEW x \in 0..venue.execs
  PROVE  IsFiniteSet(stood[x]) /\ Cardinality(stood[x]) \in Nat
<1>1. stood[x] \in SUBSET (1..x) /\ x \in Int
  BY DEF HistoryIs, TrafficInv, Consistent
<1>2. IsFiniteSet(stood[x])
  BY <1>1, FS_Interval, FS_Subset
<1> QED BY <1>2, FS_CardinalityType

LEMMA FewerThan ==
  ASSUME NEW S, IsFiniteSet(S), NEW T, T \subseteq S
  PROVE  /\ IsFiniteSet(T) /\ Cardinality(T) \in Nat /\ Cardinality(S) \in Nat
         /\ Cardinality(T) <= Cardinality(S)
<1>1. T \in SUBSET S
  OBVIOUS
<1>2. IsFiniteSet(T) /\ Cardinality(T) <= Cardinality(S)
  BY <1>1, FS_Subset
<1> QED BY <1>2, FS_CardinalityType

-------------------------------------------------------------------------------
\* A step that books nothing: the executions stay, and what the row has filled.
SameFilled(new, row) ==
  /\ DOMAIN new = DOMAIN row
  /\ "filled" \in DOMAIN row => new.filled = row.filled
RowKept ==
  /\ store'.execs = store.execs /\ HeldStays
  /\ Known' => \/ Known /\ SameFilled(store'.row, store.row)
               \/ past.news # 1 /\ DOMAIN store'.row = RowFields /\ store'.row.filled = 0

LEMMA BooksStay ==
  ASSUME NEW stood, NEW n, NEW m, BooksAgree(stood, n), RowKept,
         past'.news = past.news \/ past'.news = 1,
         past.gone # {} => past'.gone # {},
         stood[n] \subseteq stood[m],
         EverHalted' \/ past'.gone # {} \/ stood[m] = stood[n]
  PROVE  BooksAgree(stood, m)'
<1>1. FillsSince(store)' = FillsSince(store) /\ Booked' = Booked
  BY DEF RowKept, FillsSince, Booked
<1>2. EverHalted => EverHalted'
  BY DEF RowKept, HeldStays, EverHalted
<1>3. past.news # 1 => Booked = 0
  <2>1. past.news # 1 => FillsSince(store) = {}
    BY DEF BooksAgree
  <2> QED BY <2>1, FS_EmptySet DEF Booked
<1>4. ASSUME Known'
      PROVE  /\ DOMAIN store'.row = RowFields /\ store'.row.filled \in Nat
             /\ store'.row.filled >= Booked
             /\ EverHalted \/ store'.row.filled = Booked
  <2>1. CASE Known /\ SameFilled(store'.row, store.row)
    <3>1. DOMAIN store.row = RowFields /\ "filled" \in RowFields
      BY <2>1 DEF BooksAgree, RowFields
    <3>2. DOMAIN store'.row = RowFields /\ store'.row.filled = store.row.filled
      BY <2>1, <3>1 DEF SameFilled
    <3> QED BY <2>1, <3>1, <3>2 DEF BooksAgree
  <2>2. CASE past.news # 1 /\ DOMAIN store'.row = RowFields /\ store'.row.filled = 0
    BY <1>3, <2>2
  <2> QED BY <1>4, <2>1, <2>2 DEF RowKept
<1>5. FillsSince(store) \subseteq stood[m]
  BY DEF BooksAgree
<1>6. EverHalted' \/ past'.gone # {} \/ FillsSince(store) = stood[m]
  BY <1>2 DEF BooksAgree
<1>7. past'.news = 1 \/ FillsSince(store) = {}
  BY DEF BooksAgree
<1>8. Known' => /\ DOMAIN store'.row = RowFields /\ store'.row.filled \in Nat
                /\ store'.row.filled >= Booked'
                /\ EverHalted' \/ store'.row.filled = Booked'
  BY <1>1, <1>2, <1>4
<1> QED BY <1>1, <1>5, <1>6, <1>7, <1>8 DEF BooksAgree

\* Nothing is read and nothing said.
LEMMA AccountStays ==
  ASSUME TrafficInv, AccountInv, RowKept, UNCHANGED <<toUs, venue>>, SamePassed,
         "hidden" \in DOMAIN past', past'.hidden = past.hidden,
         past'.news = past.news \/ past'.news = 1
  PROVE  AccountInv'
<1>1. LossKept
  BY DEF AccountInv, AccountShape, LossKept, RowKept, SamePassed
<1>2. CASE Excused
  BY <1>1, <1>2, ExcusedStays DEF AccountInv
<1>3. ASSUME NEW stood, NEW n, Account(stood, n) PROVE AccountInv'
  <2>1. Uttered' = Uttered /\ Behind' = Behind
    BY DEF SamePassed, Uttered, Behind
  <2>2. HistoryIs(stood)'
    BY <1>3, <2>1 DEF Account, HistoryIs
  <2>3. ReadUpTo(n)'
    <3>1. \A m : Met(m, n)' <=> Met(m, n)
      BY DEF Met, Seen, RowKept, SamePassed, Unreadable
    <3> QED BY <1>3, <2>1, <3>1 DEF Account, ReadUpTo, RowKept, SamePassed
  <2>4. BooksAgree(stood, n)'
    BY <1>3, BooksStay DEF Account, SamePassed
  <2>5. Account(stood, n)'
    BY <2>2, <2>3, <2>4 DEF Account
  <2> QED BY <1>1, <2>5 DEF AccountInv, LossKept
<1> QED BY <1>2, <1>3 DEF AccountInv

\* The head of the queue is read.  The next report that was not met before has the next
\* ExecID, unless one was gap-filled away.
NextRead(n) == IF IsReport(Now) /\ Now.id > n THEN Now.id ELSE n

LEMMA NextReport ==
  ASSUME TrafficInv, NEW n, ReadUpTo(n), toUs # <<>>, IsReport(Now), Now.id > n
  PROVE  /\ Original(Now) /\ Now.id \in (n + 1)..venue.execs
         /\ n \in Nat /\ venue.execs \in Nat
         /\ past.gone = {} => Now.id = n + 1
         /\ \A m \in Range(Tail(toUs)) : IsReport(m) /\ Original(m) => m.id > Now.id
<1>1. /\ Len(toUs) \in Nat \ {0} /\ DOMAIN toUs = 1..Len(toUs) /\ Now = toUs[1]
      /\ Range(toUs) = {Now} \cup Range(Tail(toUs))
      /\ DOMAIN Tail(toUs) = 1..(Len(toUs) - 1)
      /\ \A i \in 1..(Len(toUs) - 1) : Tail(toUs)[i] = toUs[i + 1]
  BY FirstValue DEF TrafficInv, Now
<1>2. Now \in Uttered /\ \A m \in Range(toUs) : IsReport(m) => m.id \in 1..venue.execs
  BY <1>1 DEF TrafficInv, Consistent, WellSaid, Uttered
<1>3. n \in Nat /\ venue.execs \in Nat
  BY DEF ReadUpTo, TrafficInv, Consistent
<1>4. Original(Now) /\ Now.id \in (n + 1)..venue.execs
  BY <1>1, <1>2, <1>3 DEF ReadUpTo, Ahead, Met
<1>5. ASSUME NEW m \in Range(Tail(toUs)), IsReport(m), Original(m) PROVE m.id > Now.id
  <2> DEFINE t == Tail(toUs)
  <2>1. PICK i \in DOMAIN t : t[i] = m
    BY <1>5 DEF Range
  <2>2. i \in 1..(Len(toUs) - 1) /\ m = toUs[i + 1]
    BY <1>1, <2>1
  <2> HIDE DEF t
  <2>3. 1 \in DOMAIN toUs /\ i + 1 \in DOMAIN toUs /\ 1 < i + 1
    BY <1>1, <2>2
  <2>4. Now.id < m.id
    BY <1>1, <1>4, <1>5, <2>2, <2>3 DEF ReadUpTo, Ascends
  <2>5. m.id \in Nat /\ Now.id \in Nat
    BY <1>1, <1>2, <1>3, <1>4, <1>5
  <2> QED BY <2>4, <2>5
<1>6. ASSUME past.gone = {} PROVE Now.id = n + 1
  <2>1. n + 1 \in (n + 1)..venue.execs
    BY <1>3, <1>4
  <2>2. PICK m \in Range(toUs) : IsReport(m) /\ Original(m) /\ m.id = n + 1
    BY <1>6, <2>1 DEF ReadUpTo, Comes
  <2>3. CASE m = Now
    BY <2>2, <2>3
  <2>4. CASE m \in Range(Tail(toUs))
    BY <1>3, <1>4, <1>5, <2>2, <2>4
  <2> QED BY <1>1, <2>3, <2>4
<1> QED BY <1>3, <1>4, <1>5, <1>6

LEMMA TailAscends ==
  ASSUME NEW q, IsSequence(q), q # <<>>, Ascends(q)
  PROVE  Ascends(Tail(q))
<1> DEFINE t == Tail(q)
<1>1. /\ Len(q) \in Nat \ {0} /\ DOMAIN q = 1..Len(q) /\ DOMAIN t = 1..(Len(q) - 1)
      /\ \A i \in 1..(Len(q) - 1) : t[i] = q[i + 1]
  BY FirstValue
<1> HIDE DEF t
<1>2. \A i \in DOMAIN t : i \in Nat /\ i + 1 \in DOMAIN q /\ t[i] = q[i + 1]
  BY <1>1
<1>3. \A j, k \in DOMAIN t : j < k => j + 1 < k + 1
  BY <1>2
<1>4. Ascends(t)
  BY <1>2, <1>3 DEF Ascends
<1> QED BY <1>4 DEF t

LEMMA HeadIsRead ==
  ASSUME TrafficInv, NEW n, ReadUpTo(n), toUs # <<>>, toUs' = Tail(toUs), UNCHANGED venue,
         store'.execs = store.execs, past.gone \subseteq past'.gone,
         Behind' \subseteq Behind \cup {Now}, NEW next, next = NextRead(n)
  PROVE  ReadUpTo(next)'
<1>1. /\ Range(toUs) = {Now} \cup Range(toUs') /\ IsSequence(toUs) /\ Now \in Range(toUs)
      /\ venue.execs \in Nat /\ n \in Nat /\ n <= venue.execs
  BY FirstValue DEF TrafficInv, Consistent, Now, ReadUpTo
<1>2. CASE IsReport(Now) /\ Now.id > n
  <2>1. /\ next = Now.id /\ next \in 0..venue.execs /\ next >= n
        /\ \A m \in Range(toUs') : IsReport(m) /\ Original(m) => m.id > next
        /\ past.gone = {} => next = n + 1
    BY <1>1, <1>2, NextReport DEF NextRead
  <2>2. DOMAIN store'.execs \subseteq 1..next
    <3>1. 1..n \subseteq 1..next
      BY <1>1, <2>1
    <3> QED BY <3>1 DEF ReadUpTo
  <2>3. \A m \in Behind' : IsReport(m) => m.id <= next
    <3>1. \A m \in Behind : IsReport(m) => m.id \in Nat /\ m.id <= n
      BY <1>1 DEF ReadUpTo, TrafficInv, Consistent, WellSaid, Uttered, Behind
    <3> QED BY <1>1, <2>1, <3>1
  <2>4. ASSUME NEW m \in Range(toUs'), IsReport(m) PROVE Ahead(m, next) \/ Met(m, next)'
    <3>1. CASE Ahead(m, n)
      BY <2>1, <2>4, <3>1 DEF Ahead
    <3>2. CASE Met(m, n)
      <4>1. m.id \in Nat
        BY <1>1, <2>4 DEF TrafficInv, Consistent, WellSaid, Uttered
      <4>2. m.id <= next
        BY <1>1, <2>1, <3>2, <4>1 DEF Met
      <4>3. Seen(m) => Seen(m)'
        BY DEF Seen
      <4> QED BY <3>2, <4>2, <4>3 DEF Met, Unreadable
    <3> QED BY <1>1, <2>4, <3>1, <3>2 DEF ReadUpTo
  <2>5. ASSUME past'.gone = {}, NEW x \in (next + 1)..venue.execs PROVE Comes(toUs', x)
    <3>1. past.gone = {} /\ next = n + 1 /\ x \in (n + 1)..venue.execs /\ x # Now.id
      BY <1>1, <2>1, <2>5
    <3>2. Comes(toUs, x)
      BY <3>1 DEF ReadUpTo
    <3> QED BY <1>1, <3>1, <3>2 DEF Comes
  <2>6. Ascends(toUs')
    BY <1>1, TailAscends DEF ReadUpTo
  <2>7. \A m \in Range(toUs') : IsReport(m) => Ahead(m, next)' \/ Met(m, next)'
    BY <2>4 DEF Ahead, Original
  <2> QED BY <2>1, <2>2, <2>3, <2>5, <2>6, <2>7 DEF ReadUpTo, Ascends, Comes
<1>3. CASE ~(IsReport(Now) /\ Now.id > n)
  <2>1. next = n
    BY <1>3 DEF NextRead
  <2>2. \A m \in Behind' : IsReport(m) => m.id <= n
    <3>1. IsReport(Now) => Now.id <= n
      BY <1>1, <1>3 DEF ReadUpTo, Ahead, Met
    <3> QED BY <3>1 DEF ReadUpTo
  <2>3. ASSUME NEW m \in Range(toUs'), IsReport(m) PROVE Ahead(m, n)' \/ Met(m, n)'
    <3>1. Ahead(m, n) \/ Met(m, n)
      BY <1>1, <2>3 DEF ReadUpTo
    <3>2. (Seen(m) => Seen(m)') /\ (past.gone # {} => past'.gone # {})
      BY DEF Seen
    <3> QED BY <3>1, <3>2 DEF Ahead, Original, Met, Unreadable
  <2>4. ASSUME past'.gone = {}, NEW x \in (n + 1)..venue.execs PROVE Comes(toUs', x)
    <3>1. past.gone = {}
      BY <2>4
    <3>2. PICK m \in Range(toUs) : IsReport(m) /\ Original(m) /\ m.id = x
      BY <3>1 DEF ReadUpTo, Comes
    <3>3. m # Now
      BY <1>1, <1>3, <2>4, <3>2
    <3> QED BY <1>1, <3>2, <3>3 DEF Comes
  <2>5. Ascends(toUs')
    BY <1>1, TailAscends DEF ReadUpTo
  <2>6. ReadUpTo(n)'
    BY <2>2, <2>3, <2>4, <2>5 DEF ReadUpTo, Ascends, Comes
  <2> QED BY <2>1, <2>6
<1> QED BY <1>2, <1>3

LEMMA AccountReads ==
  ASSUME TrafficInv, AccountInv, RowKept, toUs # <<>>, toUs' = Tail(toUs), UNCHANGED venue,
         "hidden" \in DOMAIN past', past'.hidden = past.hidden,
         past'.news = past.news, past.gone \subseteq past'.gone,
         Behind' \subseteq Behind \cup {Now},
         IsReport(Now) => \/ Now.id \in DOMAIN store.execs
                          \/ past'.gone # {}
                          \/ Unreadable(Now) /\ EverHalted'
  PROVE  AccountInv'
<1>1. LossKept
  BY DEF AccountInv, AccountShape, LossKept, RowKept
<1>2. CASE Excused
  BY <1>1, <1>2, ExcusedStays DEF AccountInv
<1>3. ASSUME NEW stood, NEW n, Account(stood, n), ~Excused' PROVE AccountInv'
  <2> PICK next : next = NextRead(n)
    OBVIOUS
  <2>1. ReadUpTo(next)'
    BY <1>3, HeadIsRead DEF Account, RowKept
  <2>2. Range(toUs') \subseteq Range(toUs) /\ Now \in Range(toUs) /\ n \in 0..venue.execs
    BY <1>3, FirstValue DEF TrafficInv, Now, Account, ReadUpTo
  <2>3. Uttered' \subseteq Uttered /\ Now \in Uttered
    BY <2>2 DEF Uttered, Behind
  <2>4. HistoryIs(stood)'
    BY <1>3, <2>3 DEF Account, HistoryIs
  <2>5. /\ stood[n] \subseteq stood[next]
        /\ EverHalted' \/ past'.gone # {} \/ stood[next] = stood[n]
    <3>1. CASE next = n
      BY <3>1
    <3>2. CASE next # n
      <4>1. IsReport(Now) /\ Now.id > n /\ next = Now.id
        BY <3>2 DEF NextRead
      <4>2. /\ next \in (n + 1)..venue.execs /\ n \in Nat /\ venue.execs \in Nat
            /\ past.gone = {} => next = n + 1
        BY <1>3, <4>1, NextReport DEF Account
      <4>3. Now.id \notin DOMAIN store.execs
        BY <1>3, <4>1, <4>2 DEF Account, ReadUpTo
      <4>4. CASE past'.gone # {}
        <5>1. venue.busts = 0
          BY <1>3, <4>4 DEF AccountInv, AccountShape, Excused, BustAfterLoss
        <5>2. Grows(stood, venue.execs)
          BY <1>3, <5>1 DEF Account, HistoryIs
        <5>3. n <= next /\ n \in 0..venue.execs /\ next \in 0..venue.execs
          BY <4>2
        <5> QED BY <4>4, <5>2, <5>3 DEF Grows
      <4>5. CASE past'.gone = {}
        <5>1. Unreadable(Now) /\ EverHalted' /\ next = n + 1
          BY <4>1, <4>2, <4>3, <4>5
        <5>2. Tells(Now, stood, venue.busts)
          BY <1>3, <2>3, <4>1 DEF Account, HistoryIs
        <5>3. stood[next] = stood[next - 1] \cup {next} /\ next - 1 = n
          BY <4>1, <4>2, <5>1, <5>2 DEF Tells
        <5> QED BY <5>1, <5>3
      <4> QED BY <4>4, <4>5
    <3> QED BY <3>1, <3>2
  <2>6. past.gone # {} => past'.gone # {}
    OBVIOUS
  <2>7. BooksAgree(stood, next)'
    BY <1>3, <2>5, <2>6, BooksStay DEF Account
  <2>8. Account(stood, next)'
    BY <2>1, <2>4, <2>7 DEF Account
  <2> QED BY <1>1, <2>8 DEF AccountInv, LossKept
<1> QED BY <1>1, <1>2, <1>3 DEF AccountInv, LossKept

-------------------------------------------------------------------------------
\* A report is applied.
LEMMA FillsAfter ==
  ASSUME RecordsInv, "row" \in DOMAIN store,
         NEW row, NEW id, NEW e, NEW bust, NEW quarantine,
         id \notin DOMAIN store.execs, DOMAIN e = {"content", "fill", "busted"},
         e.fill \in {0, 1}, ~e.busted,
         store' = RecordReport(store, row, id, e, bust, quarantine)
  PROVE  /\ store'.row = row
         /\ FillsSince(store)' =
              (FillsSince(store) \cup (IF e.fill = 1 THEN {id} ELSE {})) \ {bust}
<1> DEFINE with == WithExecution(store, id, e)
           marked == MarkBusted(with, bust)
<1>1. store'.row = row /\ store'.execs = marked
  BY DEF RecordReport, RecordsInv, RecordsShape
<1>2. /\ DOMAIN with = DOMAIN store.execs \cup {id} /\ with[id] = e
      /\ \A x \in DOMAIN store.execs : with[x] = store.execs[x]
  BY DEF WithExecution
<1> HIDE DEF with
<1>3. /\ DOMAIN marked = DOMAIN with
      /\ \A x \in DOMAIN with :
           marked[x] = IF x = bust THEN [with[x] EXCEPT !.busted = TRUE] ELSE with[x]
  BY DEF MarkBusted
<1> HIDE DEF marked
<1>4. ASSUME NEW x \in DOMAIN with
      PROVE  /\ x = bust => marked[x].busted
             /\ x # bust => marked[x] = with[x]
  <2>1. DOMAIN with[x] = {"content", "fill", "busted"}
    BY <1>2 DEF RecordsInv, RecordsShape
  <2>2. CASE x = bust
    <3>1. marked[x] = [with[x] EXCEPT !.busted = TRUE]
      BY <1>3, <2>2
    <3> QED BY <2>1, <2>2, <3>1
  <2>3. CASE x # bust
    BY <1>3, <2>3
  <2> QED BY <2>2, <2>3
<1>5. FillsSince(store)' = {x \in DOMAIN with : marked[x].fill > 0 /\ ~marked[x].busted}
  BY <1>1, <1>3 DEF FillsSince
<1>6. ASSUME NEW x
      PROVE  x \in FillsSince(store)' <=>
               x \in (FillsSince(store) \cup (IF e.fill = 1 THEN {id} ELSE {})) \ {bust}
  <2>1. x \in FillsSince(store)' <=>
          x \in DOMAIN with /\ x # bust /\ with[x].fill > 0 /\ ~with[x].busted
    BY <1>4, <1>5
  <2>2. x \in DOMAIN store.execs =>
          (x \in FillsSince(store) <=> with[x].fill > 0 /\ ~with[x].busted) /\ x # id
    BY <1>2 DEF FillsSince
  <2>3. x \notin DOMAIN store.execs => x \notin FillsSince(store)
    BY DEF FillsSince
  <2>4. with[id].fill > 0 /\ ~with[id].busted <=> e.fill = 1
    BY <1>2
  <2> QED BY <1>2, <2>1, <2>2, <2>3, <2>4
<1> QED BY <1>1, <1>6

LEMMA LargestOfTwo ==
  ASSUME NEW a \in Nat, NEW b \in Nat
  PROVE  Max({a, b}) \in Nat /\ Max({a, b}) >= b
<1>1. \E x \in {a, b} : \A y \in {a, b} : x >= y
  OBVIOUS
<1> QED BY <1>1 DEF Max

\* What a report leaves in the row.
LEMMA RowAfter ==
  ASSUME NEW row, DOMAIN row = RowFields, row.filled \in Nat,
         NEW r, r.cum \in Nat, r.qty \in Nat, NEW new, new = Preserved(row, r)
  PROVE  /\ DOMAIN new = RowFields /\ new.filled \in Nat
         /\ r.kind = "dupReject" => new.filled = row.filled
         /\ r.kind # "dupReject" /\ ~(r.resend /\ TotalDiffers(row, r)) => new.filled = r.cum
         /\ r.kind # "dupReject" /\ r.resend /\ TotalDiffers(row, r)
              => new.filled >= row.filled + r.qty
<1>0. row # NoRow
  <2>1. "wire" \in DOMAIN row
    BY DEF RowFields
  <2> QED BY <2>1, RowIsNotNoRow
<1>u. PICK upd : upd = Updated(row, r)
  OBVIOUS
<1>1. /\ DOMAIN upd = RowFields /\ upd.filled \in Nat
      /\ upd.filled = IF r.kind = "dupReject" THEN row.filled ELSE r.cum
  <2>1. CASE r.kind = "dupReject"
    BY <1>u, <2>1 DEF Updated
  <2>2. CASE r.kind # "dupReject"
    <3>1. PICK status, acked, wire :
            upd = [row EXCEPT !.filled = r.cum, !.status = status, !.acked = acked, !.wire = wire]
      BY <1>0, <1>u, <2>2 DEF Updated
    <3>2. DOMAIN upd = RowFields /\ upd.filled = r.cum
      BY <3>1 DEF RowFields
    <3> QED BY <2>2, <3>2
  <2> QED BY <2>1, <2>2
<1>2. CASE ~(r.resend /\ TotalDiffers(row, r))
  <2>1. new = upd
    BY <1>2, <1>u DEF Preserved
  <2> QED BY <1>1, <1>2, <2>1
<1>3. CASE r.resend /\ TotalDiffers(row, r)
  <2>1. PICK status : new = [upd EXCEPT !.filled = Max({upd.filled, row.filled + r.qty}),
                                        !.status = status]
    BY <1>3, <1>u DEF Preserved
  <2>2. PICK top : top = Max({upd.filled, row.filled + r.qty})
    OBVIOUS
  <2>3. top \in Nat /\ top >= row.filled + r.qty
    <3>1. row.filled + r.qty \in Nat
      OBVIOUS
    <3> QED BY <1>1, <2>2, <3>1, LargestOfTwo
  <2>4. new = [upd EXCEPT !.filled = top, !.status = status]
    BY <2>1, <2>2
  <2>5. DOMAIN new = RowFields /\ new.filled = top
    BY <1>1, <2>4 DEF RowFields
  <2>6. r.kind # "dupReject"
    BY <1>3 DEF TotalDiffers
  <2> QED BY <1>3, <2>3, <2>5, <2>6
<1> QED BY <1>2, <1>3

\* The fills that stand after a report, and those that are booked after it.
LEMMA BookedAfter ==
  ASSUME NEW S, IsFiniteSet(S), NEW id, id \notin S, NEW qty \in {0, 1},
         NEW T, T = S \cup (IF qty = 1 THEN {id} ELSE {})
  PROVE  /\ IsFiniteSet(T) /\ Cardinality(S) \in Nat
         /\ Cardinality(T) = Cardinality(S) + qty
<1>1. Cardinality(S) \in Nat
  BY FS_CardinalityType
<1>2. CASE qty = 1
  <2>1. T = S \cup {id}
    BY <1>2
  <2>2. IsFiniteSet(S \cup {id}) /\ Cardinality(S \cup {id}) = Cardinality(S) + 1
    BY FS_AddElement
  <2> QED BY <1>1, <1>2, <2>1, <2>2
<1>3. CASE qty = 0
  <2>1. T = S
    BY <1>3
  <2> QED BY <1>1, <1>3, <2>1
<1> QED BY <1>1, <1>2, <1>3

LEMMA WrongTotalHalts ==
  ASSUME RecordsInv, NEW row, NEW id, NEW e, NEW bust,
         store' = RecordReport(store, row, id, e, bust, <<Entry(id, TRUE)>>)
  PROVE  EverHalted'
<1>1. PICK entry : entry = Entry(id, TRUE)
  OBVIOUS
<1>2. entry.halted
  BY <1>1 DEF Entry
<1>3. PICK quarantine : quarantine = <<entry>>
  OBVIOUS
<1>4. IsSequence(quarantine) /\ Range(quarantine) = {entry}
  BY <1>3, OneValue
<1>5. PICK held : held = store.held \o quarantine
  OBVIOUS
<1>6. store'.held = held
  BY <1>1, <1>3, <1>5 DEF RecordReport, RecordsInv, RecordsShape
<1>7. Range(held) = Range(store.held) \cup {entry}
  BY <1>4, <1>5, JoinedValues DEF RecordsInv, RecordsShape
<1>8. PICK i \in DOMAIN held : held[i] = entry
  BY <1>7 DEF Range
<1> QED BY <1>2, <1>6, <1>8 DEF EverHalted

LEMMA ReportIsTaken ==
  ASSUME TrafficInv, NEW n, ReadUpTo(n), toUs # <<>>, IsReport(Now), UNCHANGED <<toUs, venue>>,
         DOMAIN store'.execs = DOMAIN store.execs \cup {Now.id}, SamePassed,
         NEW next, next = NextRead(n)
  PROVE  ReadUpTo(next)'
<1>1. /\ Range(toUs) = {Now} \cup Range(Tail(toUs))
      /\ venue.execs \in Nat /\ n \in Nat /\ n <= venue.execs
      /\ \A m \in Uttered : IsReport(m) => m.id \in 1..venue.execs
      /\ Uttered = Range(toUs) \cup Behind
  BY FirstValue DEF TrafficInv, Consistent, WellSaid, Now, ReadUpTo, Uttered, Behind
<1>2. /\ next \in n..venue.execs /\ Now.id <= next
      /\ next = n \/ (IsReport(Now) /\ Now.id > n /\ next = Now.id)
  BY <1>1 DEF NextRead
<1>3. /\ next # n => /\ past.gone = {} => next = n + 1
                     /\ \A m \in Range(Tail(toUs)) : IsReport(m) /\ Original(m) => m.id > next
      /\ past.gone = {} => \A x \in (next + 1)..venue.execs : x \in (n + 1)..venue.execs
  BY <1>1, <1>2, NextReport
<1>4. DOMAIN store'.execs \subseteq 1..next
  <2>1. 1..n \subseteq 1..next /\ Now.id \in 1..next
    BY <1>1, <1>2
  <2> QED BY <2>1 DEF ReadUpTo
<1>5. \A m \in Behind' : IsReport(m) => m.id <= next
  <2>1. \A m \in Behind : IsReport(m) => m.id \in Nat /\ m.id <= n
    BY <1>1 DEF ReadUpTo
  <2> QED BY <1>1, <1>2, <2>1 DEF SamePassed, Behind
<1>6. ASSUME NEW m \in Range(toUs), IsReport(m) PROVE Ahead(m, next)' \/ Met(m, next)'
  <2>1. m.id \in Nat
    BY <1>1, <1>6
  <2>2. CASE m = Now
    BY <1>2, <2>2 DEF Met, Seen
  <2>3. CASE m # Now /\ Ahead(m, n)
    BY <1>1, <1>2, <1>3, <1>6, <2>3 DEF Ahead, Original
  <2>4. CASE m # Now /\ Met(m, n)
    <3>1. m.id <= next
      BY <1>1, <1>2, <2>1, <2>4 DEF Met
    <3> QED BY <2>4, <3>1 DEF Met, Seen, Unreadable, SamePassed
  <2> QED BY <1>6, <2>2, <2>3, <2>4 DEF ReadUpTo
<1>7. past'.gone = {} => \A x \in (next + 1)..venue.execs : Comes(toUs, x)
  BY <1>3 DEF ReadUpTo, SamePassed
<1>8. next \in 0..venue.execs /\ Ascends(toUs)
  BY <1>1, <1>2 DEF ReadUpTo
<1> QED BY <1>4, <1>5, <1>6, <1>7, <1>8 DEF ReadUpTo, Ascends, Comes

\* Which fills are booked, and which stand, once a report is read that was not met before.
Adds(r) == IF r.qty = 1 THEN {r.id} ELSE {}
BookedWith(r) == (FillsSince(store) \cup Adds(r)) \ {IF r.kind = "bust" THEN r.ref ELSE 0}
LEMMA StoodAfter ==
  ASSUME TrafficInv, AccountShape, ~Excused, NEW stood, NEW n, Account(stood, n),
         NEW r \in Range(toUs), r = Now, toUs # <<>>, IsReport(r), ~Seen(r), ~Unreadable(r),
         NEW next, next = NextRead(n)
  PROVE  /\ Tells(r, stood, venue.busts)
         /\ BookedWith(r) \subseteq stood[next]
         /\ EverHalted \/ past.gone # {} \/ BookedWith(r) = stood[next]
         /\ r.kind = "bust" => past.gone = {}
         /\ r.resend \/ next = r.id
         /\ r.kind # "bust" => BookedWith(r) = FillsSince(store) \cup Adds(r)
<1>1. /\ venue.execs \in Nat /\ n \in Nat /\ n \in 0..venue.execs
      /\ r \in Uttered /\ r.id \in 1..venue.execs
      /\ FillsSince(store) \subseteq 1..n /\ FillsSince(store) \subseteq stood[n]
  BY DEF Account, ReadUpTo, BooksAgree, FillsSince, TrafficInv, Consistent, WellSaid, Uttered
<1>2. Tells(r, stood, venue.busts)
  BY <1>1 DEF Account, HistoryIs
<1>3. Adds(r) = IF r.kind = "fill" THEN {r.id} ELSE {}
  BY <1>2 DEF Tells, Adds
<1>4. r.kind # "bust" => BookedWith(r) = FillsSince(store) \cup Adds(r)
  BY <1>1, <1>3 DEF BookedWith
<1>5. CASE past.gone # {}
  <2>1. venue.busts = 0
    BY <1>5 DEF Excused, BustAfterLoss, AccountShape
  <2>2. Grows(stood, venue.execs) /\ r.kind # "bust"
    BY <1>2, <2>1 DEF Account, HistoryIs, Tells
  <2>3. next \in 0..venue.execs /\ n <= next /\ r.id <= next /\ r.id \in 0..venue.execs
    BY <1>1 DEF NextRead
  <2>4. stood[n] \subseteq stood[next] /\ stood[r.id] \subseteq stood[next]
    BY <1>1, <2>2, <2>3 DEF Grows
  <2>5. Adds(r) \subseteq stood[r.id]
    BY <1>2, <1>3 DEF Tells
  <2>6. r.resend \/ next = r.id
    <3>1. CASE r.id > n
      BY <3>1 DEF NextRead
    <3>2. CASE ~(r.id > n)
      <4>1. Met(r, n)
        BY <3>2 DEF Account, ReadUpTo, Ahead
      <4> QED BY <4>1 DEF Met
    <3> QED BY <3>1, <3>2
  <2> QED BY <1>1, <1>2, <1>4, <1>5, <2>2, <2>4, <2>5, <2>6
<1>6. CASE past.gone = {}
  <2>1. r.id > n
    <3>1. ~Met(r, n)
      BY <1>6 DEF Met
    <3> QED BY <3>1 DEF Account, ReadUpTo, Ahead
  <2>2. next = r.id /\ next = n + 1 /\ next - 1 = n
    BY <1>1, <1>6, <2>1, NextReport DEF NextRead, Account
  <2>3. EverHalted \/ FillsSince(store) = stood[n]
    BY <1>6 DEF Account, BooksAgree
  <2>4. CASE r.kind = "fill"
    <3>1. stood[next] = stood[n] \cup Adds(r)
      BY <1>2, <1>3, <2>2, <2>4 DEF Tells
    <3> QED BY <1>1, <1>2, <1>4, <2>2, <2>3, <2>4, <3>1
  <2>5. CASE r.kind = "bust"
    <3>1. stood[next] = stood[n] \ {r.ref} /\ Adds(r) = {}
      BY <1>2, <1>3, <2>2, <2>5 DEF Tells
    <3>2. BookedWith(r) = FillsSince(store) \ {r.ref}
      BY <2>5, <3>1 DEF BookedWith
    <3> QED BY <1>1, <1>2, <1>6, <2>2, <2>3, <2>5, <3>1, <3>2
  <2>6. CASE r.kind # "fill" /\ r.kind # "bust"
    <3>1. stood[next] = stood[n] /\ Adds(r) = {}
      BY <1>2, <1>3, <2>2, <2>6 DEF Tells
    <3> QED BY <1>1, <1>2, <1>4, <2>2, <2>3, <2>6, <3>1
  <2> QED BY <2>4, <2>5, <2>6
<1> QED BY <1>5, <1>6

LEMMA ApplyReportAccount ==
  ASSUME SendInv, TrafficInv, RecordsInv, AccountInv, ApplyReport
  PROVE  AccountInv'
<1>0. /\ ReadingReport /\ ~Seen(Now) /\ ~Unapplicable(Now)
      /\ past' = [past EXCEPT !.due = @ \cup Range(FillOf(Now))]
  BY DEF ApplyReport
<1>1. PICK r : r = Now
  OBVIOUS
<1>2. /\ toUs # <<>> /\ IsReport(r) /\ r \in Range(toUs) /\ r \in Uttered
      /\ r.id \notin DOMAIN store.execs /\ ~Unreadable(r) /\ ~Seen(r)
      /\ r.kind = "fill" => Known
  BY <1>0, <1>1, InHand DEF Seen, Unapplicable, Unreadable
<1> DEFINE wrong == TotalDiffers(store.row, r)
<1>3. PICK row, bust, e, quarantine, events :
        /\ row = Preserved(store.row, r) /\ bust = IF r.kind = "bust" THEN r.ref ELSE 0
        /\ e = Execution(r.content, r.qty)
        /\ quarantine = IF wrong THEN <<Entry(r.id, TRUE)>> ELSE <<>>
        /\ Commit(RecordReport(store, row, r.id, e, bust, quarantine), events, TRUE)
  BY <1>1 DEF ApplyReport
<1>4. /\ store' = RecordReport(store, row, r.id, e, bust, quarantine)
      /\ UNCHANGED <<toUs, venue>>
      /\ past'.passed = past.passed /\ past'.gone = past.gone /\ past'.news = past.news
      /\ "hidden" \in DOMAIN past' /\ past'.hidden = past.hidden
  BY <1>0, <1>3 DEF Commit, netVars, TrafficInv, AccountInv, AccountShape
<1>5. /\ DOMAIN e = {"content", "fill", "busted"} /\ ~e.busted /\ e.fill = r.qty
  BY <1>3 DEF Execution
<1>6. /\ IsSequence(quarantine)
      /\ \A i \in DOMAIN quarantine : DOMAIN quarantine[i] = {"about", "halted", "by"}
  <2> PICK entry : entry = Entry(r.id, TRUE)
    OBVIOUS
  <2>1. DOMAIN entry = {"about", "halted", "by"}
    BY DEF Entry
  <2>2. CASE quarantine = <<>>
    BY <2>2, EmptySequence
  <2>3. CASE quarantine = <<entry>>
    <3>1. IsSequence(<<entry>>) /\ Range(<<entry>>) = {entry}
      BY OneValue
    <3> QED BY <2>1, <2>3, <3>1 DEF Range
  <2> QED BY <1>3, <2>2, <2>3
<1>7. HeldStays /\ DOMAIN store'.execs = DOMAIN store.execs \cup {r.id}
  BY <1>2, <1>4, <1>5, <1>6, ReportRecorded
<1>8. wrong => EverHalted'
  <2> SUFFICES ASSUME wrong PROVE EverHalted'
    OBVIOUS
  <2>1. store' = RecordReport(store, row, r.id, e, bust, <<Entry(r.id, TRUE)>>)
    BY <1>3, <1>4
  <2> QED BY <2>1, WrongTotalHalts
<1>9. LossKept
  BY <1>4, <1>7 DEF LossKept, AccountInv, AccountShape
<1>10. CASE Excused
  BY <1>9, <1>10, ExcusedStays DEF AccountInv
<1>11. ASSUME NEW stood, NEW n, Account(stood, n), ~Excused PROVE AccountInv'
  <2> DEFINE F == FillsSince(store)
             after == BookedWith(r)
  <2>1. PICK next : next = NextRead(n)
    OBVIOUS
  <2>2. /\ Tells(r, stood, venue.busts)
        /\ after \subseteq stood[next]
        /\ EverHalted \/ past.gone # {} \/ after = stood[next]
        /\ r.kind = "bust" => past.gone = {}
        /\ r.resend \/ next = r.id
        /\ r.kind # "bust" => after = F \cup Adds(r)
    <3>1. AccountShape /\ Account(stood, n) /\ ~Excused
      BY <1>11 DEF AccountInv
    <3> HIDE DEF after
    <3>2. /\ Tells(r, stood, venue.busts)
          /\ BookedWith(r) \subseteq stood[next]
          /\ EverHalted \/ past.gone # {} \/ BookedWith(r) = stood[next]
          /\ r.kind = "bust" => past.gone = {}
          /\ r.resend \/ next = r.id
          /\ r.kind # "bust" => BookedWith(r) = FillsSince(store) \cup Adds(r)
      BY <1>1, <1>2, <2>1, <3>1, StoodAfter
    <3> QED BY <3>2 DEF after, F
  <2>3. r.qty \in {0, 1} /\ r.cum = Cardinality(stood[r.id])
    BY <2>2 DEF Tells
  <2>4. store'.row = row /\ FillsSince(store)' = after
    <3>1. e.fill \in {0, 1} /\ "row" \in DOMAIN store
      BY <1>5, <2>3 DEF SendInv, Shapes
    <3>2. /\ store'.row = row
          /\ FillsSince(store)' =
               (FillsSince(store) \cup (IF e.fill = 1 THEN {r.id} ELSE {})) \ {bust}
      BY <1>2, <1>4, <1>5, <3>1, FillsAfter
    <3> QED BY <1>3, <1>5, <3>2 DEF BookedWith, Adds
  <2>5. ReadUpTo(next)'
    <3>0. ReadUpTo(n) /\ SamePassed /\ toUs # <<>>
      BY <1>2, <1>4, <1>11 DEF Account, SamePassed
    <3>1. DOMAIN store'.execs = DOMAIN store.execs \cup {Now.id} /\ IsReport(Now)
      BY <1>1, <1>2, <1>7
    <3> QED BY <1>4, <2>1, <3>0, <3>1, ReportIsTaken
  <2>6. HistoryIs(stood)'
    <3>1. Uttered' = Uttered
      BY <1>4 DEF Uttered
    <3> QED BY <1>4, <1>11, <3>1 DEF Account, HistoryIs
  <2>7. EverHalted => EverHalted'
    BY <1>7 DEF HeldStays, EverHalted
  <2>8. /\ IsFiniteSet(stood[next]) /\ IsFiniteSet(stood[r.id])
        /\ IsFiniteSet(F) /\ r.cum \in Nat /\ r.id \notin F
    <3>1. next \in 0..venue.execs
      BY <1>4, <2>5 DEF ReadUpTo
    <3>2. r.id \in 0..venue.execs /\ n \in 0..venue.execs
      BY <1>2, <1>11 DEF TrafficInv, Consistent, WellSaid, Account, ReadUpTo
    <3>3. IsFiniteSet(stood[n]) /\ F \subseteq stood[n]
      BY <1>11, <3>2, StoodIsFinite DEF Account, BooksAgree
    <3>4. IsFiniteSet(F)
      BY <3>3, FewerThan
    <3>5. r.id \notin F
      BY <1>2 DEF FillsSince
    <3> QED BY <1>11, <2>3, <3>1, <3>2, <3>4, <3>5, StoodIsFinite DEF Account
  <2>9. /\ IsFiniteSet(F \cup Adds(r)) /\ Cardinality(F) \in Nat
        /\ Cardinality(F \cup Adds(r)) = Cardinality(F) + r.qty
    BY <2>3, <2>8, BookedAfter DEF Adds
  <2> HIDE DEF F, after
  <2>10. ASSUME Known'
         PROVE  /\ DOMAIN row = RowFields /\ row.filled \in Nat
                /\ row.filled >= Cardinality(after)
                /\ EverHalted' \/ row.filled = Cardinality(after)
    <3>1. Known
      <4>1. store.row = NoRow => row = NoRow
        BY <1>3 DEF Preserved, Updated, TotalDiffers
      <4> QED BY <2>4, <2>10, <4>1 DEF Known
    <3>2. /\ DOMAIN store.row = RowFields /\ store.row.filled \in Nat
          /\ store.row.filled >= Cardinality(F)
          /\ EverHalted \/ store.row.filled = Cardinality(F)
      BY <1>11, <3>1 DEF Account, BooksAgree, Booked, F
    <3>3. /\ DOMAIN row = RowFields /\ row.filled \in Nat
          /\ r.kind = "dupReject" => row.filled = store.row.filled
          /\ r.kind # "dupReject" /\ ~(r.resend /\ wrong) => row.filled = r.cum
          /\ r.kind # "dupReject" /\ r.resend /\ wrong => row.filled >= store.row.filled + r.qty
      <4>1. r.qty \in Nat
        BY <2>3
      <4> QED BY <1>3, <2>8, <3>2, <4>1, RowAfter
    <3>4. wrong => r.kind # "bust" /\ r.kind # "dupReject"
      BY DEF TotalDiffers
    <3>5. ~wrong /\ r.kind # "bust" /\ r.kind # "dupReject" => r.cum = store.row.filled + r.qty
      BY <3>1 DEF TotalDiffers, Known
    <3> HIDE DEF wrong
    <3>6. CASE r.kind = "dupReject"
      <4>1. r.qty = 0 /\ r.kind # "bust"
        BY <2>2, <3>6 DEF Tells
      <4>2. Cardinality(after) = Cardinality(F)
        <5>1. after = F
          BY <2>2, <4>1 DEF Adds
        <5> QED BY <5>1
      <4> QED BY <2>7, <3>2, <3>3, <3>6, <4>2
    <3>7. CASE r.kind = "bust"
      <4>1. row.filled = r.cum /\ past.gone = {}
        BY <2>2, <3>3, <3>4, <3>7
      <4>2. next = r.id
        <5>1. CASE r.id > n
          BY <1>1, <1>2, <2>1, <5>1 DEF NextRead
        <5>2. CASE ~(r.id > n)
          <6>1. Met(r, n)
            BY <1>2, <1>11, <5>2 DEF Account, ReadUpTo, Ahead
          <6> QED BY <1>2, <4>1, <6>1 DEF Met
        <5> QED BY <5>1, <5>2
      <4>3. Cardinality(after) <= Cardinality(stood[next])
        BY <2>2, <2>8, FewerThan
      <4>4. EverHalted' \/ after = stood[next]
        BY <2>2, <2>7, <4>1
      <4>5. Cardinality(after) \in Nat
        BY <2>2, <2>8, FewerThan
      <4> QED BY <2>3, <2>8, <3>3, <4>1, <4>2, <4>3, <4>4, <4>5
    <3>8. CASE r.kind # "bust" /\ r.kind # "dupReject"
      <4>1. after = F \cup Adds(r)
        BY <2>2, <3>8
      <4>2. Cardinality(after) = Cardinality(F) + r.qty /\ Cardinality(after) \in Nat
        BY <2>3, <2>9, <4>1
      <4>3. CASE ~wrong
        <5>1. row.filled = store.row.filled + r.qty
          BY <3>3, <3>5, <3>8, <4>3
        <5> QED BY <2>3, <2>7, <2>9, <3>2, <3>3, <4>2, <5>1
      <4>4. CASE wrong /\ r.resend
        <5>1. row.filled >= store.row.filled + r.qty
          BY <3>3, <3>8, <4>4
        <5> QED BY <1>8, <2>3, <2>9, <3>2, <3>3, <4>2, <4>4, <5>1 DEF wrong
      <4>5. CASE wrong /\ ~r.resend
        <5>1. row.filled = Cardinality(stood[next])
          BY <2>2, <2>3, <3>3, <3>8, <4>5
        <5>2. Cardinality(after) <= Cardinality(stood[next])
          BY <2>2, <2>8, FewerThan
        <5> QED BY <1>8, <3>3, <4>5, <5>1, <5>2 DEF wrong
      <4> QED BY <4>3, <4>4, <4>5
    <3> QED BY <3>6, <3>7, <3>8
  <2>11. past'.news = 1 \/ after = {}
    <3>1. past.news # 1 => F = {} /\ r.kind # "fill"
      BY <1>2, <1>11 DEF Account, BooksAgree, TrafficInv, F
    <3>2. r.kind # "fill" => Adds(r) = {}
      BY <2>2 DEF Tells, Adds
    <3> QED BY <1>4, <3>1, <3>2 DEF after, BookedWith, F
  <2>12. EverHalted' \/ past'.gone # {} \/ after = stood[next]
    BY <1>4, <2>2, <2>7
  <2>13. BooksAgree(stood, next)'
    BY <2>2, <2>4, <2>10, <2>11, <2>12 DEF BooksAgree, Booked
  <2>14. Account(stood, next)'
    BY <2>5, <2>6, <2>13 DEF Account
  <2> QED BY <1>9, <2>14 DEF AccountInv, LossKept
<1> QED BY <1>10, <1>11 DEF AccountInv

-------------------------------------------------------------------------------
\* The venue speaks: no report, a new one, or one of before again.
SaysAside(v, r) ==
  ~IsReport(r) /\ v.execs = venue.execs /\ v.live = venue.live /\ v.busts = venue.busts
SaysNews(v, r) ==
  /\ IsReport(r) /\ Original(r) /\ r.id = NextExec /\ v.execs = NextExec
  /\ r.cum = Cardinality(v.live)
  /\ r.qty = IF r.kind = "fill" THEN 1 ELSE 0
  /\ r.kind = "fill" => v.live = venue.live \cup {NextExec} /\ v.busts = venue.busts
  /\ r.kind = "bust" => v.live = venue.live \ {r.ref} /\ v.busts = venue.busts + 1
  /\ r.kind \notin {"fill", "bust"} => v.live = venue.live /\ v.busts = venue.busts
  /\ Unreadable(r) => r.kind = "fill"
SaysAgain(v, r) ==
  /\ v = venue /\ IsReport(r) /\ ~Original(r)
  /\ \E m \in Behind :
       /\ r.id = m.id /\ r.kind = m.kind /\ r.ref = m.ref /\ r.qty = m.qty /\ r.cum = m.cum
       /\ Unreadable(r) <=> Unreadable(m)
       /\ r.resend \/ m \in past.passed
VenueSpeaks ==
  \E v, r : /\ Says(v, r) /\ "busts" \in DOMAIN v
            /\ SaysAside(v, r) \/ SaysNews(v, r) \/ SaysAgain(v, r)

LEMMA QueueGrows ==
  ASSUME TrafficInv, NEW n, ReadUpTo(n), NEW v, NEW r, Says(v, r), UNCHANGED <<past, store>>,
         \/ v.execs = NextExec /\ IsReport(r) /\ Original(r) /\ r.id = NextExec
         \/ v.execs = venue.execs /\ (IsReport(r) => ~Original(r) /\ Met(r, n))
  PROVE  ReadUpTo(n)'
<1>1. /\ venue' = v /\ toUs' = Append(toUs, r) /\ IsSequence(toUs)
      /\ venue.execs \in Nat /\ n \in 0..venue.execs /\ NextExec = venue.execs + 1
      /\ \A m \in Range(toUs) : IsReport(m) => m.id \in 1..venue.execs
  BY DEF Says, TrafficInv, ReadUpTo, Consistent, WellSaid, Uttered, NextExec
<1> PICK q : q = toUs'
  OBVIOUS
<1>2. /\ Range(q) = Range(toUs) \cup {r}
      /\ Len(toUs) \in Nat /\ DOMAIN toUs = 1..Len(toUs) /\ DOMAIN q = 1..(Len(toUs) + 1)
      /\ q[Len(toUs) + 1] = r /\ \A i \in 1..Len(toUs) : q[i] = toUs[i]
  BY <1>1, LastValue
<1>3. Ascends(q)
  <2> SUFFICES ASSUME NEW j \in DOMAIN q, NEW k \in DOMAIN q, j < k,
                      IsReport(q[j]), IsReport(q[k]), Original(q[j]), Original(q[k])
               PROVE  q[j].id < q[k].id
    BY DEF Ascends
  <2>1. j \in DOMAIN toUs /\ q[j] = toUs[j]
    BY <1>2
  <2>2. CASE k \in DOMAIN toUs
    BY <1>2, <2>1, <2>2 DEF ReadUpTo, Ascends
  <2>3. CASE k \notin DOMAIN toUs
    <3>1. q[k] = r /\ q[j] \in Range(toUs)
      BY <1>2, <2>1, <2>3 DEF Range
    <3>2. r.id = venue.execs + 1 /\ q[j].id \in 1..venue.execs
      BY <1>1, <3>1
    <3> QED BY <1>1, <3>1, <3>2
  <2> QED BY <2>2, <2>3
<1>4. \A m \in Range(q) : IsReport(m) => Ahead(m, n)' \/ Met(m, n)'
  <2>1. ASSUME NEW m, Ahead(m, n) \/ Met(m, n) PROVE Ahead(m, n)' \/ Met(m, n)'
    BY <2>1 DEF Ahead, Met, Original, Seen, Unreadable
  <2>2. IsReport(r) => Ahead(r, n) \/ Met(r, n)
    <3>1. r.id = NextExec => r.id > n
      BY <1>1
    <3> QED BY <3>1 DEF Ahead
  <2> QED BY <1>2, <2>1, <2>2 DEF ReadUpTo
<1>5. ASSUME past.gone = {}, NEW x \in (n + 1)..v.execs PROVE Comes(q, x)
  <2>1. CASE x \in (n + 1)..venue.execs
    <3>1. Comes(toUs, x)
      BY <1>5, <2>1 DEF ReadUpTo
    <3> QED BY <1>2, <3>1 DEF Comes
  <2>2. CASE x \notin (n + 1)..venue.execs
    <3>1. x = NextExec /\ v.execs = NextExec
      BY <1>1, <1>5, <2>2
    <3>2. IsReport(r) /\ Original(r) /\ r.id = x
      BY <1>1, <3>1
    <3> QED BY <1>2, <3>2 DEF Comes
  <2> QED BY <2>1, <2>2
<1>6. n \in 0..v.execs
  BY <1>1
<1>7. Behind' = Behind
  BY DEF Behind
<1> QED BY <1>1, <1>3, <1>4, <1>5, <1>6, <1>7 DEF ReadUpTo, Ascends, Comes

LEMMA HistoryGrows ==
  ASSUME TrafficInv, NEW stood, HistoryIs(stood), venue.busts \in Nat, UNCHANGED past,
         NEW v, NEW r, Says(v, r), SaysNews(v, r),
         NEW then, then = [x \in 0..NextExec |-> IF x = NextExec THEN v.live ELSE stood[x]]
  PROVE  HistoryIs(then)'
<1>1. /\ venue' = v /\ toUs' = Append(toUs, r) /\ IsSequence(toUs)
      /\ venue.execs \in Nat /\ NextExec = venue.execs + 1 /\ venue.live \subseteq 1..venue.execs
      /\ \A m \in Uttered : IsReport(m) => m.id \in 1..venue.execs
  BY DEF Says, TrafficInv, Consistent, WellSaid, NextExec
<1>2. Uttered' = Uttered \cup {r}
  BY <1>1, LastValue DEF Uttered
<1>3. /\ v.execs = NextExec /\ r.id = NextExec /\ then[NextExec] = v.live
      /\ \A x \in 0..venue.execs : then[x] = stood[x]
      /\ stood[venue.execs] = venue.live
  BY <1>1 DEF SaysNews, HistoryIs
<1>4. /\ v.busts \in Nat /\ v.busts >= venue.busts
      /\ v.busts = 0 => venue.busts = 0 /\ venue.live \subseteq v.live
  BY DEF SaysNews
<1>5. v.live \subseteq 1..NextExec
  BY <1>1 DEF SaysNews
<1>6. ASSUME NEW x \in 0..NextExec PROVE then[x] \subseteq 1..x
  <2>1. CASE x = NextExec
    BY <1>3, <1>5, <2>1
  <2>2. CASE x # NextExec
    <3>1. x \in 0..venue.execs
      BY <1>1, <1>6, <2>2
    <3> QED BY <1>3, <3>1 DEF HistoryIs
  <2> QED BY <2>1, <2>2
<1>7. ASSUME v.busts = 0, NEW x \in 0..NextExec, NEW y \in 0..NextExec, x <= y
      PROVE  then[x] \subseteq then[y]
  <2>1. \A a, b \in 0..venue.execs : a <= b => stood[a] \subseteq stood[b]
    BY <1>4, <1>7 DEF HistoryIs, Grows
  <2>2. CASE y \in 0..venue.execs
    <3>1. x \in 0..venue.execs
      BY <1>1, <1>7, <2>2
    <3> QED BY <1>3, <1>7, <2>1, <2>2, <3>1
  <2>3. CASE y \notin 0..venue.execs
    <3>1. y = NextExec
      BY <1>1, <1>7, <2>3
    <3>2. CASE x = NextExec
      BY <3>1, <3>2
    <3>3. CASE x # NextExec
      <4>1. x \in 0..venue.execs /\ venue.execs \in 0..venue.execs /\ x <= venue.execs
        BY <1>1, <1>7, <3>3
      <4>2. stood[x] \subseteq venue.live
        BY <1>3, <2>1, <4>1
      <4> QED BY <1>3, <1>4, <1>7, <3>1, <4>1, <4>2
    <3> QED BY <3>2, <3>3
  <2> QED BY <2>2, <2>3
<1>8. ASSUME NEW m \in Uttered, IsReport(m) PROVE Tells(m, then, v.busts)
  <2>1. m.id \in 0..venue.execs /\ m.id - 1 \in 0..venue.execs
    BY <1>1, <1>8
  <2>2. then[m.id] = stood[m.id] /\ then[m.id - 1] = stood[m.id - 1]
    BY <1>3, <2>1
  <2>3. Tells(m, stood, venue.busts)
    BY <1>8 DEF HistoryIs
  <2>4. venue.busts # 0 => v.busts # 0
    BY <1>4
  <2> QED BY <2>2, <2>3, <2>4 DEF Tells
<1>9. Tells(r, then, v.busts)
  <2>1. r.id - 1 = venue.execs /\ venue.execs \in 0..venue.execs
    BY <1>1, <1>3
  <2>2. then[r.id] = v.live /\ then[r.id - 1] = venue.live
    BY <1>3, <2>1
  <2>3. r.kind = "bust" => v.busts # 0
    BY DEF SaysNews
  <2> QED BY <1>3, <2>2, <2>3 DEF Tells, SaysNews
<1>10. v.busts = 0 => Grows(then, NextExec)
  BY <1>7 DEF Grows
<1>11. \A m \in Uttered' : IsReport(m) => Tells(m, then, v.busts)
  BY <1>2, <1>8, <1>9
<1> QED BY <1>1, <1>3, <1>6, <1>10, <1>11 DEF HistoryIs, Tells, Unreadable, Grows

LEMMA SpeakingAccount ==
  ASSUME TrafficInv, RecordsInv, AccountInv, VenueSpeaks, UNCHANGED <<past, store>>
  PROVE  AccountInv'
<1>1. PICK v, r : /\ Says(v, r) /\ "busts" \in DOMAIN v
                  /\ SaysAside(v, r) \/ SaysNews(v, r) \/ SaysAgain(v, r)
  BY DEF VenueSpeaks
<1>2. /\ venue' = v /\ toUs' = Append(toUs, r) /\ IsSequence(toUs)
      /\ venue.execs \in Nat /\ NextExec = venue.execs + 1 /\ venue.busts \in Nat
  BY <1>1 DEF Says, TrafficInv, Consistent, NextExec, AccountInv, AccountShape
<1>3. v.busts \in Nat /\ v.busts >= venue.busts
  BY <1>1, <1>2 DEF SaysAside, SaysNews, SaysAgain
<1>4. LossKept
  <2>1. HeldStays
    BY SameStore DEF StoreKept
  <2> QED BY <1>1, <1>2, <1>3, <2>1 DEF LossKept, AccountShape, AccountInv
<1>5. CASE Excused
  BY <1>4, <1>5, ExcusedStays DEF AccountInv
<1>6. ASSUME NEW stood, NEW n, Account(stood, n) PROVE AccountInv'
  <2>1. ASSUME NEW then, HistoryIs(then)', ReadUpTo(n)', then[n] = stood[n]
        PROVE  AccountInv'
    <3>1. BooksAgree(then, n)'
      BY <1>6, <2>1
      DEF Account, BooksAgree, Booked, FillsSince, EverHalted, Known
    <3>2. Account(then, n)'
      BY <2>1, <3>1 DEF Account
    <3> QED BY <1>4, <3>2 DEF AccountInv, LossKept
  <2>2. Uttered' = Uttered \cup {r}
    BY <1>2, LastValue DEF Uttered
  <2>3. CASE SaysAside(v, r)
    <3>1. HistoryIs(stood)'
      BY <1>2, <1>6, <2>2, <2>3 DEF Account, HistoryIs, SaysAside
    <3>2. ReadUpTo(n)'
      BY <1>1, <1>6, <2>3, QueueGrows DEF Account, SaysAside
    <3> QED BY <2>1, <3>1, <3>2
  <2>4. CASE SaysNews(v, r)
    <3>1. PICK then : then = [x \in 0..NextExec |-> IF x = NextExec THEN v.live ELSE stood[x]]
      OBVIOUS
    <3>2. HistoryIs(then)'
      BY <1>1, <1>2, <1>6, <2>4, <3>1, HistoryGrows DEF Account
    <3>3. ReadUpTo(n)'
      BY <1>1, <1>6, <2>4, QueueGrows DEF Account, SaysNews
    <3>4. n \in 0..NextExec /\ n # NextExec
      BY <1>2, <1>6 DEF Account, ReadUpTo
    <3>5. then[n] = stood[n]
      BY <3>1, <3>4
    <3> QED BY <2>1, <3>2, <3>3, <3>5
  <2>5. CASE SaysAgain(v, r)
    <3>1. PICK m \in Behind :
            /\ r.id = m.id /\ r.kind = m.kind /\ r.ref = m.ref /\ r.qty = m.qty /\ r.cum = m.cum
            /\ Unreadable(r) <=> Unreadable(m)
            /\ r.resend \/ m \in past.passed
      BY <2>5 DEF SaysAgain
    <3>2. IsReport(m) /\ m \in Uttered /\ IsReport(r) /\ ~Original(r) /\ v = venue
      BY <2>5, <3>1 DEF SaysAgain, IsReport, Behind, Uttered
    <3>3. HistoryIs(stood)'
      <4>1. Tells(m, stood, venue.busts)
        BY <1>6, <3>2 DEF Account, HistoryIs
      <4>2. Tells(r, stood, venue.busts)
        BY <3>1, <4>1 DEF Tells
      <4> QED BY <1>2, <1>6, <2>2, <3>2, <4>2 DEF Account, HistoryIs
    <3>4. Met(r, n)
      <4>1. r.id <= n
        BY <1>6, <3>1, <3>2 DEF Account, ReadUpTo
      <4>2. CASE m \in past.passed
        <5>1. OnRecord(m)
          BY <4>2 DEF RecordsInv
        <5> QED BY <3>1, <4>1, <5>1 DEF OnRecord, Met, Seen
      <4>3. CASE m \in past.gone
        BY <3>1, <4>1, <4>2, <4>3 DEF Met
      <4> QED BY <4>2, <4>3 DEF Behind
    <3>5. ReadUpTo(n)'
      BY <1>1, <1>6, <3>2, <3>4, QueueGrows DEF Account
    <3> QED BY <2>1, <3>3, <3>5
  <2> QED BY <1>1, <2>3, <2>4, <2>5
<1> QED BY <1>5, <1>6 DEF AccountInv

\* The reports the venue makes, field by field.
NewsOf(r, kind, cum) ==
  /\ DOMAIN r = MessageFields /\ r.kind = kind /\ r.id = NextExec
  /\ r.qty = 0 /\ r.cum = cum /\ ~r.resend /\ r.content = "plain"

LEMMA ReportNews ==
  ASSUME NEW kind, NEW v, NEW s, s = Report(kind, NextExec, v), NEW x
  PROVE  /\ NewsOf(s, kind, Cardinality(v.live))
         /\ NewsOf([s EXCEPT !.wire = x], kind, Cardinality(v.live))
<1>1. NewsOf(s, kind, Cardinality(v.live))
  BY DEF Report, NewsOf, MessageFields
<1>2. ASSUME NEW c, NewsOf(s, kind, c)
      PROVE  NewsOf([s EXCEPT !.wire = x], kind, c)
  BY <1>2 DEF NewsOf, MessageFields
<1> QED BY <1>1, <1>2

LEMMA BecomesIs ==
  ASSUME TrafficInv, AccountShape, NEW status, NEW v, v = Becomes(status)
  PROVE  /\ "busts" \in DOMAIN v /\ v.execs = NextExec /\ v.live = venue.live
         /\ v.busts = venue.busts
<1>1. v = [venue EXCEPT !.status = status, !.execs = NextExec]
  BY DEF Becomes
<1> QED BY <1>1 DEF TrafficInv, AccountShape

\* A report of no fill and no bust.
LEMMA PlainNews ==
  ASSUME TrafficInv, AccountShape, NEW status, NEW v, v = Becomes(status), NEW r, Says(v, r),
         NEW kind \in {"ack", "rejected", "canceled", "replaced", "dupReject"},
         NewsOf(r, kind, Cardinality(venue.live))
  PROVE  VenueSpeaks
<1>1. /\ "busts" \in DOMAIN v /\ v.execs = NextExec /\ v.live = venue.live
      /\ v.busts = venue.busts
  BY BecomesIs
<1>2. kind \in ReportKinds /\ kind # "fill" /\ kind # "bust"
  BY DEF ReportKinds
<1>3. Original(r) /\ IsReport(r) /\ ~Unreadable(r)
  BY <1>2 DEF NewsOf, Original, IsReport, Unreadable
<1>4. SaysNews(v, r)
  BY <1>1, <1>2, <1>3 DEF SaysNews, NewsOf
<1> QED BY <1>1, <1>4 DEF VenueSpeaks

LEMMA AsideSpeaks ==
  ASSUME AccountShape, TrafficInv, NEW v, v = venue \/ v = [venue EXCEPT !.status = "REJECTED"],
         NEW r, Says(v, r), NEW kind \in {"cancelReject", "businessReject", "status", "unknown"},
         r.kind = kind
  PROVE  VenueSpeaks
<1>1. ~IsReport(r)
  BY DEF IsReport, ReportKinds
<1>2. /\ "busts" \in DOMAIN v /\ v.execs = venue.execs /\ v.live = venue.live
      /\ v.busts = venue.busts
  BY DEF AccountShape, TrafficInv
<1> QED BY <1>1, <1>2 DEF VenueSpeaks, SaysAside

LEMMA AnswerNewSpeaks ==
  ASSUME TrafficInv, AccountShape, AnswerNew
  PROVE  VenueSpeaks
<1>1. ASSUME NEW status, NEW kind \in {"ack", "rejected"},
             Says(Becomes(status), Report(kind, NextExec, Becomes(status)))
      PROVE  VenueSpeaks
  <2>1. PICK v, r : v = Becomes(status) /\ r = Report(kind, NextExec, v)
    OBVIOUS
  <2>2. v.live = venue.live
    BY <2>1, BecomesIs
  <2>3. NewsOf(r, kind, Cardinality(v.live))
    BY <2>1, ReportNews
  <2>4. Says(v, r) /\ NewsOf(r, kind, Cardinality(venue.live))
    BY <1>1, <2>1, <2>2, <2>3
  <2>5. kind \in {"ack", "rejected", "canceled", "replaced", "dupReject"}
    OBVIOUS
  <2> QED BY <2>1, <2>4, <2>5, PlainNews
<1>2. ASSUME Says([venue EXCEPT !.status = "REJECTED"], Report("businessReject", 0, venue))
      PROVE  VenueSpeaks
  <2>1. PICK v, r : /\ v = [venue EXCEPT !.status = "REJECTED"]
                    /\ r = Report("businessReject", 0, venue) /\ Says(v, r)
    BY <1>2
  <2>2. r.kind = "businessReject"
    BY <2>1, ReportIs
  <2> QED BY <2>1, <2>2, AsideSpeaks
<1> QED BY <1>1, <1>2 DEF AnswerNew

LEMMA AnswerStatusSpeaks ==
  ASSUME TrafficInv, AccountShape, AnswerStatus
  PROVE  VenueSpeaks
<1>1. PICK kind, s, r :
        /\ kind \in {"unknown", "status"}
        /\ s = Report(kind, 0, venue) /\ Says(venue, r)
        /\ r = s \/ r = [s EXCEPT !.content = "bad"]
  BY DEF AnswerStatus
<1>2. DOMAIN s = MessageFields /\ s.kind = kind
  BY <1>1, ReportIs
<1>3. r.kind = kind
  <2>1. CASE r = s
    BY <1>2, <2>1
  <2>2. CASE r = [s EXCEPT !.content = "bad"]
    BY <1>2, <2>2 DEF MessageFields
  <2> QED BY <1>1, <2>1, <2>2
<1>4. kind \in {"cancelReject", "businessReject", "status", "unknown"}
  BY <1>1
<1> QED BY <1>1, <1>3, <1>4, AsideSpeaks

LEMMA AnswerChangeSpeaks ==
  ASSUME TrafficInv, AccountShape, NEW kind, NEW wire, AnswerChange(kind, wire)
  PROVE  VenueSpeaks
<1>1. CASE ~Working
  <2>1. PICK s, r : /\ s = Report("cancelReject", 0, venue) /\ r = [s EXCEPT !.wire = wire]
                    /\ Says(venue, r)
    BY <1>1 DEF AnswerChange
  <2>2. DOMAIN s = MessageFields /\ s.kind = "cancelReject"
    BY <2>1, ReportIs
  <2>3. r.kind = "cancelReject"
    BY <2>1, <2>2, FieldChanged DEF SameReport
  <2> QED BY <2>1, <2>3, AsideSpeaks
<1>2. CASE Working
  <2>1. PICK status, of, from, v, s, r :
          /\ of \in {"canceled", "replaced"}
          /\ v = Becomes(status) /\ (from = v \/ from = venue)
          /\ s = Report(of, NextExec, from)
          /\ r = [s EXCEPT !.wire = wire] /\ Says(v, r)
    <3>1. CASE kind = "cancel"
      BY <1>2, <3>1 DEF AnswerChange
    <3>2. CASE kind # "cancel"
      BY <1>2, <3>2 DEF AnswerChange
    <3> QED BY <3>1, <3>2
  <2>2. v.live = venue.live
    BY <2>1, BecomesIs
  <2>3. NewsOf(r, of, Cardinality(from.live))
    BY <2>1, ReportNews
  <2>4. NewsOf(r, of, Cardinality(venue.live))
    BY <2>1, <2>2, <2>3
  <2>5. of \in {"ack", "rejected", "canceled", "replaced", "dupReject"}
    BY <2>1
  <2> QED BY <2>1, <2>4, <2>5, PlainNews
<1> QED BY <1>1, <1>2

LEMMA FillSpeaks ==
  ASSUME TrafficInv, AccountShape, NEW content \in {"plain", "bad"}, VenueFills(content)
  PROVE  VenueSpeaks
<1> DEFINE live == venue.live \cup {NextExec}
           filled == [status |-> IF Cardinality(live) = Size THEN "FILLED" ELSE "PART",
                      execs |-> NextExec, live |-> live, busts |-> venue.busts]
           said == [Report("fill", NextExec, filled) EXCEPT !.qty = 1, !.content = content]
<1>0. Says(filled, said)
  BY DEF VenueFills
<1>1. PICK v, s, r : /\ v = filled /\ s = Report("fill", NextExec, v)
                     /\ r = [s EXCEPT !.qty = 1, !.content = content] /\ Says(v, r)
  <2> HIDE DEF filled
  <2> QED BY <1>0
<1>2. /\ "busts" \in DOMAIN v /\ v.execs = NextExec /\ v.live = venue.live \cup {NextExec}
      /\ v.busts = venue.busts
  BY <1>1
<1>3. NewsOf(s, "fill", Cardinality(v.live))
  BY <1>1, ReportNews
<1>4. PICK cum : cum = Cardinality(v.live)
  OBVIOUS
<1>5. NewsOf(s, "fill", cum)
  BY <1>3, <1>4
<1>6. /\ r.kind = "fill" /\ r.id = NextExec /\ r.qty = 1 /\ r.cum = cum
      /\ ~r.resend /\ r.content # "other"
  BY <1>1, <1>5 DEF NewsOf, MessageFields
<1>7. SaysNews(v, r)
  BY <1>2, <1>4, <1>6, FillsAndBustsAreReports DEF SaysNews, IsReport, Original
<1> QED BY <1>1, <1>2, <1>7 DEF VenueSpeaks

LEMMA BustSpeaks ==
  ASSUME TrafficInv, AccountShape, NEW id, VenueBusts(id)
  PROVE  VenueSpeaks
<1>1. PICK v, s, r :
        /\ v = [status |-> IF venue.status = "FILLED" THEN "PART" ELSE venue.status,
                execs |-> NextExec, live |-> venue.live \ {id}, busts |-> venue.busts + 1]
        /\ s = Report("bust", NextExec, v)
        /\ r = [s EXCEPT !.ref = id] /\ Says(v, r)
  BY DEF VenueBusts
<1>2. /\ "busts" \in DOMAIN v /\ v.execs = NextExec /\ v.live = venue.live \ {id}
      /\ v.busts = venue.busts + 1
  BY <1>1
<1>3. NewsOf(r, "bust", Cardinality(v.live)) /\ r.ref = id
  <2>1. PICK cum : cum = Cardinality(v.live)
    OBVIOUS
  <2>2. NewsOf(s, "bust", cum)
    <3>1. s = Report("bust", NextExec, v)
      BY <1>1
    <3>2. NewsOf(s, "bust", Cardinality(v.live))
      BY <3>1, ReportNews
    <3> QED BY <2>1, <3>2
  <2>3. NewsOf(r, "bust", cum) /\ r.ref = id
    BY <1>1, <2>2 DEF NewsOf, MessageFields
  <2> QED BY <2>1, <2>3
<1>4. ~Unreadable(r) /\ Original(r)
  BY <1>3 DEF Unreadable, Original, NewsOf
<1>5. SaysNews(v, r)
  BY <1>2, <1>3, <1>4, FillsAndBustsAreReports DEF SaysNews, IsReport, NewsOf
<1> QED BY <1>1, <1>2, <1>5 DEF VenueSpeaks

\* A report of before, with other content or marked as sent again.
LEMMA AgainSpeaks ==
  ASSUME TrafficInv, AccountShape, NEW m \in Behind, IsReport(m), NEW r, Says(venue, r),
         \/ m \in past.passed /\ m.content = "plain" /\ r = [m EXCEPT !.content = "other"]
         \/ r = [m EXCEPT !.resend = TRUE]
  PROVE  VenueSpeaks
<1>1. DOMAIN m = MessageFields
  BY DEF TrafficInv, Consistent, WellSaid, Behind, Uttered
<1>2. /\ r.id = m.id /\ r.kind = m.kind /\ r.ref = m.ref /\ r.qty = m.qty /\ r.cum = m.cum
      /\ Unreadable(r) <=> Unreadable(m)
      /\ ~Original(r) /\ (r.resend \/ m \in past.passed)
  BY <1>1 DEF MessageFields, Unreadable, Original
<1>3. SaysAgain(venue, r)
  BY <1>2 DEF SaysAgain, IsReport
<1> QED BY <1>3 DEF VenueSpeaks, AccountShape

LEMMA TheVenueSpeaks ==
  ASSUME TrafficInv, AccountShape, Venue
  PROVE  VenueSpeaks
<1>1. CASE VenueTakes
  <2>1. AnswerNew \/ AnswerStatus \/ \E kind, wire : AnswerChange(kind, wire)
    BY <1>1, Zenon DEF VenueTakes
  <2> QED BY <2>1, AnswerNewSpeaks, AnswerStatusSpeaks, AnswerChangeSpeaks
<1>2. CASE VenueFills("plain") \/ VenueFills("bad")
  BY <1>2, FillSpeaks
<1>3. CASE \E id \in venue.live : VenueBusts(id)
  BY <1>3, BustSpeaks
<1>4. ASSUME NEW m \in past.passed, m.content = "plain",
             VenueRepeats(venue, [m EXCEPT !.content = "other"])
      PROVE  VenueSpeaks
  <2>1. m \in Behind /\ IsReport(m)
    BY DEF TrafficInv, Behind
  <2>2. PICK r : r = [m EXCEPT !.content = "other"] /\ Says(venue, r)
    BY <1>4 DEF VenueRepeats
  <2> QED BY <1>4, <2>1, <2>2, AgainSpeaks
<1>5. ASSUME NEW m \in past.passed \cup past.gone, m.kind \in ReportKinds,
             VenueRepeats(venue, [m EXCEPT !.resend = TRUE])
      PROVE  VenueSpeaks
  <2>1. m \in Behind /\ IsReport(m)
    BY <1>5 DEF IsReport, Behind
  <2>2. PICK r : r = [m EXCEPT !.resend = TRUE] /\ Says(venue, r)
    BY <1>5 DEF VenueRepeats
  <2> QED BY <2>1, <2>2, AgainSpeaks
<1>6. CASE VenueRepeats(Becomes(venue.status), Report("dupReject", NextExec, venue))
  <2>1. PICK status, v, r : /\ v = Becomes(status) /\ r = Report("dupReject", NextExec, venue)
                            /\ Says(v, r)
    BY <1>6 DEF VenueRepeats
  <2>2. NewsOf(r, "dupReject", Cardinality(venue.live))
    BY <2>1, ReportNews
  <2> QED BY <2>1, <2>2, PlainNews
<1>7. CASE VenueRepeats(venue, Report("businessReject", 0, venue))
  <2>1. PICK r : r = Report("businessReject", 0, venue) /\ Says(venue, r)
    BY <1>7 DEF VenueRepeats
  <2>2. r.kind = "businessReject"
    BY <2>1, ReportIs
  <2> QED BY <2>1, <2>2, AsideSpeaks
<1> QED BY <1>1, <1>2, <1>3, <1>4, <1>5, <1>6, <1>7 DEF Venue

LEMMA VenueAccount ==
  ASSUME TrafficInv, RecordsInv, AccountInv, Venue
  PROVE  AccountInv'
<1>1. UNCHANGED <<past, store>>
  BY DEF Venue, VenueTakes, VenueFills, VenueBusts, VenueRepeats
<1>2. VenueSpeaks
  BY TheVenueSpeaks DEF AccountInv
<1> QED BY <1>1, <1>2, SpeakingAccount

-------------------------------------------------------------------------------
\* The other steps.  Most keep the row and the executions and read nothing.
LEMMA RowUntouched ==
  ASSUME RecordsInv, StoreKept, store'.row = store.row
  PROVE  RowKept
BY DEF StoreKept, RowKept, Known, SameFilled

LEMMA SameStoreKeepsRow ==
  ASSUME RecordsInv, UNCHANGED store
  PROVE  RowKept
<1>1. StoreKept
  BY SameStore
<1> QED BY <1>1, RowUntouched

\* A row that is written anew keeps what was filled.
LEMMA RowRewritten ==
  ASSUME RecordsInv, StoreKept, NEW row, store'.row = row,
         Known' => Known /\ SameFilled(row, store.row)
  PROVE  RowKept
BY DEF StoreKept, RowKept

LEMMA PastOtherwiseSame ==
  ASSUME TrafficInv, AccountShape,
         \/ UNCHANGED past
         \/ \E due : past' = [past EXCEPT !.due = due]
  PROVE  /\ SamePassed /\ "hidden" \in DOMAIN past' /\ past'.hidden = past.hidden
         /\ past'.news = past.news
BY DEF TrafficInv, AccountShape, SamePassed

LEMMA QuietAccount ==
  ASSUME TrafficInv, AccountInv, RowKept, UNCHANGED <<toUs, venue>>,
         UNCHANGED past \/ \E due : past' = [past EXCEPT !.due = due]
  PROVE  AccountInv'
<1>1. /\ SamePassed /\ "hidden" \in DOMAIN past' /\ past'.hidden = past.hidden
      /\ past'.news = past.news
  BY PastOtherwiseSame DEF AccountInv
<1> QED BY <1>1, AccountStays

LEMMA PlacingAccount ==
  ASSUME SendInv, TrafficInv, RecordsInv, AccountInv, Placing
  PROVE  AccountInv'
<1>1. PICK c \in Callers :
        \/ StartPlace(c) \/ Remember(c) \/ SendNew(c) \/ DeleteUnsent(c)
        \/ LeaveUnsent(c) \/ PlaceTimesOut(c) \/ PlaceAgain(c)
  BY DEF Placing
<1>2. CASE SendNew(c)
  <2>1. place[c] \in Unsent /\ UNCHANGED <<store, toUs, venue>>
    BY <1>2 DEF SendNew, Carry, netVars, Unsent
  <2>2. CASE UNCHANGED past
    BY <2>1, <2>2, SameStoreKeepsRow, QuietAccount
  <2>3. CASE past' = [past EXCEPT !.news = @ + 1]
    <3>1. past.news = 0
      BY <2>1 DEF SendInv, RowInv
    <3>2. /\ past'.news = 1 /\ SamePassed
          /\ "hidden" \in DOMAIN past' /\ past'.hidden = past.hidden
      BY <2>3, <3>1 DEF TrafficInv, AccountInv, AccountShape, SamePassed
    <3> QED BY <2>1, <3>2, SameStoreKeepsRow, AccountStays
  <2> QED BY <1>2, <2>2, <2>3 DEF SendNew
<1>3. CASE Remember(c)
  <2>1. UNCHANGED <<past, toUs, venue>>
    BY <1>3 DEF Remember, netVars
  <2>2. CASE Known
    <3>1. UNCHANGED store
      BY <1>3, <2>2 DEF Remember, MayRemember
    <3> QED BY <2>1, <3>1, SameStoreKeepsRow, QuietAccount
  <2>3. CASE ~Known
    <3>1. PICK row : row = NewRow /\ store' = LinkWireId(PutOrder(store, row), 0)
      BY <1>3, <2>3 DEF Remember, MayRemember
    <3>2. StoreKept
      BY <3>1, RowsAside
    <3>3. store'.row = row
      BY <3>1 DEF LinkWireId, PutOrder, SendInv, Shapes
    <3>4. DOMAIN row = RowFields /\ row.filled = 0
      BY <3>1 DEF NewRow, RowFields
    <3>5. past.news # 1
      BY <2>3 DEF SendInv, RowInv
    <3>6. RowKept
      BY <3>2, <3>3, <3>4, <3>5 DEF StoreKept, RowKept
    <3> QED BY <2>1, <3>6, QuietAccount
  <2> QED BY <2>2, <2>3
<1>4. CASE DeleteUnsent(c)
  <2>1. UNCHANGED <<past, toUs, venue>> /\ store' = DeleteOrder(store)
    BY <1>4 DEF DeleteUnsent, netVars
  <2>2. StoreKept
    BY <2>1, RowsAside
  <2>3. store'.row = NoRow
    BY <2>1 DEF DeleteOrder, SendInv, Shapes
  <2>4. RowKept
    BY <2>2, <2>3 DEF StoreKept, RowKept, Known
  <2> QED BY <2>1, <2>4, QuietAccount
<1>5. CASE StartPlace(c) \/ LeaveUnsent(c) \/ PlaceTimesOut(c) \/ PlaceAgain(c)
  <2>1. UNCHANGED <<store, past, toUs, venue>>
    BY <1>5 DEF StartPlace, LeaveUnsent, PlaceTimesOut, PlaceAgain, netVars
  <2> QED BY <2>1, SameStoreKeepsRow, QuietAccount
<1> QED BY <1>1, <1>2, <1>3, <1>4, <1>5

LEMMA AskingAccount ==
  ASSUME SendInv, TrafficInv, RecordsInv, AccountInv, Asking
  PROVE  AccountInv'
<1>1. UNCHANGED <<past, toUs, venue>>
  BY DEF Asking, Change, AskStatus, SendRequest, RequestEnds, Carry, netVars
<1>2. CASE UNCHANGED store
  BY <1>1, <1>2, SameStoreKeepsRow, QuietAccount
<1>3. ASSUME NEW kind, Change(kind) PROVE AccountInv'
  <2>1. PICK row : /\ row = [store.row EXCEPT !.chain = @ + 1]
                   /\ store' = LinkWireId(PutOrder(store, row), row.chain)
    BY <1>3 DEF Change, NextInChain
  <2>2. StoreKept
    BY <2>1, RowsAside
  <2>3. store'.row = row
    BY <2>1 DEF LinkWireId, PutOrder, SendInv, Shapes
  <2>4. Known
    BY <1>3 DEF Change
  <2>5. SameFilled(row, store.row)
    BY <2>1 DEF SameFilled
  <2>6. RowKept
    BY <2>2, <2>3, <2>4, <2>5, RowRewritten
  <2> QED BY <1>1, <2>6, QuietAccount
<1> QED BY <1>2, <1>3 DEF Asking, AskStatus, SendRequest, RequestEnds

LEMMA StreamAccount ==
  ASSUME TrafficInv, RecordsInv, AccountInv, Subscribe \/ TakeEvent
  PROVE  AccountInv'
<1>1. UNCHANGED <<store, toUs, venue>>
  BY DEF Subscribe, TakeEvent, netVars
<1>2. UNCHANGED past \/ \E due : past' = [past EXCEPT !.due = due]
  BY DEF Subscribe, TakeEvent
<1> QED BY <1>1, <1>2, SameStoreKeepsRow, QuietAccount

\* A status report keeps what was filled, whatever it says.
LEMMA StatusKeepsFilled ==
  ASSUME NEW row, NEW status, NEW new \in {WithStatus(row, status), Forgotten(row)}
  PROVE  /\ row = NoRow => new = NoRow
         /\ SameFilled(new, row)
<1>1. row = NoRow => new = NoRow
  BY DEF WithStatus, Forgotten
<1>2. PICK acked : \/ new = row \/ new = [row EXCEPT !.status = "CANCELED"]
                   \/ new = [row EXCEPT !.status = status, !.acked = acked]
  BY DEF WithStatus, Forgotten
<1>3. SameFilled(new, row)
  BY <1>2 DEF SameFilled
<1> QED BY <1>1, <1>3

\* The head of the queue is read and the books stay.
LEMMA ReadingAccount ==
  ASSUME TrafficInv, AccountInv, RowKept, ~IsReport(Now),
         toUs # <<>>, toUs' = Tail(toUs), UNCHANGED <<venue, past>>
  PROVE  AccountInv'
<1>1. /\ "hidden" \in DOMAIN past' /\ past'.hidden = past.hidden /\ past'.news = past.news
      /\ past.gone \subseteq past'.gone /\ Behind' \subseteq Behind \cup {Now}
  BY DEF AccountInv, AccountShape, Behind
<1> QED BY <1>1, AccountReads

LEMMA AsideAccount ==
  ASSUME SendInv, TrafficInv, RecordsInv, AccountInv,
         ApplyStatus \/ OnCancelReject \/ OnBusinessReject
  PROVE  AccountInv'
<1>1. /\ toUs # <<>> /\ toUs' = Tail(toUs) /\ UNCHANGED <<venue, past>> /\ ~IsReport(Now)
  BY DEF ApplyStatus, OnCancelReject, OnBusinessReject, Reading, IsReport, ReportKinds
<1>2. CASE OnCancelReject \/ OnBusinessReject
  <2>1. UNCHANGED store
    BY <1>2 DEF OnCancelReject, OnBusinessReject
  <2> QED BY <1>1, <2>1, SameStoreKeepsRow, ReadingAccount
<1>3. CASE ApplyStatus
  <2>1. CASE \E id : store' = Quarantine(store, Entry(id, FALSE))
    <3>1. StoreKept
      BY <2>1, QuarantineAdds
    <3>2. store'.row = store.row
      BY <2>1 DEF Quarantine, SendInv, Shapes
    <3> QED BY <1>1, <3>1, <3>2, RowUntouched, ReadingAccount
  <2>2. CASE ~\E id : store' = Quarantine(store, Entry(id, FALSE))
    <3>1. PICK status, row : /\ row \in {WithStatus(store.row, status), Forgotten(store.row)}
                             /\ store' = PutOrder(store, row)
      BY <1>3, <2>2 DEF ApplyStatus
    <3>2. StoreKept
      BY <3>1, RowsAside
    <3>3. store'.row = row
      BY <3>1 DEF PutOrder, SendInv, Shapes
    <3>4. (store.row = NoRow => row = NoRow) /\ SameFilled(row, store.row)
      BY <3>1, StatusKeepsFilled
    <3>5. Known' => Known /\ SameFilled(row, store.row)
      BY <3>3, <3>4 DEF Known
    <3> QED BY <1>1, <3>2, <3>3, <3>5, RowRewritten, ReadingAccount
  <2> QED BY <2>1, <2>2
<1> QED BY <1>2, <1>3

\* A report that is dropped or quarantined changes no row.
LEMMA HandAccount ==
  ASSUME SendInv, TrafficInv, RecordsInv, AccountInv,
         DropRepeat \/ QuarantineReport \/ QuarantineConflict
  PROVE  AccountInv'
<1>1. PICK s, events, answers :
        /\ UNCHANGED past /\ Commit(s, events, answers)
        /\ s = store \/ s = Quarantine(store, Entry(Now.id, TRUE))
  BY DEF DropRepeat, QuarantineReport, QuarantineConflict
<1>2. UNCHANGED <<toUs, venue, past>> /\ store' = s
  BY <1>1 DEF Commit, netVars
<1>3. CASE s = store
  BY <1>2, <1>3, SameStoreKeepsRow, QuietAccount
<1>4. CASE s = Quarantine(store, Entry(Now.id, TRUE))
  <2>1. StoreKept
    BY <1>2, <1>4, QuarantineAdds
  <2>2. store'.row = store.row
    BY <1>2, <1>4 DEF Quarantine, SendInv, Shapes
  <2> QED BY <1>2, <2>1, <2>2, RowUntouched, QuietAccount
<1> QED BY <1>1, <1>3, <1>4

\* A report that was committed is passed over.  One that nobody can read is a fill, and
\* has halted the order.
LEMMA PublishAccount ==
  ASSUME TrafficInv, RecordsInv, AccountInv, Publish
  PROVE  AccountInv'
<1>1. /\ hand.busy /\ toUs' = Tail(toUs) /\ UNCHANGED <<store, venue>>
      /\ past' = [past EXCEPT !.passed = @ \cup {Now}]
  BY DEF Publish, Passed
<1>2. toUs # <<>> /\ IsReport(Now) /\ OnRecord(Now)
  BY <1>1 DEF TrafficInv, RecordsInv
<1>3. /\ "hidden" \in DOMAIN past' /\ past'.hidden = past.hidden /\ past'.news = past.news
      /\ past.gone \subseteq past'.gone /\ Behind' \subseteq Behind \cup {Now}
  BY <1>1 DEF TrafficInv, AccountInv, AccountShape, Behind
<1>4. RowKept
  BY <1>1, SameStoreKeepsRow
<1>5. CASE Excused
  <2>1. LossKept
    BY <1>1, <1>3, <1>4 DEF LossKept, AccountInv, AccountShape, RowKept
  <2> QED BY <1>5, <2>1, ExcusedStays DEF AccountInv
<1>6. CASE ~Excused
  <2>1. PICK stood, n : Account(stood, n)
    BY <1>6 DEF AccountInv
  <2>2. Now \in Uttered
    BY <1>2, FirstValue DEF TrafficInv, Now, Uttered
  <2>3. Unreadable(Now) => Now.kind = "fill"
    BY <1>2, <2>1, <2>2 DEF Account, HistoryIs, Tells
  <2>4. Now.id \in DOMAIN store.execs \/ (Unreadable(Now) /\ EverHalted)
    BY <1>2, <2>3 DEF OnRecord, Halts, Stored, EverHalted
  <2>5. EverHalted' = EverHalted
    BY <1>1 DEF EverHalted
  <2> QED BY <1>1, <1>2, <1>3, <1>4, <2>4, <2>5, AccountReads
<1> QED BY <1>5, <1>6

LEMMA ReaderAccount ==
  ASSUME SendInv, TrafficInv, RecordsInv, AccountInv, Reader
  PROVE  AccountInv'
BY HandAccount, ApplyReportAccount, PublishAccount, AsideAccount DEF Reader

\* What is skipped all at once may be a bust: it is excused, and it halts the order
\* unless none is open.
LEMMA LosingAccount ==
  ASSUME TrafficInv, RecordsInv, AccountInv, NEW ours, LoseUnread(ours)
  PROVE  AccountInv'
<1>1. UNCHANGED venue
  BY DEF LoseUnread
<1>2. CASE Quietly(ours)
  <2>1. past' = [past EXCEPT !.hidden = TRUE] /\ UNCHANGED store
    BY <1>2 DEF LoseUnread
  <2>2. "hidden" \in DOMAIN past' /\ past'.hidden = TRUE
    BY <2>1 DEF AccountInv, AccountShape
  <2> QED BY <1>1, <2>2 DEF AccountInv, AccountShape, Excused
<1>3. CASE ~Quietly(ours)
  <2>1. UNCHANGED past /\ store' = Quarantine(store, Entry(0, TRUE))
    BY <1>3 DEF LoseUnread
  <2>2. Halts(0)'
    BY <2>1, QuarantineAdds
  <2> QED BY <1>1, <2>1, <2>2 DEF AccountInv, AccountShape, Excused
<1> QED BY <1>2, <1>3

LEMMA GapAccount ==
  ASSUME TrafficInv, RecordsInv, AccountInv, GapFilledIn
  PROVE  AccountInv'
<1>1. /\ toUs # <<>> /\ toUs' = Tail(toUs) /\ UNCHANGED <<store, venue>>
      /\ past' = [past EXCEPT !.gone = @ \cup {Now}]
  BY DEF GapFilledIn
<1>2. /\ "hidden" \in DOMAIN past' /\ past'.hidden = past.hidden /\ past'.news = past.news
      /\ past.gone \subseteq past'.gone /\ past'.gone # {}
      /\ Behind' \subseteq Behind \cup {Now}
  BY <1>1 DEF TrafficInv, AccountInv, AccountShape, Behind
<1> QED BY <1>1, <1>2, SameStoreKeepsRow, AccountReads

LEMMA FaultsAccount ==
  ASSUME SendInv, TrafficInv, RecordsInv, AccountInv, Faults
  PROVE  AccountInv'
<1>1. CASE SessionDown \/ SessionReady \/ GapFilledOut
  <2>1. UNCHANGED <<store, past, toUs, venue>>
    BY <1>1 DEF SessionDown, SessionReady, GapFilledOut, netVars
  <2> QED BY <2>1, SameStoreKeepsRow, QuietAccount
<1>2. CASE Crash
  <2>1. past' = [past EXCEPT !.due = {}] /\ UNCHANGED <<store, toUs, venue>>
    BY <1>2 DEF Crash, netVars
  <2> QED BY <2>1, SameStoreKeepsRow, QuietAccount
<1>3. ASSUME NEW o \in Operators, Look(o) PROVE AccountInv'
  <2>1. UNCHANGED <<store, past, toUs, venue>>
    BY <1>3 DEF Look, netVars
  <2> QED BY <2>1, SameStoreKeepsRow, QuietAccount
<1>4. ASSUME NEW o \in Operators, Release(o) PROVE AccountInv'
  <2>1. PICK n : store' = ReleaseQuarantine(store, o, n)
    BY <1>4 DEF Release
  <2>2. UNCHANGED <<past, toUs, venue>>
    BY <1>4 DEF Release, netVars
  <2>3. StoreKept
    BY <2>1, ReleaseKeeps
  <2>4. store'.row = store.row
    BY <2>1 DEF ReleaseQuarantine, SendInv, Shapes
  <2> QED BY <2>2, <2>3, <2>4, RowUntouched, QuietAccount
<1> QED BY <1>1, <1>2, <1>3, <1>4, LosingAccount, GapAccount DEF Faults

LEMMA InitAccount == Init => AccountInv
<1> SUFFICES ASSUME Init PROVE AccountInv
  OBVIOUS
<1>1. /\ store = NoOrderRows /\ toUs = <<>>
      /\ venue = [status |-> "none", execs |-> 0, live |-> {}, busts |-> 0]
      /\ past = [news |-> 0, passed |-> {}, due |-> {}, gone |-> {}, hidden |-> FALSE]
  BY DEF Init
<1>2. /\ venue.execs = 0 /\ venue.live = {} /\ venue.busts = 0 /\ AccountShape
      /\ past.gone = {} /\ past.passed = {}
  BY <1>1 DEF AccountShape
<1>3. store.row = NoRow /\ DOMAIN store.execs = {}
  BY <1>1 DEF NoOrderRows
<1>4. Range(toUs) = {} /\ DOMAIN toUs = {} /\ Uttered = {} /\ Behind = {}
  BY <1>1, <1>2, EmptySequence DEF Uttered, Behind
<1>5. PICK stood : stood = [x \in {0} |-> {}]
  OBVIOUS
<1>6. 0..0 = {0} /\ stood[0] = {}
  BY <1>5
<1>7. HistoryIs(stood)
  BY <1>2, <1>4, <1>6 DEF HistoryIs, Grows
<1>8. ReadUpTo(0)
  <2>1. (0 + 1)..0 = {}
    OBVIOUS
  <2> QED BY <1>2, <1>3, <1>4, <1>6, <2>1 DEF ReadUpTo, Ascends
<1>9. BooksAgree(stood, 0)
  <2>1. FillsSince(store) = {}
    BY <1>3 DEF FillsSince
  <2> QED BY <1>3, <1>6, <2>1 DEF BooksAgree, Known
<1> QED BY <1>2, <1>7, <1>8, <1>9 DEF AccountInv, Account

(* While an order's row is kept, the quantity it has filled accounts for the fills that  *)
(* are booked, in any reachable state, however late or often a report comes: it is never *)
(* below them unless a bust was lost, and exactly them while nothing has halted and no   *)
(* number was lost quietly.  A bust besides a gap-filled report is left out of both      *)
(* (_lost_report_reason, _apply_report, and the row that place_order writes).            *)
THEOREM FilledAlwaysAccounts == Spec => []FilledAccountsForFills
<1> DEFINE Inv == SendInv /\ TrafficInv /\ RecordsInv /\ AccountInv
<1>1. Init => Inv
  BY InitSendInv, InitTraffic, InitRecords, InitAccount
<1>2. Inv /\ [Next]_vars => Inv'
  <2> SUFFICES ASSUME Inv, [Next]_vars PROVE Inv'
    OBVIOUS
  <2>1. SendInv'
    BY SendInvKept
  <2>2. TrafficInv'
    BY TrafficKept
  <2>3. RecordsInv'
    BY RecordsKept
  <2>4. AccountInv'
    <3>1. CASE UNCHANGED vars
      <4>1. UNCHANGED <<store, past, toUs, venue>>
        BY <3>1 DEF vars
      <4> QED BY <4>1, SameStoreKeepsRow, QuietAccount
    <3> QED
      BY <3>1, PlacingAccount, AskingAccount, StreamAccount, ReaderAccount, FaultsAccount,
         VenueAccount DEF Next
  <2> QED BY <2>1, <2>2, <2>3, <2>4
<1>3. Inv => FilledAccountsForFills
  <2> SUFFICES ASSUME Inv, Known
               PROVE  /\ LostABust \/ BustAfterLoss \/ store.row.filled >= Booked
                      /\ EverHalted \/ past.hidden \/ BustAfterLoss \/ store.row.filled = Booked
    BY DEF FilledAccountsForFills
  <2>1. CASE Excused
    BY <2>1 DEF Excused, LostABust, Halts, EverHalted
  <2>2. CASE ~Excused
    BY <2>2 DEF AccountInv, Account, BooksAgree
  <2> QED BY <2>1, <2>2
<1> QED BY <1>1, <1>2, <1>3, PTL DEF Spec
===============================================================================
