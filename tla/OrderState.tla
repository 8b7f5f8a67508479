------------------------------ MODULE OrderState ------------------------------
(***************************************************************************)
(* The reducer of src/ismet/execution/state.py: what each event makes of   *)
(* the state of one order, and the table of legal transitions.             *)
(*                                                                         *)
(* Abstractions.  A fill report keeps what the code tells reports apart    *)
(* by: its id, its quantity, whether its symbol and side are the order's,  *)
(* and its fee.  filled_notional is booked by the same two statements as   *)
(* filled_quantity and is left out.  An anomaly text is a member of        *)
(* Anomalies: the kinds that halt trading keep their own name, every other *)
(* one is "advisory".                                                      *)
(*                                                                         *)
(* An operator named Slip... is a mistake the code could have made.  No    *)
(* specification uses one: it is there to show a property can fail.        *)
(***************************************************************************)
EXTENDS Integers, FiniteSets, FiniteSetsExt

CONSTANTS Sizes,    \* the quantities an order may be placed or replaced at
          Prices,   \* the limit prices, compared with one another only
          Reports   \* the fill reports a venue may send

None == 0           \* Python's None, for a size, a price or a fee

FillIds == {r.id : r \in Reports}

ASSUME SizesAreAmounts == Sizes \subseteq Nat \ {None}
ASSUME PricesAreAmounts == Prices \subseteq Nat \ {None}
ASSUME ReportsAreReports ==
  Reports \subseteq [id : FillIds, qty : Nat \ {0}, match : BOOLEAN, fee : Nat]

-------------------------------------------------------------------------------
WorkingStatuses == {"ACCEPTED", "PARTIALLY_FILLED"}
PendingStatuses == {"PENDING_CANCEL", "PENDING_REPLACE"}
AllLive == {"SUBMITTING", "UNKNOWN"} \cup WorkingStatuses \cup PendingStatuses
Terminal == {"FILLED", "CANCELED", "REJECTED", "EXPIRED"}
Statuses == {"PENDING_SUBMIT"} \cup AllLive \cup Terminal

\* Targets the order's own state decides, rather than the table.
Working == "working"
Resumed == "resumed"

HaltingAnomalies ==
  {"overfill", "other_terms", "after_rejected", "before_send", "mismatch"}
Anomalies == HaltingAnomalies \cup {"fee", "advisory"}

-------------------------------------------------------------------------------
\* The transition table, one function per kind of event.  Its domain is the set
\* of statuses in which the event is legal.
SendStartedTable == [s \in {"PENDING_SUBMIT"} |-> "SUBMITTING"]

SlipAckTable ==
  [s \in (AllLive \cup Terminal) \ {"REJECTED"} |->
     IF s \in {"SUBMITTING", "UNKNOWN", "CANCELED"} THEN Working ELSE s]
AckTable ==
  [s \in (AllLive \cup Terminal) \ {"REJECTED"} |->
     IF s \in {"SUBMITTING", "UNKNOWN"} THEN Working ELSE s]

RejectTable == [s \in AllLive \cup {"PENDING_SUBMIT", "REJECTED"} |-> "REJECTED"]

OutcomeUnknownTable == [s \in AllLive |-> "UNKNOWN"]

CancelRequestedTable ==
  [s \in AllLive |-> IF s \in {"SUBMITTING", "UNKNOWN"} THEN s ELSE "PENDING_CANCEL"]

CanceledTable == [s \in AllLive \cup {"CANCELED"} |-> "CANCELED"]

\* A cancel refused during a replace leaves the replace in flight.
CancelRejectedTable ==
  [s \in AllLive \cup Terminal |-> IF s = "PENDING_CANCEL" THEN Resumed ELSE s]

ReplaceRequestedTable == [s \in WorkingStatuses |-> "PENDING_REPLACE"]

ReplacedTable ==
  [s \in AllLive \ {"SUBMITTING"} |->
     IF s = "PENDING_CANCEL" THEN "PENDING_CANCEL" ELSE Working]

ReplaceRejectedTable ==
  [s \in PendingStatuses \cup {"UNKNOWN", "FILLED", "CANCELED", "EXPIRED"} |->
     IF s = "PENDING_REPLACE" THEN Working ELSE s]

ExpiredTable == [s \in AllLive \cup {"EXPIRED"} |-> "EXPIRED"]

-------------------------------------------------------------------------------
\* An order, known only from its events.
Orders ==
  [status : Statuses, quantity : Nat \ {0}, price : Nat,
   pendingQuantity : Nat, pendingPrice : Nat,
   fills : SUBSET Reports, filled : Int, busted : SUBSET FillIds,
   anomalies : SUBSET Anomalies]

NewOrder(size, price) ==
  [status |-> "PENDING_SUBMIT", quantity |-> size, price |-> price,
   pendingQuantity |-> None, pendingPrice |-> None,
   fills |-> {}, filled |-> 0, busted |-> {}, anomalies |-> {}]

Larger(a, b) == IF a >= b THEN a ELSE b

HasPendingTerms(o) == o.pendingQuantity # None \/ o.pendingPrice # None

\* The most this order may fill: while a replace is open, either size may be live.
FillCeiling(o) == Larger(o.quantity, o.pendingQuantity)

LeavesQuantity(o) ==
  IF o.status \in Terminal THEN 0 ELSE Larger(FillCeiling(o) - o.filled, 0)

WorkingStatus(o) ==
  CASE o.filled >= o.quantity -> "FILLED"
    [] o.filled < o.quantity /\ o.filled > 0 -> "PARTIALLY_FILLED"
    [] OTHER -> "ACCEPTED"

Note(o, kinds) == [o EXCEPT !.anomalies = @ \cup kinds]

NoteIf(condition, kind) == IF condition THEN {kind} ELSE {}

\* An illegal transition keeps the status and is noted: the report is never lost.
Transition(o, table) ==
  IF o.status \notin DOMAIN table
  THEN Note(o, {"advisory"})
  ELSE LET target == table[o.status]
       IN  [o EXCEPT !.status =
              CASE target = Resumed /\ HasPendingTerms(o) -> "PENDING_REPLACE"
                [] target \in {Working, Resumed} /\ ~(target = Resumed /\ HasPendingTerms(o))
                     -> WorkingStatus(o)
                [] OTHER -> target]

-------------------------------------------------------------------------------
\* Fills and busts: money is counted from quantities, whatever the status says.
SameExecution(a, b) == a.qty = b.qty /\ a.match = b.match

FeesDiffer(a, b) == a.fee # None /\ b.fee # None /\ a.fee # b.fee

MergedFill(known, report) ==
  [known EXCEPT !.fee = IF @ # None THEN @ ELSE report.fee]

\* A second report of a known fill: the first terms and the first fee stay.
ReportKnownFill(o, known, r) ==
  IF ~SameExecution(known, r)
  THEN Note(o, {"other_terms"})
  ELSE Note([o EXCEPT !.fills = (@ \ {known}) \cup {MergedFill(known, r)}],
            NoteIf(FeesDiffer(known, r), "fee"))

BookNewFill(o, r) ==
  LET booked == [o EXCEPT !.fills = @ \cup {r}, !.filled = @ + r.qty]
      ceiling == FillCeiling(o)
      noted == Note(booked,
                 NoteIf(~r.match, "mismatch")
                 \cup NoteIf(booked.filled > ceiling, "overfill")
                 \cup NoteIf(o.status = "PENDING_SUBMIT", "before_send")
                 \cup NoteIf(o.status = "REJECTED", "after_rejected")
                 \cup NoteIf(o.status \in {"CANCELED", "EXPIRED"}, "advisory"))
  IN  [noted EXCEPT !.status =
         CASE booked.filled >= ceiling -> "FILLED"
           [] booked.filled < ceiling /\ @ \in {"ACCEPTED", "SUBMITTING"} -> "PARTIALLY_FILLED"
           [] OTHER -> @]

CountFill(o, r) ==
  IF \E f \in o.fills : f.id = r.id
  THEN ReportKnownFill(o, CHOOSE f \in o.fills : f.id = r.id, r)
  ELSE BookNewFill(o, r)
ApplyFill(o, r) ==
  IF r.id \in o.busted
  THEN Note(o, {"advisory"})
  ELSE CountFill(o, r)

\* A bust may overtake the fill it takes back; its id is remembered either way.
TakeBackFill(o, id) ==
  IF \E f \in o.fills : f.id = id
  THEN LET target == CHOOSE f \in o.fills : f.id = id
           left == o.filled - target.qty
       IN  [o EXCEPT !.fills = @ \ {target},
                     !.filled = left,
                     !.status = CASE @ = "FILLED" -> "UNKNOWN"
                                  [] @ = "PARTIALLY_FILLED" /\ left = 0 -> "ACCEPTED"
                                  [] OTHER -> @]
  ELSE Note(o, {"advisory"})
ApplyBust(o, id) ==
  IF id \in o.busted THEN o
  ELSE [TakeBackFill(o, id) EXCEPT !.busted = @ \cup {id}]

\* The venue's own word on the status.
ApplyRestated(o, status) ==
  [Note(o, NoteIf(o.status \in Terminal /\ o.status # status, "advisory"))
     EXCEPT !.status = status]

-------------------------------------------------------------------------------
\* Replaces.
ApplyReplaceRequested(o, size, price) ==
  IF o.status \notin DOMAIN ReplaceRequestedTable
  THEN Transition(o, ReplaceRequestedTable)
  ELSE [Transition(o, ReplaceRequestedTable)
          EXCEPT !.pendingQuantity = size, !.pendingPrice = price]

\* A replace settling below what has filled is an overfill the fill did not see.
NoteExposedOverfill(before, after) ==
  IF before.filled > FillCeiling(before)
  THEN after
  ELSE Note(after, NoteIf(after.filled > after.quantity, "overfill"))

FirstGiven(a, b, c) == CASE a # None -> a
                         [] a = None /\ b # None -> b
                         [] OTHER -> c

\* The terms a Replaced report leaves: its own, else those asked for, else the old.
NewTerms(o, next, size, price) ==
  [next EXCEPT !.quantity = FirstGiven(size, o.pendingQuantity, o.quantity),
               !.price = FirstGiven(price, o.pendingPrice, o.price),
               !.pendingQuantity = None,
               !.pendingPrice = None]

SlipApplyReplaced(o, size, price) ==
  IF o.status \notin DOMAIN ReplacedTable
  THEN Transition(o, ReplacedTable)
  ELSE NoteExposedOverfill(o, NewTerms(o, Transition(o, ReplacedTable), size, price))
ApplyReplaced(o, size, price) ==
  LET next == Transition(o, ReplacedTable)
      settled == NoteExposedOverfill(o, NewTerms(o, next, size, price))
  IN  IF o.status \notin DOMAIN ReplacedTable
      THEN next
      ELSE [settled EXCEPT !.status =
              IF next.status \in WorkingStatuses \cup {"FILLED"}
              THEN WorkingStatus(settled) ELSE @]

ForgetPendingTerms(o) ==
  [Transition(o, ReplaceRejectedTable) EXCEPT !.pendingQuantity = None, !.pendingPrice = None]
ApplyReplaceRejected(o) ==
  NoteExposedOverfill(o, ForgetPendingTerms(o))

\* Requested terms last only while the outcome of the request is open.
Settle(o) ==
  IF o.status \in PendingStatuses \cup {"UNKNOWN"}
  THEN o
  ELSE [o EXCEPT !.pendingQuantity = None, !.pendingPrice = None]
===============================================================================
