---------------------------- MODULE OrderLifecycle ----------------------------
(***************************************************************************)
(* One order under every event its reducer accepts, in any order and any   *)
(* number of times: the venue's reports reach it delayed, duplicated and   *)
(* reordered, and its owner's requests fall between them.                  *)
(***************************************************************************)
EXTENDS OrderState

VARIABLES order,
          forced,   \* history: the venue has restated the status
          dropped   \* history: a requested size lapsed with its replace unanswered

vars == <<order, forced, dropped>>

Init == /\ \E size \in Sizes, price \in Prices : order = NewOrder(size, price)
        /\ forced = FALSE
        /\ dropped = FALSE

Becomes(o) ==
  /\ order' = Settle(o)
  /\ dropped' = (dropped \/ o.pendingQuantity # Settle(o).pendingQuantity)

Report(o) == Becomes(o) /\ UNCHANGED forced

SubmitIntent == Report(Note(order, {"advisory"}))
SendStarted == Report(Transition(order, SendStartedTable))
Acknowledged == Report(Transition(order, AckTable))
Rejected == Report(Transition(order, RejectTable))
OutcomeUnknown == Report(Transition(order, OutcomeUnknownTable))
CancelRequested == Report(Transition(order, CancelRequestedTable))
Canceled == Report(Transition(order, CanceledTable))
CancelRejected == Report(Transition(order, CancelRejectedTable))
Expired == Report(Transition(order, ExpiredTable))
Filled == \E r \in Reports : Report(ApplyFill(order, r))
FillBusted == \E id \in FillIds : Report(ApplyBust(order, id))

\* A request changes the size, the price or both.
ReplaceRequested ==
  \E size \in Sizes \cup {None}, price \in Prices \cup {None} :
    /\ size # None \/ price # None
    /\ Report(ApplyReplaceRequested(order, size, price))
Replaced ==
  \E size \in Sizes \cup {None}, price \in Prices \cup {None} :
    Report(ApplyReplaced(order, size, price))
ReplaceRejected == Report(ApplyReplaceRejected(order))

Restated ==
  \E status \in Statuses : Becomes(ApplyRestated(order, status)) /\ forced' = TRUE

Next == \/ SubmitIntent \/ SendStarted \/ Acknowledged \/ Rejected
        \/ OutcomeUnknown \/ CancelRequested \/ Canceled \/ CancelRejected
        \/ Expired \/ Filled \/ FillBusted
        \/ ReplaceRequested \/ Replaced \/ ReplaceRejected
        \/ Restated

Spec == Init /\ [][Next]_vars

-------------------------------------------------------------------------------
(***************************************************************************)
(* Properties.                                                             *)
(***************************************************************************)

\* Every order is a record of the reducer's own shape, whatever arrives.
TypeOK == /\ order \in Orders
          /\ forced \in BOOLEAN
          /\ dropped \in BOOLEAN

\* One execution is counted once and a busted one never: a fill id is live in at
\* most one form, and a bust holds even when it arrives before its fill.
EachFillCountedOnce ==
  /\ \A f, g \in order.fills : f.id = g.id => f = g
  /\ \A f \in order.fills : f.id \notin order.busted

\* Terms that were only asked for survive exactly as long as the outcome of the
\* request is open; a settled order never carries a size that could still go live.
PendingTermsOnlyWhileOpen ==
  HasPendingTerms(order) => order.status \in PendingStatuses \cup {"UNKNOWN"}

\* Status and money agree on completion unless the venue restated the status: a
\* working order has something left, and a filled one has nothing left.
CompletionMatchesFills ==
  ~forced => /\ order.status \in WorkingStatuses => order.filled < order.quantity
             /\ order.status = "FILLED" => order.filled >= order.quantity

\* An order filled past every size that may be live has said so, whichever of the
\* fill and the answer to a replace came first.  A requested size that lapsed
\* without an answer (dropped) is the one way past this: see RefusalSurfacesOverfill.
OverfillSurfaced ==
  ~dropped /\ order.filled > FillCeiling(order) => "overfill" \in order.anomalies

\* The same report again changes no money and no status, in every state.
RedeliveryIsHarmless ==
  /\ \A r \in Reports :
       LET once == Settle(ApplyFill(order, r))
       IN  [Settle(ApplyFill(once, r)) EXCEPT !.anomalies = once.anomalies] = once
  /\ \A id \in FillIds :
       LET once == Settle(ApplyBust(order, id))
       IN  Settle(ApplyBust(once, id)) = once

\* A bust and the fill it takes back leave the same money in either order.
BustAndFillCommute ==
  \A r \in Reports :
    LET fillFirst == ApplyBust(ApplyFill(order, r), r.id)
        bustFirst == ApplyFill(ApplyBust(order, r.id), r)
    IN  <<fillFirst.filled, fillFirst.fills, fillFirst.busted>>
          = <<bustFirst.filled, bustFirst.fills, bustFirst.busted>>

\* An ended order stays ended until the venue restates it or takes back a fill of
\* a full order, and then its status is asked for again, never assumed.
EndedOrdersStayEnded ==
  [][order.status \in Terminal /\ order'.status \notin Terminal
       => forced' \/ (order'.status = "UNKNOWN" /\ order.busted # order'.busted)]_vars

\* What state.py:473 promises of every replace that settles below what has filled:
\* whenever a refusal arrives, an order left filled past its size has surfaced an
\* overfill.  The code does not keep it when the fill completed the order at the
\* requested size: FILLED drops the requested size, and the refusal then takes the
\* overfill for one "already raised when the fill landed".
RefusalSurfacesOverfill ==
  LET after == Settle(ApplyReplaceRejected(order))
  IN  ~forced /\ after.filled > after.quantity => "overfill" \in after.anomalies
===============================================================================
