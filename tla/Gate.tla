--------------------------------- MODULE Gate ---------------------------------
(***************************************************************************)
(* The pre-trade checks of src/ismet/execution/risk.py where submits and   *)
(* amends of several orders in one instrument meet (OrderManager.submit    *)
(* and amend in src/ismet/execution/manager.py), with the venue, its       *)
(* execution stream, cancels, lost answers and the kill switch.            *)
(*                                                                         *)
(* The manager is one event loop: what runs between two awaits is one      *)
(* step.  The submit lock is held from the check to the record.  SendPath  *)
(* has the steps between the record and the call; here a send is made or   *)
(* stopped.                                                                *)
(*                                                                         *)
(* Abstractions.  Only the checks that read what other orders may change   *)
(* are here; any other may refuse, which changes nothing.  Executions are  *)
(* of one unit.  One limit stands for all scopes.  A request crosses the   *)
(* wire in any order with others; reports come in order.                   *)
(***************************************************************************)
EXTENDS Integers, Sequences, FiniteSets, FiniteSetsExt

CONSTANTS Ids,            \* numbers of orders, in the order of their checks
          MaxPosition,
          AllowShort,     \* allow_short
          AmountsOf,      \* the sizes and prices of orders, 1 .. AmountsOf
          MaxEngages, MaxAmends, MaxCancels, MaxDoubts

Amounts == 1 .. AmountsOf
UnitFill(i) == [id |-> i, qty |-> 1, match |-> TRUE, fee |-> 0]
INSTANCE OrderState WITH Sizes <- Amounts, Prices <- Amounts,
                         Reports <- {UnitFill(i) : i \in Amounts}

VARIABLES
  orders,   \* the manager's orders; NoOrder for an id not used yet
  request,  \* what was asked under each id
  lock,     \* who holds the submit lock
  at,       \* the pc of each submit
  amend,    \* the amendment at hand; before: the cancels awaited when it was checked
  cancels,  \* the orders whose cancel is awaited
  kill,     \* the kill switch: in memory, in the journal, and as the amendment read it
  wire,     \* requests on their way to the venue
  venue,    \* the venue's orders
  reports,  \* per order, the execution stream
  late,     \* history.  revived: orders an acknowledgement took out of UNKNOWN; lapsed: those
            \* of them that had terms asked for, which it dropped
  used      \* how much of the bounds is used

gateVars == <<orders, request, lock, at, amend, cancels, kill, wire, venue, reports, late, used>>

NoOrder == [status |-> "NONE"]
NoRequest == [side |-> 0, size |-> None, price |-> None]
Requests == [side : {1, -1}, size : Amounts, price : Amounts]
NoAmend == [pc |-> "idle"]
Free == 0
TheAmend == -1
NotThere == [live |-> FALSE, quantity |-> 0, price |-> 0, filled |-> 0]

Init ==
  /\ orders = [id \in Ids |-> NoOrder]
  /\ request = [id \in Ids |-> NoRequest]
  /\ lock = Free /\ amend = NoAmend /\ cancels = {} /\ wire = {}
  /\ at = [id \in Ids |-> "idle"]
  /\ kill = [memory |-> FALSE, journal |-> FALSE, read |-> FALSE]
  /\ venue = [id \in Ids |-> NotThere]
  /\ reports = [id \in Ids |-> <<>>]
  /\ late = [revived |-> {}, lapsed |-> {}]
  /\ used = [engages |-> 0, amends |-> 0, cancels |-> 0, doubts |-> 0]

Use(what, bound) == used[what] < bound /\ used' = [used EXCEPT ![what] = @ + 1]

-------------------------------------------------------------------------------
\* What a decision reads: _risk_context, without the order an amend would replace.
Known == {id \in Ids : orders[id] # NoOrder}
OpenOrders == {id \in Known : orders[id].status \notin Terminal}
Others(exclude) == OpenOrders \ exclude
NetPosition == MapThenSumSet(LAMBDA id : request[id].side * orders[id].filled, Known)
SumLeaves(ids, side) ==
  MapThenSumSet(LAMBDA id : LeavesQuantity(orders[id]),
                {id \in ids : request[id].side = side})
Magnitude(n) == IF n < 0 THEN -n ELSE n

\* check_position.
WorstCase(r, ids) == NetPosition + r.side * (SumLeaves(ids, r.side) + r.size)
CheckPosition(r, ids) ==
  LET worst == WorstCase(r, ids)
      flips == worst * NetPosition < 0
      grows == Magnitude(worst) > Magnitude(NetPosition)
  IN  Magnitude(worst) > MaxPosition => ~grows /\ ~flips
\* check_short_sale.
CheckShortSale(r, ids) == r.side = -1 => WorstCase(r, ids) >= 0 \/ AllowShort
\* check_unknown.
CheckUnknown(ids) == \A id \in ids : orders[id].status # "UNKNOWN"
\* check_self_match: against the terms that are live and those asked for.
Resting(o) == {o.price, o.pendingPrice} \ {None}
CheckSelfMatch(r, ids) ==
  \A id \in ids : request[id].side # r.side =>
    \A price \in Resting(orders[id]) : r.side * (price - r.price) > 0
Approves(r, ids) ==
  CheckPosition(r, ids) /\ CheckShortSale(r, ids) /\ CheckUnknown(ids) /\ CheckSelfMatch(r, ids)

-------------------------------------------------------------------------------
\* _record: an event reaches the journal and the order.
Put(id, order) == orders' = [orders EXCEPT ![id] = Settle(order)]
Moves(id, table) == Put(id, Transition(orders[id], table))
\* An acknowledgement; what it comes too late for is remembered.
Acked(id) ==
  late' = IF orders[id].status # "UNKNOWN" THEN late
          ELSE [revived |-> late.revived \cup {id},
                lapsed |-> late.lapsed \cup {i \in {id} : HasPendingTerms(orders[i])}]

\* The switch is engaged, here or by another process.
Engage ==
  /\ ~kill.journal /\ Use("engages", MaxEngages)
  /\ \E memory \in {kill.memory, TRUE} :
       kill' = [kill EXCEPT !.journal = TRUE, !.memory = memory]
  /\ UNCHANGED <<orders, request, lock, at, amend, cancels, wire, venue, reports, late>>
\* _check_can_trade.
CanTrade == ~kill.memory /\ ~kill.journal

\* submit: the check and the intent, under the lock.
SlipLockFree == TRUE
LockFree == lock = Free
SubmitChecks(id) ==
  /\ at[id] = "idle" /\ LockFree /\ CanTrade
  /\ \A earlier \in Ids : earlier < id => at[earlier] # "idle"
  /\ \E r \in Requests : Approves(r, OpenOrders) /\ request' = [request EXCEPT ![id] = r]
  /\ lock' = id /\ at' = [at EXCEPT ![id] = "intending"]
  /\ UNCHANGED <<orders, amend, cancels, kill, wire, venue, reports, late, used>>
SubmitRecords(id) ==
  /\ at[id] = "intending"
  /\ Put(id, NewOrder(request[id].size, request[id].price))
  /\ lock' = Free /\ at' = [at EXCEPT ![id] = "placing"]
  /\ UNCHANGED <<request, amend, cancels, kill, wire, venue, reports, late, used>>
\* _send: the send is recorded and place_order called, or a stop comes first.
SubmitPlaces(id) ==
  /\ at[id] = "placing"
  /\ \/ /\ Moves(id, SendStartedTable)
        /\ wire' = wire \cup {[kind |-> "new", id |-> id]}
        /\ at' = [at EXCEPT ![id] = "waiting"]
     \/ /\ Moves(id, RejectTable)
        /\ at' = [at EXCEPT ![id] = "done"]
        /\ UNCHANGED wire
  /\ UNCHANGED <<request, lock, amend, cancels, kill, venue, reports, late, used>>
\* _place: the venue's answer, or none.
SubmitAnswered(id) ==
  /\ \/ at[id] = "accepted" /\ Moves(id, AckTable) /\ Acked(id)
     \/ at[id] = "refused" /\ Moves(id, RejectTable) /\ UNCHANGED late
  /\ at' = [at EXCEPT ![id] = "done"]
  /\ UNCHANGED <<request, lock, amend, cancels, kill, wire, venue, reports, used>>
SubmitDoubts(id) ==
  /\ at[id] \in {"waiting", "accepted", "refused"} /\ Use("doubts", MaxDoubts)
  /\ Moves(id, OutcomeUnknownTable)
  /\ at' = [at EXCEPT ![id] = "done"]
  /\ UNCHANGED <<request, lock, amend, cancels, kill, wire, venue, reports, late>>

-------------------------------------------------------------------------------
\* _amended_request: what would be live, the unfilled part on the new terms.
Amended(id, size, price) ==
  [side |-> request[id].side,
   size |-> FirstGiven(size, orders[id].quantity, None) - orders[id].filled,
   price |-> FirstGiven(price, orders[id].price, None)]
AmendChecks(id, size, price) ==
  /\ amend = NoAmend /\ LockFree /\ CanTrade /\ Use("amends", MaxAmends)
  /\ id \in Known /\ orders[id].status \in WorkingStatuses
  /\ size # None => size > orders[id].filled
  /\ Approves(Amended(id, size, price), Others({id}))
  /\ lock' = TheAmend
  /\ amend' = [pc |-> "recording", id |-> id, size |-> size, price |-> price,
               before |-> cancels]
  /\ UNCHANGED <<orders, request, at, cancels, kill, wire, venue, reports, late>>
AmendRecords ==
  /\ amend.pc = "recording"
  /\ Put(amend.id, ApplyReplaceRequested(orders[amend.id], amend.size, amend.price))
  /\ lock' = Free /\ amend' = [amend EXCEPT !.pc = "reading"]
  /\ UNCHANGED <<request, at, cancels, kill, wire, venue, reports, late, used>>
AmendReads ==
  /\ amend.pc = "reading"
  /\ kill' = [kill EXCEPT !.read = kill.journal]
  /\ amend' = [amend EXCEPT !.pc = "deciding"]
  /\ UNCHANGED <<orders, request, lock, at, cancels, wire, venue, reports, late, used>>
SlipMaySend == ~kill'.memory
MaySend == orders[amend.id].status = "PENDING_REPLACE" /\ ~kill'.memory
AmendDecides ==
  /\ amend.pc = "deciding"
  /\ kill' = [kill EXCEPT !.memory = @ \/ kill.read, !.read = FALSE]
  /\ IF MaySend
     THEN /\ wire' = wire \cup {[kind |-> "amend", id |-> amend.id,
                                 size |-> amend.size, price |-> amend.price]}
          /\ amend' = [amend EXCEPT !.pc = "waiting"]
     ELSE /\ amend' = IF HasPendingTerms(orders[amend.id])
                      THEN [amend EXCEPT !.pc = "refused"] ELSE NoAmend
          /\ UNCHANGED wire
  /\ UNCHANGED <<orders, request, lock, at, cancels, venue, reports, late, used>>
\* The venue's refusal, or our own (_refuse_amend).
AmendRefused ==
  /\ amend.pc = "refused"
  /\ Put(amend.id, ApplyReplaceRejected(orders[amend.id]))
  /\ amend' = NoAmend
  /\ UNCHANGED <<request, lock, at, cancels, kill, wire, venue, reports, late, used>>
AmendDoubts ==
  /\ amend.pc = "waiting" /\ Use("doubts", MaxDoubts)
  /\ Moves(amend.id, OutcomeUnknownTable)
  /\ amend' = NoAmend
  /\ UNCHANGED <<request, lock, at, cancels, kill, wire, venue, reports, late>>

-------------------------------------------------------------------------------
\* cancel, of an order the venue was called for; before that SendPath has it.
Cancel(id) ==
  /\ id \in OpenOrders \ cancels /\ at[id] # "placing" /\ Use("cancels", MaxCancels)
  /\ Moves(id, CancelRequestedTable)
  /\ cancels' = cancels \cup {id}
  /\ wire' = wire \cup {[kind |-> "cancel", id |-> id]}
  /\ UNCHANGED <<request, lock, at, amend, kill, venue, reports, late>>
CancelDoubts(id) ==
  /\ id \in cancels /\ Use("doubts", MaxDoubts)
  /\ Moves(id, OutcomeUnknownTable)
  /\ cancels' = cancels \ {id}
  /\ UNCHANGED <<request, lock, at, amend, kill, wire, venue, reports, late>>
\* The execution stream, which is in no order with the answers to our calls.
Heard(o, report) ==
  CASE report.kind = "fill" -> ApplyFill(o, UnitFill(report.nth))
    [] report.kind = "ack" -> Transition(o, AckTable)
    [] report.kind = "canceled" -> Transition(o, CanceledTable)
    [] report.kind = "replaced" -> ApplyReplaced(o, report.size, report.price)
Hears(id) ==
  /\ reports[id] # <<>>
  /\ Put(id, Heard(orders[id], Head(reports[id])))
  /\ IF Head(reports[id]).kind = "ack" THEN Acked(id) ELSE UNCHANGED late
  /\ reports' = [reports EXCEPT ![id] = Tail(@)]
  /\ UNCHANGED <<request, lock, at, amend, cancels, kill, wire, venue, used>>

-------------------------------------------------------------------------------
\* The venue.
Reports(id, report) == reports' = [reports EXCEPT ![id] = Append(@, report)]
AnswerPlace(id, how) == at' = IF at[id] = "waiting" THEN [at EXCEPT ![id] = how] ELSE at
TakesNew(id) ==
  /\ [kind |-> "new", id |-> id] \in wire
  /\ wire' = wire \ {[kind |-> "new", id |-> id]}
  /\ \/ /\ venue' = [venue EXCEPT ![id] = [live |-> TRUE, filled |-> 0,
                       quantity |-> request[id].size, price |-> request[id].price]]
        /\ Reports(id, [kind |-> "ack"])
        /\ AnswerPlace(id, "accepted")
     \/ AnswerPlace(id, "refused") /\ UNCHANGED <<venue, reports>>
  /\ UNCHANGED <<orders, request, lock, amend, cancels, kill, late, used>>
Executes(id) ==
  /\ venue[id].live
  /\ venue' = [venue EXCEPT ![id].filled = @ + 1,
                            ![id].live = venue[id].filled + 1 < venue[id].quantity]
  /\ Reports(id, [kind |-> "fill", nth |-> venue[id].filled + 1])
  /\ UNCHANGED <<orders, request, lock, at, amend, cancels, kill, wire, late, used>>
Awaits(id) == amend.pc = "waiting" /\ amend.id = id
TakesAmend(id) ==
  \E m \in wire :
    /\ m.kind = "amend" /\ m.id = id
    /\ wire' = wire \ {m}
    /\ \/ /\ venue[id].live /\ (m.size # None => m.size > venue[id].filled)
          /\ venue' = [venue EXCEPT ![id].quantity = FirstGiven(m.size, @, None),
                                    ![id].price = FirstGiven(m.price, @, None)]
          /\ Reports(id, [kind |-> "replaced", size |-> m.size, price |-> m.price])
          /\ amend' = IF Awaits(id) THEN NoAmend ELSE amend
       \/ /\ amend' = IF Awaits(id) THEN [amend EXCEPT !.pc = "refused"] ELSE amend
          /\ UNCHANGED <<venue, reports>>
    /\ UNCHANGED <<orders, request, lock, at, cancels, kill, late, used>>
\* A cancel the venue refuses is recorded at once (CancelRejected).
TakesCancel(id) ==
  /\ [kind |-> "cancel", id |-> id] \in wire
  /\ wire' = wire \ {[kind |-> "cancel", id |-> id]}
  /\ cancels' = cancels \ {id}
  /\ IF venue[id].live
     THEN /\ venue' = [venue EXCEPT ![id].live = FALSE]
          /\ Reports(id, [kind |-> "canceled"])
          /\ UNCHANGED orders
     ELSE /\ IF id \in cancels THEN Moves(id, CancelRejectedTable) ELSE UNCHANGED orders
          /\ UNCHANGED <<venue, reports>>
  /\ UNCHANGED <<request, lock, at, amend, kill, late, used>>

Next ==
  \/ Engage \/ AmendRecords \/ AmendReads \/ AmendDecides \/ AmendRefused \/ AmendDoubts
  \/ \E id \in Ids :
       \/ SubmitChecks(id) \/ SubmitRecords(id) \/ SubmitPlaces(id)
       \/ SubmitAnswered(id) \/ SubmitDoubts(id) \/ Cancel(id) \/ CancelDoubts(id) \/ Hears(id)
       \/ TakesNew(id) \/ Executes(id) \/ TakesAmend(id) \/ TakesCancel(id)
       \/ \E size, price \in Amounts \cup {None} :
            (size # None \/ price # None) /\ AmendChecks(id, size, price)
Spec == Init /\ [][Next]_gateVars

-------------------------------------------------------------------------------
\* What an order may still do at the venue, with the requests that are on their way.
ToCome(id) ==
  LET amended == {m.size : m \in {w \in wire : w.kind = "amend" /\ w.id = id}}
      asked == IF [kind |-> "new", id |-> id] \in wire THEN request[id].size ELSE 0
      live == IF venue[id].live THEN Max({venue[id].quantity} \cup amended) - venue[id].filled
              ELSE 0
  IN  Larger(asked, live)
AtVenue(side) ==
  MapThenSumSet(LAMBDA id : request[id].side * venue[id].filled, Ids)
    + side * MapThenSumSet(ToCome, {id \in Ids : request[id].side = side})
\* Whatever order submits, amends, fills, cancels and lost answers come in, the executions
\* the venue may still make leave the position inside its limits (check_position and
\* check_short_sale, under the submit lock).
PositionStaysInLimits ==
  /\ AtVenue(1) <= MaxPosition
  /\ AtVenue(-1) >= IF AllowShort THEN -MaxPosition ELSE 0
\* Two of our orders never meet at the venue (check_self_match).
NeverMeets ==
  \A b, s \in Ids :
    venue[b].live /\ venue[s].live /\ request[b].side = 1 /\ request[s].side = -1
      => venue[b].price < venue[s].price
\* What the checks promise of the venue holds whatever happens between the checks, with one
\* exception: an acknowledgement that comes after the answer to an amend was lost drops the
\* terms that were asked for, and the checks do not count them any more (state.py).
VenueStaysWithinChecks == late.lapsed = {} => PositionStaysInLimits /\ NeverMeets

\* The worst case of the checks counts everything that could still execute, orders whose
\* status is unknown included (the docstring of risk.py).  It does not: see the exception.
CountsEverything ==
  /\ AtVenue(1) <= NetPosition + SumLeaves(OpenOrders, 1)
  /\ AtVenue(-1) >= NetPosition - SumLeaves(OpenOrders, -1)

\* An amendment is not sent once a cancel was asked after its check, nor once a kill was on
\* record when the switch was last read, or in memory (amend).  The cancel has one
\* exception: the order's outcome was unknown, and an acknowledgement made it working again.
AmendSent == \E m \in wire' \ wire : m.kind = "amend"
AmendYields ==
  [][AmendSent => /\ amend.id \notin cancels \ (amend.before \cup late.revived)
                  /\ ~kill.read /\ ~kill.memory]_gateVars
\* A cancel that is awaited stops an amendment checked before it (the comment in amend).
\* It does not: see the exception.
CancelStopsAmend == [][AmendSent => amend.id \notin cancels \ amend.before]_gateVars
===============================================================================
