------------------------------- MODULE FixStore -------------------------------
(***************************************************************************)
(* The durable store of one FIX session, SqliteFixStore of                 *)
(* src/ismet/fix/store.py.  Each operator is one transaction: it takes the *)
(* stored row set and gives the one that is committed.  The session and    *)
(* the provider run them one at a time on one worker thread.               *)
(*                                                                         *)
(* A stored outbound message is its number, for the store is only asked    *)
(* which numbers carry one.  `epoch` counts the resets; no code reads it.  *)
(***************************************************************************)
EXTENDS Integers, Sequences, FiniteSets

NoPeriod == 0

\* The sequence row of a session that never connected.
NewSequence ==
  [out |-> 1, in |-> 1, messages |-> {}, period |-> NoPeriod, complete |-> FALSE,
   epoch |-> 1]

\* The number of an administrative message is used up and nothing is kept.
AllocateOutbound(s) == [s EXCEPT !.out = @ + 1]

\* An application message is kept under the number in the same transaction.
SlipKeepNothing(s) == AllocateOutbound(s)
AllocateMessage(s) ==
  [AllocateOutbound(s) EXCEPT !.messages = @ \cup {s.out}]

SetNextInbound(s, value) == [s EXCEPT !.in = value]
ResetSequences(s, epoch) ==
  [s EXCEPT !.out = 1, !.in = 1, !.messages = {}, !.epoch = epoch]
SetResetPeriod(s, period) == [s EXCEPT !.period = period]
SetInboundComplete(s, value) == [s EXCEPT !.complete = value]
Messages(s, begin, end) == s.messages \cap (begin .. end)

-------------------------------------------------------------------------------
(* The rows about one order: `row` is its payload, `wires` the ClOrdIDs that   *)
(* lead to it, `execs` its executions by ExecID, `held` the quarantine.        *)
NoRow == [status |-> "none"]
NoOrderRows == [row |-> NoRow, wires |-> {}, execs |-> <<>>, held |-> <<>>]

PutOrder(s, row) == [s EXCEPT !.row = row]
LinkWireId(s, wire) == [s EXCEPT !.wires = @ \cup {wire}]
DeleteOrder(s) == [s EXCEPT !.row = NoRow, !.wires = {}]

Execution(content, fill) == [content |-> content, fill |-> fill, busted |-> FALSE]

\* A quarantined message: what it was, and who released it.
Entry(about, halted) == [about |-> about, halted |-> halted, by |-> "nobody"]
Quarantine(s, entry) == [s EXCEPT !.held = Append(@, entry)]
Unreleased(s) == {i \in DOMAIN s.held : s.held[i].by = "nobody"}
ReleaseQuarantine(s, operator, expected) ==
  IF Cardinality(Unreleased(s)) # expected THEN s
  ELSE [s EXCEPT !.held = [i \in DOMAIN @ |->
                             IF i \in Unreleased(s) THEN [@[i] EXCEPT !.by = operator]
                             ELSE @[i]]]

\* One transaction: the order, the execution of that id unless it is known, the mark on
\* a busted execution (0: none), and a quarantined message.
WithExecution(s, id, execution) ==
  [x \in DOMAIN s.execs \cup {id} |->
     IF x \in DOMAIN s.execs THEN s.execs[x] ELSE execution]
MarkBusted(execs, bust) ==
  [x \in DOMAIN execs |-> IF x = bust THEN [execs[x] EXCEPT !.busted = TRUE] ELSE execs[x]]
RecordReport(s, row, id, execution, bust, quarantine) ==
  [s EXCEPT !.row = row,
            !.execs = MarkBusted(WithExecution(s, id, execution), bust),
            !.held = @ \o quarantine]

FillsSince(s) == {id \in DOMAIN s.execs : s.execs[id].fill > 0 /\ ~s.execs[id].busted}
BustedExecutions(s) == {id \in DOMAIN s.execs : s.execs[id].busted}
===============================================================================
