-------------------------------- MODULE Ledger --------------------------------
(***************************************************************************)
(* The post-trade books of src/ismet/accounting/__init__.py: lots,         *)
(* realized profit and fees, from fills that are reported more than once,  *)
(* with fees that arrive late, and rebuilt when a fill is taken back.      *)
(*                                                                         *)
(* Abstractions.  The multiplier is 1 and there is one fee currency.       *)
(* Prices are multiples of 12, which each position the instances reach     *)
(* divides, so that an average is exact.  A report that contradicts the    *)
(* books raises before it changes them, so that it is left out.            *)
(***************************************************************************)
EXTENDS Integers, Sequences, FiniteSets, SequencesExt, FiniteSetsExt

CONSTANTS Keys,     \* order and fill id of each fill
          TimeOf,   \* when each of them happened
          Quantities, Prices, Marks

VARIABLES
  ledger,   \* the books
  fills     \* what the venue executed and did not take back, with the fee it told last

ledgerVars == <<ledger, fills>>

Unknown == -1
Fees == {Unknown, 1}
Fills == [key : Keys, side : {1, -1}, quantity : Quantities, price : Prices, fee : Fees]
Methods == {"fifo", "lifo", "average"}
Books(method) == [method |-> method, lots |-> <<>>, realized |-> 0, fees |-> 0,
                  unknownFees |-> 0, seen |-> {}]
Init == \E method \in Methods : ledger = Books(method) /\ fills = <<>>

Magnitude(n) == IF n < 0 THEN -n ELSE n
Sign(n) == IF n < 0 THEN -1 ELSE 1

-------------------------------------------------------------------------------
Quantity(l) == FoldLeft(LAMBDA sum, lot : sum + lot.quantity, 0, l.lots)
CostBasis(l) == FoldLeft(LAMBDA sum, lot : sum + lot.quantity * lot.price, 0, l.lots)
UnrealizedPnl(l, mark) == Quantity(l) * mark - CostBasis(l)

\* _collapse_to_average: lots have one sign, so that the quotient is of positive numbers.
Collapsed(l) ==
  IF Len(l.lots) < 2 \/ l.method # "average" THEN l.lots
  ELSE <<[quantity |-> Quantity(l), price |-> Magnitude(CostBasis(l)) \div Magnitude(Quantity(l))]>>
\* The closing loop of apply: each lot in turn gives what opposes the fill.
Matched(lot, remaining) ==
  IF lot.quantity * remaining < 0 THEN Min({Magnitude(lot.quantity), Magnitude(remaining)}) ELSE 0
Match(lots, signed, price) ==
  LET Give(so, lot) ==
        LET n == Matched(lot, so.remaining)
            left == lot.quantity - Sign(lot.quantity) * n
        IN  [remaining |-> so.remaining - Sign(so.remaining) * n,
             pnl |-> so.pnl + Sign(lot.quantity) * n * (price - lot.price),
             lots |-> IF left = 0 THEN so.lots ELSE Append(so.lots, [lot EXCEPT !.quantity = left])]
  IN  FoldLeft(Give, [remaining |-> signed, pnl |-> 0, lots |-> <<>>], lots)
\* FIFO and AVERAGE close from the front, LIFO from the back.
Turned(l, lots) == IF l.method = "lifo" THEN Reverse(lots) ELSE lots

\* _book_fee.
BookFee(l, fee) == IF fee = Unknown THEN [l EXCEPT !.unknownFees = @ + 1] ELSE [l EXCEPT !.fees = @ + fee]
\* _merge_report: a fee that was unknown is booked once it is told.
MergeReport(l, known, report) ==
  IF known.fee = Unknown /\ report.fee # Unknown
  THEN BookFee([l EXCEPT !.unknownFees = @ - 1, !.seen = (@ \ {known}) \cup {report}], report.fee)
  ELSE l
\* The identity of a fill: its id is unique only within its order.
SlipIsKnown(one, other) == one.key[2] = other.key[2]
IsKnown(one, other) == one.key = other.key
Apply(l, fill) ==
  LET known == {f \in l.seen : IsKnown(f, fill)}
      booked == BookFee([l EXCEPT !.seen = @ \cup {fill}], fill.fee)
      m == Match(Turned(l, Collapsed(l)), fill.side * fill.quantity, fill.price)
      lots == Turned(l, m.lots)
  IN  IF known # {} THEN MergeReport(l, CHOOSE f \in known : TRUE, fill)
      ELSE [booked EXCEPT !.realized = @ + m.pnl,
                          !.lots = IF m.remaining = 0 THEN lots
                                   ELSE Append(lots, [quantity |-> m.remaining, price |-> fill.price])]
\* build_ledger: in the order of time; fills of one time keep theirs.
InTimeOrder(given) ==
  FoldLeft(LAMBDA order, t : order \o SelectSeq(given, LAMBDA f : TimeOf[f.key] = t), <<>>,
           SetToSortSeq({TimeOf[k] : k \in Keys}, <))
BuildLedger(given, method) == FoldLeft(Apply, Books(method), InTimeOrder(given))

-------------------------------------------------------------------------------
Executed == {fills[i].key : i \in DOMAIN fills}
\* A fill is reported as it happens.
Reported ==
  /\ \E fill \in Fills :
       /\ fill.key \notin Executed
       /\ fills' = Append(fills, fill)
       /\ ledger' = Apply(ledger, fill)
\* A fill is reported again, by another way: as known, without its fee, or with a fee that
\* was not known.
ReportedAgain ==
  \E i \in DOMAIN fills, fee \in Fees :
    /\ fills[i].fee # Unknown => fee \in {Unknown, fills[i].fee}
    /\ ledger' = Apply(ledger, [fills[i] EXCEPT !.fee = fee])
    /\ fills' = [fills EXCEPT ![i].fee = IF fee = Unknown THEN @ ELSE fee]
\* A fill is taken back: the books are built again from what is left.
Busted ==
  \E i \in DOMAIN fills :
    /\ fills' = RemoveAt(fills, i)
    /\ ledger' = BuildLedger(RemoveAt(fills, i), ledger.method)
Next == Reported \/ ReportedAgain \/ Busted
Spec == Init /\ [][Next]_ledgerVars

-------------------------------------------------------------------------------
\* Under any lot method, in any order of reports, fees and busts, what is realized and what
\* is open make up the profit of the fills, and each fee is in the books once
\* (PositionLedger.apply, build_ledger).
Worth(fill, mark) == fill.side * fill.quantity * (mark - fill.price)
Total(Of(_)) == FoldLeft(LAMBDA sum, fill : sum + Of(fill), 0, fills)
Told(fill) == IF fill.fee = Unknown THEN 0 ELSE fill.fee
Untold(fill) == IF fill.fee = Unknown THEN 1 ELSE 0
BooksBalance ==
  /\ \A mark \in Marks :
       ledger.realized + UnrealizedPnl(ledger, mark) = Total(LAMBDA f : Worth(f, mark))
  /\ ledger.fees = Total(Told)
  /\ ledger.unknownFees = Total(Untold)
===============================================================================
