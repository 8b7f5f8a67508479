----------------------------- MODULE OrderProofs ------------------------------
(***************************************************************************)
(* Proofs about the orders of the manager: OrderLifecycle, one order under *)
(* every event, for every set of sizes, prices and fill reports; and at    *)
(* the end Gate, several orders between their checks and the venue.        *)
(*                                                                         *)
(* OrderLifecycle.                                                         *)
(* The safety invariants are proved together, because they lean on one     *)
(* another: that a completed order has really filled needs the shape of    *)
(* the record, and an overfill can stay surfaced only while the terms it   *)
(* was judged against are still there.  Sound is their common part for one *)
(* order before Settle drops stale terms: each reducer operator is shown   *)
(* to preserve it, and Becomes then restores the whole invariant.          *)
(***************************************************************************)
EXTENDS OrderLifecycle, Gates, SequenceTheorems, FiniteSetTheorems, Induction, TLAPS

Completion(o, f) ==
  ~f => /\ o.status \in WorkingStatuses => o.filled < o.quantity
        /\ o.status = "FILLED" => o.filled >= o.quantity

Surfaced(o, d) == ~d /\ o.filled > FillCeiling(o) => "overfill" \in o.anomalies

CountedOnce(o) == /\ \A f, g \in o.fills : f.id = g.id => f = g
                  /\ \A f \in o.fills : f.id \notin o.busted

Sound(o, f, d) == o \in Orders /\ CountedOnce(o) /\ Completion(o, f) /\ Surfaced(o, d)

Settled(o) == HasPendingTerms(o) => o.status \in PendingStatuses \cup {"UNKNOWN"}

IInv == /\ TypeOK
        /\ EachFillCountedOnce
        /\ PendingTermsOnlyWhileOpen
        /\ CompletionMatchesFills
        /\ OverfillSurfaced

\* No table entry assigns a status that claims something about the fills: such a
\* status is kept or computed.
TableOK(t) ==
  \A s \in DOMAIN t :
    /\ t[s] \in Statuses \cup {Working, Resumed}
    /\ t[s] \in WorkingStatuses \cup {"FILLED"} => t[s] = s

-------------------------------------------------------------------------------
\* Every transition table of state.py has that shape.
LEMMA TablesOK ==
  /\ TableOK(SendStartedTable) /\ TableOK(AckTable) /\ TableOK(RejectTable)
  /\ TableOK(OutcomeUnknownTable) /\ TableOK(CancelRequestedTable)
  /\ TableOK(CanceledTable) /\ TableOK(CancelRejectedTable)
  /\ TableOK(ReplaceRequestedTable) /\ TableOK(ReplacedTable)
  /\ TableOK(ReplaceRejectedTable) /\ TableOK(ExpiredTable)
BY DEF TableOK, SendStartedTable, AckTable, RejectTable, OutcomeUnknownTable,
       CancelRequestedTable, CanceledTable, CancelRejectedTable,
       ReplaceRequestedTable, ReplacedTable, ReplaceRejectedTable, ExpiredTable,
       Statuses, AllLive, Terminal, WorkingStatuses, PendingStatuses, Working, Resumed

\* A note adds an anomaly of a known kind and changes nothing else (_note).
LEMMA NoteSound ==
  ASSUME NEW o, NEW f, NEW d, Sound(o, f, d), NEW kinds \in SUBSET Anomalies
  PROVE  Sound(Note(o, kinds), f, d)
BY DEF Sound, Orders, Note, CountedOnce, Completion, Surfaced, FillCeiling, Larger

\* The status a fill count implies is a status, and it agrees with the count.
LEMMA WorkingStatusRight ==
  ASSUME NEW o \in Orders
  PROVE  /\ WorkingStatus(o) \in WorkingStatuses \cup {"FILLED"}
         /\ WorkingStatus(o) = "FILLED" <=> o.filled >= o.quantity
BY DEF Orders, WorkingStatus, WorkingStatuses

\* A lifecycle event, legal or not, keeps status and money in agreement.
LEMMA TransitionSound ==
  ASSUME NEW o, NEW f, NEW d, Sound(o, f, d), NEW table, TableOK(table)
  PROVE  Sound(Transition(o, table), f, d)
<1>1. CASE o.status \notin DOMAIN table
  BY <1>1, NoteSound DEF Transition, Anomalies
<1>2. CASE o.status \in DOMAIN table
  <2> DEFINE s == Transition(o, table).status
  <2>1. Transition(o, table) = [o EXCEPT !.status = s]
    BY <1>2 DEF Transition, Sound, Orders
  <2>2. s \in {"PENDING_REPLACE", WorkingStatus(o), table[o.status]}
        /\ s \notin {Working, Resumed}
    BY <1>2, WorkingStatusRight
    DEF Transition, Sound, Orders, Working, Resumed, WorkingStatuses
  <2>3. s \in Statuses
    BY <1>2, <2>2, WorkingStatusRight DEF TableOK, Sound, Statuses, AllLive,
       WorkingStatuses, PendingStatuses, Terminal
  <2>4. s \in WorkingStatuses \cup {"FILLED"} => s \in {o.status, WorkingStatus(o)}
    BY <1>2, <2>2 DEF TableOK, WorkingStatuses
  <2>5. Completion([o EXCEPT !.status = s], f)
    BY <2>3, <2>4, WorkingStatusRight DEF Completion, Sound, Orders, WorkingStatuses
  <2> QED
    BY <2>1, <2>3, <2>5 DEF Sound, Orders, CountedOnce, Surfaced, FillCeiling, Larger
<1> QED BY <1>1, <1>2

-------------------------------------------------------------------------------
\* Booking a fill never seen before (_apply_fill, from "updated = replace").
LEMMA BookNewFillSound ==
  ASSUME NEW o, NEW f, NEW d, Sound(o, f, d), Settled(o), NEW r \in Reports,
         r.id \notin o.busted, \A g \in o.fills : g.id # r.id
  PROVE  Sound(BookNewFill(o, r), f, d)
<1> DEFINE n == BookNewFill(o, r)
<1>1. r \in [id : FillIds, qty : Nat \ {0}, match : BOOLEAN, fee : Nat]
  BY ReportsAreReports
<1>2. /\ n.fills = o.fills \cup {r}
      /\ n.filled = o.filled + r.qty
      /\ n.quantity = o.quantity
      /\ n.pendingQuantity = o.pendingQuantity
      /\ n.busted = o.busted
      /\ n.status = IF o.filled + r.qty >= FillCeiling(o) THEN "FILLED"
                    ELSE IF o.status \in {"ACCEPTED", "SUBMITTING"}
                         THEN "PARTIALLY_FILLED" ELSE o.status
  BY <1>1 DEF BookNewFill, Note, Sound, Orders, FillCeiling, Larger
<1> DEFINE raised == NoteIf(~r.match, "mismatch")
                     \cup NoteIf(o.filled + r.qty > FillCeiling(o), "overfill")
                     \cup NoteIf(o.status = "PENDING_SUBMIT", "before_send")
                     \cup NoteIf(o.status = "REJECTED", "after_rejected")
                     \cup NoteIf(o.status \in {"CANCELED", "EXPIRED"}, "advisory")
<1>a. n.anomalies = o.anomalies \cup raised
  BY <1>1 DEF BookNewFill, Note, Sound, Orders
<1>b. raised \subseteq Anomalies
  BY DEF NoteIf, Anomalies, HaltingAnomalies
<1>3. "overfill" \in n.anomalies \/ n.filled <= FillCeiling(o)
  <2>1. FillCeiling(o) \in Int /\ n.filled \in Int
    BY <1>1, <1>2 DEF Sound, Orders, FillCeiling, Larger
  <2>2. n.filled > FillCeiling(o) => "overfill" \in raised
    BY <1>2 DEF NoteIf
  <2> QED BY <1>a, <2>1, <2>2
<1>4. n \in Orders
  <2>1. n = [o EXCEPT !.fills = n.fills, !.filled = n.filled,
                      !.anomalies = n.anomalies, !.status = n.status]
    BY <1>1 DEF BookNewFill, Note, Sound, Orders
  <2>2. n.status \in Statuses
    BY <1>2 DEF Sound, Orders, Statuses, AllLive, WorkingStatuses, Terminal
  <2>3. n.anomalies \in SUBSET Anomalies
    BY <1>a, <1>b DEF Sound, Orders
  <2>4. n.fills \in SUBSET Reports /\ n.filled \in Int
    BY <1>1, <1>2 DEF Sound, Orders
  <2> QED BY <2>1, <2>2, <2>3, <2>4 DEF Sound, Orders
<1>5. CountedOnce(n)
  BY <1>2 DEF Sound, CountedOnce
<1>6. Completion(n, f)
  <2>1. o.status \in WorkingStatuses => FillCeiling(o) = o.quantity
    BY DEF Settled, HasPendingTerms, Sound, Orders, FillCeiling, Larger, None,
       WorkingStatuses, PendingStatuses
  <2>2. o.status = "SUBMITTING" => FillCeiling(o) = o.quantity
    BY DEF Settled, HasPendingTerms, Sound, Orders, FillCeiling, Larger, None,
       PendingStatuses
  <2>3. FillCeiling(o) \in Int /\ FillCeiling(o) >= o.quantity
    BY DEF Sound, Orders, FillCeiling, Larger
  <2> HIDE DEF n
  <2> QED BY <1>1, <1>2, <2>1, <2>2, <2>3 DEF Sound, Completion, Orders, WorkingStatuses
<1>7. Surfaced(n, d)
  BY <1>2, <1>3, <1>4 DEF Surfaced, FillCeiling, Orders, Larger
<1> QED BY <1>4, <1>5, <1>6, <1>7 DEF Sound

\* A second report of a known fill never changes what was counted (merged_fill).
LEMMA ReportKnownFillSound ==
  ASSUME NEW o, NEW f, NEW d, Sound(o, f, d), NEW r \in Reports,
         NEW known \in o.fills, known.id = r.id
  PROVE  Sound(ReportKnownFill(o, known, r), f, d)
<1>1. CASE ~SameExecution(known, r)
  BY <1>1, NoteSound DEF ReportKnownFill, Anomalies, HaltingAnomalies
<1>2. CASE SameExecution(known, r)
  <2> DEFINE m == MergedFill(known, r)
             b == [o EXCEPT !.fills = (@ \ {known}) \cup {m}]
  <2>1. /\ r \in [id : FillIds, qty : Nat \ {0}, match : BOOLEAN, fee : Nat]
        /\ known \in [id : FillIds, qty : Nat \ {0}, match : BOOLEAN, fee : Nat]
        /\ known \in Reports
    BY ReportsAreReports DEF Sound, Orders
  <2>2. m \in {known, r} /\ m.id = known.id
    BY <1>2, <2>1 DEF MergedFill, SameExecution, None
  <2>3. b \in Orders
    BY <2>1, <2>2 DEF Sound, Orders
  <2>4. CountedOnce(b)
    BY <2>2 DEF Sound, CountedOnce, Orders
  <2>5. Sound(b, f, d)
    BY <2>3, <2>4 DEF Sound, Completion, Surfaced, Orders, FillCeiling, Larger
  <2> QED
    BY <1>2, <2>5, NoteSound DEF ReportKnownFill, NoteIf, Anomalies
<1> QED BY <1>1, <1>2

\* A fill report of any kind: new, repeated, conflicting, or of a busted fill.
LEMMA ApplyFillSound ==
  ASSUME NEW o, NEW f, NEW d, Sound(o, f, d), Settled(o), NEW r \in Reports
  PROVE  Sound(ApplyFill(o, r), f, d)
<1>1. CASE r.id \in o.busted
  BY <1>1, NoteSound DEF ApplyFill, Anomalies
<1>2. CASE r.id \notin o.busted /\ \E g \in o.fills : g.id = r.id
  <2> DEFINE known == CHOOSE g \in o.fills : g.id = r.id
  <2>1. known \in o.fills /\ known.id = r.id
    BY <1>2
  <2>2. ApplyFill(o, r) = ReportKnownFill(o, known, r)
    BY <1>2 DEF ApplyFill, CountFill
  <2> QED
    BY <2>1, <2>2, ReportKnownFillSound
<1>3. CASE r.id \notin o.busted /\ ~\E g \in o.fills : g.id = r.id
  BY <1>3, BookNewFillSound DEF ApplyFill, CountFill
<1> QED BY <1>1, <1>2, <1>3

\* A bust, of a fill that is live, already busted, or not yet reported.
LEMMA ApplyBustSound ==
  ASSUME NEW o, NEW f, NEW d, Sound(o, f, d), NEW id \in FillIds
  PROVE  Sound(ApplyBust(o, id), f, d)
<1>1. CASE id \in o.busted
  BY <1>1 DEF ApplyBust
<1>2. CASE id \notin o.busted /\ ~\E g \in o.fills : g.id = id
  <2>1. ApplyBust(o, id) = [Note(o, {"advisory"}) EXCEPT !.busted = @ \cup {id}]
    BY <1>2 DEF ApplyBust, TakeBackFill
  <2>2. Sound(Note(o, {"advisory"}), f, d)
    BY NoteSound DEF Anomalies
  <2> DEFINE b == Note(o, {"advisory"})
             n == ApplyBust(o, id)
  <2>3. n \in Orders
    BY <2>1, <2>2 DEF Sound, Orders
  <2>4. /\ n.fills = o.fills /\ n.busted = o.busted \cup {id}
        /\ n.status = b.status /\ n.filled = b.filled /\ n.quantity = b.quantity
        /\ n.pendingQuantity = b.pendingQuantity /\ n.anomalies = b.anomalies
    BY <2>1, <2>2 DEF Sound, Orders, Note
  <2>5. CountedOnce(n)
    BY <1>2, <2>4 DEF Sound, CountedOnce
  <2> QED
    BY <2>2, <2>3, <2>4, <2>5 DEF Sound, Completion, Surfaced, FillCeiling, Larger
<1>3. CASE id \notin o.busted /\ \E g \in o.fills : g.id = id
  <2> DEFINE target == CHOOSE g \in o.fills : g.id = id
             n == ApplyBust(o, id)
  <2>1. target \in o.fills /\ target.id = id
    BY <1>3
  <2>2. target.qty \in Nat \ {0}
    BY <2>1, ReportsAreReports DEF Sound, Orders
  <2>3. /\ n.fills = o.fills \ {target}
        /\ n.filled = o.filled - target.qty
        /\ n.busted = o.busted \cup {id}
        /\ n.quantity = o.quantity
        /\ n.pendingQuantity = o.pendingQuantity
        /\ n.anomalies = o.anomalies
        /\ n.status = IF o.status = "FILLED" THEN "UNKNOWN"
                      ELSE IF o.status = "PARTIALLY_FILLED" /\ o.filled - target.qty = 0
                           THEN "ACCEPTED" ELSE o.status
    BY <1>3 DEF ApplyBust, TakeBackFill, Sound, Orders
  <2>4. n \in Orders
    <3>1. n = [o EXCEPT !.busted = n.busted, !.fills = n.fills, !.filled = n.filled,
                        !.status = n.status]
      BY <1>3 DEF ApplyBust, TakeBackFill, Sound, Orders
    <3>2. n.status \in Statuses
      BY <2>3 DEF Sound, Orders, Statuses, AllLive, WorkingStatuses
    <3>3. /\ n.fills \in SUBSET Reports
          /\ n.filled \in Int
          /\ n.busted \in SUBSET FillIds
      BY <2>2, <2>3 DEF Sound, Orders
    <3> QED BY <3>1, <3>2, <3>3 DEF Sound, Orders
  <2>5. CountedOnce(n)
    BY <2>1, <2>3 DEF Sound, CountedOnce
  <2>6. Completion(n, f) /\ Surfaced(n, d)
    BY <2>2, <2>3 DEF Sound, Orders, Completion, Surfaced, FillCeiling, Larger,
       WorkingStatuses
  <2> QED BY <2>4, <2>5, <2>6 DEF Sound
<1> QED BY <1>1, <1>2, <1>3
-------------------------------------------------------------------------------
\* A replace settling below what has filled is judged against both sizes.
LEMMA NoteExposedSound ==
  ASSUME NEW b, NEW a, NEW f, NEW d, Surfaced(b, d), b \in Orders,
         a \in Orders, CountedOnce(a), Completion(a, f),
         a.pendingQuantity = None, a.filled = b.filled,
         b.anomalies \subseteq a.anomalies
  PROVE  Sound(NoteExposedOverfill(b, a), f, d)
<1> DEFINE n == NoteExposedOverfill(b, a)
<1>1. n.anomalies \in SUBSET Anomalies /\ a.anomalies \subseteq n.anomalies
  BY DEF NoteExposedOverfill, Note, NoteIf, Orders, Anomalies, HaltingAnomalies
<1>2. n = [a EXCEPT !.anomalies = n.anomalies]
  BY DEF NoteExposedOverfill, Note, Orders
<1>3. n \in Orders /\ CountedOnce(n) /\ Completion(n, f)
  BY <1>1, <1>2 DEF Orders, CountedOnce, Completion
<1>4. Surfaced(n, d)
  <2>1. FillCeiling(n) = a.quantity /\ n.filled = a.filled
    BY <1>2 DEF Orders, FillCeiling, Larger, None
  <2>2. CASE b.filled > FillCeiling(b)
    BY <1>1, <2>1, <2>2 DEF Surfaced
  <2>3. CASE ~(b.filled > FillCeiling(b))
    BY <2>1, <2>3 DEF Surfaced, NoteExposedOverfill, Note, NoteIf, Orders
  <2> QED BY <2>2, <2>3
<1> QED BY <1>3, <1>4 DEF Sound

WithPending(o, size, price) ==
  [o EXCEPT !.pendingQuantity = size, !.pendingPrice = price]

SameBut(o, n, size, price) ==
  /\ n \in Orders
  /\ n.pendingQuantity = size /\ n.pendingPrice = price
  /\ n.fills = o.fills /\ n.busted = o.busted /\ n.anomalies = o.anomalies
  /\ n.filled = o.filled /\ n.quantity = o.quantity /\ n.status = o.status

\* Replacing the requested terms of an order leaves the rest of the record alone.
LEMMA PendingTermsReplaced ==
  ASSUME NEW o \in Orders, NEW size \in Nat, NEW price \in Nat
  PROVE  SameBut(o, WithPending(o, size, price), size, price)
BY DEF Orders, WithPending, SameBut

\* The request opens a second size without touching the first.
LEMMA ApplyReplaceRequestedSound ==
  ASSUME NEW o, NEW f, NEW d, Sound(o, f, d), Settled(o),
         NEW size \in Sizes \cup {None}, NEW price \in Prices \cup {None}
  PROVE  Sound(ApplyReplaceRequested(o, size, price), f, d)
<1>1. CASE o.status \notin DOMAIN ReplaceRequestedTable
  BY <1>1, TransitionSound, TablesOK DEF ApplyReplaceRequested
<1>2. CASE o.status \in DOMAIN ReplaceRequestedTable
  <2> DEFINE t == Transition(o, ReplaceRequestedTable)
             n == WithPending(t, size, price)
  <2>1. Sound(t, f, d)
    BY TransitionSound, TablesOK
  <2>2. t.pendingQuantity = None /\ t.status = "PENDING_REPLACE"
    BY <1>2 DEF Transition, ReplaceRequestedTable, Sound, Orders, Settled,
       HasPendingTerms, PendingStatuses, WorkingStatuses, Working, Resumed
  <2> HIDE DEF t
  <2>3. t \in Orders /\ size \in Nat /\ price \in Nat
    BY <2>1, SizesAreAmounts, PricesAreAmounts DEF Sound, None
  <2>4. SameBut(t, n, size, price)
    BY <2>3, PendingTermsReplaced
  <2> HIDE DEF n
  <2>5. /\ FillCeiling(n) \in Int /\ FillCeiling(t) \in Int
        /\ FillCeiling(n) >= FillCeiling(t)
    BY <2>2, <2>3, <2>4 DEF SameBut, Orders, FillCeiling, Larger, None
  <2>6. CountedOnce(n) /\ Completion(n, f) /\ Surfaced(n, d)
    BY <2>1, <2>2, <2>3, <2>4, <2>5
    DEF SameBut, Sound, CountedOnce, Completion, Surfaced, WorkingStatuses, Orders
  <2> QED BY <1>2, <2>4, <2>6 DEF ApplyReplaceRequested, WithPending, SameBut, Sound, n, t
<1> QED BY <1>1, <1>2

\* The venue confirms new terms: the status is judged again under them.
LEMMA ApplyReplacedSound ==
  ASSUME NEW o, NEW f, NEW d, Sound(o, f, d),
         NEW size \in Sizes \cup {None}, NEW price \in Prices \cup {None}
  PROVE  Sound(ApplyReplaced(o, size, price), f, d)
<1>1. CASE o.status \notin DOMAIN ReplacedTable
  BY <1>1, TransitionSound, TablesOK DEF ApplyReplaced
<1>2. CASE o.status \in DOMAIN ReplacedTable
  <2> DEFINE t == Transition(o, ReplacedTable)
             terms == NewTerms(o, t, size, price)
             judged == [terms EXCEPT !.status =
                          IF t.status \in WorkingStatuses \cup {"FILLED"}
                          THEN WorkingStatus(terms) ELSE @]
             n == ApplyReplaced(o, size, price)
  <2>1. Sound(t, f, d)
    BY TransitionSound, TablesOK
  <2>2. t.filled = o.filled /\ o.anomalies \subseteq t.anomalies
    BY DEF Transition, Note, Sound, Orders
  <2> HIDE DEF t
  <2>3. terms \in Orders
    <3>1. /\ FirstGiven(size, o.pendingQuantity, o.quantity) \in Nat \ {0}
          /\ FirstGiven(price, o.pendingPrice, o.price) \in Nat
      BY SizesAreAmounts, PricesAreAmounts DEF FirstGiven, None, Sound, Orders
    <3> QED BY <2>1, <3>1 DEF NewTerms, Sound, Orders, None
  <2>4. /\ terms.fills = t.fills /\ terms.busted = t.busted
        /\ terms.anomalies = t.anomalies /\ terms.filled = t.filled
        /\ terms.status = t.status /\ terms.pendingQuantity = None
    BY <2>1 DEF NewTerms, Sound, Orders
  <2> HIDE DEF terms
  <2>5. judged \in Orders /\ CountedOnce(judged)
    BY <2>1, <2>3, <2>4, WorkingStatusRight
    DEF Orders, CountedOnce, Sound, Statuses, AllLive, WorkingStatuses, Terminal
  <2>6. Completion(judged, f)
    BY <2>3, <2>4, WorkingStatusRight DEF Orders, Completion, WorkingStatuses
  <2>7. /\ judged.pendingQuantity = None /\ judged.filled = o.filled
        /\ o.anomalies \subseteq judged.anomalies
    BY <2>2, <2>3, <2>4 DEF Orders
  <2>8. n = NoteExposedOverfill(o, judged)
    <3> DEFINE settled == NoteExposedOverfill(o, terms)
    <3>1. n = [settled EXCEPT !.status =
                 IF t.status \in WorkingStatuses \cup {"FILLED"}
                 THEN WorkingStatus(settled) ELSE @]
      BY <1>2 DEF ApplyReplaced, t, terms
    <3>2. CASE o.filled > FillCeiling(o)
      BY <2>3, <3>1, <3>2 DEF NoteExposedOverfill
    <3>3. CASE ~(o.filled > FillCeiling(o))
      <4> DEFINE kinds == NoteIf(terms.filled > terms.quantity, "overfill")
      <4>1. settled = [terms EXCEPT !.anomalies = @ \cup kinds]
        BY <3>3 DEF NoteExposedOverfill, Note
      <4>2. /\ WorkingStatus(settled) = WorkingStatus(terms)
            /\ settled.status = terms.status
        BY <2>3, <4>1 DEF WorkingStatus, Orders
      <4>3. n = [settled EXCEPT !.status = judged.status]
        BY <2>3, <3>1, <4>2 DEF Orders
      <4>4. judged = [terms EXCEPT !.status = judged.status]
        BY <2>3 DEF Orders
      <4>5. NoteExposedOverfill(o, judged) = [judged EXCEPT !.anomalies = @ \cup kinds]
        BY <2>3, <3>3 DEF NoteExposedOverfill, Note, Orders
      <4> HIDE DEF settled, kinds, judged, n
      <4> QED BY <2>3, <4>1, <4>3, <4>4, <4>5 DEF Orders
    <3> QED BY <3>2, <3>3
  <2> HIDE DEF judged
  <2> QED BY <2>1, <2>5, <2>6, <2>7, <2>8, NoteExposedSound DEF Sound
<1> QED BY <1>1, <1>2

\* The venue refuses new terms, in whatever status the refusal finds the order.
LEMMA ApplyReplaceRejectedSound ==
  ASSUME NEW o, NEW f, NEW d, Sound(o, f, d)
  PROVE  Sound(ApplyReplaceRejected(o), f, d)
<1> DEFINE t == Transition(o, ReplaceRejectedTable)
           n == ForgetPendingTerms(o)
<1>1. Sound(t, f, d)
  BY TransitionSound, TablesOK
<1>2. t.filled = o.filled /\ o.anomalies \subseteq t.anomalies
  BY DEF Transition, Note, Sound, Orders
<1>3. n = [t EXCEPT !.pendingQuantity = None, !.pendingPrice = None]
  BY DEF ForgetPendingTerms
<1> HIDE DEF t, n
<1>4. /\ n \in Orders /\ n.pendingQuantity = None
      /\ n.fills = t.fills /\ n.busted = t.busted /\ n.filled = t.filled
      /\ n.quantity = t.quantity /\ n.status = t.status /\ n.anomalies = t.anomalies
  BY <1>1, <1>3 DEF Sound, Orders, None
<1>5. CountedOnce(n) /\ Completion(n, f)
  BY <1>1, <1>4 DEF Sound, CountedOnce, Completion
<1>6. Sound(NoteExposedOverfill(o, n), f, d)
  BY <1>2, <1>4, <1>5, NoteExposedSound DEF Sound
<1> QED BY <1>6 DEF ApplyReplaceRejected, n
-------------------------------------------------------------------------------
\* The invariant is the common part together with Settled.
LEMMA IInvIsSound ==
  IInv <=> /\ Sound(order, forced, dropped) /\ Settled(order)
           /\ forced \in BOOLEAN /\ dropped \in BOOLEAN
BY DEF IInv, TypeOK, EachFillCountedOnce, PendingTermsOnlyWhileOpen,
       CompletionMatchesFills, OverfillSurfaced, Sound, CountedOnce, Completion,
       Surfaced, Settled

\* Dropping lapsed terms (the end of apply_event) keeps what the reducer established
\* and restores PendingTermsOnlyWhileOpen.
LEMMA SettleSound ==
  ASSUME NEW o, NEW f, NEW d \in BOOLEAN, Sound(o, f, d)
  PROVE  LET s == Settle(o)
         IN  /\ Settled(s)
             /\ Sound(s, f, d \/ o.pendingQuantity # s.pendingQuantity)
<1>1. CASE o.status \in PendingStatuses \cup {"UNKNOWN"}
  BY <1>1 DEF Settle, Settled, Sound, Surfaced
<1>2. CASE o.status \notin PendingStatuses \cup {"UNKNOWN"}
  <2> DEFINE s == Settle(o)
             lapsed == d \/ o.pendingQuantity # s.pendingQuantity
  <2>1. s = WithPending(o, None, None)
    BY <1>2 DEF Settle, WithPending
  <2>2. o \in Orders /\ None \in Nat
    BY DEF Sound, None
  <2>3. SameBut(o, s, None, None)
    BY <2>1, <2>2, PendingTermsReplaced
  <2> HIDE DEF s
  <2>4. Settled(s) /\ CountedOnce(s) /\ Completion(s, f)
    BY <2>3 DEF SameBut, Settled, HasPendingTerms, Sound, CountedOnce, Completion
  <2>5. Surfaced(s, lapsed)
    BY <2>2, <2>3 DEF SameBut, Sound, Surfaced, FillCeiling
  <2> QED BY <2>3, <2>4, <2>5 DEF SameBut, Sound, s
<1> QED BY <1>1, <1>2

\* A history flag may only make the claims about it weaker.
LEMMA ForcedWeakens ==
  ASSUME NEW o, NEW f, NEW d, Sound(o, f, d)
  PROVE  Sound(o, TRUE, d)
BY DEF Sound, Completion

\* The venue's own word on the status; nothing is claimed of the count after it.
LEMMA ApplyRestatedSound ==
  ASSUME NEW o, NEW f, NEW d, Sound(o, f, d), NEW status \in Statuses
  PROVE  Sound(ApplyRestated(o, status), TRUE, d)
<1> DEFINE noted == Note(o, NoteIf(o.status \in Terminal /\ o.status # status, "advisory"))
<1>1. Sound(noted, f, d)
  BY NoteSound DEF NoteIf, Anomalies
<1> HIDE DEF noted
<1>2. Sound([noted EXCEPT !.status = status], TRUE, d)
  BY <1>1 DEF Sound, Orders, CountedOnce, Completion, Surfaced, FillCeiling, Larger
<1> QED BY <1>2 DEF ApplyRestated, noted

\* Init establishes the invariant.
LEMMA InitIInv == Init => IInv
<1> SUFFICES ASSUME Init PROVE IInv
  OBVIOUS
<1>1. PICK size \in Sizes, price \in Prices : order = NewOrder(size, price)
  BY DEF Init
<1>2. Sound(order, forced, dropped) /\ Settled(order)
  BY <1>1, SizesAreAmounts, PricesAreAmounts
  DEF NewOrder, Sound, Orders, CountedOnce, Completion, Surfaced, Settled,
      HasPendingTerms, FillCeiling, Larger, Statuses, WorkingStatuses, None
<1> QED BY <1>2, IInvIsSound DEF Init

\* One report: whatever keeps an order sound keeps the invariant.
LEMMA BecomesIInv ==
  ASSUME IInv, NEW o, NEW f \in BOOLEAN, Sound(o, f, dropped), Becomes(o), forced' = f
  PROVE  IInv'
<1>1. dropped \in BOOLEAN
  BY DEF IInv, TypeOK
<1>2. Sound(order, forced, dropped)' /\ Settled(order)'
  BY <1>1, SettleSound DEF Becomes
<1>3. (forced \in BOOLEAN /\ dropped \in BOOLEAN)'
  BY <1>1 DEF Becomes
<1> QED
  BY <1>2, <1>3
  DEF IInv, TypeOK, EachFillCountedOnce, PendingTermsOnlyWhileOpen,
      CompletionMatchesFills, OverfillSurfaced, Sound, CountedOnce, Completion,
      Surfaced, Settled

\* Every step of the lifecycle keeps the invariant.
LEMMA NextIInv == IInv /\ [Next]_vars => IInv'
<1> SUFFICES ASSUME IInv, [Next]_vars PROVE IInv'
  OBVIOUS
<1> USE DEF Report
<1>0. /\ Sound(order, forced, dropped) /\ Settled(order)
      /\ forced \in BOOLEAN /\ dropped \in BOOLEAN
  BY IInvIsSound
<1>1. CASE SubmitIntent
  BY <1>0, <1>1, BecomesIInv, NoteSound DEF SubmitIntent, Anomalies
<1>2. CASE SendStarted
  BY <1>0, <1>2, BecomesIInv, TransitionSound, TablesOK DEF SendStarted
<1>3. CASE Acknowledged
  BY <1>0, <1>3, BecomesIInv, TransitionSound, TablesOK DEF Acknowledged
<1>4. CASE Rejected
  BY <1>0, <1>4, BecomesIInv, TransitionSound, TablesOK DEF Rejected
<1>5. CASE OutcomeUnknown
  BY <1>0, <1>5, BecomesIInv, TransitionSound, TablesOK DEF OutcomeUnknown
<1>6. CASE CancelRequested
  BY <1>0, <1>6, BecomesIInv, TransitionSound, TablesOK DEF CancelRequested
<1>7. CASE Canceled
  BY <1>0, <1>7, BecomesIInv, TransitionSound, TablesOK DEF Canceled
<1>8. CASE CancelRejected
  BY <1>0, <1>8, BecomesIInv, TransitionSound, TablesOK DEF CancelRejected
<1>9. CASE Expired
  BY <1>0, <1>9, BecomesIInv, TransitionSound, TablesOK DEF Expired
<1>10. CASE Filled
  BY <1>0, <1>10, BecomesIInv, ApplyFillSound DEF Filled
<1>11. CASE FillBusted
  BY <1>0, <1>11, BecomesIInv, ApplyBustSound DEF FillBusted
<1>12. CASE ReplaceRequested
  BY <1>0, <1>12, BecomesIInv, ApplyReplaceRequestedSound DEF ReplaceRequested
<1>13. CASE Replaced
  BY <1>0, <1>13, BecomesIInv, ApplyReplacedSound DEF Replaced
<1>14. CASE ReplaceRejected
  BY <1>0, <1>14, BecomesIInv, ApplyReplaceRejectedSound DEF ReplaceRejected
<1>15. CASE Restated
  BY <1>0, <1>15, BecomesIInv, ApplyRestatedSound DEF Restated
<1>16. CASE UNCHANGED vars
  BY <1>16 DEF vars, IInv, TypeOK, EachFillCountedOnce, PendingTermsOnlyWhileOpen,
     CompletionMatchesFills, OverfillSurfaced
<1> QED
  BY <1>1, <1>2, <1>3, <1>4, <1>5, <1>6, <1>7, <1>8, <1>9, <1>10, <1>11, <1>12,
     <1>13, <1>14, <1>15, <1>16 DEF Next

\* The inductive invariant holds throughout.
THEOREM OrderInvariant == Spec => []IInv
BY InitIInv, NextIInv, PTL DEF Spec

\* Whatever reports arrive, the order stays a well-formed record.
THEOREM TypeCorrect == Spec => []TypeOK
BY OrderInvariant, PTL DEF IInv

\* A fill is counted in at most one form, and never once it has been busted.
THEOREM FillsCountedOnce == Spec => []EachFillCountedOnce
BY OrderInvariant, PTL DEF IInv

\* No settled order carries terms that were only asked for.
THEOREM PendingTermsLapse == Spec => []PendingTermsOnlyWhileOpen
BY OrderInvariant, PTL DEF IInv

\* Until the venue restates a status, filled orders are full and working ones not.
THEOREM CompletionIsHonest == Spec => []CompletionMatchesFills
BY OrderInvariant, PTL DEF IInv

\* No order is filled past every size that may be live without having said so.
THEOREM OverfillIsSurfaced == Spec => []OverfillSurfaced
BY OrderInvariant, PTL DEF IInv

-------------------------------------------------------------------------------
\* With each id live once, a bust and its fill leave the same money in either order.
LEMMA CommuteOnce ==
  ASSUME NEW o \in Orders, CountedOnce(o), NEW r \in Reports
  PROVE  LET fillFirst == ApplyBust(ApplyFill(o, r), r.id)
             bustFirst == ApplyFill(ApplyBust(o, r.id), r)
         IN  <<fillFirst.filled, fillFirst.fills, fillFirst.busted>>
               = <<bustFirst.filled, bustFirst.fills, bustFirst.busted>>
<1> DEFINE filledOnly == ApplyFill(o, r)
           bustedOnly == ApplyBust(o, r.id)
<1>0. r.qty \in Nat \ {0}
  BY ReportsAreReports
<1>1. CASE r.id \in o.busted
  <2>1. bustedOnly = o
    BY <1>1 DEF ApplyBust
  <2>2. filledOnly.busted = o.busted /\ ApplyBust(filledOnly, r.id) = filledOnly
    BY <1>1 DEF ApplyFill, Note, Orders, ApplyBust
  <2> QED BY <2>1, <2>2
<1>2. CASE r.id \notin o.busted /\ ~\E g \in o.fills : g.id = r.id
  <2>1. /\ bustedOnly.fills = o.fills
        /\ bustedOnly.filled = o.filled
        /\ bustedOnly.busted = o.busted \cup {r.id}
    BY <1>2 DEF ApplyBust, TakeBackFill, Note, Orders
  <2>2. LET n == ApplyFill(bustedOnly, r)
        IN  n.fills = o.fills /\ n.filled = o.filled /\ n.busted = o.busted \cup {r.id}
    <3>1. bustedOnly = [Note(o, {"advisory"}) EXCEPT !.busted = @ \cup {r.id}]
      BY <1>2 DEF ApplyBust, TakeBackFill
    <3>2. ApplyFill(bustedOnly, r) = Note(bustedOnly, {"advisory"})
      BY <2>1 DEF ApplyFill
    <3> HIDE DEF bustedOnly
    <3> QED BY <2>1, <3>1, <3>2 DEF Note, Orders
  <2>3. /\ filledOnly = BookNewFill(o, r)
        /\ filledOnly.fills = o.fills \cup {r}
        /\ filledOnly.filled = o.filled + r.qty
        /\ filledOnly.busted = o.busted
    BY <1>2 DEF ApplyFill, CountFill, BookNewFill, Note, Orders
  <2>4. (CHOOSE g \in filledOnly.fills : g.id = r.id) = r
    BY <1>2, <2>3
  <2>5. LET n == ApplyBust(filledOnly, r.id)
        IN  /\ n.fills = filledOnly.fills \ {r}
            /\ n.filled = filledOnly.filled - r.qty
            /\ n.busted = filledOnly.busted \cup {r.id}
    <3>1. r \in filledOnly.fills /\ r.id \notin filledOnly.busted
      BY <1>2, <2>3
    <3>2. filledOnly = [o EXCEPT !.fills = filledOnly.fills, !.filled = filledOnly.filled,
                                 !.anomalies = filledOnly.anomalies,
                                 !.status = filledOnly.status]
      BY <2>3 DEF BookNewFill, Note, Orders
    <3> HIDE DEF filledOnly
    <3> QED BY <2>4, <3>1, <3>2 DEF ApplyBust, TakeBackFill, Orders
  <2> QED BY <1>0, <1>2, <2>2, <2>3, <2>5 DEF Orders
<1>3. CASE r.id \notin o.busted /\ \E g \in o.fills : g.id = r.id
  <2> DEFINE known == CHOOSE g \in o.fills : g.id = r.id
  <2>1. known \in o.fills /\ known.id = r.id
    BY <1>3
  <2>2. /\ bustedOnly.fills = o.fills \ {known}
        /\ bustedOnly.filled = o.filled - known.qty
        /\ bustedOnly.busted = o.busted \cup {r.id}
    BY <1>3 DEF ApplyBust, TakeBackFill, Orders
  <2>3. LET n == ApplyFill(bustedOnly, r)
        IN  /\ n.fills = bustedOnly.fills
            /\ n.filled = bustedOnly.filled
            /\ n.busted = bustedOnly.busted
    <3>1. ApplyFill(bustedOnly, r) = Note(bustedOnly, {"advisory"})
      BY <2>2 DEF ApplyFill
    <3>2. bustedOnly = [o EXCEPT !.fills = bustedOnly.fills, !.filled = bustedOnly.filled,
                                 !.busted = bustedOnly.busted, !.status = bustedOnly.status]
      BY <1>3 DEF ApplyBust, TakeBackFill, Orders
    <3> HIDE DEF bustedOnly
    <3> QED BY <3>1, <3>2 DEF Note, Orders
  <2>4. PICK held : /\ held.id = r.id /\ held.qty = known.qty
                    /\ filledOnly.fills = (o.fills \ {known}) \cup {held}
                    /\ filledOnly.filled = o.filled
                    /\ filledOnly.busted = o.busted
                    /\ filledOnly = [o EXCEPT !.fills = filledOnly.fills,
                                              !.anomalies = filledOnly.anomalies]
    <3>1. filledOnly = ReportKnownFill(o, known, r)
      BY <1>3 DEF ApplyFill, CountFill
    <3>2. CASE ~SameExecution(known, r)
      <4>1. /\ filledOnly.fills = o.fills /\ filledOnly.filled = o.filled
            /\ filledOnly.busted = o.busted
            /\ filledOnly = [o EXCEPT !.fills = filledOnly.fills,
                                      !.anomalies = filledOnly.anomalies]
        BY <3>1, <3>2 DEF ReportKnownFill, Note, Orders
      <4> QED BY <2>1, <4>1
    <3>3. CASE SameExecution(known, r)
      <4> DEFINE m == MergedFill(known, r)
      <4>1. m.id = r.id /\ m.qty = known.qty
        BY <2>1, ReportsAreReports DEF MergedFill, Orders
      <4>2. /\ filledOnly.fills = (o.fills \ {known}) \cup {m}
            /\ filledOnly.filled = o.filled
            /\ filledOnly.busted = o.busted
            /\ filledOnly = [o EXCEPT !.fills = filledOnly.fills,
                                      !.anomalies = filledOnly.anomalies]
        BY <3>1, <3>3 DEF ReportKnownFill, Note, Orders
      <4> QED BY <4>1, <4>2
    <3> QED BY <3>2, <3>3
  <2>5. (CHOOSE g \in filledOnly.fills : g.id = r.id) = held
    BY <2>1, <2>4 DEF CountedOnce
  <2>6. LET n == ApplyBust(filledOnly, r.id)
        IN  /\ n.fills = filledOnly.fills \ {held}
            /\ n.filled = filledOnly.filled - held.qty
            /\ n.busted = filledOnly.busted \cup {r.id}
    <3>1. \E g \in filledOnly.fills : g.id = r.id
      BY <2>4
    <3> HIDE DEF filledOnly, known
    <3> QED BY <1>3, <2>4, <2>5, <3>1 DEF ApplyBust, TakeBackFill, Orders
  <2>7. filledOnly.fills \ {held} = o.fills \ {known}
    BY <2>1, <2>4 DEF CountedOnce
  <2> QED BY <2>2, <2>3, <2>4, <2>6, <2>7
<1> QED BY <1>1, <1>2, <1>3

\* A bust and the fill it takes back leave the same money in either order, in every
\* state the order can reach.
THEOREM BustAndFillCommuteAlways == Spec => []BustAndFillCommute
<1>1. IInv => BustAndFillCommute
  BY CommuteOnce DEF IInv, TypeOK, EachFillCountedOnce, CountedOnce, BustAndFillCommute
<1> QED BY <1>1, OrderInvariant, PTL

-------------------------------------------------------------------------------
\* An ended order is reopened by no table entry.
KeepsEnded(t) == \A s \in DOMAIN t : s \in Terminal => t[s] \in Terminal

Ended(o) == o.status \in Terminal

LEMMA TablesKeepEnded ==
  /\ KeepsEnded(SendStartedTable) /\ KeepsEnded(AckTable) /\ KeepsEnded(RejectTable)
  /\ KeepsEnded(OutcomeUnknownTable) /\ KeepsEnded(CancelRequestedTable)
  /\ KeepsEnded(CanceledTable) /\ KeepsEnded(CancelRejectedTable)
  /\ KeepsEnded(ReplaceRequestedTable) /\ KeepsEnded(ReplacedTable)
  /\ KeepsEnded(ReplaceRejectedTable) /\ KeepsEnded(ExpiredTable)
BY DEF KeepsEnded, SendStartedTable, AckTable, RejectTable, OutcomeUnknownTable,
       CancelRequestedTable, CanceledTable, CancelRejectedTable,
       ReplaceRequestedTable, ReplacedTable, ReplaceRejectedTable, ExpiredTable,
       AllLive, Terminal, WorkingStatuses, PendingStatuses, Working

\* A lifecycle event leaves an ended order ended.
LEMMA TransitionKeepsEnded ==
  ASSUME NEW o \in Orders, Ended(o), NEW table, KeepsEnded(table)
  PROVE  Ended(Transition(o, table))
<1>1. CASE o.status \notin DOMAIN table
  BY <1>1 DEF Transition, Note, Ended, Orders
<1>2. CASE o.status \in DOMAIN table
  <2>1. table[o.status] \in Terminal
    BY <1>2 DEF KeepsEnded, Ended
  <2>2. Transition(o, table).status = table[o.status]
    BY <1>2, <2>1 DEF Transition, Orders, Terminal, Working, Resumed
  <2> QED BY <2>1, <2>2 DEF Ended
<1> QED BY <1>1, <1>2

\* Filling and replacing leave an ended order ended.
LEMMA OthersKeepEnded ==
  ASSUME NEW o \in Orders, Ended(o)
  PROVE  /\ Ended(Note(o, {"advisory"}))
         /\ \A r \in Reports : Ended(ApplyFill(o, r))
         /\ \A q, p : Ended(ApplyReplaceRequested(o, q, p))
         /\ \A q, p : Ended(ApplyReplaced(o, q, p))
         /\ Ended(ApplyReplaceRejected(o))
<1>1. Ended(Note(o, {"advisory"}))
  BY DEF Ended, Note, Orders
<1>2. ASSUME NEW r \in Reports PROVE Ended(ApplyFill(o, r))
  <2>1. Ended(BookNewFill(o, r))
    BY DEF BookNewFill, Note, Ended, Orders, Terminal
  <2>2. \A k : Ended(ReportKnownFill(o, k, r))
    BY DEF ReportKnownFill, Note, Ended, Orders
  <2> QED BY <1>1, <2>1, <2>2 DEF ApplyFill, CountFill
<1>3. o.status \notin DOMAIN ReplaceRequestedTable /\ o.status \notin DOMAIN ReplacedTable
  BY DEF ReplaceRequestedTable, ReplacedTable, Ended, Terminal, AllLive,
         WorkingStatuses, PendingStatuses
<1>4. ASSUME NEW q, NEW p PROVE Ended(ApplyReplaceRequested(o, q, p))
  BY <1>3, TransitionKeepsEnded, TablesKeepEnded DEF ApplyReplaceRequested
<1>5. ASSUME NEW q, NEW p PROVE Ended(ApplyReplaced(o, q, p))
  BY <1>3, TransitionKeepsEnded, TablesKeepEnded DEF ApplyReplaced
<1>6. Ended(ApplyReplaceRejected(o))
  <2>1. Ended(Transition(o, ReplaceRejectedTable))
    BY TransitionKeepsEnded, TablesKeepEnded
  <2>2. ForgetPendingTerms(o).status = Transition(o, ReplaceRejectedTable).status
    BY DEF ForgetPendingTerms, Transition, Note, Orders
  <2>3. ApplyReplaceRejected(o).status = ForgetPendingTerms(o).status
    BY DEF ApplyReplaceRejected, NoteExposedOverfill, Note, ForgetPendingTerms,
       Transition, Orders
  <2> QED BY <2>1, <2>2, <2>3 DEF Ended
<1> QED BY <1>1, <1>2, <1>4, <1>5, <1>6

\* Reports keep an ended order ended when the reducer's result is ended.
LEMMA BecomesKeepsEnded ==
  ASSUME NEW o, Ended(o), Becomes(o)
  PROVE  Ended(order)'
<1>1. order' = Settle(o)
  BY DEF Becomes
<1>2. Settle(o).status = o.status \/ Settle(o) = o
  BY DEF Settle, Ended
<1> QED BY <1>1, <1>2 DEF Ended

\* An ended order is reopened only by the venue's restatement or by the bust of a
\* fill of a full order.
LEMMA NextKeepsEnded ==
  ASSUME IInv, [Next]_vars, Ended(order), ~Ended(order)'
  PROVE  forced' \/ (order'.status = "UNKNOWN" /\ order.busted # order'.busted)
<1> USE DEF Report
<1>0. order \in Orders
  BY DEF IInv, TypeOK
<1>1. CASE FillBusted
  <2>1. PICK id \in FillIds : Becomes(ApplyBust(order, id))
    BY <1>1 DEF FillBusted
  <2> DEFINE n == ApplyBust(order, id)
  <2>2. ~Ended(n)
    BY <2>1, BecomesKeepsEnded
  <2>3. id \notin order.busted
    BY <2>2 DEF ApplyBust
  <2>4. \E f \in order.fills : f.id = id
    <3> SUFFICES ASSUME ~\E f \in order.fills : f.id = id PROVE FALSE
      OBVIOUS
    <3>1. n.status = order.status
      BY <1>0, <2>3 DEF ApplyBust, TakeBackFill, Note, Orders
    <3> QED BY <2>2, <3>1 DEF Ended
  <2>5. n.busted = order.busted \cup {id} /\ n.status \in {"UNKNOWN", "ACCEPTED", order.status}
    BY <1>0, <2>3, <2>4 DEF ApplyBust, TakeBackFill, Orders
  <2>6. n.status = "UNKNOWN"
    BY <1>0, <2>2, <2>3, <2>4 DEF ApplyBust, TakeBackFill, Orders, Ended, Terminal
  <2>7. order' = n
    BY <2>1, <2>6 DEF Becomes, Settle
  <2> QED BY <2>3, <2>5, <2>6, <2>7
<1>2. CASE Restated
  BY <1>2 DEF Restated
<1>3. CASE \E o : Ended(o) /\ Becomes(o)
  BY <1>3, BecomesKeepsEnded
<1>4. CASE SubmitIntent
  BY <1>0, <1>3, <1>4, OthersKeepEnded DEF SubmitIntent
<1>5. CASE \/ SendStarted \/ Acknowledged \/ Rejected \/ OutcomeUnknown
           \/ CancelRequested \/ Canceled \/ CancelRejected \/ Expired
  BY <1>0, <1>3, <1>5, TransitionKeepsEnded, TablesKeepEnded
  DEF SendStarted, Acknowledged, Rejected, OutcomeUnknown, CancelRequested,
      Canceled, CancelRejected, Expired
<1>6. CASE Filled
  BY <1>0, <1>3, <1>6, OthersKeepEnded DEF Filled
<1>7. CASE ReplaceRequested \/ Replaced \/ ReplaceRejected
  BY <1>0, <1>3, <1>7, OthersKeepEnded
  DEF ReplaceRequested, Replaced, ReplaceRejected
<1>8. CASE UNCHANGED vars
  BY <1>8 DEF vars, Ended
<1> QED
  BY <1>1, <1>2, <1>4, <1>5, <1>6, <1>7, <1>8 DEF Next

\* An ended order stays ended, until the venue restates it or takes a fill back.
THEOREM EndedStaysEnded == Spec => EndedOrdersStayEnded
<1>1. IInv /\ [Next]_vars
        => [order.status \in Terminal /\ order'.status \notin Terminal
              => forced' \/ (order'.status = "UNKNOWN" /\ order.busted # order'.busted)]_vars
  BY NextKeepsEnded DEF Ended
<1> QED BY <1>1, OrderInvariant, PTL DEF Spec, EndedOrdersStayEnded

-------------------------------------------------------------------------------
\* A settled order settles to itself, and settling touches the requested terms only.
LEMMA SettleOnce ==
  ASSUME NEW o \in Orders
  PROVE  /\ Settle(o) \in Orders
         /\ Settle(Settle(o)) = Settle(o)
         /\ Settle(o).fills = o.fills /\ Settle(o).busted = o.busted
BY DEF Settle, Orders, None

\* A step that adds notes to a settled order leaves it as it was but for the notes.
LEMMA OnlyNotesAdded ==
  ASSUME NEW s \in Orders, Settle(s) = s, NEW kinds \in SUBSET Anomalies
  PROVE  [Settle(Note(s, kinds)) EXCEPT !.anomalies = s.anomalies] = s
<1>1. Settle(Note(s, kinds)) = Note(s, kinds)
  <2>1. CASE s.status \in PendingStatuses \cup {"UNKNOWN"}
    BY <2>1 DEF Settle, Note, Orders
  <2>2. CASE s.status \notin PendingStatuses \cup {"UNKNOWN"}
    <3>1. s.pendingQuantity = None /\ s.pendingPrice = None
      BY <2>2 DEF Settle, Orders
    <3> QED BY <2>2, <3>1 DEF Settle, Note, Orders
  <2> QED BY <2>1, <2>2
<1> QED BY <1>1 DEF Note, Orders

\* A report of a fill that is held adds notes only, once its fee has been merged.
LEMMA HeldFillAgain ==
  ASSUME NEW s \in Orders, CountedOnce(s), NEW r \in Reports, r.id \notin s.busted,
         NEW held \in s.fills, held.id = r.id,
         SameExecution(held, r) => MergedFill(held, r) = held
  PROVE  \E kinds \in SUBSET Anomalies : ApplyFill(s, r) = Note(s, kinds)
<1>1. (CHOOSE g \in s.fills : g.id = r.id) = held
  BY DEF CountedOnce
<1>2. ApplyFill(s, r) = ReportKnownFill(s, held, r)
  BY <1>1 DEF ApplyFill, CountFill
<1>3. CASE ~SameExecution(held, r)
  BY <1>2, <1>3 DEF ReportKnownFill, Anomalies, HaltingAnomalies
<1>4. CASE SameExecution(held, r)
  <2>1. (s.fills \ {held}) \cup {MergedFill(held, r)} = s.fills
    BY <1>4
  <2>2. [s EXCEPT !.fills = (@ \ {held}) \cup {MergedFill(held, r)}] = s
    BY <2>1 DEF Orders
  <2>3. ApplyFill(s, r) = Note(s, NoteIf(FeesDiffer(held, r), "fee"))
    BY <1>2, <1>4, <2>2 DEF ReportKnownFill
  <2>4. NoteIf(FeesDiffer(held, r), "fee") \in SUBSET Anomalies
    BY DEF NoteIf, Anomalies
  <2> QED BY <2>3, <2>4
<1> QED BY <1>3, <1>4

\* The fill that a report leaves behind, for the order that has not refused it: the
\* report's own, or the one known before, with what the report added to it.
LEMMA FillIsHeld ==
  ASSUME NEW o \in Orders, CountedOnce(o), NEW r \in Reports, r.id \notin o.busted
  PROVE  /\ ApplyFill(o, r).busted = o.busted
         /\ \E held \in ApplyFill(o, r).fills :
              /\ held.id = r.id
              /\ SameExecution(held, r) => MergedFill(held, r) = held
<1> DEFINE n == ApplyFill(o, r)
<1>0. r \in [id : FillIds, qty : Nat \ {0}, match : BOOLEAN, fee : Nat]
  BY ReportsAreReports
<1>1. CASE ~\E g \in o.fills : g.id = r.id
  <2>1. n.fills = o.fills \cup {r} /\ n.busted = o.busted
    BY <1>1 DEF ApplyFill, CountFill, BookNewFill, Note, Orders
  <2>2. MergedFill(r, r) = r
    BY <1>0 DEF MergedFill
  <2> QED BY <2>1, <2>2
<1>2. CASE \E g \in o.fills : g.id = r.id
  <2> DEFINE known == CHOOSE g \in o.fills : g.id = r.id
             m == MergedFill(known, r)
  <2>1. known \in o.fills /\ known.id = r.id
    BY <1>2
  <2>2. n = ReportKnownFill(o, known, r)
    BY <1>2 DEF ApplyFill, CountFill
  <2>3. known \in [id : FillIds, qty : Nat \ {0}, match : BOOLEAN, fee : Nat]
    BY <2>1, ReportsAreReports DEF Orders
  <2> HIDE DEF known
  <2>4. CASE ~SameExecution(known, r)
    <3>1. n.fills = o.fills /\ n.busted = o.busted
      BY <2>2, <2>4 DEF ReportKnownFill, Note, Orders
    <3> QED BY <2>1, <2>4, <3>1
  <2>5. CASE SameExecution(known, r)
    <3>1. n.fills = (o.fills \ {known}) \cup {m} /\ n.busted = o.busted
      BY <2>2, <2>5 DEF ReportKnownFill, Note, Orders
    <3>2. m.id = r.id /\ MergedFill(m, r) = m
      BY <1>0, <2>1, <2>3 DEF MergedFill
    <3> QED BY <3>1, <3>2
  <2> QED BY <2>4, <2>5
<1> QED BY <1>1, <1>2

\* A report that has been booked changes only the notes when it comes again.
LEMMA FillAgain ==
  ASSUME NEW o, NEW f, NEW d, Sound(o, f, d), Settled(o), NEW r \in Reports
  PROVE  LET once == Settle(ApplyFill(o, r))
         IN  [Settle(ApplyFill(once, r)) EXCEPT !.anomalies = once.anomalies] = once
<1> DEFINE n == ApplyFill(o, r)
           once == Settle(n)
<1>1. n \in Orders /\ CountedOnce(n) /\ o \in Orders /\ CountedOnce(o)
  BY ApplyFillSound DEF Sound
<1>2. /\ once \in Orders /\ Settle(once) = once
      /\ once.fills = n.fills /\ once.busted = n.busted
  BY <1>1, SettleOnce
<1>3. CountedOnce(once)
  BY <1>1, <1>2 DEF CountedOnce
<1>4. \E kinds \in SUBSET Anomalies : ApplyFill(once, r) = Note(once, kinds)
  <2>1. CASE r.id \in o.busted
    <3>1. r.id \in once.busted
      BY <1>1, <1>2, <2>1 DEF ApplyFill, Note, Orders
    <3> QED BY <3>1 DEF ApplyFill, Anomalies
  <2>2. CASE r.id \notin o.busted
    <3>1. n.busted = o.busted
          /\ \E held \in n.fills : /\ held.id = r.id
                                   /\ SameExecution(held, r) => MergedFill(held, r) = held
      BY <1>1, <2>2, FillIsHeld
    <3> HIDE DEF n, once
    <3> QED BY <1>2, <1>3, <2>2, <3>1, HeldFillAgain
  <2> QED BY <2>1, <2>2
<1> HIDE DEF n, once
<1>5. [Settle(ApplyFill(once, r)) EXCEPT !.anomalies = once.anomalies] = once
  BY <1>2, <1>4, OnlyNotesAdded
<1> QED BY <1>5 DEF n, once

\* A bust that has been booked is remembered, and changes nothing when it comes again.
LEMMA BustAgain ==
  ASSUME NEW o, NEW f, NEW d, Sound(o, f, d), NEW id \in FillIds
  PROVE  LET once == Settle(ApplyBust(o, id))
         IN  Settle(ApplyBust(once, id)) = once
<1> DEFINE n == ApplyBust(o, id)
           once == Settle(n)
<1>1. n \in Orders /\ o \in Orders
  BY ApplyBustSound DEF Sound
<1>2. id \in n.busted
  BY <1>1 DEF ApplyBust, TakeBackFill, Note, Orders
<1>3. Settle(once) = once /\ once.busted = n.busted
  BY <1>1, SettleOnce
<1> HIDE DEF n, once
<1>4. Settle(ApplyBust(once, id)) = once
  BY <1>2, <1>3 DEF ApplyBust
<1> QED BY <1>4 DEF n, once

\* In every state an order can reach, the same fill or bust again changes no money, no
\* status and no terms (apply, _apply_fill, _apply_bust).
THEOREM RedeliveryAlwaysHarmless == Spec => []RedeliveryIsHarmless
<1>1. IInv => RedeliveryIsHarmless
  <2> SUFFICES ASSUME IInv PROVE RedeliveryIsHarmless
    OBVIOUS
  <2>1. Sound(order, forced, dropped) /\ Settled(order)
    BY IInvIsSound
  <2>2. ASSUME NEW r \in Reports
        PROVE  LET once == Settle(ApplyFill(order, r))
               IN  [Settle(ApplyFill(once, r)) EXCEPT !.anomalies = once.anomalies] = once
    BY <2>1, FillAgain
  <2>3. ASSUME NEW id \in FillIds
        PROVE  LET once == Settle(ApplyBust(order, id)) IN Settle(ApplyBust(once, id)) = once
    BY <2>1, BustAgain
  <2> QED BY <2>2, <2>3 DEF RedeliveryIsHarmless
<1> QED BY <1>1, OrderInvariant, PTL

-------------------------------------------------------------------------------
(***************************************************************************)
(* Gate.  An amendment is not sent past a cancel because the order's own   *)
(* status stands in its way, and YieldInv says why it does: a cancel that  *)
(* was asked leaves the order PENDING_CANCEL, and only an answer of the    *)
(* venue to that cancel, or to an amendment, makes it PENDING_REPLACE      *)
(* again.  So what has to be shown is that no other amendment of the order *)
(* is open when one is checked, at the venue or on its way (OneIsOpen, and *)
(* Hanging: the order would show it).  All of that is said of the orders   *)
(* no acknowledgement has taken out of UNKNOWN (late.revived).             *)
(***************************************************************************)
OrderFields == {"status", "quantity", "price", "pendingQuantity", "pendingPrice",
                "fills", "filled", "busted", "anomalies"}
Whole(o) == OrderFields \subseteq DOMAIN o
SendPcs == {"idle", "intending", "placing", "waiting", "accepted", "refused", "done"}
Answered == GatePart!WorkingStatuses \cup GatePart!PendingStatuses \cup {"UNKNOWN"}
             \cup GatePart!Terminal
\* The venue was called, and any report may come; what an order may be by then.
Sent == {"waiting", "accepted", "refused", "done"}
Alive == Answered \cup {"SUBMITTING"}

\* An order's status is the one its submit left it in, until the venue is called, and any but
\* PENDING_SUBMIT from then on.  It is PENDING_REPLACE only with terms that were asked for.
Calm(o, pc) ==
  /\ pc \in SendPcs
  /\ pc \in {"idle", "intending"} => o = GatePart!NoOrder
  /\ pc \notin {"idle", "intending"} => Whole(o)
  /\ pc = "placing" => o.status = "PENDING_SUBMIT"
  /\ pc \in Sent => o.status \in Alive
  /\ o.status = "PENDING_REPLACE" => GatePart!HasPendingTerms(o)

\* An amendment of the order may be open.
Hanging(o) == \/ o.status \in {"UNKNOWN"} \cup GatePart!Terminal
              \/ o.status \in GatePart!PendingStatuses /\ GatePart!HasPendingTerms(o)
\* No amendment of the order goes out.
Barred(o) == o.status \in {"PENDING_CANCEL", "UNKNOWN"} \cup GatePart!Terminal

\* What becomes of the order when an event n of it is settled.
Follows(o, n) ==
  /\ Calm(GatePart!Settle(n), "done")
  /\ Hanging(o) => Hanging(GatePart!Settle(n))
  /\ Barred(o) => Barred(GatePart!Settle(n))
  /\ o.status # "SUBMITTING" => GatePart!Settle(n).status # "SUBMITTING"

\* The steps of the submit that are left change nothing an order shows.
LEMMA SentCalm ==
  ASSUME NEW o, NEW p \in Sent, NEW q \in Sent, Calm(o, p) PROVE Calm(o, q)
BY DEF Calm, Sent, SendPcs

LEMMA SettleFollows ==
  ASSUME NEW n, Whole(n), n.status \in Alive,
         n.status = "PENDING_REPLACE" => GatePart!HasPendingTerms(n)
  PROVE  /\ Calm(GatePart!Settle(n), "done")
         /\ Hanging(n) => Hanging(GatePart!Settle(n))
         /\ GatePart!Settle(n).status = n.status
<1>1. CASE n.status \in GatePart!PendingStatuses \cup {"UNKNOWN"}
  <2>1. GatePart!Settle(n) = n
    BY <1>1, Zenon DEF GatePart!Settle
  <2> QED BY <2>1 DEF Calm, SendPcs
<1>2. CASE n.status \notin GatePart!PendingStatuses \cup {"UNKNOWN"}
  <2> DEFINE s == [n EXCEPT !.pendingQuantity = GatePart!None, !.pendingPrice = GatePart!None]
  <2>1. GatePart!Settle(n) = s
    BY <1>2 DEF GatePart!Settle
  <2>2. Whole(s) /\ s.status = n.status
    BY DEF Whole, OrderFields
  <2>3. s.status \in Alive /\ s.status # "PENDING_REPLACE"
    BY <1>2, <2>2 DEF GatePart!PendingStatuses
  <2> HIDE DEF s
  <2> QED BY <1>2, <2>1, <2>2, <2>3 DEF Calm, SendPcs, Hanging
<1> QED BY <1>1, <1>2

\* What a transition makes of an order.
LEMMA TransitionFields ==
  ASSUME NEW o, Whole(o), NEW table
  PROVE  /\ Whole(GatePart!Transition(o, table))
         /\ GatePart!Transition(o, table).pendingQuantity = o.pendingQuantity
         /\ GatePart!Transition(o, table).pendingPrice = o.pendingPrice
         /\ o.status \notin DOMAIN table => GatePart!Transition(o, table).status = o.status
         /\ o.status \in DOMAIN table
              /\ table[o.status] \notin {GatePart!Working, GatePart!Resumed}
              => GatePart!Transition(o, table).status = table[o.status]
         /\ o.status \in DOMAIN table
              /\ table[o.status] = GatePart!Resumed /\ GatePart!HasPendingTerms(o)
              => GatePart!Transition(o, table).status = "PENDING_REPLACE"
         /\ o.status \in DOMAIN table
              /\ table[o.status] \in {GatePart!Working, GatePart!Resumed}
              /\ ~(table[o.status] = GatePart!Resumed /\ GatePart!HasPendingTerms(o))
              => GatePart!Transition(o, table).status = GatePart!WorkingStatus(o)
<1> DEFINE t == GatePart!Transition(o, table)
           target == table[o.status]
<1>1. CASE o.status \notin DOMAIN table
  <2>1. t = [o EXCEPT !.anomalies = @ \cup {"advisory"}]
    BY <1>1 DEF GatePart!Transition, GatePart!Note
  <2> HIDE DEF t
  <2> QED BY <1>1, <2>1 DEF Whole, OrderFields, t
<1>2. CASE o.status \in DOMAIN table
  <2>1. PICK s : t = [o EXCEPT !.status = s]
    BY <1>2, Zenon DEF GatePart!Transition
  <2>2. /\ Whole(t) /\ t.pendingQuantity = o.pendingQuantity
        /\ t.pendingPrice = o.pendingPrice
    <3> HIDE DEF t
    <3> QED BY <2>1 DEF Whole, OrderFields
  <2> DEFINE became == CASE target = GatePart!Resumed /\ GatePart!HasPendingTerms(o)
                              -> "PENDING_REPLACE"
                         [] target \in {GatePart!Working, GatePart!Resumed}
                              /\ ~(target = GatePart!Resumed /\ GatePart!HasPendingTerms(o))
                              -> GatePart!WorkingStatus(o)
                         [] OTHER -> target
  <2>3. t = [o EXCEPT !.status = became]
    BY <1>2, Zenon DEF GatePart!Transition
  <2>4. t.status = became
    <3> HIDE DEF t, became
    <3> QED BY <2>3 DEF Whole, OrderFields
  <2>5. /\ target = GatePart!Resumed /\ GatePart!HasPendingTerms(o) => became = "PENDING_REPLACE"
        /\ target \in {GatePart!Working, GatePart!Resumed}
             /\ ~(target = GatePart!Resumed /\ GatePart!HasPendingTerms(o))
             => became = GatePart!WorkingStatus(o)
        /\ target \notin {GatePart!Working, GatePart!Resumed} => became = target
    BY Zenon
  <2> HIDE DEF became
  <2> QED BY <1>2, <2>2, <2>4, <2>5, Zenon
<1> QED BY <1>1, <1>2

LEMMA WorkingIsSettled ==
  ASSUME NEW o
  PROVE  /\ GatePart!WorkingStatus(o) \in {"FILLED", "PARTIALLY_FILLED", "ACCEPTED"}
         /\ GatePart!WorkingStatus(o) \in Alive
         /\ GatePart!WorkingStatus(o) \notin {"PENDING_REPLACE", "SUBMITTING"}
<1>1. GatePart!WorkingStatus(o) \in {"FILLED", "PARTIALLY_FILLED", "ACCEPTED"}
  BY Zenon DEF GatePart!WorkingStatus
<1> QED BY <1>1 DEF Alive, Answered, GatePart!WorkingStatuses, GatePart!Terminal

\* A note changes nothing an amendment goes by.
LEMMA NotedFollows ==
  ASSUME NEW o, Calm(o, "done"), NEW kinds PROVE Follows(o, GatePart!Note(o, kinds))
<1> DEFINE n == GatePart!Note(o, kinds)
<1>1. /\ Whole(n) /\ n.status = o.status /\ n.pendingQuantity = o.pendingQuantity
      /\ n.pendingPrice = o.pendingPrice
  BY DEF Calm, Whole, OrderFields, GatePart!Note
<1>2. /\ GatePart!HasPendingTerms(n) <=> GatePart!HasPendingTerms(o)
      /\ Hanging(o) => Hanging(n)
      /\ n.status \in Alive
      /\ n.status = "PENDING_REPLACE" => GatePart!HasPendingTerms(n)
  <2> HIDE DEF n
  <2> QED BY <1>1 DEF Calm, Sent, Hanging, GatePart!HasPendingTerms
<1> HIDE DEF n
<1>3. Follows(o, n)
  BY <1>1, <1>2, SettleFollows DEF Follows, Barred
<1> QED BY <1>3 DEF n

\* The fill of an order leaves it open to no amendment that was not.
LEMMA FillFollows ==
  ASSUME NEW o, Calm(o, "done"), NEW r PROVE Follows(o, GatePart!ApplyFill(o, r))
<1>1. ASSUME NEW n, Whole(n), n.status \in {o.status, "FILLED"},
             n.pendingQuantity = o.pendingQuantity, n.pendingPrice = o.pendingPrice
      PROVE  Follows(o, n)
  <2>1. GatePart!HasPendingTerms(n) <=> GatePart!HasPendingTerms(o)
    BY <1>1 DEF GatePart!HasPendingTerms
  <2>2. /\ n.status \in Alive
        /\ n.status = "PENDING_REPLACE" => GatePart!HasPendingTerms(n)
        /\ Hanging(o) => Hanging(n)
        /\ Barred(o) => Barred(n)
        /\ o.status # "SUBMITTING" => n.status # "SUBMITTING"
    BY <1>1, <2>1 DEF Calm, Sent, Hanging, Barred, Alive, Answered, GatePart!Terminal
  <2> QED BY <1>1, <2>2, SettleFollows DEF Follows, Barred
<1>2. ASSUME NEW n, Whole(n), o.status \in {"ACCEPTED", "SUBMITTING"},
             n.status = "PARTIALLY_FILLED"
      PROVE  Follows(o, n)
  <2>1. /\ n.status \in Alive /\ n.status # "PENDING_REPLACE" /\ ~Hanging(o) /\ ~Barred(o)
    BY <1>2 DEF Hanging, Barred, Alive, Answered, GatePart!WorkingStatuses, GatePart!Terminal,
                GatePart!PendingStatuses
  <2> QED BY <1>2, <2>1, SettleFollows DEF Follows, Barred
<1>3. ASSUME NEW f PROVE Follows(o, GatePart!ReportKnownFill(o, f, r))
  <2>1. CASE ~GatePart!SameExecution(f, r)
    BY <2>1, NotedFollows DEF GatePart!ReportKnownFill
  <2>2. CASE GatePart!SameExecution(f, r)
    <3>1. PICK fs, kinds : GatePart!ReportKnownFill(o, f, r)
                             = GatePart!Note([o EXCEPT !.fills = fs], kinds)
      BY <2>2, Zenon DEF GatePart!ReportKnownFill
    <3> DEFINE n == GatePart!Note([o EXCEPT !.fills = fs], kinds)
    <3>2. /\ Whole(n) /\ n.status = o.status
          /\ n.pendingQuantity = o.pendingQuantity /\ n.pendingPrice = o.pendingPrice
      BY DEF Calm, Whole, OrderFields, GatePart!Note
    <3> HIDE DEF n
    <3>3. Follows(o, n)
      BY <1>1, <3>2
    <3> QED BY <3>1, <3>3 DEF n
  <2> QED BY <2>1, <2>2
<1>4. Follows(o, GatePart!BookNewFill(o, r))
  <2> DEFINE booked == [o EXCEPT !.fills = @ \cup {r}, !.filled = @ + r.qty]
             ceiling == GatePart!FillCeiling(o)
  <2>1. PICK kinds :
          GatePart!BookNewFill(o, r) =
            [GatePart!Note(booked, kinds) EXCEPT !.status =
               CASE booked.filled >= ceiling -> "FILLED"
                 [] booked.filled < ceiling /\ @ \in {"ACCEPTED", "SUBMITTING"}
                      -> "PARTIALLY_FILLED"
                 [] OTHER -> @]
    BY Zenon DEF GatePart!BookNewFill
  <2> DEFINE noted == GatePart!Note(booked, kinds)
             became == CASE booked.filled >= ceiling -> "FILLED"
                         [] booked.filled < ceiling
                              /\ noted.status \in {"ACCEPTED", "SUBMITTING"}
                              -> "PARTIALLY_FILLED"
                         [] OTHER -> noted.status
             n == [noted EXCEPT !.status = became]
  <2>2. /\ Whole(noted) /\ noted.status = o.status
        /\ noted.pendingQuantity = o.pendingQuantity /\ noted.pendingPrice = o.pendingPrice
    BY DEF Calm, Whole, OrderFields, GatePart!Note
  <2>3. GatePart!BookNewFill(o, r) = n
    BY <2>1, Zenon
  <2>4. \/ became = "FILLED" \/ became = noted.status
        \/ became = "PARTIALLY_FILLED" /\ noted.status \in {"ACCEPTED", "SUBMITTING"}
    <3> DEFINE isFull == booked.filled >= ceiling
               isPart == booked.filled < ceiling /\ noted.status \in {"ACCEPTED", "SUBMITTING"}
    <3>1. CASE isFull /\ ~isPart
      <4> HIDE DEF noted, booked, ceiling
      <4> QED BY <3>1, Zenon
    <3>2. CASE isPart
      BY <3>2
    <3>3. CASE ~isFull /\ ~isPart
      <4> HIDE DEF noted, booked, ceiling
      <4> QED BY <3>3, Zenon
    <3> QED BY <3>1, <3>2, <3>3
  <2> HIDE DEF noted, became
  <2>5. /\ Whole(n) /\ n.status = became
        /\ n.pendingQuantity = o.pendingQuantity /\ n.pendingPrice = o.pendingPrice
    BY <2>2 DEF Whole, OrderFields
  <2> HIDE DEF n
  <2> QED BY <1>1, <1>2, <2>2, <2>3, <2>4, <2>5
<1> QED BY <1>3, <1>4, NotedFollows DEF GatePart!ApplyFill, GatePart!CountFill

\* An order that has ended takes no amendment.
LEMMA EndedFollows ==
  ASSUME NEW o, NEW n, Whole(n), n.status \in GatePart!Terminal
  PROVE  /\ Follows(o, n)
         /\ Hanging(GatePart!Settle(n)) /\ Barred(GatePart!Settle(n))
<1>1. n.status \in Alive /\ n.status \notin {"PENDING_REPLACE", "SUBMITTING"}
  BY DEF Alive, Answered, GatePart!Terminal
<1> QED BY <1>1, SettleFollows DEF Follows, Barred, Hanging

\* An order that is reported canceled is.
LEMMA CanceledFollows ==
  ASSUME NEW o, Calm(o, "done")
  PROVE  Follows(o, GatePart!Transition(o, GatePart!CanceledTable))
<1> DEFINE n == GatePart!Transition(o, GatePart!CanceledTable)
<1>1. Whole(n) /\ n.status \in GatePart!Terminal
  <2>1. Whole(n) /\ n.status \in {o.status, "CANCELED"}
        /\ (o.status \in GatePart!AllLive => n.status = "CANCELED")
    BY TransitionFields DEF Calm, GatePart!CanceledTable, GatePart!Working, GatePart!Resumed
  <2> HIDE DEF n
  <2> QED BY <2>1 DEF Calm, Sent, Alive, Answered, GatePart!AllLive, GatePart!Terminal
<1> HIDE DEF n
<1> QED BY <1>1, EndedFollows DEF n

\* An order whose fate is in doubt may have an amendment open, and takes no other.
LEMMA DoubtFollows ==
  ASSUME NEW o, Calm(o, "done")
  PROVE  LET n == GatePart!Transition(o, GatePart!OutcomeUnknownTable)
         IN  Follows(o, n) /\ Hanging(GatePart!Settle(n)) /\ Barred(GatePart!Settle(n))
<1> DEFINE n == GatePart!Transition(o, GatePart!OutcomeUnknownTable)
<1>1. /\ Whole(n) /\ n.status \in Alive /\ n.status \notin {"PENDING_REPLACE", "SUBMITTING"}
      /\ n.status \in GatePart!Terminal \cup {"UNKNOWN"}
  <2>1. Whole(n) /\ n.status \in {o.status, "UNKNOWN"}
        /\ (o.status \in GatePart!AllLive => n.status = "UNKNOWN")
    BY TransitionFields DEF Calm, GatePart!OutcomeUnknownTable, GatePart!Working,
                            GatePart!Resumed
  <2> HIDE DEF n
  <2> QED BY <2>1 DEF Calm, Sent, Alive, Answered, GatePart!AllLive, GatePart!Terminal
<1> HIDE DEF n
<1>2. Follows(o, n) /\ Hanging(GatePart!Settle(n)) /\ Barred(GatePart!Settle(n))
  BY <1>1, SettleFollows DEF Follows, Barred, Hanging
<1> QED BY <1>2 DEF n

\* An order whose cancel was asked takes no amendment, unless it is still being placed.
LEMMA CancelFollows ==
  ASSUME NEW o, Calm(o, "done"), o.status \notin GatePart!Terminal
  PROVE  LET n == GatePart!Transition(o, GatePart!CancelRequestedTable)
         IN  Follows(o, n) /\ (o.status # "SUBMITTING" => Barred(GatePart!Settle(n)))
<1> DEFINE n == GatePart!Transition(o, GatePart!CancelRequestedTable)
<1>1. /\ Whole(n) /\ n.status \in {"UNKNOWN", "PENDING_CANCEL", "SUBMITTING"}
      /\ o.status = "UNKNOWN" => n.status = "UNKNOWN"
      /\ o.status = "SUBMITTING" <=> n.status = "SUBMITTING"
      /\ n.pendingQuantity = o.pendingQuantity /\ n.pendingPrice = o.pendingPrice
  BY TransitionFields DEF Calm, Sent, GatePart!CancelRequestedTable, GatePart!Working,
       GatePart!Resumed, GatePart!AllLive, Alive, Answered, GatePart!Terminal,
       GatePart!WorkingStatuses, GatePart!PendingStatuses
<1> HIDE DEF n
<1>2. /\ n.status \in Alive /\ n.status # "PENDING_REPLACE"
      /\ Hanging(o) => Hanging(n)
  BY <1>1 DEF Hanging, Alive, Answered, GatePart!PendingStatuses, GatePart!HasPendingTerms,
              GatePart!Terminal
<1>3. Barred(o) => Barred(n)
  BY <1>1 DEF Barred, GatePart!Terminal
<1>4. Follows(o, n) /\ (o.status # "SUBMITTING" => Barred(GatePart!Settle(n)))
  BY <1>1, <1>2, <1>3, SettleFollows DEF Follows, Barred
<1> QED BY <1>4 DEF n

\* An order whose cancel is refused has the amendment open that it had.
LEMMA UncanceledFollows ==
  ASSUME NEW o, Calm(o, "done")
  PROVE  LET n == GatePart!Transition(o, GatePart!CancelRejectedTable)
         IN  /\ Calm(GatePart!Settle(n), "done")
             /\ Hanging(o) => Hanging(GatePart!Settle(n))
             /\ o.status # "SUBMITTING" => GatePart!Settle(n).status # "SUBMITTING"
<1> DEFINE n == GatePart!Transition(o, GatePart!CancelRejectedTable)
<1>1. /\ Whole(n)
      /\ o.status # "PENDING_CANCEL" => n.status = o.status
      /\ o.status = "PENDING_CANCEL" /\ GatePart!HasPendingTerms(o)
           => n.status = "PENDING_REPLACE"
      /\ o.status = "PENDING_CANCEL" /\ ~GatePart!HasPendingTerms(o)
           => n.status = GatePart!WorkingStatus(o)
      /\ n.pendingQuantity = o.pendingQuantity /\ n.pendingPrice = o.pendingPrice
  <2>1. /\ o.status \in DOMAIN GatePart!CancelRejectedTable
        /\ o.status # "PENDING_CANCEL" =>
             GatePart!CancelRejectedTable[o.status] = o.status
        /\ o.status = "PENDING_CANCEL" =>
             GatePart!CancelRejectedTable[o.status] = GatePart!Resumed
        /\ o.status \notin {GatePart!Working, GatePart!Resumed}
    BY DEF Calm, Sent, GatePart!CancelRejectedTable, GatePart!Working,
           GatePart!Resumed, GatePart!AllLive, Alive, Answered, GatePart!Terminal,
           GatePart!WorkingStatuses, GatePart!PendingStatuses
  <2>2. Whole(o)
    BY DEF Calm
  <2> QED BY <2>1, <2>2, TransitionFields
<1> HIDE DEF n
<1>2. /\ n.status \in Alive
      /\ n.status = "PENDING_REPLACE" => GatePart!HasPendingTerms(n)
      /\ Hanging(o) => Hanging(n)
      /\ o.status # "SUBMITTING" => n.status # "SUBMITTING"
  BY <1>1, WorkingIsSettled
     DEF Calm, Sent, Hanging, Alive, Answered, GatePart!PendingStatuses,
         GatePart!HasPendingTerms, GatePart!Terminal
<1>3. /\ Calm(GatePart!Settle(n), "done")
      /\ Hanging(o) => Hanging(GatePart!Settle(n))
      /\ o.status # "SUBMITTING" => GatePart!Settle(n).status # "SUBMITTING"
  BY <1>1, <1>2, SettleFollows
<1> QED BY <1>3 DEF n

\* A check of what the new terms uncover changes nothing an amendment goes by.
LEMMA ExposedKeeps ==
  ASSUME NEW before, NEW after, Whole(after)
  PROVE  LET n == GatePart!NoteExposedOverfill(before, after)
         IN  /\ Whole(n) /\ n.status = after.status
             /\ n.pendingQuantity = after.pendingQuantity
             /\ n.pendingPrice = after.pendingPrice
<1>1. ASSUME NEW kinds
      PROVE  LET n == GatePart!Note(after, kinds)
             IN  /\ Whole(n) /\ n.status = after.status
                 /\ n.pendingQuantity = after.pendingQuantity
                 /\ n.pendingPrice = after.pendingPrice
  BY DEF Whole, OrderFields, GatePart!Note
<1>2. \/ GatePart!NoteExposedOverfill(before, after) = after
      \/ \E kinds : GatePart!NoteExposedOverfill(before, after) = GatePart!Note(after, kinds)
  BY Zenon DEF GatePart!NoteExposedOverfill
<1> QED BY <1>1, <1>2

\* An order is as its submit left it once the amendment's answer is on record.
LEMMA ReplacedCalm ==
  ASSUME NEW o, Calm(o, "done"), NEW size, NEW price
  PROVE  Calm(GatePart!Settle(GatePart!ApplyReplaced(o, size, price)), "done")
<1> DEFINE next == GatePart!Transition(o, GatePart!ReplacedTable)
           terms == GatePart!NewTerms(o, next, size, price)
           settled == GatePart!NoteExposedOverfill(o, terms)
           became == IF next.status \in GatePart!WorkingStatuses \cup {"FILLED"}
                     THEN GatePart!WorkingStatus(settled) ELSE settled.status
           n == [settled EXCEPT !.status = became]
<1>1. Whole(o)
  BY DEF Calm
<1>2. /\ Whole(next)
      /\ o.status \notin DOMAIN GatePart!ReplacedTable => next.status = o.status
      /\ o.status \in DOMAIN GatePart!ReplacedTable =>
           next.status \in {"PENDING_CANCEL", GatePart!WorkingStatus(o)}
  <2>1. o.status \in DOMAIN GatePart!ReplacedTable =>
          \/ GatePart!ReplacedTable[o.status] = GatePart!Working
          \/ /\ GatePart!ReplacedTable[o.status] = "PENDING_CANCEL"
             /\ "PENDING_CANCEL" \notin {GatePart!Working, GatePart!Resumed}
    BY DEF GatePart!ReplacedTable, GatePart!Working, GatePart!Resumed
  <2>2. GatePart!Working # GatePart!Resumed
    BY DEF GatePart!Working, GatePart!Resumed
  <2> QED BY <1>1, <2>1, <2>2, TransitionFields
<1>3. /\ next.status \in Alive
      /\ next.status = "PENDING_REPLACE" => o.status \notin DOMAIN GatePart!ReplacedTable
  BY <1>2, WorkingIsSettled DEF Calm, Sent, Alive, Answered, GatePart!PendingStatuses
<1>4. CASE o.status \in DOMAIN GatePart!ReplacedTable
  <2>1. GatePart!ApplyReplaced(o, size, price) = n
    BY <1>4, Zenon DEF GatePart!ApplyReplaced
  <2>2. Whole(terms) /\ terms.status = next.status
    <3> HIDE DEF next
    <3> QED BY <1>2 DEF Whole, OrderFields, GatePart!NewTerms
  <2>3. Whole(settled) /\ settled.status = next.status
    <3> HIDE DEF terms, next
    <3> QED BY <2>2, ExposedKeeps
  <2>4. became \in Alive /\ became # "PENDING_REPLACE"
    <3> HIDE DEF settled, next
    <3> QED BY <1>3, <1>4, <2>3, WorkingIsSettled
  <2>5. Whole(n) /\ n.status = became
    <3> HIDE DEF settled, became
    <3> QED BY <2>3 DEF Whole, OrderFields
  <2> HIDE DEF n, became
  <2> QED BY <2>1, <2>4, <2>5, SettleFollows
<1>5. CASE o.status \notin DOMAIN GatePart!ReplacedTable
  <2>1. GatePart!ApplyReplaced(o, size, price) = next
    BY <1>5, Zenon DEF GatePart!ApplyReplaced
  <2>2. o.status \in GatePart!Terminal \cup {"SUBMITTING"}
    BY <1>5 DEF Calm, Sent, Alive, Answered, GatePart!ReplacedTable, GatePart!AllLive,
           GatePart!WorkingStatuses, GatePart!PendingStatuses
  <2>3. next.status # "PENDING_REPLACE"
    BY <1>2, <1>5, <2>2 DEF GatePart!Terminal
  <2> HIDE DEF next
  <2> QED BY <1>2, <1>3, <2>1, <2>3, SettleFollows
<1> QED BY <1>4, <1>5

LEMMA UnreplacedCalm ==
  ASSUME NEW o, Calm(o, "done")
  PROVE  Calm(GatePart!Settle(GatePart!ApplyReplaceRejected(o)), "done")
<1> DEFINE next == GatePart!Transition(o, GatePart!ReplaceRejectedTable)
           bare == GatePart!ForgetPendingTerms(o)
           n == GatePart!NoteExposedOverfill(o, bare)
<1>1. Whole(o)
  BY DEF Calm
<1>2. /\ Whole(next)
      /\ next.status \in {o.status, GatePart!WorkingStatus(o)}
      /\ o.status = "PENDING_REPLACE" => next.status = GatePart!WorkingStatus(o)
  <2>1. o.status \in DOMAIN GatePart!ReplaceRejectedTable =>
          \/ GatePart!ReplaceRejectedTable[o.status] = GatePart!Working
          \/ /\ GatePart!ReplaceRejectedTable[o.status] = o.status
             /\ o.status \notin {GatePart!Working, GatePart!Resumed}
             /\ o.status # "PENDING_REPLACE"
    BY DEF GatePart!ReplaceRejectedTable, GatePart!Working, GatePart!Resumed,
           GatePart!PendingStatuses
  <2>2. GatePart!Working # GatePart!Resumed
    BY DEF GatePart!Working, GatePart!Resumed
  <2>3. o.status = "PENDING_REPLACE" => o.status \in DOMAIN GatePart!ReplaceRejectedTable
    BY DEF GatePart!ReplaceRejectedTable, GatePart!PendingStatuses
  <2> QED BY <1>1, <2>1, <2>2, <2>3, TransitionFields
<1>3. next.status \in Alive /\ next.status # "PENDING_REPLACE"
  BY <1>2, WorkingIsSettled DEF Calm, Sent
<1>4. Whole(bare) /\ bare.status = next.status
  <2>1. bare = [next EXCEPT !.pendingQuantity = GatePart!None, !.pendingPrice = GatePart!None]
    BY DEF GatePart!ForgetPendingTerms
  <2> HIDE DEF next, bare
  <2> QED BY <1>2, <2>1 DEF Whole, OrderFields
<1>5. Whole(n) /\ n.status = next.status
  <2> HIDE DEF next, bare
  <2> QED BY <1>4, ExposedKeeps
<1>6. GatePart!ApplyReplaceRejected(o) = n
  BY DEF GatePart!ApplyReplaceRejected
<1> HIDE DEF n, next
<1> QED BY <1>3, <1>5, <1>6, SettleFollows

\* Asking for new terms leaves an order that takes none as it was.
LEMMA RequestedCalm ==
  ASSUME NEW o, Calm(o, "done"), NEW size, NEW price,
         size # GatePart!None \/ price # GatePart!None
  PROVE  LET n == GatePart!ApplyReplaceRequested(o, size, price)
         IN  /\ Calm(GatePart!Settle(n), "done")
             /\ Barred(o) => Barred(GatePart!Settle(n))
             /\ o.status # "SUBMITTING" => GatePart!Settle(n).status # "SUBMITTING"
<1> DEFINE next == GatePart!Transition(o, GatePart!ReplaceRequestedTable)
           n == [next EXCEPT !.pendingQuantity = size, !.pendingPrice = price]
<1>1. Whole(o)
  BY DEF Calm
<1>2. /\ Whole(next)
      /\ next.pendingQuantity = o.pendingQuantity /\ next.pendingPrice = o.pendingPrice
      /\ o.status \in GatePart!WorkingStatuses => next.status = "PENDING_REPLACE"
      /\ o.status \notin GatePart!WorkingStatuses => next.status = o.status
  <2>1. /\ DOMAIN GatePart!ReplaceRequestedTable = GatePart!WorkingStatuses
        /\ o.status \in GatePart!WorkingStatuses =>
             GatePart!ReplaceRequestedTable[o.status] = "PENDING_REPLACE"
        /\ "PENDING_REPLACE" \notin {GatePart!Working, GatePart!Resumed}
    BY DEF GatePart!ReplaceRequestedTable, GatePart!Working, GatePart!Resumed
  <2> QED BY <1>1, <2>1, TransitionFields
<1>3. CASE o.status \in GatePart!WorkingStatuses
  <2>1. GatePart!ApplyReplaceRequested(o, size, price) = n
    BY <1>3 DEF GatePart!ApplyReplaceRequested, GatePart!ReplaceRequestedTable
  <2>2. /\ Whole(n) /\ n.status = "PENDING_REPLACE"
        /\ n.pendingQuantity = size /\ n.pendingPrice = price
    <3> HIDE DEF next
    <3> QED BY <1>2, <1>3 DEF Whole, OrderFields
  <2> HIDE DEF n
  <2>3. GatePart!HasPendingTerms(n) /\ n.status \in Alive /\ ~Barred(o)
    BY <1>3, <2>2 DEF GatePart!HasPendingTerms, Alive, Answered, GatePart!PendingStatuses, Barred,
                      GatePart!WorkingStatuses, GatePart!Terminal
  <2> QED BY <2>1, <2>2, <2>3, SettleFollows
<1>4. CASE o.status \notin GatePart!WorkingStatuses
  <2>1. GatePart!ApplyReplaceRequested(o, size, price) = next
    BY <1>4 DEF GatePart!ApplyReplaceRequested, GatePart!ReplaceRequestedTable
  <2>2. /\ next.status \in Alive
        /\ next.status = "PENDING_REPLACE" => GatePart!HasPendingTerms(next)
        /\ Barred(o) => Barred(next)
    <3> HIDE DEF next
    <3> QED BY <1>2, <1>4 DEF Calm, Sent, GatePart!HasPendingTerms, Barred
  <2> HIDE DEF next
  <2> QED BY <1>2, <1>4, <2>1, <2>2, SettleFollows DEF Barred
<1> QED BY <1>3, <1>4

\* The order until the venue is called.
LEMMA SubmitCalm ==
  ASSUME NEW o
  PROVE  /\ \A size, price : Calm(GatePart!Settle(GatePart!NewOrder(size, price)), "placing")
         /\ Calm(o, "placing") =>
              /\ Calm(GatePart!Settle(GatePart!Transition(o, GatePart!SendStartedTable)),
                      "waiting")
              /\ Calm(GatePart!Settle(GatePart!Transition(o, GatePart!RejectTable)), "done")
<1>1. ASSUME NEW size, NEW price
      PROVE  Calm(GatePart!Settle(GatePart!NewOrder(size, price)), "placing")
  <2> DEFINE n == GatePart!NewOrder(size, price)
  <2>1. Whole(n) /\ n.status = "PENDING_SUBMIT"
    BY DEF GatePart!NewOrder, Whole, OrderFields
  <2> HIDE DEF n
  <2>2. GatePart!Settle(n) = [n EXCEPT !.pendingQuantity = GatePart!None,
                                       !.pendingPrice = GatePart!None]
    BY <2>1 DEF GatePart!Settle, GatePart!PendingStatuses
  <2>3. Whole(GatePart!Settle(n)) /\ GatePart!Settle(n).status = "PENDING_SUBMIT"
    BY <2>1, <2>2 DEF Whole, OrderFields
  <2>4. Calm(GatePart!Settle(n), "placing")
    BY <2>3 DEF Calm, SendPcs, Sent
  <2> QED BY <2>4 DEF n
<1>2. ASSUME Calm(o, "placing")
      PROVE  Calm(GatePart!Settle(GatePart!Transition(o, GatePart!SendStartedTable)), "waiting")
  <2> DEFINE n == GatePart!Transition(o, GatePart!SendStartedTable)
  <2>1. Whole(n) /\ n.status = "SUBMITTING"
    <3>1. /\ Whole(o) /\ o.status \in DOMAIN GatePart!SendStartedTable
          /\ GatePart!SendStartedTable[o.status] = "SUBMITTING"
          /\ "SUBMITTING" \notin {GatePart!Working, GatePart!Resumed}
      BY <1>2 DEF Calm, GatePart!SendStartedTable, GatePart!Working, GatePart!Resumed
    <3> QED BY <3>1, TransitionFields
  <2> HIDE DEF n
  <2>2. Calm(GatePart!Settle(n), "done")
    BY <2>1, SettleFollows DEF Alive
  <2>3. Calm(GatePart!Settle(n), "waiting")
    BY <2>2, SentCalm DEF Sent
  <2> QED BY <2>3 DEF n
<1>3. ASSUME Calm(o, "placing")
      PROVE  Calm(GatePart!Settle(GatePart!Transition(o, GatePart!RejectTable)), "done")
  <2> DEFINE n == GatePart!Transition(o, GatePart!RejectTable)
  <2>1. Whole(n) /\ n.status = "REJECTED"
    <3>1. /\ Whole(o) /\ o.status \in DOMAIN GatePart!RejectTable
          /\ GatePart!RejectTable[o.status] = "REJECTED"
          /\ "REJECTED" \notin {GatePart!Working, GatePart!Resumed}
      BY <1>3 DEF Calm, GatePart!RejectTable, GatePart!Working, GatePart!Resumed
    <3> QED BY <3>1, TransitionFields
  <2> HIDE DEF n
  <2>2. Follows(o, n)
    BY <2>1, EndedFollows DEF GatePart!Terminal
  <2> QED BY <2>2 DEF Follows, n
<1> QED BY <1>1, <1>2, <1>3

\* A refusal of the send ends the order.
LEMMA RefusedFollows ==
  ASSUME NEW o, Calm(o, "done")
  PROVE  Follows(o, GatePart!Transition(o, GatePart!RejectTable))
<1> DEFINE n == GatePart!Transition(o, GatePart!RejectTable)
<1>1. Whole(n) /\ n.status \in GatePart!Terminal
  <2>1. Whole(n) /\ n.status \in {o.status, "REJECTED"}
        /\ (o.status \in GatePart!AllLive => n.status = "REJECTED")
    BY TransitionFields DEF Calm, GatePart!RejectTable, GatePart!Working, GatePart!Resumed
  <2> HIDE DEF n
  <2> QED BY <2>1 DEF Calm, Sent, Alive, Answered, GatePart!AllLive, GatePart!Terminal
<1> HIDE DEF n
<1> QED BY <1>1, EndedFollows DEF n

\* An acknowledgement makes an order working only if it was being placed, or is revived.
LEMMA AckedFollows ==
  ASSUME NEW o, Calm(o, "done")
  PROVE  LET n == GatePart!Transition(o, GatePart!AckTable)
         IN  /\ Calm(GatePart!Settle(n), "done")
             /\ o.status # "UNKNOWN" => Follows(o, n)
<1> DEFINE n == GatePart!Transition(o, GatePart!AckTable)
<1>1. /\ Whole(n) /\ n.pendingQuantity = o.pendingQuantity /\ n.pendingPrice = o.pendingPrice
      /\ o.status \in {"SUBMITTING", "UNKNOWN"} => n.status = GatePart!WorkingStatus(o)
      /\ o.status \notin {"SUBMITTING", "UNKNOWN"} => n.status = o.status
  <2>1. /\ Whole(o) /\ GatePart!Working # GatePart!Resumed
        /\ o.status \in {"SUBMITTING", "UNKNOWN"} =>
             /\ o.status \in DOMAIN GatePart!AckTable
             /\ GatePart!AckTable[o.status] = GatePart!Working
        /\ o.status \notin {"SUBMITTING", "UNKNOWN"} =>
             \/ o.status \notin DOMAIN GatePart!AckTable
             \/ /\ o.status \in DOMAIN GatePart!AckTable
                /\ GatePart!AckTable[o.status] = o.status
        /\ o.status \notin {GatePart!Working, GatePart!Resumed}
    BY DEF Calm, Sent, Alive, Answered, GatePart!AckTable, GatePart!AllLive, GatePart!Terminal,
           GatePart!WorkingStatuses, GatePart!PendingStatuses, GatePart!Working,
           GatePart!Resumed
  <2>2. /\ Whole(n) /\ n.pendingQuantity = o.pendingQuantity
        /\ n.pendingPrice = o.pendingPrice
    BY <2>1, TransitionFields
  <2>3. o.status \in {"SUBMITTING", "UNKNOWN"} => n.status = GatePart!WorkingStatus(o)
    BY <2>1, TransitionFields
  <2>4. o.status \notin {"SUBMITTING", "UNKNOWN"} => n.status = o.status
    BY <2>1, TransitionFields
  <2> QED BY <2>2, <2>3, <2>4
<1> HIDE DEF n
<1>2. GatePart!HasPendingTerms(n) <=> GatePart!HasPendingTerms(o)
  BY <1>1 DEF GatePart!HasPendingTerms
<1>3. /\ n.status \in Alive
      /\ n.status = "PENDING_REPLACE" => GatePart!HasPendingTerms(n)
      /\ n.status = "SUBMITTING" => FALSE
  BY <1>1, <1>2, WorkingIsSettled DEF Calm, Sent
<1>4. o.status # "UNKNOWN" => (Hanging(o) => Hanging(n)) /\ (Barred(o) => Barred(n))
  BY <1>1, <1>2 DEF Hanging, Barred, GatePart!Terminal, GatePart!PendingStatuses
<1>5. Calm(GatePart!Settle(n), "done") /\ (o.status # "UNKNOWN" => Follows(o, n))
  BY <1>1, <1>3, <1>4, SettleFollows DEF Follows, Barred
<1> QED BY <1>5 DEF n

\* The amendments of an order that are on their way, and the reports of one that are.
AmendsIn(requests, id) == {m \in requests : m.kind = "amend" /\ m.id = id}
ReplacedIn(log) == {n \in DOMAIN log : log[n].kind = "replaced"}
IsOpen(requests, log, id) == AmendsIn(requests, id) # {} \/ ReplacedIn(log) # {}
OneIsOpen(requests, log, id) ==
  /\ \A m, n \in AmendsIn(requests, id) : m = n
  /\ \A m, n \in ReplacedIn(log) : m = n
  /\ AmendsIn(requests, id) = {} \/ ReplacedIn(log) = {}

ReportKinds == {"ack", "fill", "canceled", "replaced"}
IsStream(log) == /\ \E S : log \in Seq(S)
                 /\ \A n \in DOMAIN log : log[n].kind \in ReportKinds
ShowsAmend(o, requests, log, id) ==
  OneIsOpen(requests, log, id) /\ (IsOpen(requests, log, id) => Hanging(o))
\* No amendment that was checked before goes out, once a cancel was asked.
Yields(o, asked) == o.status # "SUBMITTING" /\ (asked => Barred(o))

\* What the amendment under way goes by, of every order but the one that moves and those
\* that were revived.
BeforeSend == {"recording", "reading", "deciding"}
AmendFields == {"pc", "id", "size", "price", "before"}
AmendFits(a, moved) ==
  /\ "pc" \in DOMAIN a
  /\ a.pc # "idle" =>
       AmendFields \subseteq DOMAIN a /\ a.id \in Ids /\ submitAt[a.id] \in Sent
  /\ a.pc = "recording" => a.size # GatePart!None \/ a.price # GatePart!None
  /\ a.pc \in BeforeSend \cup {"refused"} /\ a.id \notin moved \cup late.revived =>
       ~IsOpen(gateWire, reports[a.id], a.id)
  /\ a.pc \in BeforeSend /\ a.id \notin moved \cup late.revived =>
       Yields(orders[a.id], a.id \in cancels \ a.before)

YieldInv ==
  /\ orders = [id \in Ids |-> orders[id]] /\ submitAt = [id \in Ids |-> submitAt[id]]
  /\ reports = [id \in Ids |-> reports[id]]
  /\ \A id \in Ids : Calm(orders[id], submitAt[id]) /\ IsStream(reports[id])
  /\ \A id \in Ids \ late.revived : ShowsAmend(orders[id], gateWire, reports[id], id)
  /\ \A id \in cancels : id \in Ids /\ submitAt[id] \in Sent
  /\ "memory" \in DOMAIN kill
  /\ AmendFits(amend, {})

\* A report is added at the end of a stream, and is taken from its beginning.
LEMMA StreamGrows ==
  ASSUME NEW log, IsStream(log), NEW report, report.kind \in ReportKinds
  PROVE  /\ IsStream(Append(log, report))
         /\ report.kind # "replaced" => ReplacedIn(Append(log, report)) = ReplacedIn(log)
         /\ report.kind = "replaced" /\ ReplacedIn(log) = {} =>
              \A m, n \in ReplacedIn(Append(log, report)) : m = n
<1>1. PICK S : log \in Seq(S)
  BY DEF IsStream
<1> DEFINE T == S \cup {report}
           longer == Append(log, report)
<1>2. log \in Seq(T) /\ report \in T
  <2>1. S \subseteq T
    OBVIOUS
  <2> HIDE DEF T
  <2>2. Seq(S) \subseteq Seq(T)
    BY <2>1
  <2> QED BY <1>1, <2>2 DEF T
<1> HIDE DEF T
<1>3. /\ longer \in Seq(T) /\ DOMAIN log = 1..Len(log) /\ Len(log) \in Nat
      /\ DOMAIN longer = 1..(Len(log) + 1) /\ longer[Len(log) + 1] = report
      /\ \A n \in DOMAIN log : longer[n] = log[n]
  BY <1>2, AddedAtEnd
<1> HIDE DEF longer
<1>5. \A n \in DOMAIN longer : \/ n \in DOMAIN log /\ longer[n] = log[n]
                               \/ n = Len(log) + 1 /\ longer[n] = report
  BY <1>3
<1>6. \A n \in DOMAIN log : n \in DOMAIN longer /\ longer[n] = log[n]
  BY <1>3
<1>7. IsStream(longer)
  BY <1>3, <1>5 DEF IsStream
<1>8. report.kind # "replaced" => ReplacedIn(longer) = ReplacedIn(log)
  BY <1>5, <1>6 DEF ReplacedIn
<1>9. report.kind = "replaced" /\ ReplacedIn(log) = {} =>
        \A m, n \in ReplacedIn(longer) : m = n
  BY <1>5 DEF ReplacedIn
<1> QED BY <1>7, <1>8, <1>9 DEF longer

LEMMA StreamShrinks ==
  ASSUME NEW log, IsStream(log), log # <<>>
  PROVE  /\ IsStream(Tail(log)) /\ Head(log).kind \in ReportKinds
         /\ \A n \in ReplacedIn(Tail(log)) : n \in Nat \ {0} /\ n + 1 \in ReplacedIn(log)
         /\ Head(log).kind = "replaced" => 1 \in ReplacedIn(log)
<1>1. PICK S : log \in Seq(S)
  BY DEF IsStream
<1> DEFINE shorter == Tail(log)
<1>2. /\ Head(log) = log[1] /\ DOMAIN log = 1..Len(log) /\ Len(log) \in Nat \ {0}
      /\ shorter \in Seq(S) /\ DOMAIN shorter = 1..(Len(log) - 1)
      /\ \A n \in DOMAIN shorter : shorter[n] = log[n + 1]
  BY <1>1, ReadFromHead
<1> HIDE DEF shorter
<1>4. 1 \in DOMAIN log /\ \A n \in DOMAIN shorter : /\ n \in Nat \ {0} /\ n + 1 \in DOMAIN log
                                                  /\ shorter[n] = log[n + 1]
  BY <1>2
<1> QED BY <1>2, <1>4 DEF IsStream, ReplacedIn, shorter

\* One order moves, with its submit and its stream, and the amendment under way fits.
LEMMA OrderMoves ==
  ASSUME YieldInv, NEW id \in Ids, NEW o, NEW pc, NEW log,
         orders' = [orders EXCEPT ![id] = o], submitAt' = [submitAt EXCEPT ![id] = pc],
         reports' = [reports EXCEPT ![id] = log],
         late.revived \subseteq late'.revived,
         \A other \in Ids \ {id} : AmendsIn(gateWire', other) = AmendsIn(gateWire, other),
         Calm(o, pc), IsStream(log), submitAt[id] \in Sent => pc \in Sent,
         "memory" \in DOMAIN kill',
         cancels' \ {id} \subseteq cancels, id \in cancels' => pc \in Sent,
         AmendFits(amend', {id}),
         id \notin late'.revived =>
           /\ ShowsAmend(o, gateWire', log, id)
           /\ amend'.pc \in BeforeSend \cup {"refused"} /\ amend'.id = id =>
                ~IsOpen(gateWire', log, id)
           /\ amend'.pc \in BeforeSend /\ amend'.id = id =>
                Yields(o, id \in cancels' \ amend'.before)
  PROVE  YieldInv'
<1>1. /\ orders' = [x \in Ids |-> orders'[x]] /\ submitAt' = [x \in Ids |-> submitAt'[x]]
      /\ reports' = [x \in Ids |-> reports'[x]]
      /\ orders'[id] = o /\ submitAt'[id] = pc /\ reports'[id] = log
      /\ \A x \in Ids \ {id} : /\ orders'[x] = orders[x] /\ submitAt'[x] = submitAt[x]
                               /\ reports'[x] = reports[x]
  BY DEF YieldInv
<1>2. \A x \in Ids \ {id} : IsOpen(gateWire', reports[x], x) <=> IsOpen(gateWire, reports[x], x)
  BY DEF IsOpen
<1>3. \A x \in Ids : Calm(orders'[x], submitAt'[x]) /\ IsStream(reports'[x])
  <2> TAKE x \in Ids
  <2>1. CASE x = id
    BY <1>1, <2>1
  <2>2. CASE x # id
    <3>1. Calm(orders[x], submitAt[x]) /\ IsStream(reports[x])
      BY DEF YieldInv
    <3> QED BY <1>1, <2>2, <3>1
  <2> QED BY <2>1, <2>2
<1>4. ASSUME NEW x \in Ids \ late'.revived
      PROVE  ShowsAmend(orders'[x], gateWire', reports'[x], x)
  <2>1. CASE x = id
    BY <1>1, <2>1
  <2>2. CASE x # id
    <3>1. ShowsAmend(orders[x], gateWire, reports[x], x)
      BY DEF YieldInv
    <3> QED BY <1>1, <1>2, <2>2, <3>1 DEF ShowsAmend, OneIsOpen
  <2> QED BY <2>1, <2>2
<1>5. \A x \in cancels' : x \in Ids /\ submitAt'[x] \in Sent
  BY <1>1 DEF YieldInv
<1>6. AmendFits(amend, {})'
  <2>1. /\ "pc" \in DOMAIN amend'
        /\ amend'.pc = "recording" => amend'.size # GatePart!None \/ amend'.price # GatePart!None
    BY DEF AmendFits
  <2>2. amend'.pc # "idle" =>
          /\ AmendFields \subseteq DOMAIN amend' /\ amend'.id \in Ids
          /\ submitAt'[amend'.id] \in Sent
    BY <1>1 DEF AmendFits
  <2>3. amend'.pc \in BeforeSend \cup {"refused"} => amend'.pc # "idle"
    BY DEF BeforeSend
  <2>4. amend'.pc \in BeforeSend \cup {"refused"} /\ amend'.id \notin late'.revived =>
          ~IsOpen(gateWire', reports'[amend'.id], amend'.id)
    <3>1. CASE amend'.id = id
      BY <1>1, <3>1
    <3>2. CASE amend'.id # id
      BY <1>1, <1>2, <2>2, <2>3, <3>2 DEF AmendFits
    <3> QED BY <3>1, <3>2
  <2>5. amend'.pc \in BeforeSend /\ amend'.id \notin late'.revived =>
          Yields(orders'[amend'.id], amend'.id \in cancels' \ amend'.before)
    <3>1. CASE amend'.id = id
      BY <1>1, <3>1
    <3>2. CASE amend'.id # id
      BY <1>1, <2>2, <2>3, <3>2 DEF AmendFits, Yields
    <3> QED BY <3>1, <3>2
  <2> QED BY <2>1, <2>2, <2>4, <2>5 DEF AmendFits, IsOpen, AmendsIn, ReplacedIn, Yields, Barred
<1> QED BY <1>1, <1>3, <1>4, <1>5, <1>6
        DEF YieldInv, ShowsAmend, Calm, Whole, IsStream, OneIsOpen, IsOpen, AmendsIn,
            ReplacedIn, Hanging, GatePart!HasPendingTerms

\* Nothing of an order moves that does not.
LEMMA OrderRests ==
  ASSUME YieldInv, NEW id \in Ids
  PROVE  /\ orders = [orders EXCEPT ![id] = orders[id]]
         /\ submitAt = [submitAt EXCEPT ![id] = submitAt[id]]
         /\ reports = [reports EXCEPT ![id] = reports[id]]
         /\ Calm(orders[id], submitAt[id]) /\ IsStream(reports[id])
         /\ \A moved : AmendFits(amend, moved)
         /\ id \in cancels => submitAt[id] \in Sent
         /\ amend.pc # "idle" => amend.id \in Ids /\ submitAt[amend.id] \in Sent
         /\ id \notin late.revived =>
              /\ ShowsAmend(orders[id], gateWire, reports[id], id)
              /\ amend.pc \in BeforeSend \cup {"refused"} /\ amend.id = id =>
                   ~IsOpen(gateWire, reports[id], id)
              /\ amend.pc \in BeforeSend /\ amend.id = id =>
                   Yields(orders[id], id \in cancels \ amend.before)
<1>1. AmendFits(amend, {}) /\ Calm(orders[id], submitAt[id]) /\ IsStream(reports[id])
  BY DEF YieldInv
<1>2. id \notin late.revived => ShowsAmend(orders[id], gateWire, reports[id], id)
  BY DEF YieldInv
<1> QED BY <1>1, <1>2 DEF YieldInv, AmendFits

\* An event of an order the venue was called for, which no amendment goes by.
LEMMA EventKeeps ==
  ASSUME YieldInv, NEW id \in Ids, submitAt[id] \in Sent, NEW pc \in Sent, NEW o, Calm(o, "done"),
         orders' = [orders EXCEPT ![id] = o], submitAt' = [submitAt EXCEPT ![id] = pc],
         \A other \in Ids : AmendsIn(gateWire', other) = AmendsIn(gateWire, other),
         UNCHANGED <<reports, amend, kill>>,
         late.revived \subseteq late'.revived, cancels' \ {id} \subseteq cancels,
         id \notin late'.revived =>
           /\ Hanging(orders[id]) => Hanging(o)
           /\ Yields(orders[id], id \in cancels \ amend.before) =>
                Yields(o, id \in cancels' \ amend.before)
  PROVE  YieldInv'
<1>1. /\ reports' = [reports EXCEPT ![id] = reports[id]]
      /\ IsStream(reports[id]) /\ AmendFits(amend, {id})
      /\ id \notin late.revived =>
           /\ ShowsAmend(orders[id], gateWire, reports[id], id)
           /\ amend.pc \in BeforeSend \cup {"refused"} /\ amend.id = id =>
                ~IsOpen(gateWire, reports[id], id)
           /\ amend.pc \in BeforeSend /\ amend.id = id =>
                Yields(orders[id], id \in cancels \ amend.before)
  BY OrderRests
<1>2. IsOpen(gateWire', reports[id], id) <=> IsOpen(gateWire, reports[id], id)
  BY DEF IsOpen
<1>3. id \notin late'.revived => ShowsAmend(o, gateWire', reports[id], id)
  BY <1>1, <1>2 DEF ShowsAmend, OneIsOpen
<1>4. AmendFits(amend', {id}) /\ "memory" \in DOMAIN kill' /\ Calm(o, pc)
  BY <1>1, SentCalm DEF YieldInv, Sent
<1>5. id \notin late'.revived =>
        /\ amend'.pc \in BeforeSend \cup {"refused"} /\ amend'.id = id =>
             ~IsOpen(gateWire', reports[id], id)
        /\ amend'.pc \in BeforeSend /\ amend'.id = id =>
             Yields(o, id \in cancels' \ amend'.before)
  BY <1>1, <1>2
<1> QED BY <1>1, <1>3, <1>4, <1>5, OrderMoves

\* A step of a submit before the call: its order has no amendment yet.
LEMMA SubmitKeeps ==
  ASSUME YieldInv, NEW id \in Ids, submitAt[id] \notin Sent, NEW o, NEW pc, Calm(o, pc),
         orders' = [orders EXCEPT ![id] = o], submitAt' = [submitAt EXCEPT ![id] = pc],
         \A other \in Ids : AmendsIn(gateWire', other) = AmendsIn(gateWire, other),
         UNCHANGED <<reports, amend, cancels, kill, late>>
  PROVE  YieldInv'
<1>1. /\ reports' = [reports EXCEPT ![id] = reports[id]]
      /\ Calm(orders[id], submitAt[id]) /\ IsStream(reports[id])
      /\ AmendFits(amend, {id})
      /\ id \notin cancels
      /\ amend.pc # "idle" => amend.id # id
      /\ id \notin late.revived => ShowsAmend(orders[id], gateWire, reports[id], id)
  BY OrderRests
<1>2. ~Hanging(orders[id])
  <2>1. /\ submitAt[id] \in {"idle", "intending"} => orders[id] = GatePart!NoOrder
        /\ submitAt[id] = "placing" => orders[id].status = "PENDING_SUBMIT"
        /\ submitAt[id] \in {"idle", "intending", "placing"}
    BY <1>1 DEF Calm, SendPcs, Sent
  <2>2. GatePart!NoOrder.status = "NONE"
    BY DEF GatePart!NoOrder
  <2> QED BY <2>1, <2>2 DEF Hanging, GatePart!Terminal, GatePart!PendingStatuses
<1>3. id \notin late.revived => ~IsOpen(gateWire', reports[id], id)
  BY <1>1, <1>2 DEF ShowsAmend, IsOpen
<1>4. id \notin late'.revived => ShowsAmend(o, gateWire', reports[id], id)
  BY <1>1, <1>3 DEF ShowsAmend, OneIsOpen
<1>5. AmendFits(amend', {id}) /\ "memory" \in DOMAIN kill' /\ late'.revived = late.revived
  BY <1>1 DEF YieldInv
<1>6. amend'.pc \in BeforeSend \cup {"refused"} => amend'.id # id
  BY <1>1 DEF BeforeSend
<1>7. /\ late.revived \subseteq late'.revived /\ cancels' \ {id} \subseteq cancels
      /\ id \notin cancels'
  BY <1>1, <1>5
<1> QED BY <1>1, <1>4, <1>5, <1>6, <1>7, OrderMoves

\* Requests that are no amendments change none.
LEMMA OtherRequests ==
  ASSUME NEW m, m.kind # "amend", gateWire' \in {gateWire \cup {m}, gateWire \ {m}}
  PROVE  \A id \in Ids : AmendsIn(gateWire', id) = AmendsIn(gateWire, id)
BY DEF AmendsIn

\* An order an acknowledgement takes out of UNKNOWN is remembered.
LEMMA AckRevives ==
  ASSUME NEW id, GatePart!Acked(id)
  PROVE  late.revived \subseteq late'.revived
         /\ (orders[id].status = "UNKNOWN" => id \in late'.revived)
BY DEF GatePart!Acked

LEMMA SubmitsKeep ==
  ASSUME YieldInv, NEW id \in Ids,
         \/ GatePart!SubmitChecks(id) \/ GatePart!SubmitRecords(id)
         \/ GatePart!SubmitPlaces(id) \/ GatePart!SubmitAnswered(id)
         \/ GatePart!SubmitDoubts(id)
  PROVE  YieldInv'
<1>1. Calm(orders[id], submitAt[id]) /\ orders = [orders EXCEPT ![id] = orders[id]]
  BY OrderRests
<1>2. submitAt[id] \in Sent => Calm(orders[id], "done")
  BY <1>1, SentCalm DEF Sent
<1>3. CASE GatePart!SubmitChecks(id)
  <2>1. /\ submitAt[id] = "idle" /\ submitAt' = [submitAt EXCEPT ![id] = "intending"]
        /\ UNCHANGED <<orders, amend, cancels, kill, gateWire, reports, late>>
    BY <1>3 DEF GatePart!SubmitChecks
  <2>2. /\ Calm(orders[id], "intending") /\ orders' = [orders EXCEPT ![id] = orders[id]]
        /\ submitAt[id] \notin Sent
    BY <1>1, <2>1 DEF Calm, SendPcs, Sent
  <2> QED BY <2>1, <2>2, SubmitKeeps
<1>4. CASE GatePart!SubmitRecords(id)
  <2> DEFINE o == GatePart!Settle(GatePart!NewOrder(request[id].size, request[id].price))
  <2>1. /\ submitAt[id] = "intending" /\ submitAt' = [submitAt EXCEPT ![id] = "placing"]
        /\ orders' = [orders EXCEPT ![id] = o]
        /\ UNCHANGED <<amend, cancels, kill, gateWire, reports, late>>
    BY <1>4 DEF GatePart!SubmitRecords, GatePart!Put
  <2>2. Calm(o, "placing") /\ submitAt[id] \notin Sent
    BY <2>1, SubmitCalm DEF Sent
  <2> HIDE DEF o
  <2> QED BY <2>1, <2>2, SubmitKeeps
<1>5. CASE GatePart!SubmitPlaces(id)
  <2> DEFINE started == GatePart!Settle(GatePart!Transition(orders[id],
                                                            GatePart!SendStartedTable))
             stopped == GatePart!Settle(GatePart!Transition(orders[id], GatePart!RejectTable))
             m == [kind |-> "new", id |-> id]
  <2>1. /\ submitAt[id] = "placing" /\ UNCHANGED <<amend, cancels, kill, reports, late>>
        /\ \/ /\ orders' = [orders EXCEPT ![id] = started] /\ gateWire' = gateWire \cup {m}
              /\ submitAt' = [submitAt EXCEPT ![id] = "waiting"]
           \/ /\ orders' = [orders EXCEPT ![id] = stopped] /\ gateWire' = gateWire
              /\ submitAt' = [submitAt EXCEPT ![id] = "done"]
    BY <1>5 DEF GatePart!SubmitPlaces, GatePart!Moves, GatePart!Put
  <2>2. Calm(started, "waiting") /\ Calm(stopped, "done") /\ submitAt[id] \notin Sent
    BY <1>1, <2>1, SubmitCalm DEF Sent
  <2>3. m.kind # "amend"
    OBVIOUS
  <2>4. \A other \in Ids : AmendsIn(gateWire', other) = AmendsIn(gateWire, other)
    <3> HIDE DEF started, stopped, m
    <3> QED BY <2>1, <2>3, OtherRequests
  <2> HIDE DEF started, stopped
  <2> QED BY <2>1, <2>2, <2>4, SubmitKeeps
<1>6. CASE GatePart!SubmitAnswered(id)
  <2>1. /\ submitAt[id] \in Sent /\ submitAt' = [submitAt EXCEPT ![id] = "done"]
        /\ UNCHANGED <<amend, cancels, kill, gateWire, reports>>
    BY <1>6 DEF GatePart!SubmitAnswered, Sent
  <2>2. ASSUME NEW n, orders' = [orders EXCEPT ![id] = GatePart!Settle(n)],
               Calm(GatePart!Settle(n), "done"), late.revived \subseteq late'.revived,
               id \notin late'.revived => Follows(orders[id], n)
        PROVE  YieldInv'
    <3> DEFINE o == GatePart!Settle(n)
    <3>1. id \notin late'.revived =>
            /\ Hanging(orders[id]) => Hanging(o)
            /\ Yields(orders[id], id \in cancels \ amend.before) =>
                 Yields(o, id \in cancels' \ amend.before)
      BY <2>1, <2>2 DEF Follows, Yields
    <3>2. orders' = [orders EXCEPT ![id] = o] /\ Calm(o, "done")
      BY <2>2
    <3>3. "done" \in Sent
      BY DEF Sent
    <3> HIDE DEF o
    <3> QED BY <2>1, <2>2, <3>1, <3>2, <3>3, EventKeeps
  <2>3. CASE submitAt[id] = "accepted"
    <3> DEFINE n == GatePart!Transition(orders[id], GatePart!AckTable)
    <3>1. orders' = [orders EXCEPT ![id] = GatePart!Settle(n)] /\ GatePart!Acked(id)
      BY <1>6, <2>3 DEF GatePart!SubmitAnswered, GatePart!Moves, GatePart!Put
    <3>2. /\ Calm(GatePart!Settle(n), "done")
          /\ orders[id].status # "UNKNOWN" => Follows(orders[id], n)
      BY <1>2, <2>1, AckedFollows
    <3>3. /\ late.revived \subseteq late'.revived
          /\ orders[id].status = "UNKNOWN" => id \in late'.revived
      BY <3>1, AckRevives
    <3> HIDE DEF n
    <3> QED BY <2>2, <3>1, <3>2, <3>3
  <2>4. CASE submitAt[id] # "accepted"
    <3> DEFINE n == GatePart!Transition(orders[id], GatePart!RejectTable)
    <3>1. orders' = [orders EXCEPT ![id] = GatePart!Settle(n)] /\ late' = late
      BY <1>6, <2>4 DEF GatePart!SubmitAnswered, GatePart!Moves, GatePart!Put
    <3>2. Follows(orders[id], n)
      BY <1>2, <2>1, RefusedFollows
    <3> HIDE DEF n
    <3> QED BY <2>2, <3>1, <3>2 DEF Follows
  <2> QED BY <2>3, <2>4
<1>7. CASE GatePart!SubmitDoubts(id)
  <2> DEFINE n == GatePart!Transition(orders[id], GatePart!OutcomeUnknownTable)
             o == GatePart!Settle(n)
  <2>1. /\ submitAt[id] \in Sent /\ orders' = [orders EXCEPT ![id] = o]
        /\ submitAt' = [submitAt EXCEPT ![id] = "done"] /\ "done" \in Sent
        /\ UNCHANGED <<amend, cancels, kill, gateWire, reports, late>>
    BY <1>7 DEF GatePart!SubmitDoubts, GatePart!Moves, GatePart!Put, Sent
  <2>2. Follows(orders[id], n) /\ Hanging(o) /\ Barred(o)
    BY <1>2, <2>1, DoubtFollows
  <2>3. /\ Calm(o, "done") /\ cancels' \ {id} \subseteq cancels
        /\ late.revived \subseteq late'.revived
        /\ Yields(orders[id], id \in cancels \ amend.before) =>
             Yields(o, id \in cancels' \ amend.before)
    BY <2>1, <2>2 DEF Follows, Yields
  <2> HIDE DEF o
  <2> QED BY <2>1, <2>2, <2>3, EventKeeps
<1> QED BY <1>3, <1>4, <1>5, <1>6, <1>7

\* A step of the venue that our orders do not see.
LEMMA VenueKeeps ==
  ASSUME YieldInv, NEW id \in Ids, NEW pc, NEW log,
         submitAt' = [submitAt EXCEPT ![id] = pc], reports' = [reports EXCEPT ![id] = log],
         Calm(orders[id], pc), submitAt[id] \in Sent => pc \in Sent,
         IsStream(log), ReplacedIn(log) = ReplacedIn(reports[id]),
         \A other \in Ids : AmendsIn(gateWire', other) = AmendsIn(gateWire, other),
         UNCHANGED <<orders, amend, kill, late>>, cancels' \subseteq cancels
  PROVE  YieldInv'
<1>1. /\ orders' = [orders EXCEPT ![id] = orders[id]]
      /\ AmendFits(amend, {id})
      /\ id \in cancels => submitAt[id] \in Sent
      /\ id \notin late.revived =>
           /\ ShowsAmend(orders[id], gateWire, reports[id], id)
           /\ amend.pc \in BeforeSend \cup {"refused"} /\ amend.id = id =>
                ~IsOpen(gateWire, reports[id], id)
           /\ amend.pc \in BeforeSend /\ amend.id = id =>
                Yields(orders[id], id \in cancels \ amend.before)
  BY OrderRests
<1>2. IsOpen(gateWire', log, id) <=> IsOpen(gateWire, reports[id], id)
  BY DEF IsOpen
<1>3. id \notin late'.revived => ShowsAmend(orders[id], gateWire', log, id)
  BY <1>1, <1>2 DEF ShowsAmend, OneIsOpen
<1>4. /\ AmendFits(amend', {id}) /\ "memory" \in DOMAIN kill'
      /\ late.revived \subseteq late'.revived /\ cancels' \ {id} \subseteq cancels
      /\ id \in cancels' => pc \in Sent
  BY <1>1 DEF YieldInv
<1>5. id \notin late'.revived =>
        /\ amend'.pc \in BeforeSend \cup {"refused"} /\ amend'.id = id =>
             ~IsOpen(gateWire', log, id)
        /\ amend'.pc \in BeforeSend /\ amend'.id = id =>
             Yields(orders[id], id \in cancels' \ amend'.before)
  BY <1>1, <1>2 DEF Yields
<1> QED BY <1>1, <1>3, <1>4, <1>5, OrderMoves

\* A cancel, its answer and the loss of it.
LEMMA CancelsKeep ==
  ASSUME YieldInv, NEW id \in Ids,
         \/ GatePart!Cancel(id) \/ GatePart!CancelDoubts(id) \/ GatePart!TakesCancel(id)
  PROVE  YieldInv'
<1>1. /\ Calm(orders[id], submitAt[id]) /\ orders = [orders EXCEPT ![id] = orders[id]]
      /\ submitAt = [submitAt EXCEPT ![id] = submitAt[id]]
      /\ reports = [reports EXCEPT ![id] = reports[id]]
      /\ id \in cancels => submitAt[id] \in Sent
      /\ IsStream(reports[id])
  BY OrderRests
<1>2. submitAt[id] \in Sent => Calm(orders[id], "done")
  BY <1>1, SentCalm DEF Sent
<1>3. CASE GatePart!Cancel(id)
  <2> DEFINE n == GatePart!Transition(orders[id], GatePart!CancelRequestedTable)
             o == GatePart!Settle(n)
             m == [kind |-> "cancel", id |-> id]
  <2>1. /\ orders[id] # GatePart!NoOrder /\ submitAt[id] # "placing"
        /\ orders' = [orders EXCEPT ![id] = o]
        /\ orders[id].status \notin GatePart!Terminal
        /\ cancels' = cancels \cup {id} /\ gateWire' = gateWire \cup {m}
        /\ UNCHANGED <<submitAt, amend, kill, reports, late>>
    BY <1>3 DEF GatePart!Cancel, GatePart!Moves, GatePart!Put, GatePart!OpenOrders,
                GatePart!Known
  <2>2. submitAt[id] \in Sent
    BY <1>1, <2>1 DEF Calm, SendPcs, Sent
  <2>3. Follows(orders[id], n) /\ (orders[id].status # "SUBMITTING" => Barred(o))
    BY <1>2, <2>1, <2>2, CancelFollows
  <2>4. m.kind # "amend"
    OBVIOUS
  <2>5. /\ Calm(o, "done") /\ (Hanging(orders[id]) => Hanging(o))
        /\ Yields(orders[id], id \in cancels \ amend.before) =>
             Yields(o, id \in cancels' \ amend.before)
    BY <2>3 DEF Follows, Yields
  <2> HIDE DEF n, o, m
  <2>6. /\ \A other \in Ids : AmendsIn(gateWire', other) = AmendsIn(gateWire, other)
        /\ cancels' \ {id} \subseteq cancels /\ late.revived \subseteq late'.revived
        /\ submitAt' = [submitAt EXCEPT ![id] = submitAt[id]]
    BY <1>1, <2>1, <2>4, OtherRequests
  <2> QED BY <2>1, <2>2, <2>5, <2>6, EventKeeps
<1>4. CASE GatePart!CancelDoubts(id)
  <2> DEFINE n == GatePart!Transition(orders[id], GatePart!OutcomeUnknownTable)
             o == GatePart!Settle(n)
  <2>1. /\ submitAt[id] \in Sent /\ orders' = [orders EXCEPT ![id] = o]
        /\ cancels' = cancels \ {id}
        /\ UNCHANGED <<submitAt, amend, kill, gateWire, reports, late>>
    BY <1>1, <1>4 DEF GatePart!CancelDoubts, GatePart!Moves, GatePart!Put
  <2>2. Follows(orders[id], n) /\ Hanging(o) /\ Barred(o)
    BY <1>2, <2>1, DoubtFollows
  <2>3. /\ Calm(o, "done") /\ cancels' \ {id} \subseteq cancels
        /\ late.revived \subseteq late'.revived
        /\ submitAt' = [submitAt EXCEPT ![id] = submitAt[id]]
        /\ Yields(orders[id], id \in cancels \ amend.before) =>
             Yields(o, id \in cancels' \ amend.before)
    BY <1>1, <2>1, <2>2 DEF Follows, Yields
  <2> HIDE DEF o
  <2> QED BY <2>1, <2>2, <2>3, EventKeeps
<1>5. CASE GatePart!TakesCancel(id)
  <2> DEFINE n == GatePart!Transition(orders[id], GatePart!CancelRejectedTable)
             o == GatePart!Settle(n)
             m == [kind |-> "cancel", id |-> id]
             report == [kind |-> "canceled"]
  <2>1. /\ gateWire' = gateWire \ {m} /\ cancels' = cancels \ {id}
        /\ UNCHANGED <<submitAt, amend, kill, late>>
        /\ \/ /\ reports' = [reports EXCEPT ![id] = Append(reports[id], report)]
              /\ orders' = orders
           \/ orders' = orders /\ reports' = reports
           \/ id \in cancels /\ orders' = [orders EXCEPT ![id] = o] /\ reports' = reports
    BY <1>5 DEF GatePart!TakesCancel, GatePart!Moves, GatePart!Put, GatePart!Reports
  <2>2. m.kind # "amend" /\ report.kind = "canceled"
    OBVIOUS
  <2>3. \A other \in Ids : AmendsIn(gateWire', other) = AmendsIn(gateWire, other)
    <3> HIDE DEF o, m, report
    <3> QED BY <2>1, <2>2, OtherRequests
  <2> HIDE DEF m, report
  <2>4. /\ submitAt' = [submitAt EXCEPT ![id] = submitAt[id]]
        /\ late.revived \subseteq late'.revived /\ cancels' \subseteq cancels
    BY <1>1, <2>1
  <2>5. CASE reports' = [reports EXCEPT ![id] = Append(reports[id], report)] /\ orders' = orders
    <3> DEFINE longer == Append(reports[id], report)
    <3>1. IsStream(longer) /\ ReplacedIn(longer) = ReplacedIn(reports[id])
      BY <1>1, <2>2, StreamGrows DEF ReportKinds
    <3>2. reports' = [reports EXCEPT ![id] = longer] /\ orders' = orders
      BY <2>5
    <3>3. UNCHANGED <<orders, amend, kill, late>>
      BY <2>1, <2>5
    <3> HIDE DEF longer
    <3> QED BY <1>1, <2>3, <2>4, <3>1, <3>2, <3>3, VenueKeeps
  <2>6. CASE orders' = orders /\ reports' = reports
    <3>1. reports' = [reports EXCEPT ![id] = reports[id]]
      BY <1>1, <2>6
    <3> QED BY <1>1, <2>1, <2>3, <2>4, <2>6, <3>1, VenueKeeps
  <2>7. CASE id \in cancels /\ orders' = [orders EXCEPT ![id] = o] /\ reports' = reports
    <3>1. /\ Calm(o, "done") /\ (Hanging(orders[id]) => Hanging(o))
          /\ orders[id].status # "SUBMITTING" => o.status # "SUBMITTING"
      BY <1>1, <1>2, <2>7, UncanceledFollows
    <3>2. /\ Yields(orders[id], id \in cancels \ amend.before) =>
               Yields(o, id \in cancels' \ amend.before)
          /\ cancels' \ {id} \subseteq cancels /\ submitAt[id] \in Sent
      BY <1>1, <2>1, <2>7, <3>1 DEF Yields
    <3> HIDE DEF o
    <3> QED BY <2>1, <2>3, <2>4, <2>7, <3>1, <3>2, EventKeeps
  <2> QED BY <2>1, <2>5, <2>6, <2>7
<1> QED BY <1>3, <1>4, <1>5

\* The venue takes a new order, or refuses it, and executes one.
LEMMA VenueMoves ==
  ASSUME YieldInv, NEW id \in Ids, GatePart!TakesNew(id) \/ GatePart!Executes(id)
  PROVE  YieldInv'
<1>1. /\ submitAt = [submitAt EXCEPT ![id] = submitAt[id]]
      /\ reports = [reports EXCEPT ![id] = reports[id]]
      /\ Calm(orders[id], submitAt[id]) /\ IsStream(reports[id])
  BY OrderRests
<1>2. ASSUME NEW report, report.kind \in ReportKinds \ {"replaced"}
      PROVE  /\ IsStream(Append(reports[id], report))
             /\ ReplacedIn(Append(reports[id], report)) = ReplacedIn(reports[id])
  BY <1>1, <1>2, StreamGrows
<1>3. CASE GatePart!TakesNew(id)
  <2> DEFINE m == [kind |-> "new", id |-> id]
             report == [kind |-> "ack"]
             longer == Append(reports[id], report)
  <2>1. /\ gateWire' = gateWire \ {m} /\ UNCHANGED <<orders, amend, cancels, kill, late>>
        /\ \E how \in {"accepted", "refused"} : GatePart!AnswerPlace(id, how)
        /\ \/ reports' = [reports EXCEPT ![id] = longer]
           \/ reports' = reports
    BY <1>3 DEF GatePart!TakesNew, GatePart!Reports
  <2>2. PICK how \in {"accepted", "refused"} : GatePart!AnswerPlace(id, how)
    BY <2>1
  <2> DEFINE pc == IF submitAt[id] = "waiting" THEN how ELSE submitAt[id]
  <2>3. submitAt' = [submitAt EXCEPT ![id] = pc]
    BY <1>1, <2>2 DEF GatePart!AnswerPlace
  <2>4. Calm(orders[id], pc) /\ (submitAt[id] \in Sent => pc \in Sent)
    BY <1>1, SentCalm DEF Sent
  <2>5. m.kind # "amend" /\ report.kind = "ack"
    OBVIOUS
  <2> HIDE DEF m, pc, report
  <2>6. /\ IsStream(longer) /\ ReplacedIn(longer) = ReplacedIn(reports[id])
        /\ cancels' \subseteq cancels
    BY <1>2, <2>1, <2>5 DEF ReportKinds
  <2> HIDE DEF longer
  <2>7. \A other \in Ids : AmendsIn(gateWire', other) = AmendsIn(gateWire, other)
    BY <2>1, <2>5, OtherRequests
  <2>8. CASE reports' = [reports EXCEPT ![id] = longer]
    BY <2>1, <2>3, <2>4, <2>6, <2>7, <2>8, VenueKeeps
  <2>9. CASE reports' = reports
    <3>1. reports' = [reports EXCEPT ![id] = reports[id]]
      BY <1>1, <2>9
    <3> QED BY <1>1, <2>1, <2>3, <2>4, <2>6, <2>7, <3>1, VenueKeeps
  <2> QED BY <2>1, <2>8, <2>9
<1>4. CASE GatePart!Executes(id)
  <2> DEFINE report == [kind |-> "fill", nth |-> venue[id].filled + 1]
             longer == Append(reports[id], report)
  <2>1. /\ reports' = [reports EXCEPT ![id] = longer]
        /\ UNCHANGED <<orders, submitAt, amend, cancels, kill, gateWire, late>>
    BY <1>4 DEF GatePart!Executes, GatePart!Reports
  <2>2. report.kind = "fill"
    OBVIOUS
  <2> HIDE DEF report
  <2>3. IsStream(longer) /\ ReplacedIn(longer) = ReplacedIn(reports[id])
    BY <1>2, <2>2 DEF ReportKinds
  <2>4. submitAt' = [submitAt EXCEPT ![id] = submitAt[id]] /\ cancels' \subseteq cancels
    BY <1>1, <2>1
  <2> HIDE DEF longer
  <2> QED BY <1>1, <2>1, <2>3, <2>4, VenueKeeps
<1> QED BY <1>3, <1>4

\* What the stream has to tell of an order the venue was called for, and an amendment of it
\* is over with the report of it.
LEMMA HearsKeep ==
  ASSUME YieldInv, NEW id \in Ids, GatePart!Hears(id), submitAt[id] \in Sent PROVE YieldInv'
<1> DEFINE report == Head(reports[id])
           shorter == Tail(reports[id])
           n == GatePart!Heard(orders[id], report)
           o == GatePart!Settle(n)
<1>1. /\ submitAt = [submitAt EXCEPT ![id] = submitAt[id]]
      /\ Calm(orders[id], submitAt[id]) /\ IsStream(reports[id]) /\ AmendFits(amend, {id})
      /\ id \notin late.revived =>
           /\ ShowsAmend(orders[id], gateWire, reports[id], id)
           /\ amend.pc \in BeforeSend \cup {"refused"} /\ amend.id = id =>
                ~IsOpen(gateWire, reports[id], id)
           /\ amend.pc \in BeforeSend /\ amend.id = id =>
                Yields(orders[id], id \in cancels \ amend.before)
  BY OrderRests
<1>2. /\ reports[id] # <<>>
      /\ orders' = [orders EXCEPT ![id] = o]
      /\ reports' = [reports EXCEPT ![id] = shorter]
      /\ report.kind = "ack" => GatePart!Acked(id)
      /\ report.kind # "ack" => late' = late
      /\ UNCHANGED <<submitAt, amend, cancels, kill, gateWire>>
  BY DEF GatePart!Hears, GatePart!Put
<1>3. /\ IsStream(shorter) /\ report.kind \in ReportKinds
      /\ \A i \in ReplacedIn(shorter) : i \in Nat \ {0} /\ i + 1 \in ReplacedIn(reports[id])
      /\ report.kind = "replaced" => 1 \in ReplacedIn(reports[id])
  BY <1>1, <1>2, StreamShrinks
<1>4. Calm(orders[id], "done")
  BY <1>1, SentCalm DEF Sent
<1>5. late.revived \subseteq late'.revived
  BY <1>2, AckRevives
<1>6. /\ Calm(o, "done")
      /\ report.kind # "replaced" /\ id \notin late'.revived => Follows(orders[id], n)
  <2> HIDE DEF report
  <2>1. CASE report.kind = "fill"
    <3>1. n = GatePart!ApplyFill(orders[id], GatePart!UnitFill(report.nth))
      BY <2>1, Zenon DEF GatePart!Heard
    <3> QED BY <1>4, <3>1, FillFollows DEF Follows
  <2>2. CASE report.kind = "canceled"
    <3>1. n = GatePart!Transition(orders[id], GatePart!CanceledTable)
      BY <2>2, Zenon DEF GatePart!Heard
    <3> QED BY <1>4, <3>1, CanceledFollows DEF Follows
  <2>3. CASE report.kind = "ack"
    <3>1. n = GatePart!Transition(orders[id], GatePart!AckTable)
      BY <2>3, Zenon DEF GatePart!Heard
    <3>2. orders[id].status = "UNKNOWN" => id \in late'.revived
      BY <1>2, <2>3, AckRevives
    <3> QED BY <1>4, <3>1, <3>2, AckedFollows
  <2>4. CASE report.kind = "replaced"
    <3>1. n = GatePart!ApplyReplaced(orders[id], report.size, report.price)
      BY <2>4, Zenon DEF GatePart!Heard
    <3> QED BY <1>4, <2>4, <3>1, ReplacedCalm
  <2> QED BY <1>3, <2>1, <2>2, <2>3, <2>4 DEF ReportKinds
<1> HIDE DEF report, shorter, n
<1>7. /\ amend' = amend /\ cancels' = cancels /\ gateWire' = gateWire
      /\ "memory" \in DOMAIN kill' /\ Calm(o, submitAt[id])
  BY <1>2, <1>6, SentCalm DEF YieldInv, Sent
<1>8. ASSUME id \notin late'.revived
      PROVE  /\ ShowsAmend(o, gateWire', shorter, id)
             /\ amend'.pc \in BeforeSend \cup {"refused"} /\ amend'.id = id =>
                  ~IsOpen(gateWire', shorter, id)
             /\ amend'.pc \in BeforeSend /\ amend'.id = id =>
                  Yields(o, id \in cancels' \ amend'.before)
  <2>1. /\ ShowsAmend(orders[id], gateWire, reports[id], id)
        /\ amend.pc \in BeforeSend \cup {"refused"} /\ amend.id = id =>
             ~IsOpen(gateWire, reports[id], id)
        /\ amend.pc \in BeforeSend /\ amend.id = id =>
             Yields(orders[id], id \in cancels \ amend.before)
    BY <1>1, <1>5, <1>8
  <2>2. IsOpen(gateWire, shorter, id) => IsOpen(gateWire, reports[id], id)
    BY <1>3 DEF IsOpen
  <2>3. OneIsOpen(gateWire, reports[id], id)
    BY <2>1 DEF ShowsAmend
  <2>4. OneIsOpen(gateWire, shorter, id)
    <3>1. \A i, j \in ReplacedIn(shorter) : i = j
      <4> TAKE i, j \in ReplacedIn(shorter)
      <4>1. i + 1 = j + 1 /\ i \in Nat /\ j \in Nat
        BY <1>3, <2>3 DEF OneIsOpen
      <4> QED BY <4>1
    <3>2. ReplacedIn(shorter) # {} => ReplacedIn(reports[id]) # {}
      BY <1>3
    <3> QED BY <2>3, <3>1, <3>2 DEF OneIsOpen
  <2>5. CASE report.kind = "replaced"
    <3>1. 1 \in ReplacedIn(reports[id]) /\ AmendsIn(gateWire, id) = {}
      BY <1>3, <2>3, <2>5 DEF OneIsOpen
    <3>2. ReplacedIn(shorter) = {}
      <4>1. ASSUME NEW i \in ReplacedIn(shorter) PROVE FALSE
        <5>1. i + 1 = 1 /\ i \in Nat \ {0}
          BY <1>3, <2>3, <3>1, <4>1 DEF OneIsOpen
        <5> QED BY <5>1
      <4> QED BY <4>1
    <3>3. ~IsOpen(gateWire, shorter, id) /\ IsOpen(gateWire, reports[id], id)
      BY <3>1, <3>2 DEF IsOpen
    <3> HIDE DEF o
    <3> QED BY <1>7, <2>1, <2>4, <3>3 DEF ShowsAmend
  <2>6. CASE report.kind # "replaced"
    <3>1. Follows(orders[id], n)
      BY <1>6, <1>8, <2>6
    <3>2. /\ Hanging(orders[id]) => Hanging(o)
          /\ Yields(orders[id], id \in cancels \ amend.before) =>
               Yields(o, id \in cancels \ amend.before)
      BY <3>1 DEF Follows, Yields
    <3> HIDE DEF o
    <3> QED BY <1>7, <2>1, <2>2, <2>4, <3>2 DEF ShowsAmend
  <2> QED BY <2>5, <2>6
<1>9. /\ AmendFits(amend', {id}) /\ cancels' \ {id} \subseteq cancels
      /\ submitAt' = [submitAt EXCEPT ![id] = submitAt[id]]
      /\ \A other \in Ids \ {id} : AmendsIn(gateWire', other) = AmendsIn(gateWire, other)
      /\ id \in cancels' => submitAt[id] \in Sent
  BY <1>1, <1>2, <1>7
<1> HIDE DEF o
<1> QED BY <1>2, <1>3, <1>5, <1>7, <1>8, <1>9, OrderMoves

\* An amendment that is given up, or goes on, fits where the last one did.
LEMMA AmendGoesOn ==
  ASSUME YieldInv, amend.pc # "idle", NEW pc, pc \in {"reading", "deciding", "waiting", "refused"},
         pc \in BeforeSend => amend.pc \in BeforeSend
  PROVE  LET a == [amend EXCEPT !.pc = pc]
         IN  /\ a.pc = pc /\ a.id = amend.id /\ a.before = amend.before
             /\ AmendFits(a, {amend.id})
<1> DEFINE a == [amend EXCEPT !.pc = pc]
<1>1. /\ AmendFields \subseteq DOMAIN amend /\ amend.id \in Ids /\ submitAt[amend.id] \in Sent
  BY DEF YieldInv, AmendFits
<1>2. /\ DOMAIN a = DOMAIN amend /\ a.pc = pc /\ a.id = amend.id /\ a.before = amend.before
      /\ AmendFields \subseteq DOMAIN a
  BY <1>1 DEF AmendFields
<1> HIDE DEF a
<1>3. AmendFits(a, {amend.id})
  BY <1>1, <1>2 DEF AmendFits, AmendFields
<1> QED BY <1>2, <1>3 DEF a

LEMMA NoAmendFits ==
  /\ GatePart!NoAmend.pc = "idle" /\ \A moved : AmendFits(GatePart!NoAmend, moved)
<1>1. GatePart!NoAmend.pc = "idle" /\ "pc" \in DOMAIN GatePart!NoAmend
  BY DEF GatePart!NoAmend
<1> QED BY <1>1 DEF AmendFits, BeforeSend

\* An amendment is checked on an order that none is open for.
LEMMA ChecksKeep ==
  ASSUME YieldInv, NEW id \in Ids, NEW size, NEW price,
         size # GatePart!None \/ price # GatePart!None, GatePart!AmendChecks(id, size, price)
  PROVE  YieldInv'
<1> DEFINE a == [pc |-> "recording", id |-> id, size |-> size, price |-> price,
                 before |-> cancels]
<1>1. /\ orders[id].status \in GatePart!WorkingStatuses /\ amend' = a
      /\ UNCHANGED <<orders, submitAt, cancels, kill, gateWire, reports, late>>
  BY DEF GatePart!AmendChecks
<1>2. /\ Calm(orders[id], submitAt[id]) /\ IsStream(reports[id])
      /\ orders' = [orders EXCEPT ![id] = orders[id]]
      /\ submitAt' = [submitAt EXCEPT ![id] = submitAt[id]]
      /\ reports' = [reports EXCEPT ![id] = reports[id]]
      /\ id \notin late.revived => ShowsAmend(orders[id], gateWire, reports[id], id)
  BY <1>1, OrderRests
<1>3. submitAt[id] \in Sent
  <2>1. GatePart!NoOrder.status = "NONE"
    BY DEF GatePart!NoOrder
  <2> QED BY <1>1, <1>2, <2>1 DEF Calm, SendPcs, Sent, GatePart!WorkingStatuses
<1>4. id \notin late.revived => ~IsOpen(gateWire, reports[id], id)
  BY <1>1, <1>2 DEF ShowsAmend, Hanging, GatePart!WorkingStatuses, GatePart!Terminal,
                    GatePart!PendingStatuses
<1>5. /\ DOMAIN a = AmendFields /\ a.pc = "recording" /\ a.id = id /\ a.size = size
      /\ a.price = price /\ a.before = cancels
  BY DEF AmendFields
<1> HIDE DEF a
<1>6. AmendFits(a, {id})
  BY <1>3, <1>5 DEF AmendFits, AmendFields
<1>7. /\ AmendFits(amend', {id}) /\ "memory" \in DOMAIN kill'
      /\ gateWire' = gateWire /\ cancels' = cancels /\ amend'.before = cancels'
      /\ late' = late
  BY <1>1, <1>5, <1>6 DEF YieldInv
<1>8. id \notin late'.revived =>
        /\ ShowsAmend(orders[id], gateWire', reports[id], id)
        /\ ~IsOpen(gateWire', reports[id], id)
        /\ Yields(orders[id], id \in cancels' \ amend'.before)
  BY <1>1, <1>2, <1>4, <1>7 DEF Yields, GatePart!WorkingStatuses
<1>9. /\ late.revived \subseteq late'.revived /\ cancels' \ {id} \subseteq cancels
      /\ \A other \in Ids \ {id} : AmendsIn(gateWire', other) = AmendsIn(gateWire, other)
  BY <1>7
<1> QED BY <1>2, <1>3, <1>7, <1>8, <1>9, OrderMoves

\* Only the venue and its stream say what became of an amendment that is not awaited.
LEMMA RecordsKeep ==
  ASSUME YieldInv, \/ GatePart!AmendRecords \/ GatePart!AmendRefused \/ GatePart!AmendDoubts
  PROVE  YieldInv'
<1> DEFINE id == amend.id
<1>1. amend.pc \in {"recording", "refused", "waiting"} /\ amend.pc # "idle"
  BY DEF GatePart!AmendRecords, GatePart!AmendRefused, GatePart!AmendDoubts
<1>2. id \in Ids /\ submitAt[id] \in Sent /\ AmendFits(amend, {})
  BY <1>1 DEF YieldInv, AmendFits
<1> HIDE DEF id
<1>3. /\ Calm(orders[id], submitAt[id]) /\ IsStream(reports[id])
      /\ submitAt = [submitAt EXCEPT ![id] = submitAt[id]]
      /\ reports = [reports EXCEPT ![id] = reports[id]]
      /\ id \notin late.revived => ShowsAmend(orders[id], gateWire, reports[id], id)
  BY <1>2, OrderRests
<1>4. /\ Calm(orders[id], "done")
      /\ amend.pc \in {"recording", "refused"} /\ id \notin late.revived =>
           ~IsOpen(gateWire, reports[id], id)
      /\ amend.pc = "recording" /\ id \notin late.revived =>
           Yields(orders[id], id \in cancels \ amend.before)
  BY <1>2, <1>3, SentCalm DEF AmendFits, BeforeSend, Sent, id
<1>5. ASSUME NEW o, Calm(o, "done"), orders' = [orders EXCEPT ![id] = o],
             UNCHANGED <<submitAt, cancels, kill, gateWire, reports, late>>,
             id \notin late.revived /\ IsOpen(gateWire, reports[id], id) => Hanging(o),
             AmendFits(amend', {id}),
             \/ amend'.pc \notin BeforeSend \cup {"refused"}
             \/ /\ amend.pc = "recording" /\ amend'.before = amend.before
                /\ Barred(orders[id]) => Barred(o)
                /\ orders[id].status # "SUBMITTING" => o.status # "SUBMITTING"
      PROVE  YieldInv'
  <2>1. /\ submitAt' = [submitAt EXCEPT ![id] = submitAt[id]]
        /\ reports' = [reports EXCEPT ![id] = reports[id]] /\ Calm(o, submitAt[id])
        /\ gateWire' = gateWire /\ cancels' = cancels /\ late' = late
        /\ "memory" \in DOMAIN kill'
    BY <1>2, <1>3, <1>5, SentCalm DEF YieldInv, Sent
  <2>2. id \notin late'.revived => ShowsAmend(o, gateWire', reports[id], id)
    BY <1>3, <1>5, <2>1 DEF ShowsAmend
  <2>3. id \notin late'.revived =>
          (amend'.pc \in BeforeSend \cup {"refused"} => ~IsOpen(gateWire', reports[id], id))
    BY <1>4, <1>5, <2>1
  <2>4. id \notin late'.revived =>
          (amend'.pc \in BeforeSend => Yields(o, id \in cancels' \ amend'.before))
    BY <1>4, <1>5, <2>1 DEF Yields
  <2>5. /\ late.revived \subseteq late'.revived /\ cancels' \ {id} \subseteq cancels
        /\ \A other \in Ids \ {id} : AmendsIn(gateWire', other) = AmendsIn(gateWire, other)
    BY <2>1
  <2> QED BY <1>2, <1>3, <1>5, <2>1, <2>2, <2>3, <2>4, <2>5, OrderMoves
<1>6. CASE GatePart!AmendRecords
  <2> DEFINE o == GatePart!Settle(GatePart!ApplyReplaceRequested(orders[id], amend.size,
                                                                 amend.price))
             a == [amend EXCEPT !.pc = "reading"]
  <2>1. /\ orders' = [orders EXCEPT ![id] = o] /\ amend' = a /\ amend.pc = "recording"
        /\ UNCHANGED <<submitAt, cancels, kill, gateWire, reports, late>>
    BY <1>6 DEF GatePart!AmendRecords, GatePart!Put, id
  <2>2. amend.size # GatePart!None \/ amend.price # GatePart!None
    BY <1>2, <2>1 DEF AmendFits
  <2>3. /\ Calm(o, "done") /\ (Barred(orders[id]) => Barred(o))
        /\ orders[id].status # "SUBMITTING" => o.status # "SUBMITTING"
    BY <1>4, <2>2, RequestedCalm
  <2>4. AmendFits(a, {id}) /\ a.before = amend.before
    BY <1>1, <2>1, AmendGoesOn DEF BeforeSend, id
  <2> HIDE DEF o, a
  <2>5. AmendFits(amend', {id}) /\ amend'.before = amend.before
    BY <2>1, <2>4
  <2> QED BY <1>4, <1>5, <2>1, <2>3, <2>5
<1>7. CASE GatePart!AmendRefused
  <2> DEFINE o == GatePart!Settle(GatePart!ApplyReplaceRejected(orders[id]))
  <2>1. /\ orders' = [orders EXCEPT ![id] = o] /\ amend' = GatePart!NoAmend
        /\ amend.pc = "refused"
        /\ UNCHANGED <<submitAt, cancels, kill, gateWire, reports, late>>
    BY <1>7 DEF GatePart!AmendRefused, GatePart!Put, id
  <2>2. Calm(o, "done")
    BY <1>4, UnreplacedCalm
  <2> HIDE DEF o
  <2>3. AmendFits(amend', {id}) /\ amend'.pc = "idle"
    BY <2>1, NoAmendFits
  <2> QED BY <1>4, <1>5, <2>1, <2>2, <2>3 DEF BeforeSend
<1>8. CASE GatePart!AmendDoubts
  <2> DEFINE o == GatePart!Settle(GatePart!Transition(orders[id],
                                                      GatePart!OutcomeUnknownTable))
  <2>1. /\ orders' = [orders EXCEPT ![id] = o] /\ amend' = GatePart!NoAmend
        /\ UNCHANGED <<submitAt, cancels, kill, gateWire, reports, late>>
    BY <1>8 DEF GatePart!AmendDoubts, GatePart!Moves, GatePart!Put, id
  <2>2. Calm(o, "done") /\ Hanging(o)
    BY <1>4, DoubtFollows DEF Follows
  <2> HIDE DEF o
  <2>3. AmendFits(amend', {id}) /\ amend'.pc = "idle"
    BY <2>1, NoAmendFits
  <2> QED BY <1>5, <2>1, <2>2, <2>3 DEF BeforeSend
<1> QED BY <1>6, <1>7, <1>8

\* The switch is read, and the amendment goes out on an order that has asked for its terms.
LEMMA DecidesKeep ==
  ASSUME YieldInv, GatePart!AmendReads \/ GatePart!AmendDecides
  PROVE  YieldInv'
<1> DEFINE id == amend.id
<1>1. amend.pc \in {"reading", "deciding"} /\ amend.pc # "idle"
  BY DEF GatePart!AmendReads, GatePart!AmendDecides
<1>2. id \in Ids /\ submitAt[id] \in Sent /\ AmendFits(amend, {})
  BY <1>1 DEF YieldInv, AmendFits
<1> HIDE DEF id
<1>3. /\ Calm(orders[id], submitAt[id]) /\ IsStream(reports[id])
      /\ orders = [orders EXCEPT ![id] = orders[id]]
      /\ submitAt = [submitAt EXCEPT ![id] = submitAt[id]]
      /\ reports = [reports EXCEPT ![id] = reports[id]]
      /\ id \notin late.revived => ShowsAmend(orders[id], gateWire, reports[id], id)
  BY <1>2, OrderRests
<1>4. id \notin late.revived =>
        /\ ~IsOpen(gateWire, reports[id], id)
        /\ Yields(orders[id], id \in cancels \ amend.before)
  BY <1>1, <1>2 DEF AmendFits, BeforeSend, id
<1>5. ASSUME UNCHANGED <<orders, submitAt, cancels, reports, late>>, "memory" \in DOMAIN kill',
             id \notin late.revived => ShowsAmend(orders[id], gateWire', reports[id], id),
             \A other \in Ids \ {id} : AmendsIn(gateWire', other) = AmendsIn(gateWire, other),
             AmendFits(amend', {id}),
             \/ amend'.pc \notin BeforeSend \cup {"refused"}
             \/ /\ gateWire' = gateWire
                /\ amend'.pc \in BeforeSend => amend'.before = amend.before
      PROVE  YieldInv'
  <2>1. /\ orders' = [orders EXCEPT ![id] = orders[id]]
        /\ submitAt' = [submitAt EXCEPT ![id] = submitAt[id]]
        /\ reports' = [reports EXCEPT ![id] = reports[id]] /\ cancels' = cancels
        /\ late' = late
    BY <1>3, <1>5
  <2>2. id \notin late'.revived =>
          (amend'.pc \in BeforeSend \cup {"refused"} => ~IsOpen(gateWire', reports[id], id))
    BY <1>4, <1>5, <2>1
  <2>3. id \notin late'.revived =>
          (amend'.pc \in BeforeSend => Yields(orders[id], id \in cancels' \ amend'.before))
    BY <1>4, <1>5, <2>1
  <2>4. late.revived \subseteq late'.revived /\ cancels' \ {id} \subseteq cancels
    BY <2>1
  <2> QED BY <1>2, <1>3, <1>5, <2>1, <2>2, <2>3, <2>4, OrderMoves
<1>6. CASE GatePart!AmendReads
  <2> DEFINE a == [amend EXCEPT !.pc = "deciding"]
  <2>1. /\ amend' = a /\ "memory" \in DOMAIN kill' /\ gateWire' = gateWire
        /\ UNCHANGED <<orders, submitAt, cancels, reports, late>>
    BY <1>6 DEF GatePart!AmendReads, YieldInv
  <2>2. amend.pc \in BeforeSend
    BY <1>6 DEF GatePart!AmendReads, BeforeSend
  <2>3. AmendFits(a, {id}) /\ a.before = amend.before
    BY <1>1, <2>2, AmendGoesOn DEF id
  <2> HIDE DEF a
  <2>4. AmendFits(amend', {id}) /\ amend'.before = amend.before
    BY <2>1, <2>3
  <2>5. id \notin late.revived => ShowsAmend(orders[id], gateWire', reports[id], id)
    BY <1>3, <2>1
  <2>6. \A other \in Ids \ {id} : AmendsIn(gateWire', other) = AmendsIn(gateWire, other)
    BY <2>1
  <2> QED BY <1>5, <2>1, <2>4, <2>5, <2>6
<1>7. CASE GatePart!AmendDecides
  <2> DEFINE m == [kind |-> "amend", id |-> id, size |-> amend.size, price |-> amend.price]
             going == [amend EXCEPT !.pc = "waiting"]
             stopped == [amend EXCEPT !.pc = "refused"]
  <2>1. /\ UNCHANGED <<orders, submitAt, cancels, reports, late>> /\ "memory" \in DOMAIN kill'
        /\ \/ /\ orders[id].status = "PENDING_REPLACE"
              /\ gateWire' = gateWire \cup {m} /\ amend' = going
           \/ gateWire' = gateWire /\ amend' \in {stopped, GatePart!NoAmend}
    BY <1>7 DEF GatePart!AmendDecides, GatePart!MaySend, YieldInv, id
  <2>2. /\ AmendFits(going, {id}) /\ going.pc = "waiting"
        /\ AmendFits(stopped, {id}) /\ stopped.pc = "refused"
    <3>1. \A pc \in {"waiting", "refused"} : pc \notin BeforeSend
      BY DEF BeforeSend
    <3> QED BY <1>1, <3>1, AmendGoesOn DEF id
  <2>3. m.kind = "amend" /\ m.id = id
    OBVIOUS
  <2> HIDE DEF m, going, stopped
  <2>4. CASE /\ orders[id].status = "PENDING_REPLACE"
             /\ gateWire' = gateWire \cup {m} /\ amend' = going
    <3>1. \A other \in Ids \ {id} : AmendsIn(gateWire', other) = AmendsIn(gateWire, other)
      BY <2>3, <2>4 DEF AmendsIn
    <3>2. Hanging(orders[id])
      BY <1>3, <2>4 DEF Calm, Hanging, GatePart!PendingStatuses
    <3>3. id \notin late.revived => ShowsAmend(orders[id], gateWire', reports[id], id)
      <4>1. id \notin late.revived => AmendsIn(gateWire', id) = {m} /\ ReplacedIn(reports[id]) = {}
        BY <1>4, <2>3, <2>4 DEF IsOpen, AmendsIn
      <4> QED BY <3>2, <4>1 DEF ShowsAmend, OneIsOpen
    <3>4. AmendFits(amend', {id}) /\ amend'.pc \notin BeforeSend \cup {"refused"}
      BY <2>2, <2>4 DEF BeforeSend
    <3> QED BY <1>5, <2>1, <3>1, <3>3, <3>4
  <2>5. CASE gateWire' = gateWire /\ amend' \in {stopped, GatePart!NoAmend}
    <3>1. AmendFits(amend', {id}) /\ amend'.pc \notin BeforeSend
      BY <2>2, <2>5, NoAmendFits DEF BeforeSend
    <3>2. id \notin late.revived => ShowsAmend(orders[id], gateWire', reports[id], id)
      BY <1>3, <2>5
    <3>3. \A other \in Ids \ {id} : AmendsIn(gateWire', other) = AmendsIn(gateWire, other)
      BY <2>5
    <3> QED BY <1>5, <2>1, <2>5, <3>1, <3>2, <3>3
  <2> QED BY <2>1, <2>4, <2>5
<1> QED BY <1>6, <1>7

\* The venue takes an amendment, and either tells of it or refuses it: it is open no more
\* but by the report.
LEMMA AnswerKeeps ==
  ASSUME YieldInv, NEW id \in Ids, GatePart!TakesAmend(id) PROVE YieldInv'
<1>1. PICK m \in gateWire :
        /\ m.kind = "amend" /\ m.id = id /\ gateWire' = gateWire \ {m}
        /\ \/ /\ reports' = [reports EXCEPT ![id] = Append(reports[id],
                               [kind |-> "replaced", size |-> m.size, price |-> m.price])]
              /\ amend' = IF GatePart!Awaits(id) THEN GatePart!NoAmend ELSE amend
           \/ /\ reports' = reports
              /\ amend' = IF GatePart!Awaits(id) THEN [amend EXCEPT !.pc = "refused"] ELSE amend
        /\ UNCHANGED <<orders, submitAt, cancels, kill, late>>
  BY DEF GatePart!TakesAmend, GatePart!Reports
<1>2. m \in AmendsIn(gateWire, id)
  BY <1>1 DEF AmendsIn
<1>3. /\ Calm(orders[id], submitAt[id]) /\ IsStream(reports[id])
      /\ orders' = [orders EXCEPT ![id] = orders[id]]
      /\ submitAt' = [submitAt EXCEPT ![id] = submitAt[id]]
      /\ reports = [reports EXCEPT ![id] = reports[id]]
      /\ AmendFits(amend, {id})
      /\ id \in cancels' => submitAt[id] \in Sent
      /\ late.revived \subseteq late'.revived /\ cancels' \ {id} \subseteq cancels
      /\ "memory" \in DOMAIN kill'
      /\ \A other \in Ids \ {id} : AmendsIn(gateWire', other) = AmendsIn(gateWire, other)
  BY <1>1, OrderRests DEF AmendsIn, YieldInv
<1>4. id \notin late'.revived =>
        /\ amend.pc \in BeforeSend \cup {"refused"} => amend.id # id
        /\ AmendsIn(gateWire', id) = {} /\ ReplacedIn(reports[id]) = {}
        /\ Hanging(orders[id])
  <2>1. SUFFICES ASSUME id \notin late'.revived
                 PROVE  /\ amend.pc \in BeforeSend \cup {"refused"} => amend.id # id
                        /\ AmendsIn(gateWire', id) = {} /\ ReplacedIn(reports[id]) = {}
                        /\ Hanging(orders[id])
    OBVIOUS
  <2>2. /\ ShowsAmend(orders[id], gateWire, reports[id], id) /\ IsOpen(gateWire, reports[id], id)
        /\ amend.pc \in BeforeSend \cup {"refused"} => amend.id # id
    BY <1>1, <1>2, <2>1, OrderRests DEF IsOpen
  <2>3. AmendsIn(gateWire, id) = {m} /\ ReplacedIn(reports[id]) = {}
    BY <1>2, <2>2 DEF ShowsAmend, OneIsOpen
  <2> QED BY <1>1, <2>2, <2>3 DEF ShowsAmend, AmendsIn
<1>5. ASSUME NEW log, IsStream(log), AmendFits(amend', {id}),
             reports' = [reports EXCEPT ![id] = log],
             id \notin late'.revived =>
               /\ \A i, j \in ReplacedIn(log) : i = j
               /\ amend'.pc \in BeforeSend => amend'.id # id
               /\ amend'.pc = "refused" /\ amend'.id = id => ReplacedIn(log) = {}
      PROVE  YieldInv'
  <2>1. id \notin late'.revived => ShowsAmend(orders[id], gateWire', log, id)
    BY <1>4, <1>5 DEF ShowsAmend, OneIsOpen
  <2>2. id \notin late'.revived =>
          /\ amend'.pc \in BeforeSend \cup {"refused"} /\ amend'.id = id =>
               ~IsOpen(gateWire', log, id)
          /\ amend'.pc \in BeforeSend => amend'.id # id
    BY <1>4, <1>5 DEF IsOpen
  <2> QED BY <1>3, <1>5, <2>1, <2>2, OrderMoves
<1>6. /\ AmendFits(GatePart!NoAmend, {id})
      /\ GatePart!NoAmend.pc \notin BeforeSend \cup {"refused"}
  BY NoAmendFits DEF BeforeSend
<1>7. CASE /\ reports' = [reports EXCEPT ![id] = Append(reports[id],
                            [kind |-> "replaced", size |-> m.size, price |-> m.price])]
           /\ amend' = IF GatePart!Awaits(id) THEN GatePart!NoAmend ELSE amend
  <2> DEFINE report == [kind |-> "replaced", size |-> m.size, price |-> m.price]
             log == Append(reports[id], report)
  <2>1. report.kind = "replaced"
    OBVIOUS
  <2>2. IsStream(log) /\ (id \notin late'.revived => \A i, j \in ReplacedIn(log) : i = j)
    <3> HIDE DEF report
    <3> QED BY <1>3, <1>4, <2>1, StreamGrows DEF ReportKinds
  <2>3. reports' = [reports EXCEPT ![id] = log] /\ amend' \in {GatePart!NoAmend, amend}
    BY <1>7
  <2>4. /\ AmendFits(amend', {id})
        /\ id \notin late'.revived =>
             (amend'.pc \in BeforeSend \cup {"refused"} => amend'.id # id)
    BY <1>3, <1>4, <1>6, <2>3
  <2> HIDE DEF log
  <2> QED BY <1>5, <2>2, <2>3, <2>4
<1>8. CASE /\ reports' = reports
           /\ amend' = IF GatePart!Awaits(id) THEN [amend EXCEPT !.pc = "refused"] ELSE amend
  <2>1. reports' = [reports EXCEPT ![id] = reports[id]]
    BY <1>3, <1>8
  <2>2. /\ AmendFits(amend', {id})
        /\ id \notin late'.revived => (amend'.pc \in BeforeSend => amend'.id # id)
    <3>1. CASE GatePart!Awaits(id)
      <4>1. amend.pc = "waiting" /\ amend.id = id /\ amend.pc # "idle"
        BY <3>1 DEF GatePart!Awaits
      <4>2. "refused" \notin BeforeSend
        BY DEF BeforeSend
      <4> DEFINE a == [amend EXCEPT !.pc = "refused"]
      <4>3. a.pc = "refused" /\ AmendFits(a, {id})
        BY <4>1, <4>2, AmendGoesOn
      <4>4. amend' = a
        BY <1>8, <3>1
      <4> HIDE DEF a
      <4> QED BY <4>2, <4>3, <4>4
    <3>2. CASE ~GatePart!Awaits(id)
      BY <1>3, <1>4, <1>8, <3>2
    <3> QED BY <3>1, <3>2
  <2> QED BY <1>3, <1>4, <1>5, <2>1, <2>2
<1> QED BY <1>1, <1>7, <1>8

\* Nothing is heard of an order the venue was not called for: it has no request there, no
\* order and no report.
NewOrderOf(id) == [kind |-> "new", id |-> id]
Called(id, requests, there, log) ==
  NewOrderOf(id) \in requests \/ there.live \/ log # <<>>
SentInv ==
  /\ submitAt = [id \in Ids |-> submitAt[id]] /\ reports = [id \in Ids |-> reports[id]]
  /\ venue = [id \in Ids |-> venue[id]]
  /\ \A id \in Ids : "live" \in DOMAIN venue[id]
  /\ \A id \in Ids : Called(id, gateWire, venue[id], reports[id]) => submitAt[id] \in Sent

\* One order moves: the venue was called for it, or knows nothing of it.
LEMMA CallMoves ==
  ASSUME SentInv, NEW id \in Ids, NEW pc, NEW there, NEW log,
         submitAt' = [submitAt EXCEPT ![id] = pc], venue' = [venue EXCEPT ![id] = there],
         reports' = [reports EXCEPT ![id] = log], "live" \in DOMAIN there,
         \A other \in Ids \ {id} : NewOrderOf(other) \in gateWire' => NewOrderOf(other) \in gateWire,
         pc \in Sent \/ ~Called(id, gateWire', there, log)
  PROVE  SentInv'
<1>1. /\ submitAt' = [x \in Ids |-> submitAt'[x]] /\ reports' = [x \in Ids |-> reports'[x]]
      /\ venue' = [x \in Ids |-> venue'[x]]
      /\ submitAt'[id] = pc /\ venue'[id] = there /\ reports'[id] = log
      /\ \A x \in Ids \ {id} : /\ submitAt'[x] = submitAt[x] /\ venue'[x] = venue[x]
                               /\ reports'[x] = reports[x]
  BY DEF SentInv
<1>2. \A x \in Ids : "live" \in DOMAIN venue'[x]
  BY <1>1 DEF SentInv
<1>3. ASSUME NEW x \in Ids, Called(x, gateWire', venue'[x], reports'[x])
      PROVE  submitAt'[x] \in Sent
  <2>1. CASE x = id
    BY <1>1, <1>3, <2>1
  <2>2. CASE x # id
    <3>1. Called(x, gateWire, venue[x], reports[x])
      BY <1>1, <1>3, <2>2 DEF Called
    <3> QED BY <1>1, <2>2, <3>1 DEF SentInv
  <2> QED BY <2>1, <2>2
<1> QED BY <1>1, <1>2, <1>3 DEF SentInv, Called, NewOrderOf

\* Nothing moves at the venue, and no new order is on its way.
LEMMA CallRests ==
  ASSUME SentInv, UNCHANGED <<submitAt, venue, reports>>,
         \A id \in Ids : NewOrderOf(id) \in gateWire' => NewOrderOf(id) \in gateWire
  PROVE  SentInv'
BY DEF SentInv, Called, NewOrderOf

LEMMA SubmitsAreSent ==
  ASSUME SentInv, NEW id \in Ids,
         \/ GatePart!SubmitChecks(id) \/ GatePart!SubmitRecords(id)
         \/ GatePart!SubmitPlaces(id) \/ GatePart!SubmitAnswered(id)
         \/ GatePart!SubmitDoubts(id) \/ GatePart!TakesNew(id)
  PROVE  SentInv'
<1>1. /\ venue = [venue EXCEPT ![id] = venue[id]] /\ "live" \in DOMAIN venue[id]
      /\ reports = [reports EXCEPT ![id] = reports[id]]
      /\ submitAt = [submitAt EXCEPT ![id] = submitAt[id]]
      /\ Called(id, gateWire, venue[id], reports[id]) => submitAt[id] \in Sent
  BY DEF SentInv
<1>2. CASE GatePart!SubmitChecks(id) \/ GatePart!SubmitRecords(id)
  <2>1. /\ submitAt[id] \notin Sent /\ gateWire' = gateWire
        /\ UNCHANGED <<venue, reports>>
        /\ \E pc : submitAt' = [submitAt EXCEPT ![id] = pc]
    BY <1>2 DEF GatePart!SubmitChecks, GatePart!SubmitRecords, Sent
  <2>2. ~Called(id, gateWire', venue[id], reports[id])
    BY <1>1, <2>1
  <2> QED BY <1>1, <2>1, <2>2, CallMoves
<1>3. CASE GatePart!SubmitPlaces(id)
  <2> DEFINE m == NewOrderOf(id)
  <2>1. /\ UNCHANGED <<venue, reports>> /\ gateWire' \in {gateWire, gateWire \cup {m}}
        /\ \E pc \in Sent : submitAt' = [submitAt EXCEPT ![id] = pc]
    BY <1>3 DEF GatePart!SubmitPlaces, Sent, NewOrderOf
  <2>2. \A other \in Ids \ {id} : NewOrderOf(other) # m
    BY DEF NewOrderOf
  <2> HIDE DEF m
  <2>3. \A other \in Ids \ {id} : NewOrderOf(other) \in gateWire' => NewOrderOf(other) \in gateWire
    BY <2>1, <2>2
  <2> QED BY <1>1, <2>1, <2>3, CallMoves
<1>4. CASE GatePart!SubmitAnswered(id) \/ GatePart!SubmitDoubts(id)
  <2>1. /\ UNCHANGED <<venue, reports, gateWire>>
        /\ \E pc \in Sent : submitAt' = [submitAt EXCEPT ![id] = pc]
    BY <1>4 DEF GatePart!SubmitAnswered, GatePart!SubmitDoubts, Sent
  <2> QED BY <1>1, <2>1, CallMoves
<1>5. CASE GatePart!TakesNew(id)
  <2> DEFINE there == [live |-> TRUE, filled |-> 0, quantity |-> request[id].size,
                       price |-> request[id].price]
             longer == Append(reports[id], [kind |-> "ack"])
  <2>1. /\ NewOrderOf(id) \in gateWire /\ gateWire' = gateWire \ {NewOrderOf(id)}
        /\ \/ /\ venue' = [venue EXCEPT ![id] = there]
              /\ reports' = [reports EXCEPT ![id] = longer]
           \/ UNCHANGED <<venue, reports>>
        /\ \E how \in {"accepted", "refused"} : GatePart!AnswerPlace(id, how)
    BY <1>5 DEF GatePart!TakesNew, GatePart!Reports, NewOrderOf
  <2>2. submitAt[id] \in Sent
    BY <1>1, <2>1 DEF Called
  <2>3. \E pc \in Sent : submitAt' = [submitAt EXCEPT ![id] = pc]
    BY <1>1, <2>1, <2>2 DEF GatePart!AnswerPlace, Sent
  <2>4. "live" \in DOMAIN there
    OBVIOUS
  <2> HIDE DEF there, longer
  <2>5. \A other \in Ids \ {id} : NewOrderOf(other) \in gateWire' => NewOrderOf(other) \in gateWire
    BY <2>1
  <2>6. PICK pc \in Sent : submitAt' = [submitAt EXCEPT ![id] = pc]
    BY <2>3
  <2>7. CASE venue' = [venue EXCEPT ![id] = there] /\ reports' = [reports EXCEPT ![id] = longer]
    BY <2>4, <2>5, <2>6, <2>7, CallMoves
  <2>8. CASE UNCHANGED <<venue, reports>>
    <3>1. venue' = [venue EXCEPT ![id] = venue[id]] /\ reports' = [reports EXCEPT ![id] = reports[id]]
      BY <1>1, <2>8
    <3> QED BY <1>1, <2>5, <2>6, <3>1, CallMoves
  <2> QED BY <2>1, <2>7, <2>8
<1> QED BY <1>2, <1>3, <1>4, <1>5

LEMMA SentKept ==
  ASSUME SentInv, [GatePart!Next]_(GatePart!gateVars) PROVE SentInv'
<1>1. ASSUME NEW m, m.kind # "new", gateWire' \in {gateWire, gateWire \cup {m}, gateWire \ {m}}
      PROVE  \A id \in Ids : NewOrderOf(id) \in gateWire' => NewOrderOf(id) \in gateWire
  BY <1>1 DEF NewOrderOf
<1>2. CASE \/ GatePart!Engage \/ GatePart!AmendRecords \/ GatePart!AmendReads
           \/ GatePart!AmendRefused \/ GatePart!AmendDoubts \/ UNCHANGED GatePart!gateVars
           \/ \E id \in Ids : \/ GatePart!CancelDoubts(id)
                              \/ \E size, price : GatePart!AmendChecks(id, size, price)
  <2>1. UNCHANGED <<submitAt, venue, reports, gateWire>>
    BY <1>2 DEF GatePart!Engage, GatePart!AmendRecords, GatePart!AmendReads,
                GatePart!AmendRefused, GatePart!AmendDoubts, GatePart!gateVars,
                GatePart!CancelDoubts, GatePart!AmendChecks
  <2> QED BY <2>1, CallRests
<1>3. CASE GatePart!AmendDecides
  <2> DEFINE m == [kind |-> "amend", id |-> amend.id, size |-> amend.size,
                   price |-> amend.price]
  <2>1. UNCHANGED <<submitAt, venue, reports>> /\ gateWire' \in {gateWire, gateWire \cup {m}}
    BY <1>3 DEF GatePart!AmendDecides
  <2>2. m.kind # "new"
    OBVIOUS
  <2> HIDE DEF m
  <2> QED BY <1>1, <2>1, <2>2, CallRests
<1>4. ASSUME NEW id \in Ids PROVE GatePart!Cancel(id) => SentInv'
  <2> DEFINE m == [kind |-> "cancel", id |-> id]
  <2>1. SUFFICES ASSUME GatePart!Cancel(id) PROVE SentInv'
    OBVIOUS
  <2>2. UNCHANGED <<submitAt, venue, reports>> /\ gateWire' = gateWire \cup {m}
    BY <2>1 DEF GatePart!Cancel
  <2>3. m.kind # "new"
    OBVIOUS
  <2> HIDE DEF m
  <2> QED BY <1>1, <2>2, <2>3, CallRests
<1>5. ASSUME NEW id \in Ids, NEW m, m.kind # "new",
             gateWire' \in {gateWire, gateWire \cup {m}, gateWire \ {m}},
             submitAt' = submitAt, submitAt[id] \in Sent, NEW there, "live" \in DOMAIN there,
             venue' = [venue EXCEPT ![id] = there], NEW log, reports' = [reports EXCEPT ![id] = log]
      PROVE  SentInv'
  <2>1. submitAt' = [submitAt EXCEPT ![id] = submitAt[id]]
    BY <1>5 DEF SentInv
  <2>2. \A other \in Ids \ {id} : NewOrderOf(other) \in gateWire' => NewOrderOf(other) \in gateWire
    BY <1>1, <1>5
  <2> QED BY <1>5, <2>1, <2>2, CallMoves
<1>6. ASSUME NEW id \in Ids
      PROVE  /\ venue = [venue EXCEPT ![id] = venue[id]] /\ "live" \in DOMAIN venue[id]
             /\ reports = [reports EXCEPT ![id] = reports[id]]
             /\ venue[id].live \/ reports[id] # <<>> => submitAt[id] \in Sent
  BY <1>6 DEF SentInv, Called
<1>7. ASSUME NEW id \in Ids PROVE GatePart!Hears(id) \/ GatePart!Executes(id) => SentInv'
  <2> DEFINE m == [kind |-> "none"]
             filled == venue[id].filled + 1
             still == filled < venue[id].quantity
             there == [venue[id] EXCEPT !.filled = filled, !.live = still]
  <2>1. m.kind # "new"
    OBVIOUS
  <2>2. GatePart!Hears(id) =>
          /\ UNCHANGED <<submitAt, venue, gateWire>> /\ reports[id] # <<>>
          /\ \E log : reports' = [reports EXCEPT ![id] = log]
    BY DEF GatePart!Hears
  <2>3. GatePart!Executes(id) =>
          /\ UNCHANGED <<submitAt, gateWire>> /\ venue[id].live
          /\ venue' = [venue EXCEPT ![id] = there]
          /\ \E log : reports' = [reports EXCEPT ![id] = log]
    BY <1>6 DEF GatePart!Executes, GatePart!Reports
  <2>4. "live" \in DOMAIN there
    BY <1>6
  <2> HIDE DEF m, there
  <2>5. GatePart!Hears(id) => SentInv'
    BY <1>5, <1>6, <2>1, <2>2
  <2>6. GatePart!Executes(id) => SentInv'
    BY <1>5, <1>6, <2>1, <2>3, <2>4
  <2> QED BY <2>5, <2>6
<1>8. ASSUME NEW id \in Ids PROVE GatePart!TakesAmend(id) => SentInv'
  <2>1. SUFFICES ASSUME GatePart!TakesAmend(id) PROVE SentInv'
    OBVIOUS
  <2>2. PICK m \in gateWire :
          /\ m.kind # "new" /\ gateWire' = gateWire \ {m} /\ submitAt' = submitAt
          /\ \/ /\ venue[id].live
                /\ \E quantity, price :
                     venue' = [venue EXCEPT ![id].quantity = quantity, ![id].price = price]
                /\ \E log : reports' = [reports EXCEPT ![id] = log]
             \/ UNCHANGED <<venue, reports>>
    <3>1. PICK m \in gateWire :
            /\ m.kind = "amend" /\ gateWire' = gateWire \ {m} /\ submitAt' = submitAt
            /\ \/ /\ venue[id].live
                  /\ venue' = [venue EXCEPT
                       ![id].quantity = GatePart!FirstGiven(m.size, @, GatePart!None),
                       ![id].price = GatePart!FirstGiven(m.price, @, GatePart!None)]
                  /\ reports' = [reports EXCEPT ![id] = Append(@,
                       [kind |-> "replaced", size |-> m.size, price |-> m.price])]
               \/ UNCHANGED <<venue, reports>>
      BY <2>1, Zenon DEF GatePart!TakesAmend, GatePart!Reports
    <3>2. ASSUME venue' = [venue EXCEPT
                   ![id].quantity = GatePart!FirstGiven(m.size, @, GatePart!None),
                   ![id].price = GatePart!FirstGiven(m.price, @, GatePart!None)]
          PROVE  \E quantity, price :
                   venue' = [venue EXCEPT ![id].quantity = quantity, ![id].price = price]
      BY <3>2
    <3>3. ASSUME reports' = [reports EXCEPT ![id] = Append(@,
                   [kind |-> "replaced", size |-> m.size, price |-> m.price])]
          PROVE  \E log : reports' = [reports EXCEPT ![id] = log]
      BY <3>3
    <3>4. m.kind # "new"
      BY <3>1
    <3> QED BY <3>1, <3>2, <3>3, <3>4
  <2>3. CASE UNCHANGED <<venue, reports>>
    BY <1>1, <2>2, <2>3, CallRests
  <2>4. CASE venue[id].live /\ ~UNCHANGED <<venue, reports>>
    <3>1. PICK quantity, price :
            venue' = [venue EXCEPT ![id].quantity = quantity, ![id].price = price]
      BY <2>2, <2>4
    <3> DEFINE there == [venue[id] EXCEPT !.quantity = quantity, !.price = price]
    <3>2. venue' = [venue EXCEPT ![id] = there]
      BY <1>6, <3>1
    <3>3. "live" \in DOMAIN there
      BY <1>6
    <3> HIDE DEF there
    <3> QED BY <1>5, <1>6, <2>2, <2>4, <3>2, <3>3
  <2> QED BY <2>2, <2>3, <2>4
<1>9. ASSUME NEW id \in Ids PROVE GatePart!TakesCancel(id) => SentInv'
  <2> DEFINE m == [kind |-> "cancel", id |-> id]
             there == [venue[id] EXCEPT !.live = FALSE]
  <2>1. SUFFICES ASSUME GatePart!TakesCancel(id) PROVE SentInv'
    OBVIOUS
  <2>2. /\ gateWire' = gateWire \ {m} /\ submitAt' = submitAt
        /\ \/ /\ venue[id].live /\ venue' = [venue EXCEPT ![id] = there]
              /\ \E log : reports' = [reports EXCEPT ![id] = log]
           \/ UNCHANGED <<venue, reports>>
    BY <1>6, <2>1 DEF GatePart!TakesCancel, GatePart!Reports
  <2>3. m.kind # "new" /\ "live" \in DOMAIN there
    BY <1>6
  <2> HIDE DEF m, there
  <2>4. CASE UNCHANGED <<venue, reports>>
    BY <1>1, <2>2, <2>3, <2>4, CallRests
  <2>5. CASE /\ venue[id].live /\ venue' = [venue EXCEPT ![id] = there]
             /\ \E log : reports' = [reports EXCEPT ![id] = log]
    BY <1>5, <1>6, <2>2, <2>3, <2>5
  <2> QED BY <2>2, <2>4, <2>5
<1> QED BY <1>2, <1>3, <1>4, <1>7, <1>8, <1>9, SubmitsAreSent DEF GatePart!Next

LEMMA YieldKept ==
  ASSUME YieldInv, SentInv, [GatePart!Next]_(GatePart!gateVars) PROVE YieldInv'
<1>1. CASE GatePart!Engage \/ UNCHANGED GatePart!gateVars
  <2>1. UNCHANGED <<orders, submitAt, amend, cancels, gateWire, reports, late>>
    BY <1>1 DEF GatePart!Engage, GatePart!gateVars
  <2>2. "memory" \in DOMAIN kill'
    BY <1>1 DEF GatePart!Engage, GatePart!gateVars, YieldInv
  <2>3. /\ \A id \in Ids : Calm(orders'[id], submitAt'[id]) /\ IsStream(reports'[id])
        /\ \A id \in Ids \ late'.revived :
             ShowsAmend(orders'[id], gateWire', reports'[id], id)
    BY <2>1 DEF YieldInv
  <2>4. AmendFits(amend, {})'
    BY <2>1 DEF YieldInv, AmendFits, IsOpen, AmendsIn, ReplacedIn, Yields, Barred
  <2>5. \A id \in cancels' : id \in Ids /\ submitAt'[id] \in Sent
    BY <2>1 DEF YieldInv
  <2>6. /\ orders' = [x \in Ids |-> orders'[x]] /\ submitAt' = [x \in Ids |-> submitAt'[x]]
        /\ reports' = [x \in Ids |-> reports'[x]]
    BY <2>1 DEF YieldInv
  <2> QED BY <2>2, <2>3, <2>4, <2>5, <2>6
          DEF YieldInv, ShowsAmend, Calm, Whole, IsStream, OneIsOpen, IsOpen, AmendsIn,
              ReplacedIn, Hanging, GatePart!HasPendingTerms
<1>2. ASSUME NEW id \in Ids, NEW size, NEW price,
             size # GatePart!None \/ price # GatePart!None,
             GatePart!AmendChecks(id, size, price)
      PROVE  YieldInv'
  BY <1>2, ChecksKeep
<1>3. ASSUME NEW id \in Ids, GatePart!Hears(id) PROVE YieldInv'
  <2>1. submitAt[id] \in Sent
    BY <1>3 DEF GatePart!Hears, SentInv, Called
  <2> QED BY <1>3, <2>1, HearsKeep
<1> QED
  BY <1>1, <1>2, <1>3, SubmitsKeep, CancelsKeep, VenueMoves, RecordsKeep, DecidesKeep,
     AnswerKeeps DEF GatePart!Next

\* Nothing but the decision of amend sends an amendment.
LEMMA OnlyDecidesSends ==
  ASSUME [GatePart!Next]_(GatePart!gateVars), GatePart!AmendSent
  PROVE  GatePart!AmendDecides
<1>1. PICK m \in gateWire' \ gateWire : m.kind = "amend"
  BY DEF GatePart!AmendSent
<1>2. ASSUME NEW other, other.kind # "amend" PROVE gateWire' # gateWire \cup {other}
  BY <1>1, <1>2
<1>3. ASSUME NEW other PROVE gateWire' # gateWire \ {other}
  BY <1>1
<1>4. gateWire' # gateWire
  BY <1>1
<1>5. ASSUME NEW id \in Ids
      PROVE  ~(GatePart!SubmitPlaces(id) \/ GatePart!Cancel(id))
  <2>1. ASSUME NEW what \in {"new", "cancel"}
        PROVE  gateWire' # gateWire \cup {[kind |-> what, id |-> id]}
    <3> DEFINE other == [kind |-> what, id |-> id]
    <3>1. other.kind # "amend"
      OBVIOUS
    <3> HIDE DEF other
    <3>2. gateWire' # gateWire \cup {other}
      BY <1>2, <3>1
    <3> QED BY <3>2 DEF other
  <2> QED BY <1>4, <2>1 DEF GatePart!SubmitPlaces, GatePart!Cancel
<1>6. ASSUME NEW id \in Ids
      PROVE  ~(\/ GatePart!TakesNew(id) \/ GatePart!TakesAmend(id) \/ GatePart!TakesCancel(id))
  BY <1>3 DEF GatePart!TakesNew, GatePart!TakesAmend, GatePart!TakesCancel
<1>7. ~(\/ GatePart!Engage \/ GatePart!AmendRecords \/ GatePart!AmendReads
        \/ GatePart!AmendRefused \/ GatePart!AmendDoubts \/ UNCHANGED GatePart!gateVars)
  BY <1>4 DEF GatePart!Engage, GatePart!AmendRecords, GatePart!AmendReads,
              GatePart!AmendRefused, GatePart!AmendDoubts, GatePart!gateVars
<1>8. ASSUME NEW id \in Ids
      PROVE  ~(\/ GatePart!SubmitChecks(id) \/ GatePart!SubmitRecords(id)
               \/ GatePart!SubmitAnswered(id) \/ GatePart!SubmitDoubts(id)
               \/ GatePart!CancelDoubts(id) \/ GatePart!Hears(id) \/ GatePart!Executes(id)
               \/ \E size, price : GatePart!AmendChecks(id, size, price))
  BY <1>4 DEF GatePart!SubmitChecks, GatePart!SubmitRecords, GatePart!SubmitAnswered,
              GatePart!SubmitDoubts, GatePart!CancelDoubts, GatePart!Hears,
              GatePart!Executes, GatePart!AmendChecks
<1> QED BY <1>5, <1>6, <1>7, <1>8 DEF GatePart!Next

\* For any number of orders, cancels, lost answers and amendments, one after another: one goes
\* out only if no cancel of its order was asked since it was checked, and no kill was on record
\* when the switch was read last, or in memory (amend).  The cancel has one exception: an
\* acknowledgement made the order working again when its outcome was unknown.
THEOREM AmendAlwaysYields == GatePart!Spec => AmendYields
<1> DEFINE sent == GatePart!AmendSent
           fine == /\ amend.id \notin cancels \ (amend.before \cup late.revived)
                   /\ ~kill.read /\ ~kill.memory
<1>1. GatePart!Init => YieldInv /\ SentInv
  <2> SUFFICES ASSUME GatePart!Init PROVE YieldInv /\ SentInv
    OBVIOUS
  <2>1. /\ orders = [id \in Ids |-> GatePart!NoOrder] /\ submitAt = [id \in Ids |-> "idle"]
        /\ reports = [id \in Ids |-> <<>>] /\ gateWire = {} /\ cancels = {}
        /\ venue = [id \in Ids |-> GatePart!NotThere] /\ amend = GatePart!NoAmend
        /\ kill = [memory |-> FALSE, journal |-> FALSE, read |-> FALSE]
    BY DEF GatePart!Init
  <2>2. AmendFits(amend, {}) /\ "memory" \in DOMAIN kill
    BY <2>1, NoAmendFits
  <2>3. IsStream(<<>>) /\ ReplacedIn(<<>>) = {}
    <3>1. <<>> \in Seq({}) /\ DOMAIN <<>> = {}
      OBVIOUS
    <3> QED BY <3>1 DEF IsStream, ReplacedIn
  <2>4. Calm(GatePart!NoOrder, "idle")
    BY DEF Calm, SendPcs, Sent, GatePart!NoOrder
  <2>5. \A id \in Ids : /\ Calm(orders[id], submitAt[id]) /\ IsStream(reports[id])
                        /\ ShowsAmend(orders[id], gateWire, reports[id], id)
    BY <2>1, <2>3, <2>4 DEF ShowsAmend, OneIsOpen, IsOpen, AmendsIn
  <2>6. "live" \in DOMAIN GatePart!NotThere /\ ~GatePart!NotThere.live
    BY DEF GatePart!NotThere
  <2>7. SentInv
    BY <2>1, <2>6 DEF SentInv, Called
  <2>8. YieldInv
    BY <2>1, <2>2, <2>5 DEF YieldInv
  <2> QED BY <2>7, <2>8
<1>2. YieldInv /\ SentInv /\ [GatePart!Next]_(GatePart!gateVars) => YieldInv' /\ SentInv'
  BY YieldKept, SentKept
<1>3. ASSUME YieldInv, [GatePart!Next]_(GatePart!gateVars) PROVE sent => fine
  <2> SUFFICES ASSUME sent PROVE fine
    OBVIOUS
  <2>1. GatePart!AmendDecides
    BY <1>3, OnlyDecidesSends
  <2>2. GatePart!MaySend
    BY <2>1 DEF GatePart!AmendDecides, GatePart!AmendSent
  <2>3. amend.pc = "deciding" /\ orders[amend.id].status = "PENDING_REPLACE" /\ ~kill'.memory
    BY <2>1, <2>2 DEF GatePart!AmendDecides, GatePart!MaySend
  <2>4. kill'.memory = (kill.memory \/ kill.read)
    BY <1>3, <2>1 DEF GatePart!AmendDecides, YieldInv
  <2>5. ~Barred(orders[amend.id])
    BY <2>3 DEF Barred, GatePart!Terminal
  <2>6. amend.id \notin cancels \ (amend.before \cup late.revived)
    BY <1>3, <2>3, <2>5 DEF YieldInv, AmendFits, BeforeSend, Yields
  <2> QED BY <2>3, <2>4, <2>6, Zenon
<1>4. YieldInv /\ [GatePart!Next]_(GatePart!gateVars) => [sent => fine]_(GatePart!gateVars)
  BY <1>3
<1> QED BY <1>1, <1>2, <1>4, PTL DEF GatePart!Spec, AmendYields, GatePart!AmendYields
===============================================================================
