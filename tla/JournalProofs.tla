---------------------------- MODULE JournalProofs ----------------------------
(***************************************************************************)
(* Proofs about Journal, for any number of connections and readers, any    *)
(* number of appends, deaths and losses of the anchor file.                *)
(*                                                                         *)
(* A writer works with the head it read when its transaction began, and    *)
(* with the anchor it judged.  WriterInv says why neither is stale when it *)
(* is used: the write lock is held from the reading to the use, so the     *)
(* head is still the newest row, and the anchor is not past it.  ChainInv  *)
(* adds that the anchor, and the one each reader has read, are rows of an  *)
(* unbroken chain, for as long as rows are only appended.  ChangeInv says  *)
(* what a change of history leaves behind: the record that the anchor      *)
(* names is gone for good, so no anchor is replaced over it.               *)
(***************************************************************************)
EXTENDS Journal, SequenceTheorems, TLAPS

RowSet == [seq : Nat, record : Records, prev : Seq(Records), digest : Seq(Records)]

\* What is left of each bound.
BudgetOK == budget \in [appends : Ids, crashes : Nat, anchorLosses : Nat, changes : Nat]

\* A head being used is the newest row's, and an anchor being replaced is not past it.
WriterInv ==
  \A w \in Writers :
    /\ Unchanged /\ at[w] = "inserting" => head[w] = LastRow(rows)
    /\ at[w] = "replacing" => anchor = NoAnchor \/ anchor.seq <= head[w].seq

InChain(named, chain) ==
  named.seq \in DOMAIN chain /\ chain[named.seq].digest = named.digest

\* A writer whose row is committed knows its place in the chain.
Committed(w) ==
  InChain([seq |-> head[w].seq + 1, digest |-> RecordHash(asked[w], head[w].digest)], rows)

\* While rows are only appended, the chain is unbroken and every anchor names a row of it.
ChainInv ==
  Unchanged =>
    /\ VerifyChain(rows)
    /\ anchor = NoAnchor \/ InChain(anchor, rows)
    /\ \A r \in Readers : (seen[r] = NoAnchor \/ InChain(seen[r], rows)) /\ verdict[r] # "bad"
    /\ \A w \in Writers : at[w] \in {"committed", "judging", "replacing"} => Committed(w)

IInv == TypeOK /\ BudgetOK /\ WriterInv /\ ChainInv

-------------------------------------------------------------------------------
\* What appending a row leaves and adds.
LEMMA AppendRow ==
  ASSUME rows \in Seq(RowSet), NEW row \in RowSet, rows' = Append(rows, row)
  PROVE  /\ rows' \in Seq(RowSet) /\ Len(rows) \in Nat /\ Len(rows') = Len(rows) + 1
         /\ DOMAIN rows = 1..Len(rows) /\ DOMAIN rows' = 1..(Len(rows) + 1)
         /\ \A i \in 1..Len(rows) : rows'[i] = rows[i]
         /\ rows'[Len(rows) + 1] = row
  BY AppendProperties, LenProperties

\* The hash of a record on a digest is a digest.
LEMMA HashIsDigest ==
  ASSUME NEW record \in Records, NEW prev \in Seq(Records)
  PROVE  RecordHash(record, prev) \in Seq(Records)
  BY DEF RecordHash

\* What LastRow reads is a head.
LEMMA LastRowIsHead ==
  ASSUME NEW chain \in Seq(RowSet)
  PROVE  LastRow(chain) \in Heads
<1>1. CASE chain = <<>>
  BY <1>1 DEF LastRow, Heads, Genesis
<1>2. CASE chain # <<>>
  <2>1. Len(chain) \in Nat /\ Len(chain) \in DOMAIN chain
    BY <1>2, LenProperties
  <2>2. chain[Len(chain)] \in RowSet
    BY <2>1
  <2> QED BY <1>2, <2>2 DEF LastRow, Heads, RowSet
<1> QED BY <1>1, <1>2

\* The record that stands for changed content is a record.
LEMMA AlteredIsRecord == Altered \in Records
  BY BoundsAreNaturals DEF Altered, Records, Ids

\* A bound that is spent goes down and stays a natural number.
LEMMA SpendKeepsBudget ==
  ASSUME BudgetOK, NEW what \in {"appends", "crashes", "anchorLosses", "changes"}, Spend(what)
  PROVE  BudgetOK'
  BY BoundsAreNaturals DEF BudgetOK, Spend, Ids

-------------------------------------------------------------------------------
(***************************************************************************)
(* Types.                                                                  *)
(***************************************************************************)
\* The rows keep their type when history is changed by something else than append.
LEMMA ChangedRowsAreRows ==
  ASSUME rows \in Seq(RowSet), HistoryChanges
  PROVE  rows' \in Seq(RowSet)
<1>1. Len(rows) \in Nat /\ DOMAIN rows = 1..Len(rows) /\ \A i \in 1..Len(rows) : rows[i] \in RowSet
  BY LenProperties
<1>2. ASSUME NEW i \in DOMAIN rows PROVE SubSeq(rows, 1, i - 1) \in Seq(RowSet)
  BY <1>1, SubSeqProperties
<1>3. ASSUME NEW i \in DOMAIN rows, LoseNewestRows(i) PROVE rows' \in Seq(RowSet)
  BY <1>2, <1>3 DEF LoseNewestRows
<1>4. ASSUME NEW i \in DOMAIN rows, AlterRow(i) PROVE rows' \in Seq(RowSet)
  <2>1. rows' = [rows EXCEPT ![i] = [rows[i] EXCEPT !.record = Altered]]
    BY <1>4 DEF AlterRow
  <2>2. [rows[i] EXCEPT !.record = Altered] \in RowSet
    BY <1>1, AlteredIsRecord DEF RowSet
  <2> QED BY <2>1, <2>2, ExceptSeq, <1>1
<1>5. ASSUME NEW i \in DOMAIN rows, DropRow(i) PROVE rows' \in Seq(RowSet)
  <2>1. SubSeq(rows, i + 1, Len(rows)) \in Seq(RowSet)
    BY <1>1, SubSeqProperties
  <2> QED BY <1>2, <1>5, <2>1, ConcatProperties DEF DropRow
<1>6. ASSUME ReplaceNewestRow PROVE rows' \in Seq(RowSet)
  <2>1. PICK n \in DOMAIN rows : n = Len(rows)
    BY <1>1, <1>6, EmptySeq DEF ReplaceNewestRow
  <2>2. Row(rows[n].seq, Altered, rows[n].prev) \in RowSet
    BY <1>1, <2>1, AlteredIsRecord, HashIsDigest DEF Row, RowSet
  <2>3. rows' = [rows EXCEPT ![n] = Row(rows[n].seq, Altered, rows[n].prev)]
    BY <1>6, <2>1 DEF ReplaceNewestRow
  <2> QED BY <2>1, <2>2, <2>3, ExceptSeq, <1>1
<1> QED BY <1>3, <1>4, <1>5, <1>6 DEF HistoryChanges

\* A change of history is marked as one for ever.
LEMMA ChangeIsMarked ==
  ASSUME HistoryChanges
  PROVE  evidence' \in {"none", "anchor", "chain", evidence} /\ ~Unchanged'
  BY DEF HistoryChanges, LoseNewestRows, AlterRow, DropRow, ReplaceNewestRow, ShowsIn, Unchanged

\* The types hold at the start.
LEMMA TypesInit == Init => TypeOK /\ BudgetOK
<1> SUFFICES ASSUME Init PROVE TypeOK /\ BudgetOK
  OBVIOUS
<1>1. BudgetOK
  BY BoundsAreNaturals DEF Init, BudgetOK, Ids
<1>2. [order |-> NoOrder, id |-> 0] \in Records /\ [seq |-> 0, digest |-> Genesis] \in Heads
  BY BoundsAreNaturals DEF Records, Ids, Heads, Genesis
<1>3. rows \in Seq(RowSet) /\ anchor \in Heads \cup {NoAnchor} /\ lock \in Writers \cup {Nobody}
  BY DEF Init
<1>4. asked \in [Writers -> Records] /\ head \in [Writers -> Heads]
  BY <1>2 DEF Init
<1>5. at \in [Writers -> Pcs] /\ \A w \in Writers : at[w] = "idle"
  BY DEF Init, Pcs
<1>6. \A w \in Writers : lock # w
  BY NobodyIsNoWriter DEF Init
<1>7. seen \in [Readers -> Heads \cup {NoAnchor}]
      /\ verdict \in [Readers -> {"none", "reading", "ok", "bad"}]
      /\ evidence = "pristine"
  BY DEF Init
<1> QED BY <1>1, <1>3, <1>4, <1>5, <1>6, <1>7 DEF TypeOK, RowSet

\* Every step of a writer keeps the types and the write lock's owner.
LEMMA WriterKeepsTypes ==
  ASSUME TypeOK, BudgetOK, NEW w \in Writers,
         (\E order \in Orders \cup {NoOrder} : Begin(w, order)) \/ AppendStep(w) \/ Crash(w)
  PROVE  TypeOK' /\ BudgetOK'
<1> USE NobodyIsNoWriter DEF TypeOK, Pcs
<1>1. ASSUME NEW order \in Orders \cup {NoOrder}, Begin(w, order)
      PROVE  TypeOK' /\ BudgetOK'
  <2>1. BudgetOK'
    BY <1>1, SpendKeepsBudget DEF Begin
  <2>2. LastRow(rows) \in Heads
    BY LastRowIsHead DEF RowSet
  <2>3. [order |-> order, id |-> budget["appends"]] \in Records
    BY <1>1 DEF Records, BudgetOK
  <2>4. asked' \in [Writers -> Records] /\ head' \in [Writers -> Heads]
    BY <1>1, <2>2, <2>3 DEF Begin
  <2>5. at' \in [Writers -> Pcs] /\ lock' \in Writers \cup {Nobody}
        /\ \A x \in Writers : lock' = x <=> at'[x] \in {"inserting", "judging", "replacing"}
    BY <1>1 DEF Begin
  <2>6. UNCHANGED <<rows, anchor, seen, verdict, evidence>>
    BY <1>1 DEF Begin
  <2> QED BY <2>1, <2>4, <2>5, <2>6
<1>2. CASE Commit(w)
  <2>1. Row(head[w].seq + 1, asked[w], head[w].digest) \in RowSet
    BY HashIsDigest DEF Row, RowSet, Heads
  <2>2. rows \in Seq(RowSet)
    BY DEF RowSet
  <2>3. rows' \in Seq(RowSet)
    BY <1>2, <2>1, <2>2, AppendProperties DEF Commit
  <2>4. at' \in [Writers -> Pcs] /\ lock' \in Writers \cup {Nobody}
        /\ \A x \in Writers : lock' = x <=> at'[x] \in {"inserting", "judging", "replacing"}
    BY <1>2 DEF Commit
  <2>5. UNCHANGED <<anchor, asked, head, seen, verdict, budget, evidence>>
    BY <1>2 DEF Commit
  <2> QED BY <2>3, <2>4, <2>5 DEF RowSet, BudgetOK
<1>3. CASE RollBack(w) \/ LockAnchor(w) \/ JudgeAnchor(w)
  <2>1. at' \in [Writers -> Pcs] /\ lock' \in Writers \cup {Nobody}
        /\ \A x \in Writers : lock' = x <=> at'[x] \in {"inserting", "judging", "replacing"}
    <3>1. CASE RollBack(w)
      BY <3>1 DEF RollBack
    <3>2. CASE LockAnchor(w)
      BY <3>2 DEF LockAnchor
    <3>3. CASE JudgeAnchor(w)
      BY <3>3 DEF JudgeAnchor
    <3> QED BY <1>3, <3>1, <3>2, <3>3
  <2>2. UNCHANGED <<rows, anchor, asked, head, seen, verdict, budget, evidence>>
    BY <1>3 DEF RollBack, LockAnchor, JudgeAnchor
  <2> QED BY <2>1, <2>2 DEF BudgetOK
<1>4. CASE ReplaceAnchor(w)
  <2>1. [seq |-> head[w].seq + 1, digest |-> RecordHash(asked[w], head[w].digest)] \in Heads
    BY HashIsDigest DEF Heads
  <2>2. anchor' \in Heads \cup {NoAnchor}
    BY <1>4, <2>1 DEF ReplaceAnchor
  <2>3. at' \in [Writers -> Pcs] /\ lock' \in Writers \cup {Nobody}
        /\ \A x \in Writers : lock' = x <=> at'[x] \in {"inserting", "judging", "replacing"}
    BY <1>4 DEF ReplaceAnchor
  <2>4. UNCHANGED <<rows, asked, head, seen, verdict, budget, evidence>>
    BY <1>4 DEF ReplaceAnchor
  <2> QED BY <2>2, <2>3, <2>4 DEF BudgetOK
<1>5. CASE Crash(w)
  <2>1. BudgetOK'
    BY <1>5, SpendKeepsBudget DEF Crash
  <2>2. at' \in [Writers -> Pcs] /\ lock' \in Writers \cup {Nobody}
        /\ \A x \in Writers : lock' = x <=> at'[x] \in {"inserting", "judging", "replacing"}
    BY <1>5 DEF Crash
  <2>3. UNCHANGED <<rows, anchor, asked, head, seen, verdict, evidence>>
    BY <1>5 DEF Crash
  <2> QED BY <2>1, <2>2, <2>3
<1> QED BY <1>1, <1>2, <1>3, <1>4, <1>5 DEF AppendStep

\* Every step keeps the types.
LEMMA StepKeepsTypes ==
  ASSUME TypeOK, BudgetOK, [Next]_vars
  PROVE  TypeOK' /\ BudgetOK'
<1>1. CASE UNCHANGED vars
  BY <1>1 DEF vars, writerVars, TypeOK, BudgetOK
<1>2. ASSUME NEW r \in Readers, ReadAnchor(r) \/ ReadRows(r)
      PROVE  TypeOK' /\ BudgetOK'
  <2>1. CASE ReadAnchor(r)
    BY <2>1 DEF ReadAnchor, writerVars, TypeOK, BudgetOK
  <2>2. CASE ReadRows(r)
    BY <2>2 DEF ReadRows, writerVars, TypeOK, BudgetOK
  <2> QED BY <1>2, <2>1, <2>2
<1>3. CASE LoseAnchor
  <2>1. BudgetOK'
    BY <1>3, SpendKeepsBudget DEF LoseAnchor
  <2> QED BY <1>3, <2>1 DEF LoseAnchor, writerVars, TypeOK
<1>4. CASE HistoryChanges
  <2>1. BudgetOK'
    BY <1>4, SpendKeepsBudget
    DEF HistoryChanges, LoseNewestRows, AlterRow, DropRow, ReplaceNewestRow
  <2>2. UNCHANGED <<anchor, writerVars, seen, verdict>>
    BY <1>4 DEF HistoryChanges, LoseNewestRows, AlterRow, DropRow, ReplaceNewestRow
  <2>3. rows' \in Seq(RowSet)
    BY <1>4, ChangedRowsAreRows DEF TypeOK, RowSet
  <2>4. evidence' \in {"pristine", "none", "anchor", "chain"}
    BY <1>4, ChangeIsMarked DEF TypeOK
  <2> QED BY <2>1, <2>2, <2>3, <2>4 DEF TypeOK, RowSet, writerVars
<1> QED BY <1>1, <1>2, <1>3, <1>4, WriterKeepsTypes DEF Next

-------------------------------------------------------------------------------
(***************************************************************************)
(* Writers and the chain.                                                  *)
(***************************************************************************)
\* Two writers are never in a transaction together: who is, holds the lock.
LEMMA OneTransaction ==
  ASSUME TypeOK, NEW w \in Writers, NEW x \in Writers,
         at[w] \in {"inserting", "judging", "replacing"},
         at[x] \in {"inserting", "judging", "replacing"}
  PROVE  w = x
  BY DEF TypeOK

\* What a head being used says holds in every step.
LEMMA StepKeepsWriterInv ==
  ASSUME TypeOK, WriterInv, [Next]_vars
  PROVE  WriterInv'
<1> USE DEF WriterInv
<1>1. CASE UNCHANGED vars
  BY <1>1 DEF vars, writerVars, Unchanged, LastRow
<1>2. ASSUME NEW w \in Writers, NEW order \in Orders \cup {NoOrder}, Begin(w, order)
      PROVE  WriterInv'
  BY <1>2, NobodyIsNoWriter DEF Begin, TypeOK, Unchanged, LastRow
<1>3. ASSUME NEW w \in Writers, Commit(w)
      PROVE  WriterInv'
  <2>1. \A x \in Writers : at'[x] # "inserting"
    BY <1>3, OneTransaction DEF Commit, TypeOK
  <2>2. UNCHANGED <<anchor, head>> /\ \A x \in Writers : at'[x] = "replacing" => at[x] = "replacing"
    BY <1>3 DEF Commit, TypeOK
  <2> QED BY <2>1, <2>2
<1>4. ASSUME NEW w \in Writers, RollBack(w) \/ LockAnchor(w) \/ JudgeAnchor(w)
      PROVE  WriterInv'
  <2>1. UNCHANGED <<rows, anchor, head, evidence>>
    BY <1>4 DEF RollBack, LockAnchor, JudgeAnchor
  <2>2. \A x \in Writers : at'[x] = "inserting" => at[x] = "inserting"
    BY <1>4 DEF RollBack, LockAnchor, JudgeAnchor, TypeOK
  <2>3. \A x \in Writers :
          at'[x] = "replacing" /\ anchor # NoAnchor => anchor.seq <= head[x].seq
    <3>1. ASSUME NEW x \in Writers, at'[x] = "replacing", at[x] # "replacing", anchor # NoAnchor
          PROVE  anchor.seq <= head[x].seq
      <4>1. ~(anchor.seq > head[x].seq)
        BY <1>4, <3>1 DEF RollBack, LockAnchor, JudgeAnchor, TypeOK
      <4>2. anchor.seq \in Nat /\ head[x].seq \in Nat
        BY <3>1 DEF TypeOK, Heads
      <4> QED BY <4>1, <4>2
    <3> QED BY <3>1
  <2> QED BY <2>1, <2>2, <2>3 DEF Unchanged, LastRow
<1>5. ASSUME NEW w \in Writers, ReplaceAnchor(w)
      PROVE  WriterInv'
  <2>1. UNCHANGED <<rows, head, evidence>>
    BY <1>5 DEF ReplaceAnchor
  <2>2. \A x \in Writers : at'[x] \notin {"inserting", "replacing"}
    BY <1>5, OneTransaction DEF ReplaceAnchor, TypeOK
  <2> QED BY <2>2
<1>6. ASSUME NEW w \in Writers, Crash(w)
      PROVE  WriterInv'
  BY <1>6 DEF Crash, TypeOK, Unchanged, LastRow
<1>7. ASSUME NEW r \in Readers, ReadAnchor(r) \/ ReadRows(r)
      PROVE  WriterInv'
  BY <1>7 DEF ReadAnchor, ReadRows, writerVars, Unchanged, LastRow
<1>8. CASE LoseAnchor
  BY <1>8 DEF LoseAnchor, writerVars, Unchanged, LastRow
<1>9. CASE HistoryChanges
  <2>1. UNCHANGED <<anchor, writerVars>>
    BY <1>9 DEF HistoryChanges, LoseNewestRows, AlterRow, DropRow, ReplaceNewestRow
  <2> QED BY <1>9, <2>1, ChangeIsMarked DEF writerVars
<1> QED BY <1>1, <1>2, <1>3, <1>4, <1>5, <1>6, <1>7, <1>8, <1>9 DEF Next, AppendStep

\* A committed row leaves an unbroken chain unbroken, with its own head at the end.
LEMMA CommitExtendsChain ==
  ASSUME TypeOK, WriterInv, Unchanged, VerifyChain(rows), NEW w \in Writers, Commit(w)
  PROVE  /\ VerifyChain(rows') /\ Committed(w)'
         /\ \A named : InChain(named, rows) => InChain(named, rows')
<1> DEFINE row == Row(head[w].seq + 1, asked[w], head[w].digest)
           n == Len(rows)
<1>1. row \in RowSet /\ row.seq = head[w].seq + 1 /\ row.prev = head[w].digest
      /\ row.record = asked[w] /\ row.digest = RecordHash(asked[w], head[w].digest)
  BY HashIsDigest DEF Row, RowSet, Heads, TypeOK
<1>2. rows \in Seq(RowSet) /\ rows' = Append(rows, row)
  BY DEF Commit, TypeOK, RowSet
<1>3. /\ n \in Nat /\ DOMAIN rows = 1..n /\ DOMAIN rows' = 1..(n + 1)
      /\ \A i \in 1..n : rows'[i] = rows[i]
      /\ rows'[n + 1] = row
  BY <1>1, <1>2, AppendRow
<1>4. \A named : InChain(named, rows) => InChain(named, rows')
  BY <1>3 DEF InChain
<1>5. head[w] = LastRow(rows)
  BY DEF WriterInv, Commit
<1>6. head[w].seq = n /\ head[w].digest = IF n = 0 THEN Genesis ELSE rows[n].digest
  <2>1. CASE rows = <<>>
    BY <1>5, <2>1 DEF LastRow
  <2>2. CASE rows # <<>>
    <3>1. n # 0 /\ n \in DOMAIN rows
      BY <1>2, <1>3, <2>2, EmptySeq
    <3>2. rows[n].seq = n
      BY <3>1 DEF VerifyChain, RowFollows
    <3> QED BY <1>5, <2>2, <3>1, <3>2 DEF LastRow
  <2> QED BY <2>1, <2>2
<1>7. Committed(w)'
  BY <1>1, <1>3, <1>6 DEF Committed, InChain, Commit
<1>8. VerifyChain(rows')
  <2>1. ASSUME NEW i \in 1..n PROVE RowFollows(rows', i)
    <3>1. RowFollows(rows, i)
      BY <1>3 DEF VerifyChain
    <3>2. rows'[i] = rows[i] /\ (i # 1 => rows'[i - 1] = rows[i - 1])
      BY <1>3
    <3> QED BY <3>1, <3>2 DEF RowFollows
  <2>2. RowFollows(rows', n + 1)
    <3>1. n # 0 => rows'[(n + 1) - 1] = rows[n] /\ (n + 1) # 1
      BY <1>3
    <3> QED BY <1>1, <1>3, <1>6, <3>1 DEF RowFollows
  <2> QED BY <1>3, <2>1, <2>2 DEF VerifyChain
<1> QED BY <1>4, <1>7, <1>8

\* The chain and every anchor named in it hold in every step that only appends.
LEMMA StepKeepsChain ==
  ASSUME TypeOK, WriterInv, ChainInv, [Next]_vars
  PROVE  ChainInv'
<1> DEFINE Places == {"committed", "judging", "replacing"}
<1>1. CASE UNCHANGED vars
  BY <1>1 DEF vars, writerVars, ChainInv, Unchanged, VerifyChain, RowFollows, InChain, Committed
<1>2. ASSUME NEW w \in Writers, Commit(w)
      PROVE  ChainInv'
  <2>1. SUFFICES ASSUME Unchanged PROVE ChainInv'
    BY <1>2 DEF Commit, ChainInv, Unchanged
  <2>2. /\ VerifyChain(rows') /\ Committed(w)'
        /\ \A named : InChain(named, rows) => InChain(named, rows')
    BY <1>2, <2>1, CommitExtendsChain DEF ChainInv
  <2>3. \A x \in Writers : at'[x] \in Places /\ x # w => at[x] \in Places
    BY <1>2 DEF Commit, TypeOK
  <2>4. \A x \in Writers : Committed(x) => Committed(x)'
    BY <1>2, <2>2 DEF Commit, Committed
  <2> QED BY <1>2, <2>1, <2>2, <2>3, <2>4 DEF Commit, ChainInv
<1>3. ASSUME NEW w \in Writers,
             RollBack(w) \/ LockAnchor(w) \/ JudgeAnchor(w) \/ Crash(w)
               \/ \E order \in Orders \cup {NoOrder} : Begin(w, order)
      PROVE  ChainInv'
  <2>1. UNCHANGED <<rows, anchor, seen, verdict, evidence>>
    BY <1>3 DEF RollBack, LockAnchor, JudgeAnchor, Crash, Begin
  <2>2. \A x \in Writers :
          at'[x] \in Places => at[x] \in Places /\ head'[x] = head[x] /\ asked'[x] = asked[x]
    <3>1. CASE RollBack(w) \/ LockAnchor(w) \/ JudgeAnchor(w)
      BY <3>1 DEF RollBack, LockAnchor, JudgeAnchor, TypeOK
    <3>2. CASE Crash(w) \/ \E order \in Orders \cup {NoOrder} : Begin(w, order)
      BY <3>2 DEF Crash, Begin, TypeOK
    <3> QED BY <1>3, <3>1, <3>2
  <2>3. \A x \in Writers : at'[x] \in Places /\ Committed(x) => Committed(x)'
    BY <2>1, <2>2 DEF Committed
  <2> QED BY <2>1, <2>2, <2>3 DEF ChainInv, Unchanged
<1>4. ASSUME NEW w \in Writers, ReplaceAnchor(w)
      PROVE  ChainInv'
  <2>1. UNCHANGED <<rows, asked, head, seen, verdict, evidence>>
    BY <1>4 DEF ReplaceAnchor
  <2>2. Unchanged => anchor' = NoAnchor \/ InChain(anchor', rows)
    BY <1>4 DEF ReplaceAnchor, ChainInv, Committed
  <2>3. \A x \in Writers : at'[x] \in Places => at[x] \in Places
    BY <1>4 DEF ReplaceAnchor, TypeOK
  <2>4. \A x \in Writers : Committed(x)' <=> Committed(x)
    BY <2>1 DEF Committed
  <2> QED BY <2>1, <2>2, <2>3, <2>4 DEF ChainInv, Unchanged
<1>5. ASSUME NEW r \in Readers, ReadAnchor(r) \/ ReadRows(r)
      PROVE  ChainInv'
  <2>1. UNCHANGED <<rows, anchor, writerVars, evidence>>
    BY <1>5 DEF ReadAnchor, ReadRows
  <2>2. \A x \in Writers : Committed(x)' <=> Committed(x)
    BY <2>1 DEF writerVars, Committed
  <2>3. ASSUME Unchanged, NEW q \in Readers
        PROVE  (seen'[q] = NoAnchor \/ InChain(seen'[q], rows)) /\ verdict'[q] # "bad"
    <3>1. CASE ReadAnchor(r)
      BY <2>3, <3>1 DEF ReadAnchor, ChainInv, TypeOK
    <3>2. CASE ReadRows(r)
      <4>1. Verify(seen[r], rows)
        <5>1. VerifyChain(rows) /\ (seen[r] = NoAnchor \/ InChain(seen[r], rows))
          BY <2>3 DEF ChainInv
        <5>2. DOMAIN rows = 1..Len(rows)
          BY LenProperties DEF TypeOK
        <5> QED BY <5>1, <5>2 DEF Verify, InChain
      <4> QED BY <2>3, <3>2, <4>1 DEF ReadRows, ChainInv, TypeOK
    <3> QED BY <1>5, <3>1, <3>2
  <2> QED BY <2>1, <2>2, <2>3 DEF ChainInv, Unchanged, writerVars
<1>6. CASE LoseAnchor
  <2>1. Unchanged' => Unchanged
    BY <1>6 DEF LoseAnchor, Unchanged
  <2>2. anchor' = NoAnchor /\ UNCHANGED <<rows, writerVars, seen, verdict>>
    BY <1>6 DEF LoseAnchor
  <2>3. \A x \in Writers : Committed(x)' <=> Committed(x)
    BY <2>2 DEF writerVars, Committed
  <2> QED BY <2>1, <2>2, <2>3 DEF ChainInv, writerVars
<1>7. CASE HistoryChanges
  BY <1>7, ChangeIsMarked DEF ChainInv
<1> QED BY <1>1, <1>2, <1>3, <1>4, <1>5, <1>6, <1>7 DEF Next, AppendStep

-------------------------------------------------------------------------------
\* The inductive invariant of the journal holds in every state it can reach.
LEMMA Invariance == Spec => []IInv
<1>1. Init => IInv
  <2> SUFFICES ASSUME Init PROVE IInv
    OBVIOUS
  <2>1. WriterInv
    BY DEF Init, WriterInv
  <2>2. ChainInv
    BY DEF Init, ChainInv, VerifyChain
  <2> QED BY <2>1, <2>2, TypesInit DEF IInv
<1>2. IInv /\ [Next]_vars => IInv'
  BY StepKeepsTypes, StepKeepsWriterInv, StepKeepsChain DEF IInv
<1> QED BY <1>1, <1>2, PTL DEF Spec

\* The files and the writers keep their types, and the write lock is held by exactly the
\* writer that is in a transaction (append and _write_anchor in journal.py).
THEOREM TypeCorrect == Spec => []TypeOK
  BY Invariance, PTL DEF IInv

\* Verification never fails while rows are only appended, whatever writers do between the
\* reading of the anchor and of the rows, and wherever they die (verify in journal.py).
THEOREM NoFalseAlarmEver == Spec => []NoFalseAlarm
<1>1. IInv => NoFalseAlarm
  BY DEF IInv, ChainInv, NoFalseAlarm
<1> QED BY <1>1, Invariance, PTL

\* No writer, however slow, moves the anchor back (_write_anchor in journal.py), even in
\* a journal whose history was changed.
THEOREM AnchorOnlyAdvances == Spec => AnchorNeverMovesBack
<1> DEFINE Advances == anchor # NoAnchor /\ anchor' # NoAnchor => anchor'.seq >= anchor.seq
<1>1. IInv /\ [Next]_vars => [Advances]_vars
  <2> SUFFICES ASSUME IInv, Next, anchor # NoAnchor, anchor' # NoAnchor
               PROVE  anchor'.seq >= anchor.seq
    BY DEF vars
  <2>1. anchor \in Heads /\ anchor.seq \in Nat
    BY DEF IInv, TypeOK, Heads
  <2>2. ASSUME NEW w \in Writers, ReplaceAnchor(w) PROVE anchor'.seq >= anchor.seq
    <3>1. anchor.seq <= head[w].seq /\ head[w].seq \in Nat
      BY <2>2 DEF ReplaceAnchor, IInv, WriterInv, TypeOK, Heads
    <3> QED BY <2>1, <2>2, <3>1 DEF ReplaceAnchor
  <2>3. CASE anchor' = anchor
    BY <2>1, <2>3
  <2>4. (\E w \in Writers : ReplaceAnchor(w)) \/ anchor' = anchor \/ anchor' = NoAnchor
    BY DEF Next, AppendStep, Begin, Commit, RollBack, LockAnchor, JudgeAnchor, Crash, ReadAnchor,
           ReadRows, LoseAnchor, HistoryChanges, LoseNewestRows, AlterRow, DropRow, ReplaceNewestRow
  <2> QED BY <2>2, <2>3, <2>4
<1> QED BY <1>1, Invariance, PTL DEF Spec, AnchorNeverMovesBack

-------------------------------------------------------------------------------
(***************************************************************************)
(* Refinement: what the writers append and are told is what JournalLog     *)
(* allows, step by step, until history is changed.                         *)
(***************************************************************************)
Told == [w \in Writers |-> Answered(at[w])]
Contents == [i \in DOMAIN rows |-> rows[i].record]

\* What the abstract log holds is a sequence as long as the rows.
LEMMA ContentsAreRecords ==
  ASSUME TypeOK
  PROVE  /\ Contents \in Seq(Records) /\ Len(Contents) = Len(rows)
         /\ DOMAIN rows = 1..Len(rows) /\ Len(rows) \in Nat
<1>1. Len(rows) \in Nat /\ DOMAIN rows = 1..Len(rows)
  BY LenProperties DEF TypeOK
<1>2. \A i \in 1..Len(rows) : rows[i].record \in Records
  <2>1. rows \in Seq(RowSet)
    BY DEF TypeOK, RowSet
  <2>2. \A i \in 1..Len(rows) : rows[i] \in RowSet
    BY <2>1, ElementOfSeq
  <2> QED BY <2>2 DEF RowSet
<1> QED BY <1>1, <1>2, IsASeq DEF Contents

\* Appending a row appends its record to the abstract log.
LEMMA ContentsGrow ==
  ASSUME TypeOK, NEW row \in RowSet, rows' = Append(rows, row)
  PROVE  Contents' = Append(Contents, row.record)
<1> DEFINE n == Len(rows)
<1>1. /\ Len(rows') = n + 1 /\ n \in Nat /\ DOMAIN rows' = 1..(n + 1) /\ DOMAIN rows = 1..n
      /\ \A i \in 1..n : rows'[i] = rows[i]
      /\ rows'[n + 1] = row /\ rows' \in Seq(RowSet)
  BY AppendRow DEF TypeOK, RowSet
<1>2. Contents \in Seq(Records) /\ Len(Contents) = n /\ row.record \in Records
  BY ContentsAreRecords DEF RowSet
<1>3. /\ Append(Contents, row.record) \in Seq(Records)
      /\ Len(Append(Contents, row.record)) = n + 1
      /\ \A i \in 1..n : Append(Contents, row.record)[i] = rows[i].record
      /\ Append(Contents, row.record)[n + 1] = row.record
  BY <1>1, <1>2, AppendProperties DEF Contents
<1>4. Contents' = [i \in 1..(n + 1) |-> rows'[i].record]
  BY <1>1 DEF Contents
<1>5. \A i \in 1..(n + 1) : rows'[i].record \in Records
  <2>1. \A i \in 1..(n + 1) : rows'[i] \in RowSet
    BY <1>1, ElementOfSeq
  <2> QED BY <2>1 DEF RowSet
<1>6. Contents' \in Seq(Records) /\ Len(Contents') = n + 1
  BY <1>1, <1>4, <1>5, IsASeq
<1>7. \A i \in 1..(n + 1) : Contents'[i] = Append(Contents, row.record)[i]
  BY <1>1, <1>3, <1>4
<1> QED BY <1>3, <1>6, <1>7, SeqEqual

\* A step of one writer changes what it alone is told.
LEMMA OneIsTold ==
  ASSUME TypeOK, NEW w \in Writers, NEW pc, at' = [at EXCEPT ![w] = pc]
  PROVE  Told' = [Told EXCEPT ![w] = Answered(pc)] /\ Told[w] = Answered(at[w])
  BY DEF TypeOK, Told

\* Every step of the journal is a step of the abstract log, or changes nothing it holds.
LEMMA StepsImplementLog ==
  ASSUME TypeOK, BudgetOK, [Next]_vars
  PROVE  [Unchanged' => Log!Next]_<<Log!vars, evidence>>
<1> USE DEF Answered
<1>t. /\ Told = [w \in Writers |-> Answered(at[w])]
      /\ Contents = [i \in DOMAIN rows |-> rows[i].record]
  BY DEF Told, Contents
<1>s. ASSUME UNCHANGED <<Contents, asked, Told, evidence>>
      PROVE  UNCHANGED <<Log!vars, evidence>>
  BY <1>s DEF Log!vars, Told, Contents
<1>1. CASE UNCHANGED vars
  BY <1>1 DEF vars, writerVars, Log!vars
<1>2. ASSUME NEW w \in Writers, NEW order \in Orders \cup {NoOrder}, Begin(w, order)
      PROVE  Log!Next
  <2>1. [order |-> order, id |-> budget["appends"]] \in Log!Records
    BY <1>2 DEF Log!Records, BudgetOK
  <2>2. PICK record \in Log!Records : asked' = [asked EXCEPT ![w] = record]
    BY <1>2, <2>1 DEF Begin
  <2>3. Told' = [Told EXCEPT ![w] = "asked"] /\ Told[w] = Answered(at[w])
    BY <1>2, OneIsTold DEF Begin
  <2>4. Log!Ask(w, record)
    BY <1>2, <2>2, <2>3 DEF Begin, Log!Ask, Told, Contents
  <2> QED BY <2>4 DEF Log!Next
<1>3. ASSUME NEW w \in Writers, Commit(w)
      PROVE  Log!Next
  <2> DEFINE row == Row(head[w].seq + 1, asked[w], head[w].digest)
  <2>1. row \in RowSet /\ row.record = asked[w]
    BY HashIsDigest DEF Row, RowSet, Heads, TypeOK
  <2>2. Contents' = Append(Contents, asked[w])
    BY <1>3, <2>1, ContentsGrow DEF Commit
  <2>3. Told' = [Told EXCEPT ![w] = "landed"] /\ Told[w] = "asked"
    BY <1>3, OneIsTold DEF Commit
  <2>4. ~Log!IntentOnRecord(Contents, asked[w].order)
    BY <1>3 DEF Commit, IntentOnRecord, Log!IntentOnRecord, Contents
  <2>5. Log!Land(w)
    BY <1>3, <2>2, <2>3, <2>4 DEF Commit, Log!Land, Told, Contents
  <2> QED BY <2>5 DEF Log!Next
<1>4. ASSUME NEW w \in Writers, RollBack(w)
      PROVE  Log!Next
  <2>1. Told' = [Told EXCEPT ![w] = "failed"] /\ Told[w] = "asked"
    BY <1>4, OneIsTold DEF RollBack
  <2>2. Log!Fail(w)
    BY <1>4, <2>1 DEF RollBack, Log!Fail, Told, Contents
  <2> QED BY <2>2 DEF Log!Next
<1>5. ASSUME NEW w \in Writers, LockAnchor(w) \/ JudgeAnchor(w) \/ ReplaceAnchor(w)
      PROVE  Log!Next \/ UNCHANGED <<Log!vars, evidence>>
  <2>1. UNCHANGED <<rows, asked, evidence>> /\ Answered(at[w]) = "landed"
    BY <1>5 DEF LockAnchor, JudgeAnchor, ReplaceAnchor
  <2>2. PICK pc \in {"judging", "replacing", "ok"} : at' = [at EXCEPT ![w] = pc]
    BY <1>5 DEF LockAnchor, JudgeAnchor, ReplaceAnchor
  <2>3. Told' = [Told EXCEPT ![w] = Answered(pc)] /\ Told[w] = "landed"
    BY <2>1, <2>2, OneIsTold
  <2>4. CASE pc = "ok"
    <3>1. Log!Succeed(w)
      BY <2>1, <2>3, <2>4 DEF Log!Succeed, Told, Contents
    <3> QED BY <3>1 DEF Log!Next
  <2>5. CASE pc # "ok"
    <3>1. Told' = Told
      BY <2>2, <2>3, <2>5 DEF Told
    <3> QED BY <2>1, <3>1, <1>s DEF Contents
  <2> QED BY <2>4, <2>5
<1>6. ASSUME NEW w \in Writers, Crash(w)
      PROVE  Log!Next
  <2>1. Told' = [Told EXCEPT ![w] = "idle"]
    BY <1>6, OneIsTold DEF Crash
  <2>2. Log!Die(w)
    BY <1>6, <2>1 DEF Crash, Log!Die, Told, Contents
  <2> QED BY <2>2 DEF Log!Next
<1>7. ASSUME NEW r \in Readers, ReadAnchor(r) \/ ReadRows(r)
      PROVE  UNCHANGED <<Log!vars, evidence>>
  BY <1>7 DEF ReadAnchor, ReadRows, writerVars, Log!vars
<1>8. CASE LoseAnchor
  BY <1>8 DEF LoseAnchor, writerVars, Unchanged, Log!vars
<1>9. CASE HistoryChanges
  BY <1>9, ChangeIsMarked
<1> QED BY <1>1, <1>2, <1>3, <1>4, <1>5, <1>6, <1>7, <1>8, <1>9 DEF Next, AppendStep

\* The connections of any number of processes implement one append-only log with at most
\* one intent for each order, for as long as rows are only appended (Journal's promises).
THEOREM JournalImplementsLog == Spec => ImplementsLog
<1>1. Init => Log!Init
  <2> SUFFICES ASSUME Init PROVE Log!Init
    OBVIOUS
  <2>1. [i \in DOMAIN rows |-> rows[i].record] = <<>>
    BY DEF Init
  <2>2. [w \in Writers |-> Answered(at[w])] = [w \in Writers |-> "idle"]
    BY DEF Init, Answered
  <2> QED BY <2>1, <2>2 DEF Init, Log!Init
<1>2. IInv /\ [Next]_vars => [Unchanged' => Log!Next]_<<Log!vars, evidence>>
  BY StepsImplementLog DEF IInv
<1> QED BY <1>1, <1>2, Invariance, PTL DEF Spec, ImplementsLog

-------------------------------------------------------------------------------
(***************************************************************************)
(* A change of history shows for good.  The anchor's digest names a record *)
(* that is no longer where the anchor says (Gone), and no writer can bring *)
(* it back: what it appends is newer than every record before (its id is   *)
(* smaller than theirs), and what it holds is another one.                 *)
(***************************************************************************)
NewestOf(digest) == digest[Len(digest)]

\* What a writer will have the anchor say.
OwnRow(w) == [seq |-> head[w].seq + 1, digest |-> RecordHash(asked[w], head[w].digest)]

\* The record that an anchor names is not where it was, nor about to be.
Gone(named) ==
  /\ named.seq # 0 /\ named.digest # <<>> /\ NewestOf(named.digest).id > budget["appends"]
  /\ named.seq \in DOMAIN rows => rows[named.seq].record # NewestOf(named.digest)
  /\ \A w \in Writers : at[w] = "inserting" => asked[w] # NewestOf(named.digest)

\* Every record was asked for before the appends that are still to come.
AskedInv ==
  /\ \A w \in Writers : at[w] \in {"inserting", "committed", "judging", "replacing"} =>
       asked[w].id > budget["appends"]
  /\ Unchanged => \A j \in DOMAIN rows :
       /\ rows[j].record.id > budget["appends"]
       /\ \A w \in Writers : at[w] = "inserting" => rows[j].record # asked[w]

\* Where one change of history shows.
ChangeInv ==
  /\ budget["changes"] <= IF Unchanged THEN 1 ELSE 0
  /\ evidence = "chain" => ~VerifyChain(rows)
  /\ evidence = "anchor" /\ VerifyChain(rows) =>
       /\ anchor # NoAnchor /\ Gone(anchor)
       /\ \A w \in Writers : at[w] = "replacing" => Gone(OwnRow(w))

\* The newest record a digest commits to is the one it was made with.
LEMMA NewestOfHash ==
  ASSUME NEW record \in Records, NEW prev \in Seq(Records)
  PROVE  RecordHash(record, prev) # <<>> /\ NewestOf(RecordHash(record, prev)) = record
<1>1. /\ Append(prev, record) \in Seq(Records) /\ Len(Append(prev, record)) = Len(prev) + 1
      /\ Append(prev, record)[Len(prev) + 1] = record /\ Len(prev) \in Nat
  BY AppendProperties, LenProperties
<1> QED BY <1>1, EmptySeq DEF RecordHash, NewestOf

\* In an unbroken chain a digest names the record of its own row.
LEMMA DigestNamesRecord ==
  ASSUME TypeOK, VerifyChain(rows), NEW i \in DOMAIN rows
  PROVE  /\ rows[i].seq = i /\ rows[i].digest # <<>>
         /\ NewestOf(rows[i].digest) = rows[i].record
<1>1. rows[i] \in RowSet
  <2>1. rows \in Seq(RowSet) /\ i \in 1..Len(rows)
    BY LenProperties DEF TypeOK, RowSet
  <2> QED BY <2>1, ElementOfSeq
<1>2. RowFollows(rows, i)
  BY DEF VerifyChain
<1> QED BY <1>1, <1>2, NewestOfHash DEF RowFollows, RowSet

\* A broken chain stays broken under whatever is appended to it.
LEMMA BreaksStay ==
  ASSUME TypeOK, NEW row \in RowSet, rows' = Append(rows, row), ~VerifyChain(rows)
  PROVE  ~VerifyChain(rows')
<1>1. /\ Len(rows) \in Nat /\ DOMAIN rows = 1..Len(rows) /\ DOMAIN rows' = 1..(Len(rows) + 1)
      /\ \A i \in 1..Len(rows) : rows'[i] = rows[i]
  BY AppendRow DEF TypeOK, RowSet
<1>2. PICK i \in 1..Len(rows) : ~RowFollows(rows, i)
  BY <1>1 DEF VerifyChain
<1>3. rows'[i] = rows[i] /\ (i # 1 => rows'[i - 1] = rows[i - 1]) /\ i \in DOMAIN rows'
  BY <1>1
<1>4. ~RowFollows(rows', i)
  BY <1>2, <1>3 DEF RowFollows
<1> QED BY <1>3, <1>4 DEF VerifyChain

\* A row that the anchor names in an unbroken chain has the record that its digest names.
LEMMA NamedRecord ==
  ASSUME TypeOK, VerifyChain(rows), NEW named \in Heads, InChain(named, rows)
  PROVE  /\ named.digest # <<>> /\ named.seq \in DOMAIN rows
         /\ NewestOf(named.digest) = rows[named.seq].record
  BY DigestNamesRecord DEF InChain

\* A writer's own row names what it asked for.
LEMMA OwnRowIsHead ==
  ASSUME TypeOK, NEW w \in Writers
  PROVE  /\ OwnRow(w) \in Heads /\ OwnRow(w).seq = head[w].seq + 1
         /\ OwnRow(w).digest # <<>> /\ NewestOf(OwnRow(w).digest) = asked[w]
<1>1. asked[w] \in Records /\ head[w].digest \in Seq(Records) /\ head[w].seq \in Nat
  BY DEF TypeOK, Heads
<1>2. RecordHash(asked[w], head[w].digest) \in Seq(Records)
  BY <1>1, HashIsDigest
<1>3. /\ RecordHash(asked[w], head[w].digest) # <<>>
      /\ NewestOf(RecordHash(asked[w], head[w].digest)) = asked[w]
  BY <1>1, NewestOfHash
<1> QED BY <1>1, <1>2, <1>3 DEF OwnRow, Heads

\* A change of history changes the files only, and is the last one there can be.
LEMMA ChangeIsLast ==
  ASSUME BudgetOK, ChangeInv, HistoryChanges
  PROVE  /\ Unchanged /\ ~Unchanged' /\ budget'["changes"] = 0
         /\ budget'["appends"] = budget["appends"] /\ UNCHANGED <<anchor, at, asked, head>>
<1>1. Spend("changes") /\ UNCHANGED <<anchor, at, asked, head>>
  BY DEF HistoryChanges, LoseNewestRows, AlterRow, DropRow, ReplaceNewestRow, writerVars
<1>2. budget["changes"] \in Nat /\ budget["changes"] > 0
      /\ budget' = [budget EXCEPT !["changes"] = budget["changes"] - 1]
  BY <1>1 DEF BudgetOK, Spend
<1>3. Unchanged /\ budget["changes"] = 1
  BY <1>2 DEF ChangeInv
<1> QED BY <1>1, <1>2, <1>3, ChangeIsMarked DEF BudgetOK

\* What no longer is where the anchor said does not come back in a step that keeps the
\* rows, or appends one that a writer holds.
LEMMA GoneStays ==
  ASSUME BudgetOK, NEW named \in Heads, Gone(named),
         \/ rows' = rows
         \/ \E row \in RowSet, w \in Writers :
              /\ rows \in Seq(RowSet) /\ rows' = Append(rows, row)
              /\ at[w] = "inserting" /\ row.record = asked[w],
         budget'["appends"] \in Nat, budget'["appends"] <= budget["appends"],
         \A w \in Writers : at'[w] = "inserting" =>
           \/ at[w] = "inserting" /\ asked'[w] = asked[w]
           \/ asked'[w].id <= budget["appends"]
  PROVE  Gone(named)'
<1> DEFINE newest == NewestOf(named.digest)
<1>1. newest.id > budget["appends"] /\ budget["appends"] \in Nat /\ newest.id \in Int
  <2>1. named.digest \in Seq(Records) /\ named.digest # <<>>
    BY DEF Heads, Gone
  <2>2. newest \in Records
    BY <2>1, EmptySeq, LenProperties, ElementOfSeq DEF NewestOf
  <2> QED BY <2>2 DEF Records, Ids, Gone, BudgetOK
<1>2. \A w \in Writers : at'[w] = "inserting" => asked'[w] # newest
  <2>1. ASSUME NEW w \in Writers, asked'[w].id <= budget["appends"]
        PROVE  asked'[w] # newest
    BY <1>1, <2>1
  <2>2. ASSUME NEW w \in Writers, at[w] = "inserting", asked'[w] = asked[w]
        PROVE  asked'[w] # newest
    BY <2>2 DEF Gone
  <2> QED BY <2>1, <2>2
<1>3. newest.id > budget'["appends"]
  BY <1>1
<1>4. named.seq \in DOMAIN rows' => rows'[named.seq].record # newest
  <2>1. CASE rows' = rows
    BY <2>1 DEF Gone
  <2>2. ASSUME NEW row \in RowSet, NEW w \in Writers, rows \in Seq(RowSet),
               rows' = Append(rows, row), at[w] = "inserting", row.record = asked[w]
        PROVE  named.seq \in DOMAIN rows' => rows'[named.seq].record # newest
    <3>1. /\ DOMAIN rows = 1..Len(rows) /\ DOMAIN rows' = 1..(Len(rows) + 1)
          /\ Len(rows) \in Nat /\ rows'[Len(rows) + 1] = row
          /\ \A i \in 1..Len(rows) : rows'[i] = rows[i]
      BY <2>2, AppendRow
    <3>2. row.record # newest
      BY <2>2 DEF Gone
    <3> QED BY <3>1, <3>2 DEF Gone
  <2> QED BY <2>1, <2>2
<1> QED BY <1>2, <1>3, <1>4 DEF Gone

\* What the writers ask for holds in every step.
LEMMA StepKeepsAsked ==
  ASSUME IInv, AskedInv, ChangeInv, Next
  PROVE  AskedInv'
<1>1. TypeOK /\ BudgetOK /\ budget["appends"] \in Nat
  BY DEF IInv, BudgetOK, Ids
<1>2. ASSUME NEW w \in Writers, NEW order \in Orders \cup {NoOrder}, Begin(w, order)
      PROVE  AskedInv'
  <2>1. /\ rows' = rows /\ evidence' = evidence
        /\ asked'[w] = [order |-> order, id |-> budget["appends"]]
        /\ at'[w] = "inserting" /\ budget'["appends"] = budget["appends"] - 1
        /\ budget["appends"] > 0
        /\ \A x \in Writers : x # w => at'[x] = at[x] /\ asked'[x] = asked[x]
    BY <1>1, <1>2 DEF Begin, Spend, TypeOK, BudgetOK
  <2>2. \A x \in Writers : asked[x].id \in Nat
    BY <1>1 DEF TypeOK, Records, Ids
  <2>3. \A j \in DOMAIN rows : rows[j].record.id \in Nat
    <3>1. rows \in Seq(RowSet)
      BY <1>1 DEF TypeOK, RowSet
    <3>2. \A j \in DOMAIN rows : rows[j] \in RowSet
      BY <3>1, LenProperties, ElementOfSeq
    <3> QED BY <3>2 DEF RowSet, Records, Ids
  <2>4. \A x \in Writers : at'[x] \in {"inserting", "committed", "judging", "replacing"} =>
          asked'[x].id > budget'["appends"]
    BY <1>1, <2>1, <2>2 DEF AskedInv
  <2>5. ASSUME Unchanged, NEW j \in DOMAIN rows
        PROVE  /\ rows[j].record.id > budget'["appends"]
               /\ \A x \in Writers : at'[x] = "inserting" => rows[j].record # asked'[x]
    <3>1. rows[j].record.id > budget["appends"]
      BY <2>5 DEF AskedInv
    <3>2. rows[j].record # asked'[w]
      BY <1>1, <2>1, <2>3, <3>1
    <3>3. \A x \in Writers : x # w /\ at'[x] = "inserting" => rows[j].record # asked'[x]
      BY <2>1, <2>5 DEF AskedInv
    <3> QED BY <1>1, <2>1, <2>3, <3>1, <3>2, <3>3
  <2> QED BY <2>1, <2>4, <2>5 DEF AskedInv, Unchanged
<1>3. ASSUME NEW w \in Writers, Commit(w)
      PROVE  AskedInv'
  <2> DEFINE row == Row(head[w].seq + 1, asked[w], head[w].digest)
  <2>1. row \in RowSet /\ row.record = asked[w]
    BY <1>1, HashIsDigest DEF Row, RowSet, Heads, TypeOK
  <2>2. /\ rows' = Append(rows, row) /\ at[w] = "inserting" /\ at'[w] = "committed"
        /\ UNCHANGED <<asked, budget, evidence>>
        /\ \A x \in Writers : x # w => at'[x] = at[x]
    BY <1>1, <1>3 DEF Commit, TypeOK
  <2>3. /\ DOMAIN rows = 1..Len(rows) /\ DOMAIN rows' = 1..(Len(rows) + 1)
        /\ Len(rows) \in Nat /\ rows'[Len(rows) + 1] = row
        /\ \A i \in 1..Len(rows) : rows'[i] = rows[i]
    BY <1>1, <2>1, <2>2, AppendRow DEF TypeOK, RowSet
  <2>4. \A x \in Writers : at'[x] # "inserting"
    BY <1>1, <2>2, OneTransaction
  <2>5. \A x \in Writers : at'[x] \in {"inserting", "committed", "judging", "replacing"} =>
          asked'[x].id > budget'["appends"]
    BY <2>2 DEF AskedInv
  <2>6. Unchanged => \A j \in DOMAIN rows' : rows'[j].record.id > budget'["appends"]
    BY <2>1, <2>2, <2>3 DEF AskedInv
  <2> QED BY <2>2, <2>4, <2>5, <2>6 DEF AskedInv, Unchanged
<1>4. ASSUME UNCHANGED <<rows, asked>>, budget'["appends"] = budget["appends"],
             Unchanged' => Unchanged,
             \A x \in Writers : /\ at'[x] = "inserting" => at[x] = "inserting"
                                /\ at'[x] \in {"committed", "judging", "replacing"} =>
                                     at[x] \in {"committed", "judging", "replacing"}
      PROVE  AskedInv'
  BY <1>4 DEF AskedInv
<1>5. ASSUME NEW w \in Writers,
             RollBack(w) \/ LockAnchor(w) \/ JudgeAnchor(w) \/ ReplaceAnchor(w)
      PROVE  AskedInv'
  <2>1. UNCHANGED <<rows, asked, budget, evidence>>
    BY <1>5 DEF RollBack, LockAnchor, JudgeAnchor, ReplaceAnchor
  <2>2. \A x \in Writers : /\ at'[x] = "inserting" => at[x] = "inserting"
                           /\ at'[x] \in {"committed", "judging", "replacing"} =>
                                at[x] \in {"committed", "judging", "replacing"}
    BY <1>1, <1>5 DEF RollBack, LockAnchor, JudgeAnchor, ReplaceAnchor, TypeOK
  <2> QED BY <1>4, <2>1, <2>2 DEF Unchanged
<1>6. ASSUME NEW w \in Writers, Crash(w)
      PROVE  AskedInv'
  <2>1. UNCHANGED <<rows, asked, evidence>> /\ at' = [at EXCEPT ![w] = "idle"]
        /\ budget'["appends"] = budget["appends"]
    BY <1>1, <1>6 DEF Crash, Spend, BudgetOK
  <2> QED BY <1>1, <1>4, <2>1 DEF Unchanged, TypeOK
<1>7. ASSUME NEW r \in Readers, ReadAnchor(r) \/ ReadRows(r)
      PROVE  AskedInv'
  <2>1. UNCHANGED <<rows, at, asked, budget, evidence>>
    BY <1>7 DEF ReadAnchor, ReadRows, writerVars
  <2> QED BY <1>4, <2>1 DEF Unchanged
<1>8. CASE LoseAnchor
  <2>1. UNCHANGED <<rows, at, asked>> /\ budget'["appends"] = budget["appends"]
        /\ (Unchanged' => Unchanged)
    BY <1>1, <1>8 DEF LoseAnchor, writerVars, Spend, BudgetOK, Unchanged
  <2> QED BY <1>4, <2>1
<1>9. CASE HistoryChanges
  <2>1. ~Unchanged' /\ budget'["appends"] = budget["appends"] /\ UNCHANGED <<at, asked>>
    BY <1>1, <1>9, ChangeIsLast
  <2> QED BY <2>1 DEF AskedInv
<1> QED BY <1>2, <1>3, <1>5, <1>6, <1>7, <1>8, <1>9 DEF Next, AppendStep

\* A change of history shows at once where ChangeInv says.
LEMMA ChangeShows ==
  ASSUME IInv, AskedInv, ChangeInv, HistoryChanges
  PROVE  ChangeInv'
<1>1. TypeOK /\ BudgetOK /\ rows \in Seq(RowSet)
  BY DEF IInv, TypeOK, RowSet
<1>2. /\ Unchanged /\ ~Unchanged' /\ budget'["changes"] = 0
      /\ budget'["appends"] = budget["appends"] /\ UNCHANGED <<anchor, at, asked, head>>
  BY <1>1, ChangeIsLast
<1>3. VerifyChain(rows) /\ (anchor = NoAnchor \/ InChain(anchor, rows))
      /\ \A w \in Writers : at[w] = "replacing" => Committed(w)
  BY <1>2 DEF IInv, ChainInv
<1>4. Len(rows) \in Nat /\ DOMAIN rows = 1..Len(rows)
  BY <1>1, LenProperties
<1>5. \A j \in DOMAIN rows : /\ rows[j] \in RowSet /\ rows[j].seq = j
                             /\ rows[j].digest = RecordHash(rows[j].record, rows[j].prev)
  <2>1. \A j \in DOMAIN rows : rows[j] \in RowSet
    BY <1>1, <1>4, ElementOfSeq
  <2> QED BY <1>3, <2>1 DEF VerifyChain, RowFollows
<1>6. ASSUME NEW named \in Heads, InChain(named, rows),
             named.seq \in DOMAIN rows' =>
               rows'[named.seq].record # rows[named.seq].record
      PROVE  Gone(named)'
  <2>1. /\ named.digest # <<>> /\ named.seq \in DOMAIN rows
        /\ NewestOf(named.digest) = rows[named.seq].record
    BY <1>1, <1>3, <1>6, NamedRecord
  <2> QED BY <1>2, <1>4, <1>6, <2>1 DEF Gone, AskedInv
<1>7. ASSUME NEW i \in DOMAIN rows, evidence' = ShowsIn(i),
             \A j \in DOMAIN rows' : j >= i => rows'[j].record # rows[j].record,
             ~\E w \in Writers : at[w] = "replacing" /\ anchor # NoAnchor
                                 /\ i <= anchor.seq /\ ~(head[w].seq + 1 >= i)
      PROVE  ChangeInv'
  <2>1. evidence' # "chain" /\ (evidence' = "anchor" => anchor # NoAnchor /\ i <= anchor.seq)
    BY <1>2, <1>7 DEF ShowsIn, Unchanged
  <2>2. ASSUME evidence' = "anchor"
        PROVE  /\ anchor # NoAnchor /\ Gone(anchor)'
               /\ \A w \in Writers : at[w] = "replacing" => Gone(OwnRow(w))'
    <3>1. anchor # NoAnchor /\ anchor \in Heads /\ i <= anchor.seq /\ InChain(anchor, rows)
      BY <1>1, <1>3, <2>1, <2>2 DEF TypeOK
    <3>2. Gone(anchor)'
      <4>1. Gone(anchor)' \/ anchor' # anchor
        <5>1. anchor.seq \in DOMAIN rows' => rows'[anchor.seq].record # rows[anchor.seq].record
          BY <1>7, <3>1
        <5> QED BY <1>2, <1>6, <3>1, <5>1 DEF Gone
      <4> QED BY <1>2, <4>1
    <3>3. ASSUME NEW w \in Writers, at[w] = "replacing" PROVE Gone(OwnRow(w))'
      <4>1. OwnRow(w) \in Heads /\ OwnRow(w).seq = head[w].seq + 1 /\ OwnRow(w)' = OwnRow(w)
        BY <1>1, <1>2, OwnRowIsHead DEF OwnRow
      <4>2. InChain(OwnRow(w), rows) /\ head[w].seq + 1 >= i
        BY <1>3, <1>7, <3>1, <3>3 DEF Committed, OwnRow
      <4>3. OwnRow(w).seq \in DOMAIN rows' =>
              rows'[OwnRow(w).seq].record # rows[OwnRow(w).seq].record
        BY <1>7, <4>1, <4>2
      <4>4. PICK named \in Heads : named = OwnRow(w)
        BY <4>1
      <4>5. Gone(named)'
        BY <1>6, <4>2, <4>3, <4>4
      <4> QED BY <4>1, <4>4, <4>5 DEF Gone
    <3> QED BY <3>1, <3>2, <3>3
  <2> QED BY <1>2, <2>1, <2>2 DEF ChangeInv
<1>8. ASSUME NEW i \in DOMAIN rows, LoseNewestRows(i)
      PROVE  ChangeInv'
  <2>1. DOMAIN rows' = 1..(i - 1) /\ i \in Nat /\ evidence' = ShowsIn(i)
    <3>1. i \in 1..Len(rows) /\ rows' = SubSeq(rows, 1, i - 1) /\ evidence' = ShowsIn(i)
      BY <1>4, <1>8 DEF LoseNewestRows
    <3> QED BY <1>1, <1>4, <3>1, SubSeqProperties, LenProperties
  <2>2. \A j \in DOMAIN rows' : ~(j >= i)
    BY <2>1
  <2>3. ~\E w \in Writers : at[w] = "replacing" /\ anchor # NoAnchor
                            /\ i <= anchor.seq /\ ~(head[w].seq + 1 >= i)
    BY <1>1, <2>1 DEF IInv, WriterInv, TypeOK, Heads
  <2> QED BY <1>7, <2>1, <2>2, <2>3
<1>9. ASSUME NEW i \in DOMAIN rows, AlterRow(i)
      PROVE  ChangeInv'
  <2>1. rows' = [rows EXCEPT ![i] = [rows[i] EXCEPT !.record = Altered]] /\ evidence' = "chain"
    BY <1>9 DEF AlterRow
  <2>2. /\ i \in DOMAIN rows' /\ rows'[i].record = Altered /\ rows'[i].prev = rows[i].prev
        /\ rows'[i].digest = rows[i].digest
    BY <1>5, <2>1 DEF RowSet
  <2>3. rows[i].record # Altered
    <3>1. rows[i].record.id > budget["appends"] /\ budget["appends"] \in Nat
      BY <1>1, <1>2 DEF AskedInv, BudgetOK, Ids
    <3>2. Altered.id = 0
      BY DEF Altered
    <3> QED BY <3>1, <3>2
  <2>4. RecordHash(Altered, rows[i].prev) # RecordHash(rows[i].record, rows[i].prev)
    <3>1. rows[i].prev \in Seq(Records) /\ rows[i].record \in Records /\ Altered \in Records
      BY <1>5, AlteredIsRecord DEF RowSet
    <3> QED BY <2>3, <3>1, NewestOfHash
  <2>5. ~RowFollows(rows', i)
    BY <1>5, <2>2, <2>4 DEF RowFollows
  <2> QED BY <1>2, <2>1, <2>2, <2>5 DEF ChangeInv, VerifyChain
<1>10. ASSUME NEW i \in DOMAIN rows, DropRow(i)
       PROVE  ChangeInv'
  <2> DEFINE front == SubSeq(rows, 1, i - 1)
             back == SubSeq(rows, i + 1, Len(rows))
  <2>1. i \in 1..Len(rows) /\ i < Len(rows) /\ rows' = front \o back /\ evidence' = "chain"
    BY <1>4, <1>10 DEF DropRow
  <2>2. front \in Seq(RowSet) /\ Len(front) = i - 1
    BY <1>1, <1>4, <2>1, SubSeqProperties
  <2>3. /\ back \in Seq(RowSet) /\ Len(back) = Len(rows) - i
        /\ back[1] = rows[i + 1]
    BY <1>1, <1>4, <2>1, SubSeqProperties
  <2>4. i \in DOMAIN rows' /\ rows'[i] = rows[i + 1]
    <3> HIDE DEF front, back
    <3>1. /\ front \o back \in Seq(RowSet) /\ Len(front \o back) = Len(front) + Len(back)
          /\ \A j \in 1..(Len(front) + Len(back)) :
               (front \o back)[j] = IF j <= Len(front) THEN front[j] ELSE back[j - Len(front)]
      BY <2>2, <2>3, ConcatProperties
    <3>2. i \in 1..(Len(front) + Len(back)) /\ ~(i <= Len(front)) /\ i - Len(front) = 1
      BY <1>4, <2>1, <2>2, <2>3
    <3>3. rows'[i] = back[1]
      BY <2>1, <3>1, <3>2
    <3> QED BY <2>1, <2>3, <3>1, <3>2, <3>3, LenProperties
  <2>5. rows'[i].seq = i + 1
    <3> HIDE DEF front, back
    <3>1. i + 1 \in DOMAIN rows
      BY <1>4, <2>1
    <3>2. rows[i + 1].seq = i + 1
      BY <1>5, <3>1
    <3> QED BY <2>4, <3>2
  <2>6. i + 1 # i /\ i \in DOMAIN rows'
    BY <1>4, <2>1, <2>4
  <2>7. ~RowFollows(rows', i)
    BY ONLY <2>5, <2>6 DEF RowFollows
  <2> QED BY <1>2, <2>1, <2>6, <2>7 DEF ChangeInv, VerifyChain
<1>11. CASE ReplaceNewestRow
  <2>1. PICK n \in DOMAIN rows : n = Len(rows)
    BY <1>1, <1>4, <1>11, EmptySeq DEF ReplaceNewestRow
  <2>2. /\ rows' = [rows EXCEPT ![n] = Row(rows[n].seq, Altered, rows[n].prev)]
        /\ evidence' = ShowsIn(n)
    BY <1>11, <2>1 DEF ReplaceNewestRow
  <2>3. DOMAIN rows' = DOMAIN rows /\ rows'[n].record = Altered
    BY <1>1, <2>1, <2>2 DEF Row
  <2>4. rows[n].record # Altered
    <3>1. rows[n].record.id > budget["appends"] /\ budget["appends"] \in Nat
      BY <1>1, <1>2 DEF AskedInv, BudgetOK, Ids
    <3>2. Altered.id = 0
      BY DEF Altered
    <3> QED BY <3>1, <3>2
  <2>5. \A j \in DOMAIN rows' : j >= n => rows'[j].record # rows[j].record
    BY <1>4, <2>1, <2>3, <2>4
  <2>6. ~\E w \in Writers : at[w] = "replacing" /\ anchor # NoAnchor
                            /\ n <= anchor.seq /\ ~(head[w].seq + 1 >= n)
    BY <1>1, <1>4, <2>1 DEF IInv, WriterInv, TypeOK, Heads
  <2> QED BY <1>7, <2>2, <2>5, <2>6
<1> QED BY <1>8, <1>9, <1>10, <1>11 DEF HistoryChanges

\* No step of a writer hides a change that shows.
LEMMA StepKeepsChange ==
  ASSUME IInv, AskedInv, ChangeInv, Next
  PROVE  ChangeInv'
<1>1. /\ TypeOK /\ BudgetOK /\ budget["appends"] \in Nat /\ rows \in Seq(RowSet)
      /\ budget["changes"] \in Nat
  BY DEF IInv, TypeOK, BudgetOK, Ids, RowSet
<1>2. \A w \in Writers : OwnRow(w) \in Heads /\ OwnRow(w).digest # <<>>
                         /\ NewestOf(OwnRow(w).digest) = asked[w]
  BY <1>1, OwnRowIsHead
<1>3. anchor # NoAnchor => anchor \in Heads
  BY <1>1 DEF TypeOK
<1>4. ASSUME rows' = rows, UNCHANGED evidence, budget'["changes"] = budget["changes"],
             anchor' = anchor, budget'["appends"] \in Nat,
             budget'["appends"] <= budget["appends"],
             \A w \in Writers : at'[w] = "inserting" =>
               \/ at[w] = "inserting" /\ asked'[w] = asked[w]
               \/ asked'[w].id <= budget["appends"],
             \A w \in Writers : at'[w] = "replacing" =>
               at[w] = "replacing" /\ head'[w] = head[w] /\ asked'[w] = asked[w]
      PROVE  ChangeInv'
  <2>1. ASSUME NEW named \in Heads, Gone(named) PROVE Gone(named)'
    BY <1>1, <1>4, <2>1, GoneStays
  <2>2. ASSUME evidence = "anchor", VerifyChain(rows)
        PROVE  /\ anchor' # NoAnchor /\ Gone(anchor)'
               /\ \A w \in Writers : at'[w] = "replacing" => Gone(OwnRow(w))'
    <3>1. anchor # NoAnchor /\ Gone(anchor) /\ anchor \in Heads
      BY <1>3, <2>2 DEF ChangeInv
    <3>2. PICK named \in Heads : named = anchor
      BY <3>1
    <3>3. Gone(anchor)'
      BY <1>4, <2>1, <3>1, <3>2 DEF Gone
    <3>4. ASSUME NEW w \in Writers, at'[w] = "replacing" PROVE Gone(OwnRow(w))'
      <4>1. Gone(OwnRow(w)) /\ OwnRow(w) \in Heads /\ OwnRow(w)' = OwnRow(w)
        BY <1>2, <1>4, <2>2, <3>4 DEF ChangeInv, OwnRow
      <4>2. PICK own \in Heads : own = OwnRow(w)
        BY <4>1
      <4>3. Gone(own)'
        BY <2>1, <4>1, <4>2
      <4> QED BY <4>1, <4>2, <4>3 DEF Gone
    <3> QED BY <1>4, <3>1, <3>3, <3>4
  <2> QED BY <1>4, <2>2 DEF ChangeInv, Unchanged
<1>5. ASSUME NEW w \in Writers, NEW order \in Orders \cup {NoOrder}, Begin(w, order)
      PROVE  ChangeInv'
  <2>1. /\ UNCHANGED <<rows, anchor, evidence>>
        /\ asked' = [asked EXCEPT ![w] = [order |-> order, id |-> budget["appends"]]]
        /\ at' = [at EXCEPT ![w] = "inserting"]
        /\ at[w] \in {"idle", "ok", "failed"}
        /\ budget' = [budget EXCEPT !["appends"] = budget["appends"] - 1]
        /\ budget["appends"] > 0 /\ head' = [head EXCEPT ![w] = LastRow(rows)]
    BY <1>5 DEF Begin, Spend
  <2>2. budget'["appends"] = budget["appends"] - 1 /\ budget'["changes"] = budget["changes"]
    BY <1>1, <2>1 DEF BudgetOK
  <2>3. /\ at'[w] = "inserting" /\ asked'[w].id = budget["appends"]
        /\ \A x \in Writers : x # w => at'[x] = at[x] /\ asked'[x] = asked[x]
                                       /\ head'[x] = head[x]
    BY <1>1, <2>1 DEF TypeOK
  <2> QED BY <1>1, <1>4, <2>1, <2>2, <2>3
<1>6. ASSUME NEW w \in Writers, Commit(w)
      PROVE  ChangeInv'
  <2> DEFINE row == Row(head[w].seq + 1, asked[w], head[w].digest)
  <2>1. row \in RowSet /\ row.record = asked[w]
    BY <1>1, HashIsDigest DEF Row, RowSet, Heads, TypeOK
  <2>2. /\ rows' = Append(rows, row) /\ at[w] = "inserting" /\ at'[w] = "committed"
        /\ UNCHANGED <<anchor, asked, head, budget, evidence>>
        /\ \A x \in Writers : x # w => at'[x] = at[x]
    BY <1>1, <1>6 DEF Commit, TypeOK
  <2>3. VerifyChain(rows') => VerifyChain(rows)
    BY <1>1, <2>1, <2>2, BreaksStay
  <2>4. ASSUME NEW named \in Heads, Gone(named) PROVE Gone(named)'
    <3>1. \E r \in RowSet, x \in Writers :
            /\ rows \in Seq(RowSet) /\ rows' = Append(rows, r)
            /\ at[x] = "inserting" /\ r.record = asked[x]
      BY <1>1, <2>1, <2>2
    <3>2. \A x \in Writers : at'[x] = "inserting" => at[x] = "inserting" /\ asked'[x] = asked[x]
      BY <2>2
    <3>3. budget' = budget /\ budget'["appends"] \in Nat /\ budget'["appends"] <= budget["appends"]
      BY <1>1, <2>2
    <3> QED BY <1>1, <2>4, <3>1, <3>2, <3>3, GoneStays
  <2>5. ASSUME evidence = "anchor", VerifyChain(rows)
        PROVE  /\ anchor # NoAnchor /\ Gone(anchor)'
               /\ \A x \in Writers : at'[x] = "replacing" => Gone(OwnRow(x))'
    <3>1. anchor # NoAnchor /\ Gone(anchor) /\ anchor \in Heads
      BY <1>3, <2>5 DEF ChangeInv
    <3>2. PICK named \in Heads : named = anchor
      BY <3>1
    <3>3. Gone(anchor)'
      BY <2>2, <2>4, <3>1, <3>2 DEF Gone
    <3>4. ASSUME NEW x \in Writers, at'[x] = "replacing" PROVE Gone(OwnRow(x))'
      <4>1. Gone(OwnRow(x)) /\ OwnRow(x) \in Heads /\ OwnRow(x)' = OwnRow(x)
        BY <1>2, <2>2, <2>5, <3>4 DEF ChangeInv, OwnRow
      <4>2. PICK own \in Heads : own = OwnRow(x)
        BY <4>1
      <4>3. Gone(own)'
        BY <2>4, <4>1, <4>2
      <4> QED BY <4>1, <4>2, <4>3 DEF Gone
    <3> QED BY <3>1, <3>3, <3>4
  <2> QED BY <2>2, <2>3, <2>5 DEF ChangeInv, Unchanged
<1>7. ASSUME NEW w \in Writers, RollBack(w) \/ LockAnchor(w)
      PROVE  ChangeInv'
  <2>1. UNCHANGED <<rows, anchor, asked, head, budget, evidence>>
    BY <1>7 DEF RollBack, LockAnchor
  <2>2. \A x \in Writers : at'[x] \in {"inserting", "replacing"} => at'[x] = at[x]
    BY <1>1, <1>7 DEF RollBack, LockAnchor, TypeOK
  <2> QED BY <1>1, <1>4, <2>1, <2>2
<1>8. ASSUME NEW w \in Writers, JudgeAnchor(w)
      PROVE  ChangeInv'
  <2>1. UNCHANGED <<rows, anchor, asked, head, budget, evidence>>
    BY <1>8 DEF JudgeAnchor
  <2>2. CASE evidence = "anchor" /\ VerifyChain(rows)
    <3>1. anchor # NoAnchor /\ Gone(anchor)
      BY <2>2 DEF ChangeInv
    <3>2. AnchorDisputesChain(anchor, rows)
      <4>1. SUFFICES ASSUME NEW i \in DOMAIN rows, rows[i].seq = anchor.seq,
                            rows[i].digest = anchor.digest
                     PROVE  FALSE
        BY DEF AnchorDisputesChain
      <4>2. anchor.seq = i /\ NewestOf(anchor.digest) = rows[i].record
        BY <1>1, <2>2, <4>1, DigestNamesRecord
      <4> QED BY <3>1, <4>2 DEF Gone
    <3>3. at' = [at EXCEPT ![w] = "ok"]
      BY <1>8, <3>1, <3>2 DEF JudgeAnchor
    <3>4. \A x \in Writers : at'[x] \in {"inserting", "replacing"} => at'[x] = at[x]
      BY <1>1, <3>3 DEF TypeOK
    <3> QED BY <1>1, <1>4, <2>1, <3>4
  <2>3. CASE ~(evidence = "anchor" /\ VerifyChain(rows))
    BY <2>1, <2>3 DEF ChangeInv, Unchanged
  <2> QED BY <2>2, <2>3
<1>9. ASSUME NEW w \in Writers, ReplaceAnchor(w)
      PROVE  ChangeInv'
  <2>1. /\ UNCHANGED <<rows, asked, head, budget, evidence>> /\ anchor' \in {anchor, OwnRow(w)}
        /\ at[w] = "replacing" /\ at' = [at EXCEPT ![w] = "ok"]
    BY <1>9 DEF ReplaceAnchor, OwnRow
  <2>2. \A x \in Writers : at'[x] \in {"inserting", "replacing"} => at'[x] = at[x]
    BY <1>1, <2>1 DEF TypeOK
  <2>3. ASSUME NEW named \in Heads, Gone(named) PROVE Gone(named)'
    BY <1>1, <2>1, <2>2, <2>3, GoneStays
  <2>4. ASSUME evidence = "anchor", VerifyChain(rows)
        PROVE  /\ anchor' # NoAnchor /\ Gone(anchor)'
               /\ \A x \in Writers : at'[x] = "replacing" => Gone(OwnRow(x))'
    <3>1. anchor # NoAnchor /\ Gone(anchor) /\ anchor \in Heads /\ Gone(OwnRow(w))
      BY <1>3, <2>1, <2>4 DEF ChangeInv
    <3>2. PICK named \in Heads : named = anchor' /\ Gone(named)
      BY <1>2, <2>1, <3>1
    <3>3. anchor' # NoAnchor
      <4>1. CASE anchor' = anchor
        BY <3>1, <4>1
      <4>2. CASE anchor' # anchor
        BY <1>2, <2>1, <4>2, NoAnchorIsNoRow DEF Heads
      <4> QED BY <4>1, <4>2
    <3>4. Gone(anchor)'
      BY <2>3, <3>2 DEF Gone
    <3>5. ASSUME NEW x \in Writers, at'[x] = "replacing" PROVE Gone(OwnRow(x))'
      <4>1. Gone(OwnRow(x)) /\ OwnRow(x) \in Heads /\ OwnRow(x)' = OwnRow(x)
        BY <1>2, <2>1, <2>2, <2>4, <3>5 DEF ChangeInv, OwnRow
      <4>2. PICK own \in Heads : own = OwnRow(x)
        BY <4>1
      <4>3. Gone(own)'
        BY <2>3, <4>1, <4>2
      <4> QED BY <4>1, <4>2, <4>3 DEF Gone
    <3> QED BY <3>3, <3>4, <3>5
  <2> QED BY <2>1, <2>4 DEF ChangeInv, Unchanged
<1>10. ASSUME NEW w \in Writers, Crash(w)
       PROVE  ChangeInv'
  <2>1. /\ UNCHANGED <<rows, anchor, asked, head, evidence>> /\ at' = [at EXCEPT ![w] = "idle"]
        /\ budget'["appends"] = budget["appends"] /\ budget'["changes"] = budget["changes"]
    BY <1>1, <1>10 DEF Crash, Spend, BudgetOK
  <2>2. \A x \in Writers : at'[x] \in {"inserting", "replacing"} => at'[x] = at[x]
    BY <1>1, <2>1 DEF TypeOK
  <2> QED BY <1>1, <1>4, <2>1, <2>2
<1>11. ASSUME NEW r \in Readers, ReadAnchor(r) \/ ReadRows(r)
       PROVE  ChangeInv'
  <2>1. UNCHANGED <<rows, anchor, at, asked, head, budget, evidence>>
    BY <1>11 DEF ReadAnchor, ReadRows, writerVars
  <2> QED BY <1>1, <1>4, <2>1
<1>12. CASE LoseAnchor
  <2>1. /\ rows' = rows /\ budget'["changes"] = budget["changes"]
        /\ evidence' # "anchor" /\ (Unchanged' <=> Unchanged)
        /\ (evidence' = "chain" => evidence = "chain")
    BY <1>1, <1>12 DEF LoseAnchor, Spend, BudgetOK, Unchanged
  <2> QED BY <2>1 DEF ChangeInv
<1>13. CASE HistoryChanges
  BY <1>13, ChangeShows
<1> QED BY <1>5, <1>6, <1>7, <1>8, <1>9, <1>10, <1>11, <1>12, <1>13 DEF Next, AppendStep

\* History that is changed once, in the middle of the chain or under the anchor, fails every
\* later verification, for any number of writers, readers, appends and deaths (verify and
\* _write_anchor in journal.py).
THEOREM OneChangeIsSeen ==
  ASSUME MaxChanges <= 1
  PROVE  Spec => []ChangesStayVisible
<1>1. Init => AskedInv /\ ChangeInv
  <2> SUFFICES ASSUME Init PROVE AskedInv /\ ChangeInv
    OBVIOUS
  <2> QED BY BoundsAreNaturals DEF Init, AskedInv, ChangeInv, Unchanged
<1>2. IInv /\ AskedInv /\ ChangeInv /\ [Next]_vars => (AskedInv /\ ChangeInv)'
  <2>1. CASE Next
    BY <2>1, StepKeepsAsked, StepKeepsChange
  <2>2. CASE UNCHANGED vars
    BY <2>2 DEF vars, writerVars, AskedInv, ChangeInv, Unchanged, VerifyChain, RowFollows, Gone,
                OwnRow
  <2> QED BY <2>1, <2>2
<1>3. IInv /\ AskedInv /\ ChangeInv => ChangesStayVisible
  <2> SUFFICES ASSUME IInv, ChangeInv, evidence \in {"anchor", "chain"}, Verify(anchor, rows)
               PROVE  FALSE
    BY DEF ChangesStayVisible
  <2>1. evidence = "anchor" /\ VerifyChain(rows) /\ anchor # NoAnchor /\ Gone(anchor)
    BY DEF ChangeInv, Verify
  <2>2. anchor \in Heads /\ anchor.seq <= Len(rows) /\ rows[anchor.seq].digest = anchor.digest
    BY <2>1 DEF Verify, IInv, TypeOK
  <2>3. anchor.seq \in DOMAIN rows
    <3>1. anchor.seq \in Nat /\ anchor.seq # 0 /\ anchor.seq <= Len(rows)
      BY <2>1, <2>2 DEF Heads, Gone
    <3>2. Len(rows) \in Nat /\ DOMAIN rows = 1..Len(rows)
      BY LenProperties DEF IInv, TypeOK
    <3> QED BY <3>1, <3>2
  <2>4. NewestOf(anchor.digest) = rows[anchor.seq].record
    BY <2>1, <2>2, <2>3, DigestNamesRecord DEF IInv
  <2> QED BY <2>1, <2>3, <2>4 DEF Gone
<1> QED BY <1>1, <1>2, <1>3, Invariance, PTL DEF Spec

===============================================================================
