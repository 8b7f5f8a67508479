------------------------------- MODULE Journal -------------------------------
(***************************************************************************)
(* SqliteJournal of src/ismet/execution/journal.py: one database file and  *)
(* its anchor file, shared by the connections of several processes.  A     *)
(* writer is one connection; its own lock makes it append one record at a  *)
(* time.  Append is two transactions: the record's, and one that only      *)
(* holds the write lock while the anchor file is judged and replaced.      *)
(*                                                                         *)
(* Abstractions.  A digest is what it commits to, the records up to its    *)
(* own, so equal digests mean equal histories.  Two appends never have the *)
(* same content, as their times and payloads differ; id stands for those.  *)
(* A transaction that fails, or whose writer dies, leaves no trace.        *)
(***************************************************************************)
EXTENDS Integers, Sequences, FiniteSets

CONSTANTS Writers, Readers, Orders, NoOrder, NoAnchor,
          MaxAppends,      \* how many appends begin
          MaxCrashes,      \* how often a writer dies
          MaxAnchorLosses, \* how often the anchor file is lost
          MaxChanges       \* how often history is changed by something else than append

ASSUME BoundsAreNaturals == {MaxAppends, MaxCrashes, MaxAnchorLosses, MaxChanges} \subseteq Nat
ASSUME NoOrderIsNoOrder == NoOrder \notin Orders

Nobody == "nobody"
ASSUME NobodyIsNoWriter == Nobody \notin Writers

VARIABLES
  rows,     \* the committed rows, by rowid order
  anchor,   \* the row the anchor file names, or NoAnchor: missing or unreadable
  lock,     \* who holds the database's write lock
  at,       \* the pc of each writer
  asked,    \* the record each writer appends
  head,     \* the seq and the digest each writer's row follows on
  seen,     \* the anchor each reader read
  verdict,  \* what its verification found, once it read the rows too
  budget,
  evidence  \* history: where a change of history must show, "pristine" before the first

writerVars == <<lock, at, asked, head>>
vars == <<rows, anchor, writerVars, seen, verdict, budget, evidence>>

Spend(what) == budget[what] > 0 /\ budget' = [budget EXCEPT ![what] = @ - 1]

-------------------------------------------------------------------------------
\* The chain.
Ids == 0..MaxAppends
Records == [order : Orders \cup {NoOrder}, id : Ids]
Genesis == <<>>
ASSUME NoAnchorIsNoRow == NoAnchor \notin [seq : Nat, digest : Seq(Records)]
RecordHash(record, prev) == Append(prev, record)

Row(seq, record, prev) ==
  [seq |-> seq, record |-> record, prev |-> prev, digest |-> RecordHash(record, prev)]

RowFollows(chain, i) ==
  /\ chain[i].seq = i
  /\ chain[i].prev = IF i = 1 THEN Genesis ELSE chain[i - 1].digest
  /\ chain[i].digest = RecordHash(chain[i].record, chain[i].prev)

VerifyChain(chain) == \A i \in DOMAIN chain : RowFollows(chain, i)

SlipAnchorDisputesChain(named, chain) == named.seq > Len(chain)
AnchorDisputesChain(named, chain) ==
  ~\E i \in DOMAIN chain : chain[i].seq = named.seq /\ chain[i].digest = named.digest

Verify(named, chain) ==
  /\ VerifyChain(chain)
  /\ named # NoAnchor =>
       named.seq <= Len(chain) /\ chain[named.seq].digest = named.digest

LastRow(chain) ==
  IF chain = <<>> THEN [seq |-> 0, digest |-> Genesis]
  ELSE [seq |-> chain[Len(chain)].seq, digest |-> chain[Len(chain)].digest]

-------------------------------------------------------------------------------
\* Append: BEGIN IMMEDIATE, read the head, insert, commit.
SlipBegin(w, order) ==
  /\ at[w] \in {"idle", "ok", "failed"} /\ lock = Nobody /\ Spend("appends")
  /\ asked' = [asked EXCEPT ![w] = [order |-> order, id |-> budget["appends"]]]
  /\ head' = [head EXCEPT ![w] = LastRow(rows)]
  /\ lock' = w /\ at' = [at EXCEPT ![w] = "inserting"]
  /\ anchor' = [seq |-> Len(rows) + 1, digest |-> RecordHash(asked'[w], LastRow(rows).digest)]
  /\ UNCHANGED <<rows, seen, verdict, evidence>>
Begin(w, order) ==
  /\ at[w] \in {"idle", "ok", "failed"} /\ lock = Nobody /\ Spend("appends")
  /\ asked' = [asked EXCEPT ![w] = [order |-> order, id |-> budget["appends"]]]
  /\ head' = [head EXCEPT ![w] = LastRow(rows)]
  /\ lock' = w /\ at' = [at EXCEPT ![w] = "inserting"]
  /\ UNCHANGED <<rows, anchor, seen, verdict, evidence>>

IntentOnRecord(chain, order) ==
  order # NoOrder /\ \E i \in DOMAIN chain : chain[i].record.order = order

SlipCommit(w) ==
  /\ at[w] = "inserting"
  /\ rows' = Append(rows, Row(head[w].seq + 1, asked[w], head[w].digest))
  /\ lock' = Nobody /\ at' = [at EXCEPT ![w] = "committed"]
  /\ UNCHANGED <<anchor, asked, head, seen, verdict, budget, evidence>>
Commit(w) ==
  /\ at[w] = "inserting" /\ ~IntentOnRecord(rows, asked[w].order)
  /\ rows' = Append(rows, Row(head[w].seq + 1, asked[w], head[w].digest))
  /\ lock' = Nobody /\ at' = [at EXCEPT ![w] = "committed"]
  /\ UNCHANGED <<anchor, asked, head, seen, verdict, budget, evidence>>

\* The order has an intent already, or the database cannot be written.
RollBack(w) ==
  /\ at[w] = "inserting"
  /\ lock' = Nobody /\ at' = [at EXCEPT ![w] = "failed"]
  /\ UNCHANGED <<rows, anchor, asked, head, seen, verdict, budget, evidence>>

\* The anchor is best effort: whatever happens to it, the append has succeeded.
LockAnchor(w) ==
  /\ at[w] = "committed"
  /\ \/ lock = Nobody /\ lock' = w /\ at' = [at EXCEPT ![w] = "judging"]
     \/ lock # Nobody /\ at' = [at EXCEPT ![w] = "ok"] /\ UNCHANGED lock
  /\ UNCHANGED <<rows, anchor, asked, head, seen, verdict, budget, evidence>>

SlipJudgeAnchor(w) ==
  /\ at[w] = "judging"
  /\ IF anchor # NoAnchor /\ AnchorDisputesChain(anchor, rows)
     THEN lock' = Nobody /\ at' = [at EXCEPT ![w] = "ok"]
     ELSE at' = [at EXCEPT ![w] = "replacing"] /\ UNCHANGED lock
  /\ UNCHANGED <<rows, anchor, asked, head, seen, verdict, budget, evidence>>
JudgeAnchor(w) ==
  /\ at[w] = "judging"
  /\ IF anchor # NoAnchor /\ (AnchorDisputesChain(anchor, rows) \/ anchor.seq > head[w].seq)
     THEN lock' = Nobody /\ at' = [at EXCEPT ![w] = "ok"]
     ELSE at' = [at EXCEPT ![w] = "replacing"] /\ UNCHANGED lock
  /\ UNCHANGED <<rows, anchor, asked, head, seen, verdict, budget, evidence>>

\* The replace is atomic, or fails.
ReplaceAnchor(w) ==
  /\ at[w] = "replacing"
  /\ anchor' \in {anchor, [seq |-> head[w].seq + 1,
                           digest |-> RecordHash(asked[w], head[w].digest)]}
  /\ lock' = Nobody /\ at' = [at EXCEPT ![w] = "ok"]
  /\ UNCHANGED <<rows, asked, head, seen, verdict, budget, evidence>>

\* SQLite frees the write lock of a dead process and forgets its open transaction.
Crash(w) ==
  /\ at[w] \notin {"idle", "ok", "failed"} /\ Spend("crashes")
  /\ lock' = (IF lock = w THEN Nobody ELSE lock) /\ at' = [at EXCEPT ![w] = "idle"]
  /\ UNCHANGED <<rows, anchor, asked, head, seen, verdict, evidence>>

-------------------------------------------------------------------------------
\* Verify: the anchor is read before the rows.
ReadAnchor(r) ==
  /\ seen' = [seen EXCEPT ![r] = anchor] /\ verdict' = [verdict EXCEPT ![r] = "reading"]
  /\ UNCHANGED <<rows, anchor, writerVars, budget, evidence>>
ReadRows(r) ==
  /\ verdict[r] = "reading"
  /\ verdict' = [verdict EXCEPT ![r] = IF Verify(seen[r], rows) THEN "ok" ELSE "bad"]
  /\ UNCHANGED <<rows, anchor, writerVars, seen, budget, evidence>>

-------------------------------------------------------------------------------
\* What happens to the files besides append.
LoseAnchor ==
  /\ anchor # NoAnchor /\ Spend("anchorLosses")
  /\ anchor' = NoAnchor
  /\ evidence' = IF evidence = "anchor" THEN "none" ELSE evidence
  /\ UNCHANGED <<rows, writerVars, seen, verdict>>

\* A change of row i shows against the anchor, if that is at i or past it.
ShowsIn(i) ==
  IF anchor # NoAnchor /\ i <= anchor.seq THEN "anchor"
  ELSE IF evidence = "pristine" THEN "none" ELSE evidence

\* The newest rows are gone, as when an older copy is put back.
LoseNewestRows(i) ==
  /\ Spend("changes")
  /\ rows' = SubSeq(rows, 1, i - 1)
  /\ evidence' = ShowsIn(i)
  /\ UNCHANGED <<anchor, writerVars, seen, verdict>>

Altered == [order |-> NoOrder, id |-> 0]

\* One row's content changes, and nothing else.
AlterRow(i) ==
  /\ Spend("changes")
  /\ rows' = [rows EXCEPT ![i].record = Altered]
  /\ evidence' = "chain"
  /\ UNCHANGED <<anchor, writerVars, seen, verdict>>

\* A row from the middle is gone.
DropRow(i) ==
  /\ i < Len(rows) /\ Spend("changes")
  /\ rows' = SubSeq(rows, 1, i - 1) \o SubSeq(rows, i + 1, Len(rows))
  /\ evidence' = "chain"
  /\ UNCHANGED <<anchor, writerVars, seen, verdict>>

\* The newest row is another one, with the digest that fits it.
ReplaceNewestRow ==
  /\ rows # <<>> /\ Spend("changes")
  /\ LET n == Len(rows)
     IN  /\ rows' = [rows EXCEPT ![n] = Row(@.seq, Altered, @.prev)]
         /\ evidence' = ShowsIn(n)
  /\ UNCHANGED <<anchor, writerVars, seen, verdict>>

-------------------------------------------------------------------------------
Init ==
  /\ rows = <<>> /\ anchor = NoAnchor /\ lock = Nobody
  /\ at = [w \in Writers |-> "idle"]
  /\ asked = [w \in Writers |-> [order |-> NoOrder, id |-> 0]]
  /\ head = [w \in Writers |-> [seq |-> 0, digest |-> Genesis]]
  /\ seen = [r \in Readers |-> NoAnchor] /\ verdict = [r \in Readers |-> "none"]
  /\ budget = [appends |-> MaxAppends, crashes |-> MaxCrashes,
               anchorLosses |-> MaxAnchorLosses, changes |-> MaxChanges]
  /\ evidence = "pristine"

AppendStep(w) ==
  \/ Commit(w) \/ RollBack(w) \/ LockAnchor(w) \/ JudgeAnchor(w) \/ ReplaceAnchor(w)

HistoryChanges ==
  \/ \E i \in DOMAIN rows : LoseNewestRows(i) \/ AlterRow(i) \/ DropRow(i)
  \/ ReplaceNewestRow

Next ==
  \/ \E w \in Writers :
       (\E order \in Orders \cup {NoOrder} : Begin(w, order)) \/ AppendStep(w) \/ Crash(w)
  \/ \E r \in Readers : ReadAnchor(r) \/ ReadRows(r)
  \/ LoseAnchor
  \/ HistoryChanges

Spec == Init /\ [][Next]_vars

-------------------------------------------------------------------------------
(***************************************************************************)
(* Properties.                                                             *)
(***************************************************************************)
Heads == [seq : Nat, digest : Seq(Records)]
Pcs == {"idle", "inserting", "committed", "judging", "replacing", "ok", "failed"}

\* The variables keep their types, and the lock is held by who is in a transaction.
TypeOK ==
  /\ rows \in Seq([seq : Nat, record : Records, prev : Seq(Records), digest : Seq(Records)])
  /\ anchor \in Heads \cup {NoAnchor}
  /\ at \in [Writers -> Pcs] /\ asked \in [Writers -> Records] /\ head \in [Writers -> Heads]
  /\ lock \in Writers \cup {Nobody}
  /\ \A w \in Writers : lock = w <=> at[w] \in {"inserting", "judging", "replacing"}
  /\ seen \in [Readers -> Heads \cup {NoAnchor}]
  /\ verdict \in [Readers -> {"none", "reading", "ok", "bad"}]
  /\ evidence \in {"pristine", "none", "anchor", "chain"}

Unchanged == evidence = "pristine"

\* While rows are only appended, no verification fails, whatever the writers do between
\* its two reads and wherever they die.
NoFalseAlarm == Unchanged => \A r \in Readers : verdict[r] # "bad"

\* A slower writer never moves the anchor back past a faster one.
AnchorNeverMovesBack ==
  [][anchor # NoAnchor /\ anchor' # NoAnchor => anchor'.seq >= anchor.seq]_vars

\* History that was changed under the anchor, or in the middle of the chain, fails every
\* later verification: no append of any writer makes the journal verify clean again.
ChangesStayVisible == evidence \in {"anchor", "chain"} => ~Verify(anchor, rows)

\* What a writer has been told of its append: a row that is committed has landed.
Answered(pc) ==
  IF pc = "inserting" THEN "asked"
  ELSE IF pc \in {"committed", "judging", "replacing"} THEN "landed" ELSE pc

\* Until history is changed by something else, every step of every process keeps the
\* protocol's promises: the journal only grows, by one answered append at a time.
Log == INSTANCE JournalLog WITH
  log <- [i \in DOMAIN rows |-> rows[i].record],
  answer <- [w \in Writers |-> Answered(at[w])]
ImplementsLog == Log!Init /\ [][Unchanged' => Log!Next]_<<Log!vars, evidence>>
===============================================================================
