------------------------------- MODULE BarStore -------------------------------
(***************************************************************************)
(* The bitemporal bar store and the resumable backfill of                  *)
(* src/ismet/store.py: versions of bars by the time they became known,     *)
(* written by two processes over one SQLite file, and windows recorded as  *)
(* done across runs, failures and crashes.                                 *)
(*                                                                         *)
(* A transaction asks for the write lock, begins, inserts and commits.     *)
(* The steps of a backfill are what lies between its awaits and its        *)
(* transactions.                                                           *)
(*                                                                         *)
(* Abstractions.  There is one symbol and interval, with one bar a         *)
(* session; a version of it is its revision and its data.  Price scales    *)
(* and rows that no longer parse make a write fail, which a backfill       *)
(* counts as any other failure.  The range is two windows.  Sessions one   *)
(* and three lie in one window each; session two opens in the first, where *)
(* its bar is, and closes in the second.                                   *)
(***************************************************************************)
EXTENDS Integers, Sequences, FiniteSets, FiniteSetsExt

CONSTANTS MaxTime, MaxWrites, MaxRuns

VARIABLES
  clock,    \* the store's clock
  rows,     \* the versions on disk: of which bar, known when, with what
  txn,      \* per process, its write
  asOf,     \* a read with an as_of in the past, what it gave of each bar, and whether a
            \* write that began by then was still to commit
  done,     \* the windows on record as finished
  fill,     \* the backfill that runs, and its report
  spent     \* writes of the other process, and backfills begun

barVars == <<clock, rows, txn, asOf, done, fill, spent>>

Sessions == 1 .. 3
Windows == 1 .. 2
Holds == <<{1, 2}, {3}>>                  \* the bars stamped inside each window
Closes == <<{1}, {2, 3}>>                 \* the sessions that close in it
\* What the backfill's vendor gives, what another writer may have beside it, without a
\* revision number, and what supersedes both.
Ours == [revision |-> 0, data |-> 1]
Contents == {Ours, [revision |-> 0, data |-> 2], [revision |-> 1, data |-> 3]}
Nothing == [revision |-> -1, data |-> 0]
Processes == {"backfill", "other"}
NoTxn == [pc |-> "idle"]
NoFill == [pc |-> "idle"]

Init ==
  /\ clock = 1 /\ rows = {} /\ done = {}
  /\ txn = [p \in Processes |-> NoTxn]
  /\ asOf = [at |-> 0, gave |-> [bar \in Sessions |-> Nothing], beside |-> FALSE]
  /\ fill = NoFill
  /\ spent = [writes |-> 0, runs |-> 0]

-------------------------------------------------------------------------------
\* read: the version with the greatest known_at up to the cutoff, or Nothing.
Versions(table, bar) == {r \in table : r.bar = bar}
Newest(versions) == CHOOSE r \in versions : \A other \in versions : other.known <= r.known
Read(bar, cutoff) ==
  LET then == {r \in Versions(rows, bar) : r.known <= cutoff}
  IN  IF then = {} THEN Nothing ELSE Newest(then).content
Stored == {r.bar : r \in rows}

\* write, for one bar: unchanged, or a version with a knowledge time of its own, later than
\* that of any before.
Insert(table, bar, content, stamp) ==
  LET versions == Versions(table, bar)
      latest == Newest(versions)
      known == IF versions = {} THEN stamp ELSE Max({stamp, latest.known + 1})
  IN  IF versions # {} /\ (latest.content = content
                           \/ content.revision < latest.content.revision)
      THEN table
      ELSE table \cup {[bar |-> bar, known |-> known, content |-> content]}
\* BEGIN IMMEDIATE, and only then the clock.
LockFree == \A p \in Processes : txn[p].pc # "open"
SlipStamp(asked, begun) == asked
Stamp(asked, begun) == begun
Asks(p, bars) ==
  txn' = [txn EXCEPT ![p] = [pc |-> "asking", asked |-> clock, bars |-> bars]]
Begins(p) ==
  /\ txn[p].pc = "asking" /\ LockFree
  /\ txn' = [txn EXCEPT ![p] = [pc |-> "open", bars |-> txn[p].bars,
                                stamp |-> Stamp(txn[p].asked, clock)]]
  /\ UNCHANGED <<clock, rows, asOf, done, fill, spent>>
\* Commit: all of its bars, or none.
Commits(p) ==
  /\ txn[p].pc = "open"
  /\ LET bars == txn[p].bars
     IN  rows' = rows \cup UNION {Insert(rows, b, bars[b], txn[p].stamp) : b \in DOMAIN bars}
  /\ txn' = [txn EXCEPT ![p] = NoTxn]
\* Another process writes, a live feed or a correction.
OtherAsks ==
  /\ txn["other"].pc = "idle" /\ spent.writes < MaxWrites
  /\ spent' = [spent EXCEPT !.writes = @ + 1]
  /\ \E bar \in Sessions, content \in Contents : Asks("other", [b \in {bar} |-> content])
  /\ UNCHANGED <<clock, rows, asOf, done, fill>>
OtherCommits == Commits("other") /\ UNCHANGED <<clock, asOf, done, fill, spent>>
\* A research run notes what a past time looked like.  A version becomes visible when its
\* write commits, under a time that was read when it began.
OpenSince(at) == \E p \in Processes : txn[p].pc = "open" /\ txn[p].stamp <= at
ReadsPast ==
  /\ asOf.at = 0
  /\ \E at \in 1 .. clock - 1 :
       asOf' = [at |-> at, gave |-> [bar \in Sessions |-> Read(bar, at)],
                beside |-> OpenSince(at)]
  /\ UNCHANGED <<clock, rows, txn, done, fill, spent>>

-------------------------------------------------------------------------------
\* backfill, of the whole range or of its second window, with a calendar or without.
FillStarts ==
  /\ fill.pc = "idle" /\ spent.runs < MaxRuns
  /\ spent' = [spent EXCEPT !.runs = @ + 1]
  /\ \E from \in Windows, calendar \in BOOLEAN :
       fill' = [pc |-> "window", from |-> from, window |-> from, calendar |-> calendar,
                answer |-> {}, open |-> {}]
  /\ UNCHANGED <<clock, rows, txn, asOf, done>>
\* _sessions_without_bars: a session that began before the request is not required.
Due == {s \in Closes[fill.window] : fill.from = 2 => s # 2}
Missing == Due \ Stored
\* _backfill_window: a finished window is skipped, unless the calendar shows a gap in it.
Skips == fill.window \in done /\ (fill.calendar => Missing = {})
Continue(open) ==
  fill' = IF fill.window = 2 THEN [fill EXCEPT !.pc = "reported", !.open = open]
          ELSE [fill EXCEPT !.window = 2, !.open = open, !.pc = "window"]
FillSkips ==
  /\ fill.pc = "window" /\ Skips
  /\ Continue(fill.open)
  /\ UNCHANGED <<clock, rows, txn, asOf, done, spent>>
\* The vendor answers in part or in full, or fails; an empty answer is written too.
FillFetches ==
  /\ fill.pc = "window" /\ ~Skips
  /\ \E bars \in SUBSET Holds[fill.window] :
       /\ fill' = [fill EXCEPT !.pc = "writing", !.answer = bars]
       /\ Asks("backfill", [b \in bars |-> Ours])
  /\ UNCHANGED <<clock, rows, asOf, done, spent>>
FillFails ==
  /\ fill.pc \in {"window", "writing"} /\ ~(fill.pc = "window" /\ Skips)
  /\ Continue(fill.open \cup {fill.window})
  /\ txn' = [txn EXCEPT !["backfill"] = NoTxn]
  /\ UNCHANGED <<clock, rows, asOf, done, spent>>
FillWrites ==
  /\ fill.pc = "writing" /\ Commits("backfill")
  /\ fill' = [fill EXCEPT !.pc = "judging"]
  /\ UNCHANGED <<clock, asOf, done, spent>>
\* Each window has a session, so none is proven empty; the newest bar may still be forming.
FillJudges ==
  /\ fill.pc = "judging"
  /\ IF fill.answer = {} \/ (fill.calendar /\ Missing # {})
     THEN Continue(fill.open \cup {fill.window})
     ELSE \E forming \in BOOLEAN :
            IF forming THEN Continue(fill.open \cup {fill.window})
            ELSE fill' = [fill EXCEPT !.pc = "marking"]
  /\ UNCHANGED <<clock, rows, txn, asOf, done, spent>>
FillMarks ==
  /\ fill.pc = "marking"
  /\ done' = done \cup {fill.window}
  /\ Continue(fill.open)
  /\ UNCHANGED <<clock, rows, txn, asOf, spent>>
\* The report is read, or the process dies; what was committed stays.
FillEnds ==
  /\ fill.pc # "idle"
  /\ fill' = NoFill
  /\ txn' = [txn EXCEPT !["backfill"] = NoTxn]
  /\ UNCHANGED <<clock, rows, asOf, done, spent>>
Tick ==
  /\ clock < MaxTime /\ clock' = clock + 1
  /\ UNCHANGED <<rows, txn, asOf, done, fill, spent>>

Next ==
  \/ OtherAsks \/ OtherCommits \/ ReadsPast \/ Tick
  \/ \E p \in Processes : Begins(p)
  \/ FillStarts \/ FillSkips \/ FillFetches \/ FillFails \/ FillWrites \/ FillJudges
  \/ FillMarks \/ FillEnds
Spec == Init /\ [][Next]_barVars

-------------------------------------------------------------------------------
PastAsRead == \A bar \in Sessions : Read(bar, asOf.at) = asOf.gave[bar]
\* What a past time looked like does not change, whatever is written, and in whatever
\* order transactions get the lock (BarStore.write, BarStore.read).  The exception: the time
\* was read while a write that had begun by then was yet to commit.
PastStands == asOf.at # 0 /\ ~asOf.beside => PastAsRead
\* README.md:146 "History is reproducible": data is read as it stood at a past time, so
\* reading that time once more gives the same.
PastNeverChanges == asOf.at # 0 => PastAsRead
\* A backfill that calls itself complete, with a calendar, has a bar for each session that
\* was wholly requested, whatever earlier runs recorded as done (backfill, BackfillReport).
CompleteMeansStored ==
  fill.pc = "reported" /\ fill.calendar /\ fill.open = {}
    => Sessions \ (IF fill.from = 2 THEN {1, 2} ELSE {}) \subseteq Stored
StoreIsHonest == PastStands /\ CompleteMeansStored
===============================================================================
