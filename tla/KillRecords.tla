----------------------------- MODULE KillRecords -----------------------------
(***************************************************************************)
(* How src/ismet/execution/journal.py reads the kill switch out of the     *)
(* journal's rows: the loop of _kill_state_from, against what its          *)
(* docstring says every reader must agree on.                              *)
(***************************************************************************)
EXTENDS Integers, Sequences

\* An engage with and without cancel_open, a release that names its operator and one
\* that does not, a kill record that cannot be read, and any other record.
Kinds == {"sweep", "halt", "release", "unnamed", "unreadable", "other"}

KillState(engaged, seq, cancel_open) ==
  [engaged |-> engaged, seq |-> seq, cancel_open |-> cancel_open]
KillStates == [engaged : BOOLEAN, seq : Nat, cancel_open : BOOLEAN]
Unset == KillState(FALSE, 0, FALSE)

AfterRow(before, seq, kind) ==
  CASE kind \in {"other", "unnamed"} -> before
    [] kind = "unreadable" -> KillState(TRUE, seq, before.cancel_open)
    [] kind = "release"    -> KillState(FALSE, seq, FALSE)
    [] OTHER               ->
         KillState(TRUE, seq, kind = "sweep" \/ (before.engaged /\ before.cancel_open))

\* The state the rows give, whose seqs are their places.
KillStateFrom(rows) ==
  LET read[n \in 0..Len(rows)] ==
        IF n = 0 THEN Unset ELSE AfterRow(read[n - 1], n, rows[n])
  IN  read[Len(rows)]

-------------------------------------------------------------------------------
\* Among the first n rows.
Deciding(rows, n, seq) == seq \in 1..n /\ rows[seq] \notin {"other", "unnamed"}
SinceRelease(rows, n, seq) == \A later \in seq..n : rows[later] # "release"

\* The switch is engaged from a record that engages it, or that nobody can read, until a
\* release that names its operator, and cancels what is open if any engage since then
\* asked for it: a later, narrower or unreadable record does not stop the sweep.
AskedFor(rows, n, state) ==
  /\ state.engaged
       <=> \E seq \in 1..n : Deciding(rows, n, seq) /\ SinceRelease(rows, n, seq)
  /\ state.cancel_open
       <=> \E seq \in 1..n : rows[seq] = "sweep" /\ SinceRelease(rows, n, seq)
  /\ \A seq \in 1..n : Deciding(rows, n, seq) => seq <= state.seq
  /\ state.seq = 0 \/ Deciding(rows, n, state.seq)
===============================================================================
