------------------------------ MODULE JournalLog ------------------------------
(***************************************************************************)
(* What the Journal protocol of src/ismet/execution/journal.py promises to *)
(* the order managers and tools that share one: an append-only log that    *)
(* holds at most one intent for each order, and in which a record has      *)
(* landed before append returns, and has not if append raises.             *)
(***************************************************************************)
EXTENDS Integers, Sequences

CONSTANTS Writers, Orders, NoOrder, Ids

Records == [order : Orders \cup {NoOrder}, id : Ids]

VARIABLES
  log,    \* the records, oldest first
  asked,  \* the record each writer is appending, or was
  answer  \* "idle", "asked", "landed", and then "ok", "failed" or "idle" again

vars == <<log, asked, answer>>

\* A record with an order is that order's intent.
IntentOnRecord(records, order) ==
  order # NoOrder /\ \E i \in DOMAIN records : records[i].order = order

Init ==
  /\ log = <<>> /\ answer = [w \in Writers |-> "idle"]
  /\ asked = [w \in Writers |-> [order |-> NoOrder, id |-> 0]]

Ask(w, record) ==
  /\ answer[w] \in {"idle", "ok", "failed"}
  /\ asked' = [asked EXCEPT ![w] = record] /\ answer' = [answer EXCEPT ![w] = "asked"]
  /\ UNCHANGED log

Land(w) ==
  /\ answer[w] = "asked" /\ ~IntentOnRecord(log, asked[w].order)
  /\ log' = Append(log, asked[w]) /\ answer' = [answer EXCEPT ![w] = "landed"]
  /\ UNCHANGED asked

Succeed(w) ==
  /\ answer[w] = "landed"
  /\ answer' = [answer EXCEPT ![w] = "ok"] /\ UNCHANGED <<log, asked>>
Fail(w) ==
  /\ answer[w] = "asked"
  /\ answer' = [answer EXCEPT ![w] = "failed"] /\ UNCHANGED <<log, asked>>

\* The writer's process dies, and nobody hears the answer.
Die(w) == answer' = [answer EXCEPT ![w] = "idle"] /\ UNCHANGED <<log, asked>>

Next ==
  \E w \in Writers :
    \/ \E record \in Records : Ask(w, record)
    \/ Land(w) \/ Succeed(w) \/ Fail(w) \/ Die(w)

Spec == Init /\ [][Next]_vars
===============================================================================
