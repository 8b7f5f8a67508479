---------------------------- MODULE ExposureProofs -----------------------------
(***************************************************************************)
(* Invariance proofs for Exposure, for every set of fills, every lookback, *)
(* and every bound on time and troubles.                                   *)
(*                                                                         *)
(* The argument.  A fill that queries do not show yet is younger than the  *)
(* lookback (Timely), so a sweep finds every fill older than its own start *)
(* less the lookback, save those the mark has passed before, which are in  *)
(* memory already.  From then until its end the pass still holds what is   *)
(* not in memory: to be booked, or in a break to be reported (PassInv);    *)
(* unless it could not record a break, and then it does not move the mark. *)
(* What memory holds is in the journal, or pending (Durable), and the mark *)
(* is only moved when nothing is pending.                                  *)
(*                                                                         *)
(* Adjustments: while one look at the journal is under way there is no     *)
(* other, so it began where memory stands (LookInv).                       *)
(*                                                                         *)
(* The stream: its loop is believed after a pass that began once it was    *)
(* subscribed, so a pass that swept in that time holds every fill from     *)
(* before it; one that did not sweep leaves the manager blind, and a later *)
(* pass that opens its eyes has swept in turn (CaughtInv).                 *)
(***************************************************************************)
EXTENDS Exposure, TLAPS

Breaks == {<<"orphan", f>> : f \in Fills} \cup {<<"missing", "-">>, <<"position", "-">>, Failed}
Looks == [pc : {"idle", "wanted", "reading"}, from : Nat, to : Nat]
Memories ==
  [alive : BOOLEAN, booked : SUBSET Fills, pending : SUBSET Fills, orphans : SUBSET Fills,
   last : Nat, saved : Nat, applied : Int, seen : Nat, closed : BOOLEAN, halted : BOOLEAN,
   unrecorded : BOOLEAN, blind : BOOLEAN, failed : BOOLEAN, healthy : BOOLEAN]
Disks ==
  [booked : SUBSET Fills, orphans : SUBSET Fills, mark : Nat, adjust : Nat,
   closed : BOOLEAN, halted : BOOLEAN]
Venues ==
  [at : [Fills -> Nat], ours : SUBSET Fills, shown : SUBSET Fills, vanished : BOOLEAN]
PassPcs == {"idle", "merge", "order", "sweep", "book", "positions", "rebook", "again",
            "report", "record"}
Passes ==
  [pc : PassPcs, who : {"none", "start", "timer", "stream"}, at : Nat, todo : SUBSET Fills,
   found : SUBSET Breaks, swept : BOOLEAN, recorded : BOOLEAN]
Loops ==
  [pc : {"wait", "connect", "recover", "recovering", "settle", "check", "checking", "judge",
         "run"}, again : BOOLEAN]
Streams ==
  [on : BOOLEAN, queue : SUBSET Fills, before : SUBSET Fills, taken : SUBSET Fills]

TypeOK ==
  /\ now \in Nat
  /\ venue \in Venues
  /\ disk \in Disks
  /\ mem \in Memories
  /\ look \in [Callers -> Looks]
  /\ pass \in Passes
  /\ loop \in Loops
  /\ stream \in Streams

-------------------------------------------------------------------------------
\* Types.
LEMMA RecoveredType ==
  ASSUME disk \in Disks PROVE Recovered \in Memories
BY DEF Disks, Memories, Recovered, Start, NoMark

LEMMA FirstPassType ==
  ASSUME now \in Nat PROVE FirstPass \in Passes
BY DEF FirstPass, NoPass, Passes, PassPcs

LEMMA NoPassType == NoPass \in Passes
BY DEF NoPass, Passes, PassPcs

LEMMA NoLookType == NoLook \in Looks
BY DEF NoLook, Looks

LEMMA InitTypes == Init => TypeOK
<1> SUFFICES ASSUME Init PROVE TypeOK
  OBVIOUS
<1>a. now \in Nat /\ disk \in Disks
  BY DEF Init, Start, Disks, NoMark
<1>b. venue \in Venues
  <2>1. PICK ours \in SUBSET Fills :
          venue = [at |-> [f \in Fills |-> NotYet], ours |-> ours, shown |-> {}, vanished |-> FALSE]
    BY DEF Init
  <2> QED BY <2>1 DEF Venues, NotYet
<1>1. now \in Nat /\ disk \in Disks /\ venue \in Venues
  BY <1>a, <1>b
<1>2. mem \in Memories /\ pass \in Passes
  BY <1>1, RecoveredType, FirstPassType DEF Init
<1>3. loop \in Loops /\ stream \in Streams
  BY DEF Init, Loops, Streams, NoStream
<1>4. look \in [Callers -> Looks]
  BY NoLookType DEF Init
<1> QED BY <1>1, <1>2, <1>3, <1>4 DEF TypeOK

LEMMA RecordingTypes ==
  ASSUME TypeOK, NEW f \in Fills, NEW ok \in BOOLEAN, Recording(f, ok)
  PROVE  disk' \in Disks /\ mem' \in Memories
<1>1. CASE ok
  <2>1. /\ disk' = [disk EXCEPT !.booked = @ \cup mem.pending \cup {f}]
        /\ mem' = [mem EXCEPT !.booked = @ \cup {f}, !.pending = {}]
    BY <1>1 DEF Recording
  <2> QED BY <2>1 DEF TypeOK, Disks, Memories
<1>2. CASE ~ok
  <2>1. /\ mem' = [mem EXCEPT !.booked = @ \cup {f}, !.pending = @ \cup {f}, !.failed = TRUE]
        /\ disk' = disk
    BY <1>2 DEF Recording
  <2> QED BY <2>1 DEF TypeOK, Disks, Memories
<1> QED BY <1>1, <1>2

LEMMA HaltingTypes ==
  ASSUME TypeOK, NEW ok \in BOOLEAN, Halting(ok)
  PROVE  disk' \in Disks /\ mem' \in Memories
<1>1. mem' = [mem EXCEPT !.halted = TRUE, !.unrecorded = @ \/ ~ok]
  BY DEF Halting
<1>2. mem' \in Memories
  BY <1>1 DEF TypeOK, Memories
<1>3. disk' = disk \/ disk' = [disk EXCEPT !.halted = TRUE]
  BY DEF Halting
<1>4. disk' \in Disks
  BY <1>3 DEF TypeOK, Disks
<1> QED BY <1>2, <1>4

LEMMA RecordsTypes ==
  ASSUME TypeOK, NEW fills \in SUBSET Fills, NEW ok \in BOOLEAN, NEW streaming \in BOOLEAN,
         RecordsOrphans(fills, ok, streaming)
  PROVE  disk' \in Disks /\ mem' \in Memories
<1>1. CASE ok
  <2>1. /\ disk' = [disk EXCEPT !.orphans = @ \cup fills]
        /\ mem' = [mem EXCEPT !.orphans = @ \cup fills]
    BY <1>1 DEF RecordsOrphans
  <2> QED BY <2>1 DEF TypeOK, Disks, Memories
<1>2. CASE ~ok
  <2>1. disk' = disk /\ mem' = [mem EXCEPT !.failed = @ \/ streaming]
    BY <1>2 DEF RecordsOrphans
  <2> QED BY <2>1 DEF TypeOK, Disks, Memories
<1> QED BY <1>1, <1>2

LEMMA BooksTypes ==
  ASSUME TypeOK, NEW fills \in SUBSET Fills, NEW booking \in PassPcs, NEW after \in PassPcs,
         NEW swept \in BOOLEAN, Books(fills, booking, after, swept)
  PROVE  pass' \in Passes
<1>1. ToBook(fills) \in SUBSET Fills
  BY DEF ToBook
<1>2. OrphansIn(fills) \in SUBSET Breaks
  BY DEF OrphansIn, Breaks
<1>3. pass.found \cup OrphansIn(fills) \in SUBSET Breaks
  BY <1>2 DEF TypeOK, Passes
<1> DEFINE pc == IF ToBook(fills) = {} THEN after ELSE booking
<1>4. pc \in PassPcs
  OBVIOUS
<1>5. pass' = [pass EXCEPT !.pc = pc, !.todo = ToBook(fills),
                           !.found = @ \cup OrphansIn(fills), !.swept = swept]
  BY DEF Books
<1> HIDE DEF pc
<1> QED BY <1>1, <1>3, <1>4, <1>5 DEF TypeOK, Passes

LEMMA JudgedTypes ==
  ASSUME TypeOK, NEW found \in SUBSET Breaks, Judged(found)
  PROVE  pass' \in Passes /\ mem' \in Memories
<1>1. pass' = [pass EXCEPT !.pc = "report", !.found = found] /\ "report" \in PassPcs
  BY DEF Judged, PassPcs
<1>2. pass' \in Passes
  BY <1>1 DEF TypeOK, Passes
<1>3. mem' = [mem EXCEPT !.blind = Failed \in found] /\ (Failed \in found) \in BOOLEAN
  BY DEF Judged
<1>4. mem' \in Memories
  BY <1>3 DEF TypeOK, Memories
<1> QED BY <1>2, <1>4

LEMMA SubjectIsFills ==
  ASSUME NEW break \in Breaks
  PROVE  Subject(break) \in SUBSET Fills
BY DEF Breaks, Subject, Failed

LEMMA FillsSinceType ==
  ASSUME TypeOK, NEW since PROVE FillsSince(since) \in SUBSET Fills
BY DEF TypeOK, Venues, FillsSince

\* A step of the pass itself.
LEMMA PassTypes ==
  ASSUME TypeOK, Pass PROVE TypeOK'
<1> USE DEF TypeOK
<1>1. CASE PassOrder
  BY <1>1 DEF PassOrder, Passes, PassPcs
<1>2. CASE PassCloses
  <2>1. <<"missing", "-">> \in Breaks
    BY DEF Breaks
  <2>2. pass' \in Passes
    BY <1>2, <2>1 DEF PassCloses, Passes, PassPcs
  <2>3. mem' \in Memories /\ disk' \in Disks
    BY <1>2 DEF PassCloses, Memories, Disks
  <2> QED BY <1>2, <2>2, <2>3 DEF PassCloses
<1>3. CASE PassSweep
  <2>1. FillsSince(mem.last - Lookback) \in SUBSET Fills
    BY FillsSinceType
  <2>2. pass' \in Passes
    BY <1>3, <2>1, BooksTypes DEF PassSweep, PassPcs
  <2> QED BY <1>3, <2>2 DEF PassSweep
<1>4. ASSUME NEW booking \in PassPcs, NEW after \in PassPcs, Book(booking, after)
      PROVE  TypeOK'
  <2>1. PICK f \in pass.todo, ok \in BOOLEAN :
          /\ pass' = [pass EXCEPT !.todo = @ \ {f}, !.pc = IF pass.todo = {f} THEN after ELSE @]
          /\ IF f \in mem.booked THEN ok /\ UNCHANGED <<disk, mem, trouble>> ELSE Recording(f, ok)
    BY <1>4 DEF Book
  <2>2. pass' \in Passes
    BY <1>4, <2>1 DEF Passes
  <2>3. f \in Fills
    BY DEF Passes
  <2>4. mem' \in Memories /\ disk' \in Disks
    BY <2>1, <2>3, RecordingTypes
  <2> QED BY <1>4, <2>2, <2>4 DEF Book
<1>5. CASE PassPositions
  <2>1. FillsSince(Start) \in SUBSET Fills /\ pass.found \in SUBSET Breaks /\ pass.swept \in BOOLEAN
    BY FillsSinceType DEF Passes
  <2>2. CASE OurPosition = TheirPosition
    <3>1. Judged(pass.found)
      BY <1>5, <2>2 DEF PassPositions
    <3>2. pass' \in Passes /\ mem' \in Memories
      BY <2>1, <3>1, JudgedTypes
    <3> QED BY <1>5, <3>2 DEF PassPositions
  <2>3. CASE OurPosition # TheirPosition
    <3>1. Books(FillsSince(Start), "rebook", "again", pass.swept) /\ UNCHANGED mem
      BY <1>5, <2>3 DEF PassPositions
    <3>2. pass' \in Passes
      BY <2>1, <3>1, BooksTypes DEF PassPcs
    <3> QED BY <1>5, <3>1, <3>2 DEF PassPositions
  <2> QED BY <2>2, <2>3
<1>6. CASE PassPositionsAgain
  <2>1. PICK found : Judged(found) /\ found \in SUBSET Breaks
    BY <1>6 DEF PassPositionsAgain, Breaks, Passes
  <2>2. pass' \in Passes /\ mem' \in Memories
    BY <2>1, JudgedTypes
  <2> QED BY <1>6, <2>2 DEF PassPositionsAgain
<1>7. CASE PassReports
  <2>1. PICK break \in pass.found \ Known, ok \in BOOLEAN :
          /\ pass' = [pass EXCEPT !.pc = "record", !.todo = Subject(break), !.found = @ \ {break}]
          /\ IF Critical(break) THEN Halting(ok) ELSE ok /\ UNCHANGED <<disk, mem, trouble>>
    BY <1>7 DEF PassReports
  <2>2. Subject(break) \in SUBSET Fills
    BY SubjectIsFills DEF Passes
  <2>3. pass' \in Passes
    BY <2>1, <2>2 DEF Passes, PassPcs
  <2>4. mem' \in Memories /\ disk' \in Disks
    BY <2>1, HaltingTypes
  <2> QED BY <1>7, <2>3, <2>4 DEF PassReports
<1>8. CASE PassRecords
  <2>1. PICK ok \in BOOLEAN :
          /\ RecordsOrphans(pass.todo, ok, FALSE)
          /\ pass' = [pass EXCEPT !.pc = "report", !.todo = {}, !.recorded = @ /\ ok]
    BY <1>8 DEF PassRecords
  <2>2. pass' \in Passes
    BY <2>1 DEF Passes, PassPcs
  <2>3. pass.todo \in SUBSET Fills
    BY DEF Passes
  <2>4. mem' \in Memories /\ disk' \in Disks
    BY <2>1, <2>3, RecordsTypes
  <2> QED BY <1>8, <2>2, <2>4 DEF PassRecords
<1>9. CASE PassEnds
  <2>1. pass.at \in Nat
    BY DEF Passes
  <2>2. mem' \in Memories
    <3>1. CASE MayMark /\ SaveDue
      <4>1. PICK ok \in BOOLEAN :
              mem' = [mem EXCEPT !.last = pass.at, !.saved = IF ok THEN pass.at ELSE @]
        BY <1>9, <3>1 DEF PassEnds
      <4> QED BY <2>1, <4>1 DEF Memories
    <3>2. CASE ~(MayMark /\ SaveDue)
      <4>1. mem' = mem \/ mem' = [mem EXCEPT !.last = pass.at]
        BY <1>9, <3>2 DEF PassEnds
      <4> QED BY <2>1, <4>1 DEF Memories
    <3> QED BY <3>1, <3>2
  <2>3. disk' = disk \/ disk' = [disk EXCEPT !.mark = pass.at]
    BY <1>9 DEF PassEnds
  <2>4. disk' \in Disks
    BY <2>1, <2>3 DEF Disks
  <2>5. loop' \in Loops
    BY <1>9 DEF PassEnds, AfterPass, Loops
  <2> QED BY <1>9, <2>2, <2>4, <2>5, NoPassType DEF PassEnds
<1> QED
  BY <1>1, <1>2, <1>3, <1>4, <1>5, <1>6, <1>7, <1>8, <1>9 DEF Pass, PassPcs

LEMMA NextTypes ==
  ASSUME TypeOK, [Next]_vars PROVE TypeOK'
<1> USE DEF TypeOK
<1>1. CASE Pass
  BY <1>1, PassTypes
<1>2. CASE TimedPass
  BY <1>2, FirstPassType DEF TimedPass, PassStart, Passes
<1>3. CASE StreamLoop
  <2>1. CASE Connect
    <3>1. stream' \in Streams
      BY <2>1 DEF Connect, NoStream, Streams, Venues
    <3>2. loop' \in Loops
      BY <2>1 DEF Connect, Loops
    <3> QED BY <2>1, <3>1, <3>2 DEF Connect
  <2>2. CASE Settled
    BY <2>2 DEF Settled, AfterSettle, Loops
  <2>3. CASE StreamPass
    BY <2>3, FirstPassType DEF StreamPass, PassStart, Passes, Loops
  <2>4. CASE Healthy
    BY <2>4 DEF Healthy, Memories, Loops
  <2>5. CASE NoticeLoss
    BY <2>5 DEF NoticeLoss, Memories, Loops
  <2> QED BY <1>3, <2>1, <2>2, <2>3, <2>4, <2>5 DEF StreamLoop
<1>4. CASE ConsumeRecords
  <2>1. stream.taken \in SUBSET Fills /\ TRUE \in BOOLEAN
    BY DEF Streams
  <2>2. mem' \in Memories /\ disk' \in Disks
    BY <1>4, <2>1, RecordsTypes DEF ConsumeRecords
  <2>3. stream' \in Streams
    BY <1>4 DEF ConsumeRecords, Streams
  <2> QED BY <1>4, <2>2, <2>3 DEF ConsumeRecords
<1>5. ASSUME NEW f \in Fills, Consume(f) PROVE TypeOK'
  <2>1. PICK ok \in BOOLEAN :
          \/ UNCHANGED <<disk, mem>> \/ Recording(f, ok) \/ Halting(ok)
    BY <1>5 DEF Consume
  <2>2. mem' \in Memories /\ disk' \in Disks
    BY <2>1, RecordingTypes, HaltingTypes
  <2>3. \/ stream' = [stream EXCEPT !.queue = @ \ {f}]
        \/ stream' = [stream EXCEPT !.queue = @ \ {f}, !.taken = {f}]
    BY <1>5 DEF Consume
  <2>4. stream' \in Streams
    BY <2>3 DEF Streams
  <2> QED BY <1>5, <2>2, <2>4 DEF Consume
<1>6. CASE RetryUnjournalled
  BY <1>6 DEF RetryUnjournalled, Memories, Disks
<1>7. CASE RecordKill
  BY <1>7 DEF RecordKill, Memories, Disks
<1>8. CASE Restart
  BY <1>8, RecoveredType, FirstPassType DEF Restart
<1>9. ASSUME NEW who \in Callers, ReadAdjustments(who) PROVE TypeOK'
  BY <1>9 DEF ReadAdjustments, Looks, Memories, Disks
<1>10. ASSUME NEW who \in Callers, ApplyAdjustments(who) PROVE TypeOK'
  <2>1. look[who] \in Looks
    OBVIOUS
  <2>2. mem' \in Memories
    <3> DEFINE applied == mem.applied + (look[who].to - look[who].from)
    <3>1. applied \in Int /\ look[who].to \in Nat
      BY <2>1 DEF Looks, Memories
    <3>2. mem' = [mem EXCEPT !.applied = applied, !.seen = look[who].to]
      BY <1>10 DEF ApplyAdjustments
    <3> HIDE DEF applied
    <3> QED BY <3>1, <3>2 DEF Memories
  <2>3. pass' = [pass EXCEPT !.pc = "order"] \/ pass' = pass
    BY <1>10 DEF ApplyAdjustments
  <2>4. pass' \in Passes
    BY <2>3 DEF Passes, PassPcs
  <2> QED BY <1>10, <2>2, <2>4, NoLookType DEF ApplyAdjustments
<1>11. CASE QueryFails
  <2>1. pass.found \cup {Failed} \in SUBSET Breaks
    BY DEF Passes, Breaks
  <2>2. CASE pass.pc \in {"order", "sweep"}
    <3>1. PICK pc \in {"sweep", "positions"} :
            pass' = [pass EXCEPT !.found = pass.found \cup {Failed}, !.pc = pc]
      BY <1>11, <2>2 DEF QueryFails
    <3>2. pass' \in Passes
      BY <2>1, <3>1 DEF Passes, PassPcs
    <3> QED BY <1>11, <2>2, <3>2 DEF QueryFails
  <2>3. CASE pass.pc \notin {"order", "sweep"}
    <3>1. Judged(pass.found \cup {Failed})
      BY <1>11, <2>3 DEF QueryFails
    <3>2. pass' \in Passes /\ mem' \in Memories
      BY <2>1, <3>1, JudgedTypes
    <3> QED BY <1>11, <3>2 DEF QueryFails
  <2> QED BY <2>2, <2>3
<1>12. CASE Vanishes
  BY <1>12 DEF Vanishes, Venues
<1>13. CASE Tick
  BY <1>13 DEF Tick
<1>14. CASE StreamDrops
  BY <1>14 DEF StreamDrops, Streams
<1>15. CASE Crash
  <2>1. mem' \in Memories
    BY <1>15, RecoveredType DEF Crash, Memories
  <2>2. stream' \in Streams /\ loop' \in Loops
    BY <1>15 DEF Crash, NoStream, Streams, Loops
  <2>3. look' \in [Callers -> Looks]
    BY <1>15, NoLookType DEF Crash
  <2> QED BY <1>15, <2>1, <2>2, <2>3, NoPassType DEF Crash
<1>16. ASSUME NEW here \in BOOLEAN, Adjust(here) PROVE TypeOK'
  <2>1. disk' \in Disks
    BY <1>16 DEF Adjust, Disks
  <2>2. look' = look \/ look' = [look EXCEPT !["operator"].pc = "wanted"]
    BY <1>16 DEF Adjust
  <2>3. look' \in [Callers -> Looks]
    BY <2>2 DEF Looks, Callers
  <2> QED BY <1>16, <2>1, <2>3 DEF Adjust
<1>17. ASSUME NEW f \in Fills, Executes(f) PROVE TypeOK'
  <2>1. venue' \in Venues
    <3> DEFINE at == [venue.at EXCEPT ![f] = now]
    <3>1. PICK shown \in SUBSET Fills :
            venue' = [venue EXCEPT !.at = at, !.shown = @ \cup shown]
      BY <1>17 DEF Executes
    <3>2. at \in [Fills -> Nat]
      BY DEF Venues
    <3> HIDE DEF at
    <3> QED BY <3>1, <3>2 DEF Venues
  <2>2. stream' \in Streams
    BY <1>17 DEF Executes, Streams
  <2> QED BY <1>17, <2>1, <2>2 DEF Executes
<1>18. ASSUME NEW f \in Fills, Shows(f) PROVE TypeOK'
  BY <1>18 DEF Shows, Venues
<1>19. CASE UNCHANGED vars
  BY <1>19 DEF vars
<1> QED
  BY <1>1, <1>2, <1>3, <1>4, <1>5, <1>6, <1>7, <1>8, <1>9, <1>10, <1>11, <1>12, <1>13,
     <1>14, <1>15, <1>16, <1>17, <1>18, <1>19 DEF Next

\* Every part of the state stays in its type.
THEOREM TypeCorrect == Spec => []TypeOK
BY InitTypes, NextTypes, PTL DEF Spec

-------------------------------------------------------------------------------
\* Adjustments.
LookInv ==
  /\ mem.applied = mem.seen
  /\ \A who \in Callers : look[who].pc = "reading" => mem.alive /\ look[who].from = mem.seen
  /\ \A a, b \in Callers : look[a].pc = "reading" /\ look[b].pc = "reading" => a = b
  /\ look["pass"].pc = "reading" => pass.pc = "merge"

KeepsLook ==
  /\ UNCHANGED <<mem.alive, mem.applied, mem.seen, look>>
  /\ pass.pc = "merge" => pass' = pass

LEMMA KeptLook ==
  ASSUME LookInv, KeepsLook PROVE LookInv'
BY DEF LookInv, KeepsLook

LEMMA RecordingKeepsMem ==
  ASSUME TypeOK, NEW f, NEW ok, Recording(f, ok)
  PROVE  UNCHANGED <<mem.alive, mem.applied, mem.seen, mem.last>>
BY DEF TypeOK, Recording, Memories

LEMMA HaltingKeepsMem ==
  ASSUME TypeOK, NEW ok, Halting(ok)
  PROVE  UNCHANGED <<mem.alive, mem.applied, mem.seen, mem.last>>
BY DEF TypeOK, Halting, Memories

LEMMA RecordsKeepsMem ==
  ASSUME TypeOK, NEW fills, NEW ok, NEW streaming, RecordsOrphans(fills, ok, streaming)
  PROVE  UNCHANGED <<mem.alive, mem.applied, mem.seen, mem.last>>
BY DEF TypeOK, RecordsOrphans, Memories

LEMMA JudgedKeepsMem ==
  ASSUME TypeOK, NEW found, Judged(found)
  PROVE  UNCHANGED <<mem.alive, mem.applied, mem.seen, mem.last>>
BY DEF TypeOK, Judged, Memories

LEMMA PassKeepsLook ==
  ASSUME TypeOK, Pass PROVE KeepsLook
<1> USE DEF KeepsLook
<1>1. CASE PassOrder \/ PassSweep
  BY <1>1 DEF PassOrder, PassSweep
<1>2. CASE PassCloses
  BY <1>2 DEF PassCloses, TypeOK, Memories
<1>3. ASSUME NEW booking \in {"book", "rebook"}, NEW after, Book(booking, after)
      PROVE  KeepsLook
  BY <1>3, RecordingKeepsMem DEF Book
<1>4. CASE PassPositions \/ PassPositionsAgain
  BY <1>4, JudgedKeepsMem DEF PassPositions, PassPositionsAgain
<1>5. CASE PassReports
  BY <1>5, HaltingKeepsMem DEF PassReports
<1>6. CASE PassRecords
  BY <1>6, RecordsKeepsMem DEF PassRecords
<1>7. CASE PassEnds
  BY <1>7 DEF PassEnds, TypeOK, Memories
<1> QED BY <1>1, <1>2, <1>3, <1>4, <1>5, <1>6, <1>7 DEF Pass

LEMMA LookStep ==
  ASSUME TypeOK, LookInv, [Next]_vars PROVE LookInv'
<1>1. CASE Pass
  BY <1>1, PassKeepsLook, KeptLook
<1>2. CASE TimedPass \/ Connect \/ Settled \/ StreamPass
  BY <1>2, KeptLook DEF TimedPass, Connect, Settled, StreamPass, PassStart, KeepsLook
<1>3. CASE Healthy \/ NoticeLoss \/ RetryUnjournalled \/ RecordKill
  <2>1. KeepsLook
    BY <1>3 DEF Healthy, NoticeLoss, RetryUnjournalled, RecordKill, KeepsLook, TypeOK, Memories
  <2> QED BY <2>1, KeptLook
<1>4. CASE ConsumeRecords
  BY <1>4, RecordsKeepsMem, KeptLook DEF ConsumeRecords, KeepsLook
<1>5. ASSUME NEW f \in Fills, Consume(f) PROVE LookInv'
  BY <1>5, RecordingKeepsMem, HaltingKeepsMem, KeptLook DEF Consume, KeepsLook
<1>6. CASE QueryFails
  BY <1>6, JudgedKeepsMem, KeptLook DEF QueryFails, KeepsLook
<1>7. CASE Vanishes \/ Tick \/ StreamDrops \/ (\E f \in Fills : Executes(f) \/ Shows(f))
  BY <1>7, KeptLook DEF Vanishes, Tick, StreamDrops, Executes, Shows, KeepsLook
<1>8. CASE Crash
  BY <1>8 DEF Crash, LookInv, NoLook, Recovered, Callers
<1>9. CASE Restart
  BY <1>9 DEF Restart, LookInv, Recovered, Callers
<1>10. ASSUME NEW who \in Callers, ReadAdjustments(who) PROVE LookInv'
  BY <1>10 DEF ReadAdjustments, AdjustLockFree, LookInv, TypeOK
<1>11. ASSUME NEW who \in Callers, ApplyAdjustments(who) PROVE LookInv'
  <2>1. look[who] \in Looks /\ look[who].from = mem.seen /\ look[who].pc = "reading"
    BY <1>11 DEF ApplyAdjustments, LookInv, TypeOK
  <2>2. /\ mem'.applied = mem.applied + (look[who].to - look[who].from)
        /\ mem'.seen = look[who].to
    BY <1>11 DEF ApplyAdjustments, TypeOK, Memories
  <2>3. mem'.applied = mem'.seen
    BY <2>1, <2>2 DEF LookInv, Looks, TypeOK, Memories
  <2>4. \A a \in Callers : look'[a].pc # "reading"
    BY <1>11, <2>1 DEF ApplyAdjustments, LookInv, TypeOK, NoLook
  <2> QED BY <2>3, <2>4 DEF LookInv, Callers
<1>12. ASSUME NEW here \in BOOLEAN, Adjust(here) PROVE LookInv'
  <2>1. \A a \in Callers : look'[a].pc = "reading" => look'[a] = look[a]
    BY <1>12 DEF Adjust, TypeOK, Looks
  <2> QED BY <1>12, <2>1 DEF Adjust, LookInv
<1>13. CASE UNCHANGED vars
  BY <1>13, KeptLook DEF vars, KeepsLook
<1> QED
  BY <1>1, <1>2, <1>3, <1>4, <1>5, <1>6, <1>7, <1>8, <1>9, <1>10, <1>11, <1>12, <1>13
  DEF Next, StreamLoop

\* A journalled adjustment that has been read is in the position once, whoever asked for the
\* look and whatever failed or crashed in between.
THEOREM AdjustedOnceAlways == Spec => []AdjustedOnce
<1>1. Init => LookInv
  BY DEF Init, LookInv, NoLook, Recovered, Callers
<1>2. TypeOK /\ LookInv /\ [Next]_vars => LookInv'
  BY LookStep
<1>3. LookInv => AdjustedOnce
  BY DEF LookInv, AdjustedOnce
<1> QED BY <1>1, <1>2, <1>3, TypeCorrect, PTL DEF Spec

-------------------------------------------------------------------------------
\* The mark of the sweep.
Timely ==
  /\ Start <= now
  /\ \A f \in Executed : Start <= venue.at[f] /\ venue.at[f] <= now
  /\ \A f \in Executed \ venue.shown : now <= venue.at[f] + Lookback
  /\ mem.last <= now /\ disk.mark <= now
Durable ==
  /\ mem.booked \subseteq disk.booked \cup mem.pending
  /\ mem.orphans \subseteq disk.orphans
Holding ==
  InMemory \cup pass.todo \cup {f \in Fills : <<"orphan", f>> \in pass.found}
PassInv ==
  /\ pass.at <= now
  /\ pass.pc # "idle" => mem.alive
  /\ pass.pc \in {"idle", "merge", "order", "sweep"} => ~pass.swept
  /\ pass.pc \notin {"book", "rebook", "record"} => pass.todo = {}
  /\ pass.swept /\ pass.recorded =>
       \A f \in Executed : venue.at[f] < pass.at - Lookback => f \in Holding
MarkInv == Timely /\ Durable /\ PassInv /\ NothingBehindTheMark

\* What most steps do to memory and the journal: they add to them.
Grows ==
  /\ mem.booked \subseteq mem'.booked /\ mem.orphans \subseteq mem'.orphans
  /\ disk.booked \subseteq disk'.booked /\ disk.orphans \subseteq disk'.orphans
  /\ UNCHANGED <<mem.alive, mem.last, disk.mark>>
  /\ Durable'

LEMMA SameGrows ==
  ASSUME Durable, UNCHANGED <<mem, disk>> PROVE Grows
BY DEF Grows, Durable

LEMMA RecordingGrows ==
  ASSUME TypeOK, Durable, NEW f \in Fills, NEW ok \in BOOLEAN, Recording(f, ok)
  PROVE  Grows /\ f \in mem'.booked
<1>1. CASE ok
  <2>1. /\ disk' = [disk EXCEPT !.booked = @ \cup mem.pending \cup {f}]
        /\ mem' = [mem EXCEPT !.booked = @ \cup {f}, !.pending = {}]
    BY <1>1 DEF Recording
  <2> QED BY <2>1 DEF TypeOK, Disks, Memories, Grows, Durable
<1>2. CASE ~ok
  <2>1. /\ mem' = [mem EXCEPT !.booked = @ \cup {f}, !.pending = @ \cup {f}, !.failed = TRUE]
        /\ disk' = disk
    BY <1>2 DEF Recording
  <2> QED BY <2>1 DEF TypeOK, Disks, Memories, Grows, Durable
<1> QED BY <1>1, <1>2

LEMMA HaltingGrows ==
  ASSUME TypeOK, Durable, NEW ok \in BOOLEAN, Halting(ok)
  PROVE  Grows
BY DEF TypeOK, Disks, Memories, Halting, Grows, Durable

LEMMA RecordsGrows ==
  ASSUME TypeOK, Durable, NEW fills \in SUBSET Fills, NEW ok \in BOOLEAN,
         NEW streaming \in BOOLEAN, RecordsOrphans(fills, ok, streaming)
  PROVE  Grows /\ (ok => fills \subseteq mem'.orphans)
BY DEF TypeOK, Disks, Memories, RecordsOrphans, Grows, Durable

LEMMA JudgedGrows ==
  ASSUME TypeOK, Durable, NEW found, Judged(found), UNCHANGED disk
  PROVE  Grows
BY DEF TypeOK, Memories, Judged, Grows, Durable

LEMMA GrownIsFine ==
  ASSUME MarkInv, UNCHANGED <<now, venue>>, Grows
  PROVE  Timely' /\ Durable' /\ NothingBehindTheMark'
BY DEF MarkInv, Grows, Timely, Executed, NothingBehindTheMark, OnRecord, InMemory

LEMMA SamePass ==
  ASSUME MarkInv, UNCHANGED <<now, venue, pass>>, Grows
  PROVE  MarkInv'
<1>1. PassInv'
  BY DEF MarkInv, PassInv, Grows, Executed, Holding, InMemory
<1> QED BY <1>1, GrownIsFine DEF MarkInv

\* A step of the pass that loses nothing of what it holds.
LEMMA PassGoesOn ==
  ASSUME MarkInv, UNCHANGED <<now, venue, pass.at, pass.swept>>, Grows,
         pass.pc \notin {"idle", "merge", "order", "sweep"},
         pass'.recorded => pass.recorded,
         pass'.pc \in {"book", "positions", "rebook", "again", "report", "record"},
         pass'.pc \notin {"book", "rebook", "record"} => pass'.todo = {},
         pass'.recorded => Holding \subseteq Holding'
  PROVE  MarkInv'
<1>1. PassInv'
  BY DEF MarkInv, PassInv, Grows, Executed
<1> QED BY <1>1, GrownIsFine DEF MarkInv

LEMMA WindowMax ==
  ASSUME NEW since \in Int
  PROVE  FillWindow(since) = IF since < Start THEN Start ELSE since
BY DEF FillWindow, Max, Start

\* A sweep from where the mark stands finds all that is old enough and not in memory.
LEMMA SweptIsHeld ==
  ASSUME TypeOK, MarkInv, mem.alive, NEW f \in Executed, venue.at[f] < pass.at - Lookback
  PROVE  \/ f \in InMemory
         \/ f \in ToBook(FillsSince(mem.last - Lookback))
         \/ <<"orphan", f>> \in OrphansIn(FillsSince(mem.last - Lookback))
<1> DEFINE since == mem.last - Lookback
<1>1. /\ since \in Int /\ Lookback \in Nat /\ now \in Nat /\ pass.at \in Nat
      /\ f \in Fills /\ venue.at[f] \in Nat
  BY BoundsAreNaturals DEF TypeOK, Memories, Passes, Venues, Executed
<1>2. CASE venue.at[f] < since
  BY <1>2 DEF MarkInv, NothingBehindTheMark
<1>3. CASE ~(venue.at[f] < since)
  <2>1. f \in venue.shown
    BY <1>1 DEF MarkInv, Timely, PassInv
  <2>2. venue.at[f] >= FillWindow(since)
    BY <1>1, <1>3, WindowMax DEF MarkInv, Timely, Start
  <2>3. f \in FillsSince(since)
    BY <2>1, <2>2 DEF FillsSince
  <2> QED BY <1>1, <2>3 DEF ToBook, OrphansIn, OurFills, OrphanFills, InMemory
<1> QED BY <1>2, <1>3

LEMMA SweepStep ==
  ASSUME TypeOK, MarkInv, PassSweep PROVE MarkInv'
<1> DEFINE fills == FillsSince(mem.last - Lookback)
<1>1. /\ pass.pc = "sweep" /\ mem.alive /\ Grows
      /\ UNCHANGED <<now, venue, disk, mem>>
  BY SameGrows DEF PassSweep, MarkInv, PassInv
<1>2. /\ pass'.pc = IF ToBook(fills) = {} THEN "positions" ELSE "book"
      /\ pass'.todo = ToBook(fills)
      /\ pass'.found = pass.found \cup OrphansIn(fills)
      /\ pass'.at = pass.at
  BY DEF PassSweep, Books, TypeOK, Passes
<1>3. \A f \in Executed : venue.at[f] < pass.at - Lookback => f \in Holding'
  <2> SUFFICES ASSUME NEW f \in Executed, venue.at[f] < pass.at - Lookback
               PROVE  f \in Holding'
    OBVIOUS
  <2>1. f \in Fills
    BY DEF Executed
  <2> QED BY <1>1, <1>2, <2>1, SweptIsHeld DEF Holding, InMemory
<1>4. PassInv'
  BY <1>1, <1>2, <1>3 DEF PassInv, MarkInv, Executed
<1> QED BY <1>1, <1>4, GrownIsFine DEF MarkInv

LEMMA PositionsStep ==
  ASSUME TypeOK, MarkInv, PassPositions PROVE MarkInv'
<1>1. pass.pc = "positions" /\ pass.todo = {} /\ UNCHANGED <<now, venue, disk>>
  BY DEF PassPositions, MarkInv, PassInv
<1>2. CASE OurPosition = TheirPosition
  <2>1. Judged(pass.found)
    BY <1>2 DEF PassPositions
  <2>2. Grows
    BY <1>1, <2>1, JudgedGrows DEF MarkInv
  <2>3. /\ UNCHANGED <<pass.at, pass.swept, pass.recorded, pass.todo, pass.found>>
        /\ pass'.pc = "report"
    BY <2>1 DEF Judged, TypeOK, Passes
  <2>4. Holding \subseteq Holding'
    BY <2>2, <2>3 DEF Holding, InMemory, Grows
  <2> QED BY <1>1, <2>2, <2>3, <2>4, PassGoesOn
<1>3. CASE OurPosition # TheirPosition
  <2> DEFINE fills == FillsSince(Start)
  <2>1. Books(fills, "rebook", "again", pass.swept) /\ mem' = mem
    BY <1>3 DEF PassPositions
  <2>2. Grows
    BY <1>1, <2>1, SameGrows DEF MarkInv
  <2>3. /\ UNCHANGED <<pass.at, pass.swept, pass.recorded>>
        /\ pass.found \subseteq pass'.found
        /\ pass'.todo = ToBook(fills)
        /\ pass'.pc = IF ToBook(fills) = {} THEN "again" ELSE "rebook"
    BY <2>1 DEF Books, TypeOK, Passes
  <2>4. Holding \subseteq Holding'
    BY <1>1, <2>1, <2>3 DEF Holding, InMemory
  <2> QED BY <1>1, <2>2, <2>3, <2>4, PassGoesOn
<1> QED BY <1>2, <1>3

LEMMA BookStep ==
  ASSUME TypeOK, MarkInv, NEW booking \in {"book", "rebook"},
         NEW after \in {"positions", "again"}, Book(booking, after)
  PROVE  MarkInv'
<1>1. PICK f \in pass.todo, ok \in BOOLEAN :
        /\ pass' = [pass EXCEPT !.todo = @ \ {f}, !.pc = IF pass.todo = {f} THEN after ELSE @]
        /\ IF f \in mem.booked THEN ok /\ UNCHANGED <<disk, mem, trouble>> ELSE Recording(f, ok)
  BY DEF Book
<1>2. pass.pc = booking /\ UNCHANGED <<now, venue>>
  BY DEF Book
<1>3. Grows /\ f \in mem'.booked
  <2>1. f \in Fills
    BY DEF TypeOK, Passes
  <2> QED BY <1>1, <2>1, SameGrows, RecordingGrows DEF MarkInv
<1>4. /\ UNCHANGED <<pass.at, pass.swept, pass.recorded, pass.found>>
      /\ pass'.todo = pass.todo \ {f}
      /\ pass'.pc = IF pass.todo = {f} THEN after ELSE pass.pc
  BY <1>1 DEF TypeOK, Passes
<1>5. Holding \subseteq Holding'
  BY <1>3, <1>4 DEF Holding, InMemory, Grows
<1> QED BY <1>2, <1>3, <1>4, <1>5, PassGoesOn

LEMMA ReportsStep ==
  ASSUME TypeOK, MarkInv, PassReports PROVE MarkInv'
<1>1. PICK break \in pass.found \ Known, ok \in BOOLEAN :
        /\ pass' = [pass EXCEPT !.pc = "record", !.todo = Subject(break), !.found = @ \ {break}]
        /\ IF Critical(break) THEN Halting(ok) ELSE ok /\ UNCHANGED <<disk, mem, trouble>>
  BY DEF PassReports
<1>2. pass.pc = "report" /\ pass.todo = {} /\ UNCHANGED <<now, venue>>
  BY DEF PassReports, MarkInv, PassInv
<1>3. Grows
  BY <1>1, SameGrows, HaltingGrows DEF MarkInv
<1>4. /\ UNCHANGED <<pass.at, pass.swept, pass.recorded>>
      /\ pass'.pc = "record" /\ pass'.todo = Subject(break)
      /\ pass'.found = pass.found \ {break}
  BY <1>1 DEF TypeOK, Passes
<1>5. \A f \in Fills : break = <<"orphan", f>> => f \in Subject(break)
  BY DEF Subject
<1>6. Holding \subseteq Holding'
  BY <1>2, <1>3, <1>4, <1>5 DEF Holding, InMemory, Grows
<1> QED BY <1>2, <1>3, <1>4, <1>6, PassGoesOn

LEMMA RecordsStep ==
  ASSUME TypeOK, MarkInv, PassRecords PROVE MarkInv'
<1>1. PICK ok \in BOOLEAN :
        /\ RecordsOrphans(pass.todo, ok, FALSE)
        /\ pass' = [pass EXCEPT !.pc = "report", !.todo = {}, !.recorded = @ /\ ok]
  BY DEF PassRecords
<1>2. pass.pc = "record" /\ UNCHANGED <<now, venue>>
  BY DEF PassRecords
<1>3. Grows /\ (ok => pass.todo \subseteq mem'.orphans)
  <2>1. pass.todo \in SUBSET Fills
    BY DEF TypeOK, Passes
  <2> QED BY <1>1, <2>1, RecordsGrows DEF MarkInv
<1>4. /\ UNCHANGED <<pass.at, pass.swept, pass.found>>
      /\ pass'.pc = "report" /\ pass'.todo = {}
      /\ pass'.recorded = (pass.recorded /\ ok)
  BY <1>1 DEF TypeOK, Passes
<1>5. ok => Holding \subseteq Holding'
  BY <1>3, <1>4 DEF Holding, InMemory, Grows
<1> QED BY <1>2, <1>3, <1>4, <1>5, PassGoesOn

LEMMA EndsStep ==
  ASSUME TypeOK, MarkInv, PassEnds PROVE MarkInv'
<1> USE DEF MarkInv
<1>1. /\ pass.pc = "report" /\ pass.todo = {} /\ pass.found \subseteq Known
      /\ pass' = NoPass /\ UNCHANGED <<now, venue>>
  BY DEF PassEnds, PassInv
<1>2. PassInv'
  BY <1>1 DEF PassInv, NoPass, Timely, Start, TypeOK
<1>3. /\ UNCHANGED <<mem.alive, mem.booked, mem.orphans, mem.pending>>
      /\ UNCHANGED <<disk.booked, disk.orphans>>
  BY DEF PassEnds, TypeOK, Memories, Disks
<1>4. Durable'
  BY <1>3 DEF Durable
<1>5. CASE MayMark
  <2>1. \A f \in Executed : venue.at[f] < pass.at - Lookback => f \in InMemory
    BY <1>1, <1>5 DEF MayMark, PassInv, Holding, Known, InMemory
  <2>2. InMemory \subseteq OnRecord
    BY <1>5 DEF MayMark, Durable, InMemory, OnRecord
  <2>3. mem'.last = pass.at /\ (disk'.mark = disk.mark \/ disk'.mark = pass.at)
    BY <1>5 DEF PassEnds, TypeOK, Memories, Disks
  <2>4. NothingBehindTheMark'
    BY <1>1, <1>3, <2>1, <2>2, <2>3 DEF NothingBehindTheMark, Executed, OnRecord, InMemory
  <2>5. Timely'
    BY <1>1, <2>3 DEF Timely, Executed, PassInv
  <2> QED BY <1>2, <1>4, <2>4, <2>5
<1>6. CASE ~MayMark
  <2>1. UNCHANGED <<mem, disk>>
    BY <1>6 DEF PassEnds
  <2> QED BY <1>1, <1>2, <1>4, <2>1
          DEF Timely, NothingBehindTheMark, Executed, OnRecord, InMemory
<1> QED BY <1>5, <1>6

LEMMA PassStep ==
  ASSUME TypeOK, MarkInv, Pass PROVE MarkInv'
<1>1. CASE PassOrder
  <2>1. /\ Grows /\ UNCHANGED <<now, venue>>
        /\ mem.alive /\ ~pass.swept /\ pass.todo = {} /\ pass.at <= now
    BY <1>1, SameGrows DEF PassOrder, MarkInv, PassInv
  <2>2. pass'.pc = "sweep" /\ UNCHANGED <<pass.at, pass.swept, pass.todo>>
    BY <1>1 DEF PassOrder, TypeOK, Passes
  <2>3. PassInv'
    BY <2>1, <2>2 DEF PassInv, Grows
  <2> QED BY <2>1, <2>3, GrownIsFine DEF MarkInv
<1>2. CASE PassCloses
  <2>1. Grows
    BY <1>2 DEF PassCloses, Grows, MarkInv, Durable, TypeOK, Memories, Disks
  <2>2. /\ UNCHANGED <<now, venue>>
        /\ mem.alive /\ ~pass.swept /\ pass.todo = {} /\ pass.at <= now
    BY <1>2 DEF PassCloses, MarkInv, PassInv
  <2>3. pass'.pc = "sweep" /\ UNCHANGED <<pass.at, pass.swept, pass.todo>>
    BY <1>2 DEF PassCloses, TypeOK, Passes
  <2>4. PassInv'
    BY <2>1, <2>2, <2>3 DEF PassInv, Grows
  <2> QED BY <2>1, <2>2, <2>4, GrownIsFine DEF MarkInv
<1>3. CASE PassPositionsAgain
  <2>1. PICK lasted \in BOOLEAN :
          Judged(pass.found \cup IF lasted THEN {<<"position", "-">>} ELSE {})
    BY <1>3 DEF PassPositionsAgain
  <2>2. pass.pc = "again" /\ pass.todo = {} /\ UNCHANGED <<now, venue, disk>>
    BY <1>3 DEF PassPositionsAgain, MarkInv, PassInv
  <2>3. Grows
    BY <2>1, <2>2, JudgedGrows DEF MarkInv
  <2>4. /\ UNCHANGED <<pass.at, pass.swept, pass.recorded, pass.todo>>
        /\ pass'.pc = "report" /\ pass.found \subseteq pass'.found
    BY <2>1 DEF Judged, TypeOK, Passes
  <2>5. Holding \subseteq Holding'
    BY <2>3, <2>4 DEF Holding, InMemory, Grows
  <2> QED BY <2>2, <2>3, <2>4, <2>5, PassGoesOn
<1> QED
  BY <1>1, <1>2, <1>3, SweepStep, BookStep, PositionsStep, ReportsStep, RecordsStep, EndsStep
  DEF Pass

LEMMA QueryFailsStep ==
  ASSUME TypeOK, MarkInv, QueryFails PROVE MarkInv'
<1>1. UNCHANGED <<now, venue, disk>> /\ pass.todo = {} /\ pass.pc # "idle"
  BY DEF QueryFails, MarkInv, PassInv
<1>2. CASE pass.pc \in {"order", "sweep"}
  <2>1. Grows /\ mem.alive /\ ~pass.swept /\ pass.at <= now
    BY <1>1, <1>2, SameGrows DEF QueryFails, MarkInv, PassInv
  <2>2. pass'.pc \in {"sweep", "positions"} /\ UNCHANGED <<pass.at, pass.swept, pass.todo>>
    BY <1>2 DEF QueryFails, TypeOK, Passes
  <2>3. PassInv'
    BY <1>1, <2>1, <2>2 DEF PassInv, Grows
  <2> QED BY <1>1, <2>1, <2>3, GrownIsFine DEF MarkInv
<1>3. CASE pass.pc \notin {"order", "sweep"}
  <2>1. Judged(pass.found \cup {Failed}) /\ pass.pc \in {"positions", "again"}
    BY <1>3 DEF QueryFails
  <2>2. Grows
    BY <1>1, <2>1, JudgedGrows DEF MarkInv
  <2>3. /\ UNCHANGED <<pass.at, pass.swept, pass.recorded, pass.todo>>
        /\ pass'.pc = "report" /\ pass.found \subseteq pass'.found
    BY <2>1 DEF Judged, TypeOK, Passes
  <2>4. Holding \subseteq Holding'
    BY <2>2, <2>3 DEF Holding, InMemory, Grows
  <2> QED BY <1>1, <2>1, <2>2, <2>3, <2>4, PassGoesOn
<1> QED BY <1>2, <1>3

\* A pass begins, in a process that runs.
LEMMA NewPass ==
  ASSUME TypeOK, MarkInv, UNCHANGED <<now, venue, mem, disk>>, mem.alive,
         NEW who, pass' = [FirstPass EXCEPT !.who = who]
  PROVE  MarkInv'
<1>1. Grows
  BY SameGrows DEF MarkInv
<1>2. PassInv'
  BY DEF PassInv, FirstPass, NoPass, TypeOK
<1> QED BY <1>1, <1>2, GrownIsFine DEF MarkInv

\* A process dies, or begins again from its journal.
LEMMA RecoveredIsFine ==
  ASSUME TypeOK, MarkInv, UNCHANGED <<now, venue, disk>>,
         mem'.booked = disk.booked, mem'.orphans = disk.orphans,
         mem'.last = IF disk.mark = NoMark THEN Start ELSE disk.mark
  PROVE  Timely' /\ Durable' /\ NothingBehindTheMark'
<1>1. Timely'
  BY DEF MarkInv, Timely, Executed
<1>2. Durable'
  BY DEF Durable
<1>3. NothingBehindTheMark'
  <2>1. Lookback \in Nat /\ \A f \in Executed : venue.at[f] \in Nat
    BY BoundsAreNaturals DEF TypeOK, Venues, Executed
  <2> QED BY <2>1 DEF MarkInv, NothingBehindTheMark, Timely, Executed, OnRecord, InMemory, Start
<1> QED BY <1>1, <1>2, <1>3

LEMMA CrashStep ==
  ASSUME TypeOK, MarkInv, Crash PROVE MarkInv'
<1>1. /\ UNCHANGED <<now, venue, disk>> /\ pass' = NoPass
      /\ mem'.booked = disk.booked /\ mem'.orphans = disk.orphans
      /\ mem'.last = IF disk.mark = NoMark THEN Start ELSE disk.mark
  BY DEF Crash, Recovered
<1>2. PassInv'
  BY <1>1 DEF PassInv, NoPass, MarkInv, Timely, Start, TypeOK
<1> QED BY <1>1, <1>2, RecoveredIsFine DEF MarkInv

LEMMA RestartStep ==
  ASSUME TypeOK, MarkInv, Restart PROVE MarkInv'
<1>1. /\ UNCHANGED <<now, venue, disk>> /\ pass' = FirstPass /\ mem'.alive
      /\ mem'.booked = disk.booked /\ mem'.orphans = disk.orphans
      /\ mem'.last = IF disk.mark = NoMark THEN Start ELSE disk.mark
  BY DEF Restart, Recovered
<1>2. PassInv'
  BY <1>1 DEF PassInv, FirstPass, NoPass, TypeOK
<1> QED BY <1>1, <1>2, RecoveredIsFine DEF MarkInv

\* Time passes only while what queries do not show yet is young.
LEMMA TickStep ==
  ASSUME TypeOK, MarkInv, Tick PROVE MarkInv'
<1>1. /\ now' = now + 1 /\ UNCHANGED <<venue, disk, mem, pass>>
      /\ \A f \in Executed \ venue.shown : venue.at[f] + Lookback > now
  BY DEF Tick
<1>2. /\ now \in Nat /\ mem.last \in Nat /\ disk.mark \in Nat /\ pass.at \in Nat
      /\ Lookback \in Nat /\ \A f \in Executed : venue.at[f] \in Nat
  BY BoundsAreNaturals DEF TypeOK, Memories, Disks, Passes, Venues, Executed
<1>3. Timely'
  BY <1>1, <1>2 DEF MarkInv, Timely, Executed, Start
<1>4. PassInv'
  BY <1>1, <1>2 DEF MarkInv, PassInv, Executed, Holding, InMemory
<1>5. Durable' /\ NothingBehindTheMark'
  BY <1>1 DEF MarkInv, Durable, NothingBehindTheMark, Executed, OnRecord, InMemory
<1> QED BY <1>3, <1>4, <1>5 DEF MarkInv

\* A fill happens now, so it is behind no mark and in no pass's window.
LEMMA ExecutesStep ==
  ASSUME TypeOK, MarkInv, NEW f \in Fills, Executes(f) PROVE MarkInv'
<1>1. UNCHANGED <<now, disk, mem, pass>>
  BY DEF Executes
<1>2. /\ venue'.at = [venue.at EXCEPT ![f] = now]
      /\ venue.shown \subseteq venue'.shown
  BY DEF Executes, TypeOK, Venues
<1>3. /\ now \in Nat /\ mem.last \in Nat /\ disk.mark \in Nat /\ pass.at \in Nat
      /\ Lookback \in Nat
  BY BoundsAreNaturals DEF TypeOK, Memories, Disks, Passes
<1>4. \A g \in Fills : venue'.at[g] = IF g = f THEN now ELSE venue.at[g]
  BY <1>2 DEF TypeOK, Venues
<1>5. Executed' = Executed \cup {f}
  BY <1>3, <1>4 DEF Executed, NotYet, MarkInv, Timely, Start
<1>6. Executed \subseteq Fills
  BY DEF Executed
<1>7. Timely'
  BY <1>1, <1>2, <1>3, <1>4, <1>5, <1>6 DEF MarkInv, Timely
<1>8. PassInv'
  BY <1>1, <1>3, <1>4, <1>5, <1>6 DEF MarkInv, PassInv, Holding, InMemory
<1>9. Durable' /\ NothingBehindTheMark'
  BY <1>1, <1>3, <1>4, <1>5, <1>6
  DEF MarkInv, Timely, Durable, NothingBehindTheMark, OnRecord, InMemory
<1> QED BY <1>7, <1>8, <1>9 DEF MarkInv

\* The venue shows a fill, or drops an order: when the fills happened does not change.
LEMMA SameTimes ==
  ASSUME MarkInv, UNCHANGED <<now, mem, disk, pass, venue.at>>, venue.shown \subseteq venue'.shown
  PROVE  MarkInv'
<1>1. Executed' = Executed
  BY DEF Executed
<1> QED
  BY <1>1 DEF MarkInv, Timely, Durable, PassInv, Holding, NothingBehindTheMark, OnRecord, InMemory

LEMMA MarkStep ==
  ASSUME TypeOK, LookInv, MarkInv, [Next]_vars PROVE MarkInv'
<1> USE DEF MarkInv
<1>1. CASE TimedPass \/ StreamPass
  BY <1>1, NewPass DEF TimedPass, StreamPass, PassStart
<1>2. CASE Connect \/ Settled \/ (\E who \in Callers : ReadAdjustments(who)) \/ StreamDrops
  BY <1>2, SameGrows, SamePass DEF Connect, Settled, ReadAdjustments, StreamDrops
<1>3. CASE Healthy \/ NoticeLoss \/ RetryUnjournalled \/ RecordKill
  <2>1. Grows /\ UNCHANGED <<now, venue, pass>>
    BY <1>3 DEF Healthy, NoticeLoss, RetryUnjournalled, RecordKill, Grows, Durable, TypeOK,
                Memories, Disks
  <2> QED BY <2>1, SamePass
<1>4. CASE ConsumeRecords
  <2>1. stream.taken \in SUBSET Fills /\ TRUE \in BOOLEAN
    BY DEF TypeOK, Streams
  <2> QED BY <1>4, <2>1, RecordsGrows, SamePass DEF ConsumeRecords
<1>5. ASSUME NEW f \in Fills, Consume(f) PROVE MarkInv'
  BY <1>5, SameGrows, RecordingGrows, HaltingGrows, SamePass DEF Consume
<1>6. ASSUME NEW who \in Callers, ApplyAdjustments(who) PROVE MarkInv'
  <2>1. Grows /\ UNCHANGED <<now, venue>>
    BY <1>6 DEF ApplyAdjustments, Grows, Durable, TypeOK, Memories
  <2>2. CASE who = "pass"
    <3>1. pass.pc = "merge" /\ mem.alive /\ pass' = [pass EXCEPT !.pc = "order"]
      BY <1>6, <2>2 DEF ApplyAdjustments, LookInv, Callers
    <3>2. ~pass.swept /\ pass.todo = {} /\ pass.at <= now
      BY <3>1 DEF PassInv
    <3>3. pass'.pc = "order" /\ UNCHANGED <<pass.at, pass.swept, pass.todo>>
      BY <3>1 DEF TypeOK, Passes
    <3>4. PassInv'
      BY <2>1, <3>1, <3>2, <3>3 DEF PassInv, Grows
    <3> QED BY <2>1, <3>4, GrownIsFine
  <2>3. CASE who # "pass"
    BY <1>6, <2>1, <2>3, SamePass DEF ApplyAdjustments
  <2> QED BY <2>2, <2>3
<1>7. CASE Vanishes \/ (\E f \in Fills : Shows(f))
  <2>1. /\ UNCHANGED <<now, mem, disk, pass, venue.at>>
        /\ venue.shown \subseteq venue'.shown
    BY <1>7 DEF Vanishes, Shows, TypeOK, Venues
  <2> QED BY <2>1, SameTimes
<1>8. ASSUME NEW here \in BOOLEAN, Adjust(here) PROVE MarkInv'
  <2>1. Grows /\ UNCHANGED <<now, venue, pass>>
    BY <1>8 DEF Adjust, Grows, Durable, TypeOK, Disks
  <2> QED BY <2>1, SamePass
<1>9. CASE UNCHANGED vars
  BY <1>9, SameGrows, SamePass DEF vars
<1> QED
  BY <1>1, <1>2, <1>3, <1>4, <1>5, <1>6, <1>7, <1>8, <1>9, PassStep, QueryFailsStep,
     CrashStep, RestartStep, TickStep, ExecutesStep DEF Next, StreamLoop

\* The invariants of the two arguments hold together.
LEMMA MarkInvAlways == Spec => [](LookInv /\ MarkInv)
<1>1. Init => LookInv
  BY DEF Init, LookInv, NoLook, Recovered, Callers
<1>2. Init => MarkInv
  <2> SUFFICES ASSUME Init PROVE MarkInv
    OBVIOUS
  <2>1. TypeOK
    BY InitTypes
  <2>2. Executed = {}
    BY DEF Init, Executed
  <2>3. mem = Recovered /\ pass = FirstPass /\ now = Start
    BY DEF Init
  <2>4. disk.mark = NoMark /\ disk.booked = {} /\ disk.orphans = {}
    BY DEF Init
  <2>5. Timely /\ Durable /\ NothingBehindTheMark
    BY <2>2, <2>3, <2>4
    DEF Timely, Durable, NothingBehindTheMark, Recovered, Start, NoMark
  <2>6. PassInv
    BY <2>2, <2>3 DEF PassInv, FirstPass, NoPass, Recovered, Start
  <2> QED BY <2>5, <2>6 DEF MarkInv
<1>3. TypeOK /\ LookInv /\ [Next]_vars => LookInv'
  BY LookStep
<1>4. TypeOK /\ LookInv /\ MarkInv /\ [Next]_vars => MarkInv'
  BY MarkStep
<1> QED BY <1>1, <1>2, <1>3, <1>4, TypeCorrect, PTL DEF Spec

\* No crash, no failed query or write and no late fill makes the sweep forget a fill: what is
\* behind the mark is in the journal, and what is behind the window of the next pass is in
\* memory.
THEOREM MarkIsSafe == Spec => []NothingBehindTheMark
<1>1. MarkInv => NothingBehindTheMark
  BY DEF MarkInv
<1> QED BY <1>1, MarkInvAlways, PTL

-------------------------------------------------------------------------------
\* The stream, and the fills that were there before it.
ShownInv == stream.before \subseteq venue.shown /\ venue.shown \subseteq Executed
Looking == pass.pc \in {"book", "positions", "rebook", "again"}
Reporting == pass.pc \in {"report", "record"}
\* Each pass that runs now, or ran last, began after the stream was subscribed.
Fresh == loop.pc \in {"checking", "judge", "run"}
CaughtInv ==
  /\ mem.healthy => loop.pc = "run"
  /\ ~mem.alive => loop.pc = "wait"
  /\ pass.who = "stream" => loop.pc \in {"recovering", "checking"}
  /\ pass.pc = "idle" => pass.found = {}
  /\ pass.pc = "record" /\ pass.todo # {} => mem.halted
  /\ Looking => pass.swept \/ Failed \in pass.found
  /\ Reporting => pass.swept \/ mem.blind
  /\ Fresh /\ pass.swept /\ ~mem.halted => stream.before \subseteq Holding
  /\ loop.pc \in {"judge", "run"} /\ ~mem.blind /\ ~mem.halted => stream.before \subseteq Holding

LEMMA ShownStep ==
  ASSUME TypeOK, MarkInv, ShownInv, [Next]_vars PROVE ShownInv'
<1> USE DEF ShownInv
<1>1. CASE UNCHANGED <<venue, stream>>
  BY <1>1 DEF Executed
<1>2. CASE Pass \/ TimedPass \/ RetryUnjournalled \/ RecordKill \/ Restart \/ QueryFails \/ Tick
  <2>1. CASE Pass
    <3>1. CASE PassOrder \/ PassCloses \/ PassSweep \/ PassPositions \/ PassPositionsAgain
      BY <1>1, <3>1 DEF PassOrder, PassCloses, PassSweep, PassPositions, PassPositionsAgain
    <3>2. ASSUME NEW booking, NEW after, Book(booking, after) PROVE ShownInv'
      BY <1>1, <3>2 DEF Book
    <3>3. CASE PassReports
      BY <1>1, <3>3 DEF PassReports
    <3>4. CASE PassRecords
      BY <1>1, <3>4 DEF PassRecords
    <3>5. CASE PassEnds
      BY <1>1, <3>5 DEF PassEnds
    <3> QED BY <2>1, <3>1, <3>2, <3>3, <3>4, <3>5 DEF Pass
  <2>2. CASE TimedPass \/ RetryUnjournalled \/ RecordKill \/ Restart \/ QueryFails \/ Tick
    BY <1>1, <2>2 DEF TimedPass, RetryUnjournalled, RecordKill, Restart, QueryFails, Tick
  <2> QED BY <1>2, <2>1, <2>2
<1>3. CASE Settled \/ StreamPass \/ Healthy \/ NoticeLoss
  BY <1>1, <1>3 DEF Settled, StreamPass, Healthy, NoticeLoss
<1>4. CASE Connect
  <2>1. stream'.before = venue.shown /\ UNCHANGED venue
    BY <1>4 DEF Connect, NoStream
  <2> QED BY <2>1 DEF Executed
<1>5. CASE ConsumeRecords \/ StreamDrops \/ (\E f \in Fills : Consume(f))
  <2>1. UNCHANGED <<venue, stream.before>>
    <3>1. CASE ConsumeRecords \/ StreamDrops
      BY <3>1 DEF ConsumeRecords, StreamDrops, TypeOK, Streams
    <3>2. ASSUME NEW f \in Fills, Consume(f) PROVE UNCHANGED <<venue, stream.before>>
      BY <3>2 DEF Consume, TypeOK, Streams
    <3> QED BY <1>5, <3>1, <3>2
  <2> QED BY <2>1 DEF Executed
<1>6. ASSUME NEW who \in Callers, ReadAdjustments(who) \/ ApplyAdjustments(who)
      PROVE  ShownInv'
  BY <1>1, <1>6 DEF ReadAdjustments, ApplyAdjustments
<1>7. ASSUME NEW here \in BOOLEAN, Adjust(here) PROVE ShownInv'
  BY <1>1, <1>7 DEF Adjust
<1>8. CASE Vanishes
  <2>1. UNCHANGED <<venue.at, venue.shown, stream>>
    BY <1>8 DEF Vanishes, TypeOK, Venues
  <2> QED BY <2>1 DEF Executed
<1>9. CASE Crash
  <2>1. stream'.before = {} /\ UNCHANGED venue
    BY <1>9 DEF Crash, NoStream
  <2> QED BY <2>1 DEF Executed
<1>10. ASSUME NEW f \in Fills, Executes(f) PROVE ShownInv'
  <2>1. /\ venue'.at = [venue.at EXCEPT ![f] = now]
        /\ venue.shown \subseteq venue'.shown /\ venue'.shown \subseteq venue.shown \cup {f}
    BY <1>10 DEF Executes, TypeOK, Venues
  <2>2. stream'.before = stream.before
    BY <1>10 DEF Executes, TypeOK, Streams
  <2>3. venue.at \in [Fills -> Nat] /\ now # NotYet
    BY DEF TypeOK, Venues, MarkInv, Timely, Start, NotYet
  <2>4. Executed' = Executed \cup {f}
    BY <2>1, <2>3 DEF Executed
  <2> QED BY <2>1, <2>2, <2>4
<1>11. ASSUME NEW f \in Fills, Shows(f) PROVE ShownInv'
  <2>1. venue'.shown = venue.shown \cup {f} /\ f \in Executed /\ UNCHANGED <<venue.at, stream>>
    BY <1>11 DEF Shows, TypeOK, Venues
  <2> QED BY <2>1 DEF Executed
<1>12. CASE UNCHANGED vars
  BY <1>1, <1>12 DEF vars
<1> QED
  BY <1>2, <1>3, <1>4, <1>5, <1>6, <1>7, <1>8, <1>9, <1>10, <1>11, <1>12 DEF Next, StreamLoop

\* What a write to the journal, a halt or a judgement leaves of the manager's flags.
LEMMA RecordingKeepsFlags ==
  ASSUME TypeOK, NEW f, NEW ok, Recording(f, ok)
  PROVE  UNCHANGED <<mem.halted, mem.blind, mem.healthy>>
BY DEF TypeOK, Recording, Memories

LEMMA RecordsKeepsFlags ==
  ASSUME TypeOK, NEW fills, NEW ok, NEW streaming, RecordsOrphans(fills, ok, streaming)
  PROVE  UNCHANGED <<mem.halted, mem.blind, mem.healthy>>
BY DEF TypeOK, RecordsOrphans, Memories

LEMMA HaltingHalts ==
  ASSUME TypeOK, NEW ok, Halting(ok)
  PROVE  mem'.halted /\ UNCHANGED <<mem.blind, mem.healthy>>
BY DEF TypeOK, Halting, Memories

\* A step outside the pass and the loop, that takes nothing from memory.
LEMMA CaughtOutside ==
  ASSUME CaughtInv, UNCHANGED <<pass, loop, stream.before, mem.alive, mem.blind, mem.healthy>>,
         mem.halted => mem'.halted,
         mem.booked \subseteq mem'.booked, mem.orphans \subseteq mem'.orphans
  PROVE  CaughtInv'
BY DEF CaughtInv, Looking, Reporting, Fresh, Holding, InMemory

\* A step inside the pass that keeps what it holds, or halts.
LEMMA CaughtInside ==
  ASSUME CaughtInv,
         UNCHANGED <<loop, stream.before, pass.who, pass.swept>>,
         UNCHANGED <<mem.alive, mem.blind, mem.healthy>>,
         mem.halted => mem'.halted, pass'.pc # "idle",
         pass'.pc = "record" /\ pass'.todo # {} => mem'.halted,
         Looking' => pass'.swept \/ Failed \in pass'.found,
         Reporting' => pass'.swept \/ mem'.blind,
         mem'.halted \/ Holding \subseteq Holding'
  PROVE  CaughtInv'
BY DEF CaughtInv, Fresh

\* The pass has asked its last question: it is blind if one of them failed.
LEMMA CaughtJudged ==
  ASSUME TypeOK, MarkInv, CaughtInv, NEW found \in SUBSET Breaks, pass.found \subseteq found,
         Judged(found), Looking, pass.todo = {}, UNCHANGED <<loop, stream, disk>>
  PROVE  CaughtInv'
<1>1. /\ UNCHANGED <<pass.who, pass.swept, pass.todo>>
      /\ pass'.pc = "report" /\ pass'.found = found
  BY DEF Judged, TypeOK, Passes
<1>2. UNCHANGED <<mem.alive, mem.halted, mem.healthy, mem.booked, mem.orphans>>
  BY DEF Judged, TypeOK, Memories
<1>3. mem'.blind = (Failed \in found)
  BY DEF Judged, TypeOK, Memories
<1>4. Holding \subseteq Holding'
  BY <1>1, <1>2 DEF Holding, InMemory
<1>5. ~mem'.blind => pass.swept
  BY <1>3 DEF CaughtInv
<1>6. Reporting' => pass'.swept \/ mem'.blind
  BY <1>1, <1>5
<1>7. ~Looking'
  BY <1>1 DEF Looking
<1>8. Fresh' /\ pass'.swept /\ ~mem'.halted => stream'.before \subseteq Holding'
  BY <1>1, <1>2, <1>4 DEF CaughtInv, Fresh
<1>9. loop'.pc \in {"judge", "run"} /\ ~mem'.blind /\ ~mem'.halted
        => stream'.before \subseteq Holding'
  BY <1>1, <1>2, <1>4, <1>5 DEF CaughtInv, Fresh
<1> QED BY <1>1, <1>2, <1>6, <1>7, <1>8, <1>9 DEF CaughtInv

\* The sweep finds every fill that was there when the stream was subscribed, save those that
\* are in memory already.
LEMMA CaughtSweep ==
  ASSUME TypeOK, MarkInv, ShownInv, CaughtInv, PassSweep PROVE CaughtInv'
<1> DEFINE since == mem.last - Lookback
           fills == FillsSince(since)
<1>1. pass.pc = "sweep" /\ mem.alive /\ UNCHANGED <<mem, venue, loop, stream>>
  BY DEF PassSweep, MarkInv, PassInv
<1>2. /\ pass'.pc = IF ToBook(fills) = {} THEN "positions" ELSE "book"
      /\ pass'.todo = ToBook(fills) /\ pass'.found = pass.found \cup OrphansIn(fills)
      /\ pass'.swept /\ pass'.who = pass.who
  BY DEF PassSweep, Books, TypeOK, Passes
<1>3. stream.before \subseteq Holding'
  <2> SUFFICES ASSUME NEW f \in stream.before PROVE f \in Holding'
    OBVIOUS
  <2>1. f \in Executed /\ f \in venue.shown /\ f \in Fills
    BY DEF ShownInv, Executed
  <2>2. since \in Int /\ venue.at[f] \in Nat
    BY <2>1, BoundsAreNaturals DEF TypeOK, Memories, Venues
  <2>3. CASE venue.at[f] < since
    BY <1>1, <2>1, <2>3 DEF MarkInv, NothingBehindTheMark, Holding, InMemory
  <2>4. CASE ~(venue.at[f] < since)
    <3>1. venue.at[f] >= FillWindow(since)
      BY <2>1, <2>2, <2>4, WindowMax DEF MarkInv, Timely, Start
    <3>2. f \in fills
      BY <2>1, <3>1 DEF FillsSince
    <3>3. \/ f \in InMemory \/ f \in ToBook(fills) \/ <<"orphan", f>> \in OrphansIn(fills)
      BY <2>1, <3>2 DEF ToBook, OrphansIn, OurFills, OrphanFills, InMemory
    <3> QED BY <1>1, <1>2, <2>1, <3>3 DEF Holding, InMemory
  <2> QED BY <2>3, <2>4
<1>4. pass'.pc \in {"positions", "book"}
  BY <1>2
<1> HIDE DEF fills
<1> QED BY <1>1, <1>2, <1>3, <1>4 DEF CaughtInv, Looking, Reporting, Fresh

LEMMA CaughtBook ==
  ASSUME TypeOK, MarkInv, CaughtInv, NEW booking \in {"book", "rebook"},
         NEW after \in {"positions", "again"}, Book(booking, after)
  PROVE  CaughtInv'
<1>1. PICK f \in pass.todo, ok \in BOOLEAN :
        /\ pass' = [pass EXCEPT !.todo = @ \ {f}, !.pc = IF pass.todo = {f} THEN after ELSE @]
        /\ IF f \in mem.booked THEN ok /\ UNCHANGED <<disk, mem, trouble>> ELSE Recording(f, ok)
  BY DEF Book
<1>2. pass.pc = booking /\ UNCHANGED <<loop, stream>>
  BY DEF Book
<1>3. f \in Fills
  BY DEF TypeOK, Passes
<1>4. Grows /\ f \in mem'.booked
  BY <1>1, <1>3, SameGrows, RecordingGrows DEF MarkInv
<1>5. UNCHANGED <<mem.halted, mem.blind, mem.healthy>>
  BY <1>1, RecordingKeepsFlags
<1>6. /\ UNCHANGED <<pass.swept, pass.who, pass.found>> /\ pass'.todo = pass.todo \ {f}
      /\ pass'.pc \in {booking, after}
  BY <1>1, <1>2 DEF TypeOK, Passes
<1>7. Holding \subseteq Holding'
  BY <1>4, <1>6 DEF Holding, InMemory, Grows
<1>8. pass.swept \/ Failed \in pass.found
  BY <1>2 DEF CaughtInv, Looking
<1> QED BY <1>2, <1>4, <1>5, <1>6, <1>7, <1>8, CaughtInside DEF Reporting, Grows

LEMMA CaughtPositions ==
  ASSUME TypeOK, MarkInv, CaughtInv, PassPositions PROVE CaughtInv'
<1>1. pass.pc = "positions" /\ pass.todo = {} /\ UNCHANGED <<loop, stream, disk>>
  BY DEF PassPositions, MarkInv, PassInv
<1>2. CASE OurPosition = TheirPosition
  <2>1. Judged(pass.found) /\ pass.found \in SUBSET Breaks
    BY <1>2 DEF PassPositions, TypeOK, Passes
  <2> QED BY <1>1, <2>1, CaughtJudged DEF Looking
<1>3. CASE OurPosition # TheirPosition
  <2> DEFINE fills == FillsSince(Start)
  <2>1. Books(fills, "rebook", "again", pass.swept) /\ mem' = mem
    BY <1>3 DEF PassPositions
  <2>2. /\ UNCHANGED <<pass.swept, pass.who>> /\ pass.found \subseteq pass'.found
        /\ pass'.pc \in {"rebook", "again"}
    BY <2>1 DEF Books, TypeOK, Passes
  <2>3. Holding \subseteq Holding'
    BY <1>1, <2>1, <2>2 DEF Holding, InMemory
  <2>4. pass.swept \/ Failed \in pass.found
    BY <1>1 DEF CaughtInv, Looking
  <2> HIDE DEF fills
  <2> QED BY <1>1, <2>1, <2>2, <2>3, <2>4, CaughtInside DEF Reporting
<1> QED BY <1>2, <1>3

LEMMA CaughtReports ==
  ASSUME TypeOK, MarkInv, CaughtInv, PassReports PROVE CaughtInv'
<1>1. PICK break \in pass.found \ Known, ok \in BOOLEAN :
        /\ pass' = [pass EXCEPT !.pc = "record", !.todo = Subject(break), !.found = @ \ {break}]
        /\ IF Critical(break) THEN Halting(ok) ELSE ok /\ UNCHANGED <<disk, mem, trouble>>
  BY DEF PassReports
<1>2. pass.pc = "report" /\ pass.todo = {} /\ UNCHANGED <<loop, stream>>
  BY DEF PassReports, MarkInv, PassInv
<1>3. Grows
  BY <1>1, SameGrows, HaltingGrows DEF MarkInv
<1>4. /\ UNCHANGED <<pass.swept, pass.who>> /\ pass'.pc = "record"
      /\ pass'.todo = Subject(break) /\ pass'.found = pass.found \ {break}
  BY <1>1 DEF TypeOK, Passes
<1>5. /\ UNCHANGED <<mem.blind, mem.healthy>>
      /\ mem.halted => mem'.halted
      /\ Critical(break) => mem'.halted
  BY <1>1, HaltingHalts
<1>6. pass'.todo # {} => Critical(break)
  BY <1>4 DEF Subject, Critical, Failed
<1>7. \A f \in Fills : break = <<"orphan", f>> => f \in Subject(break)
  BY DEF Subject
<1>8. Holding \subseteq Holding'
  BY <1>2, <1>3, <1>4, <1>7 DEF Holding, InMemory, Grows
<1>9. pass.swept \/ mem.blind
  BY <1>2 DEF CaughtInv, Reporting
<1> QED BY <1>2, <1>3, <1>4, <1>5, <1>6, <1>8, <1>9, CaughtInside DEF Looking, Grows

LEMMA CaughtRecords ==
  ASSUME TypeOK, MarkInv, CaughtInv, PassRecords PROVE CaughtInv'
<1>1. PICK ok \in BOOLEAN :
        /\ RecordsOrphans(pass.todo, ok, FALSE)
        /\ pass' = [pass EXCEPT !.pc = "report", !.todo = {}, !.recorded = @ /\ ok]
  BY DEF PassRecords
<1>2. pass.pc = "record" /\ UNCHANGED <<loop, stream>> /\ pass.todo \in SUBSET Fills
  BY DEF PassRecords, TypeOK, Passes
<1>3. Grows
  BY <1>1, <1>2, RecordsGrows DEF MarkInv
<1>4. UNCHANGED <<mem.halted, mem.blind, mem.healthy>>
  BY <1>1, RecordsKeepsFlags
<1>5. /\ UNCHANGED <<pass.swept, pass.who, pass.found>>
      /\ pass'.pc = "report" /\ pass'.todo = {}
  BY <1>1 DEF TypeOK, Passes
<1>6. mem'.halted \/ Holding \subseteq Holding'
  BY <1>2, <1>3, <1>4, <1>5 DEF CaughtInv, Holding, InMemory, Grows
<1>7. pass.swept \/ mem.blind
  BY <1>2 DEF CaughtInv, Reporting
<1> QED BY <1>2, <1>3, <1>4, <1>5, <1>6, <1>7, CaughtInside DEF Looking, Grows

\* A pass ends with all it held in memory; the loop's own pass leaves the stream to be judged.
LEMMA CaughtEnds ==
  ASSUME TypeOK, MarkInv, CaughtInv, PassEnds PROVE CaughtInv'
<1>1. /\ pass.pc = "report" /\ pass.todo = {} /\ pass.found \subseteq Known
      /\ pass' = NoPass /\ loop' = AfterPass /\ UNCHANGED stream /\ mem.alive
  BY DEF PassEnds, MarkInv, PassInv
<1>2. UNCHANGED <<mem.alive, mem.booked, mem.orphans, mem.halted, mem.blind, mem.healthy>>
  BY DEF PassEnds, TypeOK, Memories
<1>3. Holding \subseteq Holding'
  BY <1>1, <1>2 DEF Holding, InMemory, Known
<1>4. loop'.pc \in {"judge", "run"} => Fresh
  BY <1>1 DEF AfterPass, CaughtInv, Fresh, TypeOK, Loops
<1>5. pass.swept \/ mem.blind
  BY <1>1 DEF CaughtInv, Reporting
<1>6. loop.pc = "run" => loop'.pc = "run"
  BY <1>1 DEF AfterPass, CaughtInv, TypeOK, Loops
<1>7. loop'.pc \in {"judge", "run"} /\ ~mem'.blind /\ ~mem'.halted
        => stream'.before \subseteq Holding'
  BY <1>1, <1>2, <1>3, <1>4, <1>5 DEF CaughtInv
<1> QED BY <1>1, <1>2, <1>6, <1>7 DEF CaughtInv, NoPass, Looking, Reporting

LEMMA CaughtPass ==
  ASSUME TypeOK, MarkInv, ShownInv, CaughtInv, Pass PROVE CaughtInv'
<1>1. CASE PassOrder
  <2>1. UNCHANGED <<mem, loop, stream>>
    BY <1>1 DEF PassOrder
  <2>2. /\ pass.pc = "order" /\ pass'.pc = "sweep"
        /\ UNCHANGED <<pass.swept, pass.who, pass.todo, pass.found>>
    BY <1>1 DEF PassOrder, TypeOK, Passes
  <2>3. Holding \subseteq Holding'
    BY <2>1, <2>2 DEF Holding, InMemory
  <2> QED BY <2>1, <2>2, <2>3, CaughtInside DEF Looking, Reporting
<1>2. CASE PassCloses
  <2>1. /\ UNCHANGED <<loop, stream>>
        /\ UNCHANGED <<mem.alive, mem.booked, mem.orphans, mem.halted, mem.blind, mem.healthy>>
    BY <1>2 DEF PassCloses, TypeOK, Memories
  <2>2. /\ pass.pc = "order" /\ pass'.pc = "sweep" /\ pass.found \subseteq pass'.found
        /\ UNCHANGED <<pass.swept, pass.who, pass.todo>>
    BY <1>2 DEF PassCloses, TypeOK, Passes
  <2>3. Holding \subseteq Holding'
    BY <2>1, <2>2 DEF Holding, InMemory
  <2> QED BY <2>1, <2>2, <2>3, CaughtInside DEF Looking, Reporting
<1>3. CASE PassPositionsAgain
  <2>1. PICK lasted \in BOOLEAN :
          Judged(pass.found \cup IF lasted THEN {<<"position", "-">>} ELSE {})
    BY <1>3 DEF PassPositionsAgain
  <2>2. pass.pc = "again" /\ pass.todo = {} /\ UNCHANGED <<loop, stream, disk>>
    BY <1>3 DEF PassPositionsAgain, MarkInv, PassInv
  <2> DEFINE found == pass.found \cup IF lasted THEN {<<"position", "-">>} ELSE {}
  <2>3. found \in SUBSET Breaks /\ pass.found \subseteq found
    BY DEF TypeOK, Passes, Breaks
  <2>4. Judged(found)
    BY <2>1
  <2> HIDE DEF found
  <2> QED BY <2>2, <2>3, <2>4, CaughtJudged DEF Looking
<1> QED
  BY <1>1, <1>2, <1>3, CaughtSweep, CaughtBook, CaughtPositions, CaughtReports, CaughtRecords,
     CaughtEnds DEF Pass

LEMMA CaughtQueryFails ==
  ASSUME TypeOK, MarkInv, CaughtInv, QueryFails PROVE CaughtInv'
<1>1. UNCHANGED <<disk, loop, stream>> /\ pass.todo = {}
  BY DEF QueryFails, MarkInv, PassInv
<1> DEFINE found == pass.found \cup {Failed}
<1>2. found \in SUBSET Breaks /\ pass.found \subseteq found /\ Failed \in found
  BY DEF TypeOK, Passes, Breaks
<1>3. CASE pass.pc \in {"order", "sweep"}
  <2>1. /\ pass'.pc \in {"sweep", "positions"} /\ pass'.found = found
        /\ UNCHANGED <<mem, pass.swept, pass.who, pass.todo>>
    BY <1>3 DEF QueryFails, TypeOK, Passes
  <2>2. Holding \subseteq Holding'
    BY <1>2, <2>1 DEF Holding, InMemory
  <2> HIDE DEF found
  <2> QED BY <1>1, <1>2, <2>1, <2>2, CaughtInside DEF Reporting
<1>4. CASE pass.pc \notin {"order", "sweep"}
  <2>1. Judged(found) /\ Looking
    BY <1>4 DEF QueryFails, Looking
  <2> HIDE DEF found
  <2> QED BY <1>1, <1>2, <2>1, CaughtJudged
<1> QED BY <1>3, <1>4

\* A pass begins: nothing is in question yet.
LEMMA CaughtNewPass ==
  ASSUME MarkInv, CaughtInv, mem.alive, pass.pc = "idle", NEW who,
         pass' = [FirstPass EXCEPT !.who = who],
         UNCHANGED <<mem, stream>>,
         \/ loop' = loop /\ who # "stream"
         \/ loop.pc \in {"recover", "check"} /\ loop'.pc \in {"recovering", "checking"}
  PROVE  CaughtInv'
<1>1. /\ pass'.pc = "merge" /\ pass'.who = who /\ pass'.found = {} /\ pass'.todo = {}
      /\ ~pass'.swept
  BY DEF FirstPass, NoPass
<1>2. pass.found = {} /\ pass.todo = {}
  BY DEF CaughtInv, MarkInv, PassInv
<1>3. Holding' = Holding
  BY <1>1, <1>2 DEF Holding, InMemory
<1> QED BY <1>1, <1>3 DEF CaughtInv, Looking, Reporting, Fresh

LEMMA CaughtStep ==
  ASSUME TypeOK, LookInv, MarkInv, ShownInv, CaughtInv, [Next]_vars PROVE CaughtInv'
<1>1. CASE TimedPass
  BY <1>1, CaughtNewPass DEF TimedPass, PassStart
<1>2. CASE StreamPass
  <2>1. loop.pc \in {"recover", "check"} /\ loop'.pc \in {"recovering", "checking"}
    BY <1>2 DEF StreamPass, TypeOK, Loops
  <2> QED BY <1>2, <2>1, CaughtNewPass DEF StreamPass, PassStart
<1>3. CASE Connect
  <2>1. loop.pc = "connect" /\ loop'.pc \in {"recover", "settle"} /\ UNCHANGED <<mem, pass>>
    BY <1>3 DEF Connect, TypeOK, Loops
  <2> QED BY <2>1 DEF CaughtInv, Looking, Reporting, Fresh
<1>4. CASE Settled
  <2>1. loop.pc = "settle" /\ loop'.pc = "check" /\ UNCHANGED <<mem, pass>>
    BY <1>4 DEF Settled, AfterSettle, TypeOK, Loops
  <2> QED BY <2>1 DEF CaughtInv, Looking, Reporting, Fresh
<1>5. CASE Healthy
  <2>1. /\ loop.pc = "judge" /\ loop'.pc = "run" /\ UNCHANGED <<pass, stream>>
        /\ UNCHANGED <<mem.alive, mem.booked, mem.orphans, mem.halted, mem.blind>>
    BY <1>5 DEF Healthy, TypeOK, Memories
  <2> QED BY <2>1 DEF CaughtInv, Looking, Reporting, Fresh, Holding, InMemory
<1>6. CASE NoticeLoss
  <2>1. /\ loop.pc \in {"settle", "judge", "run"} /\ loop'.pc = "connect" /\ ~mem'.healthy
        /\ UNCHANGED <<pass, mem.alive, mem.halted, mem.blind>>
    BY <1>6 DEF NoticeLoss, TypeOK, Memories
  <2> QED BY <2>1 DEF CaughtInv, Looking, Reporting, Fresh
<1>7. CASE ConsumeRecords
  <2>1. stream.taken \in SUBSET Fills /\ TRUE \in BOOLEAN
    BY DEF TypeOK, Streams
  <2>2. PICK ok \in BOOLEAN : RecordsOrphans(stream.taken, ok, TRUE)
    BY <1>7 DEF ConsumeRecords
  <2>3. Grows /\ UNCHANGED <<mem.halted, mem.blind, mem.healthy>>
    BY <2>1, <2>2, RecordsGrows, RecordsKeepsFlags DEF MarkInv
  <2>4. UNCHANGED <<pass, loop, stream.before>>
    BY <1>7 DEF ConsumeRecords, TypeOK, Streams
  <2> QED BY <2>3, <2>4, CaughtOutside DEF Grows
<1>8. ASSUME NEW f \in Fills, Consume(f) PROVE CaughtInv'
  <2>1. UNCHANGED <<pass, loop, stream.before>>
    BY <1>8 DEF Consume, TypeOK, Streams
  <2>2. PICK ok \in BOOLEAN : UNCHANGED <<disk, mem>> \/ Recording(f, ok) \/ Halting(ok)
    BY <1>8 DEF Consume
  <2>3. Grows
    BY <2>2, SameGrows, RecordingGrows, HaltingGrows DEF MarkInv
  <2>4. (mem.halted => mem'.halted) /\ UNCHANGED <<mem.blind, mem.healthy>>
    BY <2>2, RecordingKeepsFlags, HaltingHalts
  <2> QED BY <2>1, <2>3, <2>4, CaughtOutside DEF Grows
<1>9. CASE RetryUnjournalled \/ RecordKill
  <2>1. /\ UNCHANGED <<pass, loop, stream>>
        /\ UNCHANGED <<mem.alive, mem.booked, mem.orphans, mem.halted, mem.blind, mem.healthy>>
    BY <1>9 DEF RetryUnjournalled, RecordKill, TypeOK, Memories
  <2> QED BY <2>1, CaughtOutside
<1>10. CASE Restart \/ Crash
  <2>1. ~mem'.healthy
    BY <1>10 DEF Restart, Crash, Recovered
  <2>2. pass' = FirstPass \/ pass' = NoPass
    BY <1>10 DEF Restart, Crash
  <2>3. /\ pass'.pc \in {"idle", "merge"} /\ pass'.who # "stream" /\ pass'.found = {}
        /\ ~pass'.swept
    <3>1. CASE pass' = FirstPass
      BY <3>1 DEF FirstPass, NoPass
    <3>2. CASE pass' = NoPass
      BY <3>2 DEF NoPass
    <3> QED BY <2>2, <3>1, <3>2
  <2>4. loop'.pc = "wait"
    <3>1. CASE Restart
      <4>1. ~mem.alive /\ loop' = loop
        BY <3>1 DEF Restart
      <4> QED BY <4>1 DEF CaughtInv
    <3>2. CASE Crash
      <4>1. loop' = [pc |-> "wait", again |-> FALSE]
        BY <3>2 DEF Crash
      <4> QED BY <4>1
    <3> QED BY <1>10, <3>1, <3>2
  <2> QED BY <2>1, <2>3, <2>4 DEF CaughtInv, Looking, Reporting, Fresh
<1>11. ASSUME NEW who \in Callers, ReadAdjustments(who) PROVE CaughtInv'
  BY <1>11, CaughtOutside DEF ReadAdjustments
<1>12. ASSUME NEW who \in Callers, ApplyAdjustments(who) PROVE CaughtInv'
  <2>1. /\ UNCHANGED <<loop, stream>>
        /\ UNCHANGED <<mem.alive, mem.booked, mem.orphans, mem.halted, mem.blind, mem.healthy>>
    BY <1>12 DEF ApplyAdjustments, TypeOK, Memories
  <2>2. CASE who = "pass"
    <3>1. pass.pc = "merge" /\ pass' = [pass EXCEPT !.pc = "order"]
      BY <1>12, <2>2 DEF ApplyAdjustments, LookInv, Callers
    <3>2. pass'.pc = "order" /\ UNCHANGED <<pass.who, pass.swept, pass.todo, pass.found>>
      BY <3>1 DEF TypeOK, Passes
    <3>3. Holding \subseteq Holding'
      BY <2>1, <3>2 DEF Holding, InMemory
    <3> QED BY <2>1, <3>2, <3>3, CaughtInside DEF Looking, Reporting
  <2>3. CASE who # "pass"
    BY <1>12, <2>1, <2>3, CaughtOutside DEF ApplyAdjustments
  <2> QED BY <2>2, <2>3
<1>13. ASSUME NEW here \in BOOLEAN, Adjust(here) PROVE CaughtInv'
  BY <1>13, CaughtOutside DEF Adjust
<1>14. CASE Vanishes \/ Tick \/ (\E f \in Fills : Shows(f))
  BY <1>14, CaughtOutside DEF Vanishes, Tick, Shows
<1>15. CASE StreamDrops \/ (\E f \in Fills : Executes(f))
  <2>1. UNCHANGED <<mem, pass, loop, stream.before>>
    BY <1>15 DEF StreamDrops, Executes, TypeOK, Streams
  <2> QED BY <2>1, CaughtOutside
<1>16. CASE UNCHANGED vars
  BY <1>16, CaughtOutside DEF vars
<1> QED
  BY <1>1, <1>2, <1>3, <1>4, <1>5, <1>6, <1>7, <1>8, <1>9, <1>10, <1>11, <1>12, <1>13,
     <1>14, <1>15, <1>16, CaughtPass, CaughtQueryFails DEF Next, StreamLoop

\* A manager that would accept an order has booked or reported each fill from before its
\* stream was subscribed, or runs the pass that holds it: whatever failed, was lost or came
\* late on the way.
THEOREM CaughtUp == Spec => []AcceptingMeansCaughtUp
<1>1. Init => ShownInv /\ CaughtInv
  BY DEF Init, ShownInv, CaughtInv, Recovered, FirstPass, NoPass, NoStream, Looking, Reporting,
         Fresh, Executed
<1>2. TypeOK /\ LookInv /\ MarkInv /\ ShownInv /\ [Next]_vars => ShownInv'
  BY ShownStep
<1>3. TypeOK /\ LookInv /\ MarkInv /\ ShownInv /\ CaughtInv /\ [Next]_vars => CaughtInv'
  BY CaughtStep
<1>4. ShownInv /\ CaughtInv => AcceptingMeansCaughtUp
  <2> SUFFICES ASSUME ShownInv, CaughtInv, Accepting, NEW f \in stream.before
               PROVE  f \in InMemory \cup {b[2] : b \in pass.found} \cup pass.todo
    BY DEF AcceptingMeansCaughtUp
  <2>1. f \in Holding
    BY DEF CaughtInv, Accepting
  <2>2. <<"orphan", f>> \in pass.found => f \in {b[2] : b \in pass.found}
    <3>1. <<"orphan", f>>[2] = f
      OBVIOUS
    <3> QED BY <3>1
  <2> QED BY <2>1, <2>2 DEF Holding
<1> QED BY <1>1, <1>2, <1>3, <1>4, TypeCorrect, MarkInvAlways, PTL DEF Spec
===============================================================================
