------------------------------ MODULE SyncBridge ------------------------------
(***************************************************************************)
(* The blocking facade of src/ismet/sync.py: calls and streams bridged     *)
(* from the threads of the caller to an event loop in a thread of its own, *)
(* which may be closed under them and opened again.                        *)
(*                                                                         *)
(* A step is what one thread does under the lock, or between two reads of  *)
(* what another thread changes.  The loop runs one task at a time, up to   *)
(* an await.  One thread opens the client.                                 *)
(*                                                                         *)
(* Abstractions.  A call is one await long; a stream gives MaxItems at     *)
(* most and then ends or fails.  Loops are numbered; 0 is none.            *)
(***************************************************************************)
EXTENDS Integers, Sequences, FiniteSets

CONSTANTS BufferSize, MaxItems, Opens

VARIABLES
  client,   \* _loop, _opened, _closing and _streams; opens: loops made so far; cutOff
            \* (history): loops stopped before what was left on them was cancelled
  loops,    \* per loop, whether its thread runs
  closer,   \* the thread that closes; marks: the snapshot it took had the stream
  call,     \* a thread in _run
  reader,   \* the thread that iterates over a stream
  pump,     \* the task that feeds it
  shared,   \* its queue, stop, finished and failure
  source    \* what the stream yielded, and how it ended

syncVars == <<client, loops, closer, call, reader, pump, shared, source>>

NoCall == [pc |-> "idle", loop |-> 0, future |-> "none"]
NewShared == [queue |-> <<>>, stop |-> FALSE, finished |-> FALSE, failure |-> "none"]
Init ==
  /\ client = [loop |-> 0, opened |-> FALSE, closing |-> FALSE, streams |-> FALSE, opens |-> 0,
               cutOff |-> {}]
  /\ loops = [l \in 1 .. Opens |-> FALSE]
  /\ closer = [pc |-> "idle", loop |-> 0, marks |-> FALSE]
  /\ call = NoCall
  /\ reader = [pc |-> "idle", got |-> 0, done |-> FALSE, ended |-> FALSE]
  /\ pump = [pc |-> "none", loop |-> 0, left |-> FALSE]
  /\ shared = NewShared
  /\ source = [yielded |-> 0, end |-> "none"]

-------------------------------------------------------------------------------
\* open: a new loop in a new thread, then the providers.
Open ==
  /\ ~client.opened /\ closer.pc = "idle" /\ client.loop = 0 /\ client.opens < Opens
  /\ client' = [client EXCEPT !.loop = client.opens + 1, !.opens = @ + 1]
  /\ loops' = [loops EXCEPT ![client.opens + 1] = TRUE]
  /\ UNCHANGED <<closer, call, reader, pump, shared, source>>
\* The providers open, or one does not and the loop is stopped again.
Opened ==
  /\ ~client.opened /\ client.loop # 0 /\ closer.pc = "idle"
  /\ \/ client' = [client EXCEPT !.opened = TRUE] /\ UNCHANGED closer
     \/ closer' = [closer EXCEPT !.pc = "stopping"] /\ UNCHANGED client
  /\ UNCHANGED <<loops, call, reader, pump, shared, source>>

\* close: nothing can be scheduled once it has begun; a second close returns at once.
CloseBegins ==
  /\ client.opened /\ ~client.closing /\ closer.pc = "idle"
  /\ client' = [client EXCEPT !.closing = TRUE]
  /\ closer' = [closer EXCEPT !.pc = "failing", !.marks = client.streams]
  /\ UNCHANGED <<loops, call, reader, pump, shared, source>>
Fails(s) == [s EXCEPT !.failure = IF @ = "none" THEN "closed" ELSE @]
Stops(s) == [s EXCEPT !.stop = TRUE]
FirstMark(s) == Fails(s)
SecondMark(s) == Stops(Fails(s))
CloseMarks ==
  /\ closer.pc \in {"failing", "marking"}
  /\ closer' = [closer EXCEPT !.pc = IF @ = "failing" THEN "marking" ELSE "providers"]
  /\ shared' = IF ~closer.marks THEN shared
               ELSE IF closer.pc = "failing" THEN FirstMark(shared) ELSE SecondMark(shared)
  /\ UNCHANGED <<client, loops, call, reader, pump, source>>
\* The providers close, on the loop.
CloseProviders ==
  /\ closer.pc = "providers"
  /\ closer' = [closer EXCEPT !.pc = "stopping"]
  /\ UNCHANGED <<client, loops, call, reader, pump, shared, source>>
\* _stop_thread.
StopTakesLoop ==
  /\ closer.pc = "stopping"
  /\ closer' = [closer EXCEPT !.pc = "canceling", !.loop = client.loop]
  /\ client' = [client EXCEPT !.loop = 0]
  /\ UNCHANGED <<loops, call, reader, pump, shared, source>>
\* cancel_rest: each task is cancelled; one that never took its first step runs no cleanup.
Cut(pc) == CASE pc = "scheduled" -> "dead"
             [] pc \in {"running", "full"} -> "canceled"
             [] OTHER -> pc
OnLoop(task) == task.loop = closer.loop
CancelRest ==
  /\ closer.pc = "canceling" /\ pump.pc # "putting"
  /\ closer' = [closer EXCEPT !.pc = "gathering"]
  /\ pump' = IF OnLoop(pump) THEN [pump EXCEPT !.pc = Cut(@)] ELSE pump
  /\ call' = IF OnLoop(call) /\ call.future = "pending"
             THEN [call EXCEPT !.future = "canceled"] ELSE call
  /\ UNCHANGED <<client, loops, reader, shared, source>>
\* The wait for them ends, or is given up; the loop stops either way.
StopLoop ==
  /\ closer.pc \in {"canceling", "gathering"}
  /\ loops' = [loops EXCEPT ![closer.loop] = FALSE]
  /\ closer' = [pc |-> "idle", loop |-> 0, marks |-> FALSE]
  /\ client' = [client EXCEPT !.opened = FALSE, !.closing = FALSE,
                              !.cutOff = @ \cup {l \in {closer.loop} : closer.pc = "canceling"}]
  /\ UNCHANGED <<call, reader, pump, shared, source>>

-------------------------------------------------------------------------------
\* _run.
CallStarts ==
  /\ call.pc = "idle"
  /\ call' = IF client.loop = 0 \/ client.closing
             THEN [call EXCEPT !.pc = "refused"]
             ELSE [pc |-> "waiting", loop |-> client.loop, future |-> "pending"]
  /\ UNCHANGED <<client, loops, closer, reader, pump, shared, source>>
CallRuns ==
  /\ call.future = "pending" /\ loops[call.loop]
  /\ call' = [call EXCEPT !.future = "done"]
  /\ UNCHANGED <<client, loops, closer, reader, pump, shared, source>>
SlipClosedMeanwhile(loop) == client.closing \/ client.loop = 0
ClosedMeanwhile(loop) == client.closing \/ client.loop # loop
CallReturns ==
  /\ call.pc = "waiting" /\ call.future \in {"done", "canceled"}
  /\ call' = [call EXCEPT !.pc = CASE call.future = "done" -> "returned"
                                   [] call.future = "canceled" /\ ClosedMeanwhile(call.loop)
                                        -> "closed"
                                   [] OTHER -> "canceled"]
  /\ UNCHANGED <<client, loops, closer, reader, pump, shared, source>>

-------------------------------------------------------------------------------
\* _iterate: generate, in the reader's thread.
ReaderStarts ==
  /\ reader.pc = "idle"
  /\ IF client.loop = 0 \/ ~client.opened \/ client.closing
     THEN reader' = [reader EXCEPT !.pc = "refused"] /\ UNCHANGED <<client, pump>>
     ELSE /\ reader' = [reader EXCEPT !.pc = "getting"]
          /\ client' = [client EXCEPT !.streams = TRUE]
          /\ pump' = [pump EXCEPT !.pc = "scheduled", !.loop = client.loop]
  /\ UNCHANGED <<loops, closer, call, shared, source>>
ReaderGets ==
  /\ reader.pc = "getting"
  /\ IF shared.queue # <<>>
     THEN /\ reader' = [reader EXCEPT !.got = @ + 1]
          /\ shared' = [shared EXCEPT !.queue = Tail(@)]
     ELSE reader' = [reader EXCEPT !.pc = "done?"] /\ UNCHANGED shared
  /\ UNCHANGED <<client, loops, closer, call, pump, source>>
PumpOver == pump.pc \in {"over", "dead"}
ReaderReadsDone ==
  /\ reader.pc = "done?"
  /\ reader' = [reader EXCEPT !.pc = "ended?", !.done = PumpOver]
  /\ UNCHANGED <<client, loops, closer, call, pump, shared, source>>
ReaderReadsEnded ==
  /\ reader.pc = "ended?"
  /\ reader' = [reader EXCEPT !.pc = "judging",
                              !.ended = shared.finished /\ shared.queue = <<>>]
  /\ UNCHANGED <<client, loops, closer, call, pump, shared, source>>
ReaderJudges ==
  /\ reader.pc = "judging"
  /\ reader' = [reader EXCEPT !.pc =
                  CASE shared.failure # "none" -> "raised"
                    [] shared.failure = "none" /\ reader.ended -> "returned"
                    [] shared.failure = "none" /\ ~reader.ended /\ reader.done
                         /\ ~shared.finished -> "raised"
                    [] OTHER -> "getting"]
  /\ UNCHANGED <<client, loops, closer, call, pump, shared, source>>
\* The caller leaves its loop at an item.
ReaderLeaves ==
  /\ reader.pc = "getting" /\ reader.got > 0
  /\ reader' = [reader EXCEPT !.pc = "left"]
  /\ UNCHANGED <<client, loops, closer, call, pump, shared, source>>
\* The cleanup of generate.
ReaderCleans ==
  /\ reader.pc \in {"raised", "returned", "left"} /\ ~pump.left
  /\ shared' = Stops(shared)
  /\ client' = [client EXCEPT !.streams = FALSE]
  /\ pump' = [pump EXCEPT !.left = TRUE,
                          !.pc = IF loops[pump.loop] THEN Cut(@) ELSE @]
  /\ UNCHANGED <<loops, closer, call, reader, source>>

\* pump, on the loop.
PumpStep == pump.loop # 0 /\ loops[pump.loop]
PumpTakes ==
  /\ PumpStep /\ pump.pc \in {"scheduled", "running"} /\ source.end = "none"
  /\ \/ /\ source.yielded < MaxItems
        /\ source' = [source EXCEPT !.yielded = @ + 1]
        /\ pump' = [pump EXCEPT !.pc = "putting"]
        /\ UNCHANGED shared
     \/ /\ source' = [source EXCEPT !.end = "ended"]
        /\ pump' = [pump EXCEPT !.pc = "finishing"]
        /\ UNCHANGED shared
     \/ /\ source' = [source EXCEPT !.end = "failed"]
        /\ pump' = [pump EXCEPT !.pc = "finishing"]
        /\ shared' = [shared EXCEPT !.failure = IF @ = "none" THEN "stream" ELSE @]
  /\ UNCHANGED <<client, loops, closer, call, reader>>
PumpPuts ==
  /\ PumpStep /\ pump.pc \in {"putting", "full"}
  /\ CASE shared.stop -> pump' = [pump EXCEPT !.pc = "finishing"] /\ UNCHANGED shared
       [] ~shared.stop /\ Len(shared.queue) < BufferSize ->
            /\ shared' = [shared EXCEPT !.queue = Append(@, source.yielded)]
            /\ pump' = [pump EXCEPT !.pc = "running"]
       [] OTHER -> pump' = [pump EXCEPT !.pc = "full"] /\ UNCHANGED shared
  /\ UNCHANGED <<client, loops, closer, call, reader, source>>
\* Its cleanup, then its future is done.
PumpFinishes ==
  /\ PumpStep /\ pump.pc \in {"finishing", "canceled"}
  /\ client' = [client EXCEPT !.streams = FALSE]
  /\ shared' = [shared EXCEPT !.finished = TRUE]
  /\ pump' = [pump EXCEPT !.pc = "cleaned"]
  /\ UNCHANGED <<loops, closer, call, reader, source>>
PumpOvers ==
  /\ PumpStep /\ pump.pc = "cleaned"
  /\ pump' = [pump EXCEPT !.pc = "over"]
  /\ UNCHANGED <<client, loops, closer, call, reader, shared, source>>

Next ==
  \/ Open \/ Opened \/ CloseBegins \/ CloseMarks \/ CloseProviders \/ StopTakesLoop
  \/ CancelRest \/ StopLoop \/ CallStarts \/ CallRuns \/ CallReturns
  \/ ReaderStarts \/ ReaderGets \/ ReaderReadsDone \/ ReaderReadsEnded \/ ReaderJudges
  \/ ReaderLeaves \/ ReaderCleans \/ PumpTakes \/ PumpPuts \/ PumpFinishes \/ PumpOvers
Spec == Init /\ [][Next]_syncVars

-------------------------------------------------------------------------------
\* An iterator that simply ends has given all that its stream had: one cut short by a
\* close, a failure or a cancellation raises instead (_iterate).
EndIsHonest ==
  reader.pc = "returned" => source.end = "ended" /\ reader.got = source.yielded
\* A reader of a stopped loop has what it needs to end.
NoReaderIsStranded ==
  reader.pc = "getting" /\ ~loops[pump.loop]
    => shared.queue # <<>> \/ shared.failure # "none" \/ shared.finished \/ PumpOver
\* A call that a close cancelled says so, even where the client is open again (_run).
CancelIsExplained == call.pc # "canceled"
\* A close leaves no caller waiting: what is left on the loop is cancelled before it stops
\* (the comment in _run).  It may not be: cancel_rest may be given up before it ran.
NoCallIsLeft == call.pc = "waiting" /\ call.future = "pending" => loops[call.loop]
\* With that one exception: the call was on a loop whose cancellation was given up.
NoCallIsStranded == call.loop \notin client.cutOff => NoCallIsLeft
\* Whatever order threads and loop take, a stream or a call that a close cuts short ends,
\* with an error that says so; a call does not where the close gave up before it cancelled
\* what was left on the loop (close, _stop_thread, _run, _iterate).
CutShortMeansRaised ==
  EndIsHonest /\ NoReaderIsStranded /\ CancelIsExplained /\ NoCallIsStranded
===============================================================================
