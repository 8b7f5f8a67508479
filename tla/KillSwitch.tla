------------------------------ MODULE KillSwitch ------------------------------
(***************************************************************************)
(* The kill switch of src/ismet/execution/manager.py: one order manager's  *)
(* memory of it, its journal, and the other processes that share that      *)
(* journal.  Engages, a release, the kill loop and the check of a submit   *)
(* run as tasks of one event loop, and every journal call is an await: the *)
(* executor runs them one at a time, in order, and the loop resumes their  *)
(* callers in the same order, so whatever a task read before may be stale. *)
(*                                                                         *)
(* Abstractions.  engaged and cancel_open are one width, as the code only  *)
(* ever uses cancel_open of an engaged switch.  Reasons and operators are  *)
(* left out.  "is" between two states is equality: a state that was left   *)
(* and comes back has a later seq.  Records of other kinds do not move the *)
(* seq.  Tampering is left out: a verification is sound, or it fails.      *)
(***************************************************************************)
EXTENDS Integers, Sequences, FiniteSets

CONSTANTS Engagers,       \* tasks that may engage the switch
          MaxEngages,     \* how often this process engages it
          MaxReleases,    \* how often this process releases it
          MaxElsewhere,   \* how often another process engages it
          MaxElsewhereReleases, \* how often another process releases it
          MaxWriteFaults, \* how often a journal write may fail
          MaxReadFaults,  \* how often a read or a verification may fail
          MaxCrashes      \* how often the process may die

ASSUME EngagersAreTasks == Engagers \cap {"release", "loop", "check"} = {}
ASSUME BoundsAreNaturals ==
  {MaxEngages, MaxReleases, MaxElsewhere, MaxElsewhereReleases,
   MaxWriteFaults, MaxReadFaults, MaxCrashes} \subseteq Nat

Off == 0      \* trading
Halted == 1   \* no new orders
Sweeping == 2 \* no new orders, and what is open is cancelled
Widths == {Off, Halted, Sweeping}

KillStates == [width : Widths, seq : Nat]
Mergers == {"loop", "check"}
Tasks == Engagers \cup {"release"} \cup Mergers

Wider(a, b) == IF a >= b THEN a ELSE b
Narrower(a, b) == IF a >= b THEN b ELSE a

\* An engage only widens until a release.
AfterRecord(state, width) ==
  [width |-> IF width = Off THEN Off ELSE Wider(width, state.width), seq |-> state.seq + 1]

VARIABLES
  journal,    \* the kill state a reading of the journal gives
  kill,       \* the kill state in memory
  unrecorded, \* the width of an engage the journal may not have yet, or Off
  superseded, \* whether unrecorded was replaced since its write began
  failed,     \* whether a kill record could not be written: refuses trading
  at,         \* the pc of each task
  want,       \* the width each engage asks for
  held,       \* the kill state each task set out from
  found,      \* the release each task is verifying
  ready,      \* engages whose settling has not begun: the loop starts tasks in order
  calls,      \* journal calls not yet back at their caller, oldest first
  budget,
  asked,      \* history: the widest engage since the last release
  binds,      \* history: how much of it the process can be held to
  mustRefuse  \* history: the journal was engaged when the check began

taskVars == <<at, want, held, found, ready>>
memoryVars == <<kill, unrecorded, superseded, failed>>
historyVars == <<asked, binds, mustRefuse>>
vars == <<journal, memoryVars, taskVars, calls, budget, historyVars>>

Spend(what) == budget[what] > 0 /\ budget' = [budget EXCEPT ![what] = @ - 1]

Engaging == \E e \in Engagers : at[e] # "idle"

-------------------------------------------------------------------------------
\* Journal calls.
Call(task, op, width) ==
  [task |-> task, op |-> op, width |-> width, done |-> FALSE, ok |-> FALSE,
   state |-> [width |-> Off, seq |-> 0]]

Answered(task) == calls # <<>> /\ Head(calls).task = task /\ Head(calls).done
Answer == Head(calls)

Answering(i, ok, state) ==
  calls' = [calls EXCEPT ![i].done = TRUE, ![i].ok = ok, ![i].state = state]

\* A release ends what was asked before it, from the moment it is asked or recorded.
Forgets(width) ==
  /\ asked' = IF width = Off THEN Off ELSE asked
  /\ mustRefuse' = (mustRefuse /\ width # Off)

\* An engage that this process's release overtook may undo what is asked after it, one that
\* lands on a wider one from elsewhere leaves memory narrower than the journal, and a
\* release elsewhere is unknown here, until the next release of this process.
Overtakes(width) ==
  binds' = IF width = Off THEN IF Engaging THEN Halted ELSE Sweeping
           ELSE IF width < journal.width THEN Narrower(binds, Halted) ELSE binds

JournalWorks ==
  /\ \E i \in DOMAIN calls :
       /\ ~calls[i].done /\ \A j \in 1..(i - 1) : calls[j].done
       /\ \/ /\ calls[i].op = "read" /\ Answering(i, TRUE, journal)
             /\ UNCHANGED <<journal, budget, historyVars>>
          \/ /\ calls[i].op = "verify" /\ Answering(i, TRUE, journal)
             /\ UNCHANGED <<journal, budget, historyVars>>
          \/ /\ calls[i].op = "append"
             /\ journal' = AfterRecord(journal, calls[i].width)
             /\ Answering(i, TRUE, journal')
             /\ Forgets(calls[i].width) /\ Overtakes(calls[i].width)
             /\ UNCHANGED budget
          \/ /\ Spend(IF calls[i].op = "append" THEN "writes" ELSE "reads")
             /\ Answering(i, FALSE, journal)
             /\ UNCHANGED <<journal, historyVars>>
  /\ UNCHANGED <<memoryVars, taskVars>>

\* The CLI or another order manager.
EngageElsewhere ==
  /\ Spend("elsewhere")
  /\ \E width \in {Halted, Sweeping} : journal' = AfterRecord(journal, width)
  /\ UNCHANGED <<memoryVars, taskVars, calls, historyVars>>
ReleaseElsewhere ==
  /\ Spend("elsewhereReleases")
  /\ journal' = AfterRecord(journal, Off) /\ Forgets(Off) /\ binds' = Off
  /\ UNCHANGED <<memoryVars, taskVars, calls>>

-------------------------------------------------------------------------------
\* What a read of the journal says against memory.  A release is verified first.
NeedsVerify(memory, durable) ==
  durable.seq > memory.seq /\ durable.width = Off /\ memory.width # Off

SlipNewer(memory, durable) == IF durable.seq > memory.seq THEN durable ELSE memory
Newer(memory, durable) ==
  IF \/ durable.seq > memory.seq
     \/ durable.seq = memory.seq /\ durable.width = Sweeping /\ memory.width # Sweeping
  THEN durable ELSE memory

\* One write of an engage at a time.
Recording == \E t \in Tasks : at[t] = "recording"

\* The kill loop reads the journal after its write, an engage is over.
EndsRecord(t, rest) ==
  IF t = "loop"
  THEN at' = [at EXCEPT ![t] = "reading"] /\ calls' = Append(rest, Call(t, "read", Off))
  ELSE at' = [at EXCEPT ![t] = "idle"] /\ calls' = rest

WritesRecord(t, rest, payload) ==
  /\ at' = [at EXCEPT ![t] = "recording"]
  /\ calls' = Append(rest, Call(t, "append", payload))
  /\ superseded' = FALSE

TakesRecordLock(t) ==
  /\ at[t] = "waiting" /\ ~Recording
  /\ IF unrecorded = Off THEN EndsRecord(t, calls) /\ UNCHANGED superseded
                         ELSE WritesRecord(t, calls, unrecorded)
  /\ UNCHANGED <<journal, kill, unrecorded, failed, want, held, found, ready, budget, historyVars>>

\* A write that fails is tried again by the kill loop.  One that was superseded
\* leaves memory to whoever superseded it.
Recorded(t) ==
  /\ at[t] = "recording" /\ Answered(t)
  /\ \/ /\ Answer.ok /\ ~superseded
        /\ unrecorded' = Off /\ kill' = [width |-> Answer.width, seq |-> Answer.state.seq]
        /\ UNCHANGED failed
     \/ Answer.ok /\ superseded /\ UNCHANGED <<kill, unrecorded, failed>>
     \/ ~Answer.ok /\ failed' = TRUE /\ UNCHANGED <<kill, unrecorded>>
  /\ EndsRecord(t, Tail(calls))
  /\ UNCHANGED <<journal, superseded, want, held, found, ready, budget, historyVars>>

-------------------------------------------------------------------------------
\* Engage: memory first, then the judgment against the journal, then the record.
Asks(width) ==
  IF at["release"] = "idle"
  THEN asked' = Wider(asked, width) /\ UNCHANGED binds
  ELSE binds' = Narrower(binds, Halted) /\ UNCHANGED asked
SlipSettleFirst(e, width) ==
  /\ at[e] = "idle" /\ Spend("engages")
  /\ want' = [want EXCEPT ![e] = width] /\ held' = [held EXCEPT ![e] = kill]
  /\ at' = [at EXCEPT ![e] = "settling"] /\ ready' = Append(ready, e)
  /\ Asks(width)
  /\ UNCHANGED <<journal, memoryVars, found, calls, mustRefuse>>
EngageKill(e, width) ==
  /\ at[e] = "idle" /\ Spend("engages")
  /\ want' = [want EXCEPT ![e] = width] /\ held' = [held EXCEPT ![e] = kill]
  /\ kill' = IF kill.width = Off THEN [kill EXCEPT !.width = width] ELSE kill
  /\ at' = [at EXCEPT ![e] = "settling"] /\ ready' = Append(ready, e)
  /\ Asks(width)
  /\ UNCHANGED <<journal, unrecorded, superseded, failed, found, calls, mustRefuse>>

\* What is there is enough, or this engage is the one to record.
Decides(e, current, pending, rest) ==
  /\ IF current.width >= want[e]
     THEN /\ kill' = IF pending THEN kill ELSE current
          /\ at' = [at EXCEPT ![e] = "idle"] /\ calls' = rest
          /\ UNCHANGED <<unrecorded, superseded>>
     ELSE /\ kill' = [width |-> want[e], seq |-> current.seq]
          /\ unrecorded' = want[e]
          /\ IF Recording
             THEN /\ at' = [at EXCEPT ![e] = "waiting"] /\ calls' = rest
                  /\ superseded' = TRUE
             ELSE WritesRecord(e, rest, want[e])
  /\ UNCHANGED <<journal, failed, want, held, budget, historyVars>>

SettleKill(e) ==
  /\ at[e] = "settling" /\ Head(ready) = e /\ ready' = Tail(ready)
  /\ IF unrecorded # Off
     THEN Decides(e, held[e], TRUE, calls)
     ELSE /\ at' = [at EXCEPT ![e] = "reading"]
          /\ calls' = Append(calls, Call(e, "read", Off))
          /\ UNCHANGED <<journal, memoryVars, want, held, budget, historyVars>>
  /\ UNCHANGED found

\* Another engage or a release may have decided while this one read.
Current(durable) ==
  IF unrecorded # Off \/ kill.seq > durable.seq THEN kill ELSE durable

\* With the journal down, memory stands.
SettleRead(e) ==
  /\ at[e] = "reading" /\ Answered(e)
  /\ IF Answer.ok /\ NeedsVerify(held[e], Answer.state)
     THEN /\ found' = [found EXCEPT ![e] = Answer.state]
          /\ at' = [at EXCEPT ![e] = "verifying"]
          /\ calls' = Append(Tail(calls), Call(e, "verify", Off))
          /\ UNCHANGED <<journal, memoryVars, want, held, ready, budget, historyVars>>
     ELSE /\ Decides(e, Current(IF Answer.ok THEN Newer(held[e], Answer.state) ELSE held[e]),
                     FALSE, Tail(calls))
          /\ UNCHANGED <<found, ready>>

SettleVerified(e) ==
  /\ at[e] = "verifying" /\ Answered(e)
  /\ Decides(e, Current(IF Answer.ok THEN found[e] ELSE held[e]), FALSE, Tail(calls))
  /\ UNCHANGED <<found, ready>>

-------------------------------------------------------------------------------
\* Release, by a named operator: on record first.
StartRelease ==
  /\ at["release"] = "idle" /\ Spend("releases")
  /\ at' = [at EXCEPT !["release"] = "releasing"]
  /\ calls' = Append(calls, Call("release", "append", Off))
  /\ Forgets(Off)
  /\ UNCHANGED <<journal, memoryVars, want, held, found, ready, binds>>

ReleaseKill ==
  /\ at["release"] = "releasing" /\ Answered("release")
  /\ IF Answer.ok
     THEN /\ kill' = [width |-> Off, seq |-> Answer.state.seq]
          /\ unrecorded' = Off /\ superseded' = TRUE
     ELSE UNCHANGED <<kill, unrecorded, superseded>>
  /\ at' = [at EXCEPT !["release"] = "idle"] /\ calls' = Tail(calls)
  /\ UNCHANGED <<journal, failed, want, held, found, ready, budget, historyVars>>

-------------------------------------------------------------------------------
\* The kill loop writes what is unrecorded, then adopts what the journal says; the
\* check before a submit only adopts.
KillLoop ==
  /\ at["loop"] = "idle"
  /\ IF Recording
     THEN at' = [at EXCEPT !["loop"] = "waiting"] /\ UNCHANGED <<calls, superseded>>
     ELSE IF unrecorded = Off
          THEN EndsRecord("loop", calls) /\ UNCHANGED superseded
          ELSE WritesRecord("loop", calls, unrecorded)
  /\ UNCHANGED <<journal, kill, unrecorded, failed, want, held, found, ready, budget, historyVars>>

CheckCanTrade ==
  /\ at["check"] = "idle"
  /\ at' = [at EXCEPT !["check"] = "reading"]
  /\ calls' = Append(calls, Call("check", "read", Off))
  /\ mustRefuse' = (journal.width # Off)
  /\ UNCHANGED <<journal, memoryVars, want, held, found, ready, budget, asked, binds>>

\* Only a newer state replaces memory, and never while an engage is unrecorded or,
\* if it is a release, under way.
MergeKill(m) ==
  /\ at[m] = "reading" /\ Answered(m)
  /\ LET durable == Answer.state
         believed == Answer.ok /\ unrecorded = Off /\ ~(Engaging /\ durable.width = Off)
     IN  IF believed /\ NeedsVerify(kill, durable)
         THEN /\ held' = [held EXCEPT ![m] = kill] /\ found' = [found EXCEPT ![m] = durable]
              /\ at' = [at EXCEPT ![m] = "verifying"]
              /\ calls' = Append(Tail(calls), Call(m, "verify", Off))
              /\ UNCHANGED kill
         ELSE /\ kill' = IF believed THEN Newer(kill, durable) ELSE kill
              /\ at' = [at EXCEPT ![m] = "idle"] /\ calls' = Tail(calls)
              /\ UNCHANGED <<held, found>>
  /\ UNCHANGED <<journal, unrecorded, superseded, failed, want, ready, budget, historyVars>>

SlipMergeVerified(m) ==
  /\ at[m] = "verifying" /\ Answered(m)
  /\ kill' = IF Answer.ok /\ kill = held[m] /\ unrecorded = Off THEN found[m] ELSE kill
  /\ at' = [at EXCEPT ![m] = "idle"] /\ calls' = Tail(calls)
  /\ UNCHANGED <<journal, unrecorded, superseded, failed, want, held, found, ready, budget,
                 historyVars>>
MergeVerified(m) ==
  /\ at[m] = "verifying" /\ Answered(m)
  /\ kill' = IF Answer.ok /\ ~Engaging /\ kill = held[m] /\ unrecorded = Off
             THEN found[m] ELSE kill
  /\ at' = [at EXCEPT ![m] = "idle"] /\ calls' = Tail(calls)
  /\ UNCHANGED <<journal, unrecorded, superseded, failed, want, held, found, ready, budget,
                 historyVars>>

\* What the process must keep of what was asked of it.
Promised == Narrower(asked, binds)

\* A kill that was never recorded dies with the process.
CrashAndRecover ==
  /\ Spend("crashes")
  /\ kill' = journal /\ unrecorded' = Off /\ superseded' = FALSE /\ failed' = FALSE
  /\ at' = [t \in Tasks |-> "idle"] /\ ready' = <<>> /\ calls' = <<>>
  /\ asked' = IF Engaging \/ unrecorded # Off THEN Off ELSE Promised
  /\ binds' = Sweeping /\ mustRefuse' = FALSE
  /\ UNCHANGED <<journal, want, held, found>>

-------------------------------------------------------------------------------
Init ==
  /\ journal = [width |-> Off, seq |-> 0]
  /\ kill = journal /\ unrecorded = Off /\ superseded = FALSE /\ failed = FALSE
  /\ at = [t \in Tasks |-> "idle"] /\ want = [e \in Engagers |-> Off]
  /\ held = [t \in Tasks |-> journal] /\ found = [t \in Tasks |-> journal]
  /\ ready = <<>> /\ calls = <<>>
  /\ budget = [engages |-> MaxEngages, releases |-> MaxReleases,
               elsewhere |-> MaxElsewhere, elsewhereReleases |-> MaxElsewhereReleases,
               writes |-> MaxWriteFaults, reads |-> MaxReadFaults, crashes |-> MaxCrashes]
  /\ asked = Off /\ binds = Sweeping /\ mustRefuse = FALSE

EngageStep(e) == SettleKill(e) \/ SettleRead(e) \/ SettleVerified(e)
RecordStep(t) == TakesRecordLock(t) \/ Recorded(t)
MergeStep(m) == MergeKill(m) \/ MergeVerified(m)

Next ==
  \/ \E e \in Engagers : (\E width \in {Halted, Sweeping} : EngageKill(e, width)) \/ EngageStep(e)
  \/ \E t \in Engagers \cup {"loop"} : RecordStep(t)
  \/ StartRelease \/ ReleaseKill
  \/ KillLoop \/ CheckCanTrade
  \/ \E m \in Mergers : MergeStep(m)
  \/ JournalWorks
  \/ EngageElsewhere \/ ReleaseElsewhere
  \/ CrashAndRecover

Spec == Init /\ [][Next]_vars

\* The executor and the event loop keep running what was started, and the kill loop
\* goes round.  Nobody has to engage, to release or to submit.
FairSpec ==
  /\ Spec
  /\ WF_vars(JournalWorks)
  /\ \A e \in Engagers : WF_vars(EngageStep(e))
  /\ \A t \in Engagers \cup {"loop"} : WF_vars(RecordStep(t))
  /\ WF_vars(ReleaseKill) /\ WF_vars(KillLoop)
  /\ \A m \in Mergers : WF_vars(MergeStep(m))

-------------------------------------------------------------------------------
(***************************************************************************)
(* Properties.                                                             *)
(***************************************************************************)
Pcs == {"idle", "settling", "reading", "verifying", "waiting", "recording", "releasing"}

\* The variables keep their types; memory is never ahead of the journal.
TypeOK ==
  /\ journal \in KillStates /\ kill \in KillStates /\ kill.seq <= journal.seq
  /\ unrecorded \in Widths /\ superseded \in BOOLEAN /\ failed \in BOOLEAN
  /\ at \in [Tasks -> Pcs] /\ want \in [Engagers -> Widths]
  /\ held \in [Tasks -> KillStates] /\ found \in [Tasks -> KillStates]
  /\ \A i \in DOMAIN calls : calls[i].task \in Tasks /\ calls[i].state \in KillStates
  /\ asked \in Widths /\ binds \in Widths /\ mustRefuse \in BOOLEAN

\* Engaging stops new orders at once (engage_kill): from its call until a release is asked
\* for, here or elsewhere, memory refuses orders, and no journal read, however stale,
\* switches it off.
StaysStopped == Promised # Off => kill.width # Off

\* An engage that asked for a sweep keeps it, once it is settled: a later halt, a
\* slower write or another process's narrower engage does not stop the cancels.
StaysSweeping == ~Engaging => kill.width >= Promised

\* A settled engage with nothing left to write is in the journal, as wide as it was
\* asked for: a crash at any point loses only what was still unrecorded.
SettledEngageIsDurable == ~Engaging /\ unrecorded = Off => journal.width >= Promised

\* A kill that was asked for is neither switched off, narrowed nor lost, by whatever
\* races it, until a release is asked for (engage_kill, _settle_kill, _record_kill).
EngageStays == StaysStopped /\ StaysSweeping /\ SettledEngageIsDurable

\* "a later automatic halt cannot stop a cancel sweep an operator asked for" (the
\* docstring of engage_kill), whatever engage a release overtook: the code breaks it.
SweepStays == asked = Sweeping /\ binds # Off /\ ~Engaging => kill.width = Sweeping

CheckPasses ==
  /\ at["check"] # "idle" /\ at'["check"] = "idle"
  /\ at["check"] = "reading" => Answered("check") /\ Answer.ok
  /\ kill'.width = Off /\ ~failed

\* A check refuses a switch that was engaged in the journal, by whichever process,
\* when the check began (_check_can_trade).
CheckRefusesRecordedKill == [][CheckPasses => ~mustRefuse]_vars

\* While an engage is under way, only this process's own release switches memory off,
\* never a read of the journal: the engage reads the release itself (_merge_kill).
EngageUnderWayHolds ==
  [][Engaging' /\ kill.width # Off /\ kill'.width = Off
       => at["release"] = "releasing" /\ Answered("release") /\ Answer.ok]_vars

\* What the journal tells, early or late, never lets an order past an engage that was on
\* record or under way (_check_can_trade, _merge_kill).
EngagesBind == CheckRefusesRecordedKill /\ EngageUnderWayHolds

\* Once nobody engages or releases any more, memory ends up at the journal's state.
EventuallyOnRecord == <>[](unrecorded = Off /\ kill = journal)
===============================================================================
